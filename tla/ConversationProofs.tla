------------------------- MODULE ConversationProofs -------------------------
(***************************************************************************)
(* What holds of SessionTurns, of every instance of BotRuntime and of      *)
(* Analytics, for any number of turns, admins, processes, sessions, saves, *)
(* messages and days: the count of a session follows its messages, the bot *)
(* speaks while nobody holds it, the feed names the holder; a save leaves  *)
(* no older handler behind, and a turn finds its handler, unless something *)
(* raced it; the cards of the analytics page add up and agree.             *)
(***************************************************************************)
EXTENDS Conversation, FiniteSetTheorems, TLAPS

(* The session's row.                                                        *)
RowFits ==
  /\ session.holder # Nobody => session.exists
  /\ ~ session.exists => session.count = 0
  /\ \A a \in Admin : request[a].pc \notin {"idle", "check"} => session.exists
  /\ \A t \in Turn : turn[t].seen # Nobody => session.exists

(* A turn that began while somebody held the session, and found no break, is
   silent, or could not read the flag or store its message; one that found
   nobody is not silent.      *)
TurnFits(t) ==
  /\ turn[t].held => session.holder # Nobody
  /\ turn[t].free => session.holder = Nobody
  /\ turn[t].held => turn[t].pc \in {"idle", "gate", "done"} \/ turn[t].silent \/ turn[t].failed
  /\ turn[t].silent => turn[t].role = "user" /\ turn[t].pc \in InsertSteps /\ ~ turn[t].free
  /\ turn[t].pc \in {"gate", "model"} => turn[t].role = "user"

(* Requests that did not overlap: one at a time, whose effect stays.         *)
Replying(a) == request[a].pc \in InsertSteps
Alone ==
  "admins" \notin past =>
    /\ \A a, b \in Admin : ~ Asks(a, "idle") /\ ~ Asks(b, "idle") => a = b
    /\ \A a \in Admin : Replying(a) => session.holder = a
    /\ \A a \in Admin : Asks(a, "publish") =>
         session.holder = IF request[a].kind = "takeover" THEN a ELSE Nobody
    /\ (\A a \in Admin : ~ Asks(a, "publish")) => feed = session.holder

(* What each insert has read, and how many rows are counted or lost.         *)
Pending == {turn[t].seen : t \in {u \in Turn : At(u, "write")}}
           \cup {request[a].seen : a \in {b \in Admin : Asks(b, "write")}}
Behind == Len(log) - Cardinality(Inserting)
Counting ==
  /\ session.count <= Behind
  /\ \A n \in Pending : n # Nobody => n <= Behind
  /\ "uncounted" \notin past =>
       /\ Cardinality(Inserting) <= 1 /\ session.count = Behind
       /\ \A n \in Pending : n = ReadSession

(* The rows a turn leaves.                                                   *)
Before(t) == turn[t].pc \in {"idle", "gate", "model"} \/ (At(t, "row") /\ turn[t].role = "user")
After(t) == turn[t].pc \in {"read", "write"} \/ (At(t, "row") /\ turn[t].role = "assistant")
HasRow(t) == \E i \in DOMAIN log : IsRow(i, t, "user")
Stored(t) ==
  /\ \A i, j \in DOMAIN log : IsRow(i, t, "user") /\ IsRow(j, t, "user") => i = j
  /\ \A i \in DOMAIN log : IsRow(i, t, "assistant") => \E j \in 1..(i - 1) : IsRow(j, t, "user")
  /\ Before(t) => ~ HasRow(t)
  /\ After(t) => HasRow(t)

IInv ==
  /\ TypeOK /\ RowFits /\ Alone /\ Counting
  /\ \A t \in Turn : TurnFits(t) /\ Stored(t)

-----------------------------------------------------------------------------
(* The finite sets.                                                          *)
LEMMA InsertingFinite ==
  ASSUME SessionAssumption PROVE IsFiniteSet(Inserting) /\ Cardinality(Inserting) \in Nat
<1>1. IsFiniteSet(Turn \cup Admin) /\ Inserting \subseteq Turn \cup Admin
  BY FS_Union DEF SessionAssumption, Inserting
<1> QED BY <1>1, FS_Subset, FS_CardinalityType

LEMMA InitIInv == ASSUME SessionAssumption, Init PROVE IInv
<1>1. TypeOK
  BY DEF SessionAssumption, Init, TypeOK, NoSession, NoTurn, NoRequest, Turns, Requests, InsertSteps, Kinds
<1>2. RowFits /\ Alone /\ \A t \in Turn : TurnFits(t) /\ Stored(t)
  BY DEF SessionAssumption, Init, RowFits, Alone, TurnFits, Stored, Before, After, HasRow, NoSession, NoTurn, NoRequest,
         InsertSteps, Asks, Replying, At
<1>3. Inserting = {} /\ Pending = {} /\ log = <<>> /\ session.count = 0
  BY DEF Init, Inserting, Pending, NoTurn, NoRequest, NoSession, At, Asks
<1>4. Counting
  BY <1>3, FS_EmptySet DEF Counting, Behind
<1> QED BY <1>1, <1>2, <1>4 DEF IInv
-----------------------------------------------------------------------------
(* Types: the records, and what a step does to them. *)
LEMMA Records ==
  ASSUME SessionAssumption
  PROVE  /\ NoTurn \in Turns /\ NoRequest \in Requests
         /\ NoTurn.pc = "idle" /\ NoTurn.role = "user" /\ NoTurn.seen = Nobody
         /\ ~ NoTurn.silent /\ ~ NoTurn.held /\ ~ NoTurn.free /\ ~ NoTurn.failed
         /\ NoRequest.pc = "idle" /\ NoRequest.seen = Nobody
BY DEF NoTurn, NoRequest, Turns, Requests, InsertSteps, Kinds

SessionType == [exists : BOOLEAN, count : Nat, holder : Admin \cup {Nobody},
                resolver : Admin \cup {Nobody}]

LEMMA UpsertType ==
  ASSUME TypeOK, NEW seen \in Nat \cup {Nobody}, Upsert(seen), seen # Nobody => session.exists
  PROVE  /\ session' \in SessionType
         /\ session'.holder = session.holder /\ (session.exists => session'.exists)
         /\ past' \in {past, past \cup {"uncounted"}}
         /\ session' = session \/ session'.exists
<1>1. PICK upd \in UpsertOutcomes(seen) : session' = upd /\ past' \in {past, past \cup {"uncounted"}}
  BY DEF Upsert
<1>2. upd = Counted(seen) \/ upd = session
  BY DEF UpsertOutcomes
<1>3. session \in SessionType
  BY DEF TypeOK, SessionType
<1>4. CASE upd = session
  BY <1>1, <1>3, <1>4
<1>5. CASE upd = [session EXCEPT !.count = seen + 1] /\ seen \in Nat /\ session.exists
  BY <1>1, <1>3, <1>5 DEF SessionType
<1>6. CASE upd = [session EXCEPT !.exists = TRUE, !.count = 1]
  BY <1>1, <1>3, <1>6 DEF SessionType
<1> QED BY <1>1, <1>2, <1>4, <1>5, <1>6 DEF Counted

LEMMA RowType ==
  ASSUME TypeOK, NEW who \in Turn \cup Admin, NEW o \in {"user", "assistant"}, InsertRow(who, o)
  PROVE  /\ log' \in Seq([by : Turn \cup Admin, role : {"user", "assistant"}])
         /\ DOMAIN log \subseteq DOMAIN log'
         /\ past' \in {past, past \cup {"uncounted"}}
BY DEF TypeOK, InsertRow, Row

(* One record goes on.                                                       *)
TurnBecomes(t, q) == q \in Turns /\ turn' = [turn EXCEPT ![t] = q]
RequestBecomes(a, q) == q \in Requests /\ request' = [request EXCEPT ![a] = q]

LEMMA TurnMoves ==
  ASSUME SessionAssumption, TypeOK, NEW t \in Turn, Begin(t) \/ TurnStep(t)
  PROVE  \E q : TurnBecomes(t, q)
<1>0. turn[t] \in Turns /\ ReadSession \in Nat \cup {Nobody}
  BY DEF TypeOK, ReadSession
<1>1. CASE Begin(t)
  <2> DEFINE q == [NoTurn EXCEPT !.pc = "gate", !.held = session.holder # Nobody,
                                 !.free = session.holder = Nobody]
  <2>1. q \in Turns
    BY Records DEF Turns
  <2> QED BY <1>1, <2>1 DEF Begin, TurnBecomes
<1>2. ASSUME NEW pc \in {"model", "row", "read"}, Goto(t, pc) PROVE \E q : TurnBecomes(t, q)
  <2>1. [turn[t] EXCEPT !.pc = pc] \in Turns
    BY <1>0 DEF Turns, InsertSteps
  <2> QED BY <1>2, <2>1 DEF Goto, TurnBecomes
<1>3. CASE End(t)
  <2>1. [NoTurn EXCEPT !.pc = "done"] \in Turns
    BY Records DEF Turns
  <2> QED BY <1>3, <2>1 DEF End, TurnBecomes
<1>4. CASE TurnReads(t)
  <2>1. [turn[t] EXCEPT !.pc = "write", !.seen = ReadSession] \in Turns
    BY <1>0 DEF Turns, InsertSteps
  <2> QED BY <1>4, <2>1 DEF TurnReads, TurnBecomes
<1>5. CASE TurnUpserts(t) /\ ~ End(t)
  <2>1. [turn[t] EXCEPT !.pc = "row", !.seen = Nobody, !.role = "assistant"] \in Turns
    BY <1>0 DEF Turns, InsertSteps
  <2> QED BY <1>5, <2>1 DEF TurnUpserts, TurnBecomes
<1>6. CASE TurnInsertFails(t) /\ ~ End(t)
  <2>1. [turn[t] EXCEPT !.pc = "model", !.silent = FALSE, !.failed = TRUE] \in Turns
    BY <1>0 DEF Turns
  <2> QED BY <1>6, <2>1 DEF TurnInsertFails, TurnBecomes
<1>7. CASE Gate(t) /\ ~ Goto(t, "model")
  <2>1. [turn[t] EXCEPT !.pc = "row", !.silent = TRUE] \in Turns
    BY <1>0 DEF Turns, InsertSteps
  <2> QED BY <1>7, <2>1 DEF Gate, TurnBecomes
<1>8. CASE GateFails(t)
  <2>1. [turn[t] EXCEPT !.pc = "model", !.failed = TRUE] \in Turns
    BY <1>0 DEF Turns
  <2> QED BY <1>8, <2>1 DEF GateFails, TurnBecomes
<1> QED
  BY <1>1, <1>2, <1>3, <1>4, <1>5, <1>6, <1>7, <1>8 DEF TurnStep, Unavailable, Gate, GateFails, Model, NoAnswer, TurnInserts,
     TurnInsertFails, TurnUpserts

LEMMA RequestMoves ==
  ASSUME SessionAssumption, TypeOK, NEW a \in Admin, RequestStep(a) \/ \E kind \in Kinds : Ask(a, kind)
  PROVE  \E q : RequestBecomes(a, q)
<1>0. request[a] \in Requests /\ ReadSession \in Nat \cup {Nobody}
  BY DEF TypeOK, ReadSession
<1>1. ASSUME NEW kind \in Kinds, Ask(a, kind) PROVE \E q : RequestBecomes(a, q)
  <2>1. [NoRequest EXCEPT !.pc = "check", !.kind = kind] \in Requests
    BY Records DEF Requests
  <2> QED BY <1>1, <2>1 DEF Ask, RequestBecomes
<1>2. ASSUME NEW pc \in {"row", "update", "publish", "read"}, Step(a, pc) PROVE \E q : RequestBecomes(a, q)
  <2>1. [request[a] EXCEPT !.pc = pc] \in Requests
    BY <1>0 DEF Requests, InsertSteps
  <2> QED BY <1>2, <2>1 DEF Step, RequestBecomes
<1>3. CASE Done(a)
  BY <1>3, Records DEF Done, RequestBecomes
<1>4. CASE ReplyReads(a)
  <2>1. [request[a] EXCEPT !.pc = "write", !.seen = ReadSession] \in Requests
    BY <1>0 DEF Requests, InsertSteps
  <2> QED BY <1>4, <2>1 DEF ReplyReads, RequestBecomes
<1> QED
  BY <1>1, <1>2, <1>3, <1>4 DEF RequestStep, Check, Update, Publish, ReplyInserts, ReplyFails, ReplyUpserts

LEMMA UpdateTurns ==
  ASSUME TypeOK, NEW a \in Admin, Update(a)
  PROVE  /\ session' \in SessionType /\ session'.count = session.count /\ session'.exists = session.exists
         /\ turn' \in [Turn -> Turns]
         /\ \A t \in Turn : /\ turn'[t].held = (turn[t].held /\ session'.holder # Nobody)
                            /\ turn'[t].free = (turn[t].free /\ session'.holder = Nobody)
                            /\ turn'[t].pc = turn[t].pc /\ turn'[t].role = turn[t].role
                            /\ turn'[t].silent = turn[t].silent /\ turn'[t].seen = turn[t].seen
                            /\ turn'[t].failed = turn[t].failed
<1>1. session' = Taken(a) /\ session \in SessionType
  BY DEF Update, TypeOK, SessionType
<1>2. \E who \in Admin \cup {Nobody} : session' = SetTakeover(who) \/ session' = MarkResolved(who)
  BY <1>1 DEF Taken
<1>3. session' \in SessionType /\ session'.count = session.count /\ session'.exists = session.exists
  BY <1>1, <1>2 DEF SetTakeover, MarkResolved, SessionType
<1>4. ASSUME NEW t \in Turn
      PROVE  /\ turn'[t] \in Turns
             /\ turn'[t].held = (turn[t].held /\ session'.holder # Nobody)
             /\ turn'[t].free = (turn[t].free /\ session'.holder = Nobody)
             /\ turn'[t].pc = turn[t].pc /\ turn'[t].role = turn[t].role
             /\ turn'[t].silent = turn[t].silent /\ turn'[t].seen = turn[t].seen
             /\ turn'[t].failed = turn[t].failed
  <2>1. turn[t] \in Turns
    BY DEF TypeOK
  <2>2. turn'[t] = [turn[t] EXCEPT !.held = turn[t].held /\ session'.holder # Nobody,
                                   !.free = turn[t].free /\ session'.holder = Nobody]
    BY <1>1 DEF Update
  <2> QED BY <2>1, <2>2 DEF Turns
<1> QED BY <1>3, <1>4 DEF Update

LEMMA TypeStep == ASSUME SessionAssumption, TypeOK, RowFits, [Next]_vars PROVE TypeOK'
<1>1. CASE UNCHANGED vars
  BY <1>1 DEF vars, TypeOK
<1>2. ASSUME NEW t \in Turn, Begin(t) \/ TurnStep(t) PROVE TypeOK'
  <2>1. turn' \in [Turn -> Turns] /\ turn[t].seen \in Nat \cup {Nobody} /\ turn[t].role \in {"user", "assistant"}
    BY <1>2, TurnMoves DEF TurnBecomes, TypeOK, Turns
  <2>2. CASE TurnInserts(t)
    BY <2>1, <2>2, RowType DEF TurnInserts, TypeOK
  <2>3. CASE TurnUpserts(t)
    BY <2>1, <2>3, UpsertType DEF TurnUpserts, TypeOK, SessionType, RowFits
  <2>4. CASE ~ TurnInserts(t) /\ ~ TurnUpserts(t)
    <3>1. UNCHANGED <<log, gone, session, request, feed, past>>
      BY <1>2, <2>4 DEF Begin, TurnStep, Unavailable, Gate, GateFails, Model, NoAnswer, TurnInsertFails, TurnReads
    <3> QED BY <2>1, <3>1 DEF TypeOK
  <2> QED BY <2>2, <2>3, <2>4
<1>3. ASSUME NEW a \in Admin, RequestStep(a) \/ \E kind \in Kinds : Ask(a, kind) PROVE TypeOK'
  <2>0. PICK q : RequestBecomes(a, q)
    BY <1>3, RequestMoves
  <2>1. request' \in [Admin -> Requests] /\ request[a].seen \in Nat \cup {Nobody}
    BY <2>0 DEF RequestBecomes, TypeOK, Requests
  <2>2. CASE Update(a)
    BY <2>1, <2>2, UpdateTurns DEF Update, TypeOK, SessionType
  <2>3. CASE ReplyInserts(a)
    BY <2>1, <2>3, RowType DEF ReplyInserts, TypeOK
  <2>4. CASE ReplyUpserts(a)
    <3>1. session.exists
      BY <2>4 DEF ReplyUpserts, RowFits, Asks
    <3> QED BY <2>1, <2>4, <3>1, UpsertType DEF ReplyUpserts, TypeOK, SessionType
  <2>5. CASE ~ Update(a) /\ ~ ReplyInserts(a) /\ ~ ReplyUpserts(a)
    <3>1. UNCHANGED <<log, gone, session, turn>> /\ feed' \in Admin \cup {Nobody} /\ past' \subseteq past \cup {"admins"}
      BY <1>3, <2>5 DEF RequestStep, Ask, Check, Publish, ReplyFails, ReplyReads, TypeOK
    <3> QED BY <2>1, <3>1 DEF TypeOK
  <2> QED BY <2>2, <2>3, <2>4, <2>5
<1>4. ASSUME NEW a \in Admin, DeleteMessage(a) PROVE TypeOK'
  BY <1>4 DEF DeleteMessage, TypeOK
<1> QED BY <1>1, <1>2, <1>3, <1>4 DEF Next

-----------------------------------------------------------------------------
(* The session's row, and who holds it.                                      *)
LEMMA RowStays ==
  ASSUME SessionAssumption, TypeOK, RowFits, [Next]_vars
  PROVE  /\ session.exists => session'.exists
         /\ session' = session \/ session'.exists
         /\ session'.holder = session.holder \/ \E a \in Admin : Update(a)
<1>1. ASSUME NEW t \in Turn, TurnUpserts(t)
      PROVE  /\ session.exists => session'.exists
             /\ session' = session \/ session'.exists
             /\ session'.holder = session.holder
  <2>1. turn[t].seen \in Nat \cup {Nobody} /\ (turn[t].seen # Nobody => session.exists)
    BY DEF TypeOK, Turns, RowFits
  <2> QED BY <1>1, <2>1, UpsertType DEF TurnUpserts
<1>2. ASSUME NEW a \in Admin, ReplyUpserts(a)
      PROVE  /\ session.exists => session'.exists
             /\ session' = session \/ session'.exists
             /\ session'.holder = session.holder
  <2>1. request[a].seen \in Nat \cup {Nobody} /\ session.exists
    BY <1>2 DEF TypeOK, Requests, RowFits, ReplyUpserts, Asks
  <2> QED BY <1>2, <2>1, UpsertType DEF ReplyUpserts
<1>3. ASSUME NEW a \in Admin, Update(a) PROVE session.exists /\ session'.exists
  BY <1>3, UpdateTurns DEF Update, RowFits, Asks
<1>4. CASE UNCHANGED session
  BY <1>4
<1> QED
  BY <1>1, <1>2, <1>3, <1>4 DEF Next, DeleteMessage, TurnStep, RequestStep, vars, Begin, Unavailable, Gate, GateFails, Model, NoAnswer,
     TurnInserts, TurnInsertFails, TurnReads, Check, Publish, ReplyInserts, ReplyFails, ReplyReads, Ask

(* The fields of a turn that goes on.                                        *)
Goes(t, pc, role, silent, failed, seen) ==
  /\ turn'[t].pc = pc /\ turn'[t].role = role /\ turn'[t].silent = silent
  /\ turn'[t].failed = failed /\ turn'[t].seen = seen
  /\ turn'[t].held = turn[t].held /\ turn'[t].free = turn[t].free

LEMMA TurnFields ==
  ASSUME TypeOK, NEW t \in Turn
  PROVE  LET q == turn[t] IN
         /\ Gate(t) => IF TakenOver THEN Goes(t, "row", q.role, TRUE, q.failed, q.seen)
                                    ELSE Goes(t, "model", q.role, q.silent, q.failed, q.seen)
         /\ GateFails(t) => Goes(t, "model", q.role, q.silent, TRUE, q.seen)
         /\ Model(t) => Goes(t, "row", q.role, q.silent, q.failed, q.seen)
         /\ TurnInserts(t) => Goes(t, "read", q.role, q.silent, q.failed, q.seen)
         /\ TurnInsertFails(t) => End(t) \/ (q.silent /\ Goes(t, "model", q.role, FALSE, TRUE, q.seen))
         /\ TurnReads(t) => Goes(t, "write", q.role, q.silent, q.failed, ReadSession)
         /\ TurnUpserts(t) => IF Complete(t) THEN End(t)
                                             ELSE Goes(t, "row", "assistant", q.silent, q.failed, Nobody)
<1> DEFINE q == turn[t]
<1>0. q \in Turns /\ turn \in [Turn -> Turns]
  BY DEF TypeOK
<1>1. ASSUME NEW pc, Goto(t, pc) PROVE Goes(t, pc, q.role, q.silent, q.failed, q.seen)
  <2>1. turn'[t] = [q EXCEPT !.pc = pc]
    BY <1>0, <1>1 DEF Goto
  <2> QED BY <1>0, <2>1 DEF Goes, Turns
<1>2. ASSUME Gate(t), TakenOver PROVE Goes(t, "row", q.role, TRUE, q.failed, q.seen)
  <2>1. turn'[t] = [q EXCEPT !.pc = "row", !.silent = TRUE]
    BY <1>0, <1>2 DEF Gate
  <2> QED BY <1>0, <2>1 DEF Goes, Turns
<1>3. ASSUME TurnInsertFails(t), ~ End(t) PROVE q.silent /\ Goes(t, "model", q.role, FALSE, TRUE, q.seen)
  <2>1. turn'[t] = [q EXCEPT !.pc = "model", !.silent = FALSE, !.failed = TRUE] /\ q.silent
    BY <1>0, <1>3 DEF TurnInsertFails
  <2> QED BY <1>0, <2>1 DEF Goes, Turns
<1>4. ASSUME TurnReads(t) PROVE Goes(t, "write", q.role, q.silent, q.failed, ReadSession)
  <2>1. turn'[t] = [q EXCEPT !.pc = "write", !.seen = ReadSession]
    BY <1>0, <1>4 DEF TurnReads
  <2> QED BY <1>0, <2>1 DEF Goes, Turns
<1>5. ASSUME TurnUpserts(t), ~ Complete(t) PROVE Goes(t, "row", "assistant", q.silent, q.failed, Nobody)
  <2>1. turn'[t] = [q EXCEPT !.pc = "row", !.seen = Nobody, !.role = "assistant"]
    BY <1>0, <1>5 DEF TurnUpserts
  <2> QED BY <1>0, <2>1 DEF Goes, Turns
<1>6. TurnUpserts(t) /\ Complete(t) => End(t)
  BY DEF TurnUpserts
<1>7. Gate(t) /\ ~ TakenOver => Goto(t, "model")
  BY DEF Gate
<1>8. (Model(t) => Goto(t, "row")) /\ (TurnInserts(t) => Goto(t, "read"))
  BY DEF Model, TurnInserts
<1>15. ASSUME GateFails(t) PROVE Goes(t, "model", q.role, q.silent, TRUE, q.seen)
  <2>1. turn'[t] = [q EXCEPT !.pc = "model", !.failed = TRUE]
    BY <1>0, <1>15 DEF GateFails
  <2> QED BY <1>0, <2>1 DEF Goes, Turns
<1> HIDE DEF q
<1>9. Model(t) => Goes(t, "row", q.role, q.silent, q.failed, q.seen)
  BY <1>1, <1>8
<1>10. TurnInserts(t) => Goes(t, "read", q.role, q.silent, q.failed, q.seen)
  BY <1>1, <1>8
<1>11. Gate(t) => IF TakenOver THEN Goes(t, "row", q.role, TRUE, q.failed, q.seen)
                  ELSE Goes(t, "model", q.role, q.silent, q.failed, q.seen)
  BY <1>1, <1>2, <1>7 DEF q
<1>12. TurnInsertFails(t) => End(t) \/ (q.silent /\ Goes(t, "model", q.role, FALSE, TRUE, q.seen))
  BY <1>3 DEF q
<1>13. TurnReads(t) => Goes(t, "write", q.role, q.silent, q.failed, ReadSession)
  BY <1>4 DEF q
<1>14. TurnUpserts(t) => IF Complete(t) THEN End(t)
                         ELSE Goes(t, "row", "assistant", q.silent, q.failed, Nobody)
  BY <1>5, <1>6 DEF q
<1> QED BY <1>9, <1>10, <1>11, <1>12, <1>13, <1>14, <1>15 DEF q

LEMMA RowStep == ASSUME SessionAssumption, TypeOK, RowFits, [Next]_vars PROVE RowFits'
<1>1. session'.holder # Nobody => session'.exists
  <2>1. ASSUME NEW a \in Admin, Update(a) PROVE session'.exists
    BY <2>1, UpdateTurns DEF Update, RowFits, Asks
  <2> QED BY <2>1, RowStays DEF RowFits
<1>2. ~ session'.exists => session'.count = 0
  BY RowStays DEF RowFits
<1>3. ASSUME NEW a \in Admin, request'[a].pc \notin {"idle", "check"} PROVE session'.exists
  <2>1. CASE request[a].pc \notin {"idle", "check"}
    BY <2>1, RowStays DEF RowFits
  <2>2. CASE Check(a)
    BY <1>3, <2>2, Records, RowStays DEF Check, Allowed, Done, TypeOK
  <2>3. ASSUME NEW kind \in Kinds, Ask(a, kind) PROVE FALSE
    <3>1. [NoRequest EXCEPT !.pc = "check", !.kind = kind].pc = "check"
      BY Records DEF Requests
    <3> QED BY <1>3, <2>3, <3>1 DEF Ask, TypeOK
  <2>4. CASE request'[a] = request[a]
    BY <1>3, <2>1, <2>4
  <2>5. ASSUME NEW b \in Admin \ {a}, RequestStep(b) \/ \E kind \in Kinds : Ask(b, kind)
        PROVE  request'[a] = request[a]
    BY <2>5, RequestMoves DEF RequestBecomes, TypeOK
  <2>6. ASSUME NEW t \in Turn, Begin(t) \/ TurnStep(t) PROVE request' = request
    BY <2>6 DEF Begin, TurnStep, Unavailable, Gate, GateFails, Model, NoAnswer, TurnInserts, TurnInsertFails, TurnReads, TurnUpserts
  <2>7. CASE RequestStep(a) /\ ~ Check(a)
    BY <2>1, <2>7 DEF RequestStep, Update, Publish, ReplyInserts, ReplyFails, ReplyReads, ReplyUpserts, Asks, InsertSteps
  <2>8. ASSUME NEW b \in Admin, DeleteMessage(b) PROVE request' = request
    BY <2>8 DEF DeleteMessage
  <2> QED BY <2>1, <2>2, <2>3, <2>4, <2>5, <2>6, <2>7, <2>8 DEF Next, vars
<1>4. ASSUME NEW t \in Turn, turn'[t].seen # Nobody PROVE session'.exists
  <2>1. CASE turn[t].seen # Nobody
    BY <2>1, RowStays DEF RowFits
  <2>2. CASE TurnReads(t)
    <3>1. turn'[t].seen = ReadSession
      BY <2>2 DEF TurnReads, TypeOK, Turns
    <3> QED BY <1>4, <3>1, RowStays DEF ReadSession
  <2>3. CASE turn'[t].seen = turn[t].seen
    BY <1>4, <2>1, <2>3
  <2>4. ASSUME (Begin(t) \/ TurnStep(t)) /\ ~ TurnReads(t) PROVE turn'[t].seen \in {turn[t].seen, Nobody}
    <3>1. turn[t] \in Turns /\ NoTurn \in Turns /\ NoTurn.seen = Nobody
      BY Records DEF TypeOK
    <3>2. CASE Begin(t)
      <4>1. turn'[t].seen = NoTurn.seen
        BY <3>1, <3>2 DEF Begin, TypeOK, Turns
      <4> QED BY <3>1, <4>1
    <3>3. CASE End(t)
      <4>1. turn'[t].seen = NoTurn.seen
        BY <3>1, <3>3 DEF End, TypeOK, Turns
      <4> QED BY <3>1, <4>1
    <3>4. CASE ~ Begin(t) /\ ~ End(t)
      BY <2>4, <3>4, TurnFields DEF Goes, TurnStep, Unavailable, NoAnswer
    <3> QED BY <3>2, <3>3, <3>4
  <2>5. ASSUME NEW u \in Turn \ {t}, Begin(u) \/ TurnStep(u) PROVE turn'[t] = turn[t]
    BY <2>5, TurnMoves DEF TurnBecomes, TypeOK
  <2>6. ASSUME NEW a \in Admin, RequestStep(a) \/ \E kind \in Kinds : Ask(a, kind) PROVE turn'[t].seen = turn[t].seen
    BY <2>6, UpdateTurns DEF RequestStep, Ask, Check, Publish, ReplyInserts, ReplyFails, ReplyReads, ReplyUpserts
  <2>7. ASSUME NEW a \in Admin, DeleteMessage(a) PROVE turn'[t].seen = turn[t].seen
    BY <2>7 DEF DeleteMessage
  <2> QED BY <1>4, <2>1, <2>2, <2>3, <2>4, <2>5, <2>6, <2>7 DEF Next, vars
<1> QED BY <1>1, <1>2, <1>3, <1>4 DEF RowFits

LEMMA TurnsStep ==
  ASSUME SessionAssumption, TypeOK, RowFits, [Next]_vars, NEW t \in Turn, TurnFits(t)
  PROVE  TurnFits(t)'
<1>0. turn[t] \in Turns /\ NoTurn \in Turns
  BY Records DEF TypeOK
<1>1. CASE turn'[t] = turn[t] /\ session'.holder = session.holder
  BY <1>1 DEF TurnFits
<1>2. CASE Begin(t)
  <2>1. turn'[t].pc = "gate" /\ turn'[t].held = (session.holder # Nobody) /\ turn'[t].free = (session.holder = Nobody)
        /\ turn'[t].silent = NoTurn.silent /\ turn'[t].role = NoTurn.role
    BY <1>0, <1>2 DEF Begin, TypeOK, Turns
  <2> QED BY <1>2, <2>1, Records DEF Begin, TurnFits
<1>3. CASE End(t) /\ session'.holder = session.holder
  <2>1. turn'[t].pc = "done" /\ turn'[t].held = NoTurn.held /\ turn'[t].free = NoTurn.free
        /\ turn'[t].silent = NoTurn.silent
    BY <1>0, <1>3 DEF End, TypeOK, Turns
  <2> QED BY <2>1, Records DEF TurnFits
<1>4. CASE Gate(t)
  BY <1>4, TurnFields DEF Goes, Gate, TakenOver, At, TurnFits, RowFits, InsertSteps
<1>5. CASE Model(t)
  BY <1>5, TurnFields DEF Goes, Model, At, TurnFits, InsertSteps
<1>6. CASE TurnInserts(t) \/ TurnReads(t)
  BY <1>6, TurnFields DEF Goes, TurnInserts, TurnReads, At, TurnFits, InsertSteps
<1>7. CASE TurnInsertFails(t) /\ ~ End(t)
  BY <1>7, TurnFields DEF Goes, TurnInsertFails, At, TurnFits, InsertSteps
<1>8. CASE TurnUpserts(t)
  <2>1. session'.holder = session.holder
    BY <1>0, <1>8, UpsertType DEF TurnUpserts, Turns, RowFits
  <2>2. CASE ~ Complete(t)
    BY <1>0, <1>8, <2>1, <2>2, TurnFields DEF Goes, TurnUpserts, Complete, At, TurnFits, Turns, InsertSteps
  <2> QED BY <1>3, <1>8, <2>1, <2>2 DEF TurnUpserts
<1>9. ASSUME NEW a \in Admin, Update(a) PROVE TurnFits(t)'
  BY <1>9, UpdateTurns DEF TurnFits
<1>10. ASSUME NEW u \in Turn \ {t}, Begin(u) \/ TurnStep(u) PROVE turn'[t] = turn[t]
  BY <1>10, TurnMoves DEF TurnBecomes, TypeOK
<1>11. ASSUME NEW a \in Admin, RequestStep(a) \/ (\E kind \in Kinds : Ask(a, kind)), ~ Update(a)
      PROVE  turn' = turn
  BY <1>11 DEF RequestStep, Ask, Check, Publish, ReplyInserts, ReplyFails, ReplyReads, ReplyUpserts
<1>12. (\E a \in Admin : Update(a)) \/ session'.holder = session.holder
  BY RowStays
<1>13. CASE UNCHANGED turn /\ ~ \E a \in Admin : Update(a)
  BY <1>1, <1>12, <1>13
<1>17. CASE GateFails(t)
  BY <1>17, TurnFields DEF Goes, GateFails, At, TurnFits, InsertSteps
<1>18. ASSUME NEW a \in Admin, DeleteMessage(a) PROVE TurnFits(t)'
  BY <1>1, <1>18 DEF DeleteMessage
<1>14. CASE TurnStep(t)
  BY <1>3, <1>4, <1>5, <1>6, <1>7, <1>8, <1>14, <1>17 DEF TurnStep, Unavailable, NoAnswer, TurnInsertFails
<1>15. CASE \E u \in Turn \ {t} : Begin(u) \/ TurnStep(u)
  BY <1>1, <1>9, <1>10, <1>12, <1>15
<1>16. CASE \E a \in Admin : RequestStep(a) \/ \E kind \in Kinds : Ask(a, kind)
  BY <1>1, <1>9, <1>11, <1>12, <1>16
<1> QED BY <1>2, <1>9, <1>13, <1>14, <1>15, <1>16, <1>18 DEF Next, vars

-----------------------------------------------------------------------------
(* Requests that do not overlap.                                             *)
Answers(a, pc, kind, seen) ==
  request'[a].pc = pc /\ request'[a].kind = kind /\ request'[a].seen = seen

LEMMA RequestFields ==
  ASSUME SessionAssumption, TypeOK, NEW a \in Admin
  PROVE  LET q == request[a] IN
         /\ \A kind \in Kinds : Ask(a, kind) => Answers(a, "check", kind, Nobody)
         /\ Done(a) => request'[a].pc = "idle" /\ request'[a].seen = Nobody
         /\ \A pc : Step(a, pc) => Answers(a, pc, q.kind, q.seen)
         /\ ReplyReads(a) => Answers(a, "write", q.kind, ReadSession)
<1> DEFINE q == request[a]
<1>0. q \in Requests /\ request \in [Admin -> Requests] /\ NoRequest \in Requests
      /\ NoRequest.seen = Nobody /\ NoRequest.pc = "idle"
  BY Records DEF TypeOK
<1>1. ASSUME NEW kind \in Kinds, Ask(a, kind) PROVE Answers(a, "check", kind, Nobody)
  <2>1. request'[a] = [NoRequest EXCEPT !.pc = "check", !.kind = kind]
    BY <1>0, <1>1 DEF Ask
  <2> QED BY <1>0, <2>1 DEF Answers, Requests
<1>2. ASSUME Done(a) PROVE request'[a].pc = "idle" /\ request'[a].seen = Nobody
  <2>1. request'[a] = NoRequest
    BY <1>0, <1>2 DEF Done
  <2> QED BY <1>0, <2>1
<1>3. ASSUME NEW pc, Step(a, pc) PROVE Answers(a, pc, q.kind, q.seen)
  <2>1. request'[a] = [q EXCEPT !.pc = pc]
    BY <1>0, <1>3 DEF Step
  <2> QED BY <1>0, <2>1 DEF Answers, Requests
<1>4. ASSUME ReplyReads(a) PROVE Answers(a, "write", q.kind, ReadSession)
  <2>1. request'[a] = [q EXCEPT !.pc = "write", !.seen = ReadSession]
    BY <1>0, <1>4 DEF ReplyReads
  <2> QED BY <1>0, <2>1 DEF Answers, Requests
<1> QED BY <1>1, <1>2, <1>3, <1>4

LEMMA TurnsLeaveRequests ==
  ASSUME SessionAssumption, TypeOK, RowFits, NEW t \in Turn, Begin(t) \/ TurnStep(t)
  PROVE  /\ UNCHANGED <<request, feed, used>> /\ session'.holder = session.holder
         /\ past' \in {past, past \cup {"uncounted"}}
<1>1. turn[t].seen \in Nat \cup {Nobody} /\ (turn[t].seen # Nobody => session.exists)
  BY DEF TypeOK, Turns, RowFits
<1>2. CASE TurnUpserts(t)
  BY <1>1, <1>2, UpsertType DEF TurnUpserts
<1>3. CASE TurnInserts(t)
  BY <1>3 DEF TurnInserts, InsertRow
<1> QED BY <1>2, <1>3 DEF Begin, TurnStep, Unavailable, Gate, GateFails, Model, NoAnswer, TurnInsertFails, TurnReads

LEMMA AloneStep ==
  ASSUME SessionAssumption, TypeOK, RowFits, Alone, [Next]_vars PROVE Alone'
<1>1. CASE UNCHANGED <<request, feed>> /\ session'.holder = session.holder /\ past \subseteq past'
  BY <1>1 DEF Alone, Asks, Replying
<1>2. ASSUME NEW a \in Admin, RequestStep(a) \/ (\E kind \in Kinds : Ask(a, kind)),
             "admins" \notin past'
      PROVE  Alone'
  <2>1. "admins" \notin past
    <3>1. past \subseteq past'
      <4>1. CASE ReplyUpserts(a)
        <5>1. request[a].seen \in Nat \cup {Nobody} /\ session.exists
          BY <4>1 DEF TypeOK, Requests, RowFits, ReplyUpserts, Asks
        <5> QED BY <4>1, <5>1, UpsertType DEF ReplyUpserts
      <4> QED BY <1>2, <4>1 DEF RequestStep, Ask, Check, Update, Publish, ReplyInserts, ReplyFails, ReplyReads, InsertRow
    <3> QED BY <1>2, <3>1
  <2>2. \A b \in Admin \ {a} : request'[b] = request[b] /\ Asks(b, "idle")
    <3>1. \A b \in Admin \ {a} : request'[b] = request[b]
      BY <1>2, RequestMoves DEF RequestBecomes, TypeOK
    <3>2. CASE Asks(a, "idle")
      <4>1. PICK kind \in Kinds : Ask(a, kind)
        BY <1>2, <3>2 DEF RequestStep, Asks, Check, Update, Publish, ReplyInserts, ReplyFails, ReplyReads, ReplyUpserts
      <4>2. ~ AdminRaces(a)
        BY <1>2, <4>1 DEF Ask
      <4> QED BY <3>1, <4>2 DEF AdminRaces
    <3>3. CASE ~ Asks(a, "idle")
      BY <2>1, <3>1, <3>3 DEF Alone
    <3> QED BY <3>1, <3>2, <3>3
  <2>3. \A b \in Admin \ {a} : Asks(b, "idle")' /\ ~ Asks(b, "publish")' /\ ~ Replying(b)'
                               /\ ~ Asks(b, "publish")
    BY <2>2 DEF Asks, Replying, InsertSteps
  <2>4. /\ Replying(a)' => session'.holder = a
        /\ Asks(a, "publish")' => session'.holder = IF request'[a].kind = "takeover" THEN a ELSE Nobody
        /\ ~ Asks(a, "publish")' => feed' = session'.holder
    <3>0. (Replying(a) => session.holder = a)
          /\ (Asks(a, "publish") => session.holder = IF request[a].kind = "takeover" THEN a ELSE Nobody)
          /\ (~ Asks(a, "publish") => feed = session.holder)
      BY <2>1, <2>3 DEF Alone
    <3>1. ASSUME NEW kind \in Kinds, Ask(a, kind)
          PROVE  request'[a].pc = "check" /\ ~ Asks(a, "publish") /\ UNCHANGED <<session, feed>>
      BY <3>1, RequestFields DEF Ask, Asks, Answers
    <3>2. CASE Check(a)
      <4>1. UNCHANGED <<session, feed>> /\ ~ Asks(a, "publish")
        BY <3>2 DEF Check, Asks
      <4>2. request'[a].pc = "idle" \/ (request'[a].pc = "row" /\ session.holder = a) \/ request'[a].pc = "update"
        BY <3>2, RequestFields DEF Check, Allowed, Answers
      <4> QED BY <3>0, <4>1, <4>2 DEF Asks, Replying, InsertSteps
    <3>3. CASE Update(a)
      <4>1. UNCHANGED feed /\ ~ Asks(a, "publish") /\ session' = Taken(a)
            /\ session \in SessionType
        BY <3>3 DEF Update, Asks, TypeOK, SessionType
      <4>2. CASE request[a].kind \in {"takeover", "release"}
        <5>1. request'[a].pc = "publish" /\ request'[a].kind = request[a].kind
          BY <3>3, <4>2, RequestFields DEF Update, Answers
        <5>2. session'.holder = IF request[a].kind = "takeover" THEN a ELSE Nobody
          BY <4>1, <4>2 DEF Taken, SetTakeover, SessionType
        <5> QED BY <5>1, <5>2 DEF Asks, Replying, InsertSteps
      <4>3. CASE request[a].kind \notin {"takeover", "release"}
        <5>1. request'[a].pc = "idle"
          BY <3>3, <4>3, RequestFields DEF Update
        <5>2. session'.holder = session.holder
          BY <4>1, <4>3 DEF Taken, MarkResolved, SessionType
        <5> QED BY <3>0, <4>1, <5>1, <5>2 DEF Asks, Replying, InsertSteps
      <4> QED BY <4>2, <4>3
    <3>4. CASE Publish(a)
      <4>1. request'[a].pc = "idle" /\ UNCHANGED session /\ Asks(a, "publish")
            /\ feed' = IF request[a].kind = "takeover" THEN a ELSE Nobody
        BY <3>4, RequestFields DEF Publish
      <4> QED BY <3>0, <4>1 DEF Asks, Replying, InsertSteps
    <3>5. CASE ReplyInserts(a) \/ ReplyFails(a) \/ ReplyReads(a) \/ ReplyUpserts(a)
      <4>1. UNCHANGED feed /\ ~ Asks(a, "publish") /\ Replying(a)
        BY <3>5 DEF ReplyInserts, ReplyFails, ReplyReads, ReplyUpserts, Asks, Replying, InsertSteps
      <4>2. session'.holder = session.holder
        <5>1. request[a].seen \in Nat \cup {Nobody} /\ session.exists
          BY <4>1 DEF TypeOK, Requests, RowFits, Replying, InsertSteps
        <5> QED BY <3>5, <5>1, UpsertType DEF ReplyInserts, ReplyFails, ReplyReads, ReplyUpserts
      <4>3. ~ Asks(a, "publish")'
        BY <3>5, RequestFields DEF ReplyInserts, ReplyFails, ReplyReads, ReplyUpserts, Answers, Asks
      <4> QED BY <3>0, <4>1, <4>2, <4>3
    <3> QED BY <1>2, <3>0, <3>1, <3>2, <3>3, <3>4, <3>5 DEF RequestStep, Asks, Replying, InsertSteps
  <2> QED BY <2>3, <2>4 DEF Alone
<1>3. ASSUME NEW t \in Turn, Begin(t) \/ TurnStep(t) PROVE Alone'
  BY <1>1, <1>3, TurnsLeaveRequests
<1>4. CASE "admins" \in past'
  BY <1>4 DEF Alone
<1>5. ASSUME NEW a \in Admin, DeleteMessage(a) PROVE Alone'
  BY <1>1, <1>5 DEF DeleteMessage
<1> QED BY <1>1, <1>2, <1>3, <1>4, <1>5 DEF Next, vars

-----------------------------------------------------------------------------
(* The count, and the rows that are not counted.                             *)
LEMMA BehindType ==
  ASSUME SessionAssumption, TypeOK
  PROVE  Cardinality(Inserting) \in Nat /\ Len(log) \in Nat /\ session.count \in Nat /\ Behind \in Int
BY InsertingFinite DEF Behind, TypeOK

LEMMA CountingStays ==
  ASSUME SessionAssumption, TypeOK, Counting, Inserting' = Inserting, Len(log') = Len(log),
         session'.count = session.count, session'.exists = session.exists,
         "uncounted" \in past => "uncounted" \in past', Pending' \subseteq Pending \cup {ReadSession}
  PROVE  Counting'
BY BehindType DEF Counting, Behind, ReadSession

LEMMA CountingInserts ==
  ASSUME SessionAssumption, TypeOK, Counting, NEW x, x \notin Inserting, Inserting' = Inserting \cup {x},
         NEW o, InsertRow(x, o), UNCHANGED session, Pending' \subseteq Pending
  PROVE  Counting'
<1>1. Cardinality(Inserting') = Cardinality(Inserting) + 1
  BY InsertingFinite, FS_AddElement
<1>2. Len(log') = Len(log) + 1 /\ Behind' = Behind
  BY <1>1, BehindType, SMTT(30) DEF InsertRow, TypeOK, Behind
<1>3. ASSUME "uncounted" \notin past' PROVE "uncounted" \notin past /\ Cardinality(Inserting') = 1
  <2>1. Inserting = {} /\ "uncounted" \notin past
    BY <1>3 DEF InsertRow
  <2> QED BY <1>1, <2>1, FS_EmptySet
<1> QED BY <1>2, <1>3, BehindType DEF Counting, ReadSession

LEMMA CountingUpserts ==
  ASSUME SessionAssumption, TypeOK, RowFits, Counting, NEW x \in Inserting, Inserting' = Inserting \ {x},
         NEW seen \in Pending, seen \in Nat \cup {Nobody}, Upsert(seen), UNCHANGED log,
         seen # Nobody => session.exists,
         Pending' \subseteq Pending, Pending' # {} => Inserting' # {}
  PROVE  Counting'
<1>1. Cardinality(Inserting') = Cardinality(Inserting) - 1 /\ IsFiniteSet(Inserting')
  BY InsertingFinite, FS_RemoveElement
<1>2. Behind' = Behind + 1 /\ Behind \in Int /\ session.count <= Behind /\ session.count \in Nat
      /\ (seen # Nobody => seen <= Behind)
  BY <1>1, BehindType DEF Behind, Counting
<1>3. session' \in SessionType /\ session \in SessionType
  BY UpsertType DEF TypeOK, SessionType
<1>4. ASSUME session' = Counted(seen)
      PROVE  session'.count = IF seen # Nobody THEN seen + 1 ELSE IF session.exists THEN session.count ELSE 1
  BY <1>3, <1>4 DEF Counted, SessionType
<1>5. session'.count <= Behind'
  <2>1. session' = session \/ session' = Counted(seen)
    BY DEF Upsert, UpsertOutcomes
  <2>2. CASE session' = session
    BY <1>2, <2>2
  <2>3. CASE session' = Counted(seen)
    BY <1>2, <1>4, <2>3 DEF SessionAssumption
  <2> QED BY <2>1, <2>2, <2>3
<1>6. \A n \in Pending' : n # Nobody => n <= Behind'
  <2>1. \A n \in Pending : n # Nobody => n <= Behind /\ n \in Nat
    BY DEF Pending, Counting, TypeOK, Turns, Requests
  <2> QED BY <1>2, <2>1
<1>7. ASSUME "uncounted" \notin past'
      PROVE  Cardinality(Inserting') <= 1 /\ session'.count = Behind' /\ \A n \in Pending' : n = ReadSession'
  <2>1. "uncounted" \notin past /\ session' = Counted(seen)
    BY <1>7 DEF Upsert
  <2>2. Cardinality(Inserting) <= 1 /\ session.count = Behind /\ seen = ReadSession
    BY <2>1 DEF Counting
  <2>3. Cardinality(Inserting') = 0
    <3>1. Cardinality(Inserting') \in Nat
      BY <1>1, FS_CardinalityType
    <3> QED BY <1>1, <2>2, <3>1, BehindType
  <2>4. Pending' = {}
    BY <1>1, <2>3, FS_EmptySet
  <2>5. session'.count = Behind'
    BY <1>2, <1>4, <2>1, <2>2 DEF ReadSession, RowFits, SessionAssumption
  <2> QED BY <2>3, <2>4, <2>5
<1> QED BY <1>5, <1>6, <1>7 DEF Counting

(* Who inserts after the step of one turn, or of one admin.                  *)
LEMMA TurnInserting ==
  ASSUME SessionAssumption, TypeOK, NEW t \in Turn, NEW q, TurnBecomes(t, q), UNCHANGED request
  PROVE  /\ turn'[t] = q
         /\ Inserting' = IF q.pc \in {"read", "write"} THEN Inserting \cup {t} ELSE Inserting \ {t}
         /\ Pending' \subseteq Pending \cup (IF q.pc = "write" THEN {q.seen} ELSE {})
<1>1. turn'[t] = q /\ \A u \in Turn \ {t} : turn'[u] = turn[u]
  BY DEF TurnBecomes, TypeOK
<1>2. t \notin Admin
  BY DEF SessionAssumption
<1> QED BY <1>1, <1>2 DEF Inserting, Pending, At, Asks

LEMMA RequestInserting ==
  ASSUME SessionAssumption, TypeOK, NEW a \in Admin, NEW q, RequestBecomes(a, q), UNCHANGED turn
  PROVE  /\ request'[a] = q
         /\ Inserting' = IF q.pc \in {"read", "write"} THEN Inserting \cup {a} ELSE Inserting \ {a}
         /\ Pending' \subseteq Pending \cup (IF q.pc = "write" THEN {q.seen} ELSE {})
<1>1. request'[a] = q /\ \A b \in Admin \ {a} : request'[b] = request[b]
  BY DEF RequestBecomes, TypeOK
<1>2. a \notin Turn
  BY DEF SessionAssumption
<1> QED BY <1>1, <1>2 DEF Inserting, Pending, At, Asks

LEMMA PendingInserts == ASSUME Pending # {} PROVE Inserting # {}
BY DEF Pending, Inserting, At, Asks

LEMMA PendingInsertsNext == ASSUME Pending' # {} PROVE Inserting' # {}
BY DEF Pending, Inserting, At, Asks

LEMMA TurnCounts ==
  ASSUME SessionAssumption, TypeOK, RowFits, Counting, NEW t \in Turn, Begin(t) \/ TurnStep(t)
  PROVE  Counting'
<1>0. turn[t].seen \in Nat \cup {Nobody} /\ (turn[t].seen # Nobody => session.exists) /\ UNCHANGED request
  BY TurnsLeaveRequests DEF TypeOK, Turns, RowFits
<1>1. PICK q : TurnBecomes(t, q)
  BY TurnMoves
<1>2. /\ turn'[t] = q
      /\ Inserting' = IF q.pc \in {"read", "write"} THEN Inserting \cup {t} ELSE Inserting \ {t}
      /\ Pending' \subseteq Pending \cup (IF q.pc = "write" THEN {q.seen} ELSE {})
  BY <1>0, <1>1, TurnInserting
<1>3. (t \in Inserting <=> turn[t].pc \in {"read", "write"})
  BY DEF Inserting, SessionAssumption
<1>4. CASE TurnInserts(t)
  <2>1. q.pc = "read" /\ t \notin Inserting /\ InsertRow(t, turn[t].role) /\ UNCHANGED session
    BY <1>2, <1>3, <1>4, TurnFields DEF TurnInserts, Goes, At
  <2> QED BY <1>2, <2>1, CountingInserts
<1>5. CASE TurnReads(t)
  <2>1. q.pc = "write" /\ q.seen = ReadSession /\ t \in Inserting /\ UNCHANGED <<log, session, past>>
    BY <1>2, <1>3, <1>5, TurnFields DEF TurnReads, Goes, At
  <2> QED BY <1>2, <2>1, CountingStays
<1>6. ASSUME End(t) PROVE q.pc = "done"
  <2>1. q = [NoTurn EXCEPT !.pc = "done"]
    BY <1>2, <1>6 DEF End, TypeOK
  <2> QED BY <2>1, Records DEF Turns
<1>7. CASE TurnUpserts(t)
  <2>1. q.pc \notin {"read", "write"} /\ t \in Inserting /\ UNCHANGED log /\ Upsert(turn[t].seen)
    BY <1>2, <1>3, <1>6, <1>7, TurnFields DEF TurnUpserts, Goes, At
  <2>2. turn[t].seen \in Pending
    BY <1>7 DEF Pending, TurnUpserts, At
  <2> QED BY <1>0, <1>2, <2>1, <2>2, CountingUpserts, PendingInsertsNext
<1>8. CASE ~ TurnInserts(t) /\ ~ TurnReads(t) /\ ~ TurnUpserts(t)
  <2>1. UNCHANGED <<log, session, past>> /\ turn[t].pc \notin {"read", "write"}
    BY <1>8 DEF Begin, TurnStep, Unavailable, Gate, GateFails, Model, NoAnswer, TurnInsertFails, At
  <2>2. q.pc \notin {"read", "write"}
    <3>1. CASE Begin(t)
      <4>1. q = [NoTurn EXCEPT !.pc = "gate", !.held = session.holder # Nobody, !.free = session.holder = Nobody]
        BY <1>2, <3>1 DEF Begin, TypeOK
      <4> QED BY <4>1, Records DEF Turns
    <3> QED BY <1>2, <1>6, <1>8, <3>1, TurnFields DEF TurnStep, Unavailable, NoAnswer, Goes
  <2>3. Inserting' = Inserting
    BY <1>2, <1>3, <2>1, <2>2
  <2> QED BY <1>2, <2>1, <2>2, <2>3, CountingStays
<1> QED BY <1>4, <1>5, <1>7, <1>8

LEMMA RequestCounts ==
  ASSUME SessionAssumption, TypeOK, RowFits, Counting, NEW a \in Admin,
         RequestStep(a) \/ (\E kind \in Kinds : Ask(a, kind)), ~ Update(a)
  PROVE  Counting'
<1>0. request[a].seen \in Nat \cup {Nobody} /\ UNCHANGED turn
  BY DEF TypeOK, Requests, RequestStep, Ask, Check, Publish, ReplyInserts, ReplyFails, ReplyReads, ReplyUpserts
<1>1. PICK q : RequestBecomes(a, q)
  BY RequestMoves
<1>2. /\ request'[a] = q
      /\ Inserting' = IF q.pc \in {"read", "write"} THEN Inserting \cup {a} ELSE Inserting \ {a}
      /\ Pending' \subseteq Pending \cup (IF q.pc = "write" THEN {q.seen} ELSE {})
  BY <1>0, <1>1, RequestInserting
<1>3. (a \in Inserting <=> request[a].pc \in {"read", "write"})
  BY DEF Inserting, SessionAssumption
<1>4. CASE ReplyInserts(a)
  <2>1. q.pc = "read" /\ a \notin Inserting /\ InsertRow(a, "assistant") /\ UNCHANGED session
    BY <1>2, <1>3, <1>4, RequestFields DEF ReplyInserts, Answers, Asks
  <2> QED BY <1>2, <2>1, CountingInserts
<1>5. CASE ReplyReads(a)
  <2>1. q.pc = "write" /\ q.seen = ReadSession /\ a \in Inserting /\ UNCHANGED <<log, session, past>>
    BY <1>2, <1>3, <1>5, RequestFields DEF ReplyReads, Answers, Asks
  <2> QED BY <1>2, <2>1, CountingStays
<1>6. CASE ReplyUpserts(a)
  <2>1. q.pc \notin {"read", "write"} /\ a \in Inserting /\ UNCHANGED log /\ Upsert(request[a].seen)
        /\ session.exists
    BY <1>2, <1>3, <1>6, RequestFields DEF ReplyUpserts, Asks, RowFits
  <2>2. request[a].seen \in Pending
    BY <1>6 DEF Pending, ReplyUpserts, Asks
  <2> QED BY <1>0, <1>2, <2>1, <2>2, CountingUpserts, PendingInsertsNext
<1>7. CASE ~ ReplyInserts(a) /\ ~ ReplyReads(a) /\ ~ ReplyUpserts(a)
  <2>1. UNCHANGED <<log, session>> /\ past \subseteq past' /\ request[a].pc \notin {"read", "write"}
    BY <1>7 DEF RequestStep, Ask, Check, Publish, ReplyFails, Asks
  <2>2. q.pc \notin {"read", "write"}
    BY <1>2, <1>7, RequestFields DEF RequestStep, Check, Publish, ReplyFails, Answers
  <2>3. Inserting' = Inserting
    BY <1>2, <1>3, <2>1, <2>2
  <2> QED BY <1>2, <2>1, <2>2, <2>3, CountingStays
<1> QED BY <1>4, <1>5, <1>6, <1>7

LEMMA CountingStep ==
  ASSUME SessionAssumption, TypeOK, RowFits, Counting, [Next]_vars PROVE Counting'
<1>1. CASE UNCHANGED vars
  BY <1>1 DEF vars, Counting, Behind, Pending, Inserting, At, Asks, ReadSession
<1>2. ASSUME NEW a \in Admin, Update(a) PROVE Counting'
  <2>1. UNCHANGED <<log, past>> /\ session'.count = session.count /\ session'.exists = session.exists
        /\ \A t \in Turn : turn'[t].pc = turn[t].pc /\ turn'[t].seen = turn[t].seen
    BY <1>2, UpdateTurns DEF Update
  <2>2. \A b \in Admin : request'[b] = request[b] \/
          (request[b].pc \notin {"read", "write"} /\ request'[b].pc \notin {"read", "write"})
    <3>1. \A b \in Admin \ {a} : request'[b] = request[b]
      BY <1>2, RequestMoves DEF RequestBecomes, TypeOK, RequestStep
    <3>2. request[a].pc = "update" /\ request'[a].pc \in {"idle", "publish"}
      BY <1>2, RequestFields DEF Update, Answers, Asks
    <3> QED BY <3>1, <3>2
  <2>3. Inserting' = Inserting
    BY <2>1, <2>2 DEF Inserting
  <2>4. Pending' \subseteq Pending
    BY <2>1, <2>2 DEF Pending, At, Asks
  <2> QED BY <2>1, <2>3, <2>4, CountingStays
<1>3. ASSUME NEW a \in Admin, DeleteMessage(a) PROVE Counting'
  BY <1>3 DEF DeleteMessage, Counting, Behind, Pending, Inserting, At, Asks, ReadSession
<1> QED BY <1>1, <1>2, <1>3, TurnCounts, RequestCounts DEF Next

-----------------------------------------------------------------------------
(* The rows of a turn.                                                       *)
LEMMA StoredKept ==
  ASSUME TypeOK, NEW t \in Turn, Stored(t),
         \/ UNCHANGED log
         \/ \E x, o : x # t /\ log' = Append(log, Row(x, o)),
         Before(t)' => Before(t), After(t)' => After(t)
  PROVE  Stored(t)'
<1>1. CASE UNCHANGED log
  BY <1>1 DEF Stored, HasRow, IsRow
<1>2. CASE \E x, o : x # t /\ log' = Append(log, Row(x, o))
  <2>1. PICK x, o : x # t /\ log' = Append(log, Row(x, o))
    BY <1>2
  <2>2. Len(log') = Len(log) + 1 /\ Len(log) \in Nat
        /\ DOMAIN log' = 1..(Len(log) + 1) /\ DOMAIN log = 1..Len(log)
        /\ log'[Len(log) + 1] = Row(x, o) /\ \A i \in DOMAIN log : log'[i] = log[i]
    BY <2>1 DEF TypeOK
  <2>3. \A r \in {"user", "assistant"} : Row(x, o) # Row(t, r)
    BY <2>1 DEF Row
  <2>4. \A r \in {"user", "assistant"}, i \in DOMAIN log' :
          IsRow(i, t, r)' <=> i \in DOMAIN log /\ IsRow(i, t, r)
    BY <2>2, <2>3 DEF IsRow
  <2>5. HasRow(t)' <=> HasRow(t)
    BY <2>2, <2>4 DEF HasRow
  <2>6. \A i, j \in DOMAIN log' : IsRow(i, t, "user")' /\ IsRow(j, t, "user")' => i = j
    BY <2>4 DEF Stored
  <2>7. ASSUME NEW i \in DOMAIN log', IsRow(i, t, "assistant")'
        PROVE  \E j \in 1..(i - 1) : IsRow(j, t, "user")'
    <3>1. i \in DOMAIN log /\ IsRow(i, t, "assistant")
      BY <2>4, <2>7
    <3>2. PICK j \in 1..(i - 1) : IsRow(j, t, "user")
      BY <3>1 DEF Stored
    <3>3. j \in DOMAIN log'
      BY <2>2, <3>1, <3>2
    <3>4. j \in DOMAIN log
      BY <2>2, <3>1, <3>2
    <3> QED BY <2>4, <3>2, <3>3, <3>4
  <2> QED BY <2>5, <2>6, <2>7 DEF Stored
<1> QED BY <1>1, <1>2

LEMMA StoredOwn ==
  ASSUME TypeOK, NEW t \in Turn, Stored(t), TurnInserts(t)
  PROVE  Stored(t)'
<1> DEFINE n == Len(log) + 1
           o == turn[t].role
<1>1. log' = Append(log, Row(t, o)) /\ turn[t].pc = "row" /\ turn'[t].pc = "read"
  BY TurnFields DEF TurnInserts, InsertRow, Goes, At
<1>2. o \in {"user", "assistant"}
  BY DEF TypeOK, Turns
<1>3. Len(log) \in Nat /\ DOMAIN log' = 1..n /\ DOMAIN log = 1..Len(log)
      /\ log'[n] = Row(t, o) /\ \A i \in DOMAIN log : log'[i] = log[i]
  BY <1>1 DEF TypeOK
<1>4. \A r \in {"user", "assistant"} : Row(t, o) = Row(t, r) <=> o = r
  BY DEF Row
<1>5. \A r \in {"user", "assistant"}, i \in DOMAIN log' :
        IsRow(i, t, r)' <=> (i = n /\ o = r) \/ (i \in DOMAIN log /\ IsRow(i, t, r))
  BY <1>3, <1>4 DEF IsRow
<1>6. (o = "user" => ~ HasRow(t)) /\ (o = "assistant" => HasRow(t))
  BY <1>1 DEF Stored, Before, After, At
<1>7. \A i, j \in DOMAIN log' : IsRow(i, t, "user")' /\ IsRow(j, t, "user")' => i = j
  BY <1>2, <1>3, <1>5, <1>6 DEF Stored, HasRow
<1>8. ASSUME NEW i \in DOMAIN log', IsRow(i, t, "assistant")'
      PROVE  \E j \in 1..(i - 1) : IsRow(j, t, "user")'
  <2>1. PICK j \in DOMAIN log : j <= i - 1 /\ IsRow(j, t, "user")
    <3>1. CASE i = n /\ o = "assistant"
      <4>1. PICK j \in DOMAIN log : IsRow(j, t, "user")
        BY <1>6, <3>1 DEF HasRow
      <4> QED BY <1>3, <3>1, <4>1
    <3>2. CASE i \in DOMAIN log /\ IsRow(i, t, "assistant")
      <4>1. PICK j \in 1..(i - 1) : IsRow(j, t, "user")
        BY <3>2 DEF Stored
      <4> QED BY <1>3, <3>2, <4>1
    <3> QED BY <1>5, <1>8, <3>1, <3>2
  <2>2. j \in DOMAIN log' /\ IsRow(j, t, "user")' /\ j \in 1..(i - 1)
    BY <1>3, <1>5, <2>1
  <2> QED BY <2>2
<1>9. HasRow(t)'
  <2>1. CASE o = "user"
    BY <1>3, <1>5, <2>1 DEF HasRow
  <2>2. CASE o = "assistant"
    <3>1. PICK j \in DOMAIN log : IsRow(j, t, "user")
      BY <1>6, <2>2 DEF HasRow
    <3>2. j \in DOMAIN log' /\ IsRow(j, t, "user")'
      BY <1>3, <1>5, <3>1
    <3> QED BY <3>2 DEF HasRow
  <2> QED BY <1>2, <2>1, <2>2
<1>10. ~ Before(t)'
  BY <1>1 DEF Before, At
<1> QED BY <1>7, <1>8, <1>9, <1>10 DEF Stored

LEMMA StoredStep ==
  ASSUME SessionAssumption, TypeOK, RowFits, [Next]_vars, NEW t \in Turn, TurnFits(t), Stored(t)
  PROVE  Stored(t)'
<1>1. CASE UNCHANGED log /\ turn'[t].pc = turn[t].pc /\ turn'[t].role = turn[t].role
  BY <1>1, StoredKept DEF Before, After, At
<1>2. ASSUME NEW u \in Turn \ {t}, Begin(u) \/ TurnStep(u) PROVE Stored(t)'
  <2>1. turn'[t] = turn[t]
    BY <1>2, TurnMoves DEF TurnBecomes, TypeOK
  <2>2. UNCHANGED log \/ \E x, o : x # t /\ log' = Append(log, Row(x, o))
    BY <1>2 DEF Begin, TurnStep, Unavailable, Gate, GateFails, Model, NoAnswer, TurnInserts, TurnInsertFails, TurnReads,
                TurnUpserts, InsertRow
  <2> QED BY <2>1, <2>2, StoredKept DEF Before, After, At
<1>3. ASSUME NEW a \in Admin, RequestStep(a) \/ \E kind \in Kinds : Ask(a, kind) PROVE Stored(t)'
  <2>1. turn'[t].pc = turn[t].pc /\ turn'[t].role = turn[t].role
    BY <1>3, UpdateTurns DEF RequestStep, Ask, Check, Publish, ReplyInserts, ReplyFails, ReplyReads, ReplyUpserts
  <2>2. UNCHANGED log \/ log' = Append(log, Row(a, "assistant"))
    BY <1>3 DEF RequestStep, Ask, Check, Update, Publish, ReplyInserts, ReplyFails, ReplyReads, ReplyUpserts, InsertRow
  <2>3. a # t
    BY DEF SessionAssumption
  <2> QED BY <2>1, <2>2, <2>3, StoredKept DEF Before, After, At
<1>4. CASE TurnInserts(t)
  BY <1>4, StoredOwn
<1>5. CASE (Begin(t) \/ TurnStep(t)) /\ ~ TurnInserts(t)
  <2>1. UNCHANGED log
    BY <1>5 DEF Begin, TurnStep, Unavailable, Gate, GateFails, Model, NoAnswer, TurnInsertFails, TurnReads, TurnUpserts
  <2>2. CASE Begin(t)
    <3>1. turn'[t] = [NoTurn EXCEPT !.pc = "gate", !.held = session.holder # Nobody, !.free = session.holder = Nobody]
      BY <2>2 DEF Begin, TypeOK
    <3>2. turn'[t].pc = "gate"
      BY <3>1, Records DEF Turns
    <3>3. turn[t].pc = "idle"
      BY <2>2 DEF Begin, At
    <3> QED BY <2>1, <3>2, <3>3, StoredKept DEF Before, After, At
  <2>3. CASE End(t)
    <3>1. turn'[t] = [NoTurn EXCEPT !.pc = "done"]
      BY <2>3 DEF End, TypeOK
    <3>2. turn'[t].pc = "done"
      BY <3>1, Records DEF Turns
    <3> QED BY <2>1, <3>2, StoredKept DEF Before, After, At
  <2>4. CASE ~ Begin(t) /\ ~ End(t)
    <3>1. turn[t].role \in {"user", "assistant"}
      BY DEF TypeOK, Turns
    <3>2. CASE TurnUpserts(t)
      <4>1. turn'[t].pc = "row" /\ turn'[t].role = "assistant" /\ turn[t].pc = "write"
        BY <2>4, <3>2, TurnFields DEF Goes, TurnUpserts, At
      <4> QED BY <2>1, <4>1, StoredKept DEF Before, After, At
    <3>3. CASE Gate(t) \/ Model(t)
      <4>1. turn'[t].pc \in {"model", "row"} /\ turn'[t].role = "user" /\ turn[t].pc \in {"gate", "model"}
        BY <3>3, TurnFields DEF Goes, Gate, Model, At, TurnFits
      <4> QED BY <2>1, <4>1, StoredKept DEF Before, After, At
    <3>4. CASE TurnInsertFails(t)
      <4>1. turn'[t].pc = "model" /\ turn[t].role = "user" /\ turn[t].pc = "row"
        BY <2>4, <3>4, TurnFields DEF Goes, TurnInsertFails, At, TurnFits
      <4> QED BY <2>1, <4>1, StoredKept DEF Before, After, At
    <3>5. CASE TurnReads(t)
      <4>1. turn'[t].pc = "write" /\ turn[t].pc = "read"
        BY <3>5, TurnFields DEF Goes, TurnReads, At
      <4> QED BY <2>1, <4>1, StoredKept DEF Before, After, At
    <3>6. CASE GateFails(t)
      <4>1. turn'[t].pc = "model" /\ turn[t].pc = "gate"
        BY <3>6, TurnFields DEF Goes, GateFails, At
      <4> QED BY <2>1, <4>1, StoredKept DEF Before, After, At
    <3> QED BY <1>5, <2>4, <3>2, <3>3, <3>4, <3>5, <3>6 DEF TurnStep, Unavailable, NoAnswer
  <2> QED BY <2>2, <2>3, <2>4
<1>6. ASSUME NEW a \in Admin, DeleteMessage(a) PROVE Stored(t)'
  BY <1>1, <1>6 DEF DeleteMessage
<1> QED BY <1>1, <1>2, <1>3, <1>4, <1>5, <1>6 DEF Next, vars

LEMMA NextIInv == ASSUME SessionAssumption, IInv, [Next]_vars PROVE IInv'
BY TypeStep, RowStep, AloneStep, CountingStep, TurnsStep, StoredStep DEF IInv

-----------------------------------------------------------------------------
(* What the invariant says.                                                  *)
LEMMA IInvCounts == ASSUME SessionAssumption, IInv PROVE CountFollows
<1>1. session.count <= Len(log)
  BY BehindType DEF IInv, Counting, Behind
<1>2. ASSUME Inserting = {}, "uncounted" \notin past PROVE session.count = Len(log)
  BY <1>2, FS_EmptySet, BehindType DEF IInv, Counting, Behind
<1>3. ASSUME NEW t \in Turn, NEW i \in DOMAIN log
      PROVE  /\ IsRow(i, t, "user") => \A j \in DOMAIN log \ {i} : ~ IsRow(j, t, "user")
             /\ IsRow(i, t, "assistant") => \E j \in 1..(i - 1) : IsRow(j, t, "user")
  BY DEF IInv, Stored
<1> QED BY <1>1, <1>2, <1>3 DEF CountFollows

LEMMA IInvFeed == ASSUME SessionAssumption, IInv PROVE FeedNamesHolder
BY DEF IInv, Alone, FeedNamesHolder, Asks

(* A row is written by the turn or the admin whose insert it is.             *)
LEMMA WritesOwn ==
  ASSUME SessionAssumption, TypeOK, [Next]_vars, NEW who \in Turn \cup Admin, Writes(who, "assistant")
  PROVE  \/ who \in Turn /\ TurnInserts(who) /\ turn[who].role = "assistant"
         \/ who \in Admin /\ ReplyInserts(who)
<1>1. log' # log
  BY DEF Writes, TypeOK
<1>2. \A x \in Turn \cup Admin, o \in {"user", "assistant"} :
        log' = Append(log, Row(x, o)) => x = who /\ o = "assistant"
  <2>1. ASSUME NEW x \in Turn \cup Admin, NEW o \in {"user", "assistant"}, log' = Append(log, Row(x, o))
        PROVE  x = who /\ o = "assistant"
    <3>1. log'[Len(log')] = Row(x, o)
      BY <2>1 DEF TypeOK
    <3> QED BY <3>1 DEF Writes, Row
  <2> QED BY <2>1
<1>3. ASSUME NEW t \in Turn, Begin(t) \/ TurnStep(t) PROVE TurnInserts(t) /\ log' = Append(log, Row(t, turn[t].role))
  BY <1>1, <1>3 DEF Begin, TurnStep, Unavailable, Gate, GateFails, Model, NoAnswer, TurnInserts, TurnInsertFails, TurnReads,
     TurnUpserts, InsertRow
<1>4. ASSUME NEW a \in Admin, RequestStep(a) \/ \E kind \in Kinds : Ask(a, kind)
      PROVE  ReplyInserts(a) /\ log' = Append(log, Row(a, "assistant"))
  BY <1>1, <1>4 DEF RequestStep, Ask, Check, Update, Publish, ReplyInserts, ReplyFails, ReplyReads, ReplyUpserts, InsertRow
<1>5. \A t \in Turn : turn[t].role \in {"user", "assistant"}
  BY DEF TypeOK, Turns
<1>6. ASSUME NEW a \in Admin, DeleteMessage(a) PROVE FALSE
  BY <1>1, <1>6 DEF DeleteMessage
<1> QED BY <1>1, <1>2, <1>3, <1>4, <1>5, <1>6 DEF Next, vars

LEMMA HolderStep ==
  ASSUME SessionAssumption, IInv, [Next]_vars
  PROVE  /\ \A t \in Turn :
              /\ Writes(t, "assistant") => ~ turn[t].held \/ turn[t].failed
              /\ FallsSilent(t) => ~ turn[t].free
         /\ \A a \in Admin :
              Writes(a, "assistant") => session.holder = a \/ "admins" \in past
<1>0. TypeOK
  BY DEF IInv
<1>1. ASSUME NEW t \in Turn, Writes(t, "assistant") PROVE ~ turn[t].held \/ turn[t].failed
  <2>1. At(t, "row") /\ turn[t].role = "assistant"
    BY <1>0, <1>1, WritesOwn DEF SessionAssumption, TurnInserts
  <2> QED BY <2>1 DEF At, IInv, TurnFits
<1>2. ASSUME NEW t \in Turn, FallsSilent(t) PROVE ~ turn[t].free
  BY <1>2 DEF FallsSilent, IInv, TurnFits
<1>3. ASSUME NEW a \in Admin, Writes(a, "assistant") PROVE session.holder = a \/ "admins" \in past
  <2>1. Replying(a)
    BY <1>0, <1>3, WritesOwn DEF SessionAssumption, ReplyInserts, Asks, Replying, InsertSteps
  <2> QED BY <2>1 DEF IInv, Alone
<1> QED BY <1>1, <1>2, <1>3

-----------------------------------------------------------------------------
(* The transcript and its count, for any number of turns and admins: the count
   never runs ahead of the messages that were ever stored and is their number
   when inserts do not overlap and the row can be written, deletions or not, a
   message of the user is stored once, and the bot's row follows it
   (insert_new_message, upsert_on_message, bot_delete_message).              *)
THEOREM CountHolds == ASSUME SessionAssumption PROVE Spec => [](TypeOK /\ CountFollows)
<1>1. Init => IInv
  BY InitIInv
<1>2. IInv /\ [Next]_vars => IInv'
  BY NextIInv
<1>3. IInv => TypeOK /\ CountFollows
  BY IInvCounts DEF IInv
<1> QED BY <1>1, <1>2, <1>3, PTL DEF Spec

(* The last event of the feed names the session's holder between requests of
   admins that do not overlap (admin_takeover, admin_release).               *)
THEOREM FeedHolds == ASSUME SessionAssumption PROVE Spec => []FeedNamesHolder
<1>1. Init => IInv
  BY InitIInv
<1>2. IInv /\ [Next]_vars => IInv'
  BY NextIInv
<1>3. IInv => FeedNamesHolder
  BY IInvFeed
<1> QED BY <1>1, <1>2, <1>3, PTL DEF Spec

(* The bot and the admin do not speak at once: unless reading the flag or
   storing the message failed, the bot is silent while somebody holds the
   session, it is silent only then, and the holder alone replies
   (process_message, admin_reply).                                           *)
THEOREM HolderHolds == ASSUME SessionAssumption PROVE Spec => HolderDecides
<1>1. Init => IInv
  BY InitIInv
<1>2. IInv /\ [Next]_vars => IInv'
  BY NextIInv
<1>3. IInv /\ [Next]_vars =>
        [/\ \A t \in Turn :
              /\ Writes(t, "assistant") => ~ turn[t].held \/ turn[t].failed
              /\ FallsSilent(t) => ~ turn[t].free
         /\ \A a \in Admin :
              Writes(a, "assistant") => session.holder = a \/ "admins" \in past]_vars
  BY HolderStep
<1> QED BY <1>1, <1>2, <1>3, PTL DEF Spec, HolderDecides

-----------------------------------------------------------------------------
(* What the turns and the admins of a runtime hold.                          *)
RuntimeFits(b) ==
  /\ \A t \in Takers[b] :
       /\ Rt(b)!Building(t) => /\ rtTurn[t].at \in Process /\ rtTurn[t].session \in Talks[b]
                               /\ \A s \in rtTurn[t].doomed : Rt(b)!Sweeps(rtTurn[t].session, s)
                                  /\ s # rtTurn[t].session
       /\ rtTurn[t].pc = "key" => rtTurn[t].rt.config \in Nat
       /\ rtTurn[t].pc \in {"store", "evict", "create", "fetch"} => rtTurn[t].rt \in Rt(b)!Runtimes
  /\ \A a \in Savers[b] : rtAdmin[a].pc # "idle" => rtAdmin[a].at \in Process

(* Turns of a user that did not meet: the user's other sessions are doomed,
   then gone.                                                                *)
UsersApart(b) ==
  "user" \notin rtPast =>
    /\ \A t, u \in Takers[b] :
         /\ Rt(b)!Building(t) /\ Rt(b)!Building(u) /\ rtTurn[t].at = rtTurn[u].at
         /\ Rt(b)!Kin(rtTurn[t].session, rtTurn[u].session)
         => t = u
    /\ \A t \in Takers[b], p \in Process, s \in Talks[b] :
         rtTurn[t].at = p /\ rtTurn[t].session = s =>
           /\ rtTurn[t].pc = "evict" => Rt(b)!Theirs(p, s) \subseteq rtTurn[t].doomed
           /\ rtTurn[t].pc \in {"create", "fetch"} => Rt(b)!Theirs(p, s) = {}
    /\ \A p \in Process : \A s, o \in Rt(b)!Open(p) : UserOf[s] = UserOf[o] => s = o

(* Turns and saves that did not meet.                                        *)
SavesApart(b) ==
  "raced" \notin rtPast =>
    \A t \in Takers[b], a \in Savers[b] : ~ (Rt(b)!Building(t) /\ Rt(b)!Saving(a))

(* What a turn is about to remove or to fetch is still there.                *)
TurnsSure(b) ==
  rtPast \cap {"raced", "user"} = {} =>
    /\ "failed" \notin rtPast
    /\ \A t \in Takers[b], p \in Process :
         rtTurn[t].at = p => /\ rtTurn[t].pc = "evict" => rtTurn[t].doomed \subseteq Rt(b)!Open(p)
                             /\ rtTurn[t].pc = "fetch" => rtTurn[t].session \in Rt(b)!Open(p)

(* A configuration that is about to be written succeeds the one it is based on,
   if it names one.                                                          *)
SavesInOrder(b) ==
  "puts" \notin rtPast =>
    /\ "lost" \notin rtPast
    /\ \A a, c \in Savers[b] : Rt(b)!AdminAt(a, "write") /\ Rt(b)!AdminAt(c, "write") => a = c
    /\ \A a \in Savers[b] : Rt(b)!AdminAt(a, "write") => rtAdmin[a].base \in {row.config, None}

(* One process: turns carry what the row says; what a save has not dropped is
   on the way of one that is under way.                                      *)
Freshening(b) ==
  Cardinality(Process) = 1 /\ "raced" \notin rtPast =>
    /\ \A t \in Takers[b] : /\ rtTurn[t].pc = "key" => rtTurn[t].rt.config = row.config
                            /\ rtTurn[t].pc \in {"store", "evict", "create"} => rtTurn[t].rt = row
    /\ (\A a \in Savers[b] : ~ Rt(b)!AdminAt(a, "pop"))
       => \A p \in Process : runtime[p] \in Rt(b)!Current
    /\ (\A a \in Savers[b] : rtAdmin[a].pc \notin {"pop", "list"}) =>
         \A p \in Process, s \in Talks[b] :
           \/ cache[p][s] \in Rt(b)!Current
           \/ \E a \in Savers[b] : Rt(b)!AdminAt(a, "purge") /\ s \in rtAdmin[a].doomed
    /\ \A a, c \in Savers[b] : Rt(b)!AdminAt(a, "purge") /\ Rt(b)!AdminAt(c, "purge") => a = c
    /\ \A a \in Savers[b], p \in Process :
         Rt(b)!AdminAt(a, "purge") /\ rtAdmin[a].at = p => rtAdmin[a].doomed \subseteq Rt(b)!Open(p)

RuntimeInv(b) ==
  /\ Rt(b)!TypeOK /\ RuntimeFits(b) /\ UsersApart(b) /\ SavesApart(b) /\ TurnsSure(b)
  /\ SavesInOrder(b) /\ Freshening(b)

(* What is finite, and the size of it, is the same in the instances.         *)
LEMMA Counts ==
  ASSUME NEW b \in Bot
  PROVE  \A S : /\ Rt(b)!Cardinality(S) = Cardinality(S)
                /\ Rt(b)!IsFiniteSet(S) <=> IsFiniteSet(S)
BY DEF Rt!Cardinality, Cardinality, Rt!IsFiniteSet, IsFiniteSet

LEMMA RuntimeGood ==
  ASSUME NEW b \in Bot, RuntimeInv(b)
  PROVE  Rt(b)!FreshUnlessRaced /\ Rt(b)!HandlersKept
<1>1. Rt(b)!HandlersKept
  BY DEF RuntimeInv, UsersApart, TurnsSure, SavesInOrder, Rt!HandlersKept
<1>2. Rt(b)!FreshUnlessRaced
  BY Counts DEF RuntimeInv, Freshening, Rt!FreshUnlessRaced, Rt!Saving, Rt!AdminAt
<1> QED BY <1>1, <1>2

-----------------------------------------------------------------------------
LEMMA RuntimesTyped ==
  ASSUME NEW b \in Bot, Rt(b)!RuntimeAssumption
  PROVE  /\ Rt(b)!Absent \notin Rt(b)!Runtimes /\ Rt(b)!Absent.config = None
         /\ \A q \in Rt(b)!Runtimes : q # Rt(b)!Absent /\ q.config \in Nat /\ q.key \in Nat
         /\ Rt(b)!NoTurn \in Rt(b)!Turns /\ Rt(b)!NoTurn.pc = "idle"
            /\ Rt(b)!NoSave \in Rt(b)!Admins /\ Rt(b)!NoSave.pc = "idle"
<1>1. \A q \in Rt(b)!Runtimes : q.config \in Nat /\ q.key \in Nat
  BY DEF Rt!Runtimes
<1>2. Rt(b)!Absent.config = None /\ None \notin Nat
  BY DEF Rt!Absent, Rt!RuntimeAssumption
<1>3. Rt(b)!NoTurn \in Rt(b)!Turns /\ Rt(b)!NoTurn.pc = "idle"
  BY DEF Rt!NoTurn, Rt!Turns, Rt!Absent
<1>4. Rt(b)!NoSave \in Rt(b)!Admins /\ Rt(b)!NoSave.pc = "idle"
  BY DEF Rt!NoSave, Rt!Admins
<1> QED BY <1>1, <1>2, <1>3, <1>4

LEMMA RuntimeInit == ASSUME NEW b \in Bot, Rt(b)!RuntimeAssumption, Rt(b)!Init PROVE RuntimeInv(b)
<1>1. /\ row = [config |-> 1, key |-> 1] /\ row \in Rt(b)!Runtimes
      /\ \A p \in Process : runtime[p] = Rt(b)!Absent
         /\ \A s \in Talks[b] : cache[p][s] = Rt(b)!Absent
      /\ rtTurn \in [Takers[b] -> Rt(b)!Turns] /\ \A t \in Takers[b] : rtTurn[t].pc = "idle"
      /\ rtAdmin \in [Savers[b] -> Rt(b)!Admins] /\ \A a \in Savers[b] : rtAdmin[a].pc = "idle"
      /\ rtPast = {}
  BY RuntimesTyped DEF Rt!Init, Rt!Runtimes
<1>2. \A p \in Process : Rt(b)!Open(p) = {}
  BY <1>1 DEF Rt!Open
<1>3. Rt(b)!TypeOK
  <2>1. \A p \in Process : Cardinality(Rt(b)!Open(p)) <= Room[b]
    BY <1>2, FS_EmptySet DEF Rt!RuntimeAssumption
  <2>2. /\ runtime \in [Process -> Rt(b)!Runtimes \cup {Rt(b)!Absent}]
        /\ cache \in [Process -> [Talks[b] -> Rt(b)!Runtimes \cup {Rt(b)!Absent}]]
    BY DEF Rt!Init
  <2> QED BY Counts, <1>1, <2>1, <2>2 DEF Rt!TypeOK
<1>4. RuntimeFits(b) /\ UsersApart(b) /\ SavesApart(b) /\ TurnsSure(b) /\ SavesInOrder(b)
  BY <1>1, <1>2 DEF RuntimeFits, Rt!Building, UsersApart, SavesApart, TurnsSure, SavesInOrder,
     Rt!AdminAt
<1>5. Freshening(b)
  BY <1>1 DEF Freshening, Rt!Current, Rt!AdminAt
<1> QED BY <1>3, <1>4, <1>5 DEF RuntimeInv

(* A turn, or an admin, gets another state.                                  *)
LEMMA TakerBecomes ==
  ASSUME NEW b \in Bot, Rt(b)!TypeOK, NEW t \in Takers[b], NEW q \in Rt(b)!Turns,
         rtTurn' = [rtTurn EXCEPT ![t] = q]
  PROVE  rtTurn' \in [Takers[b] -> Rt(b)!Turns] /\ rtTurn'[t] = q
         /\ \A u \in Takers[b] \ {t} : rtTurn'[u] = rtTurn[u]
BY DEF Rt!TypeOK

LEMMA SaverBecomes ==
  ASSUME NEW b \in Bot, Rt(b)!TypeOK, NEW a \in Savers[b], NEW q \in Rt(b)!Admins,
         rtAdmin' = [rtAdmin EXCEPT ![a] = q]
  PROVE  rtAdmin' \in [Savers[b] -> Rt(b)!Admins] /\ rtAdmin'[a] = q
         /\ \A c \in Savers[b] \ {a} : rtAdmin'[c] = rtAdmin[c]
BY DEF Rt!TypeOK

(* A handler leaves the cache.                                               *)
LEMMA Removes ==
  ASSUME NEW b \in Bot, Rt(b)!RuntimeAssumption, Rt(b)!TypeOK, NEW p \in Process,
         NEW s \in Talks[b], Rt(b)!Removed(p, s)
  PROVE  /\ cache' \in [Process -> [Talks[b] -> Rt(b)!Runtimes \cup {Rt(b)!Absent}]]
         /\ Rt(b)!Open(p)' = Rt(b)!Open(p) \ {s}
            /\ \A o \in Process \ {p} : Rt(b)!Open(o)' = Rt(b)!Open(o)
         /\ \A o \in Process : Cardinality(Rt(b)!Open(o)') <= Room[b]
         /\ \A o \in Process, i \in Talks[b] : cache'[o][i] \in {cache[o][i], Rt(b)!Absent}
<1>1. cache' = [cache EXCEPT ![p] = [cache[p] EXCEPT ![s] = Rt(b)!Absent]]
  BY DEF Rt!Removed
<1>2. cache \in [Process -> [Talks[b] -> Rt(b)!Runtimes \cup {Rt(b)!Absent}]]
  BY DEF Rt!TypeOK
<1>3. cache'[p] = [cache[p] EXCEPT ![s] = Rt(b)!Absent]
      /\ \A o \in Process \ {p} : cache'[o] = cache[o]
  BY <1>1, <1>2
<1>4. Rt(b)!Open(p)' = Rt(b)!Open(p) \ {s}
      /\ \A o \in Process \ {p} : Rt(b)!Open(o)' = Rt(b)!Open(o)
  BY <1>2, <1>3 DEF Rt!Open
<1>5. \A o \in Process : Cardinality(Rt(b)!Open(o)') <= Room[b]
  <2> SUFFICES ASSUME NEW o \in Process PROVE Cardinality(Rt(b)!Open(o)') <= Room[b]
    OBVIOUS
  <2>1. Rt(b)!Open(o)' \subseteq Rt(b)!Open(o) /\ Rt(b)!Open(o) \subseteq Talks[b]
    BY <1>4 DEF Rt!Open
  <2>2. IsFiniteSet(Rt(b)!Open(o))
    BY Counts, <2>1, FS_Subset DEF Rt!RuntimeAssumption
  <2>3. Cardinality(Rt(b)!Open(o)') <= Cardinality(Rt(b)!Open(o)) /\ IsFiniteSet(Rt(b)!Open(o)')
    BY <2>1, <2>2, FS_Subset
  <2>4. Cardinality(Rt(b)!Open(o)) \in Nat /\ Cardinality(Rt(b)!Open(o)') \in Nat /\ Room[b] \in Nat
        /\ Cardinality(Rt(b)!Open(o)) <= Room[b]
    BY Counts, <2>2, <2>3, FS_CardinalityType DEF Rt!TypeOK, Rt!RuntimeAssumption
  <2> QED BY <2>3, <2>4
<1>6. /\ cache' \in [Process -> [Talks[b] -> Rt(b)!Runtimes \cup {Rt(b)!Absent}]]
      /\ \A o \in Process, i \in Talks[b] : cache'[o][i] \in {cache[o][i], Rt(b)!Absent}
  BY <1>1, <1>2, <1>3
<1> QED BY <1>4, <1>5, <1>6

-----------------------------------------------------------------------------
(* Turns go on or end, the caches stay: a turn that has read the cache knows the
   user's other sessions.                                                    *)
LEMMA StaysApart ==
  ASSUME NEW b \in Bot, Rt(b)!RuntimeAssumption, RuntimeInv(b), UNCHANGED cache,
         "user" \in rtPast => "user" \in rtPast',
         \A u \in Takers[b] : Rt(b)!Building(u)' => /\ Rt(b)!Building(u)
                                                    /\ rtTurn'[u].at = rtTurn[u].at
                                                       /\ rtTurn'[u].session = rtTurn[u].session,
         \A u \in Takers[b] : \/ rtTurn'[u] = rtTurn[u]
                              \/ rtTurn'[u].pc \notin {"evict", "create", "fetch"}
                              \/ rtTurn'[u].pc = "evict"
                                  /\ rtTurn'[u].doomed = Rt(b)!Theirs(rtTurn[u].at, rtTurn[u].session)
                              \/ rtTurn[u].pc = "evict" /\ rtTurn[u].doomed = {}
  PROVE  UsersApart(b)'
<1> SUFFICES ASSUME "user" \notin rtPast PROVE UsersApart(b)'
  BY DEF UsersApart
<1>1. \A p : Rt(b)!Open(p)' = Rt(b)!Open(p) /\ \A s : Rt(b)!Theirs(p, s)' = Rt(b)!Theirs(p, s)
  BY DEF Rt!Open, Rt!Theirs
<1>2. ASSUME NEW t \in Takers[b], NEW u \in Takers[b], Rt(b)!Building(t)', Rt(b)!Building(u)',
             rtTurn'[t].at = rtTurn'[u].at,
             Rt(b)!Kin(rtTurn'[t].session, rtTurn'[u].session)
      PROVE  t = u
  BY <1>2 DEF RuntimeInv, UsersApart
<1>3. ASSUME NEW t \in Takers[b], NEW p \in Process, NEW s \in Talks[b], rtTurn'[t].at = p,
             rtTurn'[t].session = s
      PROVE  /\ rtTurn'[t].pc = "evict" => Rt(b)!Theirs(p, s) \subseteq rtTurn'[t].doomed
             /\ rtTurn'[t].pc \in {"create", "fetch"} => Rt(b)!Theirs(p, s) = {}
  <2>1. CASE rtTurn'[t].pc \in {"evict", "create", "fetch"}
    <3>1. rtTurn[t].at = p /\ rtTurn[t].session = s
      BY <1>3, <2>1 DEF Rt!Building
    <3>2. /\ rtTurn[t].pc = "evict" => Rt(b)!Theirs(p, s) \subseteq rtTurn[t].doomed
          /\ rtTurn[t].pc \in {"create", "fetch"} => Rt(b)!Theirs(p, s) = {}
      BY <3>1 DEF RuntimeInv, UsersApart
    <3> QED BY <2>1, <3>1, <3>2
  <2> QED BY <2>1
<1>4. \A p \in Process : \A s, o \in Rt(b)!Open(p) : UserOf[s] = UserOf[o] => s = o
  BY DEF RuntimeInv, UsersApart
<1> QED BY <1>1, <1>2, <1>3, <1>4 DEF UsersApart

(* A turn goes on where the caches, the row and the saves stay: what holds of
   it holds of all, if what it knows is true.                                *)
LEMMA TurnGoes ==
  ASSUME NEW b \in Bot, Rt(b)!RuntimeAssumption, RuntimeInv(b), NEW t \in Takers[b],
         NEW q \in Rt(b)!Turns,
         rtTurn' = [rtTurn EXCEPT ![t] = q], UNCHANGED <<row, runtime, cache, rtAdmin, rtPast>>,
         q.pc # "idle" =>
           /\ rtTurn[t].pc # "idle" /\ q.at = rtTurn[t].at /\ q.session = rtTurn[t].session
           /\ \A s \in q.doomed : Rt(b)!Sweeps(q.session, s) /\ s # q.session,
         q.pc = "key" => q.rt.config = row.config,
         q.pc = "store" =>
           rtTurn[t].pc = "key" /\ q.rt.config = rtTurn[t].rt.config /\ q.rt.key = row.key,
         q.pc \in {"evict", "create", "fetch"} =>
           rtTurn[t].pc \in {"store", "evict", "create"} /\ q.rt = rtTurn[t].rt,
         q.pc = "evict" => q.doomed = Rt(b)!Theirs(q.at, q.session),
         q.pc \in {"create", "fetch"} => rtTurn[t].pc = "evict" /\ rtTurn[t].doomed = {},
         q.pc = "fetch" => q.session \in Rt(b)!Open(q.at)
  PROVE  RuntimeInv(b)'
<1>1. rtTurn' \in [Takers[b] -> Rt(b)!Turns] /\ rtTurn'[t] = q
      /\ (\A u \in Takers[b] \ {t} : rtTurn'[u] = rtTurn[u]) /\ Rt(b)!TypeOK
  BY TakerBecomes DEF RuntimeInv
<1>2. /\ UNCHANGED <<row, runtime, cache, rtAdmin, rtPast>>
      /\ \A p : Rt(b)!Open(p)' = Rt(b)!Open(p) /\ \A s : Rt(b)!Theirs(p, s)' = Rt(b)!Theirs(p, s)
      /\ row \in Rt(b)!Runtimes /\ row.config \in Nat /\ row.key \in Nat
  BY <1>1, RuntimesTyped DEF Rt!Open, Rt!Theirs, Rt!TypeOK
<1>3. Rt(b)!TypeOK'
  BY <1>1, <1>2 DEF Rt!TypeOK
<1>4. q.pc = "store" => q.rt \in Rt(b)!Runtimes /\ (rtTurn[t].rt.config = row.config => q.rt = row)
  BY <1>1, <1>2 DEF RuntimeInv, RuntimeFits, Rt!Turns, Rt!Runtimes
<1>5. RuntimeFits(b)'
  BY <1>1, <1>2, <1>4 DEF RuntimeInv, RuntimeFits, Rt!Building
<1>6. UsersApart(b)'
  <2>1. \A u \in Takers[b] : Rt(b)!Building(u)' => Rt(b)!Building(u)
        /\ rtTurn'[u].at = rtTurn[u].at /\ rtTurn'[u].session = rtTurn[u].session
    BY <1>1 DEF Rt!Building
  <2>2. /\ \A u \in Takers[b] \ {t} : rtTurn'[u] = rtTurn[u]
        /\ q.pc \in {"create", "fetch"} => rtTurn[t].pc = "evict" /\ rtTurn[t].doomed = {}
    BY <1>1
  <2> QED BY <1>1, <1>2, <2>1, <2>2, StaysApart
<1>7. SavesApart(b)'
  BY <1>1, <1>2 DEF RuntimeInv, SavesApart, Rt!Building, Rt!Saving
<1>8. TurnsSure(b)'
  BY <1>1, <1>2 DEF RuntimeInv, TurnsSure, Rt!Theirs
<1>9. SavesInOrder(b)'
  BY <1>2 DEF RuntimeInv, SavesInOrder, Rt!AdminAt
<1>10. Freshening(b)'
  BY Counts, <1>1, <1>2, <1>4 DEF RuntimeInv, Freshening, Rt!Current, Rt!AdminAt
<1> QED BY <1>3, <1>5, <1>6, <1>7, <1>8, <1>9, <1>10 DEF RuntimeInv

LEMMA ReadsRuntime ==
  ASSUME NEW b \in Bot, Rt(b)!RuntimeAssumption, RuntimeInv(b), NEW t \in Takers[b],
         Rt(b)!ReadConfig(t) \/ Rt(b)!ReadKey(t) \/ Rt(b)!Evicted(t)
  PROVE  RuntimeInv(b)'
<1>1. rtTurn[t] \in Rt(b)!Turns /\ row.config \in Nat /\ row.key \in Nat
  BY RuntimesTyped DEF RuntimeInv, Rt!TypeOK
<1>2. CASE Rt(b)!ReadConfig(t)
  <2>1. PICK q : q = [rtTurn[t] EXCEPT !.pc = "key",
                                     !.rt = [rtTurn[t].rt EXCEPT !.config = row.config]]
    OBVIOUS
  <2>2. q \in Rt(b)!Turns /\ q.pc = "key" /\ q.at = rtTurn[t].at /\ q.session = rtTurn[t].session
        /\ q.doomed = rtTurn[t].doomed /\ q.rt.config = row.config
    BY <1>1, <2>1 DEF Rt!Turns
  <2>3. rtTurn' = [rtTurn EXCEPT ![t] = q] /\ rtTurn[t].pc = "config"
        /\ UNCHANGED <<row, runtime, cache, rtAdmin, rtPast>>
    BY <1>2, <2>1 DEF Rt!ReadConfig, Rt!TurnAt
  <2>4. \A s \in q.doomed : Rt(b)!Sweeps(q.session, s) /\ s # q.session
    BY <2>2, <2>3 DEF RuntimeInv, RuntimeFits, Rt!Building
  <2> QED BY <2>2, <2>3, <2>4, TurnGoes
<1>3. CASE Rt(b)!ReadKey(t)
  <2>1. PICK q : q = [rtTurn[t] EXCEPT !.pc = "store", !.rt = [rtTurn[t].rt EXCEPT !.key = row.key]]
    OBVIOUS
  <2>2. q \in Rt(b)!Turns /\ q.pc = "store" /\ q.at = rtTurn[t].at /\ q.session = rtTurn[t].session
        /\ q.doomed = rtTurn[t].doomed /\ q.rt.config = rtTurn[t].rt.config /\ q.rt.key = row.key
    BY <1>1, <2>1 DEF Rt!Turns
  <2>3. rtTurn' = [rtTurn EXCEPT ![t] = q] /\ rtTurn[t].pc = "key"
        /\ UNCHANGED <<row, runtime, cache, rtAdmin, rtPast>>
    BY <1>3, <2>1 DEF Rt!ReadKey, Rt!TurnAt
  <2>4. \A s \in q.doomed : Rt(b)!Sweeps(q.session, s) /\ s # q.session
    BY <2>2, <2>3 DEF RuntimeInv, RuntimeFits, Rt!Building
  <2> QED BY <2>2, <2>3, <2>4, TurnGoes
<1>4. CASE Rt(b)!Evicted(t)
  <2>1. PICK pc : pc = IF rtTurn[t].session \in Rt(b)!Open(rtTurn[t].at) THEN "fetch" ELSE "create"
    OBVIOUS
  <2>2. PICK q : q = [rtTurn[t] EXCEPT !.pc = pc]
    OBVIOUS
  <2>3. q \in Rt(b)!Turns /\ q.pc = pc /\ q.at = rtTurn[t].at /\ q.session = rtTurn[t].session
        /\ q.doomed = rtTurn[t].doomed /\ q.rt = rtTurn[t].rt /\ pc \in {"fetch", "create"}
    BY <1>1, <2>1, <2>2 DEF Rt!Turns
  <2>4. /\ rtTurn' = [rtTurn EXCEPT ![t] = q] /\ rtTurn[t].pc = "evict" /\ rtTurn[t].doomed = {}
        /\ UNCHANGED <<row, runtime, cache, rtAdmin, rtPast>>
    BY <1>4, <2>1, <2>2 DEF Rt!Evicted, Rt!TurnAt, Rt!TurnTo
  <2> QED BY <2>1, <2>3, <2>4, TurnGoes
<1> QED BY <1>2, <1>3, <1>4

(* A turn ends.                                                              *)
LEMMA TurnEnds ==
  ASSUME NEW b \in Bot, Rt(b)!RuntimeAssumption, RuntimeInv(b), NEW t \in Takers[b],
         rtTurn' = [rtTurn EXCEPT ![t] = Rt(b)!NoTurn], UNCHANGED <<row, runtime, cache, rtAdmin>>,
         \/ rtPast' = rtPast
         \/ rtPast' = rtPast \cup {"failed"} /\ rtPast \cap {"raced", "user"} # {}
  PROVE  RuntimeInv(b)'
<1>1. rtTurn' \in [Takers[b] -> Rt(b)!Turns] /\ rtTurn'[t].pc = "idle"
      /\ (\A u \in Takers[b] \ {t} : rtTurn'[u] = rtTurn[u]) /\ Rt(b)!TypeOK
  BY TakerBecomes, RuntimesTyped DEF RuntimeInv
<1>2. /\ \A p : Rt(b)!Open(p)' = Rt(b)!Open(p) /\ \A s : Rt(b)!Theirs(p, s)' = Rt(b)!Theirs(p, s)
      /\ \A h \in {"raced", "user", "puts", "lost"} : h \in rtPast' <=> h \in rtPast
      /\ rtPast' \cap {"raced", "user"} = {} => rtPast \cap {"raced", "user"} = {}
         /\ rtPast' = rtPast
  BY DEF Rt!Open, Rt!Theirs
<1>3. Rt(b)!TypeOK'
  BY <1>1, <1>2 DEF Rt!TypeOK
<1>4. RuntimeFits(b)' /\ SavesApart(b)'
  BY <1>1, <1>2 DEF RuntimeInv, RuntimeFits, SavesApart, Rt!Building, Rt!Saving
<1>5. UsersApart(b)'
  <2>1. \A u \in Takers[b] : rtTurn'[u].pc # "idle" => rtTurn'[u] = rtTurn[u]
    BY <1>1
  <2> QED BY <1>2, <2>1, StaysApart DEF Rt!Building
<1>6. TurnsSure(b)'
  BY <1>1, <1>2 DEF RuntimeInv, TurnsSure
<1>7. SavesInOrder(b)'
  BY <1>2 DEF RuntimeInv, SavesInOrder, Rt!AdminAt
<1>8. Freshening(b)'
  BY <1>1, <1>2 DEF RuntimeInv, Freshening, Rt!Current, Rt!AdminAt
<1> QED BY <1>3, <1>4, <1>5, <1>6, <1>7, <1>8 DEF RuntimeInv

LEMMA FetchRuntime ==
  ASSUME NEW b \in Bot, Rt(b)!RuntimeAssumption, RuntimeInv(b), NEW t \in Takers[b], Rt(b)!Fetch(t)
  PROVE  RuntimeInv(b)'
<1>1. CASE rtTurn[t].session \in Rt(b)!Open(rtTurn[t].at)
  BY <1>1, TurnEnds DEF Rt!Fetch
<1>2. CASE rtTurn[t].session \notin Rt(b)!Open(rtTurn[t].at)
  <2>1. rtTurn[t].pc = "fetch" /\ rtTurn[t].at \in Process
    BY DEF Rt!Fetch, Rt!TurnAt, RuntimeInv, RuntimeFits, Rt!Building
  <2>2. rtPast \cap {"raced", "user"} # {}
    BY <1>2, <2>1 DEF RuntimeInv, TurnsSure
  <2> QED BY <1>2, <2>2, TurnEnds DEF Rt!Fetch, Rt!Fail
<1> QED BY <1>1, <1>2

LEMMA LookupRuntime ==
  ASSUME NEW b \in Bot, Rt(b)!RuntimeAssumption, RuntimeInv(b), NEW t \in Takers[b],
         NEW p \in Process, NEW s \in Talks[b], Rt(b)!Lookup(t, p, s)
  PROVE  RuntimeInv(b)'
<1>1. PICK q : q = [pc |-> IF runtime[p] = Rt(b)!Absent THEN "config" ELSE "evict",
                    at |-> p, session |-> s, rt |-> runtime[p], doomed |-> Rt(b)!Theirs(p, s)]
  OBVIOUS
<1>2. /\ q.pc = (IF runtime[p] = Rt(b)!Absent THEN "config" ELSE "evict")
         /\ q.pc \in {"config", "evict"}
      /\ q.at = p /\ q.session = s /\ q.rt = runtime[p] /\ q.doomed = Rt(b)!Theirs(p, s)
      /\ runtime[p] \in Rt(b)!Runtimes \cup {Rt(b)!Absent} /\ Rt(b)!TypeOK
  BY <1>1 DEF RuntimeInv, Rt!TypeOK
<1>3. /\ Rt(b)!Theirs(p, s) \subseteq Rt(b)!Open(p) /\ Rt(b)!Open(p) \subseteq Talks[b]
      /\ \A o \in Rt(b)!Theirs(p, s) : Rt(b)!Sweeps(s, o) /\ o # s
  BY DEF Rt!Theirs, Rt!Open
<1>4. q \in Rt(b)!Turns
  BY <1>1, <1>2, <1>3 DEF Rt!Turns, Rt!Runtimes, Rt!Absent
<1>5. rtTurn' = [rtTurn EXCEPT ![t] = q] /\ rtTurn[t].pc = "idle"
      /\ UNCHANGED <<row, runtime, cache, rtAdmin>>
      /\ rtPast' = rtPast \cup Rt(b)!Met(t, p, s)
  BY <1>1 DEF Rt!Lookup
<1>6. rtTurn' \in [Takers[b] -> Rt(b)!Turns] /\ rtTurn'[t] = q
      /\ \A u \in Takers[b] \ {t} : rtTurn'[u] = rtTurn[u]
  BY <1>2, <1>4, <1>5, TakerBecomes
<1>7. /\ Rt(b)!Met(t, p, s) \subseteq {"raced", "user"} /\ rtPast \subseteq rtPast'
      /\ "raced" \notin rtPast' => \A a \in Savers[b] : ~ Rt(b)!Saving(a)
      /\ "user" \notin rtPast' => \A u \in Takers[b] \ {t} :
           ~ (Rt(b)!Building(u) /\ rtTurn[u].at = p /\ Rt(b)!Kin(rtTurn[u].session, s))
      /\ \A h \in {"failed", "puts", "lost"} : h \in rtPast' <=> h \in rtPast
  BY <1>5 DEF Rt!Met
<1>8. \A o : Rt(b)!Open(o)' = Rt(b)!Open(o) /\ \A i : Rt(b)!Theirs(o, i)' = Rt(b)!Theirs(o, i)
  BY <1>5 DEF Rt!Open, Rt!Theirs
<1>9. Rt(b)!TypeOK'
  BY <1>2, <1>5, <1>6, <1>7, <1>8 DEF Rt!TypeOK
<1>10. RuntimeFits(b)'
  BY <1>2, <1>3, <1>5, <1>6 DEF RuntimeInv, RuntimeFits, Rt!Building
<1>11. UsersApart(b)'
  BY <1>2, <1>3, <1>5, <1>6, <1>7, <1>8 DEF RuntimeInv, UsersApart, Rt!Building, Rt!Kin
<1>12. SavesApart(b)'
  BY <1>5, <1>6, <1>7 DEF RuntimeInv, SavesApart, Rt!Building, Rt!Saving
<1>13. TurnsSure(b)'
  BY <1>2, <1>3, <1>5, <1>6, <1>7, <1>8 DEF RuntimeInv, TurnsSure
<1>14. SavesInOrder(b)'
  BY <1>5, <1>7 DEF RuntimeInv, SavesInOrder, Rt!AdminAt
<1>15. Freshening(b)'
  <2>1. Cardinality(Process) = 1 /\ "raced" \notin rtPast' /\ q.pc = "evict" => q.rt = row
    BY <1>2, <1>7 DEF RuntimeInv, Freshening, Rt!Saving, Rt!AdminAt, Rt!Current
  <2> QED BY <1>2, <1>5, <1>6, <1>7, <1>8, <2>1 DEF RuntimeInv, Freshening, Rt!Current, Rt!AdminAt
<1> QED BY <1>9, <1>10, <1>11, <1>12, <1>13, <1>14, <1>15 DEF RuntimeInv

LEMMA StoresRuntime ==
  ASSUME NEW b \in Bot, Rt(b)!RuntimeAssumption, RuntimeInv(b), NEW t \in Takers[b],
         Rt(b)!StoreRuntime(t)
  PROVE  RuntimeInv(b)'
<1>1. PICK p \in Process : p = rtTurn[t].at
  BY DEF Rt!StoreRuntime, Rt!TurnAt, RuntimeInv, RuntimeFits, Rt!Building
<1>2. PICK s \in Talks[b] : s = rtTurn[t].session
  BY DEF Rt!StoreRuntime, Rt!TurnAt, RuntimeInv, RuntimeFits, Rt!Building
<1>3. PICK rt \in Rt(b)!Runtimes : rt = rtTurn[t].rt
  BY DEF Rt!StoreRuntime, Rt!TurnAt, RuntimeInv, RuntimeFits
<1>4. PICK q : q = [rtTurn[t] EXCEPT !.pc = "evict", !.doomed = Rt(b)!Theirs(p, s)]
  OBVIOUS
<1>5. /\ rtTurn[t].pc = "store" /\ rtTurn' = [rtTurn EXCEPT ![t] = q]
         /\ UNCHANGED <<row, cache, rtAdmin, rtPast>>
      /\ runtime' = [runtime EXCEPT ![p] = rt] /\ Rt(b)!TypeOK /\ rtTurn[t] \in Rt(b)!Turns
  BY <1>1, <1>2, <1>3, <1>4 DEF Rt!StoreRuntime, Rt!TurnAt, RuntimeInv, Rt!TypeOK
<1>6. /\ Rt(b)!Theirs(p, s) \subseteq Rt(b)!Open(p) /\ Rt(b)!Open(p) \subseteq Talks[b]
      /\ \A o \in Rt(b)!Theirs(p, s) : Rt(b)!Sweeps(s, o) /\ o # s
  BY DEF Rt!Theirs, Rt!Open
<1>7. q \in Rt(b)!Turns /\ q.pc = "evict" /\ q.at = p /\ q.session = s /\ q.rt = rt
      /\ q.doomed = Rt(b)!Theirs(p, s)
  BY <1>1, <1>2, <1>3, <1>4, <1>5, <1>6 DEF Rt!Turns
<1>8. rtTurn' \in [Takers[b] -> Rt(b)!Turns] /\ rtTurn'[t] = q
      /\ \A u \in Takers[b] \ {t} : rtTurn'[u] = rtTurn[u]
  BY <1>5, <1>7, TakerBecomes
<1>9. \A o : Rt(b)!Open(o)' = Rt(b)!Open(o) /\ \A i : Rt(b)!Theirs(o, i)' = Rt(b)!Theirs(o, i)
  BY <1>5 DEF Rt!Open, Rt!Theirs
<1>10. /\ runtime' \in [Process -> Rt(b)!Runtimes \cup {Rt(b)!Absent}] /\ runtime'[p] = rt
       /\ \A o \in Process \ {p} : runtime'[o] = runtime[o]
  BY <1>5 DEF Rt!TypeOK
<1>11. Rt(b)!TypeOK'
  BY <1>5, <1>8, <1>9, <1>10 DEF Rt!TypeOK
<1>12. RuntimeFits(b)'
  BY <1>5, <1>6, <1>7, <1>8 DEF RuntimeInv, RuntimeFits, Rt!Building
<1>13. UsersApart(b)'
  <2>1. \A u \in Takers[b] : Rt(b)!Building(u)' => Rt(b)!Building(u)
        /\ rtTurn'[u].at = rtTurn[u].at /\ rtTurn'[u].session = rtTurn[u].session
    BY <1>1, <1>2, <1>5, <1>7, <1>8 DEF Rt!Building
  <2> QED BY <1>1, <1>2, <1>5, <1>7, <1>8, <2>1, StaysApart
<1>14. SavesApart(b)'
  BY <1>5, <1>8 DEF RuntimeInv, SavesApart, Rt!Building, Rt!Saving
<1>15. TurnsSure(b)'
  BY <1>5, <1>6, <1>7, <1>8, <1>9 DEF RuntimeInv, TurnsSure
<1>16. SavesInOrder(b)'
  BY <1>5 DEF RuntimeInv, SavesInOrder, Rt!AdminAt
<1>17. Freshening(b)'
  <2>1. Cardinality(Process) = 1 /\ "raced" \notin rtPast => rt = row
    BY <1>3, <1>5 DEF RuntimeInv, Freshening
  <2> QED BY <1>5, <1>7, <1>8, <1>9, <1>10, <2>1 DEF RuntimeInv, Freshening, Rt!Current, Rt!AdminAt
<1> QED BY <1>11, <1>12, <1>13, <1>14, <1>15, <1>16, <1>17 DEF RuntimeInv

(* Two sessions whose users' prefixes begin the key of one are alike.        *)
LEMMA SweptAreKin ==
  ASSUME NEW b \in Bot, Rt(b)!RuntimeAssumption, NEW x \in Talks[b], NEW y \in Talks[b],
         NEW s \in Talks[b], Rt(b)!Sweeps(x, s), Rt(b)!Sweeps(y, s)
  PROVE  Rt(b)!Kin(x, y)
BY DEF Rt!Kin, Rt!Sweeps, Rt!RuntimeAssumption

LEMMA EvictRuntime ==
  ASSUME NEW b \in Bot, Rt(b)!RuntimeAssumption, RuntimeInv(b), NEW t \in Takers[b],
         Rt(b)!EvictOne(t)
  PROVE  RuntimeInv(b)'
<1>1. PICK p \in Process : p = rtTurn[t].at
  BY DEF Rt!EvictOne, Rt!TurnAt, RuntimeInv, RuntimeFits, Rt!Building
<1>2. PICK s \in rtTurn[t].doomed :
        IF s \in Rt(b)!Open(p)
        THEN /\ Rt(b)!Removed(p, s)
             /\ rtTurn' = [rtTurn EXCEPT ![t].doomed = rtTurn[t].doomed \ {s}]
             /\ UNCHANGED rtPast
        ELSE Rt(b)!Fail(t) /\ UNCHANGED cache
  BY <1>1 DEF Rt!EvictOne
<1>3. /\ rtTurn[t].pc = "evict" /\ UNCHANGED <<row, runtime, rtAdmin>> /\ Rt(b)!TypeOK
         /\ rtTurn[t] \in Rt(b)!Turns
      /\ Rt(b)!Sweeps(rtTurn[t].session, s) /\ s # rtTurn[t].session /\ s \in Talks[b]
  BY <1>2 DEF Rt!EvictOne, Rt!TurnAt, RuntimeInv, Rt!TypeOK, RuntimeFits, Rt!Building, Rt!Turns
<1>4. CASE s \notin Rt(b)!Open(p)
  <2>1. rtPast \cap {"raced", "user"} # {}
    BY <1>1, <1>3, <1>4 DEF RuntimeInv, TurnsSure
  <2> QED BY <1>2, <1>3, <1>4, <2>1, TurnEnds DEF Rt!Fail
<1>5. CASE s \in Rt(b)!Open(p)
  <2>1. PICK q : q = [rtTurn[t] EXCEPT !.doomed = rtTurn[t].doomed \ {s}]
    OBVIOUS
  <2>2. /\ q \in Rt(b)!Turns /\ q.pc = "evict" /\ q.at = p /\ q.session = rtTurn[t].session
           /\ q.rt = rtTurn[t].rt
        /\ q.doomed = rtTurn[t].doomed \ {s}
    BY <1>1, <1>3, <2>1 DEF Rt!Turns
  <2>3. /\ rtTurn' = [rtTurn EXCEPT ![t] = q] /\ rtPast' = rtPast /\ Rt(b)!Removed(p, s)
    BY <1>2, <1>5, <2>1
  <2>4. rtTurn' \in [Takers[b] -> Rt(b)!Turns] /\ rtTurn'[t] = q
        /\ \A u \in Takers[b] \ {t} : rtTurn'[u] = rtTurn[u]
    BY <1>3, <2>2, <2>3, TakerBecomes
  <2>5. /\ cache' \in [Process -> [Talks[b] -> Rt(b)!Runtimes \cup {Rt(b)!Absent}]]
        /\ Rt(b)!Open(p)' = Rt(b)!Open(p) \ {s}
           /\ \A o \in Process \ {p} : Rt(b)!Open(o)' = Rt(b)!Open(o)
        /\ \A o \in Process : Cardinality(Rt(b)!Open(o)') <= Room[b]
        /\ \A o \in Process, i \in Talks[b] : cache'[o][i] \in {cache[o][i], Rt(b)!Absent}
    BY <1>3, <2>3, Removes
  <2>6. \A o \in Process, i \in Talks[b] :
          Rt(b)!Theirs(o, i)' = IF o = p THEN Rt(b)!Theirs(o, i) \ {s} ELSE Rt(b)!Theirs(o, i)
    BY <2>5 DEF Rt!Theirs
  <2>7. /\ \A u \in Takers[b] : Rt(b)!Building(u)' => Rt(b)!Building(u)
           /\ rtTurn'[u].at = rtTurn[u].at /\ rtTurn'[u].session = rtTurn[u].session
        /\ \A u \in Takers[b] : rtTurn'[u].pc = rtTurn[u].pc /\ rtTurn'[u].rt = rtTurn[u].rt
        /\ \A u \in Takers[b] : rtTurn'[u].doomed \subseteq rtTurn[u].doomed
    BY <1>1, <1>3, <2>2, <2>4 DEF Rt!Building
  <2>8. Rt(b)!TypeOK'
    BY Counts, <1>3, <2>3, <2>4, <2>5 DEF Rt!TypeOK
  <2>9. RuntimeFits(b)'
    BY <1>3, <2>7 DEF RuntimeInv, RuntimeFits
  <2>10. \A u \in Takers[b] : Rt(b)!Building(u) => rtTurn[u].at \in Process
    BY DEF RuntimeInv, RuntimeFits
  <2>11. UsersApart(b)'
    <3> SUFFICES ASSUME "user" \notin rtPast PROVE UsersApart(b)'
      BY <2>3 DEF UsersApart
    <3>1. ASSUME NEW u \in Takers[b], NEW w \in Takers[b], Rt(b)!Building(u)', Rt(b)!Building(w)',
                 rtTurn'[u].at = rtTurn'[w].at,
                 Rt(b)!Kin(rtTurn'[u].session, rtTurn'[w].session)
          PROVE  u = w
      BY <2>7, <3>1 DEF RuntimeInv, UsersApart
    <3>2. ASSUME NEW u \in Takers[b], NEW o \in Process, NEW i \in Talks[b], rtTurn'[u].at = o,
                 rtTurn'[u].session = i
          PROVE  /\ rtTurn'[u].pc = "evict" => Rt(b)!Theirs(o, i)' \subseteq rtTurn'[u].doomed
                 /\ rtTurn'[u].pc \in {"create", "fetch"} => Rt(b)!Theirs(o, i)' = {}
      <4>1. CASE rtTurn'[u].pc \in {"evict", "create", "fetch"}
        <5>1. rtTurn[u].at = o /\ rtTurn[u].session = i /\ rtTurn'[u].pc = rtTurn[u].pc
          BY <2>7, <3>2, <4>1 DEF Rt!Building
        <5>2. /\ rtTurn[u].pc = "evict" => Rt(b)!Theirs(o, i) \subseteq rtTurn[u].doomed
              /\ rtTurn[u].pc \in {"create", "fetch"} => Rt(b)!Theirs(o, i) = {}
          BY <5>1 DEF RuntimeInv, UsersApart
        <5>3. Rt(b)!Theirs(o, i)' \subseteq Rt(b)!Theirs(o, i)
              /\ (o = p => s \notin Rt(b)!Theirs(o, i)')
          BY <2>6
        <5>4. CASE u = t
          BY <1>1, <2>2, <2>4, <5>1, <5>2, <5>3, <5>4
        <5>5. CASE u # t
          BY <2>4, <5>1, <5>2, <5>3, <5>5
        <5> QED BY <5>4, <5>5
      <4> QED BY <4>1
    <3>3. \A o \in Process : \A i, j \in Rt(b)!Open(o)' : UserOf[i] = UserOf[j] => i = j
      BY <2>5 DEF RuntimeInv, UsersApart
    <3> QED BY <3>1, <3>2, <3>3 DEF UsersApart
  <2>12. SavesApart(b)'
    BY <1>3, <2>3, <2>7 DEF RuntimeInv, SavesApart, Rt!Saving
  <2>13. TurnsSure(b)'
    <3> SUFFICES ASSUME rtPast \cap {"raced", "user"} = {}, NEW u \in Takers[b], NEW o \in Process,
                        rtTurn'[u].at = o
                 PROVE  /\ rtTurn'[u].pc = "evict" => rtTurn'[u].doomed \subseteq Rt(b)!Open(o)'
                        /\ rtTurn'[u].pc = "fetch" => rtTurn'[u].session \in Rt(b)!Open(o)'
      BY <2>3 DEF TurnsSure, RuntimeInv
    <3>1. /\ rtTurn[u].pc = "evict" /\ rtTurn[u].at = o => rtTurn[u].doomed \subseteq Rt(b)!Open(o)
          /\ rtTurn[u].pc = "fetch" /\ rtTurn[u].at = o => rtTurn[u].session \in Rt(b)!Open(o)
      BY DEF RuntimeInv, TurnsSure
    <3>2. CASE u = t
      BY <1>1, <2>2, <2>4, <2>5, <1>3, <3>1, <3>2
    <3>3. CASE u # t
      <4>1. rtTurn'[u] = rtTurn[u]
        BY <2>4, <3>3
      <4>2. Rt(b)!Building(u) /\ Rt(b)!Building(t) /\ rtTurn[u].at = p
            => ~ Rt(b)!Kin(rtTurn[t].session, rtTurn[u].session)
        BY <1>1, <1>3, <3>3 DEF RuntimeInv, UsersApart
      <4>3. Rt(b)!Building(u) => \A i \in rtTurn[u].doomed : Rt(b)!Sweeps(rtTurn[u].session, i)
        BY DEF RuntimeInv, RuntimeFits
      <4>4. CASE rtTurn[u].pc \in {"evict", "fetch"}
        <5>1. Rt(b)!Building(u) /\ Rt(b)!Building(t)
          BY <1>3, <4>4 DEF Rt!Building
        <5>2. rtTurn[u].at = p => s \notin rtTurn[u].doomed /\ s # rtTurn[u].session
          <6>1. rtTurn[u].session \in Talks[b] /\ rtTurn[t].session \in Talks[b]
            BY <5>1 DEF RuntimeInv, RuntimeFits
          <6>2. ASSUME s \in rtTurn[u].doomed, rtTurn[u].at = p PROVE FALSE
            BY <1>3, <4>2, <4>3, <5>1, <6>1, <6>2, SweptAreKin
          <6> QED BY <1>3, <4>2, <5>1, <6>2 DEF Rt!Kin
        <5> QED BY <2>5, <3>1, <4>1, <5>2
      <4> QED BY <4>1, <4>4
    <3> QED BY <3>2, <3>3
  <2>14. SavesInOrder(b)'
    BY <1>3, <2>3 DEF RuntimeInv, SavesInOrder, Rt!AdminAt
  <2>15. Freshening(b)'
    <3> SUFFICES ASSUME Cardinality(Process) = 1, "raced" \notin rtPast PROVE Freshening(b)'
      BY <2>3 DEF Freshening
    <3>1. \A a \in Savers[b] : ~ Rt(b)!Saving(a)
      BY <1>3 DEF RuntimeInv, SavesApart, Rt!Building
    <3>2. \A a \in Savers[b] : ~ Rt(b)!AdminAt(a, "purge")
      BY <3>1 DEF Rt!Saving, Rt!AdminAt
    <3> QED BY <1>3, <2>3, <2>5, <2>7, <3>2 DEF RuntimeInv, Freshening, Rt!Current, Rt!AdminAt
  <2> QED BY <2>8, <2>9, <2>11, <2>12, <2>13, <2>14, <2>15 DEF RuntimeInv
<1> QED BY <1>4, <1>5

LEMMA CreateRuntime ==
  ASSUME NEW b \in Bot, Rt(b)!RuntimeAssumption, RuntimeInv(b), NEW t \in Takers[b],
         Rt(b)!CreateHandler(t)
  PROVE  RuntimeInv(b)'
<1>1. PICK p \in Process : p = rtTurn[t].at
  BY DEF Rt!CreateHandler, Rt!TurnAt, RuntimeInv, RuntimeFits, Rt!Building
<1>2. PICK s \in Talks[b] : s = rtTurn[t].session
  BY DEF Rt!CreateHandler, Rt!TurnAt, RuntimeInv, RuntimeFits, Rt!Building
<1>3. PICK rt \in Rt(b)!Runtimes : rt = rtTurn[t].rt
  BY DEF Rt!CreateHandler, Rt!TurnAt, RuntimeInv, RuntimeFits
<1>4. PICK expelled \in {{}} \cup {{i} : i \in Rt(b)!Open(rtTurn[t].at) \ {rtTurn[t].session}} :
        /\ Rt(b)!OverFull(Rt(b)!Open(rtTurn[t].at) \cup {rtTurn[t].session}) <=> expelled # {}
        /\ cache' = [cache EXCEPT ![rtTurn[t].at] =
             [i \in Talks[b] |-> IF i = rtTurn[t].session THEN rtTurn[t].rt
                                ELSE IF i \in expelled THEN Rt(b)!Absent ELSE cache[rtTurn[t].at][i]]]
        /\ rtPast' = IF Rt(b)!OverFull(Rt(b)!Open(rtTurn[t].at) \cup {rtTurn[t].session})
                   THEN rtPast \cup {"raced"} ELSE rtPast
  BY Zenon DEF Rt!CreateHandler
<1>5. PICK q : q = [rtTurn[t] EXCEPT !.pc = "fetch"]
  OBVIOUS
<1>6. /\ rtTurn[t].pc = "create" /\ rtTurn' = [rtTurn EXCEPT ![t] = q]
         /\ UNCHANGED <<row, runtime, rtAdmin>>
      /\ Rt(b)!TypeOK /\ rtTurn[t] \in Rt(b)!Turns
  BY <1>5 DEF Rt!CreateHandler, Rt!TurnAt, Rt!TurnTo, RuntimeInv, Rt!TypeOK
<1>7. /\ q \in Rt(b)!Turns /\ q.pc = "fetch" /\ q.at = p /\ q.session = s /\ q.rt = rt
         /\ q.doomed = rtTurn[t].doomed
  BY <1>1, <1>2, <1>3, <1>5, <1>6 DEF Rt!Turns
<1>8. rtTurn' \in [Takers[b] -> Rt(b)!Turns] /\ rtTurn'[t] = q
      /\ \A u \in Takers[b] \ {t} : rtTurn'[u] = rtTurn[u]
  BY <1>6, <1>7, TakerBecomes
<1>9. cache \in [Process -> [Talks[b] -> Rt(b)!Runtimes \cup {Rt(b)!Absent}]] /\ rt # Rt(b)!Absent
      /\ expelled \subseteq Rt(b)!Open(p) \ {s}
      /\ Rt(b)!Open(p) \subseteq Talks[b]
  BY <1>1, <1>2, <1>4, <1>6, RuntimesTyped DEF Rt!TypeOK, Rt!Open
<1>10. /\ cache' \in [Process -> [Talks[b] -> Rt(b)!Runtimes \cup {Rt(b)!Absent}]]
       /\ \A o \in Process \ {p} : cache'[o] = cache[o]
       /\ cache'[p] = [i \in Talks[b] |-> IF i = s THEN rt
                                        ELSE IF i \in expelled THEN Rt(b)!Absent ELSE cache[p][i]]
  <2>1. [i \in Talks[b] |-> IF i = s THEN rt ELSE IF i \in expelled THEN Rt(b)!Absent ELSE cache[p][i]]
          \in [Talks[b] -> Rt(b)!Runtimes \cup {Rt(b)!Absent}]
    BY <1>9
  <2> QED BY <1>1, <1>2, <1>3, <1>4, <1>9, <2>1
<1>11. /\ Rt(b)!Open(p)' = (Rt(b)!Open(p) \cup {s}) \ expelled
          /\ \A o \in Process \ {p} : Rt(b)!Open(o)' = Rt(b)!Open(o)
  BY <1>9, <1>10 DEF Rt!Open
<1>12. /\ \A h \in {"user", "failed", "puts", "lost"} : h \in rtPast' <=> h \in rtPast
       /\ "raced" \notin rtPast' => "raced" \notin rtPast /\ expelled = {}
  BY <1>4
<1>13. /\ \A u \in Takers[b] : Rt(b)!Building(u)' => Rt(b)!Building(u)
          /\ rtTurn'[u].at = rtTurn[u].at /\ rtTurn'[u].session = rtTurn[u].session
       /\ \A u \in Takers[b] : rtTurn'[u].rt = rtTurn[u].rt /\ rtTurn'[u].doomed = rtTurn[u].doomed
  BY <1>1, <1>2, <1>3, <1>6, <1>7, <1>8 DEF Rt!Building
<1>14. Rt(b)!TypeOK'
  <2>1. Cardinality(Rt(b)!Open(p)') <= Room[b]
    <3>0. PICK open : open = Rt(b)!Open(p) \cup {s}
      OBVIOUS
    <3>1. IsFiniteSet(Rt(b)!Open(p))
      BY Counts, <1>9, FS_Subset DEF Rt!RuntimeAssumption
    <3>2. /\ IsFiniteSet(open) /\ Cardinality(open) \in Nat /\ Cardinality(Rt(b)!Open(p)) \in Nat
          /\ Cardinality(open) <= Cardinality(Rt(b)!Open(p)) + 1
      <4>1. /\ IsFiniteSet(open)
            /\ Cardinality(open) = IF s \in Rt(b)!Open(p) THEN Cardinality(Rt(b)!Open(p))
                                   ELSE Cardinality(Rt(b)!Open(p)) + 1
        BY <3>0, <3>1, FS_AddElement
      <4>2. Cardinality(open) \in Nat /\ Cardinality(Rt(b)!Open(p)) \in Nat
        BY <3>1, <4>1, FS_CardinalityType
      <4> QED BY <4>1, <4>2
    <3>3. Room[b] \in Nat /\ Cardinality(Rt(b)!Open(p)) <= Room[b]
      BY Counts, <1>6 DEF Rt!TypeOK, Rt!RuntimeAssumption
    <3>4. CASE expelled = {}
      <4>1. Rt(b)!Open(p)' = open /\ ~ Rt(b)!OverFull(open)
        BY <1>1, <1>2, <1>4, <1>11, <3>0, <3>4
      <4> QED BY Counts, <3>2, <3>3, <4>1 DEF Rt!OverFull
    <3>5. CASE expelled # {}
      <4>1. PICK i \in Rt(b)!Open(p) \ {s} : expelled = {i}
        BY <1>1, <1>2, <1>4, <3>5
      <4>2. Rt(b)!Open(p)' = open \ {i} /\ i \in open
        BY <1>11, <3>0, <4>1
      <4>3. Cardinality(open \ {i}) = Cardinality(open) - 1
        BY <3>2, <4>2, FS_RemoveElement
      <4> QED BY <3>2, <3>3, <4>2, <4>3
    <3> QED BY <3>4, <3>5
  <2>2. \A o \in Process : Cardinality(Rt(b)!Open(o)') <= Room[b]
    BY Counts, <1>6, <1>11, <2>1 DEF Rt!TypeOK
  <2> QED BY Counts, <1>4, <1>6, <1>8, <1>10, <2>2 DEF Rt!TypeOK
<1>15. RuntimeFits(b)'
  <2>1. \A u \in Takers[b] : rtTurn'[u].pc = rtTurn[u].pc \/ (u = t /\ rtTurn'[u].pc = "fetch")
    BY <1>7, <1>8
  <2> QED BY <1>3, <1>6, <1>13, <2>1 DEF RuntimeInv, RuntimeFits
<1>16. \A u \in Takers[b] : Rt(b)!Building(u) => rtTurn[u].at \in Process
       /\ rtTurn[u].session \in Talks[b]
  BY DEF RuntimeInv, RuntimeFits
<1>17. UsersApart(b)'
  <2> SUFFICES ASSUME "user" \notin rtPast PROVE UsersApart(b)'
    BY <1>12 DEF UsersApart
  <2>1. ASSUME NEW u \in Takers[b], NEW w \in Takers[b], Rt(b)!Building(u)', Rt(b)!Building(w)',
               rtTurn'[u].at = rtTurn'[w].at,
               Rt(b)!Kin(rtTurn'[u].session, rtTurn'[w].session)
        PROVE  u = w
    BY <1>13, <2>1 DEF RuntimeInv, UsersApart
  <2>2. /\ Rt(b)!Theirs(p, s) = {}
        /\ \A u \in Takers[b] \ {t} : Rt(b)!Building(u) /\ rtTurn[u].at = p
           => ~ Rt(b)!Kin(rtTurn[u].session, s)
    BY <1>1, <1>2, <1>6 DEF RuntimeInv, UsersApart, Rt!Building
  <2>3. ASSUME NEW u \in Takers[b], NEW o \in Process, NEW i \in Talks[b], rtTurn'[u].at = o,
               rtTurn'[u].session = i
        PROVE  /\ rtTurn'[u].pc = "evict" => Rt(b)!Theirs(o, i)' \subseteq rtTurn'[u].doomed
               /\ rtTurn'[u].pc \in {"create", "fetch"} => Rt(b)!Theirs(o, i)' = {}
    <3>1. CASE u = t
      <4>1. Rt(b)!Theirs(p, s)' = {}
        BY <1>11, <2>2 DEF Rt!Theirs
      <4> QED BY <1>7, <1>8, <2>3, <3>1, <4>1
    <3>2. CASE u # t
      <4>1. rtTurn'[u] = rtTurn[u] /\ rtTurn[u].at = o /\ rtTurn[u].session = i
        BY <1>8, <2>3, <3>2
      <4>2. /\ rtTurn[u].pc = "evict" => Rt(b)!Theirs(o, i) \subseteq rtTurn[u].doomed
            /\ rtTurn[u].pc \in {"create", "fetch"} => Rt(b)!Theirs(o, i) = {}
        BY <4>1 DEF RuntimeInv, UsersApart
      <4>3. CASE rtTurn[u].pc \in {"evict", "create", "fetch"}
        <5>1. o = p => ~ Rt(b)!Kin(i, s)
          BY <2>2, <3>2, <4>1, <4>3 DEF Rt!Building
        <5>2. Rt(b)!Theirs(o, i)' \subseteq Rt(b)!Theirs(o, i)
          BY <1>11, <5>1 DEF Rt!Theirs, Rt!Kin
        <5> QED BY <4>1, <4>2, <5>2
      <4> QED BY <4>1, <4>3
    <3> QED BY <3>1, <3>2
  <2>4. \A o \in Process : \A i, j \in Rt(b)!Open(o)' : UserOf[i] = UserOf[j] => i = j
    <3>1. \A i \in Rt(b)!Open(p) : UserOf[i] = UserOf[s] => i = s
      BY <2>2 DEF Rt!Theirs, Rt!Sweeps
    <3> QED BY <1>11, <3>1 DEF RuntimeInv, UsersApart
  <2> QED BY <2>1, <2>3, <2>4 DEF UsersApart
<1>18. SavesApart(b)'
  BY <1>6, <1>12, <1>13 DEF RuntimeInv, SavesApart, Rt!Saving
<1>19. TurnsSure(b)'
  <2> SUFFICES ASSUME rtPast' \cap {"raced", "user"} = {}, NEW u \in Takers[b], NEW o \in Process,
                      rtTurn'[u].at = o
               PROVE  /\ rtTurn'[u].pc = "evict" => rtTurn'[u].doomed \subseteq Rt(b)!Open(o)'
                      /\ rtTurn'[u].pc = "fetch" => rtTurn'[u].session \in Rt(b)!Open(o)'
    BY <1>12 DEF TurnsSure, RuntimeInv
  <2>1. /\ expelled = {} /\ rtPast \cap {"raced", "user"} = {}
        /\ Rt(b)!Open(o) \subseteq Rt(b)!Open(o)' /\ s \in Rt(b)!Open(p)'
    BY <1>11, <1>12
  <2>2. CASE u = t
    BY <1>7, <1>8, <2>1, <2>2
  <2>3. CASE u # t
    BY <1>8, <2>1, <2>3 DEF RuntimeInv, TurnsSure
  <2> QED BY <2>2, <2>3
<1>20. SavesInOrder(b)'
  BY <1>6, <1>12 DEF RuntimeInv, SavesInOrder, Rt!AdminAt
<1>21. Freshening(b)'
  <2> SUFFICES ASSUME Cardinality(Process) = 1, "raced" \notin rtPast' PROVE Freshening(b)'
    BY DEF Freshening
  <2>1. "raced" \notin rtPast /\ rt = row /\ \A a \in Savers[b] : ~ Rt(b)!Saving(a)
    BY <1>3, <1>6, <1>12 DEF RuntimeInv, SavesApart, Freshening, Rt!Building
  <2>2. \A a \in Savers[b] : rtAdmin[a].pc \notin {"pop", "list", "purge"}
    BY <2>1 DEF Rt!Saving
  <2>3. \A o \in Process, i \in Talks[b] : cache[o][i] \in Rt(b)!Current
    BY <2>1, <2>2 DEF RuntimeInv, Freshening, Rt!AdminAt
  <2>4. \A o \in Process, i \in Talks[b] : cache'[o][i] \in Rt(b)!Current
    BY <1>10, <2>1, <2>3 DEF Rt!Current
  <2> QED BY <1>6, <1>7, <1>8, <2>1, <2>2, <2>4 DEF RuntimeInv, Freshening, Rt!Current, Rt!AdminAt
<1> QED BY <1>14, <1>15, <1>17, <1>18, <1>19, <1>20, <1>21 DEF RuntimeInv

-----------------------------------------------------------------------------
(* A handler leaves the cache while the turns stay as they are.              *)
LEMMA Shrinks ==
  ASSUME NEW b \in Bot, Rt(b)!RuntimeAssumption, RuntimeInv(b), NEW p \in Process,
         NEW s \in Talks[b], Rt(b)!Removed(p, s),
         UNCHANGED rtTurn, "user" \in rtPast' <=> "user" \in rtPast
  PROVE  UsersApart(b)'
<1> SUFFICES ASSUME "user" \notin rtPast PROVE UsersApart(b)'
  BY DEF UsersApart
<1>1. \A o \in Process : Rt(b)!Open(o)' \subseteq Rt(b)!Open(o)
  BY Removes DEF RuntimeInv
<1>2. \A o \in Process, i \in Talks[b] : Rt(b)!Theirs(o, i)' \subseteq Rt(b)!Theirs(o, i)
  BY <1>1 DEF Rt!Theirs
<1> QED BY <1>1, <1>2 DEF RuntimeInv, UsersApart, Rt!Building

LEMMA ExpireRuntime ==
  ASSUME NEW b \in Bot, Rt(b)!RuntimeAssumption, RuntimeInv(b), NEW p \in Process,
         NEW s \in Talks[b], Rt(b)!Expire(p, s)
  PROVE  RuntimeInv(b)'
<1>1. Rt(b)!Removed(p, s) /\ UNCHANGED <<row, runtime, rtTurn, rtAdmin>> /\ Rt(b)!TypeOK
  BY DEF Rt!Expire, RuntimeInv
<1>2. /\ rtPast \subseteq rtPast' /\ rtPast' \subseteq rtPast \cup {"raced"}
      /\ "raced" \notin rtPast' => /\ \A t \in Takers[b] : ~ Rt(b)!Building(t)
                                   /\ \A a \in Savers[b] : ~ Rt(b)!Saving(a)
  BY DEF Rt!Expire
<1>3. /\ cache' \in [Process -> [Talks[b] -> Rt(b)!Runtimes \cup {Rt(b)!Absent}]]
      /\ \A o \in Process : Cardinality(Rt(b)!Open(o)') <= Room[b]
      /\ \A o \in Process, i \in Talks[b] : cache'[o][i] \in {cache[o][i], Rt(b)!Absent}
  BY <1>1, Removes
<1>4. Rt(b)!TypeOK'
  BY Counts, <1>1, <1>2, <1>3 DEF Rt!TypeOK
<1>5. RuntimeFits(b)'
  BY <1>1 DEF RuntimeInv, RuntimeFits, Rt!Building
<1>6. UsersApart(b)'
  BY <1>1, <1>2, Shrinks
<1>7. SavesApart(b)' /\ SavesInOrder(b)'
  BY <1>1, <1>2 DEF RuntimeInv, SavesApart, SavesInOrder, Rt!Building, Rt!Saving, Rt!AdminAt
<1>8. TurnsSure(b)'
  BY <1>1, <1>2 DEF RuntimeInv, TurnsSure, Rt!Building
<1>9. Freshening(b)'
  BY <1>1, <1>2, <1>3 DEF RuntimeInv, Freshening, Rt!Current, Rt!Building, Rt!Saving, Rt!AdminAt
<1> QED BY <1>4, <1>5, <1>6, <1>7, <1>8, <1>9 DEF RuntimeInv

-----------------------------------------------------------------------------
(* An admin that has nothing left to drop, or does not save yet.             *)
LEMMA AdminRests ==
  ASSUME NEW b \in Bot, Rt(b)!RuntimeAssumption, RuntimeInv(b), NEW a \in Savers[b],
         NEW q \in Rt(b)!Admins,
         rtAdmin' = [rtAdmin EXCEPT ![a] = q], UNCHANGED <<row, runtime, cache, rtTurn>>,
         q.pc \in {"idle", "editing", "write"}, q.pc # "idle" => q.at \in Process,
         rtPast' = rtPast \/ rtPast' = rtPast \cup {"puts"},
         q.pc = "write" =>
           /\ q.base \in {row.config, None}
           /\ "puts" \in rtPast' \/ \A c \in Savers[b] \ {a} : ~ Rt(b)!AdminAt(c, "write"),
         ~ Rt(b)!AdminAt(a, "pop"), ~ Rt(b)!AdminAt(a, "list"),
         /\ Rt(b)!AdminAt(a, "purge") /\ Cardinality(Process) = 1 /\ "raced" \notin rtPast
         /\ \A c \in Savers[b] : rtAdmin[c].pc \notin {"pop", "list"}
         => \A p \in Process, s \in Talks[b] : cache[p][s] \in Rt(b)!Current
  PROVE  RuntimeInv(b)'
<1>0. Rt(b)!TypeOK
  BY DEF RuntimeInv
<1>1. rtAdmin' \in [Savers[b] -> Rt(b)!Admins] /\ rtAdmin'[a] = q
      /\ \A c \in Savers[b] \ {a} : rtAdmin'[c] = rtAdmin[c]
  BY <1>0, SaverBecomes
<1>2. /\ \A p : Rt(b)!Open(p)' = Rt(b)!Open(p) /\ \A s : Rt(b)!Theirs(p, s)' = Rt(b)!Theirs(p, s)
      /\ \A h \in {"raced", "user", "failed", "lost"} : h \in rtPast' <=> h \in rtPast
      /\ rtPast' \cap {"raced", "user"} = rtPast \cap {"raced", "user"} /\ rtPast \subseteq rtPast'
  BY DEF Rt!Open, Rt!Theirs
<1>3. Rt(b)!TypeOK'
  BY <1>0, <1>1, <1>2 DEF Rt!TypeOK
<1>4. RuntimeFits(b)'
  BY <1>1 DEF RuntimeInv, RuntimeFits, Rt!Building
<1>5. UsersApart(b)'
  BY <1>2 DEF RuntimeInv, UsersApart, Rt!Building
<1>6. SavesApart(b)'
  BY <1>1, <1>2 DEF RuntimeInv, SavesApart, Rt!Building, Rt!Saving
<1>7. TurnsSure(b)'
  BY <1>2 DEF RuntimeInv, TurnsSure
<1>8. SavesInOrder(b)'
  BY <1>1, <1>2 DEF RuntimeInv, SavesInOrder, Rt!AdminAt
<1>9. Freshening(b)'
  <2> SUFFICES ASSUME Cardinality(Process) = 1, "raced" \notin rtPast PROVE Freshening(b)'
    BY <1>2 DEF Freshening
  <2>1. \A c \in Savers[b] : rtAdmin'[c].pc \in {"pop", "list", "purge"} => c # a
        /\ rtAdmin'[c] = rtAdmin[c]
    BY <1>1
  <2>2. \A c \in Savers[b] : rtAdmin[c].pc \in {"pop", "list"} => c # a /\ rtAdmin'[c] = rtAdmin[c]
    BY <1>1 DEF Rt!AdminAt
  <2>3. ASSUME \A c \in Savers[b] : rtAdmin'[c].pc \notin {"pop", "list"}, NEW p \in Process,
               NEW s \in Talks[b]
        PROVE  cache[p][s] \in Rt(b)!Current \/ \E c \in Savers[b] : rtAdmin'[c].pc = "purge"
               /\ s \in rtAdmin'[c].doomed
    <3>1. \A c \in Savers[b] : rtAdmin[c].pc \notin {"pop", "list"}
      BY <2>2, <2>3
    <3>2. cache[p][s] \in Rt(b)!Current \/ \E c \in Savers[b] : Rt(b)!AdminAt(c, "purge")
          /\ s \in rtAdmin[c].doomed
      BY <3>1 DEF RuntimeInv, Freshening
    <3> QED BY <1>1, <3>1, <3>2 DEF Rt!AdminAt
  <2> QED BY <1>2, <2>1, <2>2, <2>3 DEF RuntimeInv, Freshening, Rt!Current, Rt!AdminAt
<1> QED BY <1>3, <1>4, <1>5, <1>6, <1>7, <1>8, <1>9 DEF RuntimeInv

LEMMA EditsRuntime ==
  ASSUME NEW b \in Bot, Rt(b)!RuntimeAssumption, RuntimeInv(b), NEW a \in Savers[b],
         Rt(b)!PutConfig(a) \/ Rt(b)!Purged(a) \/ \E p \in Process : Rt(b)!OpenEditor(a, p)
  PROVE  RuntimeInv(b)'
<1>1. rtAdmin[a] \in Rt(b)!Admins /\ row.config \in Nat /\ row.key \in Nat
  BY RuntimesTyped DEF RuntimeInv, Rt!TypeOK
<1>2. CASE \E p \in Process : Rt(b)!OpenEditor(a, p)
  <2>1. PICK p \in Process : Rt(b)!OpenEditor(a, p)
    BY <1>2
  <2>2. PICK q : q = [pc |-> "editing", at |-> p, base |-> row.config, doomed |-> {}]
    OBVIOUS
  <2>3. q \in Rt(b)!Admins /\ q.pc = "editing" /\ q.at = p
    BY <1>1, <2>2 DEF Rt!Admins
  <2>4. rtAdmin' = [rtAdmin EXCEPT ![a] = q] /\ UNCHANGED <<row, runtime, cache, rtTurn, rtPast>>
        /\ Rt(b)!AdminAt(a, "idle")
    BY <2>1, <2>2 DEF Rt!OpenEditor
  <2> QED BY <2>3, <2>4, AdminRests DEF Rt!AdminAt
<1>3. CASE Rt(b)!PutConfig(a)
  <2>1. /\ UNCHANGED <<row, runtime, cache, rtTurn>> /\ rtAdmin[a].pc = "editing"
        /\ rtPast' = rtPast \/ rtPast' = rtPast \cup {"puts"}
        /\ "puts" \in rtPast' \/ \A c \in Savers[b] \ {a} : ~ Rt(b)!AdminAt(c, "write")
    BY <1>3 DEF Rt!PutConfig, Rt!AdminAt
  <2>2. PICK sent \in {rtAdmin[a].base, None} :
          rtAdmin' = [rtAdmin EXCEPT ![a] =
            IF Rt(b)!Mismatch(sent) THEN Rt(b)!NoSave
            ELSE [rtAdmin[a] EXCEPT !.pc = "write", !.base = sent]]
    BY <1>3 DEF Rt!PutConfig
  <2>3. CASE Rt(b)!Mismatch(sent)
    BY <2>1, <2>2, <2>3, AdminRests, RuntimesTyped DEF Rt!AdminAt
  <2>4. CASE ~ Rt(b)!Mismatch(sent)
    <3>1. PICK q : q = [rtAdmin[a] EXCEPT !.pc = "write", !.base = sent]
      OBVIOUS
    <3>2. q \in Rt(b)!Admins /\ q.pc = "write" /\ q.at = rtAdmin[a].at /\ q.base = sent
      BY <1>1, <3>1 DEF Rt!Admins
    <3>3. rtAdmin' = [rtAdmin EXCEPT ![a] = q] /\ q.base \in {row.config, None}
      BY <2>2, <2>4, <3>1, <3>2 DEF Rt!Mismatch
    <3>4. q.at \in Process
      BY <2>1, <3>2 DEF RuntimeInv, RuntimeFits
    <3> QED BY <2>1, <3>2, <3>3, <3>4, AdminRests DEF Rt!AdminAt
  <2> QED BY <2>3, <2>4
<1>4. CASE Rt(b)!Purged(a)
  <2>1. /\ rtAdmin[a].pc = "purge" /\ rtAdmin[a].doomed = {}
           /\ rtAdmin' = [rtAdmin EXCEPT ![a] = Rt(b)!NoSave]
        /\ UNCHANGED <<row, runtime, cache, rtTurn, rtPast>>
    BY <1>4 DEF Rt!Purged, Rt!AdminAt
  <2>2. ASSUME Cardinality(Process) = 1, "raced" \notin rtPast,
               \A c \in Savers[b] : rtAdmin[c].pc \notin {"pop", "list"},
               NEW p \in Process, NEW s \in Talks[b]
        PROVE  cache[p][s] \in Rt(b)!Current
    BY <2>1, <2>2 DEF RuntimeInv, Freshening, Rt!AdminAt
  <2> QED BY <2>1, <2>2, AdminRests, RuntimesTyped DEF Rt!AdminAt
<1> QED BY <1>2, <1>3, <1>4

(* A save reaches the row: no turn that did not meet it is on its way.       *)
LEMMA SaveBegins ==
  ASSUME NEW b \in Bot, Rt(b)!RuntimeAssumption, RuntimeInv(b), NEW a \in Savers[b],
         NEW q \in Rt(b)!Admins,
         rtAdmin' = [rtAdmin EXCEPT ![a] = q], UNCHANGED <<runtime, cache, rtTurn>>,
         q.pc = "pop", q.at \in Process, row' \in Rt(b)!Runtimes,
         Rt(b)!AdminAt(a, "write") \/ (Rt(b)!AdminAt(a, "idle") /\ row'.config = row.config),
         rtPast \subseteq rtPast', rtPast' \subseteq rtPast \cup {"raced", "lost"},
         "lost" \in rtPast' => "lost" \in rtPast \/ rtAdmin[a].base \notin {row.config, None},
         "lost" \in rtPast' => "lost" \in rtPast \/ Rt(b)!AdminAt(a, "write"),
         "raced" \in rtPast' \/ \A t \in Takers[b] : ~ Rt(b)!Building(t)
  PROVE  RuntimeInv(b)'
<1>0. Rt(b)!TypeOK
  BY DEF RuntimeInv
<1>1. rtAdmin' \in [Savers[b] -> Rt(b)!Admins] /\ rtAdmin'[a] = q
      /\ \A c \in Savers[b] \ {a} : rtAdmin'[c] = rtAdmin[c]
  BY <1>0, SaverBecomes
<1>2. \A p : Rt(b)!Open(p)' = Rt(b)!Open(p) /\ \A s : Rt(b)!Theirs(p, s)' = Rt(b)!Theirs(p, s)
  BY DEF Rt!Open, Rt!Theirs
<1>3. Rt(b)!TypeOK'
  BY <1>0, <1>1, <1>2 DEF Rt!TypeOK
<1>4. RuntimeFits(b)'
  BY <1>1 DEF RuntimeInv, RuntimeFits, Rt!Building
<1>5. UsersApart(b)'
  BY <1>2 DEF RuntimeInv, UsersApart, Rt!Building
<1>6. SavesApart(b)' /\ TurnsSure(b)'
  BY <1>2 DEF RuntimeInv, SavesApart, TurnsSure, Rt!Building
<1>7. SavesInOrder(b)'
  BY <1>1 DEF RuntimeInv, SavesInOrder, Rt!AdminAt
<1>8. Freshening(b)'
  <2> SUFFICES ASSUME Cardinality(Process) = 1, "raced" \notin rtPast' PROVE Freshening(b)'
    BY DEF Freshening
  <2>1. "raced" \notin rtPast /\ \A t \in Takers[b] : rtTurn[t].pc = "idle"
    BY DEF Rt!Building
  <2>2. Rt(b)!AdminAt(a, "pop")' /\ rtAdmin'[a].pc = "pop"
    BY <1>1 DEF Rt!AdminAt
  <2>3. \A c \in Savers[b] : rtAdmin'[c].pc = "purge" => rtAdmin'[c] = rtAdmin[c]
    BY <1>1
  <2> QED BY <1>2, <2>1, <2>2, <2>3 DEF RuntimeInv, Freshening, Rt!AdminAt
<1> QED BY <1>3, <1>4, <1>5, <1>6, <1>7, <1>8 DEF RuntimeInv

LEMMA SavesRuntime ==
  ASSUME NEW b \in Bot, Rt(b)!RuntimeAssumption, RuntimeInv(b), NEW a \in Savers[b],
         Rt(b)!WriteConfig(a) \/ \E p \in Process : Rt(b)!PutKey(a, p)
  PROVE  RuntimeInv(b)'
<1>1. rtAdmin[a] \in Rt(b)!Admins /\ row \in Rt(b)!Runtimes /\ row.config \in Nat /\ row.key \in Nat
  BY RuntimesTyped DEF RuntimeInv, Rt!TypeOK
<1>2. CASE Rt(b)!WriteConfig(a)
  <2>1. PICK q : q = [rtAdmin[a] EXCEPT !.pc = "pop", !.base = 0]
    OBVIOUS
  <2>2. q \in Rt(b)!Admins /\ q.pc = "pop" /\ q.at = rtAdmin[a].at
    BY <1>1, <2>1 DEF Rt!Admins
  <2>3. /\ rtAdmin' = [rtAdmin EXCEPT ![a] = q] /\ UNCHANGED <<runtime, cache, rtTurn>>
           /\ Rt(b)!AdminAt(a, "write")
        /\ row' = [row EXCEPT !.config = @ + 1] /\ q.at \in Process
    BY <1>2, <2>1, <2>2 DEF Rt!WriteConfig, Rt!AdminAt, RuntimeInv, RuntimeFits
  <2>4. row' \in Rt(b)!Runtimes
    BY <1>1, <2>3 DEF Rt!Runtimes
  <2>5. /\ rtPast \subseteq rtPast' /\ rtPast' \subseteq rtPast \cup {"raced", "lost"}
        /\ "lost" \in rtPast' => "lost" \in rtPast \/ rtAdmin[a].base \notin {row.config, None}
        /\ "raced" \in rtPast' \/ \A t \in Takers[b] : ~ Rt(b)!Building(t)
    BY <1>2 DEF Rt!WriteConfig, Rt!SaveMeets, Rt!Mismatch
  <2> QED BY <2>2, <2>3, <2>4, <2>5, SaveBegins
<1>3. CASE \E p \in Process : Rt(b)!PutKey(a, p)
  <2>1. PICK p \in Process : Rt(b)!PutKey(a, p)
    BY <1>3
  <2>2. PICK q : q = [pc |-> "pop", at |-> p, base |-> 0, doomed |-> {}]
    OBVIOUS
  <2>3. q \in Rt(b)!Admins /\ q.pc = "pop" /\ q.at = p
    BY <2>2 DEF Rt!Admins
  <2>4. /\ rtAdmin' = [rtAdmin EXCEPT ![a] = q] /\ UNCHANGED <<runtime, cache, rtTurn>>
           /\ Rt(b)!AdminAt(a, "idle")
        /\ row' = [row EXCEPT !.key = @ + 1]
    BY <2>1, <2>2 DEF Rt!PutKey
  <2>5. row' \in Rt(b)!Runtimes /\ row'.config = row.config
    BY <1>1, <2>4 DEF Rt!Runtimes
  <2>6. /\ rtPast \subseteq rtPast' /\ rtPast' \subseteq rtPast \cup {"raced"}
        /\ "raced" \in rtPast' \/ \A t \in Takers[b] : ~ Rt(b)!Building(t)
    BY <2>1 DEF Rt!PutKey, Rt!SaveMeets
  <2> QED BY <2>3, <2>4, <2>5, <2>6, SaveBegins
<1> QED BY <1>2, <1>3

LEMMA PopsRuntime ==
  ASSUME NEW b \in Bot, Rt(b)!RuntimeAssumption, RuntimeInv(b), NEW a \in Savers[b],
         Rt(b)!PopRuntime(a)
  PROVE  RuntimeInv(b)'
<1>1. PICK q : q = [rtAdmin[a] EXCEPT !.pc = "list"]
  OBVIOUS
<1>2. /\ rtAdmin[a].pc = "pop" /\ rtAdmin' = [rtAdmin EXCEPT ![a] = q]
         /\ UNCHANGED <<row, cache, rtTurn, rtPast>>
      /\ Rt(b)!TypeOK /\ rtAdmin[a] \in Rt(b)!Admins
  BY <1>1 DEF Rt!PopRuntime, Rt!AdminAt, Rt!AdminTo, RuntimeInv, Rt!TypeOK
<1>3. PICK p \in Process : p = rtAdmin[a].at
  BY <1>2 DEF RuntimeInv, RuntimeFits
<1>4. q \in Rt(b)!Admins /\ q.pc = "list" /\ q.at = p
  BY <1>1, <1>2, <1>3 DEF Rt!Admins
<1>5. rtAdmin' \in [Savers[b] -> Rt(b)!Admins] /\ rtAdmin'[a] = q
      /\ \A c \in Savers[b] \ {a} : rtAdmin'[c] = rtAdmin[c]
  BY <1>2, <1>4, SaverBecomes
<1>6. /\ runtime' \in [Process -> Rt(b)!Runtimes \cup {Rt(b)!Absent}] /\ runtime'[p] = Rt(b)!Absent
      /\ \A o \in Process \ {p} : runtime'[o] = runtime[o]
  BY <1>2, <1>3 DEF Rt!PopRuntime, Rt!TypeOK
<1>7. \A o : Rt(b)!Open(o)' = Rt(b)!Open(o) /\ \A s : Rt(b)!Theirs(o, s)' = Rt(b)!Theirs(o, s)
  BY <1>2 DEF Rt!Open, Rt!Theirs
<1>8. Rt(b)!TypeOK'
  BY <1>2, <1>5, <1>6, <1>7 DEF Rt!TypeOK
<1>9. RuntimeFits(b)'
  BY <1>2, <1>4, <1>5 DEF RuntimeInv, RuntimeFits, Rt!Building
<1>10. UsersApart(b)' /\ TurnsSure(b)'
  BY <1>2, <1>7 DEF RuntimeInv, UsersApart, TurnsSure, Rt!Building
<1>11. SavesApart(b)' /\ SavesInOrder(b)'
  BY <1>2, <1>4, <1>5 DEF RuntimeInv, SavesApart, SavesInOrder, Rt!Building, Rt!Saving, Rt!AdminAt
<1>12. Freshening(b)'
  <2> SUFFICES ASSUME Cardinality(Process) = 1, "raced" \notin rtPast PROVE Freshening(b)'
    BY <1>2 DEF Freshening
  <2>1. Process = {p}
    BY Counts, FS_Singleton DEF Rt!RuntimeAssumption
  <2>2. rtAdmin'[a].pc = "list" /\ \A c \in Savers[b] : rtAdmin'[c].pc = "purge"
        => rtAdmin'[c] = rtAdmin[c]
    BY <1>4, <1>5
  <2> QED BY <1>2, <1>6, <1>7, <2>1, <2>2 DEF RuntimeInv, Freshening, Rt!Current, Rt!AdminAt
<1> QED BY <1>8, <1>9, <1>10, <1>11, <1>12 DEF RuntimeInv

LEMMA ListsRuntime ==
  ASSUME NEW b \in Bot, Rt(b)!RuntimeAssumption, RuntimeInv(b), NEW a \in Savers[b],
         Rt(b)!ListSessions(a)
  PROVE  RuntimeInv(b)'
<1>1. PICK p \in Process : p = rtAdmin[a].at
  BY DEF Rt!ListSessions, Rt!AdminAt, RuntimeInv, RuntimeFits
<1>2. PICK q : q = [rtAdmin[a] EXCEPT !.pc = "purge", !.doomed = Rt(b)!Open(p)]
  OBVIOUS
<1>3. /\ rtAdmin[a].pc = "list" /\ rtAdmin' = [rtAdmin EXCEPT ![a] = q]
         /\ UNCHANGED <<row, runtime, cache, rtTurn>>
      /\ Rt(b)!TypeOK /\ rtAdmin[a] \in Rt(b)!Admins
  BY <1>1, <1>2 DEF Rt!ListSessions, Rt!AdminAt, RuntimeInv, Rt!TypeOK
<1>4. q \in Rt(b)!Admins /\ q.pc = "purge" /\ q.at = p /\ q.doomed = Rt(b)!Open(p)
  BY <1>1, <1>2, <1>3 DEF Rt!Admins, Rt!Open
<1>5. rtAdmin' \in [Savers[b] -> Rt(b)!Admins] /\ rtAdmin'[a] = q
      /\ \A c \in Savers[b] \ {a} : rtAdmin'[c] = rtAdmin[c]
  BY <1>3, <1>4, SaverBecomes
<1>6. /\ rtPast \subseteq rtPast' /\ rtPast' \subseteq rtPast \cup {"raced"}
      /\ "raced" \notin rtPast' => \A c \in Savers[b] \ {a} : ~ Rt(b)!Saving(c)
  BY DEF Rt!ListSessions
<1>7. \A o : Rt(b)!Open(o)' = Rt(b)!Open(o) /\ \A s : Rt(b)!Theirs(o, s)' = Rt(b)!Theirs(o, s)
  BY <1>3 DEF Rt!Open, Rt!Theirs
<1>8. Rt(b)!TypeOK'
  BY <1>3, <1>5, <1>6, <1>7 DEF Rt!TypeOK
<1>9. RuntimeFits(b)'
  BY <1>3, <1>4, <1>5 DEF RuntimeInv, RuntimeFits, Rt!Building
<1>10. UsersApart(b)' /\ TurnsSure(b)'
  <2>1. UsersApart(b)'
    BY <1>3, <1>6, <1>7 DEF RuntimeInv, UsersApart, Rt!Building
  <2>2. rtPast' \cap {"raced", "user"} = {} => rtPast \cap {"raced", "user"} = {}
        /\ rtPast' = rtPast
    BY <1>6
  <2>3. TurnsSure(b)'
    BY <1>3, <1>7, <2>2 DEF RuntimeInv, TurnsSure
  <2> QED BY <2>1, <2>3
<1>11. SavesApart(b)' /\ SavesInOrder(b)'
  BY <1>3, <1>4, <1>5, <1>6 DEF RuntimeInv, SavesApart, SavesInOrder, Rt!Building, Rt!Saving,
     Rt!AdminAt
<1>12. Freshening(b)'
  <2> SUFFICES ASSUME Cardinality(Process) = 1, "raced" \notin rtPast' PROVE Freshening(b)'
    BY DEF Freshening
  <2>1. Process = {p} /\ "raced" \notin rtPast
    BY Counts, <1>6, FS_Singleton DEF Rt!RuntimeAssumption
  <2>2. \A c \in Savers[b] : rtAdmin'[c].pc = "purge" => c = a
    BY <1>5, <1>6 DEF Rt!Saving
  <2>3. \A s \in Talks[b] : cache[p][s] = Rt(b)!Absent \/ s \in q.doomed
    BY <1>4 DEF Rt!Open
  <2>4. \A c \in Savers[b] : ~ Rt(b)!AdminAt(c, "pop")
    BY <1>3, <1>6 DEF Rt!Saving, Rt!AdminAt
  <2> QED BY <1>3, <1>4, <1>5, <1>7, <2>1, <2>2, <2>3, <2>4 DEF RuntimeInv, Freshening, Rt!Current,
      Rt!AdminAt
<1> QED BY <1>8, <1>9, <1>10, <1>11, <1>12 DEF RuntimeInv

LEMMA PurgesRuntime ==
  ASSUME NEW b \in Bot, Rt(b)!RuntimeAssumption, RuntimeInv(b), NEW a \in Savers[b],
         Rt(b)!PurgeOne(a)
  PROVE  RuntimeInv(b)'
<1>1. PICK p \in Process : p = rtAdmin[a].at
  BY DEF Rt!PurgeOne, Rt!AdminAt, RuntimeInv, RuntimeFits
<1>2. PICK s \in rtAdmin[a].doomed :
        IF s \in Rt(b)!Open(p)
        THEN Rt(b)!Removed(p, s)
            /\ rtAdmin' = [rtAdmin EXCEPT ![a].doomed = rtAdmin[a].doomed \ {s}]
        ELSE rtAdmin' = [rtAdmin EXCEPT ![a] = Rt(b)!NoSave] /\ UNCHANGED cache
  BY <1>1 DEF Rt!PurgeOne
<1>3. /\ rtAdmin[a].pc = "purge" /\ UNCHANGED <<row, runtime, rtTurn, rtPast>> /\ Rt(b)!TypeOK
         /\ rtAdmin[a] \in Rt(b)!Admins
      /\ s \in Talks[b]
  BY <1>2 DEF Rt!PurgeOne, Rt!AdminAt, RuntimeInv, Rt!TypeOK, Rt!Admins
<1>4. CASE s \notin Rt(b)!Open(p)
  <2>1. ~ (Cardinality(Process) = 1 /\ "raced" \notin rtPast)
    BY <1>1, <1>2, <1>3, <1>4 DEF RuntimeInv, Freshening, Rt!AdminAt
  <2> QED BY <1>2, <1>3, <1>4, <2>1, AdminRests, RuntimesTyped DEF Rt!AdminAt
<1>5. CASE s \in Rt(b)!Open(p)
  <2>1. PICK q : q = [rtAdmin[a] EXCEPT !.doomed = rtAdmin[a].doomed \ {s}]
    OBVIOUS
  <2>2. q \in Rt(b)!Admins /\ q.pc = "purge" /\ q.at = p /\ q.doomed = rtAdmin[a].doomed \ {s}
    BY <1>1, <1>3, <2>1 DEF Rt!Admins
  <2>3. Rt(b)!Removed(p, s) /\ rtAdmin' = [rtAdmin EXCEPT ![a] = q]
    BY <1>2, <1>5, <2>1
  <2>4. rtAdmin' \in [Savers[b] -> Rt(b)!Admins] /\ rtAdmin'[a] = q
        /\ \A c \in Savers[b] \ {a} : rtAdmin'[c] = rtAdmin[c]
    BY <1>3, <2>2, <2>3, SaverBecomes
  <2>5. /\ cache' \in [Process -> [Talks[b] -> Rt(b)!Runtimes \cup {Rt(b)!Absent}]]
        /\ Rt(b)!Open(p)' = Rt(b)!Open(p) \ {s}
        /\ \A o \in Process : Cardinality(Rt(b)!Open(o)') <= Room[b]
        /\ \A o \in Process, i \in Talks[b] : cache'[o][i] \in {cache[o][i], Rt(b)!Absent}
    BY <1>3, <2>3, Removes
  <2>6. Rt(b)!TypeOK'
    BY Counts, <1>3, <2>4, <2>5 DEF Rt!TypeOK
  <2>7. RuntimeFits(b)'
    BY <1>3, <2>2, <2>4 DEF RuntimeInv, RuntimeFits, Rt!Building
  <2>8. UsersApart(b)'
    BY <1>3, <2>3, Shrinks
  <2>9. SavesApart(b)' /\ SavesInOrder(b)'
    BY <1>3, <2>2, <2>4 DEF RuntimeInv, SavesApart, SavesInOrder, Rt!Building, Rt!Saving, Rt!AdminAt
  <2>10. "raced" \notin rtPast => \A t \in Takers[b] : rtTurn[t].pc = "idle"
    BY <1>3 DEF RuntimeInv, SavesApart, Rt!Building, Rt!Saving
  <2>11. TurnsSure(b)'
    BY <1>3, <2>10 DEF RuntimeInv, TurnsSure
  <2>12. Freshening(b)'
    <3> SUFFICES ASSUME Cardinality(Process) = 1, "raced" \notin rtPast PROVE Freshening(b)'
      BY <1>3 DEF Freshening
    <3>1. Process = {p}
      BY Counts, FS_Singleton DEF Rt!RuntimeAssumption
    <3>2. /\ \A c \in Savers[b] : rtAdmin'[c].pc = rtAdmin[c].pc
          /\ \A c \in Savers[b] : rtAdmin[c].pc = "purge" => c = a
      BY <1>3, <2>2, <2>4 DEF RuntimeInv, Freshening, Rt!AdminAt
    <3>3. cache'[p][s] = Rt(b)!Absent
      BY <1>3, <2>5 DEF Rt!Open
    <3>4. ASSUME \A c \in Savers[b] : rtAdmin'[c].pc \notin {"pop", "list"}, NEW i \in Talks[b]
          PROVE  cache'[p][i] \in {Rt(b)!Absent, row} \/ i \in q.doomed
      <4>1. cache[p][i] \in {Rt(b)!Absent, row} \/ i \in rtAdmin[a].doomed
        BY <3>2, <3>4 DEF RuntimeInv, Freshening, Rt!Current, Rt!AdminAt
      <4> QED BY <2>2, <2>5, <3>3, <4>1
    <3>5. rtAdmin[a].doomed \subseteq Rt(b)!Open(p)
      BY <1>1, <1>3 DEF RuntimeInv, Freshening, Rt!AdminAt
    <3>6. \A t \in Takers[b] : rtTurn[t].pc = "idle"
      BY <2>10
    <3>7. (\A c \in Savers[b] : rtAdmin'[c].pc # "pop")
          => \A o \in Process : runtime[o] \in {Rt(b)!Absent, row}
      BY <3>2 DEF RuntimeInv, Freshening, Rt!Current, Rt!AdminAt
    <3> QED BY <1>3, <2>2, <2>4, <2>5, <3>1, <3>2, <3>4, <3>5, <3>6, <3>7 DEF Freshening,
        Rt!Current, Rt!AdminAt
  <2> QED BY <2>6, <2>7, <2>8, <2>9, <2>11, <2>12 DEF RuntimeInv
<1> QED BY <1>4, <1>5

-----------------------------------------------------------------------------
LEMMA RuntimeStutter == ASSUME NEW b \in Bot, RuntimeInv(b),
                               UNCHANGED Rt(b)!vars PROVE RuntimeInv(b)'
<1>1. \A p : Rt(b)!Open(p)' = Rt(b)!Open(p) /\ \A s : Rt(b)!Theirs(p, s)' = Rt(b)!Theirs(p, s)
  BY DEF Rt!vars, Rt!Open, Rt!Theirs
<1> USE <1>1 DEF Rt!vars, RuntimeInv
<1>2. Rt(b)!TypeOK' /\ RuntimeFits(b)'
  BY DEF Rt!TypeOK, RuntimeFits, Rt!Building
<1>3. UsersApart(b)' /\ SavesApart(b)' /\ TurnsSure(b)'
  BY DEF UsersApart, SavesApart, TurnsSure, Rt!Building, Rt!Saving
<1>4. SavesInOrder(b)' /\ Freshening(b)'
  BY DEF SavesInOrder, Freshening, Rt!Current, Rt!AdminAt
<1> QED BY <1>2, <1>3, <1>4

LEMMA RuntimeStep ==
  ASSUME NEW b \in Bot, Rt(b)!RuntimeAssumption, RuntimeInv(b), Rt(b)!Next
  PROVE  RuntimeInv(b)'
<1>1. ASSUME NEW t \in Takers[b], Rt(b)!TurnStep(t) PROVE RuntimeInv(b)'
  BY <1>1, ReadsRuntime, StoresRuntime, EvictRuntime, CreateRuntime, FetchRuntime DEF Rt!TurnStep
<1>2. ASSUME NEW a \in Savers[b], Rt(b)!SaveStep(a) PROVE RuntimeInv(b)'
  BY <1>2, SavesRuntime, PopsRuntime, ListsRuntime, PurgesRuntime, EditsRuntime DEF Rt!SaveStep
<1>3. ASSUME NEW a \in Savers[b], NEW p \in Process,
             Rt(b)!OpenEditor(a, p) \/ Rt(b)!PutKey(a, p) PROVE RuntimeInv(b)'
  BY <1>3, EditsRuntime, SavesRuntime
<1>4. ASSUME NEW a \in Savers[b], Rt(b)!PutConfig(a) PROVE RuntimeInv(b)'
  BY <1>4, EditsRuntime
<1> QED BY <1>1, <1>2, <1>3, <1>4, LookupRuntime, ExpireRuntime DEF Rt!Next

-----------------------------------------------------------------------------
(* What the page counts, and calls finite, is what the theorems do.          *)
LEMMA CountIs ==
  \A S : /\ Fig!Count(S) = Cardinality(S) /\ Fig!Cardinality(S) = Cardinality(S)
         /\ Fig!IsFiniteSet(S) <=> IsFiniteSet(S)
BY DEF Fig!Count, Fig!Cardinality, Cardinality, Fig!IsFiniteSet, IsFiniteSet

(* The function that Total folds with.                                       *)
Adds(g, f) ==
  g = [s \in SUBSET DOMAIN f |->
         IF s = {} THEN 0 ELSE f[CHOOSE x \in s : TRUE] + g[s \ {CHOOSE x \in s : TRUE}]]

LEMMA TotalIs == ASSUME NEW f PROVE Fig!Total(f) = (CHOOSE g : Adds(g, f))[DOMAIN f]
BY DEF Fig!Total, Fig!FoldSet, Fig!MapThenFoldSet, Adds

(* There is one such function on a finite set: two differ on no least subset. *)
LEMMA TotalUnfolds ==
  ASSUME NEW f, IsFiniteSet(DOMAIN f), NEW h, Adds(h, f)
  PROVE  Fig!Total(f) = h[DOMAIN f]
<1>1. ASSUME NEW g, Adds(g, f) PROVE g = h
  <2> DEFINE D == DOMAIN f
             T == {s \in SUBSET D : g[s] # h[s]}
  <2>1. IsWellFoundedOn(StrictSubsetOrdering(D), SUBSET D)
    BY FS_StrictSubsetOrderingWellFounded, FS_FiniteSubsetsOfFinite
  <2>2. ASSUME NEW s \in T, \A y \in T : ~ (<<y, s>> \in StrictSubsetOrdering(D)) PROVE FALSE
    <3>1. CASE s = {}
      BY <1>1, <2>2, <3>1 DEF Adds
    <3>2. CASE s # {}
      <4> DEFINE x == CHOOSE x \in s : TRUE
      <4>1. x \in s
        BY <3>2
      <4>2. s \ {x} \in SUBSET D /\ s \ {x} \subseteq s /\ s \ {x} # s
        BY <2>2, <4>1
      <4>3. <<s \ {x}, s>> \in StrictSubsetOrdering(D)
        BY <2>2, <4>2 DEF StrictSubsetOrdering
      <4>4. g[s \ {x}] = h[s \ {x}]
        BY <2>2, <4>2, <4>3
      <4>5. g[s] = f[x] + g[s \ {x}] /\ h[s] = f[x] + h[s \ {x}]
        BY <1>1, <2>2, <3>2 DEF Adds
      <4> QED BY <2>2, <4>4, <4>5
    <3> QED BY <3>1, <3>2
  <2>3. T = {}
    <3> HIDE DEF T
    <3> SUFFICES ASSUME T # {} PROVE FALSE
      OBVIOUS
    <3>1. T \subseteq SUBSET D
      BY DEF T
    <3>2. PICK s \in T : \A y \in T : ~ (<<y, s>> \in StrictSubsetOrdering(D))
      BY <2>1, <3>1, WFMin
    <3> QED BY <2>2, <3>2
  <2>4. DOMAIN g = SUBSET D /\ DOMAIN h = SUBSET D
    BY <1>1 DEF Adds
  <2>5. g = [s \in SUBSET D |-> g[s]] /\ h = [s \in SUBSET D |-> h[s]]
    BY <1>1 DEF Adds
  <2> QED BY <2>3, <2>5
<1>2. (CHOOSE g : Adds(g, f)) = h
  BY <1>1
<1> QED BY <1>2, TotalIs

(* Parts of a finite set add up to it.                                       *)
LEMMA PartsMakeWhole ==
  ASSUME NEW I, IsFiniteSet(I), NEW S, IsFiniteSet(S), NEW p \in [I -> S],
         NEW f, DOMAIN f = S, \A x \in S : f[x] = Fig!Count({i \in I : p[i] = x})
  PROVE  Fig!Total(f) = Fig!Count(I)
<1> DEFINE of(s) == {i \in I : p[i] \in s}
           h == [s \in SUBSET S |-> Fig!Count(of(s))]
<1>1. ASSUME NEW s \in SUBSET S, NEW x \in s
      PROVE  Fig!Count(of(s)) = Fig!Count({i \in I : p[i] = x}) + Fig!Count(of(s \ {x}))
  <2> DEFINE A == {i \in I : p[i] = x}
             B == of(s \ {x})
  <2>1. IsFiniteSet(A) /\ IsFiniteSet(B)
    BY FS_Subset
  <2>2. of(s) = A \cup B /\ A \cap B = {}
    BY <1>1
  <2>3. Cardinality(A \cup B) = Cardinality(A) + Cardinality(B) - Cardinality(A \cap B)
    BY <2>1, FS_Union
  <2>4. Cardinality(A) \in Nat /\ Cardinality(B) \in Nat
    BY <2>1, FS_CardinalityType
  <2> HIDE DEF A, B
  <2>5. Cardinality(A \cap B) = 0
    BY <2>2, FS_EmptySet, Zenon
  <2>6. Cardinality(A \cup B) = Cardinality(A) + Cardinality(B)
    BY <2>3, <2>4, <2>5
  <2>7. Fig!Count(A \cup B) = Fig!Count(A) + Fig!Count(B)
    BY CountIs, <2>6
  <2> QED BY <2>2, <2>7 DEF A, B
<1>2. Adds(h, f)
  <2>1. of({}) = {} /\ Fig!Count({}) = 0
    BY CountIs, FS_EmptySet
  <2>2. ASSUME NEW s \in SUBSET S
        PROVE  Fig!Count(of(s)) =
                 IF s = {} THEN 0
                 ELSE f[CHOOSE x \in s : TRUE] + Fig!Count(of(s \ {CHOOSE x \in s : TRUE}))
    <3>1. CASE s = {}
      BY <2>1, <3>1
    <3>2. CASE s # {}
      <4>1. (CHOOSE x \in s : TRUE) \in s
        BY <3>2
      <4> QED BY <1>1, <3>2, <4>1
    <3> QED BY <3>1, <3>2
  <2> HIDE DEF of
  <2>3. \A s \in SUBSET S : s \ {CHOOSE x \in s : TRUE} \in SUBSET S
    OBVIOUS
  <2>4. \A s \in SUBSET S : h[s] = IF s = {} THEN 0
          ELSE f[CHOOSE x \in s : TRUE] + h[s \ {CHOOSE x \in s : TRUE}]
    BY <2>2, <2>3
  <2>5. h = [s \in SUBSET S |-> h[s]]
    OBVIOUS
  <2> HIDE DEF h
  <2> QED BY <2>4, <2>5 DEF Adds
<1>3. of(S) = I
  OBVIOUS
<1> QED BY <1>2, <1>3, TotalUnfolds

Chats == [at : Nat \cup {None}, resolved : BOOLEAN \cup {None}, enriched : BOOLEAN,
          mood : Fig!Moods \cup {"mixed", None}, intent : {"order", "blank", None}]
Messages == [sess : Session \cup {None}, at : Nat, kind : Fig!Kinds, rating : {None, 0, 1}]
Windows == [from : Nat, to : Nat, channel : Channel \cup {None}]
Drafts == [row : Messages, stored : BOOLEAN]

(* What the page works with.                                                 *)
CardTypes ==
  /\ hour \in Nat /\ hour <= MaxHour /\ edits \in Nat /\ edits <= MaxChange
  /\ table \in Seq(Messages) /\ Len(table) <= MaxChange
  /\ \A i \in DOMAIN table : table[i].at <= hour
  /\ sessions \in [Session -> Chats]
  /\ writing \in SUBSET Drafts /\ \A m, n \in writing : m = n
  /\ \A m \in writing : /\ m.row.sess \in Session /\ m.row.at <= hour
                        /\ ~ m.stored => Len(table) < MaxChange
  /\ req \in [card : Fig!Cards \cup {"none"}, w : Windows, got : Seq(Nat)]
  /\ late \in BOOLEAN /\ relabelled \in BOOLEAN

LEMMA RowTypes ==
  ASSUME CardTypes
  PROVE  /\ Fig!Rows \subseteq Nat
         /\ \A S \in SUBSET Fig!Rows : IsFiniteSet(S) /\ Fig!Count(S) \in Nat
         /\ \A i \in Fig!Rows : table[i] \in Messages /\ table[i].sess \in Session
<1>1. DOMAIN table = 1 .. Len(table) /\ Len(table) \in Nat
  BY DEF CardTypes
<1>2. Fig!Rows \subseteq 1 .. Len(table)
  BY <1>1 DEF Fig!Rows
<1>3. IsFiniteSet(Fig!Rows)
  <2>1. IsFiniteSet(1 .. Len(table))
    BY <1>1, FS_Interval
  <2> QED BY <1>2, <2>1, FS_Subset
<1>4. \A S \in SUBSET Fig!Rows : IsFiniteSet(S) /\ Fig!Count(S) \in Nat
  BY CountIs, <1>3, FS_Subset, FS_CardinalityType
<1>5. \A i \in Fig!Rows : table[i] \in Messages
  BY DEF CardTypes, Fig!Rows
<1> QED BY <1>1, <1>2, <1>4, <1>5 DEF Fig!Rows, Messages

LEMMA SubsetCounts ==
  ASSUME NEW S, IsFiniteSet(S), NEW T, T \subseteq S
  PROVE  IsFiniteSet(T) /\ Fig!Count(T) \in Nat /\ Fig!Count(S) \in Nat
         /\ Fig!Count(T) <= Fig!Count(S)
BY CountIs, FS_Subset, FS_CardinalityType

LEMMA WindowRows ==
  ASSUME NEW w
  PROVE  Fig!In(w) \subseteq Fig!Rows /\ \A role : Fig!Of(w, role) \subseteq Fig!In(w)
BY DEF Fig!In, Fig!Of

LEMMA CohortTypes ==
  ASSUME Fig!AnalyticsAssumption, CardTypes, NEW w
  PROVE  Fig!Cohort(w) \subseteq Session /\ IsFiniteSet(Fig!Cohort(w))
         /\ Fig!Count(Fig!Cohort(w)) \in Nat
<1>1. Fig!Cohort(w) \subseteq Session
  BY DEF Fig!Cohort, Fig!Open
<1> QED BY CountIs, <1>1, SubsetCounts DEF Fig!AnalyticsAssumption

(* The days of a window hold its messages.                                   *)
LEMMA DaysInOrder ==
  ASSUME NEW a \in Nat, NEW b \in Nat, a <= b, NEW d \in Nat \ {0}
  PROVE  a \div d <= b \div d /\ a \div d \in Nat /\ a % d \in 0 .. d - 1
OBVIOUS

LEMMA DailyHoldsAll ==
  ASSUME Fig!AnalyticsAssumption, CardTypes, NEW w \in Windows, NEW role \in Fig!Roles
  PROVE  Fig!Total([d \in DOMAIN Fig!Daily(w) |-> Fig!Daily(w)[d][role]])
           = Fig!Count(Fig!Of(w, role))
<1> DEFINE S == (w.from \div Day) .. (w.to \div Day)
           p == [i \in Fig!Of(w, role) |-> table[i].at \div Day]
           f == [d \in DOMAIN Fig!Daily(w) |-> Fig!Daily(w)[d][role]]
<1>1. Day \in Nat \ {0} /\ w.from \in Nat /\ w.to \in Nat
  BY DEF Fig!AnalyticsAssumption, Windows
<1>2. \A i \in Fig!Of(w, role) : table[i].at \in Nat /\ w.from <= table[i].at /\ table[i].at <= w.to
  BY RowTypes, WindowRows DEF Messages, Fig!In, Fig!Within, Fig!Of
<1>3. ASSUME NEW i \in Fig!Of(w, role) PROVE table[i].at \div Day \in S
  <2>1. w.from \div Day <= table[i].at \div Day /\ table[i].at \div Day <= w.to \div Day
    BY <1>1, <1>2, DaysInOrder
  <2>2. w.from \div Day \in Nat /\ w.to \div Day \in Nat /\ table[i].at \div Day \in Nat
    BY <1>1, <1>2
  <2> QED BY <2>1, <2>2
<1>4. p \in [Fig!Of(w, role) -> S]
  BY <1>3
<1>5. IsFiniteSet(S)
  <2>1. w.from \div Day \in Int /\ w.to \div Day \in Int
    BY <1>1
  <2> QED BY <2>1, FS_Interval
<1>6. IsFiniteSet(Fig!Of(w, role))
  BY RowTypes, WindowRows
<1>7. DOMAIN f = S
      /\ \A d \in S : f[d] = Fig!Count({i \in Fig!Of(w, role) : table[i].at \div Day = d})
  BY DEF Fig!Daily
<1>8. \A d \in S : {i \in Fig!Of(w, role) : p[i] = d}
                   = {i \in Fig!Of(w, role) : table[i].at \div Day = d}
  OBVIOUS
<1> HIDE DEF S, p, f
<1>9. Fig!Total(f) = Fig!Count(Fig!Of(w, role))
  BY <1>4, <1>5, <1>6, <1>7, <1>8, PartsMakeWhole
<1> QED BY <1>9 DEF f

LEMMA TopicsHoldAll ==
  ASSUME CardTypes, NEW w
  PROVE  Fig!Total(Fig!ByTopic(w)) = Fig!Count(Fig!Of(w, "user"))
<1> DEFINE I == Fig!Of(w, "user")
           S == {Fig!Topic(i) : i \in I}
           p == [i \in I |-> Fig!Topic(i)]
<1>1. IsFiniteSet(I)
  BY RowTypes, WindowRows
<1>2. p \in Surjection(I, S)
  BY DEF Surjection
<1>3. IsFiniteSet(S) /\ p \in [I -> S]
  BY <1>1, <1>2, FS_Surjection
<1>4. DOMAIN Fig!ByTopic(w) = S
      /\ \A x \in S : Fig!ByTopic(w)[x] = Fig!Count({i \in I : Fig!Topic(i) = x})
  BY DEF Fig!ByTopic
<1>5. \A x \in S : {i \in I : p[i] = x} = {i \in I : Fig!Topic(i) = x}
  OBVIOUS
<1> HIDE DEF I, S, p
<1>6. Fig!Total(Fig!ByTopic(w)) = Fig!Count(I)
  BY <1>1, <1>3, <1>4, <1>5, PartsMakeWhole
<1> QED BY <1>6 DEF I

LEMMA ModelsWithin ==
  ASSUME CardTypes, NEW w
  PROVE  Fig!Total(Fig!ByModel(w)) <= Fig!Count(Fig!Of(w, "assistant"))
<1> DEFINE I == {i \in Fig!Of(w, "assistant") : table[i].kind.model # None}
           S == {table[i].kind.model : i \in I}
           p == [i \in I |-> table[i].kind.model]
<1>1. IsFiniteSet(Fig!Of(w, "assistant")) /\ I \subseteq Fig!Of(w, "assistant")
  BY RowTypes, WindowRows
<1>2. IsFiniteSet(I)
  BY <1>1, SubsetCounts
<1>3. p \in Surjection(I, S)
  BY DEF Surjection
<1>4. IsFiniteSet(S) /\ p \in [I -> S]
  BY <1>2, <1>3, FS_Surjection
<1>5. DOMAIN Fig!ByModel(w) = S
      /\ \A x \in S : Fig!ByModel(w)[x] = Fig!Count({i \in I : table[i].kind.model = x})
  BY DEF Fig!ByModel
<1>6. \A x \in S : {i \in I : p[i] = x} = {i \in I : table[i].kind.model = x}
  OBVIOUS
<1> HIDE DEF S, p, I
<1>7. Fig!Total(Fig!ByModel(w)) = Fig!Count(I)
  BY <1>2, <1>4, <1>5, <1>6, PartsMakeWhole
<1> QED BY <1>1, <1>7, SubsetCounts

LEMMA HeatHoldsAll ==
  ASSUME Fig!AnalyticsAssumption, CardTypes, NEW w
  PROVE  Fig!Total(Fig!Heatmap(w)) = Fig!Count(Fig!In(w))
<1> DEFINE S == (0 .. 6) \X (0 .. Day - 1)
           p == [i \in Fig!In(w) |-> <<(table[i].at \div Day) % 7, table[i].at % Day>>]
<1>1. Day \in Nat \ {0}
  BY DEF Fig!AnalyticsAssumption
<1>2. IsFiniteSet(Fig!In(w)) /\ \A i \in Fig!In(w) : table[i].at \in Nat
  BY RowTypes, WindowRows DEF Messages
<1>3. ASSUME NEW a \in Nat PROVE (a \div Day) % 7 \in 0 .. 6 /\ a % Day \in 0 .. Day - 1
  <2>1. a \div Day \in Nat /\ a % Day \in 0 .. Day - 1
    BY <1>1
  <2> QED BY <2>1
<1>4. p \in [Fig!In(w) -> S]
  BY <1>2, <1>3
<1>5. IsFiniteSet(S)
  <2>1. 0 \in Int /\ 6 \in Int /\ Day - 1 \in Int
    BY <1>1
  <2>2. IsFiniteSet(0 .. 6) /\ IsFiniteSet(0 .. (Day - 1))
    BY <2>1, FS_Interval
  <2> QED BY <2>2, FS_Product
<1>6. DOMAIN Fig!Heatmap(w) = S
  BY DEF Fig!Heatmap
<1>7. \A x \in S : Fig!Heatmap(w)[x] = Fig!Count({i \in Fig!In(w) : p[i] = x})
  <2>1. \A x : {i \in Fig!In(w) : p[i] = x}
               = {i \in Fig!In(w) : x = <<(table[i].at \div Day) % 7, table[i].at % Day>>}
    OBVIOUS
  <2> QED BY <2>1 DEF Fig!Heatmap
<1> HIDE DEF S, p
<1> QED BY <1>2, <1>4, <1>5, <1>6, <1>7, PartsMakeWhole

LEMMA MoodsHoldAll ==
  ASSUME Fig!AnalyticsAssumption, CardTypes, NEW w
  PROVE  Fig!Total(Fig!Sentiment(w)) = Fig!Count(Fig!Cohort(w))
<1> DEFINE S == Fig!Moods \cup {"unrated"}
           p == [s \in Fig!Cohort(w) |-> Fig!Mood(s)]
<1>1. p \in [Fig!Cohort(w) -> S]
  BY DEF Fig!Mood
<1>2. IsFiniteSet(S)
  <2>1. IsFiniteSet({"unrated"}) /\ IsFiniteSet({"unrated"} \cup {"positive"})
    BY FS_Singleton, FS_AddElement
  <2>2. IsFiniteSet({"unrated"} \cup {"positive"} \cup {"neutral"})
    BY <2>1, FS_AddElement
  <2>3. IsFiniteSet({"unrated"} \cup {"positive"} \cup {"neutral"} \cup {"negative"})
    BY <2>2, FS_AddElement
  <2>4. S = {"unrated"} \cup {"positive"} \cup {"neutral"} \cup {"negative"}
    BY DEF Fig!Moods
  <2> QED BY <2>3, <2>4
<1>3. DOMAIN Fig!Sentiment(w) = S
      /\ \A x \in S : Fig!Sentiment(w)[x] = Fig!Count({s \in Fig!Cohort(w) : Fig!Mood(s) = x})
  BY DEF Fig!Sentiment
<1>4. \A x \in S : {s \in Fig!Cohort(w) : p[s] = x} = {s \in Fig!Cohort(w) : Fig!Mood(s) = x}
  OBVIOUS
<1> HIDE DEF S, p
<1> QED BY <1>1, <1>2, <1>3, <1>4, CohortTypes, PartsMakeWhole

LEMMA IntentsWithin ==
  ASSUME Fig!AnalyticsAssumption, CardTypes, NEW w
  PROVE  Fig!Total(Fig!Intents(w)) \in Nat /\ Fig!Total(Fig!Intents(w)) <= Fig!Count(Fig!Cohort(w))
<1> DEFINE I == {s \in Fig!Cohort(w) : sessions[s].intent \notin {None, "blank"}}
           S == {sessions[s].intent : s \in I}
           p == [s \in I |-> sessions[s].intent]
<1>1. IsFiniteSet(Fig!Cohort(w)) /\ I \subseteq Fig!Cohort(w)
  BY CohortTypes
<1>2. IsFiniteSet(I)
  BY <1>1, SubsetCounts
<1>3. p \in Surjection(I, S)
  BY DEF Surjection
<1>4. IsFiniteSet(S) /\ p \in [I -> S]
  BY <1>2, <1>3, FS_Surjection
<1>5. DOMAIN Fig!Intents(w) = S
      /\ \A x \in S : Fig!Intents(w)[x] = Fig!Count({s \in I : sessions[s].intent = x})
  BY DEF Fig!Intents
<1>6. \A x \in S : {s \in I : p[s] = x} = {s \in I : sessions[s].intent = x}
  OBVIOUS
<1> HIDE DEF S, p, I
<1>7. Fig!Total(Fig!Intents(w)) = Fig!Count(I)
  BY <1>2, <1>4, <1>5, <1>6, PartsMakeWhole
<1> QED BY <1>1, <1>7, SubsetCounts

LEMMA ChannelsHoldAll ==
  ASSUME Fig!AnalyticsAssumption, CardTypes, NEW w \in Windows
  PROVE  Fig!Total([c \in Fig!Shown(w) |-> Fig!ByChannel(w)[c]]) = Fig!Count(Fig!In(w))
<1> DEFINE S == Fig!Shown(w)
           p == [i \in Fig!In(w) |-> ChannelOf[table[i].sess]]
           f == [c \in Fig!Shown(w) |-> Fig!ByChannel(w)[c]]
           all == Fig!In([w EXCEPT !.channel = None])
<1>1. \A i \in Fig!Rows : ChannelOf[table[i].sess] \in Channel \cup {None}
  BY RowTypes DEF Fig!AnalyticsAssumption
<1>2. IsFiniteSet(S) /\ S \subseteq Channel \cup {None}
  <2>1. IsFiniteSet(Channel \cup {None}) /\ IsFiniteSet({w.channel})
    BY CountIs, FS_AddElement, FS_Singleton DEF Fig!AnalyticsAssumption
  <2> QED BY <2>1 DEF Fig!Shown, Windows
<1>3. all = {i \in Fig!Rows : Fig!Within(w, table[i].at)}
  BY DEF Fig!In, Fig!Within, Fig!Through, Windows
<1>4. Fig!In(w) = {i \in all : w.channel = None \/ ChannelOf[table[i].sess] = w.channel}
  BY <1>3 DEF Fig!In, Fig!Through
<1>5. p \in [Fig!In(w) -> S]
  BY <1>1, <1>4, WindowRows DEF Fig!Shown
<1>6. ASSUME NEW c \in S PROVE f[c] = Fig!Count({i \in Fig!In(w) : p[i] = c})
  <2>1. f[c] = Fig!Count({i \in all : ChannelOf[table[i].sess] = c})
    BY <1>2 DEF Fig!ByChannel
  <2>2. {i \in all : ChannelOf[table[i].sess] = c} = {i \in Fig!In(w) : p[i] = c}
    BY <1>4 DEF Fig!Shown
  <2> QED BY <2>1, <2>2
<1>7. IsFiniteSet(Fig!In(w)) /\ DOMAIN f = S
  BY RowTypes, WindowRows
<1> HIDE DEF S, p, f, all
<1>8. Fig!Total(f) = Fig!Count(Fig!In(w))
  BY <1>2, <1>5, <1>6, <1>7, PartsMakeWhole
<1> QED BY <1>8 DEF f

LEMMA ConversationsWithin ==
  ASSUME CardTypes, NEW w
  PROVE  Fig!Count({table[i].sess : i \in Fig!In(w)}) <= Fig!Count(Fig!In(w))
<1> DEFINE S == {table[i].sess : i \in Fig!In(w)}
           p == [i \in Fig!In(w) |-> table[i].sess]
<1>1. IsFiniteSet(Fig!In(w))
  BY RowTypes, WindowRows
<1>2. p \in Surjection(Fig!In(w), S)
  BY DEF Surjection
<1> HIDE DEF S, p
<1>3. Fig!Count(S) <= Fig!Count(Fig!In(w))
  BY CountIs, <1>1, <1>2, FS_Surjection
<1> QED BY <1>3 DEF S

LEMMA RolesMakeAll ==
  ASSUME CardTypes, NEW w
  PROVE  Fig!Count(Fig!In(w)) = Fig!Count(Fig!Of(w, "user")) + Fig!Count(Fig!Of(w, "assistant"))
<1> DEFINE A == Fig!Of(w, "user")
           B == Fig!Of(w, "assistant")
<1>1. Fig!In(w) = A \cup B /\ A \cap B = {}
  BY RowTypes, WindowRows DEF Fig!Of, Messages, Fig!Kinds, Fig!Roles
<1>2. IsFiniteSet(A) /\ IsFiniteSet(B) /\ Fig!Count(A) \in Nat /\ Fig!Count(B) \in Nat
  BY RowTypes, WindowRows
<1> HIDE DEF A, B
<1>3. Cardinality(A \cup B) = Cardinality(A) + Cardinality(B) - Cardinality(A \cap B)
  BY <1>2, FS_Union
<1>4. Cardinality(A \cap B) = 0
  BY <1>1, FS_EmptySet, Zenon
<1>5. Cardinality(A \cup B) = Cardinality(A) + Cardinality(B)
  BY CountIs, <1>2, <1>3, <1>4
<1>6. Fig!Count(Fig!In(w)) = Fig!Count(A) + Fig!Count(B)
  BY CountIs, <1>1, <1>5
<1> QED BY <1>6 DEF A, B

(* A message has a rank of its own among those with a latency.               *)
LEMMA Ranks ==
  ASSUME CardTypes, NEW w
  PROVE  /\ Fig!Timed(w) \subseteq Nat /\ IsFiniteSet(Fig!Timed(w))
         /\ Fig!Count(Fig!Timed(w)) \in Nat
         /\ \A i \in Fig!Timed(w) :
              /\ table[i].kind.latency \in Nat
              /\ Fig!Count(Fig!Faster(w, i)) \in 0 .. Fig!Count(Fig!Timed(w)) - 1
         /\ \A i, j \in Fig!Timed(w) :
              j \in Fig!Faster(w, i) => Fig!Count(Fig!Faster(w, j)) < Fig!Count(Fig!Faster(w, i))
<1>1. Fig!Timed(w) \subseteq Fig!Rows
  BY WindowRows DEF Fig!Timed
<1>2. Fig!Timed(w) \subseteq Nat /\ IsFiniteSet(Fig!Timed(w)) /\ Fig!Count(Fig!Timed(w)) \in Nat
  BY <1>1, RowTypes
<1>3. \A i \in Fig!Timed(w) : table[i].kind.latency \in Nat
  BY <1>1, RowTypes DEF Fig!Timed, Messages, Fig!Kinds
<1>4. ASSUME NEW S, S \subseteq Fig!Timed(w), NEW T, T \subseteq S, NEW x \in S, x \notin T
      PROVE  Fig!Count(T) < Fig!Count(S) /\ Fig!Count(T) \in Nat
  <2>1. IsFiniteSet(S)
    BY <1>2, <1>4, SubsetCounts
  <2>2. IsFiniteSet(T) /\ Fig!Count(T) \in Nat /\ Fig!Count(S) \in Nat
        /\ Fig!Count(T) <= Fig!Count(S)
    BY <1>4, <2>1, SubsetCounts
  <2>3. Fig!Count(S) # Fig!Count(T)
    BY CountIs, <1>4, <2>1, FS_Subset
  <2> QED BY <2>2, <2>3
<1>5. ASSUME NEW i \in Fig!Timed(w)
      PROVE  Fig!Count(Fig!Faster(w, i)) \in 0 .. Fig!Count(Fig!Timed(w)) - 1
  <2>1. Fig!Faster(w, i) \subseteq Fig!Timed(w) /\ i \notin Fig!Faster(w, i)
    BY <1>2, <1>3 DEF Fig!Faster
  <2>2. Fig!Count(Fig!Faster(w, i)) < Fig!Count(Fig!Timed(w)) /\ Fig!Count(Fig!Faster(w, i)) \in Nat
    BY <1>4, <2>1
  <2> QED BY <1>2, <2>2
<1>6. ASSUME NEW i \in Fig!Timed(w), NEW j \in Fig!Timed(w), j \in Fig!Faster(w, i)
      PROVE  Fig!Count(Fig!Faster(w, j)) < Fig!Count(Fig!Faster(w, i))
  <2>1. Fig!Faster(w, i) \subseteq Fig!Timed(w) /\ Fig!Faster(w, j) \subseteq Fig!Faster(w, i)
        /\ j \notin Fig!Faster(w, j)
    BY <1>2, <1>3, <1>6 DEF Fig!Faster
  <2> QED BY <1>4, <1>6, <2>1
<1> QED BY <1>2, <1>3, <1>5, <1>6

LEMMA RanksTaken ==
  ASSUME CardTypes, NEW w, NEW k \in 1 .. Fig!Count(Fig!Timed(w))
  PROVE  \E i \in Fig!Timed(w) : Fig!Count(Fig!Faster(w, i)) = k - 1
<1> DEFINE T == Fig!Timed(w)
           n == Fig!Count(T)
           r == [i \in T |-> Fig!Count(Fig!Faster(w, i))]
<1>1. n \in Nat /\ IsFiniteSet(T) /\ T \subseteq Nat
  BY Ranks
<1>2. r \in [T -> 0 .. n - 1]
  BY Ranks
<1>3. ASSUME NEW i \in T, NEW j \in T, r[i] = r[j] PROVE i = j
  <2>1. i \notin Fig!Faster(w, j) /\ j \notin Fig!Faster(w, i)
    BY <1>3, Ranks
  <2>2. table[i].kind.latency \in Nat /\ table[j].kind.latency \in Nat /\ i \in Nat /\ j \in Nat
    BY Ranks
  <2> QED BY <2>1, <2>2 DEF Fig!Faster
<1>4. r \in Injection(T, 0 .. n - 1)
  BY <1>2, <1>3 DEF Injection, IsInjective
<1>5. IsFiniteSet(0 .. n - 1) /\ Cardinality(0 .. n - 1) = n
  <2>1. 0 \in Int /\ n - 1 \in Int
    BY <1>1
  <2>2. IsFiniteSet(0 .. (n - 1))
        /\ Cardinality(0 .. (n - 1)) = IF 0 > n - 1 THEN 0 ELSE (n - 1) - 0 + 1
    BY <2>1, FS_Interval
  <2> QED BY <1>1, <2>2
<1>6. Cardinality(T) = n
  BY CountIs
<1>7. r \in Surjection(T, 0 .. n - 1)
  BY <1>4, <1>5, <1>6, FS_Injection
<1>8. k - 1 \in 0 .. n - 1
  BY <1>1
<1>9. \E i \in T : r[i] = k - 1
  BY <1>7, <1>8 DEF Surjection
<1> QED BY <1>9

LEMMA LatenciesInOrder ==
  ASSUME CardTypes, NEW w, NEW k \in DOMAIN Fig!Latencies(w), NEW m \in DOMAIN Fig!Latencies(w),
         k <= m
  PROVE  Fig!Latencies(w)[k] \in Nat /\ Fig!Latencies(w)[k] <= Fig!Latencies(w)[m]
<1> DEFINE n == Fig!Count(Fig!Timed(w))
           at(h) == CHOOSE i \in Fig!Timed(w) : Fig!Count(Fig!Faster(w, i)) = h - 1
<1>1. n \in Nat /\ DOMAIN Fig!Latencies(w) = 1 .. n
  BY Ranks DEF Fig!Latencies
<1>2. \A h \in 1 .. n : at(h) \in Fig!Timed(w) /\ Fig!Count(Fig!Faster(w, at(h))) = h - 1
  BY RanksTaken
<1>3. \A h \in 1 .. n : Fig!Latencies(w)[h] = table[at(h)].kind.latency
  BY DEF Fig!Latencies
<1> HIDE DEF at, n
<1>4. at(m) \notin Fig!Faster(w, at(k))
  BY <1>1, <1>2, Ranks
<1>5. /\ at(k) \in Fig!Timed(w) /\ at(m) \in Fig!Timed(w)
      /\ table[at(k)].kind.latency \in Nat /\ table[at(m)].kind.latency \in Nat
  BY <1>1, <1>2, Ranks
<1>6. table[at(k)].kind.latency <= table[at(m)].kind.latency
  BY <1>4, <1>5 DEF Fig!Faster
<1> QED BY <1>1, <1>3, <1>5, <1>6

LEMMA RoundInOrder ==
  ASSUME NEW a \in Nat, NEW b \in Nat, a <= b
  PROVE  Fig!Round(a, 100) \in Nat /\ Fig!Round(a, 100) <= Fig!Round(b, 100)
BY DEF Fig!Round

LEMMA PercentilesInOrder ==
  ASSUME CardTypes, NEW w, Fig!Percentiles(w) # <<>>
  PROVE  /\ Fig!Percentiles(w)[1] <= Fig!Percentiles(w)[2]
         /\ Fig!Percentiles(w)[2] <= Fig!Percentiles(w)[3]
         /\ Fig!Percentiles(w)[2] = Fig!Report(w).p95
<1> DEFINE xs == Fig!Latencies(w)
           n == Len(xs)
           rank(percent) == Fig!Round(percent * n, 100)
           place(percent) == IF rank(percent) > 1 THEN rank(percent) ELSE 1
<1>1. xs # <<>>
  BY DEF Fig!Percentiles
<1>2. n \in Nat /\ n = Fig!Count(Fig!Timed(w)) /\ DOMAIN xs = 1 .. n
  BY Ranks DEF Fig!Latencies
<1>3. n >= 1
  <2> DEFINE N == Fig!Count(Fig!Timed(w))
             at(k) == CHOOSE i \in Fig!Timed(w) : Fig!Count(Fig!Faster(w, i)) = k - 1
             e(k) == table[at(k)].kind.latency
  <2>1. xs = [k \in 1 .. N |-> e(k)]
    BY DEF Fig!Latencies
  <2> HIDE DEF e, xs, N
  <2>2. N = 0 => xs = <<>>
    BY <2>1
  <2> QED BY <1>1, <1>2, <2>2 DEF N, xs
<1>4. /\ Fig!Round(50 * n, 100) \in Nat /\ Fig!Round(95 * n, 100) \in Nat
      /\ Fig!Round(99 * n, 100) \in Nat
      /\ Fig!Round(50 * n, 100) <= Fig!Round(95 * n, 100)
      /\ Fig!Round(95 * n, 100) <= Fig!Round(99 * n, 100)
  <2>1. 50 * n \in Nat /\ 95 * n \in Nat /\ 99 * n \in Nat /\ 50 * n <= 95 * n /\ 95 * n <= 99 * n
    BY <1>2
  <2> QED BY <2>1, RoundInOrder
<1>5. Fig!Round(99 * n, 100) <= n
  BY <1>2 DEF Fig!Round
<1>6. /\ place(50) \in 1 .. n /\ place(95) \in 1 .. n /\ place(99) \in 1 .. n
      /\ place(50) <= place(95) /\ place(95) <= place(99)
  BY <1>2, <1>3, <1>4, <1>5
<1>7. /\ Fig!Percentiles(w)[1] = xs[place(50)] /\ Fig!Percentiles(w)[2] = xs[place(95)]
      /\ Fig!Percentiles(w)[3] = xs[place(99)] /\ Fig!Report(w).p95 = xs[place(95)]
  BY <1>1 DEF Fig!Percentiles, Fig!Quantile, Fig!Report
<1> HIDE DEF place, xs
<1> QED BY <1>2, <1>6, <1>7, LatenciesInOrder DEF xs

(* The cards of one window agree, whatever is stored.                        *)
LEMMA CardsAgreeHolds ==
  ASSUME Fig!AnalyticsAssumption, CardTypes
  PROVE  Fig!CardsAgree
<1> DEFINE w == req.w
           said(role) == Fig!Total([d \in DOMAIN Fig!Daily(w) |-> Fig!Daily(w)[d][role]])
<1>1. w \in Windows
  BY DEF CardTypes
<1>2. said("user") = Fig!Count(Fig!Of(w, "user"))
      /\ said("assistant") = Fig!Count(Fig!Of(w, "assistant"))
  BY <1>1, DailyHoldsAll DEF Fig!Roles
<1>3. Fig!Total(Fig!ByTopic(w)) = said("user") /\ Fig!Total(Fig!ByModel(w)) <= said("assistant")
  BY <1>2, TopicsHoldAll, ModelsWithin
<1>4. Fig!Report(w).messages = Fig!Count(Fig!In(w))
      /\ Fig!Report(w).conversations = Fig!Count({table[i].sess : i \in Fig!In(w)})
  BY DEF Fig!Report
<1>5. /\ Fig!Report(w).messages = said("user") + said("assistant")
      /\ Fig!Report(w).messages = Fig!Total(Fig!Heatmap(w))
      /\ Fig!Report(w).messages = Fig!Total([c \in Fig!Shown(w) |-> Fig!ByChannel(w)[c]])
      /\ Fig!Report(w).conversations <= Fig!Report(w).messages
  BY <1>1, <1>2, <1>4, RolesMakeAll, HeatHoldsAll, ChannelsHoldAll, ConversationsWithin
<1>6. Fig!Total(Fig!Sentiment(w)) = Fig!Count(Fig!Cohort(w))
  BY MoodsHoldAll
<1>7. ASSUME NEW i \in Fig!Report(w).csat
      PROVE  i \in Fig!Rows /\ table[i].rating = 1
  <2>1. i \in Fig!Of(w, "assistant") /\ table[i].rating \notin {None, 0}
    BY <1>7 DEF Fig!Report
  <2> QED BY <2>1, WindowRows, RowTypes DEF Messages
<1>8. {table[i].sess : i \in Fig!Report(w).csat} \cap Fig!Cohort(w)
        \subseteq Fig!Rated(w, {1}) \cap Fig!Rated(w, {0, 1})
  BY <1>7 DEF Fig!Rated
<1>9. Fig!Percentiles(w) # <<>> =>
        /\ Fig!Percentiles(w)[1] <= Fig!Percentiles(w)[2]
        /\ Fig!Percentiles(w)[2] = Fig!Report(w).p95
        /\ Fig!Percentiles(w)[2] <= Fig!Percentiles(w)[3]
  BY PercentilesInOrder
<1> QED BY <1>3, <1>5, <1>6, <1>8, <1>9 DEF Fig!CardsAgree

(* The first count of a card, and the third of the report, still stand.      *)
Flagged(w) == {i \in Fig!Of(w, "assistant") : table[i].kind.deflected \in BOOLEAN}
Tallied ==
  LET w == req.w  got == req.got
  IN  \/ late
      \/ /\ req.card \in {"funnel", "enrichment"} /\ 1 \in DOMAIN got
          => got[1] = Fig!Count(Fig!Cohort(w))
         /\ req.card = "citations" /\ 1 \in DOMAIN got
            => Fig!Count(Fig!Of(w, "assistant")) <= got[1]
         /\ req.card = "report" /\ 1 \in DOMAIN got => relabelled \/ Fig!Count(Flagged(w)) <= got[1]
         /\ req.card = "report" /\ 3 \in DOMAIN got => got[3] = Fig!Count(Fig!Cohort(w))

FiguresInv == CardTypes /\ Tallied /\ Fig!PartsAddUp

LEMMA FiguresGood ==
  ASSUME Fig!AnalyticsAssumption, FiguresInv
  PROVE  Fig!TypeOK /\ Fig!AnalyticsSound
<1>1. Fig!CardsAgree /\ Fig!PartsAddUp
  BY CardsAgreeHolds DEF FiguresInv
<1>2. Cardinality(writing) <= 1
  <2>1. CASE writing = {}
    <3>1. Cardinality({}) = 0
      BY FS_EmptySet
    <3> QED BY <2>1, <3>1
  <2>2. CASE writing # {}
    <3>1. PICK m \in writing : TRUE
      BY <2>2
    <3>2. writing = {m}
      BY <3>1 DEF FiguresInv, CardTypes
    <3>3. Cardinality({m}) = 1
      BY FS_Singleton
    <3> QED BY <3>2, <3>3
  <2> QED BY <2>1, <2>2
<1>3. ASSUME NEW i \in DOMAIN table
      PROVE  /\ table[i].sess \in Session \cup {None} /\ table[i].at \in 0 .. hour
             /\ table[i].rating \in {None, 0, 1}
  <2>1. table[i] \in Messages /\ table[i].at <= hour /\ hour \in Nat
    BY <1>3 DEF FiguresInv, CardTypes
  <2> QED BY <2>1 DEF Messages
<1>4. MaxHour \in Nat /\ MaxChange \in Nat
  BY DEF Fig!AnalyticsAssumption
<1> QED BY CountIs, <1>1, <1>2, <1>3, <1>4 DEF FiguresInv, CardTypes, Fig!TypeOK, Fig!AnalyticsSound

LEMMA FiguresStart ==
  ASSUME Fig!AnalyticsAssumption, Fig!Init
  PROVE  FiguresInv
<1>1. MaxHour \in Nat /\ MaxChange \in Nat
  BY DEF Fig!AnalyticsAssumption
<1>2. CardTypes
  <2>1. table \in Seq(Messages) /\ DOMAIN table = {} /\ Len(table) = 0
    BY DEF Fig!Init
  <2>2. sessions \in [Session -> Chats]
    <3>1. Fig!Absent \in Chats
      BY DEF Fig!Absent, Fig!Opened, Chats
    <3> QED BY <3>1 DEF Fig!Init
  <2>3. req \in [card : Fig!Cards \cup {"none"}, w : Windows, got : Seq(Nat)]
    BY DEF Fig!Init, Fig!NoReq, Windows
  <2>4. hour = 0 /\ writing = {} /\ edits = 0 /\ late = FALSE /\ relabelled = FALSE
    BY DEF Fig!Init
  <2>5. writing \in SUBSET Drafts /\ \A m, n \in writing : m = n
    BY <2>4
  <2>6. \A i \in DOMAIN table : table[i].at <= hour
    BY <2>1
  <2>7. \A m \in writing : m.row.sess \in Session /\ m.row.at <= hour
                          /\ (~ m.stored => Len(table) < MaxChange)
    BY <2>4
  <2>8. late \in BOOLEAN /\ relabelled \in BOOLEAN
    BY <2>4
  <2>9. hour \in Nat /\ hour <= MaxHour /\ edits \in Nat /\ edits <= MaxChange
        /\ Len(table) <= MaxChange
    BY <1>1, <2>1, <2>4
  <2> QED BY <2>1, <2>2, <2>3, <2>5, <2>6, <2>7, <2>8, <2>9, Zenon DEF CardTypes
<1>3. req.card = "none"
  BY DEF Fig!Init, Fig!NoReq
<1> QED BY <1>2, <1>3 DEF FiguresInv, Tallied, Fig!PartsAddUp

LEMMA FiguresRest ==
  ASSUME FiguresInv, UNCHANGED Fig!analyticsVars
  PROVE  FiguresInv'
<1>1. CardTypes'
  BY DEF FiguresInv, CardTypes, Fig!analyticsVars
<1>2. Tallied' /\ Fig!PartsAddUp'
  BY DEF FiguresInv, Fig!analyticsVars, Tallied, Fig!PartsAddUp, Flagged, Fig!Of, Fig!In, Fig!Rows,
     Fig!Cohort, Fig!Open
<1> QED BY <1>1, <1>2 DEF FiguresInv

(* What no step between two queries of a card does: it adds nothing to what
   the card counts, unless a history variable says so.                       *)
Stands ==
  \/ req.card = "none"
  \/ late'
  \/ /\ Fig!Cohort(req.w)' = Fig!Cohort(req.w)
     /\ Fig!Of(req.w, "assistant")' \subseteq Fig!Of(req.w, "assistant")
     /\ relabelled' \/ Flagged(req.w)' \subseteq Flagged(req.w)

LEMMA CountsStand ==
  ASSUME Fig!AnalyticsAssumption, FiguresInv, CardTypes', req' = req, late => late',
         relabelled => relabelled', Stands
  PROVE  FiguresInv'
<1>1. CASE req.card = "none"
  BY <1>1 DEF FiguresInv, Tallied, Fig!PartsAddUp
<1>2. CASE late'
  BY <1>2 DEF FiguresInv, Tallied, Fig!PartsAddUp
<1>3. CASE req.card # "none" /\ ~ late'
  <2>1. /\ Fig!Cohort(req.w)' = Fig!Cohort(req.w)
        /\ Fig!Of(req.w, "assistant")' \subseteq Fig!Of(req.w, "assistant")
        /\ relabelled' \/ Flagged(req.w)' \subseteq Flagged(req.w)
    BY <1>3 DEF Stands
  <2>2. Fig!PartsAddUp'
    BY <1>3 DEF FiguresInv, Fig!PartsAddUp
  <2>3. Fig!Count(Fig!Cohort(req.w))' = Fig!Count(Fig!Cohort(req.w))
    BY <2>1 DEF Fig!Count
  <2>4. /\ Fig!Count(Fig!Of(req.w, "assistant"))' \in Nat
        /\ Fig!Count(Fig!Of(req.w, "assistant")) \in Nat
        /\ Fig!Count(Fig!Of(req.w, "assistant"))' <= Fig!Count(Fig!Of(req.w, "assistant"))
    <3>1. IsFiniteSet(Fig!Of(req.w, "assistant"))
      BY RowTypes, WindowRows DEF FiguresInv
    <3> QED BY CountIs, <2>1, <3>1, FS_Subset, FS_CardinalityType
  <2>5. ~ relabelled' => /\ Fig!Count(Flagged(req.w))' \in Nat /\ Fig!Count(Flagged(req.w)) \in Nat
                         /\ Fig!Count(Flagged(req.w))' <= Fig!Count(Flagged(req.w))
    <3>1. Flagged(req.w) \subseteq Fig!Rows
      BY WindowRows DEF Flagged
    <3>2. IsFiniteSet(Flagged(req.w))
      BY <3>1, RowTypes DEF FiguresInv
    <3> QED BY CountIs, <2>1, <3>2, FS_Subset, FS_CardinalityType
  <2>6. \A k \in DOMAIN req.got : req.got[k] \in Nat
    BY DEF FiguresInv, CardTypes
  <2>7. Tallied'
    BY <1>3, <2>3, <2>4, <2>5, <2>6 DEF FiguresInv, Tallied
  <2> QED BY <2>2, <2>7 DEF FiguresInv
<1> QED BY <1>1, <1>2, <1>3

LEMMA Appended ==
  ASSUME NEW s \in Seq(Nat), NEW q \in Nat
  PROVE  /\ Append(s, q) \in Seq(Nat) /\ DOMAIN Append(s, q) = 1 .. Len(s) + 1
         /\ Len(Append(s, q)) = Len(s) + 1 /\ Append(s, q)[Len(s) + 1] = q
         /\ Len(s) \in Nat /\ DOMAIN s = 1 .. Len(s)
         /\ \A k \in 1 .. Len(s) : Append(s, q)[k] = s[k] /\ s[k] \in Nat
OBVIOUS

LEMMA FiguresAsk ==
  ASSUME Fig!AnalyticsAssumption, FiguresInv, NEW card \in Fig!Cards, Fig!Ask(card)
  PROVE  FiguresInv'
<1>1. hour \in Nat /\ hour < MaxHour /\ hour' = hour + 1 /\ MaxHour \in Nat
  BY DEF FiguresInv, CardTypes, Fig!Ask, Fig!AnalyticsAssumption
<1>2. PICK from \in 0 .. hour, to \in 0 .. hour, c \in Channel \cup {None} :
        req' = [card |-> card, w |-> [from |-> from, to |-> to, channel |-> c], got |-> <<>>]
  BY DEF Fig!Ask
<1>3. req' \in [card : Fig!Cards \cup {"none"}, w : Windows, got : Seq(Nat)]
  <2>1. [from |-> from, to |-> to, channel |-> c] \in Windows
    BY <1>1 DEF Windows
  <2> QED BY <1>2, <2>1
<1>4. CardTypes'
  <2>1. \A i \in DOMAIN table : table[i].at <= hour'
    <3>1. \A i \in DOMAIN table : table[i] \in Messages /\ table[i].at <= hour
      BY DEF FiguresInv, CardTypes
    <3> QED BY <1>1, <3>1 DEF Messages
  <2>2. \A m \in writing : m.row.at <= hour'
    <3>1. \A m \in writing : m.row \in Messages /\ m.row.at <= hour
      BY DEF FiguresInv, CardTypes, Drafts
    <3> QED BY <1>1, <3>1 DEF Messages
  <2>3. hour' \in Nat /\ hour' <= MaxHour
    BY <1>1
  <2> QED BY <1>3, <2>1, <2>2, <2>3 DEF FiguresInv, CardTypes, Fig!Ask
<1>5. req'.got = <<>> /\ DOMAIN req'.got = {} /\ Len(req'.got) = 0
  BY <1>2
<1>6. Tallied' /\ Fig!PartsAddUp'
  BY <1>5 DEF Tallied, Fig!PartsAddUp
<1> QED BY <1>4, <1>6 DEF FiguresInv

(* What a query returns is a number, and no part exceeds what it is part of. *)
Shares(w) ==
  /\ Fig!Count(Fig!Cohort(w)) \in Nat /\ Fig!Count(Fig!Of(w, "assistant")) \in Nat
  /\ Fig!Count(Flagged(w)) \in Nat
  /\ Fig!Count(Fig!Understood(w)) \in 0 .. Fig!Count(Fig!Cohort(w))
  /\ Fig!Count(Fig!Resolved(w)) \in 0 .. Fig!Count(Fig!Cohort(w))
  /\ Fig!Count({s \in Fig!Cohort(w) : sessions[s].enriched}) \in 0 .. Fig!Count(Fig!Cohort(w))
  /\ Fig!Count({i \in Fig!Of(w, "assistant") : table[i].kind.cited})
       \in 0 .. Fig!Count(Fig!Of(w, "assistant"))
  /\ Fig!Report(w).flagged = Fig!Count(Flagged(w))
  /\ Fig!Report(w).deflected \in 0 .. Fig!Count(Flagged(w))
  /\ Fig!Report(w).sessions = Fig!Count(Fig!Cohort(w))
  /\ Fig!Report(w).resolved = Fig!Count(Fig!Resolved(w))

LEMMA PartsWithin ==
  ASSUME Fig!AnalyticsAssumption, CardTypes, NEW w
  PROVE  Shares(w)
<1>1. IsFiniteSet(Fig!Cohort(w)) /\ Fig!Count(Fig!Cohort(w)) \in Nat
  BY CohortTypes
<1>2. Fig!Understood(w) \subseteq Fig!Cohort(w) /\ Fig!Resolved(w) \subseteq Fig!Cohort(w)
      /\ {s \in Fig!Cohort(w) : sessions[s].enriched} \subseteq Fig!Cohort(w)
  BY DEF Fig!Understood, Fig!Resolved
<1>3. IsFiniteSet(Fig!Of(w, "assistant")) /\ Fig!Count(Fig!Of(w, "assistant")) \in Nat
  BY RowTypes, WindowRows
<1>4. {i \in Fig!Of(w, "assistant") : table[i].kind.cited} \subseteq Fig!Of(w, "assistant")
      /\ Flagged(w) \subseteq Fig!Of(w, "assistant")
  BY DEF Flagged
<1>5. IsFiniteSet(Flagged(w)) /\ Fig!Count(Flagged(w)) \in Nat
  BY <1>3, <1>4, SubsetCounts
<1>6. Fig!Report(w).flagged = Fig!Count(Flagged(w))
      /\ Fig!Report(w).sessions = Fig!Count(Fig!Cohort(w))
      /\ Fig!Report(w).resolved = Fig!Count(Fig!Resolved(w))
  BY DEF Fig!Report, Flagged
<1>7. Fig!Report(w).deflected
        = Fig!Count({i \in Fig!Of(w, "assistant") : table[i].kind.deflected \in {TRUE}})
  BY DEF Fig!Report
<1>8. {i \in Fig!Of(w, "assistant") : table[i].kind.deflected \in {TRUE}} \subseteq Flagged(w)
  BY DEF Flagged
<1>9. ASSUME NEW S, IsFiniteSet(S), NEW T, T \subseteq S PROVE Fig!Count(T) \in 0 .. Fig!Count(S)
  BY <1>9, SubsetCounts
<1>10. /\ Fig!Count(Fig!Understood(w)) \in 0 .. Fig!Count(Fig!Cohort(w))
       /\ Fig!Count(Fig!Resolved(w)) \in 0 .. Fig!Count(Fig!Cohort(w))
       /\ Fig!Count({s \in Fig!Cohort(w) : sessions[s].enriched}) \in 0 .. Fig!Count(Fig!Cohort(w))
  BY <1>1, <1>2, <1>9
<1>11. Fig!Count({i \in Fig!Of(w, "assistant") : table[i].kind.cited})
         \in 0 .. Fig!Count(Fig!Of(w, "assistant"))
  BY <1>3, <1>4, <1>9
<1>12. Fig!Report(w).deflected \in 0 .. Fig!Count(Flagged(w))
  BY <1>5, <1>7, <1>8, <1>9
<1> QED BY <1>1, <1>3, <1>5, <1>6, <1>10, <1>11, <1>12, Zenon DEF Shares

LEMMA FiguresQuery ==
  ASSUME Fig!AnalyticsAssumption, FiguresInv, Fig!Query
  PROVE  FiguresInv'
<1> DEFINE w == req.w
           got == req.got
           n == Len(got)
           all == Fig!Queries(req.card, w)
           q == all[n + 1]
<1>1. /\ req.card # "none" /\ n < Len(all) /\ req' = [req EXCEPT !.got = Append(got, q)]
      /\ UNCHANGED <<hour, table, sessions, writing, edits, late, relabelled>>
  BY DEF Fig!Query, Fig!Window
<1>2. /\ req \in [card : Fig!Cards \cup {"none"}, w : Windows, got : Seq(Nat)]
      /\ req.card \in Fig!Cards /\ got \in Seq(Nat) /\ n \in Nat /\ CardTypes
  BY <1>1 DEF FiguresInv, CardTypes
<1>3. req'.card = req.card /\ req'.w = w /\ req'.got = Append(got, q)
  BY <1>1, <1>2
<1>4. /\ Fig!Cohort(req.w)' = Fig!Cohort(w) /\ Fig!Of(req.w, "assistant")' = Fig!Of(w, "assistant")
      /\ Flagged(req.w)' = Flagged(w)
  BY <1>1, <1>3 DEF Fig!Cohort, Fig!Open, Fig!Of, Fig!In, Fig!Rows, Flagged
<1>5. /\ Fig!Count(Fig!Cohort(req.w))' = Fig!Count(Fig!Cohort(w))
      /\ Fig!Count(Flagged(req.w))' = Fig!Count(Flagged(w))
      /\ Fig!Count(Fig!Of(req.w, "assistant"))' = Fig!Count(Fig!Of(w, "assistant"))
  BY <1>4 DEF Fig!Count
<1>6. q \in Nat => CardTypes'
  <2>1. req' = [card |-> req.card, w |-> w, got |-> Append(got, q)]
    BY <1>1, <1>2
  <2>2. q \in Nat => Append(got, q) \in Seq(Nat)
    BY <1>2, Appended
  <2>3. req.card \in Fig!Cards /\ w \in Windows
    BY <1>2
  <2>4. q \in Nat => req' \in [card : Fig!Cards \cup {"none"}, w : Windows, got : Seq(Nat)]
    BY <2>1, <2>2, <2>3
  <2> QED BY <1>1, <2>4 DEF FiguresInv, CardTypes
<1>7. q \in Nat => /\ DOMAIN req'.got = 1 .. n + 1 /\ Len(req'.got) = n + 1 /\ req'.got[n + 1] = q
                   /\ DOMAIN got = 1 .. n
                   /\ \A k \in 1 .. n : req'.got[k] = got[k] /\ got[k] \in Nat
  BY <1>2, <1>3, Appended
<1> HIDE DEF w, got, n, all, q
<1>8. Shares(w)
  BY <1>2, PartsWithin
<1>9. CASE req.card = "funnel"
  <2>1. all = <<Fig!Count(Fig!Cohort(w)), Fig!Count(Fig!Understood(w)), Fig!Count(Fig!Resolved(w))>>
    BY <1>9 DEF Fig!Queries, all
  <2>2. n \in {0, 1, 2}
    BY <1>1, <1>2, <2>1
  <2>3. /\ n = 0 => q = Fig!Count(Fig!Cohort(w))
        /\ n = 1 => q = Fig!Count(Fig!Understood(w))
        /\ n = 2 => q = Fig!Count(Fig!Resolved(w))
    BY <2>1 DEF q
  <2>4. q \in Nat /\ (n > 0 => q <= Fig!Count(Fig!Cohort(w)))
    BY <1>8, <2>2, <2>3 DEF Shares
  <2>5. CardTypes'
    BY <1>6, <2>4
  <2>6. late \/ n = 0 \/ got[1] = Fig!Count(Fig!Cohort(w))
    BY <1>2, <1>7, <1>9, <2>2, <2>4 DEF FiguresInv, Tallied, got, w
  <2>7. Tallied'
    BY <1>1, <1>3, <1>5, <1>7, <1>9, <2>2, <2>3, <2>4, <2>6 DEF Tallied
  <2>8. Fig!PartsAddUp'
    BY <1>1, <1>3, <1>7, <1>9, <2>2, <2>4, <2>6 DEF FiguresInv, Fig!PartsAddUp, got
  <2> QED BY <2>5, <2>7, <2>8 DEF FiguresInv
<1>10. CASE req.card = "enrichment"
  <2>1. all = <<Fig!Count(Fig!Cohort(w)), Fig!Count({s \in Fig!Cohort(w) : sessions[s].enriched}),
                Fig!Total(Fig!Sentiment(w)), Fig!Total(Fig!Intents(w))>>
    BY <1>10 DEF Fig!Queries, all
  <2>2. n \in {0, 1, 2, 3}
    BY <1>1, <1>2, <2>1
  <2>3. /\ n = 0 => q = Fig!Count(Fig!Cohort(w))
        /\ n = 1 => q = Fig!Count({s \in Fig!Cohort(w) : sessions[s].enriched})
        /\ n = 2 => q = Fig!Count(Fig!Cohort(w))
        /\ n = 3 => q \in Nat /\ q <= Fig!Count(Fig!Cohort(w))
    <3>1. Fig!Total(Fig!Sentiment(w)) = Fig!Count(Fig!Cohort(w))
          /\ Fig!Total(Fig!Intents(w)) \in Nat
          /\ Fig!Total(Fig!Intents(w)) <= Fig!Count(Fig!Cohort(w))
      BY <1>2, MoodsHoldAll, IntentsWithin
    <3> QED BY <2>1, <3>1 DEF q
  <2>4. q \in Nat /\ (n > 0 => q <= Fig!Count(Fig!Cohort(w)))
    BY <1>8, <2>2, <2>3 DEF Shares
  <2>5. CardTypes'
    BY <1>6, <2>4
  <2>6. late \/ n = 0 \/ got[1] = Fig!Count(Fig!Cohort(w))
    BY <1>2, <1>7, <1>10, <2>2, <2>4 DEF FiguresInv, Tallied, got, w
  <2>7. Tallied'
    BY <1>1, <1>3, <1>5, <1>7, <1>10, <2>2, <2>3, <2>4, <2>6 DEF Tallied
  <2>8. Fig!PartsAddUp'
    BY <1>1, <1>3, <1>7, <1>10, <2>2, <2>3, <2>4, <2>6 DEF FiguresInv, Fig!PartsAddUp, got
  <2> QED BY <2>5, <2>7, <2>8 DEF FiguresInv
<1>11. CASE req.card = "citations"
  <2>1. all = <<Fig!Count(Fig!Of(w, "assistant")),
                Fig!Count({i \in Fig!Of(w, "assistant") : table[i].kind.cited})>>
    BY <1>11 DEF Fig!Queries, all
  <2>2. n \in {0, 1}
    BY <1>1, <1>2, <2>1
  <2>3. /\ n = 0 => q = Fig!Count(Fig!Of(w, "assistant"))
        /\ n = 1 => q = Fig!Count({i \in Fig!Of(w, "assistant") : table[i].kind.cited})
    BY <2>1 DEF q
  <2>4. q \in Nat /\ Fig!Count(Fig!Of(w, "assistant")) \in Nat
        /\ (n > 0 => q <= Fig!Count(Fig!Of(w, "assistant")))
    BY <1>8, <2>2, <2>3 DEF Shares
  <2>5. CardTypes'
    BY <1>6, <2>4
  <2>6. late \/ n = 0 \/ Fig!Count(Fig!Of(w, "assistant")) <= got[1]
    BY <1>2, <1>7, <1>11, <2>2, <2>4 DEF FiguresInv, Tallied, got, w
  <2>7. Tallied'
    BY <1>1, <1>3, <1>5, <1>7, <1>11, <2>2, <2>3, <2>4, <2>6 DEF Tallied
  <2>8. Fig!PartsAddUp'
    BY <1>1, <1>3, <1>7, <1>11, <2>2, <2>4, <2>6 DEF FiguresInv, Fig!PartsAddUp, got
  <2> QED BY <2>5, <2>7, <2>8 DEF FiguresInv
<1>12. CASE req.card = "report"
  <2>1. all = <<Fig!Count(Flagged(w)), Fig!Report(w).deflected,
                Fig!Count(Fig!Cohort(w)), Fig!Count(Fig!Resolved(w))>>
    BY <1>8, <1>12 DEF Fig!Queries, all, Shares
  <2>2. n \in {0, 1, 2, 3}
    <3>1. Len(all) = 4
      BY <2>1
    <3>2. n \in Nat /\ n < Len(all)
      BY <1>1, <1>2
    <3> QED BY <3>1, <3>2
  <2>3. /\ n = 0 => q = Fig!Count(Flagged(w))
        /\ n = 1 => q = Fig!Report(w).deflected
        /\ n = 2 => q = Fig!Count(Fig!Cohort(w))
        /\ n = 3 => q = Fig!Count(Fig!Resolved(w))
    BY <2>1 DEF q
  <2>4. /\ q \in Nat /\ Fig!Count(Flagged(w)) \in Nat
        /\ n = 1 => q <= Fig!Count(Flagged(w))
        /\ n = 3 => q <= Fig!Count(Fig!Cohort(w))
    BY <1>8, <2>2, <2>3 DEF Shares
  <2>5. CardTypes'
    BY <1>6, <2>4
  <2>6. /\ late \/ relabelled \/ n = 0 \/ Fig!Count(Flagged(w)) <= got[1]
        /\ late \/ n # 3 \/ got[3] = Fig!Count(Fig!Cohort(w))
    BY <1>2, <1>7, <1>12, <2>2, <2>4 DEF FiguresInv, Tallied, got, w
  <2>7. Tallied'
    BY <1>1, <1>3, <1>5, <1>7, <1>12, <2>2, <2>3, <2>4, <2>6 DEF Tallied
  <2>8. Fig!PartsAddUp'
    <3>1. \/ late
          \/ /\ 2 \in DOMAIN got => relabelled \/ got[2] <= got[1]
             /\ 4 \in DOMAIN got => got[4] <= got[3]
      BY <1>12 DEF FiguresInv, Fig!PartsAddUp, got
    <3>2. \/ late
          \/ /\ 2 \in DOMAIN req'.got => relabelled \/ req'.got[2] <= req'.got[1]
             /\ 4 \in DOMAIN req'.got => req'.got[4] <= req'.got[3]
      BY <1>7, <2>2, <2>4, <2>6, <3>1
    <3> QED BY <1>1, <1>3, <1>12, <3>2 DEF Fig!PartsAddUp
  <2> QED BY <2>5, <2>7, <2>8 DEF FiguresInv
<1> QED BY <1>2, <1>9, <1>10, <1>11, <1>12 DEF Fig!Cards

(* Nothing that is counted changes.                                          *)
LEMMA NothingCounted ==
  ASSUME Fig!AnalyticsAssumption, FiguresInv, CardTypes',
         UNCHANGED <<table, sessions, req, late, relabelled>>
  PROVE  FiguresInv'
<1>1. Stands
  BY DEF Stands, Fig!Cohort, Fig!Open, Fig!Of, Fig!In, Fig!Rows, Flagged
<1> QED BY <1>1, CountsStand

LEMMA FiguresStrike ==
  ASSUME Fig!AnalyticsAssumption, FiguresInv, Fig!Strike
  PROVE  FiguresInv'
<1>1. hour \in Nat /\ hour < MaxHour /\ hour' = hour + 1 /\ MaxHour \in Nat
  BY DEF FiguresInv, CardTypes, Fig!Strike, Fig!AnalyticsAssumption
<1>2. CardTypes'
  <2>1. \A i \in DOMAIN table : table[i].at <= hour'
    <3>1. \A i \in DOMAIN table : table[i] \in Messages /\ table[i].at <= hour
      BY DEF FiguresInv, CardTypes
    <3> QED BY <1>1, <3>1 DEF Messages
  <2>2. \A m \in writing : m.row.at <= hour'
    <3>1. \A m \in writing : m.row \in Messages /\ m.row.at <= hour
      BY DEF FiguresInv, CardTypes, Drafts
    <3> QED BY <1>1, <3>1 DEF Messages
  <2>3. hour' \in Nat /\ hour' <= MaxHour
    BY <1>1
  <2> QED BY <2>1, <2>2, <2>3 DEF FiguresInv, CardTypes, Fig!Strike
<1> QED BY <1>2, NothingCounted DEF Fig!Strike

LEMMA FiguresStamp ==
  ASSUME Fig!AnalyticsAssumption, FiguresInv, NEW s \in Session, NEW kind \in Kind[s],
         Fig!Stamp(s, kind)
  PROVE  FiguresInv'
<1> DEFINE m == [row |-> Fig!Sent(s, kind), stored |-> FALSE]
<1>1. hour \in Nat /\ edits \in Nat /\ Len(table) \in Nat /\ Len(table) + edits < MaxChange
      /\ MaxChange \in Nat
  BY DEF FiguresInv, CardTypes, Fig!Stamp, Fig!AnalyticsAssumption
<1>2. Fig!Sent(s, kind) \in Messages /\ m.row.sess \in Session /\ m.row.at <= hour
  <2>1. kind \in Fig!Kinds
    BY DEF Fig!AnalyticsAssumption
  <2> QED BY <1>1, <2>1 DEF Fig!Sent, Messages
<1>3. writing' = {m} /\ m \in Drafts
  BY <1>2 DEF Fig!Stamp, Drafts
<1>4. Len(table) < MaxChange
  BY <1>1
<1>5. CardTypes'
  BY <1>2, <1>3, <1>4 DEF FiguresInv, CardTypes, Fig!Stamp
<1> QED BY <1>5, NothingCounted DEF Fig!Stamp

LEMMA FiguresInsert ==
  ASSUME Fig!AnalyticsAssumption, FiguresInv, Fig!Insert
  PROVE  FiguresInv'
<1>1. PICK m \in writing :
        /\ ~ m.stored /\ writing' = {[m EXCEPT !.stored = TRUE]}
        /\ table' = Append(table, m.row)
        /\ Fig!Comes(m.row.at)
        /\ UNCHANGED <<hour, sessions, req, edits, relabelled>>
  BY DEF Fig!Insert
<1>2. m \in Drafts /\ m.row \in Messages /\ m.row.sess \in Session /\ m.row.at <= hour
      /\ Len(table) < MaxChange /\ table \in Seq(Messages)
  BY <1>1 DEF FiguresInv, CardTypes, Drafts
<1>3. /\ table' \in Seq(Messages) /\ Len(table') = Len(table) + 1 /\ Len(table) \in Nat
      /\ DOMAIN table' = 1 .. Len(table) + 1 /\ DOMAIN table = 1 .. Len(table)
      /\ \A i \in DOMAIN table : table'[i] = table[i]
      /\ table'[Len(table) + 1] = m.row
  BY <1>1, <1>2
<1>4. CardTypes'
  <2> DEFINE d == [m EXCEPT !.stored = TRUE]
  <2>1. d \in Drafts /\ d.row = m.row /\ d.stored = TRUE
    BY <1>2 DEF Drafts
  <2>2. \A i \in DOMAIN table' : table'[i].at <= hour
    BY <1>2, <1>3 DEF FiguresInv, CardTypes
  <2>3. Len(table') <= MaxChange
    BY <1>2, <1>3 DEF Fig!AnalyticsAssumption
  <2>4. late' \in BOOLEAN
    BY <1>1 DEF Fig!Comes
  <2> HIDE DEF d
  <2>5. writing' = {d}
    BY <1>1 DEF d
  <2> QED BY <1>1, <1>2, <1>3, <2>1, <2>2, <2>3, <2>4, <2>5 DEF FiguresInv, CardTypes
<1>5. late => late'
  BY <1>1 DEF Fig!Comes
<1>6. ASSUME req.card # "none", ~ late'
      PROVE  Fig!Of(req.w, "assistant")' \subseteq Fig!Of(req.w, "assistant")
             /\ Flagged(req.w)' \subseteq Flagged(req.w)
  <2>1. ~ (m.row.at <= req.w.to)
    BY <1>1, <1>6 DEF Fig!Comes
  <2>2. Fig!In(req.w)' \subseteq DOMAIN table
    BY <1>1, <1>3, <2>1 DEF Fig!In, Fig!Rows, Fig!Within
  <2>3. Fig!In(req.w)' \subseteq Fig!In(req.w)
    BY <1>1, <1>3, <2>2 DEF Fig!In, Fig!Rows
  <2> QED BY <1>1, <1>3, <2>2, <2>3 DEF Fig!Of, Flagged
<1>7. Fig!Cohort(req.w)' = Fig!Cohort(req.w)
  BY <1>1 DEF Fig!Cohort, Fig!Open
<1>8. Stands
  BY <1>6, <1>7 DEF Stands
<1> QED BY <1>1, <1>4, <1>5, <1>8, CountsStand

LEMMA FiguresUpsert ==
  ASSUME Fig!AnalyticsAssumption, FiguresInv, Fig!Upsert
  PROVE  FiguresInv'
<1>1. PICK m \in writing :
        /\ m.stored /\ writing' = {}
        /\ sessions' = [sessions EXCEPT ![m.row.sess] =
                                            IF @.at = None THEN Fig!Opened(m.row.at) ELSE @]
        /\ Fig!Comes(m.row.at)
        /\ UNCHANGED <<hour, table, req, edits, relabelled>>
  BY DEF Fig!Upsert
<1>2. m.row \in Messages /\ m.row.sess \in Session /\ m.row.at \in Nat
      /\ sessions \in [Session -> Chats]
  BY <1>1 DEF FiguresInv, CardTypes, Drafts, Messages
<1>3. Fig!Opened(m.row.at) \in Chats
  BY <1>2 DEF Fig!Opened, Chats
<1>4. sessions' \in [Session -> Chats]
  BY <1>1, <1>2, <1>3
<1>5. late' \in BOOLEAN /\ (late => late')
  BY <1>1 DEF Fig!Comes
<1>6. CardTypes'
  BY <1>1, <1>4, <1>5 DEF FiguresInv, CardTypes
<1>7. ASSUME req.card # "none", ~ late'
      PROVE  Fig!Cohort(req.w)' = Fig!Cohort(req.w)
  <2>1. ~ (m.row.at <= req.w.to)
    BY <1>1, <1>7 DEF Fig!Comes
  <2>2. \A s \in Session : s # m.row.sess => sessions'[s] = sessions[s]
    BY <1>1, <1>2
  <2>3. sessions'[m.row.sess] = IF sessions[m.row.sess].at = None THEN Fig!Opened(m.row.at)
                                ELSE sessions[m.row.sess]
    BY <1>1, <1>2
  <2>4. Fig!Opened(m.row.at).at = m.row.at
    BY DEF Fig!Opened
  <2>5. \A s \in Session : /\ s \in Fig!Cohort(req.w)' <=> /\ sessions'[s].at # None
                                                           /\ Fig!Within(req.w, sessions'[s].at)
                                                           /\ Fig!Through(req.w, s)
                           /\ s \in Fig!Cohort(req.w) <=> /\ sessions[s].at # None
                                                          /\ Fig!Within(req.w, sessions[s].at)
                                                          /\ Fig!Through(req.w, s)
    BY <1>1 DEF Fig!Cohort, Fig!Open, Fig!Within, Fig!Through
  <2>6. \A s \in Session : s \in Fig!Cohort(req.w)' <=> s \in Fig!Cohort(req.w)
    BY <2>1, <2>2, <2>3, <2>4, <2>5 DEF Fig!Within
  <2> QED BY <2>6 DEF Fig!Cohort, Fig!Open
<1>8. Fig!Of(req.w, "assistant")' = Fig!Of(req.w, "assistant") /\ Flagged(req.w)' = Flagged(req.w)
  BY <1>1 DEF Fig!Of, Fig!In, Fig!Rows, Flagged
<1>9. Stands
  BY <1>7, <1>8 DEF Stands
<1> QED BY <1>1, <1>5, <1>6, <1>9, CountsStand

LEMMA EditTypes ==
  ASSUME Fig!AnalyticsAssumption, FiguresInv, Fig!Edit
  PROVE  edits' \in Nat /\ edits' <= MaxChange /\ UNCHANGED <<hour, writing, req, late>>
<1>1. edits \in Nat /\ Len(table) \in Nat /\ MaxChange \in Nat /\ table \in Seq(Messages)
  BY DEF FiguresInv, CardTypes, Fig!AnalyticsAssumption
<1> QED BY <1>1 DEF Fig!Edit

(* An edit keeps the time and the role of a message, and at most deletes it. *)
LEMMA FiguresEdited ==
  ASSUME Fig!AnalyticsAssumption, FiguresInv, NEW i \in DOMAIN table, NEW edited \in Messages,
         Fig!EditMessage(i, edited), relabelled' \in BOOLEAN, relabelled => relabelled',
         edited.sess \in {table[i].sess, None}, edited.at = table[i].at,
         edited.kind.role = table[i].kind.role,
         req.card = "none" \/ relabelled' \/ edited.kind.deflected = table[i].kind.deflected
  PROVE  FiguresInv'
<1>1. /\ table' = [table EXCEPT ![i] = edited] /\ UNCHANGED sessions /\ table \in Seq(Messages)
      /\ edits' \in Nat /\ edits' <= MaxChange /\ UNCHANGED <<hour, writing, req, late>>
  BY EditTypes DEF Fig!EditMessage, FiguresInv, CardTypes
<1>2. /\ table' \in Seq(Messages) /\ Len(table') = Len(table) /\ DOMAIN table' = DOMAIN table
      /\ table'[i] = edited /\ \A j \in DOMAIN table : j # i => table'[j] = table[j]
  BY <1>1
<1>3. \A j \in DOMAIN table' : table'[j].at <= hour
  BY <1>2 DEF FiguresInv, CardTypes
<1>4. CardTypes'
  BY <1>1, <1>2, <1>3 DEF FiguresInv, CardTypes
<1>5. \A j \in DOMAIN table :
        /\ table'[j].sess \in {table[j].sess, None} /\ table'[j].at = table[j].at
        /\ table'[j].kind.role = table[j].kind.role
        /\ req.card = "none" \/ relabelled' \/ table'[j].kind.deflected = table[j].kind.deflected
  BY <1>2
<1>6. Fig!Rows' \subseteq Fig!Rows
  BY <1>2, <1>5 DEF Fig!Rows
<1>7. Fig!In(req.w)' \subseteq Fig!In(req.w)
  <2>1. \A j \in Fig!Rows' : j \in DOMAIN table /\ table'[j].sess = table[j].sess
        /\ table'[j].at = table[j].at
    BY <1>2, <1>5 DEF Fig!Rows
  <2> QED BY <1>1, <1>6, <2>1 DEF Fig!In, Fig!Within, Fig!Through
<1>8. Fig!Of(req.w, "assistant")' \subseteq Fig!Of(req.w, "assistant")
  BY <1>1, <1>2, <1>5, <1>7 DEF Fig!Of, Fig!In, Fig!Rows
<1>9. req.card = "none" \/ relabelled' \/ Flagged(req.w)' \subseteq Flagged(req.w)
  BY <1>1, <1>2, <1>5, <1>8 DEF Flagged, Fig!Of, Fig!In, Fig!Rows
<1>10. Fig!Cohort(req.w)' = Fig!Cohort(req.w)
  BY <1>1 DEF Fig!Cohort, Fig!Open
<1>11. Stands
  BY <1>8, <1>9, <1>10 DEF Stands
<1> QED BY <1>1, <1>4, <1>11, CountsStand

LEMMA FiguresEdits ==
  ASSUME Fig!AnalyticsAssumption, FiguresInv, NEW i \in DOMAIN table,
         \/ \E rating \in {0, 1} : Fig!Rate(i, rating) \/ Fig!Override(i, rating)
         \/ Fig!SetDeflection(i, TRUE) \/ Fig!DeleteMessage(i)
  PROVE  FiguresInv'
<1>1. table[i] \in Messages /\ relabelled \in BOOLEAN
  BY DEF FiguresInv, CardTypes
<1>2. CASE \E rating \in {0, 1} : Fig!Rate(i, rating) \/ Fig!Override(i, rating)
  <2>1. PICK rating \in {0, 1} : Fig!Rate(i, rating) \/ Fig!Override(i, rating)
    BY <1>2
  <2> DEFINE edited == [table[i] EXCEPT !.rating = rating]
  <2>2. Fig!EditMessage(i, edited) /\ relabelled' = relabelled
    BY <2>1 DEF Fig!Rate, Fig!Override
  <2>3. edited \in Messages /\ edited.sess = table[i].sess /\ edited.at = table[i].at
        /\ edited.kind = table[i].kind
    BY <1>1 DEF Messages
  <2> HIDE DEF edited
  <2> QED BY <1>1, <2>2, <2>3, FiguresEdited
<1>3. CASE Fig!SetDeflection(i, TRUE)
  <2> DEFINE k == [table[i].kind EXCEPT !.deflected = TRUE]
             edited == [table[i] EXCEPT !.kind = k]
  <2>1. k \in Fig!Kinds /\ k.role = table[i].kind.role
    <3>1. table[i].kind \in Fig!Kinds
      BY <1>1 DEF Messages
    <3> QED BY <3>1 DEF Fig!Kinds
  <2>2. Fig!EditMessage(i, edited) /\ relabelled' = (relabelled \/ req.card # "none")
    BY <1>3 DEF Fig!SetDeflection
  <2> HIDE DEF k
  <2>3. edited \in Messages /\ edited.sess = table[i].sess /\ edited.at = table[i].at
        /\ edited.kind = k
    BY <1>1, <2>1 DEF Messages
  <2>4. relabelled' \in BOOLEAN /\ (relabelled => relabelled') /\ (req.card = "none" \/ relabelled')
    BY <2>2
  <2> HIDE DEF edited
  <2> QED BY <2>1, <2>2, <2>3, <2>4, FiguresEdited
<1>4. CASE Fig!DeleteMessage(i)
  <2> DEFINE edited == [table[i] EXCEPT !.sess = None]
  <2>1. Fig!EditMessage(i, edited) /\ relabelled' = relabelled
    BY <1>4 DEF Fig!DeleteMessage
  <2>2. edited \in Messages /\ edited.sess = None /\ edited.at = table[i].at
        /\ edited.kind = table[i].kind
    BY <1>1 DEF Messages
  <2> HIDE DEF edited
  <2> QED BY <1>1, <2>1, <2>2, FiguresEdited
<1> QED BY <1>2, <1>3, <1>4

LEMMA FiguresLabelled ==
  ASSUME Fig!AnalyticsAssumption, FiguresInv, NEW s \in Session, NEW labelled \in Chats,
         Fig!EditSession(s, labelled), labelled.at = sessions[s].at
  PROVE  FiguresInv'
<1>1. /\ sessions' = [sessions EXCEPT ![s] = labelled] /\ UNCHANGED <<table, relabelled>>
      /\ sessions \in [Session -> Chats]
      /\ edits' \in Nat /\ edits' <= MaxChange /\ UNCHANGED <<hour, writing, req, late>>
  BY EditTypes DEF Fig!EditSession, FiguresInv, CardTypes
<1>2. sessions' \in [Session -> Chats] /\ \A t \in Session : sessions'[t].at = sessions[t].at
  BY <1>1
<1>3. CardTypes'
  BY <1>1, <1>2 DEF FiguresInv, CardTypes
<1>4. Fig!Cohort(req.w)' = Fig!Cohort(req.w)
  BY <1>1, <1>2 DEF Fig!Cohort, Fig!Open, Fig!Within, Fig!Through
<1>5. Fig!Of(req.w, "assistant")' = Fig!Of(req.w, "assistant") /\ Flagged(req.w)' = Flagged(req.w)
  BY <1>1 DEF Fig!Of, Fig!In, Fig!Rows, Flagged
<1>6. Stands
  BY <1>4, <1>5 DEF Stands
<1> QED BY <1>1, <1>3, <1>6, CountsStand

LEMMA FiguresLabels ==
  ASSUME Fig!AnalyticsAssumption, FiguresInv, NEW s \in Session,
         (\E value \in BOOLEAN : Fig!Resolve(s, value)) \/ Fig!Enrich(s)
  PROVE  FiguresInv'
<1>1. sessions[s] \in Chats
  BY DEF FiguresInv, CardTypes
<1>2. CASE \E value \in BOOLEAN : Fig!Resolve(s, value)
  <2>1. PICK value \in BOOLEAN : Fig!Resolve(s, value)
    BY <1>2
  <2> DEFINE labelled == [sessions[s] EXCEPT !.resolved = value]
  <2>2. labelled \in Chats /\ labelled.at = sessions[s].at
    BY <1>1 DEF Chats
  <2>3. Fig!EditSession(s, labelled)
    BY <2>1 DEF Fig!Resolve
  <2> HIDE DEF labelled
  <2> QED BY <2>2, <2>3, FiguresLabelled
<1>3. CASE Fig!Enrich(s)
  <2>1. PICK labels \in {<<"negative", "order">>, <<"mixed", "blank">>} :
          Fig!EditSession(s, [sessions[s] EXCEPT !.enriched = TRUE,
                                             !.mood = labels[1], !.intent = labels[2]])
    BY <1>3 DEF Fig!Enrich
  <2> DEFINE labelled == [sessions[s] EXCEPT !.enriched = TRUE,
                                             !.mood = labels[1], !.intent = labels[2]]
  <2>2. labels[1] \in {"negative", "mixed"} /\ labels[2] \in {"order", "blank"}
    OBVIOUS
  <2>3. labelled \in Chats /\ labelled.at = sessions[s].at
    BY <1>1, <2>2 DEF Chats, Fig!Moods
  <2>4. Fig!EditSession(s, labelled)
    BY <2>1
  <2> HIDE DEF labelled
  <2> QED BY <2>3, <2>4, FiguresLabelled
<1> QED BY <1>2, <1>3

LEMMA FiguresSteps ==
  ASSUME Fig!AnalyticsAssumption, FiguresInv, Fig!Next
  PROVE  FiguresInv'
<1>1. ASSUME NEW card \in Fig!Cards, Fig!Ask(card) PROVE FiguresInv'
  BY <1>1, FiguresAsk
<1>2. CASE Fig!Query
  BY <1>2, FiguresQuery
<1>3. CASE Fig!Insert
  BY <1>3, FiguresInsert
<1>4. CASE Fig!Upsert
  BY <1>4, FiguresUpsert
<1>5. CASE Fig!Strike
  BY <1>5, FiguresStrike
<1>6. ASSUME NEW s \in Session, NEW kind \in Kind[s], Fig!Stamp(s, kind) PROVE FiguresInv'
  BY <1>6, FiguresStamp
<1>7. ASSUME NEW s \in Session, (\E value \in BOOLEAN : Fig!Resolve(s, value)) \/ Fig!Enrich(s)
      PROVE  FiguresInv'
  BY <1>7, FiguresLabels
<1>8. ASSUME NEW i \in DOMAIN table,
             \/ \E rating \in {0, 1} : Fig!Rate(i, rating) \/ Fig!Override(i, rating)
             \/ Fig!SetDeflection(i, TRUE) \/ Fig!DeleteMessage(i)
      PROVE  FiguresInv'
  BY <1>8, FiguresEdits
<1> QED BY <1>1, <1>2, <1>3, <1>4, <1>5, <1>6, <1>7, <1>8 DEF Fig!Next

-----------------------------------------------------------------------------
(* All parts: the one that runs keeps its invariant, the others rest.        *)
AllInv == IInv /\ FiguresInv /\ \A b \in Bot : part = b => RuntimeInv(b)

LEMMA AllStarts == ASSUME AllInit PROVE AllInv
<1>1. IInv
  BY InitIInv, ConversationAssumption DEF AllInit
<1>2. ASSUME NEW b \in Bot, part = b PROVE RuntimeInv(b)
  <2>1. Rt(b)!Init
    BY <1>2 DEF AllInit
  <2> QED BY <2>1, RuntimeInit, ConversationAssumption
<1>3. FiguresInv
  BY FiguresStart, ConversationAssumption DEF AllInit
<1> QED BY <1>1, <1>2, <1>3 DEF AllInv

LEMMA AllSteps == ASSUME AllInv, [AllNext]_allVars PROVE AllInv'
<1>1. part' = part /\ [Next]_vars
  BY DEF AllNext, allVars
<1>2. IInv'
  BY <1>1, NextIInv, ConversationAssumption DEF AllInv
<1>3. ASSUME NEW b \in Bot, part = b PROVE RuntimeInv(b)'
  <2>1. RuntimeInv(b) /\ Rt(b)!RuntimeAssumption
    BY <1>3, ConversationAssumption DEF AllInv
  <2>2. CASE Rt(b)!Next
    BY <2>1, <2>2, RuntimeStep
  <2>3. CASE UNCHANGED runtimeVars
    <3>1. UNCHANGED Rt(b)!vars
      BY <2>3 DEF runtimeVars, Rt!vars
    <3> QED BY <2>1, <3>1, RuntimeStutter
  <2>4. Rt(b)!Next \/ UNCHANGED runtimeVars
    BY <1>3 DEF AllNext, allVars
  <2> QED BY <2>2, <2>3, <2>4
<1>4. FiguresInv'
  <2>1. FiguresInv /\ Fig!AnalyticsAssumption
    BY ConversationAssumption DEF AllInv
  <2>2. CASE Fig!Next
    BY <2>1, <2>2, FiguresSteps
  <2>3. CASE UNCHANGED figureVars
    <3>1. UNCHANGED Fig!analyticsVars
      BY <2>3 DEF figureVars, Fig!analyticsVars
    <3> QED BY <2>1, <3>1, FiguresRest
  <2>4. Fig!Next \/ UNCHANGED figureVars
    BY DEF AllNext, allVars
  <2> QED BY <2>2, <2>3, <2>4
<1> QED BY <1>1, <1>2, <1>3, <1>4 DEF AllInv

(* A save leaves no runtime and no handler of an older configuration or key in
   the process that served it, unless a turn raced it
   (ConversationSessionManager.invalidate_bot).                              *)
THEOREM FreshHolds == AllSpec => []FreshUnlessRaced
<1>1. AllInit => AllInv
  BY AllStarts
<1>2. AllInv /\ [AllNext]_allVars => AllInv'
  BY AllSteps
<1>3. AllInv => FreshUnlessRaced
  BY RuntimeGood DEF AllInv, FreshUnlessRaced
<1> QED BY <1>1, <1>2, <1>3, PTL DEF AllSpec

(* A user has one active session on a bot, get_handler raises only when its
   handler was taken away, and no save is overwritten unseen (get_handler,
   bot_put_config).                                                          *)
THEOREM HandlersHold == AllSpec => []HandlersKept
<1>1. AllInit => AllInv
  BY AllStarts
<1>2. AllInv /\ [AllNext]_allVars => AllInv'
  BY AllSteps
<1>3. AllInv => HandlersKept
  BY RuntimeGood DEF AllInv, RuntimeInv, HandlersKept, IInv
<1> QED BY <1>1, <1>2, <1>3, PTL DEF AllSpec

(* The parts of a card add up to what they are shares of, whatever is inserted,
   deleted or relabelled between its queries, unless a row came with a time in
   the window or, for deflections, one was relabelled; the cards of a window
   agree (bot_funnel, get_report and the other queries of the page).         *)
THEOREM CardsHold == AllSpec => []CardsAddUp
<1>1. AllInit => AllInv
  BY AllStarts
<1>2. AllInv /\ [AllNext]_allVars => AllInv'
  BY AllSteps
<1>3. AllInv => CardsAddUp
  BY FiguresGood, ConversationAssumption DEF AllInv, CardsAddUp
<1> QED BY <1>1, <1>2, <1>3, PTL DEF AllSpec
=============================================================================
