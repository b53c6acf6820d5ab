---------------------------- MODULE SessionTurns ----------------------------
(***************************************************************************)
(* One session of the chat: messages of the user, the rows they leave, and *)
(* admins who take the session over, reply, release and resolve it         *)
(* (services/agent_service.py, models/emly_sessions.py,                    *)
(* models/emly_messages.py, routes/chat.py, routes/admin_bot_sessions.py). *)
(*                                                                         *)
(* Turns and admin routes are threads: every statement that reaches the    *)
(* database, every call of the model and every event published is a step.  *)
(* A message is its author and its role.                                   *)
(***************************************************************************)
EXTENDS Naturals, Sequences, FiniteSets

CONSTANTS Turn,          \* the messages the user sends, each handled by a thread
          Admin,         \* admins, one request at a time each
          Widget,        \* the session's channel is web_widget or unknown
          Faults,        \* "store", "model", "reader", "start"
          MaxRequests,   \* bound on the admins' requests
          Nobody

SessionAssumption ==
  /\ IsFiniteSet(Turn) /\ IsFiniteSet(Admin) /\ Turn \cap Admin = {}
  /\ Nobody \notin Admin \cup Nat
  /\ Widget \in BOOLEAN /\ MaxRequests \in Nat

VARIABLES log,      \* all that emly_messages ever held, in the order of insertion
          gone,     \* how many of them admins deleted
          session,  \* the row of emly_session
          turn,     \* turns under way
          request,  \* admin requests under way
          feed,     \* the last event published about the session's holder
          used,     \* requests so far
          past      \* history, a set of: "uncounted" two inserts overlapped or the
                    \* update of the session row failed; "admins" two requests did

vars == <<log, gone, session, turn, request, feed, used, past>>

NoSession == [exists |-> FALSE, count |-> 0, holder |-> Nobody, resolver |-> Nobody]

(* insert_new_message, by whoever calls it: the row, then the session row is
   read, then created or counted up.                                        *)
InsertSteps == {"row", "read", "write"}

(* held and free say whether somebody held the session, or nobody did, at
   every moment since the turn began.                                       *)
Turns == [pc : {"idle", "gate", "model", "done"} \cup InsertSteps,
          role : {"user", "assistant"}, silent : BOOLEAN, seen : Nat \cup {Nobody},
          held : BOOLEAN, free : BOOLEAN, failed : BOOLEAN]
Kinds == {"takeover", "release", "reply", "resolve", "reopen"}
Requests == [pc : {"idle", "check", "update", "publish"} \cup InsertSteps,
             kind : Kinds, seen : Nat \cup {Nobody}]

NoTurn == [pc |-> "idle", role |-> "user", silent |-> FALSE, seen |-> Nobody,
           held |-> FALSE, free |-> FALSE, failed |-> FALSE]
NoRequest == [pc |-> "idle", kind |-> "takeover", seen |-> Nobody]

Init ==
  /\ log = <<>> /\ gone = 0 /\ session = NoSession
  /\ turn = [t \in Turn |-> NoTurn] /\ request = [a \in Admin |-> NoRequest]
  /\ feed = Nobody /\ used = 0 /\ past = {}

At(t, pc) == turn[t].pc = pc
Asks(a, pc) == request[a].pc = pc
Goto(t, pc) == turn' = [turn EXCEPT ![t].pc = pc]
Step(a, pc) == request' = [request EXCEPT ![a].pc = pc]
End(t) == turn' = [turn EXCEPT ![t] = [NoTurn EXCEPT !.pc = "done"]]
Done(a) == request' = [request EXCEPT ![a] = NoRequest]

Inserting == {t \in Turn : turn[t].pc \in {"read", "write"}}
             \cup {a \in Admin : request[a].pc \in {"read", "write"}}

-----------------------------------------------------------------------------
(* The statements of insert_new_message and upsert_on_message.               *)

Row(who, role) == [by |-> who, role |-> role]
InsertRow(who, role) ==
  /\ log' = Append(log, Row(who, role))
  /\ past' = IF Inserting = {} THEN past ELSE past \cup {"uncounted"}

ReadSession == IF session.exists THEN session.count ELSE Nobody

(* Mutant of Counted: the count starts at 0. *)
CountedFromZero(seen) ==
  IF seen # Nobody THEN [session EXCEPT !.count = seen + 1]
  ELSE IF session.exists THEN session
  ELSE [session EXCEPT !.exists = TRUE]

(* Creating a row that exists raises, which is swallowed: nothing changes.   *)
Counted(seen) ==
  IF seen # Nobody THEN [session EXCEPT !.count = seen + 1]
  ELSE IF session.exists THEN session
  ELSE [session EXCEPT !.exists = TRUE, !.count = 1]

(* Any failure of the session row is swallowed.                              *)
UpsertOutcomes(seen) == {Counted(seen)} \cup (IF "store" \in Faults THEN {session} ELSE {})

Upsert(seen) ==
  \E row \in UpsertOutcomes(seen) :
    /\ session' = row
    /\ past' = IF row # Counted(seen) THEN past \cup {"uncounted"} ELSE past

-----------------------------------------------------------------------------
(* A turn of the user: widget_chat and process_message.                      *)

(* The end user's row is created first if it must be; whether that succeeds
   changes nothing for the turn, and the row is left out.                    *)
Begin(t) ==
  /\ At(t, "idle")
  /\ turn' = [turn EXCEPT ![t] = [NoTurn EXCEPT !.pc = "gate",
       !.held = session.holder # Nobody, !.free = session.holder = Nobody]]
  /\ UNCHANGED <<log, gone, session, request, feed, used, past>>

(* The agent cannot be built, or the bot has no topic: nothing is stored.    *)
Unavailable(t) ==
  /\ At(t, "gate") /\ "start" \in Faults
  /\ End(t)
  /\ UNCHANGED <<log, gone, session, request, feed, used, past>>

(* Mutant of TakenOver: a resolved session is not held. *)
TakenOverWhileOpen ==
  session.exists /\ session.holder # Nobody /\ session.resolver = Nobody

TakenOver == session.exists /\ session.holder # Nobody

(* is_taken_over reads the flag. *)
Gate(t) ==
  /\ At(t, "gate")
  /\ IF TakenOver
     THEN turn' = [turn EXCEPT ![t] = [turn[t] EXCEPT !.pc = "row", !.silent = TRUE]]
     ELSE Goto(t, "model")
  /\ UNCHANGED <<log, gone, session, request, feed, used, past>>

(* The read raises, which is swallowed: the bot answers. *)
GateFails(t) ==
  /\ At(t, "gate") /\ "store" \in Faults
  /\ turn' = [turn EXCEPT ![t] = [turn[t] EXCEPT !.pc = "model", !.failed = TRUE]]
  /\ UNCHANGED <<log, gone, session, request, feed, used, past>>

(* The model answers; or it fails, or the reader of a stream goes away before
   its end, and the turn leaves no row.                                      *)
Model(t) ==
  /\ At(t, "model")
  /\ Goto(t, "row")
  /\ UNCHANGED <<log, gone, session, request, feed, used, past>>

NoAnswer(t) ==
  /\ At(t, "model") /\ Faults \cap {"model", "reader"} # {}
  /\ End(t)
  /\ UNCHANGED <<log, gone, session, request, feed, used, past>>

TurnInserts(t) ==
  /\ At(t, "row")
  /\ InsertRow(t, turn[t].role)
  /\ Goto(t, "read")
  /\ UNCHANGED <<gone, session, request, feed, used>>

(* The insert raises.  In the silent path that is swallowed with everything
   else the gate may raise, and the bot answers.                             *)
TurnInsertFails(t) ==
  /\ At(t, "row") /\ "store" \in Faults
  /\ IF turn[t].silent
     THEN turn' = [turn EXCEPT ![t] =
                     [turn[t] EXCEPT !.pc = "model", !.silent = FALSE, !.failed = TRUE]]
     ELSE End(t)
  /\ UNCHANGED <<log, gone, session, request, feed, used, past>>

TurnReads(t) ==
  /\ At(t, "read")
  /\ turn' = [turn EXCEPT ![t] = [turn[t] EXCEPT !.pc = "write", !.seen = ReadSession]]
  /\ UNCHANGED <<log, gone, session, request, feed, used, past>>

(* After the user's row the assistant's, unless the bot stays silent.        *)
Complete(t) == turn[t].silent \/ turn[t].role = "assistant"

TurnUpserts(t) ==
  /\ At(t, "write")
  /\ Upsert(turn[t].seen)
  /\ IF Complete(t) THEN End(t)
     ELSE turn' = [turn EXCEPT ![t] =
                     [turn[t] EXCEPT !.pc = "row", !.seen = Nobody, !.role = "assistant"]]
  /\ UNCHANGED <<log, gone, request, feed, used>>

-----------------------------------------------------------------------------
(* An admin's request.                                                       *)

AdminRaces(a) == \E b \in Admin \ {a} : ~ Asks(b, "idle")

Ask(a, kind) ==
  /\ Asks(a, "idle") /\ used < MaxRequests
  /\ used' = used + 1
  /\ request' = [request EXCEPT ![a] = [NoRequest EXCEPT !.pc = "check", !.kind = kind]]
  /\ past' = IF AdminRaces(a) THEN past \cup {"admins"} ELSE past
  /\ UNCHANGED <<log, gone, session, turn, feed>>

Allowed(a) ==
  /\ session.exists
  /\ request[a].kind = "takeover" => Widget
  /\ request[a].kind = "reply" => session.holder = a

Check(a) ==
  /\ Asks(a, "check")
  /\ IF ~ Allowed(a) THEN Done(a)
     ELSE IF request[a].kind = "reply" THEN Step(a, "row")
     ELSE Step(a, "update")
  /\ UNCHANGED <<log, gone, session, turn, feed, used, past>>

SetTakeover(who) == [session EXCEPT !.holder = who]
MarkResolved(who) == [session EXCEPT !.resolver = who]

(* Mutant of Taken: the holder stays. *)
TakenUnlessOthers(a) ==
  IF request[a].kind = "takeover" THEN SetTakeover(a)
  ELSE IF request[a].kind = "release"
       THEN SetTakeover(IF session.holder = a THEN Nobody ELSE session.holder)
  ELSE MarkResolved(IF request[a].kind = "resolve" THEN a ELSE Nobody)

(* set_takeover and mark_resolved write whatever they find.                  *)
Taken(a) ==
  IF request[a].kind = "takeover" THEN SetTakeover(a)
  ELSE IF request[a].kind = "release" THEN SetTakeover(Nobody)
  ELSE MarkResolved(IF request[a].kind = "resolve" THEN a ELSE Nobody)

Update(a) ==
  /\ Asks(a, "update")
  /\ session' = Taken(a)
  /\ turn' = [t \in Turn |-> [turn[t] EXCEPT
       !.held = turn[t].held /\ Taken(a).holder # Nobody,
       !.free = turn[t].free /\ Taken(a).holder = Nobody]]
  /\ IF request[a].kind \in {"takeover", "release"} THEN Step(a, "publish") ELSE Done(a)
  /\ UNCHANGED <<log, gone, feed, used, past>>

Publish(a) ==
  /\ Asks(a, "publish")
  /\ feed' = IF request[a].kind = "takeover" THEN a ELSE Nobody
  /\ Done(a)
  /\ UNCHANGED <<log, gone, session, turn, used, past>>

ReplyInserts(a) ==
  /\ Asks(a, "row")
  /\ InsertRow(a, "assistant")
  /\ Step(a, "read")
  /\ UNCHANGED <<gone, session, turn, feed, used>>

ReplyFails(a) ==
  /\ Asks(a, "row") /\ "store" \in Faults
  /\ Done(a)
  /\ UNCHANGED <<log, gone, session, turn, feed, used, past>>

ReplyReads(a) ==
  /\ Asks(a, "read")
  /\ request' = [request EXCEPT ![a] = [request[a] EXCEPT !.pc = "write", !.seen = ReadSession]]
  /\ UNCHANGED <<log, gone, session, turn, feed, used, past>>

ReplyUpserts(a) ==
  /\ Asks(a, "write")
  /\ Upsert(request[a].seen)
  /\ Done(a)
  /\ UNCHANGED <<log, gone, turn, feed, used>>

(* bot_delete_message: one statement on the message's row and none on the
   session's.                                                                *)
DeleteMessage(a) ==
  /\ Asks(a, "idle") /\ used < MaxRequests
  /\ gone < Len(log) /\ gone' = gone + 1
  /\ used' = used + 1
  /\ UNCHANGED <<log, session, turn, request, feed, past>>

TurnStep(t) ==
  \/ Unavailable(t) \/ Gate(t) \/ GateFails(t) \/ Model(t) \/ NoAnswer(t)
  \/ TurnInserts(t) \/ TurnInsertFails(t) \/ TurnReads(t) \/ TurnUpserts(t)

RequestStep(a) ==
  \/ Check(a) \/ Update(a) \/ Publish(a)
  \/ ReplyInserts(a) \/ ReplyFails(a) \/ ReplyReads(a) \/ ReplyUpserts(a)

Next ==
  \/ \E t \in Turn : Begin(t) \/ TurnStep(t)
  \/ \E a \in Admin : RequestStep(a) \/ DeleteMessage(a) \/ \E kind \in Kinds : Ask(a, kind)

Spec == Init /\ [][Next]_vars

-----------------------------------------------------------------------------

TypeOK ==
  /\ log \in Seq([by : Turn \cup Admin, role : {"user", "assistant"}])
  /\ gone \in Nat
  /\ session \in [exists : BOOLEAN, count : Nat, holder : Admin \cup {Nobody},
                  resolver : Admin \cup {Nobody}]
  /\ turn \in [Turn -> Turns] /\ request \in [Admin -> Requests]
  /\ feed \in Admin \cup {Nobody} /\ past \subseteq {"uncounted", "admins"}

(* The transcript and its count.  turn_count never runs ahead of the messages
   that were ever stored, and is their number when no two inserts overlapped and
   the session row could always be written; deleting messages does not lower it.
   Whatever fails and whoever acts meanwhile, a message of the user is stored
   once at most, and a row of the bot follows the one it answers.            *)
IsRow(i, who, role) == log[i] = Row(who, role)
CountFollows ==
  /\ session.count <= Len(log)
  /\ Inserting = {} /\ "uncounted" \notin past => session.count = Len(log)
  /\ \A t \in Turn : \A i \in DOMAIN log :
       /\ IsRow(i, t, "user") => \A j \in DOMAIN log \ {i} : ~ IsRow(j, t, "user")
       /\ IsRow(i, t, "assistant") => \E j \in 1..(i - 1) : IsRow(j, t, "user")

(* The bot does not answer a message that came while an admin held the session
   without a break, unless reading the flag or storing the message failed (the
   gate swallows both, and no document says what is to happen then); it is silent only if an
   admin held it at some time during the turn; and a reply is written by the
   admin who holds the session, unless requests of two admins overlapped.    *)
Writes(who, role) == Len(log') > Len(log) /\ log'[Len(log')] = Row(who, role)
FallsSilent(t) == turn[t].silent /\ At(t, "done")'
HolderDecides ==
  [][/\ \A t \in Turn :
          /\ Writes(t, "assistant") => ~ turn[t].held \/ turn[t].failed
          /\ FallsSilent(t) => ~ turn[t].free
     /\ \A a \in Admin :
          Writes(a, "assistant") => session.holder = a \/ "admins" \in past]_vars

(* The last event that subscribers saw names the holder, between requests
   that did not overlap.                                                     *)
FeedNamesHolder ==
  "admins" \notin past /\ (\A a \in Admin : Asks(a, "idle")) => feed = session.holder
=============================================================================
