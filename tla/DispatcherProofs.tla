-------------------------- MODULE DispatcherProofs --------------------------
(***************************************************************************)
(* Proofs about Dispatcher: its types, the count of background tasks, and, *)
(* for async channels, what "done" promises about delivery.                *)
(***************************************************************************)
EXTENDS Dispatcher, FiniteSetTheorems, TLAPS

PC == Unanswered \cup Background \cup Sending

ReqOK == req \in [Request -> Requests \cup {Idle}]

-----------------------------------------------------------------------------
(* Types *)

(* A request that is somewhere has all its fields. *)
LEMMA Live ==
  ASSUME ReqOK, NEW r \in Request, req[r].pc # "idle"
  PROVE  req[r] \in Requests
BY DEF ReqOK, Idle

(* The three ways a request moves keep its type. *)
LEMMA GotoType ==
  ASSUME ReqOK, NEW r \in Request, req[r] \in Requests, NEW p \in PC, Goto(r, p)
  PROVE  ReqOK'
BY DEF ReqOK, Goto, Requests, PC

LEMMA EndType ==
  ASSUME ReqOK, NEW r \in Request, End(r)
  PROVE  ReqOK'
BY DEF ReqOK, End

LEMMA StartType ==
  ASSUME ReqOK, NEW r \in Request, req[r] \in Requests, NEW p \in PC,
         NEW i \in Items, StartSending(r, p, i)
  PROVE  ReqOK'
<1>1. [req[r] EXCEPT !.pc = p] \in Requests
  BY DEF Requests, PC
<1>2. [req[r] EXCEPT !.pc = p, !.item = i] \in Requests
  BY <1>1 DEF Requests
<1>3. [req[r] EXCEPT !.pc = p, !.item = i, !.try = 1] \in Requests
  <2>1. 1 \in 1 .. MaxSend
    BY DispatcherAssumption
  <2> QED BY <1>2, <2>1 DEF Requests
<1> QED BY <1>3 DEF ReqOK, StartSending

LEMMA ProceedType ==
  ASSUME ReqOK, now \in Nat, NEW r \in Request, req[r] \in Requests, Proceed(r)
  PROVE  ReqOK'
BY DEF ReqOK, Proceed, Requests, Unanswered

(* Marking keeps the type of the table. *)
LEMMA MarkType ==
  ASSUME row \in [Key -> Rows], NEW r, NEW s \in Statuses, Mark(r, s)
  PROVE  row' \in [Key -> Rows]
BY DEF Mark, Marked, Rows, NullTime

LEMMA AckType ==
  ASSUME settled \in SUBSET Event, NEW r \in Request, req[r] \in Requests, Ack(r)
  PROVE  settled' \in SUBSET Event
BY DEF Ack, Requests

LEMMA ReplyType ==
  ASSUME settled \in SUBSET Event, got \in [Event -> [Items -> Nat]],
         NEW r \in Request, req[r] \in Requests, NEW i \in Items, Reply(r, i)
  PROVE  settled' \in SUBSET Event /\ got' \in [Event -> [Items -> Nat]]
BY DEF Reply, Requests

LEMMA ReceivesType ==
  ASSUME got \in [Event -> [Items -> Nat]],
         NEW r \in Request, req[r] \in Requests, Receives(r)
  PROVE  got' \in [Event -> [Items -> Nat]]
BY DEF Receives, Requests

LEMMA EnterType ==
  ASSUME TypeOK, NEW r \in Request, req[r] \in Requests, EnterBackground(r)
  PROVE  /\ ReqOK' /\ row' \in [Key -> Rows] /\ inflight' \in Nat
         /\ settled' \in SUBSET Event
<1>0. ReqOK BY DEF TypeOK, ReqOK
<1>1. CASE inflight >= MaxInflight /\ Mark(r, "failed") /\ Refuse(r) /\ UNCHANGED inflight
  BY <1>0, <1>1, EndType, MarkType DEF Refuse, TypeOK, Statuses
<1>2. CASE /\ inflight < MaxInflight /\ inflight' = inflight + 1
           /\ Ack(r) /\ Goto(r, "queued") /\ UNCHANGED row
  BY <1>0, <1>2, GotoType, AckType DEF TypeOK, PC, Background
<1> QED BY <1>1, <1>2 DEF EnterBackground

LEMMA LeaveType ==
  ASSUME TypeOK, NEW r \in Request, LeaveBackground(r)
  PROVE  ReqOK' /\ inflight' \in Nat
BY EndType DEF LeaveBackground, TypeOK, ReqOK

LEMMA AfterSendType ==
  ASSUME TypeOK, NEW r \in Request, req[r] \in Requests, AfterSend(r)
  PROVE  ReqOK' /\ row' \in [Key -> Rows] /\ inflight' \in Nat
<1>0. ReqOK BY DEF TypeOK, ReqOK
<1>1. CASE /\ req[r].pc \in {"send", "extra"} /\ req[r].item < Chunks
           /\ StartSending(r, req[r].pc, req[r].item + 1)
           /\ UNCHANGED <<row, inflight>>
  <2>1. req[r].item + 1 \in Items /\ req[r].pc \in PC
    BY <1>1, DispatcherAssumption DEF Requests, Items, PC
  <2> QED BY <1>0, <1>1, <2>1, StartType DEF TypeOK
<1>2. CASE Mark(r, "done") /\ LeaveBackground(r)
  BY <1>2, MarkType, LeaveType DEF TypeOK, Statuses
<1>3. CASE Mark(r, "failed") /\ LeaveBackground(r)
  BY <1>3, MarkType, LeaveType DEF TypeOK, Statuses
<1>4. CASE End(r) /\ UNCHANGED <<row, inflight>>
  BY <1>0, <1>4, EndType DEF TypeOK
<1> QED BY <1>1, <1>2, <1>3, <1>4 DEF AfterSend

LEMMA AfterFailedSendType ==
  ASSUME TypeOK, NEW r \in Request, req[r] \in Requests, AfterFailedSend(r)
  PROVE  ReqOK' /\ row' \in [Key -> Rows] /\ inflight' \in Nat
<1>1. CASE Mark(r, "failed") /\ LeaveBackground(r)
  BY <1>1, MarkType, LeaveType DEF TypeOK, Statuses
<1>2. CASE AfterSend(r)
  BY <1>2, AfterSendType
<1> QED BY <1>1, <1>2 DEF AfterFailedSend

(* Type correctness, for every value of the constants. *)
LEMMA TypeInit == Init => TypeOK
<1> SUFFICES ASSUME Init PROVE TypeOK
  OBVIOUS
<1>1. NoRow \in Rows
  BY DEF NoRow, Rows, Statuses, NullTime
<1>2. kind \in [Event -> EventKinds]
  BY DispatcherAssumption DEF Init
<1>4. mode \in [Channel -> ReplyModes]
  BY DispatcherAssumption DEF Init
<1>3. 0 \in Nat /\ [i \in Items |-> 0] \in [Items -> Nat]
  OBVIOUS
<1> QED
  BY <1>1, <1>2, <1>3, <1>4 DEF Init, TypeOK, ChannelStates

(* The history of ids that were left unmarked. *)
LEMMA UnmarkedType ==
  ASSUME TypeOK, NEW r \in Request, req[r] \in Requests, Handle(r)
  PROVE  unmarked' \in SUBSET (Key \cup {NoKey})
<1>1. KeyR(r) \in Key \cup {NoKey}
  BY DispatcherAssumption DEF KeyR, Requests
<1>2. unmarked' \in {unmarked, unmarked \ {KeyR(r)}, unmarked \cup {KeyR(r)}}
  BY DEF Handle, Claim, Parse, SyncAnswer, SyncFormatError, SyncAgentError,
         SyncTimeout, Escapes, StartBackground, AgentReturns, SkipSend, SendOK,
         SendRetry, SendFails, Strand
<1> QED BY <1>1, <1>2 DEF TypeOK

LEMMA TypeHandle ==
  ASSUME TypeOK, NEW r \in Request, Handle(r)
  PROVE  TypeOK'
<1>0. ReqOK
  BY DEF TypeOK, ReqOK
<1>1. req[r].pc # "idle"
  BY DEF Handle, Claim, Parse, SyncAnswer, SyncFormatError, SyncAgentError,
         SyncTimeout, Escapes, StartBackground, AgentReturns, SkipSend, ChannelGone,
         SendOK, SendRetry, SendFails, Sending
<1>2. req[r] \in Requests
  BY <1>0, <1>1, Live
<1>3. SUFFICES /\ ReqOK' /\ row' \in [Key -> Rows] /\ inflight' \in Nat
               /\ settled' \in SUBSET Event /\ got' \in [Event -> [Items -> Nat]]
               /\ UNCHANGED <<now, kind, mode, chan, sent>>
  BY <1>2, <1>3, UnmarkedType DEF TypeOK, ReqOK
<1>4. {1, 2} \cap (1 .. Chunks) \subseteq Items /\ 0 \in Items /\ 1 \in Items
  BY DispatcherAssumption DEF Items
<1> USE <1>0, <1>2
<1>5. CASE Claim(r)
  <2> USE <1>5
  <2>1. UNCHANGED <<now, kind, mode, chan, inflight, sent, got>>
    BY DEF Claim
  <2>2. CASE Refuse(r) /\ UNCHANGED row
    BY <2>1, <2>2, EndType DEF Refuse, TypeOK
  <2>3. CASE Proceed(r) /\ UNCHANGED <<row, settled>>
    BY <2>1, <2>3, ProceedType DEF TypeOK
  <2>4. CASE /\ KeyR(r) # NoKey
             /\ row' = [row EXCEPT ![KeyR(r)] = NewRow(now)]
             /\ Proceed(r) /\ UNCHANGED settled
    <3>1. NewRow(now) \in Rows
      BY TTLAssumption DEF NewRow, Rows, Statuses, TypeOK
    <3> QED BY <2>1, <2>4, <3>1, ProceedType DEF TypeOK
  <2>5. CASE /\ KeyR(r) # NoKey
             /\ row' = [row EXCEPT ![KeyR(r)] = ReclaimedRow(row[KeyR(r)], now)]
             /\ Proceed(r) /\ UNCHANGED settled
    <3>1. KeyR(r) \in Key
      BY <2>5, DispatcherAssumption DEF KeyR, Requests
    <3>2. ReclaimedRow(row[KeyR(r)], now) \in Rows
      BY <3>1, TTLAssumption DEF ReclaimedRow, Rows, Statuses, TypeOK
    <3> QED BY <2>1, <2>5, <3>2, ProceedType DEF TypeOK
  <2>6. CASE Ack(r) /\ End(r) /\ UNCHANGED row
    BY <2>1, <2>6, AckType, EndType DEF TypeOK
  <2> QED
    BY <2>2, <2>3, <2>4, <2>5, <2>6 DEF Claim
<1>6. CASE Parse(r)
  <2> USE <1>6
  <2>1. UNCHANGED <<now, kind, mode, chan, sent, got>>
    BY DEF Parse
  <2>3. CASE Mark(r, "done") /\ Ack(r) /\ End(r) /\ UNCHANGED inflight
    BY <2>1, <2>3, EndType, MarkType, AckType DEF Statuses, TypeOK
  <2>4. CASE Mark(r, "done") /\ Ack(r) /\ StartSending(r, "canned", 1) /\ UNCHANGED inflight
    BY <1>4, <2>1, <2>4, StartType, MarkType, AckType DEF Statuses, TypeOK, PC, Sending
  <2>5. CASE Mark(r, "failed") /\ Refuse(r) /\ UNCHANGED inflight
    BY <2>1, <2>5, EndType, MarkType DEF Statuses, TypeOK, Refuse
  <2>6. CASE Goto(r, "sync") /\ UNCHANGED <<row, inflight, settled>>
    BY <2>1, <2>6, GotoType DEF TypeOK, PC, Unanswered
  <2>7. CASE EnterBackground(r)
    BY <2>1, <2>7, EnterType DEF TypeOK
  <2> QED
    BY <2>3, <2>4, <2>5, <2>6, <2>7 DEF Parse
<1>7. CASE SyncAnswer(r)
  <2>1. row' \in [Key -> Rows] /\ UNCHANGED <<now, kind, mode, chan, inflight, sent>>
    BY <1>7, MarkType DEF SyncAnswer, Statuses, TypeOK
  <2>2. settled' \in SUBSET Event /\ got' \in [Event -> [Items -> Nat]]
    BY <1>4, <1>7, ReplyType DEF SyncAnswer, TypeOK
  <2>3. ReqOK'
    <3>1. CASE Chunks > 1 /\ StartSending(r, "extra", 2)
      BY <3>1, StartType, DispatcherAssumption DEF Items, PC, Sending
    <3>2. CASE End(r)
      BY <3>2, EndType
    <3> QED BY <1>7, <3>1, <3>2 DEF SyncAnswer
  <2> QED BY <2>1, <2>2, <2>3 DEF TypeOK
<1>8. CASE SyncFormatError(r)
  BY <1>8, EndType, MarkType DEF SyncFormatError, Refuse, Statuses, TypeOK
<1>9. CASE SyncAgentError(r)
  <2>1. row' \in [Key -> Rows] /\ UNCHANGED <<now, kind, mode, chan, inflight, sent>>
    BY <1>9, MarkType DEF SyncAgentError, Statuses, TypeOK
  <2>2. CASE Reply(r, 0) /\ End(r)
    BY <1>4, <2>1, <2>2, ReplyType, EndType DEF TypeOK
  <2>3. CASE Refuse(r) /\ UNCHANGED got
    BY <2>1, <2>3, EndType DEF Refuse, TypeOK
  <2> QED BY <1>9, <2>2, <2>3 DEF SyncAgentError
<1>10. CASE SyncTimeout(r)
  BY <1>10, EnterType DEF SyncTimeout, TypeOK
<1>17. CASE Escapes(r)
  <2>1. UNCHANGED <<now, row, kind, mode, chan, sent, settled, got>>
    BY <1>17 DEF Escapes
  <2>2. CASE LeaveBackground(r)
    BY <2>1, <2>2, LeaveType DEF TypeOK
  <2>3. CASE End(r) /\ UNCHANGED inflight
    BY <2>1, <2>3, EndType DEF TypeOK
  <2> QED BY <1>17, <2>2, <2>3 DEF Escapes
<1>11. CASE StartBackground(r)
  <2>1. UNCHANGED <<now, row, kind, mode, chan, sent, settled, got>>
    BY <1>11 DEF StartBackground
  <2>2. CASE LeaveBackground(r)
    BY <2>1, <2>2, LeaveType DEF TypeOK
  <2>3. CASE Goto(r, "agent") /\ UNCHANGED inflight
    BY <2>1, <2>3, GotoType DEF TypeOK, PC, Background
  <2> QED BY <1>11, <2>2, <2>3 DEF StartBackground
<1>12. CASE AgentReturns(r)
  <2>1. UNCHANGED <<now, row, kind, mode, chan, inflight, sent, settled, got>>
    BY <1>12 DEF AgentReturns
  <2>2. CASE StartSending(r, "send", 1)
    BY <1>4, <2>1, <2>2, StartType DEF TypeOK, PC, Sending
  <2>3. CASE StartSending(r, "sorry", 0)
    BY <1>4, <2>1, <2>3, StartType DEF TypeOK, PC, Sending
  <2> QED BY <1>12, <2>2, <2>3 DEF AgentReturns
<1>13. CASE SkipSend(r)
  BY <1>13, AfterSendType DEF SkipSend, TypeOK
<1>14. CASE SendOK(r)
  BY <1>14, AfterSendType, ReceivesType DEF SendOK, TypeOK
<1>15. CASE SendRetry(r)
  <2>1. [req[r] EXCEPT !.try = @ + 1] \in Requests
    BY <1>15, DispatcherAssumption DEF SendRetry, Requests
  <2>2. ReqOK'
    BY <1>15, <2>1 DEF SendRetry, ReqOK
  <2> QED BY <1>15, <2>2, ReceivesType DEF SendRetry, TypeOK
<1>16. CASE SendFails(r)
  BY <1>16, AfterFailedSendType DEF SendFails, TypeOK
<1> QED
  BY <1>5, <1>6, <1>7, <1>8, <1>9, <1>10, <1>11, <1>12, <1>13, <1>14, <1>15, <1>16,
     <1>17 DEF Handle

LEMMA TypeNext == TypeOK /\ [Next]_vars => TypeOK'
<1> SUFFICES ASSUME TypeOK, [Next]_vars PROVE TypeOK'
  OBVIOUS
<1>1. ASSUME NEW r \in Request, Handle(r) PROVE TypeOK'
  BY <1>1, TypeHandle
<1>2. ASSUME NEW r \in Request, NEW e \in Event, Receive(r, e) PROVE TypeOK'
  <2>1. [pc |-> "verify", ev |-> e, snap |-> chan[ChanOf[e]], at |-> now,
         item |-> 0, try |-> 1] \in Requests
    BY DispatcherAssumption DEF Requests, TypeOK, Items, Unanswered
  <2>2. req' \in [Request -> Requests \cup {Idle}]
    BY <1>2, <2>1 DEF Receive, TypeOK
  <2>3. sent' \in [Event -> Nat]
    BY <1>2 DEF Receive, TypeOK
  <2> QED BY <1>2, <2>2, <2>3 DEF Receive, TypeOK
<1>3. CASE Crash
  <2>1. ASSUME NEW r \in Request, req[r].pc \in Holding PROVE KeyR(r) \in Key \cup {NoKey}
    <3>1. req[r].pc # "idle"
      BY <2>1 DEF Holding, Background
    <3>2. req[r] \in Requests
      BY <3>1, Live DEF TypeOK, ReqOK
    <3> QED BY <3>2, DispatcherAssumption DEF KeyR, Requests
  <2>2. unmarked' \in SUBSET (Key \cup {NoKey})
    BY <1>3, <2>1 DEF Crash, TypeOK
  <2> QED BY <1>3, <2>2 DEF Crash, TypeOK
<1>4. ASSUME NEW c \in Channel, NEW s \in ChannelStates, SetChannel(c, s)
      PROVE  TypeOK'
  BY <1>4 DEF SetChannel, TypeOK
<1>5. CASE Tick
  BY <1>5 DEF Tick, TypeOK
<1>6. CASE UNCHANGED vars
  BY <1>6 DEF vars, TypeOK
<1> QED
  BY <1>1, <1>2, <1>3, <1>4, <1>5, <1>6 DEF Next

(* Rows, requests, counters and what the user received keep their types.     *)
THEOREM TypeCorrect == Spec => []TypeOK
  BY TypeInit, TypeNext, PTL DEF Spec

-----------------------------------------------------------------------------
(* The count of background tasks *)

(* Request r is at p afterwards and nothing happens to the others. *)
Moves(r, p) == req'[r].pc = p /\ \A s \in Request \ {r} : req'[s] = req[s]

LEMMA GotoMoves ==
  ASSUME ReqOK, NEW r \in Request, req[r] \in Requests, NEW p, Goto(r, p)
  PROVE  Moves(r, p) /\ req'[r] = [req[r] EXCEPT !.pc = p]
BY DEF ReqOK, Goto, Requests, Moves

LEMMA EndMoves ==
  ASSUME ReqOK, NEW r \in Request, End(r)
  PROVE  Moves(r, "idle") /\ req'[r] = Idle
BY DEF ReqOK, End, Idle, Moves

LEMMA StartMoves ==
  ASSUME ReqOK, NEW r \in Request, req[r] \in Requests, NEW p, NEW i,
         StartSending(r, p, i)
  PROVE  /\ Moves(r, p)
         /\ req'[r].pc = p /\ req'[r].ev = req[r].ev /\ req'[r].at = req[r].at
         /\ req'[r].item = i
<1>1. /\ req'[r] = [req[r] EXCEPT !.pc = p, !.item = i, !.try = 1]
      /\ \A s \in Request \ {r} : req'[s] = req[s]
  BY DEF ReqOK, StartSending
<1> DEFINE q == [req[r] EXCEPT !.pc = p, !.item = i, !.try = 1]
<1>2. q.pc = p /\ q.ev = req[r].ev /\ q.at = req[r].at /\ q.item = i
  BY DEF Requests
<1> QED BY <1>1, <1>2 DEF Moves

LEMMA ProceedMoves ==
  ASSUME ReqOK, NEW r \in Request, req[r] \in Requests, Proceed(r)
  PROVE  Moves(r, "parse")
BY DEF ReqOK, Proceed, Requests, Moves

LEMMA CountedFinite == IsFiniteSet(Counted)
  BY FS_Subset, DispatcherAssumption DEF Counted

LEMMA CountSame ==
  ASSUME InflightExact, NEW r \in Request, NEW p, Moves(r, p),
         p \in Background <=> req[r].pc \in Background, UNCHANGED inflight
  PROVE  InflightExact'
<1>1. Counted' = Counted
  BY DEF Counted, Moves
<1> QED BY <1>1 DEF InflightExact

LEMMA CountEnter ==
  ASSUME InflightExact, NEW r \in Request, NEW p \in Background, Moves(r, p),
         req[r].pc \notin Background, inflight \in Nat,
         inflight < MaxInflight, inflight' = inflight + 1
  PROVE  InflightExact'
<1>1. Counted' = Counted \cup {r} /\ r \notin Counted
  BY DEF Counted, Moves
<1>2. Cardinality(Counted \cup {r}) = Cardinality(Counted) + 1
  BY <1>1, CountedFinite, FS_AddElement
<1>3. Cardinality(Counted') = Cardinality(Counted) + 1
  BY <1>1, <1>2
<1>4. inflight' <= MaxInflight
  BY DispatcherAssumption
<1> QED BY <1>3, <1>4 DEF InflightExact

LEMMA CountLeave ==
  ASSUME InflightExact, NEW r \in Request, ReqOK, req[r].pc \in Background,
         inflight \in Nat, LeaveBackground(r)
  PROVE  InflightExact'
<1>1. Counted' = Counted \ {r} /\ r \in Counted
  BY EndMoves DEF Counted, Moves, LeaveBackground, Background
<1>2. Cardinality(Counted \ {r}) = Cardinality(Counted) - 1
  BY <1>1, CountedFinite, FS_RemoveElement
<1>3. Cardinality(Counted') = Cardinality(Counted) - 1
  BY <1>1, <1>2
<1>4. inflight = Cardinality(Counted) /\ Cardinality(Counted') \in Nat
  <2>1. IsFiniteSet(Counted')
    BY <1>1, CountedFinite, FS_Subset
  <2> QED BY <2>1, FS_CardinalityType DEF InflightExact
<1>5. inflight > 0 /\ inflight' = inflight - 1
  BY <1>3, <1>4 DEF LeaveBackground
<1>6. inflight' <= MaxInflight
  BY <1>5, DispatcherAssumption DEF InflightExact
<1> QED BY <1>3, <1>4, <1>5, <1>6 DEF InflightExact

LEMMA CountEnterBackground ==
  ASSUME TypeOK, InflightExact, NEW r \in Request, req[r] \in Requests,
         req[r].pc \notin Background, EnterBackground(r)
  PROVE  InflightExact'
<1>0. ReqOK /\ inflight \in Nat BY DEF TypeOK, ReqOK
<1>1. CASE Refuse(r) /\ UNCHANGED inflight
  BY <1>0, <1>1, EndMoves, CountSame DEF Refuse, Background
<1>2. CASE inflight < MaxInflight /\ inflight' = inflight + 1 /\ Goto(r, "queued")
  BY <1>0, <1>2, GotoMoves, CountEnter DEF Background
<1> QED BY <1>1, <1>2 DEF EnterBackground

LEMMA CountAfterSend ==
  ASSUME TypeOK, InflightExact, NEW r \in Request, req[r] \in Requests, AfterSend(r)
  PROVE  InflightExact'
<1>0. ReqOK /\ inflight \in Nat BY DEF TypeOK, ReqOK
<1>1. CASE StartSending(r, req[r].pc, req[r].item + 1) /\ UNCHANGED inflight
  <2>1. Moves(r, req[r].pc)
    BY <1>0, <1>1, StartMoves
  <2> QED BY <1>1, <2>1, CountSame
<1>2. CASE req[r].pc \in {"send", "sorry"} /\ LeaveBackground(r)
  BY <1>0, <1>2, CountLeave DEF Background
<1>3. CASE req[r].pc \in {"canned", "extra"} /\ End(r) /\ UNCHANGED inflight
  BY <1>0, <1>3, EndMoves, CountSame DEF Background
<1> QED BY <1>1, <1>2, <1>3 DEF AfterSend

LEMMA CountHandle ==
  ASSUME TypeOK, InflightExact, NEW r \in Request, Handle(r)
  PROVE  InflightExact'
<1>0. ReqOK /\ inflight \in Nat
  BY DEF TypeOK, ReqOK
<1>1. req[r].pc # "idle"
  BY DEF Handle, Claim, Parse, SyncAnswer, SyncFormatError, SyncAgentError,
         SyncTimeout, Escapes, StartBackground, AgentReturns, SkipSend, ChannelGone,
         SendOK, SendRetry, SendFails, Sending
<1>2. req[r] \in Requests
  BY <1>0, <1>1, Live
<1> USE <1>0, <1>2
<1>3. ASSUME req[r].pc \notin Background, End(r), UNCHANGED inflight PROVE InflightExact'
  BY <1>3, EndMoves, CountSame DEF Background
<1>4. CASE Claim(r)
  <2>1. req[r].pc \notin Background /\ UNCHANGED inflight
    BY <1>4 DEF Claim, Background
  <2>2. CASE Proceed(r)
    BY <2>1, <2>2, ProceedMoves, CountSame DEF Background
  <2>3. CASE End(r)
    BY <1>3, <2>1, <2>3
  <2> QED BY <1>4, <2>2, <2>3 DEF Claim, Refuse
<1>5. CASE Parse(r)
  <2>1. req[r].pc \notin Background
    BY <1>5 DEF Parse, Background
  <2>2. CASE End(r) /\ UNCHANGED inflight
    BY <1>3, <2>1, <2>2
  <2>3. CASE StartSending(r, "canned", 1) /\ UNCHANGED inflight
    <3>1. Moves(r, "canned")
      BY <2>3, StartMoves
    <3> QED BY <2>1, <2>3, <3>1, CountSame DEF Background
  <2>4. CASE Goto(r, "sync") /\ UNCHANGED inflight
    BY <2>1, <2>4, GotoMoves, CountSame DEF Background
  <2>5. CASE EnterBackground(r)
    BY <2>1, <2>5, CountEnterBackground
  <2> QED BY <1>5, <2>2, <2>3, <2>4, <2>5 DEF Parse, Refuse
<1>6. CASE SyncAnswer(r)
  <2>1. req[r].pc \notin Background /\ UNCHANGED inflight
    BY <1>6 DEF SyncAnswer, Background
  <2>2. CASE StartSending(r, "extra", 2)
    <3>1. Moves(r, "extra")
      BY <2>2, StartMoves
    <3> QED BY <2>1, <3>1, CountSame DEF Background
  <2>3. CASE End(r)
    BY <1>3, <2>1, <2>3
  <2> QED BY <1>6, <2>2, <2>3 DEF SyncAnswer
<1>7. CASE SyncFormatError(r) \/ SyncAgentError(r)
  BY <1>3, <1>7 DEF SyncFormatError, SyncAgentError, Refuse, Background
<1>8. CASE SyncTimeout(r)
  <2>1. req[r].pc \notin Background
    BY <1>8 DEF SyncTimeout, Background
  <2> QED BY <1>8, <2>1, CountEnterBackground DEF SyncTimeout
<1>14. CASE Escapes(r)
  <2>1. CASE req[r].pc = "agent" /\ LeaveBackground(r)
    BY <2>1, CountLeave DEF Background
  <2>2. CASE req[r].pc # "agent" /\ End(r) /\ UNCHANGED inflight
    BY <1>3, <1>14, <2>2 DEF Escapes, Background
  <2> QED BY <1>14, <2>1, <2>2 DEF Escapes
<1>9. CASE StartBackground(r)
  <2>1. req[r].pc \in Background
    BY <1>9 DEF StartBackground, Background
  <2>2. CASE Goto(r, "agent") /\ UNCHANGED inflight
    BY <2>1, <2>2, GotoMoves, CountSame DEF Background
  <2> QED BY <1>9, <2>1, <2>2, CountLeave DEF StartBackground
<1>10. CASE AgentReturns(r)
  <2>1. req[r].pc \in Background /\ UNCHANGED inflight
    BY <1>10 DEF AgentReturns, Background
  <2>2. Moves(r, "send") \/ Moves(r, "sorry")
    BY <1>10, StartMoves DEF AgentReturns
  <2> QED BY <2>1, <2>2, CountSame DEF Background
<1>11. CASE SkipSend(r) \/ SendOK(r)
  BY <1>11, CountAfterSend DEF SkipSend, SendOK
<1>12. CASE SendRetry(r)
  <2>1. Moves(r, req[r].pc) /\ UNCHANGED inflight
    BY <1>12 DEF SendRetry, Moves, ReqOK, Requests
  <2> QED BY <2>1, CountSame
<1>13. CASE SendFails(r)
  <2>1. CASE req[r].pc = "send" /\ LeaveBackground(r)
    BY <2>1, CountLeave DEF Background
  <2> QED BY <1>13, <2>1, CountAfterSend DEF SendFails, AfterFailedSend
<1> QED
  BY <1>4, <1>5, <1>6, <1>7, <1>8, <1>9, <1>10, <1>11, <1>12, <1>13, <1>14 DEF Handle

(* _inflight is exactly the number of background tasks, and at most its cap, *)
(* for any number of requests, any cap, and every fault.                     *)
THEOREM CountExact == Spec => []InflightExact
<1>1. Init => InflightExact
  <2> SUFFICES ASSUME Init PROVE InflightExact
    OBVIOUS
  <2>1. Counted = {}
    BY DEF Init, Counted, Idle, Background
  <2> QED BY <2>1, FS_EmptySet, DispatcherAssumption DEF Init, InflightExact
<1>2. TypeOK /\ InflightExact /\ [Next]_vars => InflightExact'
  <2> SUFFICES ASSUME TypeOK, InflightExact, [Next]_vars PROVE InflightExact'
    OBVIOUS
  <2>0. ReqOK
    BY DEF TypeOK, ReqOK
  <2>1. ASSUME NEW r \in Request, Handle(r) PROVE InflightExact'
    BY <2>1, CountHandle
  <2>2. ASSUME NEW r \in Request, NEW e \in Event, Receive(r, e) PROVE InflightExact'
    <3>1. CASE UNCHANGED req
      BY <2>2, <3>1 DEF Receive, InflightExact, Counted
    <3>2. CASE UNCHANGED inflight /\ Moves(r, "verify")
      BY <2>2, <3>2, CountSame DEF Receive, Idle, Background
    <3> QED BY <2>0, <2>2, <3>1, <3>2 DEF Receive, Moves, ReqOK
  <2>3. CASE Crash
    <3>1. Counted' = {}
      BY <2>3 DEF Crash, Counted, Idle, Background
    <3> QED BY <2>3, <3>1, FS_EmptySet, DispatcherAssumption DEF Crash, InflightExact
  <2>4. CASE UNCHANGED <<inflight, req>>
    BY <2>4 DEF InflightExact, Counted
  <2> QED
    BY <2>1, <2>2, <2>3, <2>4 DEF Next, SetChannel, Tick, vars
<1> QED
  BY <1>1, <1>2, TypeCorrect, PTL DEF Spec

-----------------------------------------------------------------------------
(* What "done" promises on an async channel whose events have ids of their   *)
(* own.                                                                      *)

OwnKeys ==
  \A e, f \in Event : KeyOf[e] = KeyOf[f] /\ KeyOf[e] # NoKey => e = f

Has(e, i) == got[e][i] > 0
HasNext(e, i) == got'[e][i] > 0

(* What a request at pc, with event e and item i, has achieved.              *)
Achieved(q) ==
  /\ q.pc \in {"sync", "extra"} => ~ Async(q.ev)
  /\ q.pc \in Background \cup {"sync"} => kind[q.ev] = "message"
  /\ q.pc = "send" => \A j \in 1 .. Chunks : j < q.item => Has(q.ev, j)
  /\ q.pc = "canned" => q.item = 1 /\ kind[q.ev] # "message"
  /\ q.pc = "sorry" => q.item = 0

Progress == \A r \in Request : Achieved(req[r])

(* The user keeps what was received. *)
Keeps == \A e \in Event, i \in Items : Has(e, i) => HasNext(e, i)

(* Request r moves to a state that has achieved what it should; the others   *)
(* stay.                                                                     *)
LEMMA ProgressStep ==
  ASSUME TypeOK, Progress, NEW r \in Request,
         \A s \in Request \ {r} : req'[s] = req[s],
         Achieved(req[r])', Keeps, UNCHANGED <<kind, mode>>
  PROVE  Progress'
<1> SUFFICES ASSUME NEW s \in Request PROVE Achieved(req[s])'
  BY DEF Progress
<1>1. CASE s = r
  BY <1>1
<1>2. CASE s # r
  <2>1. Achieved(req[s]) /\ req'[s] = req[s]
    BY <1>2 DEF Progress
  <2>2. CASE req[s].pc = "send"
    <3>1. req[s] \in Requests
      BY <2>2, Live DEF TypeOK, ReqOK
    <3>2. ASSUME NEW j \in 1 .. Chunks, j < req[s].item PROVE HasNext(req[s].ev, j)
      BY <2>1, <2>2, <3>1, <3>2, DispatcherAssumption DEF Keeps, Achieved, Requests, Items
    <3> QED BY <2>1, <2>2, <3>2 DEF Achieved, Async, Has, HasNext
  <2> QED BY <2>1, <2>2 DEF Achieved, Async
<1> QED BY <1>1, <1>2

(* A row that is marked keeps its status or gets the mark. *)
LEMMA MarkRow ==
  ASSUME row \in [Key -> Rows], NEW r, NEW s \in Statuses, Mark(r, s), NEW k \in Key
  PROVE  \/ row'[k] = row[k]
         \/ k = KeyR(r) /\ row'[k].status = s
BY DEF Mark, Marked, Rows

LEMMA Received ==
  ASSUME TypeOK, NEW r \in Request, req[r] \in Requests, Receives(r)
  PROVE  /\ Keeps /\ HasNext(req[r].ev, req[r].item)
         /\ \A e \in Event, i \in Items :
              ~ (e = req[r].ev /\ i = req[r].item) => got'[e][i] = got[e][i]
<1>1. /\ req[r].ev \in Event /\ req[r].item \in Items
      /\ got \in [Event -> [Items -> Nat]]
  BY DEF TypeOK, Requests
<1>2. got' = [got EXCEPT ![req[r].ev][req[r].item] = @ + 1]
  BY DEF Receives
<1>3. /\ got'[req[r].ev][req[r].item] = got[req[r].ev][req[r].item] + 1
      /\ \A e \in Event, i \in Items :
           ~ (e = req[r].ev /\ i = req[r].item) => got'[e][i] = got[e][i]
  BY <1>1, <1>2
<1> QED BY <1>1, <1>3 DEF Keeps, Has, HasNext

(* An answer in the response adds to what its own event received. *)
LEMMA Replied ==
  ASSUME TypeOK, NEW r \in Request, req[r] \in Requests, NEW i \in Items, Reply(r, i)
  PROVE  Keeps /\ \A e \in Event, j \in Items : e # req[r].ev => got'[e][j] = got[e][j]
<1>1. req[r].ev \in Event /\ got \in [Event -> [Items -> Nat]]
  BY DEF TypeOK, Requests
<1>2. CASE got' = [got EXCEPT ![req[r].ev][i] = @ + 1]
  <2>1. /\ got'[req[r].ev][i] = got[req[r].ev][i] + 1
        /\ \A e \in Event, j \in Items :
             ~ (e = req[r].ev /\ j = i) => got'[e][j] = got[e][j]
    BY <1>1, <1>2
  <2> QED BY <1>1, <2>1 DEF Keeps, Has, HasNext
<1>3. CASE UNCHANGED got
  BY <1>3 DEF Keeps, Has, HasNext
<1> QED BY <1>2, <1>3 DEF Reply

(* An action that gives the user nothing new leaves all there is. *)
LEMMA KeepsAll == ASSUME UNCHANGED got PROVE Keeps
BY DEF Keeps, Has, HasNext

LEMMA ProgressAfterSend ==
  ASSUME TypeOK, Progress, NEW r \in Request, req[r] \in Requests, AfterSend(r),
         req[r].pc = "send" => HasNext(req[r].ev, req[r].item),
         Keeps, UNCHANGED <<kind, mode>>
  PROVE  Progress'
<1>0. ReqOK /\ Achieved(req[r]) BY DEF TypeOK, ReqOK, Progress
<1>1. CASE req[r].pc = "send" /\ StartSending(r, "send", req[r].item + 1)
  <2>1. /\ Moves(r, "send") /\ req'[r].pc = "send"
        /\ req'[r].ev = req[r].ev /\ req'[r].item = req[r].item + 1
    BY <1>0, <1>1, StartMoves
  <2>2. ASSUME NEW j \in 1 .. Chunks, j < req[r].item + 1 PROVE HasNext(req[r].ev, j)
    <3>1. CASE j = req[r].item
      BY <1>1, <3>1
    <3>2. CASE j < req[r].item
      <4>1. Has(req[r].ev, j) /\ j \in Items /\ req[r].ev \in Event
        BY <1>0, <1>1, <3>2, DispatcherAssumption DEF Achieved, Async, Items, Requests
      <4> QED BY <4>1 DEF Keeps
    <3> QED BY <2>2, <3>1, <3>2 DEF Requests, Items
  <2>3. kind[req[r].ev] = "message"
    BY <1>0, <1>1 DEF Achieved, Async, Background
  <2>4. Achieved(req[r])'
    BY <2>1, <2>2, <2>3 DEF Achieved, Async, Has, HasNext
  <2> QED BY <2>1, <2>4, ProgressStep DEF Moves
<1>3. CASE req[r].pc = "extra" /\ StartSending(r, "extra", req[r].item + 1)
  <2>1. /\ Moves(r, "extra") /\ req'[r].pc = "extra"
        /\ req'[r].ev = req[r].ev
    BY <1>0, <1>3, StartMoves
  <2>2. Achieved(req[r])'
    BY <1>0, <1>3, <2>1 DEF Achieved, Async, Background
  <2> QED BY <2>1, <2>2, ProgressStep DEF Moves
<1>2. CASE End(r)
  <2>1. Moves(r, "idle") /\ req'[r] = Idle
    BY <1>0, <1>2, EndMoves
  <2>2. Achieved(req[r])'
    BY <2>1 DEF Achieved, Async, Idle, Background
  <2> QED BY <2>1, <2>2, ProgressStep DEF Moves
<1> QED BY <1>1, <1>2, <1>3 DEF AfterSend, LeaveBackground

LEMMA ProgressEnd ==
  ASSUME TypeOK, Progress, NEW r \in Request, End(r), Keeps, UNCHANGED <<kind, mode>>
  PROVE  Progress'
<1>1. Moves(r, "idle") /\ req'[r] = Idle
  BY EndMoves DEF TypeOK, ReqOK
<1>2. Achieved(req[r])'
  BY <1>1 DEF Achieved, Async, Idle, Background
<1> QED BY <1>1, <1>2, ProgressStep DEF Moves

LEMMA ProgressEnter ==
  ASSUME TypeOK, Progress, NEW r \in Request, req[r] \in Requests,
         kind[req[r].ev] = "message", EnterBackground(r), Keeps, UNCHANGED <<kind, mode>>
  PROVE  Progress'
<1>1. CASE Goto(r, "queued")
  <2>1. Moves(r, "queued") /\ req'[r] = [req[r] EXCEPT !.pc = "queued"]
    BY <1>1, GotoMoves DEF TypeOK, ReqOK
  <2>2. Achieved(req[r])'
    BY <2>1 DEF Achieved, Background, Requests
  <2> QED BY <2>1, <2>2, ProgressStep DEF Moves
<1> QED BY <1>1, ProgressEnd DEF EnterBackground, Refuse

LEMMA ProgressHandle ==
  ASSUME TypeOK, Progress, NEW r \in Request, Handle(r)
  PROVE  Progress' /\ Keeps
<1>0. ReqOK /\ Achieved(req[r])
  BY DEF TypeOK, ReqOK, Progress
<1>1. req[r].pc # "idle"
  BY DEF Handle, Claim, Parse, SyncAnswer, SyncFormatError, SyncAgentError,
         SyncTimeout, Escapes, StartBackground, AgentReturns, SkipSend, ChannelGone,
         SendOK, SendRetry, SendFails, Sending
<1>2. req[r] \in Requests
  BY <1>0, <1>1, Live
<1> USE <1>0, <1>2
<1>3. CASE Claim(r)
  <2>1. Keeps /\ UNCHANGED <<kind, mode>>
    BY <1>3, KeepsAll DEF Claim
  <2>2. CASE Proceed(r)
    <3>1. Moves(r, "parse")
      BY <2>2, ProceedMoves
    <3>2. Achieved(req[r])'
      BY <3>1 DEF Achieved, Async, Moves, Background
    <3> QED BY <2>1, <3>1, <3>2, ProgressStep DEF Moves
  <2> QED BY <1>3, <2>1, <2>2, ProgressEnd DEF Claim, Refuse
<1>4. CASE Parse(r)
  <2>1. Keeps /\ UNCHANGED <<kind, mode>>
    BY <1>4, KeepsAll DEF Parse
  <2>2. CASE kind[req[r].ev] = "canned" /\ StartSending(r, "canned", 1)
    <3>1. /\ Moves(r, "canned") /\ req'[r].pc = "canned"
          /\ req'[r].ev = req[r].ev /\ req'[r].item = 1
      BY <2>2, StartMoves
    <3>2. Achieved(req[r])'
      BY <2>1, <2>2, <3>1 DEF Achieved, Async, Background
    <3> QED BY <2>1, <3>1, <3>2, ProgressStep DEF Moves
  <2>3. CASE kind[req[r].ev] = "message" /\ ModeR(r) # "async" /\ Goto(r, "sync")
    <3>1. Moves(r, "sync") /\ req'[r] = [req[r] EXCEPT !.pc = "sync"]
      BY <2>3, GotoMoves
    <3>2. Achieved(req[r])'
      BY <2>1, <2>3, <3>1 DEF Achieved, Async, ModeR, Background, Requests
    <3> QED BY <2>1, <3>1, <3>2, ProgressStep DEF Moves
  <2>4. CASE kind[req[r].ev] = "message" /\ EnterBackground(r)
    BY <2>1, <2>4, ProgressEnter
  <2> QED BY <1>4, <2>1, <2>2, <2>3, <2>4, ProgressEnd DEF Parse, Refuse
<1>11. CASE SyncAnswer(r)
  <2>0. 1 \in Items
    BY DispatcherAssumption DEF Items
  <2>1. Keeps /\ UNCHANGED <<kind, mode>>
    BY <1>11, <2>0, Replied DEF SyncAnswer
  <2>2. CASE StartSending(r, "extra", 2)
    <3>1. /\ Moves(r, "extra") /\ req'[r].pc = "extra"
          /\ req'[r].ev = req[r].ev
      BY <2>2, StartMoves
    <3>2. Achieved(req[r])'
      BY <1>11, <2>1, <3>1 DEF SyncAnswer, Achieved, Async, Background
    <3> QED BY <2>1, <3>1, <3>2, ProgressStep DEF Moves
  <2> QED BY <1>11, <2>1, <2>2, ProgressEnd DEF SyncAnswer
<1>12. CASE SyncFormatError(r) \/ SyncAgentError(r)
  <2>0. 0 \in Items
    BY DispatcherAssumption DEF Items
  <2>1. Keeps /\ UNCHANGED <<kind, mode>>
    BY <1>12, <2>0, Replied, KeepsAll DEF SyncFormatError, SyncAgentError
  <2> QED BY <1>12, <2>1, ProgressEnd DEF SyncFormatError, SyncAgentError, Refuse
<1>13. CASE SyncTimeout(r)
  <2>1. Keeps /\ UNCHANGED <<kind, mode>> /\ kind[req[r].ev] = "message"
    BY <1>13, KeepsAll DEF SyncTimeout, Achieved
  <2> QED BY <1>13, <2>1, ProgressEnter DEF SyncTimeout
<1>14. CASE Escapes(r)
  <2>1. Keeps /\ UNCHANGED <<kind, mode>> /\ End(r)
    BY <1>14, KeepsAll DEF Escapes, LeaveBackground
  <2> QED BY <2>1, ProgressEnd
<1>5. CASE StartBackground(r)
  <2>1. Keeps /\ UNCHANGED <<kind, mode>>
    BY <1>5, KeepsAll DEF StartBackground
  <2>2. CASE Goto(r, "agent")
    <3>1. Moves(r, "agent") /\ req'[r] = [req[r] EXCEPT !.pc = "agent"]
      BY <2>2, GotoMoves
    <3>2. Achieved(req[r])'
      BY <1>5, <2>1, <3>1 DEF Achieved, Async, Background, Requests, StartBackground
    <3> QED BY <2>1, <3>1, <3>2, ProgressStep DEF Moves
  <2> QED BY <1>5, <2>1, <2>2, ProgressEnd DEF StartBackground, LeaveBackground
<1>6. CASE AgentReturns(r)
  <2>1. Keeps /\ UNCHANGED <<kind, mode>> /\ kind[req[r].ev] = "message"
    BY <1>6, KeepsAll DEF AgentReturns, Achieved, Background
  <2>2. CASE StartSending(r, "send", 1)
    <3>1. /\ Moves(r, "send") /\ req'[r].pc = "send"
          /\ req'[r].ev = req[r].ev /\ req'[r].item = 1
      BY <2>2, StartMoves
    <3>2. Achieved(req[r])'
      BY <2>1, <3>1 DEF Achieved, Async, Background
    <3> QED BY <2>1, <3>1, <3>2, ProgressStep DEF Moves
  <2>3. CASE StartSending(r, "sorry", 0)
    <3>1. /\ Moves(r, "sorry") /\ req'[r].pc = "sorry"
          /\ req'[r].ev = req[r].ev /\ req'[r].item = 0
      BY <2>3, StartMoves
    <3>2. Achieved(req[r])'
      BY <2>1, <3>1 DEF Achieved, Async, Background
    <3> QED BY <2>1, <3>1, <3>2, ProgressStep DEF Moves
  <2> QED BY <1>6, <2>1, <2>2, <2>3 DEF AgentReturns
<1>7. CASE SkipSend(r)
  <2>1. Keeps /\ UNCHANGED <<kind, mode>> /\ req[r].pc # "send"
    BY <1>7, KeepsAll DEF SkipSend, ChannelGone
  <2> QED BY <1>7, <2>1, ProgressAfterSend DEF SkipSend
<1>8. CASE SendOK(r)
  BY <1>8, Received, ProgressAfterSend DEF SendOK
<1>9. CASE SendRetry(r)
  <2>1. Keeps /\ UNCHANGED <<kind, mode>>
    BY <1>9, KeepsAll, Received DEF SendRetry
  <2>2. req'[r] = [req[r] EXCEPT !.try = @ + 1]
    BY <1>9 DEF SendRetry, ReqOK
  <2>3. /\ \A s \in Request \ {r} : req'[s] = req[s]
        /\ req'[r].pc = req[r].pc /\ req'[r].ev = req[r].ev
        /\ req'[r].item = req[r].item
    BY <1>9, <2>2 DEF SendRetry, ReqOK, Requests
  <2>4. ASSUME req[r].pc = "send", NEW j \in 1 .. Chunks, j < req[r].item
        PROVE  HasNext(req[r].ev, j)
    <3>1. Has(req[r].ev, j) /\ j \in Items /\ req[r].ev \in Event
      BY <2>4, DispatcherAssumption DEF Achieved, Async, Items, Requests
    <3> QED BY <2>1, <3>1 DEF Keeps
  <2>5. Achieved(req[r])'
    BY <2>1, <2>3, <2>4 DEF Achieved, Async, Has, HasNext
  <2> QED BY <2>1, <2>3, <2>5, ProgressStep
<1>10. CASE SendFails(r)
  <2>1. Keeps /\ UNCHANGED <<kind, mode>>
    BY <1>10, KeepsAll DEF SendFails
  <2> QED
    BY <1>10, <2>1, ProgressEnd, ProgressAfterSend
       DEF SendFails, AfterFailedSend, LeaveBackground
<1> QED
  BY <1>3, <1>4, <1>5, <1>6, <1>7, <1>8, <1>9, <1>10, <1>11, <1>12, <1>13, <1>14
     DEF Handle

(* A step that gives the user nothing, or the next item of an answer, leaves *)
(* no gap.                                                                   *)
LEMMA NoGapSame == ASSUME NoGap, UNCHANGED <<got, mode>> PROVE NoGap'
BY DEF NoGap, Async

LEMMA NoGapReceives ==
  ASSUME TypeOK, Progress, NoGap, NEW r \in Request, req[r] \in Requests,
         req[r].pc \in Sending, Receives(r), UNCHANGED mode
  PROVE  NoGap'
<1> SUFFICES ASSUME NEW e \in Event, NEW j \in 2 .. Chunks, Async(e), got'[e][j] > 0
             PROVE  got'[e][j - 1] > 0
  BY DEF NoGap, Async
<1>0. /\ j \in Items /\ j - 1 \in Items /\ j - 1 \in 1 .. Chunks
      /\ req[r].ev \in Event /\ req[r].item \in Items
  BY DispatcherAssumption DEF Items, Requests
<1>1. CASE e = req[r].ev /\ j = req[r].item
  <2>1. req[r].pc = "send"
    BY <1>1 DEF Progress, Achieved, Async, Sending
  <2>2. Has(e, j - 1)
    BY <1>0, <1>1, <2>1 DEF Progress, Achieved
  <2> QED BY <1>0, <2>2, Received DEF Keeps, HasNext
<1>2. CASE ~ (e = req[r].ev /\ j = req[r].item)
  <2>1. got[e][j] > 0
    BY <1>0, <1>2, Received
  <2>2. Has(e, j - 1)
    BY <2>1 DEF NoGap, Has
  <2> QED BY <1>0, <2>2, Received DEF Keeps, HasNext
<1> QED BY <1>1, <1>2

LEMMA NoGapReplied ==
  ASSUME TypeOK, NoGap, NEW r \in Request, req[r] \in Requests, NEW i \in Items,
         Reply(r, i), ~ Async(req[r].ev), UNCHANGED mode
  PROVE  NoGap'
<1> SUFFICES ASSUME NEW e \in Event, NEW j \in 2 .. Chunks, Async(e), got'[e][j] > 0
             PROVE  got'[e][j - 1] > 0
  BY DEF NoGap, Async
<1>1. j \in Items /\ j - 1 \in Items /\ e # req[r].ev
  BY DispatcherAssumption DEF Items
<1>2. got'[e][j] = got[e][j] /\ got'[e][j - 1] = got[e][j - 1]
  BY <1>1, Replied
<1> QED BY <1>2 DEF NoGap

(* DoneMeansDelivered survives a step that marks no message done without     *)
(* all of its answer.                                                        *)
LEMMA DoneStep ==
  ASSUME DoneMeansDelivered, Keeps, UNCHANGED <<kind, mode>>,
         ASSUME NEW e \in Event, Async(e), kind[e] = "message", KeyOf[e] # NoKey,
                row'[KeyOf[e]].status = "done"
         PROVE  \/ row[KeyOf[e]].status = "done"
                \/ \A i \in 1 .. Chunks : HasNext(e, i)
  PROVE  DoneMeansDelivered'
<1> SUFFICES ASSUME NEW e \in Event, Async(e), kind[e] = "message", KeyOf[e] # NoKey,
                    row'[KeyOf[e]].status = "done", NEW i \in 1 .. Chunks
             PROVE  got'[e][i] > 0
  BY DEF DoneMeansDelivered, Async
<1>1. row[KeyOf[e]].status = "done" \/ \A j \in 1 .. Chunks : HasNext(e, j)
  OBVIOUS
<1>2. CASE row[KeyOf[e]].status = "done"
  <2>1. Has(e, i) /\ i \in Items
    BY <1>2, DispatcherAssumption DEF DoneMeansDelivered, Has, Items
  <2> QED BY <2>1 DEF Keeps, HasNext
<1> QED BY <1>1, <1>2 DEF HasNext

LEMMA DoneSame ==
  ASSUME DoneMeansDelivered, Keeps, UNCHANGED <<kind, mode, row>>
  PROVE  DoneMeansDelivered'
BY DoneStep

(* Marking r's row with anything but "done" is harmless, and so is "done"    *)
(* when its event is no message or was delivered.                            *)
LEMMA DoneMark ==
  ASSUME OwnKeys, TypeOK, DoneMeansDelivered, Keeps, UNCHANGED <<kind, mode>>,
         NEW r \in Request, req[r] \in Requests, NEW s \in Statuses, Mark(r, s),
         s = "done" => \/ kind[req[r].ev] # "message" \/ ~ Async(req[r].ev)
                       \/ \A i \in 1 .. Chunks : HasNext(req[r].ev, i)
  PROVE  DoneMeansDelivered'
<1>1. ASSUME NEW e \in Event, Async(e), kind[e] = "message", KeyOf[e] # NoKey,
             row'[KeyOf[e]].status = "done"
      PROVE  \/ row[KeyOf[e]].status = "done"
             \/ \A i \in 1 .. Chunks : HasNext(e, i)
  <2>1. KeyOf[e] \in Key /\ req[r].ev \in Event
    BY <1>1, DispatcherAssumption DEF Requests
  <2>2. \/ row'[KeyOf[e]] = row[KeyOf[e]]
        \/ KeyOf[e] = KeyOf[req[r].ev] /\ row'[KeyOf[e]].status = s
    BY <2>1, MarkRow DEF TypeOK, KeyR
  <2>3. CASE KeyOf[e] = KeyOf[req[r].ev] /\ s = "done"
    <3>1. e = req[r].ev
      BY <1>1, <2>1, <2>3 DEF OwnKeys
    <3> QED BY <1>1, <2>3, <3>1
  <2> QED BY <1>1, <2>2, <2>3
<1> QED BY <1>1, DoneStep

LEMMA DoneAfterSend ==
  ASSUME OwnKeys, TypeOK, DoneMeansDelivered, Progress, Keeps, UNCHANGED <<kind, mode>>,
         NEW r \in Request, req[r] \in Requests, AfterSend(r),
         req[r].pc = "send" => HasNext(req[r].ev, req[r].item)
  PROVE  DoneMeansDelivered'
<1>1. CASE UNCHANGED row
  BY <1>1, DoneSame
<1>2. CASE req[r].pc = "send" /\ req[r].item = Chunks /\ Mark(r, "done")
  <2>1. ASSUME NEW i \in 1 .. Chunks PROVE HasNext(req[r].ev, i)
    <3>1. CASE i = Chunks
      BY <1>2, <3>1
    <3>2. CASE i < Chunks
      <4>1. Has(req[r].ev, i) /\ i \in Items /\ req[r].ev \in Event
        BY <1>2, <3>2, DispatcherAssumption DEF Progress, Achieved, Async, Items, Requests
      <4> QED BY <4>1 DEF Keeps
    <3> QED BY <3>1, <3>2, DispatcherAssumption
  <2> QED BY <1>2, <2>1, DoneMark DEF Statuses
<1>3. CASE Mark(r, "failed")
  BY <1>3, DoneMark DEF Statuses
<1> QED BY <1>1, <1>2, <1>3 DEF AfterSend

LEMMA DoneHandle ==
  ASSUME OwnKeys, TypeOK, Progress, NoGap, DoneMeansDelivered,
         NEW r \in Request, Handle(r)
  PROVE  NoGap' /\ DoneMeansDelivered'
<1>0. ReqOK /\ Achieved(req[r])
  BY DEF TypeOK, ReqOK, Progress
<1>1. req[r].pc # "idle"
  BY DEF Handle, Claim, Parse, SyncAnswer, SyncFormatError, SyncAgentError,
         SyncTimeout, Escapes, StartBackground, AgentReturns, SkipSend, ChannelGone,
         SendOK, SendRetry, SendFails, Sending
<1>2. req[r] \in Requests
  BY <1>0, <1>1, Live
<1>3. Keeps
  BY ProgressHandle
<1> USE <1>0, <1>2, <1>3
<1>4. CASE Claim(r)
  <2>1. UNCHANGED <<kind, mode, got>>
    BY <1>4 DEF Claim
  <2>2. ASSUME NEW k \in Key, row'[k].status = "done" PROVE row[k].status = "done"
    BY <1>4, <2>2 DEF Claim, NewRow, ReclaimedRow, TypeOK
  <2>3. ASSUME NEW e \in Event, KeyOf[e] # NoKey, row'[KeyOf[e]].status = "done"
        PROVE  row[KeyOf[e]].status = "done"
    BY <2>2, <2>3, DispatcherAssumption
  <2> QED BY <2>1, <2>3, DoneStep, NoGapSame
<1>5. CASE Parse(r)
  <2>1. UNCHANGED <<kind, mode, got>>
    BY <1>5 DEF Parse
  <2>2. CASE UNCHANGED row
    BY <2>1, <2>2, DoneSame, NoGapSame
  <2>3. CASE kind[req[r].ev] # "message" /\ Mark(r, "done")
    BY <2>1, <2>3, DoneMark, NoGapSame DEF Statuses
  <2>4. CASE Mark(r, "failed")
    BY <2>1, <2>4, DoneMark, NoGapSame DEF Statuses
  <2> QED BY <1>5, <2>2, <2>3, <2>4 DEF Parse, EnterBackground
<1>6. CASE StartBackground(r) \/ AgentReturns(r) \/ Escapes(r)
  BY <1>6, DoneSame, NoGapSame DEF StartBackground, AgentReturns, Escapes
<1>7. CASE SkipSend(r)
  <2>1. UNCHANGED <<kind, mode, got>> /\ req[r].pc # "send"
    BY <1>7 DEF SkipSend, ChannelGone
  <2> QED BY <1>7, <2>1, DoneAfterSend, NoGapSame DEF SkipSend
<1>8. CASE SendOK(r)
  BY <1>8, Received, DoneAfterSend, NoGapReceives DEF SendOK
<1>9. CASE SendRetry(r)
  BY <1>9, DoneSame, NoGapSame, NoGapReceives DEF SendRetry
<1>10. CASE SendFails(r)
  <2>1. UNCHANGED <<kind, mode, got>>
    BY <1>10 DEF SendFails
  <2>2. CASE Mark(r, "failed")
    BY <2>1, <2>2, DoneMark, NoGapSame DEF Statuses
  <2>3. CASE req[r].pc # "send" /\ AfterSend(r)
    BY <2>1, <2>3, DoneAfterSend, NoGapSame
  <2> QED BY <1>10, <2>2, <2>3 DEF SendFails, AfterFailedSend
<1>11. CASE SyncAnswer(r)
  <2>1. UNCHANGED <<kind, mode>> /\ Mark(r, "done") /\ Reply(r, 1) /\ ~ Async(req[r].ev)
    BY <1>11 DEF SyncAnswer, Achieved
  <2>2. 1 \in Items
    BY DispatcherAssumption DEF Items
  <2> QED BY <2>1, <2>2, DoneMark, NoGapReplied DEF Statuses
<1>12. CASE SyncFormatError(r) \/ SyncAgentError(r)
  <2>1. UNCHANGED <<kind, mode>> /\ Mark(r, "failed") /\ ~ Async(req[r].ev)
    BY <1>12 DEF SyncFormatError, SyncAgentError, Achieved
  <2>2. 0 \in Items
    BY DispatcherAssumption DEF Items
  <2>3. UNCHANGED got \/ Reply(r, 0)
    BY <1>12 DEF SyncFormatError, SyncAgentError
  <2> QED BY <2>1, <2>2, <2>3, DoneMark, NoGapReplied, NoGapSame DEF Statuses
<1>13. CASE SyncTimeout(r)
  <2>1. UNCHANGED <<kind, mode, got>>
    BY <1>13 DEF SyncTimeout
  <2>2. CASE UNCHANGED row
    BY <2>1, <2>2, DoneSame, NoGapSame
  <2>3. CASE Mark(r, "failed")
    BY <2>1, <2>3, DoneMark, NoGapSame DEF Statuses
  <2> QED BY <1>13, <2>2, <2>3 DEF SyncTimeout, EnterBackground
<1> QED
  BY <1>4, <1>5, <1>6, <1>7, <1>8, <1>9, <1>10, <1>11, <1>12, <1>13 DEF Handle

(* If events have ids of their own, done means on an async channel that the  *)
(* whole answer was delivered, and the user never sees a gap in it, under    *)
(* crashes, lost acks, failing sends and any number of redeliveries.         *)
THEOREM Delivered ==
  ASSUME OwnKeys
  PROVE  Spec => [](DoneMeansDelivered /\ NoGap)
<1> DEFINE Inv == Progress /\ NoGap /\ DoneMeansDelivered
<1>1. Init => Inv
  <2> SUFFICES ASSUME Init PROVE Inv
    OBVIOUS
  <2>1. Progress
    BY DEF Init, Progress, Achieved, Async, Idle, Background
  <2>2. NoGap
    <3>1. \A j \in 2 .. Chunks : j \in Items
      BY DispatcherAssumption DEF Items
    <3> QED BY <3>1 DEF Init, NoGap
  <2>3. DoneMeansDelivered
    BY DispatcherAssumption DEF Init, DoneMeansDelivered, NoRow
  <2> QED BY <2>1, <2>2, <2>3
<1>2. TypeOK /\ Inv /\ [Next]_vars => Inv'
  <2> SUFFICES ASSUME TypeOK, Progress, NoGap, DoneMeansDelivered, [Next]_vars
               PROVE  Inv'
    OBVIOUS
  <2>1. ASSUME NEW r \in Request, Handle(r) PROVE Inv'
    BY <2>1, ProgressHandle, DoneHandle
  <2>2. ASSUME UNCHANGED <<kind, mode, row, got>>, UNCHANGED req PROVE Inv'
    <3>1. Progress'
      BY <2>2 DEF Progress, Achieved, Async, Has
    <3> QED BY <2>2, <3>1, KeepsAll, DoneSame, NoGapSame
  <2>3. ASSUME NEW r \in Request, NEW e \in Event, Receive(r, e) PROVE Inv'
    <3>1. UNCHANGED <<kind, mode, row, got>>
      BY <2>3 DEF Receive
    <3>2. CASE UNCHANGED req
      BY <2>2, <3>1, <3>2
    <3>3. CASE req' = [req EXCEPT ![r] =
                         [pc |-> "verify", ev |-> e, snap |-> chan[ChanOf[e]],
                          at |-> now, item |-> 0, try |-> 1]]
      <4>1. req'[r].pc = "verify" /\ \A s \in Request \ {r} : req'[s] = req[s]
        BY <3>3 DEF TypeOK
      <4>2. Achieved(req[r])'
        BY <4>1 DEF Achieved, Async, Background
      <4> QED BY <3>1, <4>1, <4>2, KeepsAll, ProgressStep, DoneSame, NoGapSame
    <3> QED BY <2>3, <3>2, <3>3 DEF Receive
  <2>4. CASE Crash
    <3>1. UNCHANGED <<kind, mode, row, got>> /\ req' = [r \in Request |-> Idle]
      BY <2>4 DEF Crash
    <3>2. Progress'
      BY <3>1 DEF Progress, Achieved, Async, Idle, Background
    <3> QED BY <3>1, <3>2, KeepsAll, DoneSame, NoGapSame
  <2>5. CASE UNCHANGED <<kind, mode, row, got, req>>
    BY <2>2, <2>5
  <2> QED
    BY <2>1, <2>3, <2>4, <2>5 DEF Next, SetChannel, Tick, vars
<1>3. Inv => DoneMeansDelivered /\ NoGap
  OBVIOUS
<1> QED
  BY <1>1, <1>2, <1>3, TypeCorrect, PTL DEF Spec

(* Under the same assumption the user sees no part of an answer without the  *)
(* parts before it.                                                          *)
THEOREM GapFree == ASSUME OwnKeys PROVE Spec => []NoGap
  BY Delivered, PTL

-----------------------------------------------------------------------------
(* Leases have a holder, or were left on a path that marks nothing. *)

(* What r does to the table frees its own key and claims none. *)
Frees(r) ==
  \A k \in Key : row'[k].status = "processing" => row[k].status = "processing" /\ k # KeyR(r)

Alone(r) == \A s \in Request \ {r} : req'[s] = req[s]

LEMMA MarkFrees ==
  ASSUME TypeOK, NEW r \in Request, NEW s \in {"done", "failed"}, Mark(r, s)
  PROVE  Frees(r)
<1>1. CASE KeyR(r) = NoKey
  BY <1>1, DispatcherAssumption DEF Mark, Frees
<1>2. CASE KeyR(r) # NoKey
  <2>1. row' = [row EXCEPT ![KeyR(r)] = Marked(row[KeyR(r)], s)]
    BY <1>2 DEF Mark
  <2>2. \A old \in Rows : Marked(old, s).status # "processing"
    BY DEF Marked, Rows, NullTime
  <2> QED BY <2>1, <2>2 DEF TypeOK, Frees
<1> QED BY <1>1, <1>2

LEMMA OrphanFrees ==
  ASSUME NoOrphanLease, NEW r \in Request, Alone(r), Frees(r), UNCHANGED unmarked
  PROVE  NoOrphanLease'
<1> SUFFICES ASSUME NEW k \in Key, row'[k].status = "processing", k \notin unmarked'
             PROVE  \E s \in Request : Works(s, k)'
  BY DEF NoOrphanLease
<1>1. row[k].status = "processing" /\ k # KeyR(r)
  BY DEF Frees
<1>2. PICK s \in Request : Works(s, k)
  BY <1>1 DEF NoOrphanLease
<1>3. s # r /\ req'[s] = req[s]
  BY <1>1, <1>2 DEF Works, Alone
<1> QED BY <1>2, <1>3 DEF Works, KeyR

(* A request that keeps the table keeps its lease, or had none. *)
LEMMA OrphanKeeps ==
  ASSUME NoOrphanLease, NEW r \in Request, Alone(r), UNCHANGED row,
         unmarked \subseteq unmarked',
         req[r].pc \in Holding => req'[r].pc \in Holding /\ req'[r].ev = req[r].ev
  PROVE  NoOrphanLease'
<1> SUFFICES ASSUME NEW k \in Key, row'[k].status = "processing", k \notin unmarked'
             PROVE  \E s \in Request : Works(s, k)'
  BY DEF NoOrphanLease
<1>1. PICK s \in Request : Works(s, k)
  BY DEF NoOrphanLease
<1>2. CASE s = r
  BY <1>1, <1>2 DEF Works, KeyR
<1>3. CASE s # r
  BY <1>1, <1>3 DEF Works, KeyR, Alone
<1> QED BY <1>2, <1>3

LEMMA OrphanClaims ==
  ASSUME TypeOK, NoOrphanLease, NEW r \in Request, req[r] \in Requests, req[r].pc = "verify",
         Proceed(r), \A k \in Key : k # KeyR(r) => row'[k] = row[k],
         unmarked \ {KeyR(r)} \subseteq unmarked'
  PROVE  NoOrphanLease'
<1>1. req'[r].pc = "parse" /\ req'[r].ev = req[r].ev /\ Alone(r)
  BY DEF TypeOK, Requests, Proceed, Alone
<1> SUFFICES ASSUME NEW k \in Key, row'[k].status = "processing", k \notin unmarked'
             PROVE  \E s \in Request : Works(s, k)'
  BY DEF NoOrphanLease
<1>2. CASE k = KeyR(r)
  BY <1>1, <1>2 DEF Works, KeyR, Holding
<1>3. CASE k # KeyR(r)
  <2>1. PICK s \in Request : Works(s, k)
    BY <1>3 DEF NoOrphanLease
  <2>2. s # r
    BY <1>3, <2>1 DEF Works
  <2> QED BY <1>1, <2>1, <2>2 DEF Works, KeyR, Alone
<1> QED BY <1>2, <1>3

LEMMA OrphanSame == ASSUME NoOrphanLease, UNCHANGED <<row, req, unmarked>> PROVE NoOrphanLease'
<1> SUFFICES ASSUME NEW k \in Key, row'[k].status = "processing", k \notin unmarked'
             PROVE  \E s \in Request : Works(s, k)'
  BY DEF NoOrphanLease
<1>1. PICK s \in Request : Works(s, k)
  BY DEF NoOrphanLease
<1> QED BY <1>1 DEF Works, KeyR

LEMMA EndAlone == ASSUME ReqOK, NEW r \in Request, End(r) PROVE Alone(r)
BY EndMoves DEF Moves, Alone

LEMMA OrphanMarks ==
  ASSUME TypeOK, NoOrphanLease, NEW r \in Request, Alone(r), NEW s \in {"done", "failed"}, Mark(r, s),
         UNCHANGED unmarked
  PROVE  NoOrphanLease'
BY MarkFrees, OrphanFrees

LEMMA OrphanEnters ==
  ASSUME TypeOK, NoOrphanLease, NEW r \in Request, req[r] \in Requests, EnterBackground(r),
         UNCHANGED unmarked
  PROVE  NoOrphanLease'
<1>0. ReqOK
  BY DEF TypeOK, ReqOK
<1>1. CASE Mark(r, "failed") /\ Refuse(r)
  BY <1>0, <1>1, EndAlone, OrphanMarks DEF Refuse
<1>2. CASE Goto(r, "queued") /\ UNCHANGED row
  <2>1. Moves(r, "queued") /\ req'[r] = [req[r] EXCEPT !.pc = "queued"]
    BY <1>0, <1>2, GotoMoves
  <2>2. req'[r].pc = "queued" /\ req'[r].ev = req[r].ev
    BY <2>1 DEF Requests
  <2> QED BY <1>2, <2>1, <2>2, OrphanKeeps DEF Moves, Alone, Holding, Background
<1> QED BY <1>1, <1>2 DEF EnterBackground

LEMMA OrphanStarts ==
  ASSUME TypeOK, NoOrphanLease, NEW r \in Request, req[r] \in Requests, UNCHANGED <<row, unmarked>>,
         NEW p, NEW i, StartSending(r, p, i), req[r].pc \in Holding => p \in Holding
  PROVE  NoOrphanLease'
<1>1. Moves(r, p) /\ req'[r].ev = req[r].ev
  BY StartMoves DEF TypeOK, ReqOK
<1> QED BY <1>1, OrphanKeeps DEF Moves, Alone

LEMMA OrphanAfterSend ==
  ASSUME TypeOK, NoOrphanLease, NEW r \in Request, req[r] \in Requests, AfterSend(r),
         UNCHANGED unmarked
  PROVE  NoOrphanLease'
<1>0. ReqOK
  BY DEF TypeOK, ReqOK
<1>1. CASE StartSending(r, req[r].pc, req[r].item + 1) /\ UNCHANGED row
  BY <1>1, OrphanStarts
<1>2. CASE End(r) /\ (Mark(r, "done") \/ Mark(r, "failed"))
  BY <1>0, <1>2, EndAlone, OrphanMarks
<1>3. CASE End(r) /\ UNCHANGED row /\ req[r].pc \in {"canned", "extra"}
  BY <1>0, <1>3, EndAlone, OrphanKeeps DEF Holding, Background
<1> QED BY <1>1, <1>2, <1>3 DEF AfterSend, LeaveBackground

(* A request that ends without a mark is on record. *)
LEMMA OrphanStrands ==
  ASSUME NoOrphanLease, NEW r \in Request, Alone(r), UNCHANGED row, Strand(r)
  PROVE  NoOrphanLease'
<1> SUFFICES ASSUME NEW k \in Key, row'[k].status = "processing", k \notin unmarked'
             PROVE  \E s \in Request : Works(s, k)'
  BY DEF NoOrphanLease
<1>1. row[k].status = "processing" /\ k \notin unmarked /\ k # KeyR(r)
  BY DEF Strand
<1>2. PICK s \in Request : Works(s, k)
  BY <1>1 DEF NoOrphanLease
<1>3. s # r /\ req'[s] = req[s]
  BY <1>1, <1>2 DEF Works, Alone
<1> QED BY <1>2, <1>3 DEF Works, KeyR

LEMMA OrphanHandle ==
  ASSUME TypeOK, NoOrphanLease, NEW r \in Request, Handle(r)
  PROVE  NoOrphanLease'
<1>0. ReqOK
  BY DEF TypeOK, ReqOK
<1>1. req[r].pc # "idle"
  BY DEF Handle, Claim, Parse, SyncAnswer, SyncFormatError, SyncAgentError,
         SyncTimeout, Escapes, StartBackground, AgentReturns, SkipSend, ChannelGone,
         SendOK, SendRetry, SendFails, Sending
<1>2. req[r] \in Requests
  BY <1>0, <1>1, Live
<1>3. ASSUME End(r), UNCHANGED row, Strand(r) PROVE NoOrphanLease'
  BY <1>0, <1>3, EndAlone, OrphanStrands
<1>4. ASSUME End(r), UNCHANGED unmarked,
             (UNCHANGED row /\ req[r].pc \notin Holding) \/ Mark(r, "done") \/ Mark(r, "failed")
      PROVE  NoOrphanLease'
  BY <1>0, <1>4, EndAlone, OrphanMarks, OrphanKeeps
<1>5. ASSUME NEW p, NEW i, StartSending(r, p, i), UNCHANGED unmarked,
             Mark(r, "done") \/ (UNCHANGED row /\ (req[r].pc \in Holding => p \in Holding))
      PROVE  NoOrphanLease'
  <2>1. Alone(r)
    BY <1>0, <1>2, <1>5, StartMoves DEF Moves, Alone
  <2> QED BY <1>2, <1>5, <2>1, OrphanMarks, OrphanStarts
<1>6. CASE Claim(r)
  <2>1. req[r].pc = "verify" /\ req[r].pc \notin Holding
    BY <1>6 DEF Claim, Holding, Background
  <2>2. CASE End(r) /\ UNCHANGED <<row, unmarked>>
    BY <1>4, <2>1, <2>2
  <2>3. CASE /\ Proceed(r) /\ unmarked \ {KeyR(r)} \subseteq unmarked'
             /\ UNCHANGED row \/ \E new : row' = [row EXCEPT ![KeyR(r)] = new]
    <3>1. \A k \in Key : k # KeyR(r) => row'[k] = row[k]
      BY <2>3 DEF TypeOK
    <3> QED BY <1>2, <2>1, <2>3, <3>1, OrphanClaims
  <2> QED BY <1>6, <2>2, <2>3 DEF Claim, Refuse
<1>7. CASE Parse(r)
  <2>0. UNCHANGED unmarked
    BY <1>7 DEF Parse
  <2>1. CASE End(r) /\ (Mark(r, "done") \/ Mark(r, "failed"))
    BY <1>4, <2>0, <2>1
  <2>2. CASE StartSending(r, "canned", 1) /\ Mark(r, "done")
    BY <1>5, <2>0, <2>2
  <2>3. CASE Goto(r, "sync") /\ UNCHANGED row
    <3>1. Moves(r, "sync") /\ req'[r] = [req[r] EXCEPT !.pc = "sync"]
      BY <1>0, <1>2, <2>3, GotoMoves
    <3>2. req'[r].pc = "sync" /\ req'[r].ev = req[r].ev
      BY <1>2, <3>1 DEF Requests
    <3> QED BY <2>0, <2>3, <3>1, <3>2, OrphanKeeps DEF Moves, Alone, Holding
  <2>4. CASE EnterBackground(r)
    BY <1>2, <2>0, <2>4, OrphanEnters
  <2> QED BY <1>7, <2>1, <2>2, <2>3, <2>4 DEF Parse, Refuse
<1>8. CASE SyncAnswer(r)
  BY <1>4, <1>5, <1>8 DEF SyncAnswer
<1>9. CASE SyncFormatError(r) \/ SyncAgentError(r)
  BY <1>4, <1>9 DEF SyncFormatError, SyncAgentError, Refuse
<1>10. CASE SyncTimeout(r)
  BY <1>2, <1>10, OrphanEnters DEF SyncTimeout
<1>16. CASE Escapes(r)
  BY <1>3, <1>16 DEF Escapes, LeaveBackground
<1>11. CASE StartBackground(r)
  <2>0. CASE LeaveBackground(r) /\ Strand(r) /\ UNCHANGED row
    BY <1>3, <2>0 DEF LeaveBackground
  <2>1. CASE Goto(r, "agent") /\ UNCHANGED <<row, unmarked>>
    <3>1. Moves(r, "agent") /\ req'[r] = [req[r] EXCEPT !.pc = "agent"]
      BY <1>0, <1>2, <2>1, GotoMoves
    <3>2. req'[r].pc = "agent" /\ req'[r].ev = req[r].ev
      BY <1>2, <3>1 DEF Requests
    <3> QED BY <2>1, <3>1, <3>2, OrphanKeeps DEF Moves, Alone, Holding, Background
  <2> QED BY <1>11, <2>0, <2>1 DEF StartBackground
<1>12. CASE AgentReturns(r)
  <2>1. UNCHANGED <<row, unmarked>> /\ "send" \in Holding /\ "sorry" \in Holding
    BY <1>12 DEF AgentReturns, Holding, Background
  <2> QED BY <1>5, <1>12, <2>1 DEF AgentReturns
<1>13. CASE SkipSend(r) \/ SendOK(r)
  BY <1>2, <1>13, OrphanAfterSend DEF SkipSend, SendOK
<1>14. CASE SendRetry(r)
  <2>1. req'[r].pc = req[r].pc /\ req'[r].ev = req[r].ev /\ Alone(r) /\ UNCHANGED <<row, unmarked>>
    BY <1>0, <1>2, <1>14 DEF SendRetry, Alone, ReqOK, Requests
  <2> QED BY <2>1, OrphanKeeps
<1>15. CASE SendFails(r)
  <2>0. UNCHANGED unmarked
    BY <1>15 DEF SendFails
  <2>1. CASE End(r) /\ Mark(r, "failed")
    BY <1>4, <2>0, <2>1
  <2> QED BY <1>2, <1>15, <2>0, <2>1, OrphanAfterSend DEF SendFails, AfterFailedSend, LeaveBackground
<1> QED
  BY <1>6, <1>7, <1>8, <1>9, <1>10, <1>11, <1>12, <1>13, <1>14, <1>15, <1>16
     DEF Handle

(* No answer, apology, refusal, cap, timeout or failed send leaves a row     *)
(* locked, for any number of requests and events, with overlapping claims of *)
(* expired leases and under every fault: what does is a crash, an exception  *)
(* that escapes, or a channel that is disabled before the task begins.       *)
THEOREM LeasesHeld == Spec => []NoOrphanLease
<1>1. Init => NoOrphanLease
  BY DEF Init, NoOrphanLease, NoRow
<1>2. TypeOK /\ NoOrphanLease /\ [Next]_vars => NoOrphanLease'
  <2> SUFFICES ASSUME TypeOK, NoOrphanLease, [Next]_vars PROVE NoOrphanLease'
    OBVIOUS
  <2>1. ASSUME NEW r \in Request, Handle(r) PROVE NoOrphanLease'
    BY <2>1, OrphanHandle
  <2>2. ASSUME NEW r \in Request, NEW e \in Event, Receive(r, e) PROVE NoOrphanLease'
    <3>1. UNCHANGED <<row, unmarked>> /\ Alone(r) /\ req[r].pc \notin Holding
      BY <2>2 DEF Receive, Alone, Idle, Holding, Background, TypeOK
    <3> QED BY <3>1, OrphanKeeps
  <2>3. CASE Crash
    <3> SUFFICES ASSUME NEW k \in Key, row'[k].status = "processing", k \notin unmarked'
                 PROVE  FALSE
      BY DEF NoOrphanLease
    <3>1. k \notin unmarked /\ \A r \in Request : ~ Works(r, k)
      BY <2>3 DEF Crash, Works
    <3> QED BY <2>3, <3>1 DEF Crash, NoOrphanLease
  <2>4. CASE UNCHANGED <<row, req, unmarked>>
    BY <2>4, OrphanSame
  <2> QED BY <2>1, <2>2, <2>3, <2>4 DEF Next, SetChannel, Tick, vars
<1> QED
  BY <1>1, <1>2, TypeCorrect, PTL DEF Spec

-----------------------------------------------------------------------------
(* The abstract lease.  A request that works on an event id holds its row,   *)
(* alone, while its lease lives.                                             *)

Held(r, k) ==
  /\ row[k].status = "processing"
  /\ row[k].expires = req[r].at + TTL /\ now <= req[r].at + Hold

LeaseInv ==
  /\ \A r \in Request : req[r] # Idle => now <= req[r].at + Hold
  /\ \A r \in Request, k \in Key : Works(r, k) => Held(r, k)
  /\ \A r, s \in Request, k \in Key : Works(r, k) /\ Works(s, k) => r = s

(* What a request does to its lease: it lets it go, keeps what it has, or    *)
(* takes an event id that is free by the table.                              *)
Lets(r) ==
  /\ req[r].pc \in Holding /\ req'[r].pc \notin Holding
  /\ UNCHANGED row \/ Mark(r, "done") \/ Mark(r, "failed")

Goes(r) ==
  /\ UNCHANGED row
  /\ req'[r].pc \in Holding <=> req[r].pc \in Holding
  /\ req'[r].pc \in Holding => req'[r].ev = req[r].ev /\ req'[r].at = req[r].at

Takes(r) ==
  /\ req[r].pc = "verify" /\ req'[r].pc \in Holding
  /\ req'[r].ev = req[r].ev /\ req'[r].at = now
  /\ \/ KeyR(r) = NoKey /\ UNCHANGED row
     \/ KeyR(r) \in Key /\ \E new \in Rows :
          /\ row[KeyR(r)].status = "absent" \/ Reclaimable(row[KeyR(r)], now)
          /\ new.status = "processing" /\ new.expires = now + TTL
          /\ row' = [row EXCEPT ![KeyR(r)] = new]

(* One request moves, and began by now.                                      *)
One(r) ==
  /\ Alone(r) /\ now' = now /\ (req'[r] # Idle => now <= req'[r].at + Hold)
  /\ Lets(r) \/ Goes(r) \/ Takes(r)

(* A request that goes on keeps its event and the time of its claim.         *)
LEMMA GoesOn ==
  ASSUME TypeOK, LeaseInv, NEW r \in Request, req[r] \in Requests, now' = now,
         NEW p \in PC, Goto(r, p) \/ \E i : StartSending(r, p, i)
  PROVE  /\ Alone(r) /\ now <= req'[r].at + Hold
         /\ req'[r].pc = p /\ req'[r].ev = req[r].ev /\ req'[r].at = req[r].at
<1>0. ReqOK
  BY DEF TypeOK, ReqOK
<1>1. Alone(r)
  BY <1>0, GotoMoves, StartMoves DEF Moves, Alone
<1>2. req'[r].pc = p /\ req'[r].ev = req[r].ev /\ req'[r].at = req[r].at
  <2>1. CASE Goto(r, p)
    <3>1. req'[r] = [req[r] EXCEPT !.pc = p]
      BY <1>0, <2>1, GotoMoves
    <3> QED BY <3>1 DEF Requests
  <2>2. ASSUME NEW i, StartSending(r, p, i)
        PROVE  req'[r].pc = p /\ req'[r].ev = req[r].ev /\ req'[r].at = req[r].at
    BY <1>0, <2>2, StartMoves
  <2> QED BY <2>1, <2>2
<1>3. req[r] # Idle
  BY DEF Requests, Idle, Unanswered, Background, Sending
<1> QED BY <1>1, <1>2, <1>3 DEF LeaseInv

(* It keeps its lease, or leaves it with the mark.                           *)
LEMMA GoesOnOne ==
  ASSUME TypeOK, LeaseInv, NEW r \in Request, req[r] \in Requests, now' = now,
         NEW p \in PC, Goto(r, p) \/ \E i : StartSending(r, p, i),
         \/ UNCHANGED row /\ (p \in Holding <=> req[r].pc \in Holding)
         \/ Mark(r, "done") /\ req[r].pc \in Holding /\ p \notin Holding
  PROVE  One(r)
BY GoesOn DEF One, Lets, Goes

(* So does a request that ends.                                              *)
LEMMA EndsOne ==
  ASSUME TypeOK, LeaseInv, NEW r \in Request, End(r), now' = now,
         \/ UNCHANGED row
         \/ req[r].pc \in Holding /\ (Mark(r, "done") \/ Mark(r, "failed"))
  PROVE  One(r)
<1>1. Alone(r) /\ req'[r] = Idle
  BY DEF TypeOK, End, Alone
<1>2. req'[r].pc \notin Holding
  BY <1>1 DEF Idle, Holding, Background
<1> QED BY <1>1, <1>2 DEF One, Lets, Goes

LEMMA EntersOne ==
  ASSUME TypeOK, LeaseInv, NEW r \in Request, req[r] \in Requests, now' = now,
         req[r].pc \in Holding, EnterBackground(r)
  PROVE  One(r)
<1>1. CASE Mark(r, "failed") /\ Refuse(r)
  BY <1>1, EndsOne DEF Refuse
<1>2. CASE Goto(r, "queued") /\ UNCHANGED row
  <2>1. "queued" \in PC /\ "queued" \in Holding
    BY DEF PC, Holding, Background
  <2> QED BY <1>2, <2>1, GoesOnOne
<1> QED BY <1>1, <1>2 DEF EnterBackground

LEMMA AfterSendOne ==
  ASSUME TypeOK, LeaseInv, NEW r \in Request, req[r] \in Requests, now' = now, AfterSend(r)
  PROVE  One(r)
<1>1. req[r].pc \in PC
  BY DEF Requests, PC
<1>2. CASE StartSending(r, req[r].pc, req[r].item + 1) /\ UNCHANGED row
  BY <1>1, <1>2, GoesOnOne
<1>3. CASE End(r) /\ req[r].pc \in {"send", "sorry"} /\ (Mark(r, "done") \/ Mark(r, "failed"))
  BY <1>3, EndsOne DEF Holding, Background
<1>4. CASE End(r) /\ UNCHANGED row
  BY <1>4, EndsOne
<1> QED BY <1>2, <1>3, <1>4 DEF AfterSend, LeaveBackground

LEMMA ClaimOne ==
  ASSUME TypeOK, LeaseInv, NEW r \in Request, req[r] \in Requests, Claim(r)
  PROVE  One(r)
<1>1. req[r].pc = "verify" /\ now' = now /\ now \in Nat /\ Hold \in Nat /\ TTL \in Nat
  BY DispatcherAssumption, TTLAssumption DEF Claim, TypeOK
<1>2. CASE End(r) /\ UNCHANGED row
  BY <1>1, <1>2, EndsOne
<1>3. ASSUME Proceed(r)
      PROVE  /\ Alone(r) /\ now <= req'[r].at + Hold
             /\ req'[r].pc \in Holding /\ req'[r].ev = req[r].ev /\ req'[r].at = now
  <2>1. Alone(r) /\ req'[r] = [req[r] EXCEPT !.pc = "parse", !.at = now]
    BY <1>3 DEF TypeOK, Proceed, Alone
  <2>2. req'[r].pc = "parse" /\ req'[r].ev = req[r].ev /\ req'[r].at = now
    BY <2>1 DEF Requests
  <2> QED BY <1>1, <2>1, <2>2 DEF Holding
<1>4. CASE KeyR(r) = NoKey /\ Proceed(r) /\ UNCHANGED row
  BY <1>1, <1>3, <1>4 DEF One, Takes
<1>5. CASE /\ KeyR(r) # NoKey /\ Proceed(r)
           /\ \/ /\ row[KeyR(r)].status = "absent"
                 /\ row' = [row EXCEPT ![KeyR(r)] = NewRow(now)]
              \/ /\ Reclaimable(row[KeyR(r)], now)
                 /\ row' = [row EXCEPT ![KeyR(r)] = ReclaimedRow(row[KeyR(r)], now)]
  <2>1. KeyR(r) \in Key /\ row[KeyR(r)] \in Rows
    BY <1>5, DispatcherAssumption DEF TypeOK, KeyR, Requests
  <2>2. /\ NewRow(now) \in Rows /\ NewRow(now).status = "processing"
        /\ NewRow(now).expires = now + TTL
    BY <1>1 DEF NewRow, Rows, Statuses
  <2>3. /\ ReclaimedRow(row[KeyR(r)], now) \in Rows
        /\ ReclaimedRow(row[KeyR(r)], now).status = "processing"
        /\ ReclaimedRow(row[KeyR(r)], now).expires = now + TTL
    BY <1>1, <2>1 DEF ReclaimedRow, Rows, Statuses
  <2>4. Takes(r)
    BY <1>1, <1>3, <1>5, <2>1, <2>2, <2>3 DEF Takes
  <2> QED BY <1>1, <1>3, <1>5, <2>4 DEF One
<1> QED BY <1>2, <1>4, <1>5 DEF Claim, Refuse

LEMMA ReceiveOne ==
  ASSUME TypeOK, LeaseInv, NEW r \in Request, NEW e \in Event, Receive(r, e)
  PROVE  One(r)
<1>1. now \in Nat /\ Hold \in Nat /\ now' = now /\ UNCHANGED row /\ req[r] = Idle
  BY DispatcherAssumption DEF TypeOK, Receive
<1>2. CASE UNCHANGED req
  BY <1>1, <1>2 DEF One, Goes, Alone
<1>3. CASE \E c : req' = [req EXCEPT ![r] = [pc |-> "verify", ev |-> e, snap |-> c, at |-> now,
                                            item |-> 0, try |-> 1]]
  <2>1. Alone(r) /\ req'[r].pc = "verify" /\ req'[r].at = now
    BY <1>3 DEF TypeOK, Alone
  <2> QED BY <1>1, <2>1 DEF One, Goes, Idle, Holding, Background
<1> QED BY <1>2, <1>3 DEF Receive

LEMMA HandleOne ==
  ASSUME TypeOK, LeaseInv, NEW r \in Request, Handle(r)
  PROVE  One(r)
<1>0. ReqOK
  BY DEF TypeOK, ReqOK
<1>1. req[r].pc # "idle"
  BY DEF Handle, Claim, Parse, SyncAnswer, SyncFormatError, SyncAgentError,
         SyncTimeout, Escapes, StartBackground, AgentReturns, SkipSend, ChannelGone,
         SendOK, SendRetry, SendFails, Sending
<1>2. req[r] \in Requests
  BY <1>0, <1>1, Live
<1>3. now' = now
  BY DEF Handle, Claim, Parse, SyncAnswer, SyncFormatError, SyncAgentError,
         SyncTimeout, Escapes, StartBackground, AgentReturns, SkipSend, SendOK, SendRetry, SendFails
<1>4. {"sync", "agent", "send", "sorry"} \subseteq Holding /\ {"canned", "extra"} \cap Holding = {}
  BY DEF Holding, Background
<1>5. {"sync", "agent", "send", "sorry", "canned", "extra"} \subseteq PC
  BY DEF PC, Unanswered, Background, Sending
<1>6. CASE Claim(r)
  BY <1>2, <1>6, ClaimOne
<1>7. CASE Parse(r)
  <2>0. req[r].pc \in Holding
    BY <1>7 DEF Parse, Holding
  <2>1. CASE End(r) /\ (UNCHANGED row \/ Mark(r, "done") \/ Mark(r, "failed"))
    BY <1>3, <2>0, <2>1, EndsOne
  <2>2. CASE StartSending(r, "canned", 1) /\ Mark(r, "done")
    BY <1>2, <1>3, <1>4, <1>5, <2>0, <2>2, GoesOnOne
  <2>3. CASE Goto(r, "sync") /\ UNCHANGED row
    BY <1>2, <1>3, <1>4, <1>5, <2>0, <2>3, GoesOnOne
  <2>4. CASE EnterBackground(r)
    BY <1>2, <1>3, <2>0, <2>4, EntersOne
  <2> QED BY <1>7, <2>1, <2>2, <2>3, <2>4 DEF Parse, Refuse
<1>8. CASE SyncAnswer(r)
  <2>0. req[r].pc \in Holding
    BY <1>8 DEF SyncAnswer, Holding
  <2>1. CASE StartSending(r, "extra", 2)
    BY <1>2, <1>3, <1>4, <1>5, <1>8, <2>0, <2>1, GoesOnOne DEF SyncAnswer
  <2>2. CASE End(r)
    BY <1>3, <1>8, <2>0, <2>2, EndsOne DEF SyncAnswer
  <2> QED BY <1>8, <2>1, <2>2 DEF SyncAnswer
<1>9. CASE SyncFormatError(r) \/ SyncAgentError(r)
  BY <1>3, <1>9, EndsOne DEF SyncFormatError, SyncAgentError, Refuse, Holding
<1>10. CASE SyncTimeout(r)
  BY <1>2, <1>3, <1>10, EntersOne DEF SyncTimeout, Holding
<1>16. CASE Escapes(r)
  BY <1>3, <1>16, EndsOne DEF Escapes, LeaveBackground
<1>11. CASE StartBackground(r)
  <2>0. req[r].pc \in Holding /\ UNCHANGED row
    BY <1>11 DEF StartBackground, Holding, Background
  <2>1. CASE End(r)
    BY <1>3, <2>0, <2>1, EndsOne
  <2>2. CASE Goto(r, "agent")
    BY <1>2, <1>3, <1>4, <1>5, <2>0, <2>2, GoesOnOne
  <2> QED BY <1>11, <2>1, <2>2 DEF StartBackground, LeaveBackground
<1>12. CASE AgentReturns(r)
  <2>0. req[r].pc \in Holding /\ UNCHANGED row
    BY <1>12 DEF AgentReturns, Holding, Background
  <2> QED BY <1>2, <1>3, <1>4, <1>5, <1>12, <2>0, GoesOnOne DEF AgentReturns
<1>13. CASE SkipSend(r) \/ SendOK(r)
  BY <1>2, <1>3, <1>13, AfterSendOne DEF SkipSend, SendOK
<1>14. CASE SendRetry(r)
  <2>1. Alone(r) /\ UNCHANGED row /\ req'[r] = [req[r] EXCEPT !.try = req[r].try + 1]
    BY <1>14 DEF TypeOK, SendRetry, Alone
  <2>2. req'[r].pc = req[r].pc /\ req'[r].ev = req[r].ev /\ req'[r].at = req[r].at
    BY <1>2, <2>1 DEF Requests
  <2>3. req[r] # Idle
    BY <1>1 DEF Idle
  <2> QED BY <1>3, <2>1, <2>2, <2>3 DEF One, Goes, LeaseInv
<1>15. CASE SendFails(r)
  <2>1. CASE req[r].pc = "send" /\ End(r) /\ Mark(r, "failed")
    BY <1>3, <1>4, <2>1, EndsOne
  <2> QED BY <1>2, <1>3, <1>15, <2>1, AfterSendOne DEF SendFails, AfterFailedSend, LeaveBackground
<1> QED
  BY <1>6, <1>7, <1>8, <1>9, <1>10, <1>11, <1>12, <1>13, <1>14, <1>15, <1>16
     DEF Handle

-----------------------------------------------------------------------------

(* What the table gives away, nobody works on.                               *)
LEMMA FreeByTable ==
  ASSUME Hold < TTL, TypeOK, LeaseInv, NEW k \in Key,
         row[k].status = "absent" \/ Reclaimable(row[k], now)
  PROVE  \A s \in Request : ~ Works(s, k)
<1> SUFFICES ASSUME NEW s \in Request, Works(s, k) PROVE FALSE
  OBVIOUS
<1>1. Held(s, k) /\ req[s].at \in Nat /\ now \in Nat
  BY DEF LeaseInv, TypeOK, Works, Holding, Background, Requests, Idle
<1>2. LiveLease(row[k], now)
  BY <1>1, DispatcherAssumption, TTLAssumption DEF Held, LiveLease, NullTime
<1> QED BY <1>1, <1>2 DEF Held, Reclaimable

(* The invariant after one request moved.                                    *)
LEMMA LeaseOne ==
  ASSUME Hold < TTL, TypeOK, LeaseInv, NEW r \in Request, One(r)
  PROVE  LeaseInv'
<1>0. /\ now \in Nat /\ Hold \in Nat /\ TTL \in Nat /\ now' = now
      /\ \A s \in Request \ {r} : req'[s] = req[s]
      /\ \A s \in Request : req[s] \in Requests \cup {Idle}
      /\ row \in [Key -> Rows]
  BY DispatcherAssumption, TTLAssumption DEF TypeOK, One, Alone
<1>1. \A s \in Request : req'[s] # Idle => now' <= req'[s].at + Hold
  BY <1>0 DEF One, LeaseInv
<1>2. \A s \in Request \ {r}, k \in Key : Works(s, k)' <=> Works(s, k)
  BY <1>0 DEF Works, KeyR
<1>3. \A s \in Request \ {r}, k \in Key : row'[k] = row[k] /\ Works(s, k) => Held(s, k)'
  BY <1>0 DEF LeaseInv, Held
<1>4. CASE Lets(r)
  <2>1. \A k \in Key : ~ Works(r, k)'
    BY <1>4 DEF Lets, Works
  <2>2. \A k \in Key : k # KeyR(r) => row'[k] = row[k]
    BY <1>0, <1>4 DEF Lets, Mark
  <2>3. \A s \in Request \ {r} : ~ Works(s, KeyR(r)) \/ KeyR(r) \notin Key
    BY <1>4 DEF Lets, LeaseInv, Works
  <2>4. \A s \in Request, k \in Key : Works(s, k)' => s # r /\ Works(s, k) /\ row'[k] = row[k]
    BY <1>2, <2>1, <2>2, <2>3
  <2>5. \A s \in Request, k \in Key : Works(s, k)' => Held(s, k)'
    BY <1>3, <2>4
  <2>6. \A s, q \in Request, k \in Key : Works(s, k)' /\ Works(q, k)' => s = q
    BY <2>4 DEF LeaseInv
  <2> QED BY <1>1, <2>5, <2>6 DEF LeaseInv
<1>5. CASE Goes(r)
  <2>1. row' = row
    BY <1>5 DEF Goes
  <2>2. \A s \in Request, k \in Key : Works(s, k)' => Works(s, k)
    BY <1>2, <1>5 DEF Goes, Works, KeyR
  <2>3. \A k \in Key : Works(r, k)' => Held(r, k)'
    BY <1>0, <1>5, <2>1, <2>2 DEF Goes, Works, LeaseInv, Held
  <2>4. \A s \in Request, k \in Key : Works(s, k)' => Held(s, k)'
    BY <1>3, <2>1, <2>2, <2>3
  <2>5. \A s, q \in Request, k \in Key : Works(s, k)' /\ Works(q, k)' => s = q
    BY <2>2 DEF LeaseInv
  <2> QED BY <1>1, <2>4, <2>5 DEF LeaseInv
<1>6. CASE Takes(r)
  <2>1. CASE KeyR(r) = NoKey /\ UNCHANGED row
    <3>1. \A k \in Key : ~ Works(r, k)'
      BY <1>6, <2>1, DispatcherAssumption DEF Takes, Works, KeyR
    <3>2. \A s \in Request, k \in Key : Works(s, k)' => s # r /\ Works(s, k)
      BY <1>2, <3>1
    <3>3. \A s \in Request, k \in Key : Works(s, k)' => Held(s, k)'
      BY <1>3, <2>1, <3>2
    <3>4. \A s, q \in Request, k \in Key : Works(s, k)' /\ Works(q, k)' => s = q
      BY <3>2 DEF LeaseInv
    <3> QED BY <1>1, <3>3, <3>4 DEF LeaseInv
  <2>2. ASSUME NEW new \in Rows, new.status = "processing", new.expires = now + TTL,
               KeyR(r) \in Key,
               row[KeyR(r)].status = "absent" \/ Reclaimable(row[KeyR(r)], now),
               row' = [row EXCEPT ![KeyR(r)] = new]
        PROVE  LeaseInv'
    <3>1. \A k \in Key : k # KeyR(r) => row'[k] = row[k]
      BY <1>0, <2>2
    <3>2. \A s \in Request : ~ Works(s, KeyR(r))
      BY <2>2, FreeByTable
    <3>3. \A k \in Key : Works(r, k)' => k = KeyR(r) /\ Held(r, k)'
      BY <1>0, <1>6, <2>2 DEF Takes, Works, KeyR, Held
    <3>4. \A s \in Request \ {r}, k \in Key : Works(s, k)' => k # KeyR(r) /\ Held(s, k)'
      BY <1>2, <1>3, <3>1, <3>2
    <3>5. \A s, q \in Request, k \in Key : Works(s, k)' /\ Works(q, k)' => s = q
      BY <1>2, <3>3, <3>4 DEF LeaseInv
    <3> QED BY <1>1, <3>3, <3>4, <3>5 DEF LeaseInv
  <2> QED BY <1>6, <2>1, <2>2 DEF Takes
<1> QED BY <1>4, <1>5, <1>6 DEF One

LEMMA LeaseInit == Init => LeaseInv
<1> SUFFICES ASSUME Init PROVE LeaseInv
  OBVIOUS
<1>1. \A r \in Request : req[r] = Idle
  BY DEF Init
<1> QED BY <1>1 DEF LeaseInv, Works, Idle, Holding, Background

LEMMA LeaseNext == Hold < TTL /\ TypeOK /\ LeaseInv /\ [Next]_vars => LeaseInv'
<1> SUFFICES ASSUME Hold < TTL, TypeOK, LeaseInv, [Next]_vars PROVE LeaseInv'
  OBVIOUS
<1>1. ASSUME NEW r \in Request, Handle(r) PROVE LeaseInv'
  BY <1>1, HandleOne, LeaseOne
<1>2. ASSUME NEW r \in Request, NEW e \in Event, Receive(r, e) PROVE LeaseInv'
  BY <1>2, ReceiveOne, LeaseOne
<1>3. CASE Crash
  <2>1. \A r \in Request : req'[r] = Idle
    BY <1>3 DEF Crash
  <2> QED BY <2>1 DEF LeaseInv, Works, Idle, Holding, Background
<1>4. CASE Tick
  <2>1. UNCHANGED <<row, req>> /\ now' = now + 1
    BY <1>4 DEF Tick
  <2>2. \A r \in Request : req[r] # Idle => now' <= req[r].at + Hold
    <3> SUFFICES ASSUME NEW r \in Request, req[r] # Idle PROVE now' <= req[r].at + Hold
      OBVIOUS
    <3>1. req[r].at \in Nat /\ now \in Nat /\ Hold \in Nat
      BY DispatcherAssumption DEF TypeOK, Requests
    <3>2. now < req[r].at + Hold
      BY <1>4 DEF Tick
    <3> QED BY <2>1, <3>1, <3>2
  <2>3. \A r \in Request, k \in Key : Works(r, k)' <=> Works(r, k)
    BY <2>1 DEF Works, KeyR
  <2>4. \A r \in Request, k \in Key : Works(r, k) => Held(r, k)'
    BY <2>1, <2>2 DEF LeaseInv, Held, Works, Idle, Holding, Background
  <2> QED BY <2>1, <2>2, <2>3, <2>4 DEF LeaseInv
<1>5. CASE UNCHANGED <<row, req, now>>
  <2>1. \A r \in Request, k \in Key : (Works(r, k)' <=> Works(r, k)) /\ (Held(r, k)' <=> Held(r, k))
    BY <1>5 DEF Works, KeyR, Held
  <2> QED BY <1>5, <2>1 DEF LeaseInv
<1> QED BY <1>1, <1>2, <1>3, <1>4, <1>5 DEF Next, SetChannel, vars

LEMMA LeaseHolds == Hold < TTL => (Spec => []LeaseInv)
<1> SUFFICES ASSUME Hold < TTL PROVE Spec => []LeaseInv
  OBVIOUS
<1>1. TypeOK /\ LeaseInv /\ [Next]_vars => LeaseInv'
  BY LeaseNext
<1> QED BY <1>1, LeaseInit, TypeCorrect, PTL DEF Spec

(* Who owns what: Nobody is not told apart from a request here.              *)
LEMMA OwnerWorks ==
  ASSUME LeaseInv, NEW r \in Request, NEW k \in Key, Works(r, k)
  PROVE  Owner(k) = r
BY DEF Owner, LeaseInv

LEMMA NobodyWorks ==
  ASSUME NEW k \in Key, \A r \in Request : ~ Works(r, k)
  PROVE  Owner(k) = Nobody
BY DEF Owner

LEMMA OwnerSame ==
  ASSUME LeaseInv, LeaseInv', NEW k \in Key, \A r \in Request : Works(r, k)' <=> Works(r, k)
  PROVE  Owner(k)' = Owner(k)
<1>1. ASSUME NEW r \in Request, Works(r, k) PROVE Owner(k)' = Owner(k)
  <2>1. Works(r, k)' /\ Owner(k) = r
    BY <1>1, OwnerWorks
  <2>2. Owner(k)' = r
    BY <2>1 DEF Owner, LeaseInv
  <2> QED BY <2>1, <2>2
<1>2. CASE \A r \in Request : ~ Works(r, k)
  <2>1. Owner(k) = Nobody /\ Owner(k)' = Nobody
    BY <1>2 DEF Owner
  <2> QED BY <2>1
<1> QED BY <1>1, <1>2

Owners == [k \in Key |-> Owner(k)]
Closed == {k \in Key : row[k].status = "done"}

(* A step that changes no lease and no done row is a stutter.                *)
LEMMA SameIsStutter ==
  ASSUME LeaseInv, LeaseInv', Closed' = Closed,
         \A r \in Request, k \in Key : Works(r, k)' <=> Works(r, k)
  PROVE  UNCHANGED Lease!vars
<1>1. \A k \in Key : Owner(k)' = Owner(k)
  BY OwnerSame
<1> QED BY <1>1 DEF Lease!vars, Closed

(* One request's step is Acquire, Finish or Release, or a stutter.           *)
LEMMA OneImplements ==
  ASSUME Hold < TTL, TypeOK, LeaseInv, LeaseInv', NEW r \in Request, One(r)
  PROVE  Lease!Next \/ UNCHANGED Lease!vars
<1>0. /\ \A s \in Request \ {r} : req'[s] = req[s]
      /\ \A s \in Request : req[s] \in Requests \cup {Idle}
      /\ row \in [Key -> Rows]
  BY DEF TypeOK, One, Alone
<1>1. \A s \in Request \ {r}, k \in Key : Works(s, k)' <=> Works(s, k)
  BY <1>0 DEF Works, KeyR
<1>2. CASE Goes(r)
  <2>1. \A s \in Request, k \in Key : Works(s, k)' <=> Works(s, k)
    BY <1>1, <1>2 DEF Goes, Works, KeyR
  <2>2. Closed' = Closed
    BY <1>2 DEF Goes, Closed
  <2> QED BY <2>1, <2>2, SameIsStutter
<1>3. CASE KeyR(r) \notin Key /\ (Lets(r) \/ Takes(r))
  <2>1. req[r] \in Requests
    BY <1>0, <1>3 DEF Lets, Takes, Idle, Holding, Background
  <2>2. UNCHANGED row
    BY <1>3, <2>1, DispatcherAssumption DEF Lets, Takes, Mark, KeyR, Requests
  <2>3. \A s \in Request, k \in Key : Works(s, k)' <=> Works(s, k)
    BY <1>1, <1>3 DEF Lets, Takes, Works, KeyR, Holding, Background
  <2> QED BY <2>2, <2>3, SameIsStutter DEF Closed
<1>4. \A k \in Key : (\A s \in Request : Works(s, k)' <=> Works(s, k)) => Owner(k)' = Owner(k)
  BY OwnerSame
<1>5. CASE KeyR(r) \in Key /\ Lets(r)
  <2>0. PICK k \in Key : k = KeyR(r)
    BY <1>5
  <2>1. Works(r, k) /\ row[k].status = "processing" /\ row[k] \in Rows
    BY <1>0, <1>5, <2>0 DEF Lets, Works, LeaseInv, Held
  <2>2. ~ Works(r, k)' /\ \A s \in Request \ {r} : ~ Works(s, k)'
    BY <1>1, <1>5, <2>0, <2>1 DEF Lets, Works, LeaseInv
  <2>3. \A j \in Key : j # k => row'[j] = row[j] /\ \A s \in Request : Works(s, j)' <=> Works(s, j)
    BY <1>0, <1>1, <1>5, <2>0 DEF Lets, Works, Mark
  <2>4. Owner(k) = r /\ Owner(k)' = Nobody
    BY <1>5, <2>0, <2>1, <2>2, OwnerWorks DEF Owner
  <2>5. Owners' = [Owners EXCEPT ![k] = Nobody]
    BY <1>4, <2>3, <2>4 DEF Owners
  <2>6. Closed' \in {Closed, Closed \cup {k}}
    <3>1. KeyR(r) # NoKey
      BY <1>5, DispatcherAssumption
    <3>2. row'[k] = row[k] \/ row'[k].status \in {"done", "failed"}
      BY <1>0, <1>5, <2>0, <2>1, <3>1 DEF Lets, Mark, Marked, Rows
    <3> QED BY <1>5, <2>0, <2>1, <2>3, <3>2 DEF Closed
  <2>7. Lease!Finish(r, k) \/ Lease!Release(r, k)
    BY <1>5, <2>0, <2>4, <2>5, <2>6 DEF Lease!Finish, Lease!Release, Owners, Closed
  <2> QED BY <1>5, <2>0, <2>7 DEF Lease!Next
<1>6. CASE KeyR(r) \in Key /\ Takes(r)
  <2>0. PICK k \in Key : k = KeyR(r)
    BY <1>6
  <2>1. PICK new \in Rows :
          /\ row[k].status = "absent" \/ Reclaimable(row[k], now)
          /\ new.status = "processing" /\ row' = [row EXCEPT ![k] = new]
    BY <1>6, <2>0, DispatcherAssumption DEF Takes
  <2>2. Owner(k) = Nobody
    BY <1>6, <2>0, <2>1, FreeByTable DEF Owner
  <2>3. Works(r, k)'
    BY <1>6, <2>0 DEF Takes, Works, KeyR
  <2>4. Owner(k)' = r
    BY <1>6, <2>0, <2>3 DEF Owner, LeaseInv
  <2>5. \A j \in Key : j # k => row'[j] = row[j] /\ \A s \in Request : Works(s, j)' <=> Works(s, j)
    BY <1>0, <1>1, <1>6, <2>0, <2>1 DEF Takes, Works, KeyR, Holding, Background
  <2>6. Owners' = [Owners EXCEPT ![k] = r]
    BY <1>4, <2>4, <2>5 DEF Owners
  <2>7. k \notin Closed /\ Closed' = Closed
    BY <1>0, <1>6, <2>0, <2>1, <2>5 DEF Closed, Reclaimable
  <2>8. Lease!Acquire(r, k)
    BY <1>6, <2>0, <2>2, <2>6, <2>7 DEF Lease!Acquire, Owners, Closed
  <2> QED BY <1>6, <2>0, <2>8 DEF Lease!Next
<1> QED BY <1>2, <1>3, <1>5, <1>6 DEF One

LEMMA StepImplements ==
  ASSUME Hold < TTL, TypeOK, LeaseInv, LeaseInv', [Next]_vars
  PROVE  [Lease!Next]_(Lease!vars)
<1>1. ASSUME NEW r \in Request, Handle(r) \/ \E e \in Event : Receive(r, e)
      PROVE  Lease!Next \/ UNCHANGED Lease!vars
  BY <1>1, HandleOne, ReceiveOne, OneImplements
<1>2. CASE Crash
  <2>1. \A r \in Request, k \in Key : ~ Works(r, k)'
    BY <1>2 DEF Crash, Works, Idle, Holding, Background
  <2>2. \A k \in Key : Owner(k)' = Nobody
    BY <2>1 DEF Owner
  <2>3. \A k \in Key : Owner(k) \in Request \/ Owner(k) = Nobody
    BY DEF Owner
  <2>4. Owners' = [k \in Key |-> IF Owners[k] \in Request THEN Nobody ELSE Owners[k]]
    BY <2>2, <2>3 DEF Owners
  <2>5. Closed' = Closed
    BY <1>2 DEF Crash, Closed
  <2>6. Lease!Die(Request)
    BY <2>4, <2>5 DEF Lease!Die, Owners, Closed
  <2> QED BY <2>6 DEF Lease!Next
<1>3. CASE UNCHANGED <<row, req>>
  <2>1. \A r \in Request, k \in Key : Works(r, k)' <=> Works(r, k)
    BY <1>3 DEF Works, KeyR
  <2>2. Closed' = Closed
    BY <1>3 DEF Closed
  <2> QED BY <2>1, <2>2, SameIsStutter
<1> QED BY <1>1, <1>2, <1>3 DEF Next, SetChannel, Tick, vars

(* The handlers and tasks keep the promise of the idempotency table, for any *)
(* number of requests, events, ids and channels and under every fault, as    *)
(* long as a request ends within its lease: a claim is Acquire, a mark       *)
(* Finish or Release, a path that ends without one Release, a crash Die.     *)
THEOREM HandlersImplementLease ==
  ASSUME Hold < TTL
  PROVE  Spec => HandlesAsLease
<1>1. Init => Lease!Init
  <2> SUFFICES ASSUME Init PROVE Lease!Init
    OBVIOUS
  <2>1. \A r \in Request, k \in Key : ~ Works(r, k)
    BY DEF Init, Works, Idle, Holding, Background
  <2> QED BY <2>1 DEF Init, Lease!Init, Owner, NoRow
<1>2. TypeOK /\ LeaseInv /\ LeaseInv' /\ [Next]_vars => [Lease!Next]_(Lease!vars)
  BY StepImplements
<1>3. Spec => []LeaseInv
  BY LeaseHolds
<1> QED BY <1>1, <1>2, <1>3, TypeCorrect, PTL DEF Spec, HandlesAsLease, Lease!Spec

=============================================================================
