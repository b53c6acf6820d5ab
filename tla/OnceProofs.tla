---------------------------- MODULE OnceProofs ----------------------------
(***************************************************************************)
(* The answer reaches the user at most once, for any number of deliveries, *)
(* requests, events, chunks and attempts, while the process lives, sends   *)
(* succeed, acks are seen, events have ids of their own and a delivery     *)
(* ends within its lease.  The agent, formatting, signatures and channels  *)
(* may fail.                                                               *)
(***************************************************************************)
EXTENDS DispatcherProofs

Calm ==
  /\ Faults \cap {"crash", "send", "lostAck"} = {}
  /\ \A e \in Event : KeyOf[e] \in Key
  /\ \A e, f \in Event : KeyOf[e] = KeyOf[f] => e = f
  /\ Hold < TTL

(* A request at work holds the row, or has marked it done and goes on to     *)
(* send what is left.                                                        *)
After == {"extra", "canned"}
Busy == Holding \cup After

(* The first item that a request may still bring to the user.                *)
First(q) == IF q.pc \in {"send"} \cup After THEN q.item ELSE 1

(* What a request at work knows of its row and of what the user received.    *)
Knows(q) ==
  LET old == row[KeyOf[q.ev]] IN
  /\ q.pc \in Holding => old.status = "processing" /\ old.expires = q.at + TTL /\ now <= q.at + Hold
  /\ q.pc \in After => old.status = "done"
  /\ q.pc = "sorry" => q.item = 0
  /\ First(q) >= 1 /\ \A i \in Items : i >= First(q) => got[q.ev][i] = 0

Sole == \A r, s \in Request : req[r].pc \in Busy /\ req[s].pc \in Busy /\ req[r].ev = req[s].ev => r = s

(* Nobody receives anything but from a done event, or one that is being sent. *)
Sent(e) ==
  \/ \A i \in 1 .. Chunks : got[e][i] = 0
  \/ row[KeyOf[e]].status = "done"
  \/ \E r \in Request : req[r].pc = "send" /\ req[r].ev = e

OnceInv ==
  /\ \A r \in Request : req[r].pc \in Busy => Knows(req[r])
  /\ Sole
  /\ \A e \in Event : Sent(e)
  /\ AnsweredOnce

-----------------------------------------------------------------------------
(* One request takes a step.                                                 *)

(* Nobody else works on r's event, whose row and answers alone may change.   *)
Own(r) ==
  /\ Alone(r) /\ now' = now
  /\ \A s \in Request \ {r} : req[s].pc \in Busy => req[s].ev # req[r].ev
  /\ \A k \in Key : k # KeyR(r) => row'[k] = row[k]
  /\ \A e \in Event : e # req[r].ev => got'[e] = got[e]

LEMMA OnceStep ==
  ASSUME Calm, TypeOK, OnceInv, NEW r \in Request, NEW e \in Event, req[r].ev = e, Own(r),
         req'[r].pc \in Busy => req'[r].ev = e /\ Knows(req[r])',
         Sent(e)', \A i \in 1 .. Chunks : got'[e][i] <= 1
  PROVE  OnceInv'
<1>1. \A f \in Event : f # e => KeyOf[f] \in Key /\ KeyOf[f] # KeyR(r) /\ row'[KeyOf[f]] = row[KeyOf[f]] /\ got'[f] = got[f]
  BY DEF Own, Calm, KeyR
<1>2. ASSUME NEW s \in Request \ {r}, req'[s].pc \in Busy
      PROVE  req'[s] = req[s] /\ req[s].ev # e /\ req[s].ev \in Event /\ Knows(req[s])
  <2>1. req'[s] = req[s]
    BY DEF Own, Alone
  <2>2. req[s].pc \in Busy /\ req[s].ev # e /\ Knows(req[s])
    BY <1>2, <2>1 DEF Own, OnceInv
  <2>3. req[s] \in Requests
    <3>1. req[s].pc # "idle"
      BY <2>2 DEF Busy, Holding, After, Background
    <3> QED BY <3>1, Live DEF TypeOK, ReqOK
  <2> QED BY <2>1, <2>2, <2>3 DEF Requests
<1>3. \A s \in Request : req'[s].pc \in Busy => Knows(req[s])'
  <2>1. ASSUME NEW s \in Request \ {r}, req'[s].pc \in Busy PROVE Knows(req[s])'
    <3>1. req'[s] = req[s] /\ row'[KeyOf[req[s].ev]] = row[KeyOf[req[s].ev]] /\ got'[req[s].ev] = got[req[s].ev]
          /\ now' = now /\ Knows(req[s])
      BY <1>1, <1>2, <2>1 DEF Own
    <3> QED BY <3>1 DEF Knows, First
  <2> QED BY <2>1
<1>4. Sole'
  <2>1. ASSUME NEW s \in Request, NEW t \in Request, req'[s].pc \in Busy, req'[t].pc \in Busy,
               req'[s].ev = req'[t].ev
        PROVE  s = t
    <3>1. CASE s = r \/ t = r
      BY <1>2, <2>1, <3>1
    <3>2. CASE s # r /\ t # r
      BY <1>2, <2>1, <3>2 DEF OnceInv, Sole
    <3> QED BY <3>1, <3>2
  <2> QED BY <2>1 DEF Sole
<1>5. \A f \in Event : Sent(f)'
  <2>1. ASSUME NEW f \in Event, f # e PROVE Sent(f)'
    <3>1. row'[KeyOf[f]] = row[KeyOf[f]] /\ got'[f] = got[f] /\ Sent(f)
      BY <1>1, <2>1 DEF OnceInv
    <3>2. ASSUME NEW s \in Request, req[s].pc = "send", req[s].ev = f
          PROVE  req'[s].pc = "send" /\ req'[s].ev = f
      BY <2>1, <3>2 DEF Own, Alone
    <3> QED BY <3>1, <3>2 DEF Sent
  <2> QED BY <2>1
<1>6. AnsweredOnce'
  BY <1>1 DEF OnceInv, AnsweredOnce
<1> QED BY <1>3, <1>4, <1>5, <1>6 DEF OnceInv

(* r itself works on its event.                                              *)
LEMMA BusyOwns ==
  ASSUME Calm, TypeOK, OnceInv, NEW r \in Request, req[r].pc \in Busy, Alone(r), now' = now,
         \A k \in Key : k # KeyR(r) => row'[k] = row[k],
         \A e \in Event : e # req[r].ev => got'[e] = got[e]
  PROVE  Own(r)
BY DEF Own, OnceInv, Sole

(* A request that ends, or only moves on.                                    *)
LEMMA EndOnce ==
  ASSUME Calm, TypeOK, OnceInv, NEW r \in Request, NEW e \in Event, req[r].ev = e, End(r), Own(r),
         Sent(e)', \A i \in 1 .. Chunks : got'[e][i] <= 1
  PROVE  OnceInv'
<1>1. req'[r].pc = "idle"
  BY EndMoves DEF TypeOK, ReqOK, Moves
<1>2. req'[r].pc \notin Busy
  BY <1>1 DEF Busy, Holding, After, Background
<1> QED BY <1>2, OnceStep

(* The row of a request at work, marked.                                     *)
LEMMA MarkedRow ==
  ASSUME Calm, TypeOK, NEW r \in Request, req[r] \in Requests, NEW s \in {"done", "failed"}, Mark(r, s)
  PROVE  /\ \A k \in Key : k # KeyR(r) => row'[k] = row[k]
         /\ KeyR(r) \in Key
         /\ row[KeyR(r)].status # "absent" => row'[KeyR(r)].status = s
<1>1. KeyR(r) \in Key /\ KeyR(r) # NoKey
  BY DispatcherAssumption DEF Calm, KeyR, Requests
<1>2. row' = [row EXCEPT ![KeyR(r)] = Marked(row[KeyR(r)], s)]
  BY <1>1 DEF Mark
<1>3. \A old \in Rows : old.status # "absent" => Marked(old, s).status = s
  BY DEF Marked, Rows, NullTime
<1> QED BY <1>1, <1>2, <1>3 DEF TypeOK

(* What r brings to the user is no part of the answer.                       *)
Spares(r) ==
  /\ \A e \in Event : e # req[r].ev => got'[e] = got[e]
  /\ \A i \in 1 .. Chunks : got'[req[r].ev][i] = got[req[r].ev][i]

LEMMA HolderFacts ==
  ASSUME TypeOK, OnceInv, NEW r \in Request, req[r].pc \in Holding \ {"send"}
  PROVE  /\ req[r] \in Requests /\ req[r].ev \in Event /\ req[r].pc \in Busy /\ Knows(req[r])
         /\ \A i \in 1 .. Chunks : i \in Items /\ got[req[r].ev][i] = 0
<1>1. req[r].pc # "idle"
  BY DEF Holding, Background
<1>2. req[r] \in Requests
  BY <1>1, Live DEF TypeOK, ReqOK
<1>3. req[r].pc \in Busy /\ Knows(req[r])
  BY DEF OnceInv, Busy
<1>4. First(req[r]) = 1
  BY DEF First, After, Holding, Background
<1>5. \A i \in 1 .. Chunks : i \in Items
  BY DispatcherAssumption DEF Items
<1> QED BY <1>2, <1>3, <1>4, <1>5 DEF Knows, Requests

(* A holder marks its event or not and ends, without an answer.              *)
LEMMA HolderEnds ==
  ASSUME Calm, TypeOK, OnceInv, NEW r \in Request, req[r].pc \in Holding \ {"send"},
         End(r), UNCHANGED now, Spares(r), UNCHANGED row \/ Mark(r, "done") \/ Mark(r, "failed")
  PROVE  OnceInv'
<1>1. PICK e \in Event : req[r].ev = e
  BY HolderFacts
<1>2. \A k \in Key : k # KeyR(r) => row'[k] = row[k]
  BY HolderFacts, MarkedRow
<1>3. Own(r)
  BY <1>2, HolderFacts, BusyOwns, EndAlone DEF TypeOK, ReqOK, Spares
<1>4. \A i \in 1 .. Chunks : got'[e][i] = 0
  BY <1>1, HolderFacts DEF Spares
<1>5. Sent(e)'
  BY <1>4 DEF Sent
<1> QED BY <1>1, <1>3, <1>4, <1>5, EndOnce

(* A holder goes on, its row and the user's messages as they were.           *)
LEMMA HolderGoes ==
  ASSUME Calm, TypeOK, OnceInv, NEW r \in Request, req[r].pc \in Holding \ {"send"}, Alone(r),
         UNCHANGED <<now, row, got>>, req'[r].pc \in Holding, req'[r].ev = req[r].ev, req'[r].at = req[r].at,
         req'[r].pc = "send" => req'[r].item = 1, req'[r].pc = "sorry" => req'[r].item = 0
  PROVE  OnceInv'
<1>1. PICK e \in Event : req[r].ev = e
  BY HolderFacts
<1>2. Own(r)
  BY HolderFacts, BusyOwns
<1>3. \A i \in 1 .. Chunks : got'[e][i] = 0
  BY <1>1, HolderFacts
<1>4. Sent(e)'
  BY <1>3 DEF Sent
<1>5. Knows(req[r])'
  <2>1. First(req[r])' = 1
    BY DEF First, After, Holding, Background
  <2>2. \A i \in Items : i >= 1 => i \in 1 .. Chunks
    BY DEF Items
  <2>3. Knows(req[r])
    BY HolderFacts
  <2>4. req'[r].pc \notin After
    BY DEF After, Holding, Background
  <2> QED BY <1>1, <1>3, <2>1, <2>2, <2>3, <2>4 DEF Knows
<1> QED BY <1>1, <1>2, <1>3, <1>4, <1>5, OnceStep

(* A holder marks its event done and goes on to send the rest, the items     *)
(* before it having reached the user.                                        *)
LEMMA HolderAfter ==
  ASSUME Calm, TypeOK, OnceInv, NEW r \in Request, req[r].pc \in Holding \ {"send"},
         Mark(r, "done"), UNCHANGED now, NEW p \in After, NEW n \in 1 .. 2, n \in Items, StartSending(r, p, n),
         \A e \in Event : e # req[r].ev => got'[e] = got[e],
         \A i \in Items : got'[req[r].ev][i] = IF 1 <= i /\ i < n THEN 1 ELSE got[req[r].ev][i]
  PROVE  OnceInv'
<1>1. PICK e \in Event : req[r].ev = e
  BY HolderFacts
<1>2. Alone(r) /\ req'[r].pc = p /\ req'[r].ev = e /\ req'[r].item = n
  BY <1>1, HolderFacts, StartMoves DEF TypeOK, ReqOK, Moves, Alone
<1>3. /\ \A k \in Key : k # KeyR(r) => row'[k] = row[k]
      /\ row'[KeyR(r)].status = "done"
  <2>1. row[KeyR(r)].status = "processing"
    BY HolderFacts DEF Knows, KeyR
  <2> QED BY <2>1, HolderFacts, MarkedRow
<1>4. Own(r)
  BY <1>2, <1>3, HolderFacts, BusyOwns
<1>5. Sent(e)' /\ row'[KeyOf[e]].status = "done"
  BY <1>1, <1>3 DEF Sent, KeyR
<1>6. \A i \in Items : i >= n => i \in 1 .. Chunks /\ got'[e][i] = 0
  BY <1>1, HolderFacts DEF Items
<1>7. Knows(req[r])'
  <2>1. First(req[r])' = n /\ req'[r].pc \notin Holding
    BY <1>2 DEF First, After, Holding, Background
  <2>2. req'[r].pc # "sorry"
    BY <1>2 DEF After
  <2> QED BY <1>2, <1>5, <1>6, <2>1, <2>2 DEF Knows
<1>8. \A i \in 1 .. Chunks : got'[e][i] <= 1
  BY <1>1, HolderFacts
<1> QED BY <1>1, <1>2, <1>4, <1>5, <1>7, <1>8, OnceStep

(* One who is not at work moves, and does not start to.                      *)
LEMMA OutsiderMoves ==
  ASSUME OnceInv, NEW r \in Request, req[r].pc \notin Busy, Alone(r), req'[r].pc \notin Busy,
         UNCHANGED <<now, row, got>>
  PROVE  OnceInv'
<1>1. ASSUME NEW s \in Request, req'[s].pc \in Busy
      PROVE  s # r /\ req'[s] = req[s] /\ req[s].pc \in Busy
  BY <1>1 DEF Alone
<1>2. ASSUME NEW s \in Request, req'[s].pc \in Busy PROVE Knows(req[s])'
  <2>1. req'[s] = req[s] /\ Knows(req[s])
    BY <1>1, <1>2 DEF OnceInv
  <2> QED BY <2>1 DEF Knows, First
<1>3. Sole'
  BY <1>1 DEF OnceInv, Sole
<1>4. ASSUME NEW e \in Event PROVE Sent(e)'
  <2>1. ASSUME NEW s \in Request, req[s].pc = "send", req[s].ev = e
        PROVE  req'[s].pc = "send" /\ req'[s].ev = e
    <3>1. req[s].pc \in Busy
      BY <2>1 DEF Busy, Holding, Background
    <3> QED BY <2>1, <3>1 DEF Alone
  <2>2. Sent(e)
    BY DEF OnceInv
  <2> QED BY <2>1, <2>2 DEF Sent
<1>5. AnsweredOnce'
  BY DEF OnceInv, AnsweredOnce
<1> QED BY <1>2, <1>3, <1>4, <1>5 DEF OnceInv

(* While somebody works on an event, its row is not free to be claimed.      *)
LEMMA BusyBlocks ==
  ASSUME Calm, TypeOK, OnceInv, NEW s \in Request, req[s].pc \in Busy, NEW old, old = row[KeyR(s)]
  PROVE  old.status = "done" \/ LiveLease(old, now)
<1>0. Knows(req[s])
  BY DEF OnceInv
<1>1. CASE req[s].pc \in After
  BY <1>0, <1>1 DEF Knows, KeyR
<1>2. CASE req[s].pc \in Holding
  <2>1. req[s] \in Requests
    <3>1. req[s].pc # "idle"
      BY <1>2 DEF Holding, Background
    <3> QED BY <3>1, Live DEF TypeOK, ReqOK
  <2>2. old.status = "processing" /\ old.expires = req[s].at + TTL /\ now <= req[s].at + Hold
    BY <1>0, <1>2 DEF Knows, KeyR
  <2>3. req[s].at \in Nat /\ now \in Nat /\ TTL \in Nat /\ Hold \in Nat /\ Hold < TTL
    BY <2>1, TTLAssumption, DispatcherAssumption DEF Requests, TypeOK, Calm
  <2>4. old.expires > now /\ old.expires # 0
    BY <2>2, <2>3
  <2> QED BY <2>2, <2>4 DEF LiveLease, NullTime
<1> QED BY <1>1, <1>2 DEF Busy

LEMMA ClaimOnce ==
  ASSUME Calm, TypeOK, OnceInv, NEW r \in Request, Claim(r)
  PROVE  OnceInv'
<1>0. req[r].pc = "verify" /\ req[r].pc \notin Busy /\ UNCHANGED <<now, got>>
  BY DEF Claim, Busy, Holding, After, Background
<1>1. req[r] \in Requests
  BY <1>0, Live DEF TypeOK, ReqOK
<1>2. PICK e \in Event : req[r].ev = e
  BY <1>1 DEF Requests
<1>3. KeyR(r) \in Key /\ KeyR(r) # NoKey
  BY <1>2, DispatcherAssumption DEF Calm, KeyR
<1>4. CASE End(r) /\ UNCHANGED row
  <2>1. Alone(r) /\ req'[r].pc = "idle"
    BY <1>4, EndMoves DEF TypeOK, ReqOK, Moves, Alone
  <2>2. req'[r].pc \notin Busy
    BY <2>1 DEF Busy, Holding, After, Background
  <2> QED BY <1>0, <1>4, <2>1, <2>2, OutsiderMoves
<1>5. ASSUME NEW new, row' = [row EXCEPT ![KeyR(r)] = new], new.status = "processing", new.expires = now + TTL,
             row[KeyR(r)].status = "absent" \/ Reclaimable(row[KeyR(r)], now), Proceed(r)
      PROVE  OnceInv'
  <2>1. req'[r].pc = "parse" /\ req'[r].ev = e /\ req'[r].at = now /\ Alone(r)
    BY <1>1, <1>2, <1>5 DEF TypeOK, Requests, Proceed, Alone
  <2>2. \A k \in Key : k # KeyR(r) => row'[k] = row[k]
    BY <1>5 DEF TypeOK
  <2>3. row'[KeyOf[e]] = new /\ row[KeyR(r)].status # "done" /\ ~ LiveLease(row[KeyR(r)], now)
    BY <1>2, <1>3, <1>5 DEF TypeOK, KeyR, Reclaimable, LiveLease
  <2>4. \A s \in Request : req[s].pc \in Busy => req[s].ev # e
    <3>1. ASSUME NEW s \in Request, req[s].pc \in Busy, req[s].ev = e PROVE FALSE
      <4>1. row[KeyR(s)] = row[KeyR(r)]
        BY <1>2, <3>1 DEF KeyR
      <4> QED BY <2>3, <3>1, <4>1, BusyBlocks
    <3> QED BY <3>1
  <2>5. Own(r)
    BY <1>0, <1>2, <2>1, <2>2, <2>4 DEF Own
  <2>6. \A i \in 1 .. Chunks : got'[e][i] = 0
    <3>1. \A s \in Request : ~ (req[s].pc = "send" /\ req[s].ev = e)
      BY <2>4 DEF Busy, Holding, Background
    <3>2. Sent(e)
      BY DEF OnceInv
    <3> QED BY <1>0, <1>2, <2>3, <3>1, <3>2 DEF Sent, KeyR
  <2>7. Sent(e)'
    BY <2>6 DEF Sent
  <2>8. Knows(req[r])'
    <3>1. First(req[r])' = 1 /\ req'[r].pc \notin After /\ req'[r].pc # "sorry"
      BY <2>1 DEF First, After
    <3>2. \A i \in Items : i >= 1 => i \in 1 .. Chunks
      BY DEF Items
    <3>3. now <= now + Hold /\ now' = now
      BY <1>0, DispatcherAssumption DEF TypeOK
    <3> QED BY <1>5, <2>1, <2>3, <2>6, <3>1, <3>2, <3>3 DEF Knows
  <2> QED BY <1>2, <2>1, <2>5, <2>6, <2>7, <2>8, OnceStep
<1>6. CASE row[KeyR(r)].status = "absent" /\ row' = [row EXCEPT ![KeyR(r)] = NewRow(now)] /\ Proceed(r)
  <2>1. NewRow(now).status = "processing" /\ NewRow(now).expires = now + TTL
    BY DEF NewRow
  <2> QED BY <1>5, <1>6, <2>1
<1>7. CASE /\ Reclaimable(row[KeyR(r)], now) /\ Proceed(r)
           /\ row' = [row EXCEPT ![KeyR(r)] = ReclaimedRow(row[KeyR(r)], now)]
  <2>1. \A old : ReclaimedRow(old, now).status = "processing" /\ ReclaimedRow(old, now).expires = now + TTL
    BY DEF ReclaimedRow
  <2> QED BY <1>5, <1>7, <2>1
<1> QED BY <1>3, <1>4, <1>6, <1>7 DEF Claim, Refuse

LEMMA EnterOnce ==
  ASSUME Calm, TypeOK, OnceInv, NEW r \in Request, req[r].pc \in Holding \ {"send"}, EnterBackground(r),
         UNCHANGED <<now, got>>
  PROVE  OnceInv'
<1>1. CASE Mark(r, "failed") /\ Refuse(r)
  BY <1>1, HolderEnds DEF Refuse, Spares
<1>2. CASE Goto(r, "queued") /\ UNCHANGED row
  <2>1. Moves(r, "queued") /\ req'[r] = [req[r] EXCEPT !.pc = "queued"]
    BY <1>2, HolderFacts, GotoMoves DEF TypeOK, ReqOK
  <2>2. req'[r].pc = "queued" /\ req'[r].ev = req[r].ev /\ req'[r].at = req[r].at /\ Alone(r)
    BY <2>1, HolderFacts DEF Requests, Moves, Alone
  <2>3. req'[r].pc \in Holding
    BY <2>2 DEF Holding, Background
  <2> QED BY <1>2, <2>2, <2>3, HolderGoes
<1> QED BY <1>1, <1>2 DEF EnterBackground

LEMMA StartFields ==
  ASSUME TypeOK, NEW r \in Request, req[r] \in Requests, NEW p, NEW i, StartSending(r, p, i)
  PROVE  /\ Alone(r) /\ req'[r].pc = p /\ req'[r].ev = req[r].ev /\ req'[r].item = i
         /\ req'[r].at = req[r].at
<1>1. Alone(r) /\ req'[r].pc = p /\ req'[r].ev = req[r].ev /\ req'[r].item = i
  BY StartMoves DEF TypeOK, ReqOK, Moves, Alone
<1>2. req'[r] = [req[r] EXCEPT !.pc = p, !.item = i, !.try = 1]
  BY DEF TypeOK, StartSending
<1>3. [req[r] EXCEPT !.pc = p, !.item = i, !.try = 1].at = req[r].at
  BY DEF Requests
<1> QED BY <1>1, <1>2, <1>3

LEMMA ParseOnce ==
  ASSUME Calm, TypeOK, OnceInv, NEW r \in Request, Parse(r)
  PROVE  OnceInv'
<1>1. req[r].pc = "parse" /\ UNCHANGED <<now, got>> /\ Spares(r)
  BY DEF Parse, Spares
<1>2. req[r].pc \in Holding \ {"send"}
  BY <1>1 DEF Holding
<1>3. CASE End(r) /\ (UNCHANGED row \/ Mark(r, "done") \/ Mark(r, "failed"))
  BY <1>1, <1>2, <1>3, HolderEnds
<1>4. CASE Mark(r, "done") /\ StartSending(r, "canned", 1)
  <2>1. "canned" \in After /\ 1 \in 1 .. 2 /\ 1 \in Items
    BY DispatcherAssumption DEF After, Items
  <2>2. \A i \in Items : got'[req[r].ev][i] = IF 1 <= i /\ i < 1 THEN 1 ELSE got[req[r].ev][i]
    BY <1>1 DEF Items
  <2> QED BY <1>1, <1>2, <1>4, <2>1, <2>2, HolderAfter
<1>5. CASE Goto(r, "sync") /\ UNCHANGED row
  <2>1. Moves(r, "sync") /\ req'[r] = [req[r] EXCEPT !.pc = "sync"]
    BY <1>2, <1>5, HolderFacts, GotoMoves DEF TypeOK, ReqOK
  <2>2. req'[r].pc = "sync" /\ req'[r].ev = req[r].ev /\ req'[r].at = req[r].at /\ Alone(r)
    BY <1>2, <2>1, HolderFacts DEF Requests, Moves, Alone
  <2>3. req'[r].pc \in Holding
    BY <2>2 DEF Holding
  <2> QED BY <1>1, <1>2, <1>5, <2>2, <2>3, HolderGoes
<1>6. CASE EnterBackground(r)
  BY <1>1, <1>2, <1>6, EnterOnce
<1> QED BY <1>3, <1>4, <1>5, <1>6 DEF Parse, Refuse

(* What an answer in the response brings.                                    *)
LEMMA ReplyBrings ==
  ASSUME Calm, TypeOK, NEW r \in Request, req[r] \in Requests, NEW i \in Items, Reply(r, i)
  PROVE  /\ \A e \in Event : e # req[r].ev => got'[e] = got[e]
         /\ got'[req[r].ev][i] = got[req[r].ev][i] + 1
         /\ \A j \in Items : j # i => got'[req[r].ev][j] = got[req[r].ev][j]
<1>1. got' = [got EXCEPT ![req[r].ev][i] = got[req[r].ev][i] + 1]
  BY DEF Reply, Calm
<1> QED BY <1>1 DEF TypeOK, Requests

LEMMA SyncOnce ==
  ASSUME Calm, TypeOK, OnceInv, NEW r \in Request,
         SyncAnswer(r) \/ SyncFormatError(r) \/ SyncAgentError(r) \/ SyncTimeout(r)
  PROVE  OnceInv'
<1>1. req[r].pc = "sync" /\ UNCHANGED now
  BY DEF SyncAnswer, SyncFormatError, SyncAgentError, SyncTimeout
<1>2. req[r].pc \in Holding \ {"send"}
  BY <1>1 DEF Holding
<1>0. 0 \in Items /\ 1 \in Items /\ Chunks \in Nat
  BY DispatcherAssumption DEF Items
<1>3. CASE SyncAnswer(r)
  <2>1. Mark(r, "done") /\ Reply(r, 1)
    BY <1>3 DEF SyncAnswer
  <2>2. /\ \A e \in Event : e # req[r].ev => got'[e] = got[e]
        /\ got'[req[r].ev][1] = got[req[r].ev][1] + 1
        /\ \A j \in Items : j # 1 => got'[req[r].ev][j] = got[req[r].ev][j]
    BY <1>0, <1>2, <2>1, HolderFacts, ReplyBrings
  <2>3. got'[req[r].ev][1] = 1
    <3>1. 1 \in 1 .. Chunks
      BY <1>0, DispatcherAssumption
    <3> QED BY <1>2, <2>2, <3>1, HolderFacts
  <2>4. CASE Chunks > 1 /\ StartSending(r, "extra", 2)
    <3>1. "extra" \in After /\ 2 \in 1 .. 2 /\ 2 \in Items
      BY <1>0, <2>4 DEF After, Items
    <3>2. \A i \in Items : got'[req[r].ev][i] = IF 1 <= i /\ i < 2 THEN 1 ELSE got[req[r].ev][i]
      BY <2>2, <2>3 DEF Items
    <3> QED BY <1>1, <1>2, <2>1, <2>2, <2>4, <3>1, <3>2, HolderAfter
  <2>5. CASE Chunks = 1 /\ End(r)
    <3>1. PICK e \in Event : req[r].ev = e
      BY <1>2, HolderFacts
    <3>2. row'[KeyR(r)].status = "done" /\ \A k \in Key : k # KeyR(r) => row'[k] = row[k]
      <4>1. row[KeyR(r)].status = "processing"
        BY <1>2, HolderFacts DEF Knows, KeyR
      <4> QED BY <1>2, <2>1, <4>1, HolderFacts, MarkedRow
    <3>3. Own(r)
      BY <1>1, <1>2, <2>2, <2>5, <3>2, HolderFacts, BusyOwns, EndAlone DEF TypeOK, ReqOK
    <3>4. Sent(e)'
      BY <3>1, <3>2 DEF Sent, KeyR
    <3>5. \A i \in 1 .. Chunks : got'[e][i] <= 1
      BY <2>3, <2>5, <3>1
    <3> QED BY <3>1, <2>5, <3>3, <3>4, <3>5, EndOnce
  <2> QED BY <1>3, <2>4, <2>5 DEF SyncAnswer
<1>4. CASE SyncFormatError(r)
  BY <1>1, <1>2, <1>4, HolderEnds DEF SyncFormatError, Refuse, Spares
<1>5. CASE SyncAgentError(r)
  <2>1. End(r) /\ Mark(r, "failed") /\ (Reply(r, 0) \/ UNCHANGED got)
    BY <1>5 DEF SyncAgentError, Refuse
  <2>2. Spares(r)
    <3>1. CASE Reply(r, 0)
      <4>1. /\ \A e \in Event : e # req[r].ev => got'[e] = got[e]
            /\ \A j \in Items : j # 0 => got'[req[r].ev][j] = got[req[r].ev][j]
        BY <1>0, <1>2, <3>1, HolderFacts, ReplyBrings
      <4>2. \A j \in 1 .. Chunks : j \in Items /\ j # 0
        BY <1>0 DEF Items
      <4> QED BY <4>1, <4>2 DEF Spares
    <3>2. CASE UNCHANGED got
      BY <3>2 DEF Spares
    <3> QED BY <2>1, <3>1, <3>2
  <2> QED BY <1>1, <1>2, <2>1, <2>2, HolderEnds
<1>6. CASE SyncTimeout(r)
  BY <1>1, <1>2, <1>6, EnterOnce DEF SyncTimeout
<1> QED BY <1>3, <1>4, <1>5, <1>6

LEMMA BackgroundOnce ==
  ASSUME Calm, TypeOK, OnceInv, NEW r \in Request, StartBackground(r) \/ AgentReturns(r)
  PROVE  OnceInv'
<1>1. req[r].pc \in {"queued", "agent"} /\ UNCHANGED <<now, row, got>> /\ Spares(r)
  BY DEF StartBackground, AgentReturns, Spares
<1>2. req[r].pc \in Holding \ {"send"}
  BY <1>1 DEF Holding, Background
<1>3. CASE End(r)
  BY <1>1, <1>2, <1>3, HolderEnds
<1>4. CASE Goto(r, "agent")
  <2>1. Moves(r, "agent") /\ req'[r] = [req[r] EXCEPT !.pc = "agent"]
    BY <1>2, <1>4, HolderFacts, GotoMoves DEF TypeOK, ReqOK
  <2>2. req'[r].pc = "agent" /\ req'[r].ev = req[r].ev /\ req'[r].at = req[r].at /\ Alone(r)
    BY <1>2, <2>1, HolderFacts DEF Requests, Moves, Alone
  <2>3. req'[r].pc \in Holding
    BY <2>2 DEF Holding, Background
  <2> QED BY <1>1, <1>2, <2>2, <2>3, HolderGoes
<1>5. ASSUME NEW p \in {"send", "sorry"}, NEW i, StartSending(r, p, i), p = "send" => i = 1, p = "sorry" => i = 0
      PROVE  OnceInv'
  <2>1. Alone(r) /\ req'[r].pc = p /\ req'[r].ev = req[r].ev /\ req'[r].item = i /\ req'[r].at = req[r].at
    BY <1>2, <1>5, HolderFacts, StartFields
  <2>2. req'[r].pc \in Holding
    BY <2>1 DEF Holding, Background
  <2> QED BY <1>1, <1>2, <1>5, <2>1, <2>2, HolderGoes
<1>6. CASE StartSending(r, "send", 1)
  BY <1>5, <1>6
<1>7. CASE StartSending(r, "sorry", 0)
  BY <1>5, <1>7
<1> QED BY <1>3, <1>4, <1>6, <1>7 DEF StartBackground, LeaveBackground, AgentReturns

LEMMA EscapesOnce ==
  ASSUME Calm, TypeOK, OnceInv, NEW r \in Request, Escapes(r)
  PROVE  OnceInv'
<1>1. UNCHANGED <<now, row, got>> /\ Spares(r) /\ End(r)
  BY DEF Escapes, LeaveBackground, Spares
<1>2. req[r].pc \in Holding \ {"send"}
  BY DEF Escapes, Holding, Background
<1> QED BY <1>1, <1>2, HolderEnds

(* The apology counts for nothing; another item is new to the user.          *)
LEMMA SendingOnce ==
  ASSUME Calm, TypeOK, OnceInv, NEW r \in Request, SkipSend(r) \/ SendOK(r)
  PROVE  OnceInv'
<1>1. /\ req[r].pc \in Sending /\ UNCHANGED now /\ AfterSend(r)
      /\ (UNCHANGED got /\ req[r].pc \in After) \/ Receives(r)
  BY DEF SkipSend, SendOK, ChannelGone, Sending, After
<1>2. req[r].pc \in Busy /\ req[r].pc # "idle"
  BY <1>1 DEF Sending, Busy, Holding, After, Background
<1>3. req[r] \in Requests /\ Knows(req[r])
  BY <1>2, Live DEF TypeOK, ReqOK, OnceInv
<1>4. PICK e \in Event : req[r].ev = e
  BY <1>3 DEF Requests
<1> DEFINE n == req[r].item
<1>5. n \in Items /\ Chunks \in Nat /\ \A i \in 1 .. Chunks : i \in Items
  BY <1>3, DispatcherAssumption DEF Requests, Items
<1>6. /\ \A f \in Event : f # e => got'[f] = got[f]
      /\ \A i \in Items : i # n => got'[e][i] = got[e][i]
      /\ got'[e][n] = got[e][n] \/ got'[e][n] = got[e][n] + 1
  <2>1. CASE Receives(r)
    <3>1. got' = [got EXCEPT ![e][n] = got[e][n] + 1]
      BY <1>4, <2>1 DEF Receives
    <3> QED BY <1>5, <3>1 DEF TypeOK
  <2> QED BY <1>1, <2>1
<1>7. CASE req[r].pc = "sorry"
  <2>1. n = 0
    BY <1>3, <1>7 DEF Knows
  <2>2. Spares(r)
    BY <1>4, <1>5, <1>6, <2>1 DEF Spares
  <2>3. End(r) /\ Mark(r, "failed")
    BY <1>1, <1>7 DEF AfterSend, LeaveBackground
  <2>4. req[r].pc \in Holding \ {"send"}
    BY <1>7 DEF Holding, Background
  <2> QED BY <1>1, <2>2, <2>3, <2>4, HolderEnds
<1>8. CASE req[r].pc \in {"send"} \cup After
  <2>1. n >= 1 /\ \A i \in Items : i >= n => got[e][i] = 0
    BY <1>3, <1>4, <1>8 DEF Knows, First
  <2>2. got'[e][n] <= 1 /\ \A i \in Items : i > n => got'[e][i] = 0
    BY <1>5, <1>6, <2>1 DEF Items
  <2>3. \A i \in 1 .. Chunks : got'[e][i] <= 1
    BY <1>5, <1>6, <2>2 DEF OnceInv, AnsweredOnce
  <2>4. CASE StartSending(r, req[r].pc, n + 1) /\ n < Chunks /\ UNCHANGED row /\ req[r].pc # "canned"
    <3>1. Alone(r) /\ req'[r].pc = req[r].pc /\ req'[r].ev = e /\ req'[r].item = n + 1 /\ req'[r].at = req[r].at
      BY <1>3, <1>4, <2>4, StartFields
    <3>2. Own(r)
      BY <1>1, <1>2, <1>4, <1>6, <2>4, <3>1, BusyOwns
    <3>3. Knows(req[r])'
      <4>1. First(req[r])' = n + 1
        BY <1>8, <3>1 DEF First
      <4>2. n + 1 >= 1 /\ \A i \in Items : i >= n + 1 => got'[e][i] = 0
        BY <1>5, <2>2 DEF Items
      <4>3. req'[r].pc # "sorry" /\ row' = row /\ now' = now
        BY <1>1, <1>8, <2>4, <3>1 DEF After
      <4> QED BY <1>3, <1>4, <3>1, <4>1, <4>2, <4>3 DEF Knows
    <3>4. Sent(e)'
      <4>1. CASE req[r].pc = "send"
        BY <3>1, <4>1 DEF Sent
      <4>2. CASE req[r].pc \in After
        BY <1>3, <1>4, <2>4, <4>2 DEF Knows, Sent
      <4> QED BY <1>8, <4>1, <4>2
    <3> QED BY <1>4, <2>3, <3>1, <3>2, <3>3, <3>4, OnceStep
  <2>5. CASE /\ End(r)
             /\ \/ Mark(r, "done") /\ req[r].pc = "send"
                \/ UNCHANGED row /\ req[r].pc \in After
    <3>1. Alone(r)
      BY <2>5, EndAlone DEF TypeOK, ReqOK
    <3>2. row'[KeyOf[e]].status = "done" /\ \A k \in Key : k # KeyR(r) => row'[k] = row[k]
      <4>1. CASE Mark(r, "done") /\ req[r].pc = "send"
        <5>1. row[KeyR(r)].status = "processing"
          BY <1>3, <4>1 DEF Knows, KeyR, Holding, Background
        <5> QED BY <1>3, <1>4, <4>1, <5>1, MarkedRow DEF KeyR
      <4>2. CASE UNCHANGED row /\ req[r].pc \in After
        BY <1>3, <1>4, <4>2 DEF Knows
      <4> QED BY <2>5, <4>1, <4>2
    <3>3. Own(r)
      BY <1>1, <1>2, <1>4, <1>6, <3>1, <3>2, BusyOwns
    <3>4. Sent(e)'
      BY <3>2 DEF Sent
    <3> QED BY <1>4, <2>3, <2>5, <3>3, <3>4, EndOnce
  <2>6. CASE req[r].pc = "send"
    <3>1. CASE n < Chunks /\ StartSending(r, req[r].pc, n + 1) /\ UNCHANGED row
      BY <2>4, <2>6, <3>1
    <3>2. CASE n = Chunks /\ Mark(r, "done") /\ LeaveBackground(r)
      <4>1. End(r) /\ Mark(r, "done") /\ req[r].pc = "send"
        BY <2>6, <3>2 DEF LeaveBackground
      <4> QED BY <2>5, <4>1
    <3> QED BY <1>1, <2>6, <3>1, <3>2 DEF AfterSend
  <2>7. CASE req[r].pc = "extra"
    <3>1. \/ StartSending(r, req[r].pc, n + 1) /\ n < Chunks /\ UNCHANGED row
          \/ End(r) /\ UNCHANGED row
      BY <1>1, <2>7 DEF AfterSend
    <3> QED BY <2>4, <2>5, <2>7, <3>1 DEF After
  <2>8. CASE req[r].pc = "canned"
    <3>1. End(r) /\ UNCHANGED row
      BY <1>1, <2>8 DEF AfterSend
    <3> QED BY <2>5, <2>8, <3>1 DEF After
  <2> QED BY <1>8, <2>6, <2>7, <2>8 DEF After
<1> QED BY <1>1, <1>7, <1>8 DEF Sending, After

LEMMA HandleOnce ==
  ASSUME Calm, TypeOK, OnceInv, NEW r \in Request, Handle(r)
  PROVE  OnceInv'
<1>1. ~ SendRetry(r) /\ ~ SendFails(r)
  BY DEF Calm, SendRetry, SendFails
<1> QED BY <1>1, ClaimOnce, ParseOnce, SyncOnce, EscapesOnce, BackgroundOnce, SendingOnce DEF Handle

LEMMA ReceiveOnce ==
  ASSUME TypeOK, OnceInv, NEW r \in Request, NEW e \in Event, Receive(r, e)
  PROVE  OnceInv'
<1>1. UNCHANGED <<now, row, got>> /\ Alone(r) /\ req[r].pc = "idle" /\ req'[r].pc \in {"idle", "verify"}
  BY DEF Receive, Alone, Idle, TypeOK
<1> QED BY <1>1, OutsiderMoves DEF Busy, Holding, After, Background

(* The clock goes on only while nobody is beyond Hold.                       *)
LEMMA OthersOnce ==
  ASSUME TypeOK, OnceInv, UNCHANGED <<row, req, got>>,
         now' = now \/ Tick
  PROVE  OnceInv'
<1>1. ASSUME NEW r \in Request, req'[r].pc \in Busy PROVE Knows(req[r])'
  <2>1. req'[r] = req[r] /\ Knows(req[r])
    BY <1>1 DEF OnceInv
  <2>2. req[r] \in Requests
    <3>1. req[r].pc # "idle"
      BY <1>1, <2>1 DEF Busy, Holding, After, Background
    <3> QED BY <3>1, Live DEF TypeOK, ReqOK
  <2>3. now' = now \/ (now < req[r].at + Hold /\ now' = now + 1)
    <3>1. req[r] # Idle
      BY <1>1, <2>1 DEF Idle, Busy, Holding, After, Background
    <3> QED BY <3>1 DEF Tick
  <2>4. req[r].at \in Nat /\ now \in Nat /\ Hold \in Nat
    BY <2>2, DispatcherAssumption DEF Requests, TypeOK
  <2>5. now <= req[r].at + Hold => now' <= req[r].at + Hold
    BY <2>3, <2>4
  <2> QED BY <2>1, <2>5 DEF Knows, First
<1>2. Sole' /\ AnsweredOnce' /\ \A e \in Event : Sent(e)'
  BY DEF OnceInv, Sole, AnsweredOnce, Sent
<1> QED BY <1>1, <1>2 DEF OnceInv

(* Nobody is answered twice, whatever the number of requests, redeliveries,  *)
(* events and chunks, while nothing that Calm rules out happens.             *)
THEOREM NeverTwice ==
  ASSUME Calm
  PROVE  Spec => []AnsweredOnce
<1>1. Init => OnceInv
  <2> SUFFICES ASSUME Init PROVE OnceInv
    OBVIOUS
  <2>1. \A r \in Request : req[r].pc = "idle" /\ req[r].pc \notin Busy
    BY DEF Init, Idle, Busy, Holding, After, Background
  <2>2. \A e \in Event, i \in 1 .. Chunks : got[e][i] = 0
    BY DispatcherAssumption DEF Init, Items
  <2> QED BY <2>1, <2>2 DEF OnceInv, Sole, Sent, AnsweredOnce
<1>2. TypeOK /\ OnceInv /\ [Next]_vars => OnceInv'
  <2> SUFFICES ASSUME TypeOK, OnceInv, [Next]_vars PROVE OnceInv'
    OBVIOUS
  <2>1. ~ Crash
    BY DEF Calm, Crash
  <2>2. CASE \E r \in Request : Handle(r) \/ \E e \in Event : Receive(r, e)
    BY <2>2, HandleOnce, ReceiveOnce
  <2>3. CASE \/ \E c \in Channel, s \in ChannelStates : SetChannel(c, s)
             \/ Tick \/ UNCHANGED vars
    BY <2>3, OthersOnce DEF SetChannel, Tick, vars
  <2> QED BY <2>1, <2>2, <2>3 DEF Next
<1>3. OnceInv => AnsweredOnce
  BY DEF OnceInv
<1> QED BY <1>1, <1>2, <1>3, TypeCorrect, PTL DEF Spec
=============================================================================
