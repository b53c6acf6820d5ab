------------------------ MODULE WebhookDedupeProofs ------------------------
(***************************************************************************)
(* Proofs about WebhookDedupe, for any number of deliveries and events and *)
(* any TTL.  The two assumptions of the claim protocol are stated where a  *)
(* theorem needs them: Hold < TTL (a delivery ends before its lease does)  *)
(* and ~ CleanupOn (no row is deleted).                                    *)
(***************************************************************************)
EXTENDS WebhookDedupe, TLAPS

WellFormed(r) == r.status = "processing" <=> r.expires # NullTime

(* The rows that the statements of claim, mark_done and mark_failed write    *)
(* have the type of a row and carry an expiry exactly while processing.      *)
LEMMA RowsWritten ==
  ASSUME NEW t \in Nat, NEW r \in Rows
  PROVE  /\ NoRow \in Rows /\ WellFormed(NoRow)
         /\ NewRow(t) \in Rows /\ WellFormed(NewRow(t))
         /\ ReclaimedRow(r, t) \in Rows /\ WellFormed(ReclaimedRow(r, t))
         /\ \A s \in {"done", "failed"} :
              Marked(r, s) \in Rows /\ (WellFormed(r) => WellFormed(Marked(r, s)))
<1> USE TTLAssumption DEF Rows, Statuses, WellFormed, NullTime
<1>1. NoRow \in Rows /\ WellFormed(NoRow)
  BY DEF NoRow
<1>2. NewRow(t) \in Rows /\ WellFormed(NewRow(t))
  BY DEF NewRow
<1>3. ReclaimedRow(r, t) \in Rows /\ WellFormed(ReclaimedRow(r, t))
  BY DEF ReclaimedRow
<1>4. ASSUME NEW s \in {"done", "failed"}
      PROVE  Marked(r, s) \in Rows /\ (WellFormed(r) => WellFormed(Marked(r, s)))
  BY DEF Marked
<1> QED
  BY <1>1, <1>2, <1>3, <1>4

(* Type correctness, for every value of the constants. *)
THEOREM TypeCorrect == Spec => []TypeOK
<1> DEFINE Types ==
      /\ now \in Nat
      /\ row \in [Event -> Rows]
      /\ deliveries \in [Event -> Nat]
      /\ pc \in [Worker -> PCs]
      /\ ev \in [Worker -> Event]
      /\ at \in [Worker -> Nat]
      /\ old \in [Worker -> Rows]
      /\ token \in [Worker -> Nat]
<1> DEFINE Shape == \A e \in Event : WellFormed(row[e])
<1>0. TypeOK <=> Types /\ Shape
  BY DEF TypeOK, WellFormed
<1>1. Init => TypeOK
  <2> SUFFICES ASSUME Init PROVE Types /\ Shape
    BY <1>0
  <2>1. NoRow \in Rows /\ WellFormed(NoRow)
    BY DEF NoRow, Rows, Statuses, WellFormed, NullTime
  <2> QED
    BY <2>1 DEF Init, PCs
<1>2. TypeOK /\ [Next]_vars => TypeOK'
  <2> SUFFICES ASSUME Types, Shape, [Next]_vars PROVE Types' /\ Shape'
    BY DEF TypeOK, WellFormed
  <2> USE DEF PCs
  <2>1. ASSUME NEW w \in Worker, NEW e \in Event, Arrive(w, e)
        PROVE  Types' /\ Shape'
    BY <2>1 DEF Arrive
  <2>2. ASSUME NEW w \in Worker, Insert(w) PROVE Types' /\ Shape'
    <3>1. NewRow(at[w]) \in Rows /\ WellFormed(NewRow(at[w]))
      BY RowsWritten, row[ev[w]] \in Rows
    <3> QED
      BY <2>2, <3>1 DEF Insert
  <2>3. ASSUME NEW w \in Worker, Select(w) PROVE Types' /\ Shape'
    BY <2>3 DEF Select
  <2>4. ASSUME NEW w \in Worker, Reclaim(w) PROVE Types' /\ Shape'
    <3> DEFINE r == ReclaimedRow(old[w], at[w])
    <3>1. r \in Rows /\ WellFormed(r)
      BY RowsWritten
    <3>2. old[w].attempts + 1 \in Nat
      BY DEF Rows
    <3> HIDE DEF r
    <3> QED
      BY <2>4, <3>1, <3>2 DEF Reclaim, r
  <2>5. ASSUME NEW w \in Worker, MarkDone(w) \/ MarkFailed(w)
        PROVE  Types' /\ Shape'
    <3>1. PICK s \in {"done", "failed"} :
            row' = [row EXCEPT ![ev[w]] = Marked(row[ev[w]], s)]
      BY <2>5 DEF MarkDone, MarkFailed
    <3>2. Marked(row[ev[w]], s) \in Rows /\ WellFormed(Marked(row[ev[w]], s))
      BY RowsWritten, row[ev[w]] \in Rows, WellFormed(row[ev[w]]), now \in Nat
    <3>3. pc' \in [Worker -> PCs] /\ UNCHANGED <<now, deliveries, ev, at, old, token>>
      BY <2>5 DEF MarkDone, MarkFailed
    <3> QED
      BY <3>1, <3>2, <3>3
  <2>6. ASSUME NEW w \in Worker, Crash(w) \/ Restart(w)
        PROVE  Types' /\ Shape'
    BY <2>6 DEF Crash, Restart
  <2>7. CASE Cleanup
    <3>1. NoRow \in Rows /\ WellFormed(NoRow)
      BY DEF NoRow, Rows, Statuses, WellFormed, NullTime
    <3> QED
      BY <2>7, <3>1 DEF Cleanup
  <2>8. CASE Tick
    BY <2>8 DEF Tick
  <2>9. CASE UNCHANGED vars
    BY <2>9 DEF vars
  <2> QED
    BY <2>1, <2>2, <2>3, <2>4, <2>5, <2>6, <2>7, <2>8, <2>9 DEF Next
<1> QED
  BY <1>1, <1>2, PTL DEF Spec

-----------------------------------------------------------------------------

(* A row that is being processed expires TTL after it was received: both are *)
(* written by the same statements.                                           *)
Dated(r) == r.status = "processing" => r.expires = r.received + TTL

RowsDated == \A e \in Event : Dated(row[e])

LEMMA DatedRows ==
  ASSUME NEW t \in Nat, NEW r \in Rows
  PROVE  /\ Dated(NoRow) /\ Dated(NewRow(t)) /\ Dated(ReclaimedRow(r, t))
         /\ NewRow(t).status # "absent" /\ ReclaimedRow(r, t).status # "absent"
         /\ \A s \in {"done", "failed"} :
              /\ Dated(Marked(r, s))
              /\ Marked(r, s).status = "absent" => r.status = "absent"
<1>1. Dated(NoRow) /\ Dated(NewRow(t)) /\ NewRow(t).status # "absent"
  BY DEF Dated, NoRow, NewRow
<1>2. Dated(ReclaimedRow(r, t)) /\ ReclaimedRow(r, t).status # "absent"
  BY DEF Dated, ReclaimedRow
<1>3. ASSUME NEW s \in {"done", "failed"}
      PROVE  Dated(Marked(r, s)) /\ (Marked(r, s).status = "absent" => r.status = "absent")
  BY DEF Dated, Marked, Rows, Statuses
<1> QED
  BY <1>1, <1>2, <1>3

(* Every statement that writes a row keeps it dated, and only cleanup takes  *)
(* a row away.                                                               *)
LEMMA RowSteps ==
  ASSUME TypeOK, RowsDated, [Next]_vars
  PROVE  /\ RowsDated'
         /\ \A e \in Event : row[e].status # "absent" /\ row'[e].status = "absent"
                             => Outdated(row[e], now, Retention)
<1> DEFINE Stays == \A e \in Event : row'[e].status = "absent" => row[e].status = "absent"
<1> USE DEF TypeOK, RowsDated
<1>1. ASSUME NEW w \in Worker, NEW r \in Rows, row' = [row EXCEPT ![ev[w]] = r], Dated(r),
             r.status = "absent" => row[ev[w]].status = "absent"
      PROVE  RowsDated' /\ Stays
  BY <1>1 DEF Dated
<1>2. ASSUME row' = row PROVE RowsDated' /\ Stays
  BY <1>2 DEF Dated
<1>3. ASSUME NEW w \in Worker, Insert(w) PROVE RowsDated' /\ Stays
  <2>1. NewRow(at[w]) \in Rows /\ Dated(NewRow(at[w])) /\ NewRow(at[w]).status # "absent"
    BY RowsWritten, DatedRows, row[ev[w]] \in Rows
  <2>2. row' = row \/ row' = [row EXCEPT ![ev[w]] = NewRow(at[w])]
    BY <1>3 DEF Insert
  <2> QED
    BY <1>1, <1>2, <2>1, <2>2
<1>4. ASSUME NEW w \in Worker, Reclaim(w) PROVE RowsDated' /\ Stays
  <2> DEFINE r == ReclaimedRow(old[w], at[w])
  <2>1. r \in Rows /\ Dated(r) /\ r.status # "absent"
    BY RowsWritten, DatedRows
  <2>2. row' = row \/ row' = [row EXCEPT ![ev[w]] = r]
    BY <1>4 DEF Reclaim
  <2> HIDE DEF r
  <2> QED
    BY <1>1, <1>2, <2>1, <2>2
<1>5. ASSUME NEW w \in Worker, MarkDone(w) \/ MarkFailed(w) PROVE RowsDated' /\ Stays
  <2>1. PICK s \in {"done", "failed"} : row' = [row EXCEPT ![ev[w]] = Marked(row[ev[w]], s)]
    BY <1>5 DEF MarkDone, MarkFailed
  <2>2. /\ Marked(row[ev[w]], s) \in Rows /\ Dated(Marked(row[ev[w]], s))
        /\ Marked(row[ev[w]], s).status = "absent" => row[ev[w]].status = "absent"
    BY RowsWritten, DatedRows, row[ev[w]] \in Rows, now \in Nat
  <2> QED
    BY <1>1, <2>1, <2>2
<1>6. CASE Cleanup
  <2>1. Dated(NoRow)
    BY DEF Dated, NoRow
  <2>2. \A e \in Event : row'[e] = IF Outdated(row[e], now, Retention) THEN NoRow ELSE row[e]
    BY <1>6 DEF Cleanup
  <2> QED
    BY <2>1, <2>2 DEF Dated
<1>7. ASSUME NEW w \in Worker,
             (\E e \in Event : Arrive(w, e)) \/ Select(w) \/ Crash(w) \/ Restart(w)
      PROVE  row' = row
  BY <1>7 DEF Arrive, Select, Crash, Restart
<1>8. CASE Tick \/ UNCHANGED vars
  <2>1. row' = row
    BY <1>8 DEF Tick, vars
  <2> QED
    BY <1>2, <2>1
<1> QED
  BY <1>2, <1>3, <1>4, <1>5, <1>6, <1>7, <1>8 DEF Next

(* When rows are kept for a lease at least, cleanup deletes none whose lease *)
(* is still running, however often its event was taken over.                 *)
THEOREM LeasesOutliveCleanup ==
  ASSUME TTL <= Retention
  PROVE  Spec => LiveLeaseSurvivesCleanup
<1>1. Init => RowsDated
  BY DEF Init, RowsDated, Dated, NoRow
<1>2. TypeOK /\ RowsDated /\ [Next]_vars => RowsDated'
  BY RowSteps
<1>3. ASSUME TypeOK, RowsDated, [Next]_vars
      PROVE  [\A e \in Event : LiveLease(row[e], now) => row'[e].status # "absent"]_vars
  <2> SUFFICES ASSUME NEW e \in Event, LiveLease(row[e], now), row'[e].status = "absent"
               PROVE  FALSE
    OBVIOUS
  <2>1. row[e].status = "processing" /\ row[e].expires > now
    BY DEF LiveLease
  <2>2. row[e].received + Retention < now
    BY <1>3, <2>1, RowSteps DEF Outdated
  <2>3. row[e].expires = row[e].received + TTL
    BY <1>3, <2>1 DEF RowsDated, Dated
  <2>4. row[e].received \in Nat /\ now \in Nat /\ TTL \in Nat /\ Retention \in Nat
    BY <1>3, TTLAssumption, ConstantsAssumption DEF TypeOK, Rows
  <2> QED
    BY <2>1, <2>2, <2>3, <2>4
<1> QED
  BY <1>1, <1>2, <1>3, TypeCorrect, PTL DEF Spec, LiveLeaseSurvivesCleanup

-----------------------------------------------------------------------------

(* Without deletions a delivery that was refused by the INSERT finds a row,  *)
(* and the successful claims of an event carry increasing attempts values:   *)
(* none is above the row's, and no two running deliveries have the same.     *)
RowPresent == \A w \in Worker :
  pc[w] \in {"select", "update", "running"} => row[ev[w]].status # "absent"

Fenced == \A w \in Worker :
  pc[w] = "running" => token[w] > 0 /\ token[w] <= row[ev[w]].attempts

UpdateOfReclaimable == \A w \in Worker :
  pc[w] = "update" => Reclaimable(old[w], at[w])

TokenInv == RowPresent /\ Fenced /\ UpdateOfReclaimable /\ OneWinnerPerAttempt

(* Without deletions every step keeps the four parts together.               *)
LEMMA TokenInvInductive ==
  ASSUME ~ CleanupOn, TypeOK, TypeOK', TokenInv, [Next]_vars
  PROVE  TokenInv'
<1> USE DEF TokenInv, TypeOK, PCs, RowPresent, Fenced, UpdateOfReclaimable,
            OneWinnerPerAttempt
<1>1. ASSUME NEW w \in Worker, NEW e \in Event, Arrive(w, e) PROVE TokenInv'
  BY <1>1 DEF Arrive
<1>2. ASSUME NEW w \in Worker, Insert(w) PROVE TokenInv'
  <2>1. CASE row[ev[w]].status = "absent"
    <3>1. /\ row' = [row EXCEPT ![ev[w]] = NewRow(at[w])]
          /\ pc' = [pc EXCEPT ![w] = "running"]
          /\ token' = [token EXCEPT ![w] = 1]
          /\ UNCHANGED <<now, deliveries, ev, at, old>>
      BY <1>2, <2>1 DEF Insert
    <3>2. NewRow(at[w]).attempts = 1 /\ NewRow(at[w]).status # "absent"
      BY DEF NewRow
    <3>3. \A v \in Worker : ev[v] = ev[w] => pc[v] \notin {"select", "update", "running"}
      BY <2>1
    <3> QED
      BY <3>1, <3>2, <3>3
  <2>2. CASE row[ev[w]].status # "absent"
    BY <1>2, <2>2 DEF Insert
  <2> QED
    BY <2>1, <2>2
<1>3. ASSUME NEW w \in Worker, Select(w) PROVE TokenInv'
  BY <1>3 DEF Select
<1>4. ASSUME NEW w \in Worker, Reclaim(w) PROVE TokenInv'
  <2>1. CASE StillAsRead(row[ev[w]], old[w])
    <3> DEFINE r == ReclaimedRow(old[w], at[w])
    <3>1. /\ row' = [row EXCEPT ![ev[w]] = r]
          /\ pc' = [pc EXCEPT ![w] = "running"]
          /\ token' = [token EXCEPT ![w] = old[w].attempts + 1]
          /\ UNCHANGED <<now, deliveries, ev, at, old>>
      BY <1>4, <2>1 DEF Reclaim
    <3>2. /\ r.attempts = row[ev[w]].attempts + 1
          /\ old[w].attempts = row[ev[w]].attempts
          /\ r.status # "absent"
      BY <2>1 DEF ReclaimedRow, StillAsRead
    <3>3. \A e \in Event : row[e].attempts \in Nat
      BY DEF Rows
    <3> HIDE DEF r
    <3> QED
      BY <3>1, <3>2, <3>3
  <2>2. CASE ~ StillAsRead(row[ev[w]], old[w])
    BY <1>4, <2>2 DEF Reclaim
  <2> QED
    BY <2>1, <2>2
<1>5. ASSUME NEW w \in Worker, MarkDone(w) \/ MarkFailed(w) PROVE TokenInv'
  <2>1. PICK s \in {"done", "failed"} :
          row' = [row EXCEPT ![ev[w]] = Marked(row[ev[w]], s)]
    BY <1>5 DEF MarkDone, MarkFailed
  <2>2. pc' = [pc EXCEPT ![w] = "idle"] /\ UNCHANGED <<now, deliveries, ev, at, old, token>>
    BY <1>5 DEF MarkDone, MarkFailed
  <2>3. \A e \in Event : /\ row'[e].attempts = row[e].attempts
                         /\ row'[e].status = "absent" <=> row[e].status = "absent"
    <3>1. PICK e0 \in Event : e0 = ev[w]
      OBVIOUS
    <3>2. row'[e0] = Marked(row[e0], s) /\ row[e0] \in Rows
      BY <2>1, <3>1
    <3>3. \A e \in Event : e # e0 => row'[e] = row[e]
      BY <2>1, <3>1
    <3>4. /\ Marked(row[e0], s).attempts = row[e0].attempts
          /\ Marked(row[e0], s).status = "absent" <=> row[e0].status = "absent"
      BY <3>2 DEF Marked, Rows, Statuses
    <3> QED
      BY <3>2, <3>3, <3>4
  <2>4. \A v \in Worker : pc'[v] # "idle" => pc'[v] = pc[v]
    BY <2>2
  <2>5. RowPresent'
    BY <2>2, <2>3, <2>4
  <2>6. Fenced'
    BY <2>2, <2>3, <2>4
  <2>7. UpdateOfReclaimable'
    BY <2>2, <2>4
  <2>8. OneWinnerPerAttempt'
    BY <2>2, <2>4
  <2> QED
    BY <2>5, <2>6, <2>7, <2>8
<1>6. ASSUME NEW w \in Worker, Crash(w) \/ Restart(w) PROVE TokenInv'
  BY <1>6 DEF Crash, Restart
<1>7. CASE Cleanup
  BY <1>7 DEF Cleanup
<1>8. CASE Tick
  BY <1>8 DEF Tick
<1>9. CASE UNCHANGED vars
  BY <1>9 DEF vars
<1> QED
  BY <1>1, <1>2, <1>3, <1>4, <1>5, <1>6, <1>7, <1>8, <1>9 DEF Next

(* However slow the deliveries are, no two successful claims of an event get *)
(* the same attempts value, as long as no row is deleted.                    *)
THEOREM OneWinner ==
  ASSUME ~ CleanupOn
  PROVE  Spec => []OneWinnerPerAttempt
<1>1. Init => TokenInv
  BY DEF Init, TokenInv, RowPresent, Fenced, UpdateOfReclaimable, OneWinnerPerAttempt
<1>2. TypeOK /\ TypeOK' /\ TokenInv /\ [Next]_vars => TokenInv'
  BY TokenInvInductive
<1>3. TokenInv => OneWinnerPerAttempt
  BY DEF TokenInv
<1> QED
  BY <1>1, <1>2, <1>3, TypeCorrect, PTL DEF Spec

-----------------------------------------------------------------------------

(* The lease discipline of deliveries that end within Hold < TTL ticks.      *)
(* ClaimInTime: a busy delivery began at most Hold ticks ago.                *)
(* LeaseHeld: the row carries the claim of the delivery that is running, so  *)
(*   the lease it shows to others cannot be over.                            *)
(* ReadIsCurrent: what a retry read for its UPDATE is still the row, or a    *)
(*   later claim has replaced it.                                            *)
ClaimInTime == \A w \in Worker : Busy(w) => at[w] <= now /\ now <= at[w] + Hold

LeaseHeld == \A w \in Worker :
  pc[w] = "running" =>
    /\ row[ev[w]].status = "processing"
    /\ row[ev[w]].expires = at[w] + TTL
    /\ row[ev[w]].attempts = token[w]

ReadIsCurrent == \A w \in Worker :
  pc[w] = "update" => \/ row[ev[w]] = old[w]
                      \/ row[ev[w]].attempts > old[w].attempts

LeaseInv == TypeOK /\ TokenInv /\ ClaimInTime /\ LeaseHeld /\ ReadIsCurrent

(* Two deliveries that run on one event would share the row's attempts.      *)
LEMMA LeaseIsExclusive == LeaseInv => ExclusiveHolder
BY DEF LeaseInv, TypeOK, TokenInv, Fenced, LeaseHeld, OneWinnerPerAttempt, ExclusiveHolder, Holds

(* Nobody runs on a row that a retry may take over.                          *)
LEMMA ReclaimableIsFree ==
  ASSUME Hold < TTL, LeaseInv, NEW v \in Worker, NEW w \in Worker,
         pc[v] = "running", pc[w] = "update", ev[v] = ev[w],
         StillAsRead(row[ev[w]], old[w])
  PROVE  FALSE
<1>1. Reclaimable(old[w], at[w])
  BY DEF LeaseInv, TokenInv, UpdateOfReclaimable
<1>2. /\ row[ev[w]].status = "processing"
      /\ row[ev[w]].expires = at[v] + TTL
  BY DEF LeaseInv, LeaseHeld
<1>3. /\ old[w].status = "processing"
      /\ old[w].expires = at[v] + TTL
  BY <1>2 DEF StillAsRead
<1>4. ~ LiveLease(old[w], at[w])
  BY <1>1, <1>3 DEF Reclaimable
<1>5. now <= at[v] + Hold /\ at[w] <= now
  BY DEF LeaseInv, ClaimInTime, Busy
<1>6. now \in Nat /\ at[v] \in Nat /\ at[w] \in Nat /\ TTL \in Nat /\ Hold \in Nat
  BY TTLAssumption, ConstantsAssumption DEF LeaseInv, TypeOK
<1>7. at[v] + TTL # 0 /\ at[v] + TTL > at[w]
  BY <1>5, <1>6, Hold < TTL
<1> QED
  BY <1>3, <1>4, <1>7 DEF LiveLease, NullTime

(* Every step of punctual deliveries keeps the lease discipline.             *)
LEMMA LeaseInvInductive ==
  ASSUME ~ CleanupOn, Hold < TTL, LeaseInv, [Next]_vars, TypeOK', TokenInv'
  PROVE  LeaseInv'
<1> USE DEF PCs, Busy
<1>0. /\ now \in Nat /\ Hold \in Nat /\ TTL \in Nat \ {0}
      /\ at \in [Worker -> Nat] /\ pc \in [Worker -> PCs]
      /\ token \in [Worker -> Nat]
      /\ row \in [Event -> Rows] /\ ev \in [Worker -> Event]
      /\ old \in [Worker -> Rows]
  BY TTLAssumption, ConstantsAssumption DEF LeaseInv, TypeOK
<1>a. ClaimInTime /\ LeaseHeld /\ ReadIsCurrent /\ RowPresent
  BY DEF LeaseInv, TokenInv
<1> SUFFICES ClaimInTime' /\ LeaseHeld' /\ ReadIsCurrent'
  BY DEF LeaseInv
<1>1. ASSUME NEW w \in Worker, NEW e \in Event, Arrive(w, e)
      PROVE  ClaimInTime' /\ LeaseHeld' /\ ReadIsCurrent'
  BY <1>0, <1>a, <1>1 DEF Arrive, ClaimInTime, LeaseHeld, ReadIsCurrent
<1>2. ASSUME NEW w \in Worker, Insert(w)
      PROVE  ClaimInTime' /\ LeaseHeld' /\ ReadIsCurrent'
  <2>1. ClaimInTime'
    BY <1>0, <1>a, <1>2 DEF Insert, ClaimInTime
  <2>2. CASE row[ev[w]].status = "absent"
    <3>1. /\ row' = [row EXCEPT ![ev[w]] = NewRow(at[w])]
          /\ pc' = [pc EXCEPT ![w] = "running"]
          /\ token' = [token EXCEPT ![w] = 1]
          /\ UNCHANGED <<now, deliveries, ev, at, old>>
      BY <1>2, <2>2 DEF Insert
    <3>2. \A v \in Worker :
            ev[v] = ev[w] => pc[v] \notin {"select", "update", "running"}
      BY <1>a, <2>2 DEF RowPresent
    <3>3. /\ NewRow(at[w]).attempts = 1 /\ NewRow(at[w]).status = "processing"
          /\ NewRow(at[w]).expires = at[w] + TTL
      BY DEF NewRow
    <3>4. LeaseHeld'
      BY <1>0, <1>a, <3>1, <3>2, <3>3 DEF LeaseHeld
    <3>5. ReadIsCurrent'
      BY <1>0, <1>a, <3>1, <3>2 DEF ReadIsCurrent
    <3> QED
      BY <2>1, <3>4, <3>5
  <2>3. CASE row[ev[w]].status # "absent"
    BY <1>0, <1>a, <1>2, <2>1, <2>3 DEF Insert, LeaseHeld, ReadIsCurrent
  <2> QED
    BY <2>2, <2>3
<1>3. ASSUME NEW w \in Worker, Select(w)
      PROVE  ClaimInTime' /\ LeaseHeld' /\ ReadIsCurrent'
  <2>1. row[ev[w]].status # "absent"
    BY <1>a, <1>3 DEF Select, RowPresent
  <2>2. /\ pc'[w] \in {"idle", "update"}
        /\ \A v \in Worker : v # w => pc'[v] = pc[v] /\ old'[v] = old[v]
        /\ pc'[w] = "update" => old'[w] = row[ev[w]]
        /\ pc[w] = "select"
        /\ UNCHANGED <<now, row, deliveries, ev, at, token>>
    BY <1>0, <1>3, <2>1 DEF Select
  <2> QED
    BY <1>0, <1>a, <2>2 DEF ClaimInTime, LeaseHeld, ReadIsCurrent
<1>4. ASSUME NEW w \in Worker, Reclaim(w)
      PROVE  ClaimInTime' /\ LeaseHeld' /\ ReadIsCurrent'
  <2>1. ClaimInTime'
    BY <1>0, <1>a, <1>4 DEF Reclaim, ClaimInTime
  <2>2. CASE StillAsRead(row[ev[w]], old[w])
    <3> DEFINE r == ReclaimedRow(old[w], at[w])
    <3>1. /\ row' = [row EXCEPT ![ev[w]] = r]
          /\ pc' = [pc EXCEPT ![w] = "running"]
          /\ token' = [token EXCEPT ![w] = old[w].attempts + 1]
          /\ UNCHANGED <<now, deliveries, ev, at, old>>
      BY <1>4, <2>2 DEF Reclaim
    <3>2. /\ r.attempts = old[w].attempts + 1 /\ r.status = "processing"
          /\ r.expires = at[w] + TTL
          /\ old[w].attempts = row[ev[w]].attempts
      BY <2>2 DEF ReclaimedRow, StillAsRead
    <3>3. \A v \in Worker : ev[v] = ev[w] => pc[v] # "running"
      BY <1>4, <2>2, ReclaimableIsFree DEF Reclaim
    <3>4. \A e \in Event : row[e].attempts \in Nat
      BY <1>0 DEF Rows
    <3>5. \A v \in Worker : old[v].attempts \in Nat
      BY <1>0 DEF Rows
    <3> HIDE DEF r
    <3>6. LeaseHeld'
      BY <1>0, <1>a, <3>1, <3>2, <3>3 DEF LeaseHeld
    <3>7. ReadIsCurrent'
      BY <1>0, <1>a, <3>1, <3>2, <3>4, <3>5 DEF ReadIsCurrent
    <3> QED
      BY <2>1, <3>6, <3>7
  <2>3. CASE ~ StillAsRead(row[ev[w]], old[w])
    BY <1>0, <1>a, <1>4, <2>1, <2>3 DEF Reclaim, LeaseHeld, ReadIsCurrent
  <2> QED
    BY <2>2, <2>3
<1>5. ASSUME NEW w \in Worker, MarkDone(w) \/ MarkFailed(w)
      PROVE  ClaimInTime' /\ LeaseHeld' /\ ReadIsCurrent'
  <2>1. PICK s \in {"done", "failed"} :
          row' = [row EXCEPT ![ev[w]] = Marked(row[ev[w]], s)]
    BY <1>5 DEF MarkDone, MarkFailed
  <2>2. /\ pc[w] = "running"
        /\ pc' = [pc EXCEPT ![w] = "idle"]
        /\ UNCHANGED <<now, deliveries, ev, at, old, token>>
    BY <1>5 DEF MarkDone, MarkFailed
  <2>3. \A v \in Worker : pc'[v] = "running" => ev[v] # ev[w]
    BY <1>0, <2>2, LeaseIsExclusive DEF ExclusiveHolder, Holds
  <2>4. \A e \in Event : e # ev[w] => row'[e] = row[e]
    BY <1>0, <2>1
  <2>5. \A v \in Worker : pc[v] = "update" /\ ev[v] = ev[w] => row[ev[v]] # old[v]
    BY <2>2, ReclaimableIsFree DEF StillAsRead
  <2>6. row'[ev[w]].attempts = row[ev[w]].attempts
    <3>1. row'[ev[w]] = Marked(row[ev[w]], s) /\ row[ev[w]] \in Rows
      BY <1>0, <2>1
    <3> QED
      BY <3>1 DEF Marked, Rows
  <2>7. ClaimInTime'
    BY <1>0, <1>a, <2>2 DEF ClaimInTime
  <2>8. LeaseHeld'
    BY <1>0, <1>a, <2>2, <2>3, <2>4 DEF LeaseHeld
  <2>9. ReadIsCurrent'
    BY <1>0, <1>a, <2>2, <2>4, <2>5, <2>6 DEF ReadIsCurrent
  <2> QED
    BY <2>7, <2>8, <2>9
<1>6. ASSUME NEW w \in Worker, Crash(w) \/ Restart(w)
      PROVE  ClaimInTime' /\ LeaseHeld' /\ ReadIsCurrent'
  BY <1>0, <1>a, <1>6 DEF Crash, Restart, ClaimInTime, LeaseHeld, ReadIsCurrent
<1>7. CASE Cleanup
  BY <1>7 DEF Cleanup
<1>8. CASE Tick
  BY <1>0, <1>a, <1>8 DEF Tick, ClaimInTime, LeaseHeld, ReadIsCurrent
<1>9. CASE UNCHANGED vars
  BY <1>0, <1>a, <1>9 DEF vars, ClaimInTime, LeaseHeld, ReadIsCurrent
<1> QED
  BY <1>1, <1>2, <1>3, <1>4, <1>5, <1>6, <1>7, <1>8, <1>9 DEF Next

(* The lease discipline holds in every reachable state.                      *)
LEMMA LeaseInvHolds ==
  ASSUME ~ CleanupOn, Hold < TTL
  PROVE  Spec => []LeaseInv
<1>1. Init => TokenInv
  BY DEF Init, TokenInv, RowPresent, Fenced, UpdateOfReclaimable, OneWinnerPerAttempt
<1>2. TypeOK /\ TypeOK' /\ TokenInv /\ [Next]_vars => TokenInv'
  BY TokenInvInductive
<1>3. Init /\ TypeOK => LeaseInv
  BY <1>1 DEF Init, LeaseInv, ClaimInTime, LeaseHeld, ReadIsCurrent, Busy
<1>4. LeaseInv /\ [Next]_vars /\ TypeOK' /\ TokenInv' => LeaseInv'
  BY LeaseInvInductive
<1> QED
  BY <1>1, <1>2, <1>3, <1>4, TypeCorrect, PTL DEF Spec

(* While deliveries end within their lease and nobody deletes rows, no two   *)
(* deliveries of an event are handled at the same time.                      *)
THEOREM Exclusive ==
  ASSUME ~ CleanupOn, Hold < TTL
  PROVE  Spec => []ExclusiveHolder
BY LeaseInvHolds, LeaseIsExclusive, PTL

-----------------------------------------------------------------------------

(* While deliveries end within their lease, no step opens a done event       *)
(* again: neither a retry's UPDATE nor another delivery's late mark.         *)
THEOREM DoneStaysDone ==
  ASSUME ~ CleanupOn, Hold < TTL
  PROVE  Spec => DoneIsFinal
<1>1. ASSUME LeaseInv, [Next]_vars, NEW e \in Event, row[e].status = "done"
      PROVE  row'[e].status \in {"done", "absent"}
  <2>0. /\ row \in [Event -> Rows] /\ ev \in [Worker -> Event]
        /\ LeaseHeld /\ UpdateOfReclaimable
    BY <1>1 DEF LeaseInv, TypeOK, TokenInv
  <2>1. ASSUME NEW w \in Worker, Insert(w) PROVE row'[e].status = "done"
    BY <1>1, <2>0, <2>1 DEF Insert
  <2>2. ASSUME NEW w \in Worker, Reclaim(w) PROVE row'[e].status = "done"
    BY <1>1, <2>0, <2>2
       DEF Reclaim, UpdateOfReclaimable, Reclaimable, StillAsRead
  <2>3. ASSUME NEW w \in Worker, MarkDone(w) \/ MarkFailed(w)
        PROVE  row'[e].status = "done"
    BY <1>1, <2>0, <2>3 DEF MarkDone, MarkFailed, LeaseHeld
  <2>4. CASE row' = row
    BY <1>1, <2>4
  <2> QED
    BY <1>1, <2>1, <2>2, <2>3, <2>4
       DEF Next, vars, Arrive, Select, Crash, Restart, Cleanup, Tick
<1>2. LeaseInv /\ [Next]_vars
        => [\A e \in Event : row[e].status = "done"
                             => row'[e].status \in {"done", "absent"}]_vars
  BY <1>1
<1> QED
  BY <1>2, LeaseInvHolds, PTL DEF Spec, DoneIsFinal

(* While deliveries end within their lease, claim answers no only for an     *)
(* event that is done, or held, or that another delivery has just taken.     *)
THEOREM DropsAreJustified ==
  ASSUME ~ CleanupOn, Hold < TTL
  PROVE  Spec => DropIsJustified
<1> DEFINE Justified(w) ==
      LET r == row[ev[w]] IN
        \/ r.status = "done"
        \/ r.status = "processing" /\ r.expires > at[w]
        \/ pc[w] = "update" /\ r.attempts > old[w].attempts
<1>1. ASSUME LeaseInv, [Next]_vars, NEW w \in Worker,
             pc[w] \in {"select", "update"}, pc'[w] = "idle"
      PROVE  Justified(w)
  <2>0. pc \in [Worker -> PCs] /\ ReadIsCurrent /\ RowPresent
    BY <1>1 DEF LeaseInv, TypeOK, TokenInv
  <2>1. Select(w) \/ Reclaim(w)
    BY <1>1, <2>0 DEF Next, vars, Arrive, Insert, Select, Reclaim, MarkDone,
                      MarkFailed, Crash, Restart, Cleanup, Tick, PCs
  <2>2. CASE Select(w)
    BY <1>1, <2>0, <2>2 DEF Select, LiveLease
  <2>3. CASE Reclaim(w)
    <3>1. pc[w] = "update" /\ ~ StillAsRead(row[ev[w]], old[w])
      BY <1>1, <2>0, <2>3 DEF Reclaim
    <3>2. row[ev[w]] # old[w]
      BY <3>1 DEF StillAsRead
    <3> QED
      BY <2>0, <3>1, <3>2 DEF ReadIsCurrent
  <2> QED
    BY <2>1, <2>2, <2>3
<1>2. LeaseInv /\ [Next]_vars
        => [\A w \in Worker :
              pc[w] \in {"select", "update"} /\ pc'[w] = "idle" => Justified(w)]_vars
  <2> HIDE DEF Justified
  <2> QED
    BY <1>1
<1> QED
  BY <1>2, LeaseInvHolds, PTL DEF Spec, DropIsJustified

-----------------------------------------------------------------------------

(* The owner in EventLease is the delivery that runs.                        *)
LEMMA OwnerIsHolder ==
  ASSUME ExclusiveHolder, NEW w \in Worker, NEW e \in Event, Holds(w, e)
  PROVE  OwnerOf(e) = w
BY DEF OwnerOf, ExclusiveHolder

LEMMA NobodyHolds ==
  ASSUME NEW e \in Event, \A w \in Worker : ~ Holds(w, e)
  PROVE  OwnerOf(e) = Nobody
BY DEF OwnerOf

(* Events whose holders a step does not change keep their owner.             *)
LEMMA OwnerKept ==
  ASSUME ExclusiveHolder, ExclusiveHolder', NEW e \in Event,
         \A w \in Worker : Holds(w, e)' <=> Holds(w, e)
  PROVE  OwnerOf(e)' = OwnerOf(e)
<1>1. CASE \E w \in Worker : Holds(w, e)
  <2>1. PICK w \in Worker : Holds(w, e)
    BY <1>1
  <2>2. OwnerOf(e) = w
    BY <2>1, OwnerIsHolder
  <2>3. Holds(w, e)'
    BY <2>1
  <2>4. OwnerOf(e)' = w
    BY <2>3 DEF OwnerOf, ExclusiveHolder
  <2> QED
    BY <2>2, <2>4
<1>2. CASE \A w \in Worker : ~ Holds(w, e)
  <2>1. \A w \in Worker : ~ Holds(w, e)'
    BY <1>2
  <2> QED
    BY <1>2, <2>1 DEF OwnerOf
<1> QED
  BY <1>1, <1>2

OwnerMap == [e \in Event |-> OwnerOf(e)]
DoneSet == {e \in Event : row[e].status = "done"}

(* A step in which w takes e, which nobody held, is the abstract Acquire.    *)
LEMMA GainIsAcquire ==
  ASSUME ExclusiveHolder, ExclusiveHolder',
         NEW w \in Worker, NEW e \in Event,
         \A v \in Worker : ~ Holds(v, e),
         Holds(w, e)',
         \A v \in Worker, f \in Event : f # e => (Holds(v, f)' <=> Holds(v, f)),
         e \notin DoneSet, DoneSet' = DoneSet
  PROVE  Lease!Acquire(w, e)
<1>1. OwnerOf(e) = Nobody
  BY NobodyHolds
<1>2. OwnerOf(e)' = w
  BY DEF OwnerOf, ExclusiveHolder
<1>3. \A f \in Event : f # e => OwnerOf(f)' = OwnerOf(f)
  BY OwnerKept
<1>4. OwnerMap' = [OwnerMap EXCEPT ![e] = w]
  BY <1>2, <1>3 DEF OwnerMap
<1> QED
  BY <1>1, <1>4 DEF Lease!Acquire, OwnerMap, DoneSet

(* A step in which the holder w of e lets it go is Finish or Release.        *)
LEMMA LossIsFinishOrRelease ==
  ASSUME ExclusiveHolder, ExclusiveHolder',
         NEW w \in Worker, NEW e \in Event,
         Holds(w, e),
         \A v \in Worker : ~ Holds(v, e)',
         \A v \in Worker, f \in Event : f # e => (Holds(v, f)' <=> Holds(v, f)),
         DoneSet' \in {DoneSet, DoneSet \cup {e}}
  PROVE  Lease!Finish(w, e) \/ Lease!Release(w, e)
<1>1. OwnerOf(e) = w
  BY OwnerIsHolder
<1>2. OwnerOf(e)' = Nobody
  BY DEF OwnerOf
<1>3. \A f \in Event : f # e => OwnerOf(f)' = OwnerOf(f)
  BY OwnerKept
<1>4. OwnerMap' = [OwnerMap EXCEPT ![e] = Nobody]
  BY <1>2, <1>3 DEF OwnerMap
<1> QED
  BY <1>1, <1>4 DEF Lease!Finish, Lease!Release, OwnerMap, DoneSet

(* A step that changes no holder and no done row is a stutter.               *)
LEMMA KeptIsStutter ==
  ASSUME ExclusiveHolder, ExclusiveHolder',
         \A v \in Worker, f \in Event : Holds(v, f)' <=> Holds(v, f),
         DoneSet' = DoneSet
  PROVE  UNCHANGED Lease!vars
<1>1. OwnerMap' = OwnerMap
  BY OwnerKept DEF OwnerMap
<1> QED
  BY <1>1 DEF Lease!vars, OwnerMap, DoneSet

(* Every step of punctual deliveries is a step of EventLease or a stutter.   *)
LEMMA StepSimulation ==
  ASSUME ~ CleanupOn, Hold < TTL, LeaseInv, LeaseInv', [Next]_vars
  PROVE  [Lease!Next]_(Lease!vars)
<1>0. /\ pc \in [Worker -> PCs] /\ ev \in [Worker -> Event]
      /\ row \in [Event -> Rows]
      /\ RowPresent /\ UpdateOfReclaimable /\ LeaseHeld
  BY DEF LeaseInv, TypeOK, TokenInv
<1>x. ExclusiveHolder /\ ExclusiveHolder'
  BY LeaseIsExclusive DEF LeaseInv, TypeOK, TokenInv, Fenced, LeaseHeld,
                          OneWinnerPerAttempt, ExclusiveHolder, Holds
<1> USE DEF PCs
<1>1. ASSUME NEW w \in Worker, NEW r,
             row' = [row EXCEPT ![ev[w]] = r], r.status = "processing",
             row[ev[w]].status # "done",
             pc' = [pc EXCEPT ![w] = "running"], UNCHANGED ev,
             \A v \in Worker : ~ Holds(v, ev[w])
      PROVE  Lease!Next
  <2>1. DoneSet' = DoneSet /\ ev[w] \notin DoneSet
    BY <1>0, <1>1 DEF DoneSet
  <2>2. /\ Holds(w, ev[w])'
        /\ \A v \in Worker, f \in Event : f # ev[w] => (Holds(v, f)' <=> Holds(v, f))
    BY <1>0, <1>1 DEF Holds
  <2>3. PICK e \in Event : e = ev[w]
    BY <1>0
  <2>4. Lease!Acquire(w, e)
    BY <1>1, <1>x, <2>1, <2>2, <2>3, GainIsAcquire
  <2> QED
    BY <2>4 DEF Lease!Next
<1>2. ASSUME NEW w \in Worker, pc[w] = "running", pc'[w] # "running",
             \A v \in Worker : v # w => pc'[v] = pc[v],
             UNCHANGED ev, DoneSet' \in {DoneSet, DoneSet \cup {ev[w]}}
      PROVE  Lease!Next
  <2>1. PICK e \in Event : e = ev[w]
    BY <1>0
  <2>2. Holds(w, e)
    BY <1>2, <2>1 DEF Holds
  <2>3. \A v \in Worker : ~ Holds(v, e)'
    BY <1>2, <1>x, <2>1, <2>2 DEF Holds, ExclusiveHolder
  <2>4. \A v \in Worker, f \in Event : f # e => (Holds(v, f)' <=> Holds(v, f))
    BY <1>2, <2>1 DEF Holds
  <2>5. Lease!Finish(w, e) \/ Lease!Release(w, e)
    BY <1>2, <1>x, <2>1, <2>2, <2>3, <2>4, LossIsFinishOrRelease
  <2> QED
    BY <2>5 DEF Lease!Next
<1>3. ASSUME NEW w \in Worker, pc[w] # "running", pc'[w] # "running",
             \A v \in Worker : v # w => pc'[v] = pc[v] /\ ev'[v] = ev[v],
             row' = row
      PROVE  UNCHANGED Lease!vars
  <2>1. DoneSet' = DoneSet
    BY <1>3 DEF DoneSet
  <2>2. \A v \in Worker, f \in Event : Holds(v, f)' <=> Holds(v, f)
    BY <1>3 DEF Holds
  <2> QED
    BY <1>x, <2>1, <2>2, KeptIsStutter
<1>4. ASSUME NEW w \in Worker, NEW e \in Event, Arrive(w, e)
      PROVE  UNCHANGED Lease!vars
  BY <1>0, <1>3, <1>4 DEF Arrive
<1>5. ASSUME NEW w \in Worker, Insert(w)
      PROVE  Lease!Next \/ UNCHANGED Lease!vars
  <2>1. CASE row[ev[w]].status = "absent"
    <3>1. \A v \in Worker : ~ Holds(v, ev[w])
      BY <1>0, <2>1 DEF Holds, RowPresent
    <3>2. /\ row' = [row EXCEPT ![ev[w]] = NewRow(at[w])]
          /\ pc' = [pc EXCEPT ![w] = "running"] /\ UNCHANGED ev
      BY <1>5, <2>1 DEF Insert
    <3>3. NewRow(at[w]).status = "processing"
      BY DEF NewRow
    <3> QED
      BY <1>1, <2>1, <3>1, <3>2, <3>3
  <2>2. CASE row[ev[w]].status # "absent"
    BY <1>0, <1>3, <1>5, <2>2 DEF Insert
  <2> QED
    BY <2>1, <2>2
<1>6. ASSUME NEW w \in Worker, Select(w)
      PROVE  UNCHANGED Lease!vars
  <2>1. row[ev[w]].status # "absent"
    BY <1>0, <1>6 DEF Select, RowPresent
  <2> QED
    BY <1>0, <1>3, <1>6, <2>1 DEF Select
<1>7. ASSUME NEW w \in Worker, Reclaim(w)
      PROVE  Lease!Next \/ UNCHANGED Lease!vars
  <2>1. CASE StillAsRead(row[ev[w]], old[w])
    <3>1. /\ row' = [row EXCEPT ![ev[w]] = ReclaimedRow(old[w], at[w])]
          /\ pc' = [pc EXCEPT ![w] = "running"] /\ UNCHANGED ev
          /\ pc[w] = "update"
      BY <1>7, <2>1 DEF Reclaim
    <3>2. \A v \in Worker : ~ Holds(v, ev[w])
      BY <2>1, <3>1, ReclaimableIsFree DEF Holds
    <3>3. row[ev[w]].status # "done"
      BY <1>0, <2>1, <3>1 DEF UpdateOfReclaimable, Reclaimable, StillAsRead
    <3>4. ReclaimedRow(old[w], at[w]).status = "processing"
      BY DEF ReclaimedRow
    <3> QED
      BY <1>1, <3>1, <3>2, <3>3, <3>4
  <2>2. CASE ~ StillAsRead(row[ev[w]], old[w])
    BY <1>0, <1>3, <1>7, <2>2 DEF Reclaim
  <2> QED
    BY <2>1, <2>2
<1>8. ASSUME NEW w \in Worker, NEW s \in {"done", "failed"}, pc[w] = "running",
             row' = [row EXCEPT ![ev[w]] = Marked(row[ev[w]], s)],
             pc' = [pc EXCEPT ![w] = "idle"], UNCHANGED ev
      PROVE  Lease!Next
  <2>1. row[ev[w]].status = "processing" /\ row[ev[w]] \in Rows
    BY <1>0, <1>8 DEF LeaseHeld
  <2>2. row'[ev[w]].status = s
    BY <1>0, <1>8, <2>1 DEF Marked, Rows
  <2>3. \A e \in Event : e # ev[w] => row'[e] = row[e]
    BY <1>0, <1>8
  <2>4. DoneSet' \in {DoneSet, DoneSet \cup {ev[w]}}
    BY <1>0, <2>1, <2>2, <2>3 DEF DoneSet
  <2> QED
    BY <1>0, <1>2, <1>8, <2>4
<1>9. ASSUME NEW w \in Worker, Crash(w) \/ Restart(w)
      PROVE  Lease!Next \/ UNCHANGED Lease!vars
  <2>1. /\ UNCHANGED <<row, ev>> /\ pc'[w] # "running"
        /\ \A v \in Worker : v # w => pc'[v] = pc[v]
    BY <1>0, <1>9 DEF Crash, Restart
  <2>2. DoneSet' = DoneSet
    BY <2>1 DEF DoneSet
  <2> QED
    BY <1>2, <1>3, <2>1, <2>2
<1>10. CASE Tick \/ UNCHANGED vars
  <2>1. /\ DoneSet' = DoneSet
        /\ \A v \in Worker, f \in Event : Holds(v, f)' <=> Holds(v, f)
    BY <1>10 DEF Tick, vars, DoneSet, Holds
  <2> QED
    BY <1>x, <2>1, KeptIsStutter
<1>11. ASSUME NEW w \in Worker, MarkDone(w) \/ MarkFailed(w)
       PROVE  Lease!Next
  BY <1>8, <1>11 DEF MarkDone, MarkFailed
<1> QED
  BY <1>4, <1>5, <1>6, <1>7, <1>9, <1>10, <1>11 DEF Next, Cleanup

(* While deliveries end within their lease and nobody deletes rows, the      *)
(* table implements the abstract lease of EventLease.                        *)
THEOREM ImplementsEventLease ==
  ASSUME ~ CleanupOn, Hold < TTL
  PROVE  Spec => ImplementsLease
<1>1. Init => Lease!Init
  BY DEF Init, Lease!Init, OwnerOf, Holds, NoRow
<1>2. LeaseInv /\ LeaseInv' /\ [Next]_vars => [Lease!Next]_(Lease!vars)
  BY StepSimulation
<1> QED
  BY <1>1, <1>2, LeaseInvHolds, PTL DEF Spec, ImplementsLease, Lease!Spec
=============================================================================
