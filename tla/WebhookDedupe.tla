--------------------------- MODULE WebhookDedupe ---------------------------
(***************************************************************************)
(* models/webhook_event_dedupe.py: the two-phase claim of a webhook event. *)
(*                                                                         *)
(* A worker is one delivery being handled.  In claim it runs up to three   *)
(* SQL statements (INSERT, SELECT, conditional UPDATE); deliveries that    *)
(* reach different processes interleave between any two of them, so each   *)
(* statement is an action.  A worker whose claim succeeds then runs the    *)
(* agent and ends in mark_done or mark_failed, or its process dies.        *)
(*                                                                         *)
(* claim reads the clock once, on entry: at[w].                            *)
(***************************************************************************)
EXTENDS DedupeRow, FiniteSets

CONSTANTS
  Worker,          \* deliveries that can be in flight at once
  Event,           \* (channel_type, event_id) keys
  Retention,       \* age beyond which cleanup deletes a row
  Hold,            \* a delivery ends at most Hold ticks after its claim began
  CleanupOn,       \* does anybody call cleanup?
  MaxTime,         \* bound: the clock stops there
  Nobody,          \* the owner, in EventLease, of an event nobody holds
  MaxDeliveries    \* bound: deliveries of one event by the platform

ASSUME ConstantsAssumption ==
  /\ Retention \in Nat
  /\ Hold \in Nat
  /\ CleanupOn \in BOOLEAN
  /\ MaxTime \in Nat
  /\ MaxDeliveries \in Nat
  /\ Nobody \notin Worker

VARIABLES
  now,        \* datetime.utcnow()
  row,        \* the table: Event -> Rows
  deliveries, \* how many deliveries of an event have arrived
  pc,         \* where each worker is
  ev,         \* the event it handles
  at,         \* the time at which its claim began
  old,        \* the row its SELECT returned
  token       \* the attempts value its successful claim wrote, 0 without one

vars == <<now, row, deliveries, pc, ev, at, old, token>>

PCs == {"idle", "insert", "select", "update", "running", "down"}

(* Types, and the shape of the rows: the expiry is set exactly in a row that *)
(* is being processed, so that no stale expiry outlives its claim.           *)
TypeOK ==
  /\ now \in Nat
  /\ row \in [Event -> Rows]
  /\ deliveries \in [Event -> Nat]
  /\ pc \in [Worker -> PCs]
  /\ ev \in [Worker -> Event]
  /\ at \in [Worker -> Nat]
  /\ old \in [Worker -> Rows]
  /\ token \in [Worker -> Nat]
  /\ \A e \in Event : row[e].status = "processing" <=> row[e].expires # NullTime

Init ==
  /\ now = 0
  /\ row = [e \in Event |-> NoRow]
  /\ deliveries = [e \in Event |-> 0]
  /\ pc = [w \in Worker |-> "idle"]
  /\ ev \in [Worker -> Event]
  /\ at = [w \in Worker |-> 0]
  /\ old = [w \in Worker |-> NoRow]
  /\ token = [w \in Worker |-> 0]

Busy(w) == pc[w] \notin {"idle", "down"}

Holds(w, e) == pc[w] = "running" /\ ev[w] = e

-----------------------------------------------------------------------------

(* A delivery of e reaches w, which enters claim and reads the clock. *)
Arrive(w, e) ==
  /\ pc[w] = "idle"
  /\ deliveries[e] < MaxDeliveries
  /\ deliveries' = [deliveries EXCEPT ![e] = @ + 1]
  /\ pc' = [pc EXCEPT ![w] = "insert"]
  /\ ev' = [ev EXCEPT ![w] = e]
  /\ at' = [at EXCEPT ![w] = now]
  /\ UNCHANGED <<now, row, old, token>>

(* The INSERT: the unique index lets it in only when there is no row. *)
Insert(w) ==
  /\ pc[w] = "insert"
  /\ \/ /\ row[ev[w]].status = "absent"
        /\ row' = [row EXCEPT ![ev[w]] = NewRow(at[w])]
        /\ pc' = [pc EXCEPT ![w] = "running"]
        /\ token' = [token EXCEPT ![w] = 1]
     \/ /\ row[ev[w]].status # "absent"
        /\ pc' = [pc EXCEPT ![w] = "select"]
        /\ UNCHANGED <<row, token>>
  /\ UNCHANGED <<now, deliveries, ev, at, old>>

(* The SELECT and the branches on what it returned.  A row deleted since the *)
(* INSERT was refused counts as a new event, and none is written for it: the *)
(* claim succeeds without an attempts value.                                 *)
Select(w) ==
  /\ pc[w] = "select"
  /\ LET r == row[ev[w]] IN
     \/ /\ r.status = "absent"
        /\ pc' = [pc EXCEPT ![w] = "running"]
        /\ token' = [token EXCEPT ![w] = 0]
        /\ UNCHANGED old
     \/ /\ r.status = "done" \/ LiveLease(r, at[w])
        /\ pc' = [pc EXCEPT ![w] = "idle"]
        /\ UNCHANGED <<old, token>>
     \/ /\ Reclaimable(r, at[w])
        /\ old' = [old EXCEPT ![w] = r]
        /\ pc' = [pc EXCEPT ![w] = "update"]
        /\ UNCHANGED token
  /\ UNCHANGED <<now, row, deliveries, ev, at>>

(* The conditional UPDATE: it changes one row and the claim succeeds, or it  *)
(* changes none and the delivery is dropped as concurrent.                   *)
Reclaim(w) ==
  /\ pc[w] = "update"
  /\ \/ /\ StillAsRead(row[ev[w]], old[w])
        /\ row' = [row EXCEPT ![ev[w]] = ReclaimedRow(old[w], at[w])]
        /\ pc' = [pc EXCEPT ![w] = "running"]
        /\ token' = [token EXCEPT ![w] = old[w].attempts + 1]
     \/ /\ ~ StillAsRead(row[ev[w]], old[w])
        /\ pc' = [pc EXCEPT ![w] = "idle"]
        /\ UNCHANGED <<row, token>>
  /\ UNCHANGED <<now, deliveries, ev, at, old>>

(* The handler of a claimed event ends: mark_done or mark_failed. *)
MarkDone(w) ==
  /\ pc[w] = "running"
  /\ row' = [row EXCEPT ![ev[w]] = Marked(@, "done")]
  /\ pc' = [pc EXCEPT ![w] = "idle"]
  /\ UNCHANGED <<now, deliveries, ev, at, old, token>>

MarkFailed(w) ==
  /\ pc[w] = "running"
  /\ row' = [row EXCEPT ![ev[w]] = Marked(@, "failed")]
  /\ pc' = [pc EXCEPT ![w] = "idle"]
  /\ UNCHANGED <<now, deliveries, ev, at, old, token>>

(* The worker's process dies between two statements, and comes back. *)
Crash(w) ==
  /\ pc[w] \notin {"idle", "down"}
  /\ pc' = [pc EXCEPT ![w] = "down"]
  /\ UNCHANGED <<now, row, deliveries, ev, at, old, token>>

Restart(w) ==
  /\ pc[w] = "down"
  /\ pc' = [pc EXCEPT ![w] = "idle"]
  /\ UNCHANGED <<now, row, deliveries, ev, at, old, token>>

(* One DELETE for the whole table. *)
Cleanup ==
  /\ CleanupOn
  /\ \E e \in Event : Outdated(row[e], now, Retention)
  /\ row' = [e \in Event |->
               IF Outdated(row[e], now, Retention) THEN NoRow ELSE row[e]]
  /\ UNCHANGED <<now, deliveries, pc, ev, at, old, token>>

(* Time passes while no delivery exceeds Hold. *)
Tick ==
  /\ now < MaxTime
  /\ \A w \in Worker : Busy(w) => now < at[w] + Hold
  /\ now' = now + 1
  /\ UNCHANGED <<row, deliveries, pc, ev, at, old, token>>

Next ==
  \/ \E w \in Worker :
       \/ \E e \in Event : Arrive(w, e)
       \/ Insert(w) \/ Select(w) \/ Reclaim(w)
       \/ MarkDone(w) \/ MarkFailed(w)
       \/ Crash(w) \/ Restart(w)
  \/ Cleanup
  \/ Tick

Spec == Init /\ [][Next]_vars

-----------------------------------------------------------------------------

(* "exactly one writer gets rows == 1": when a lease ran out under a slow    *)
(* delivery or its mark reopened the row, every claim that wrote the row and *)
(* is still being handled wrote an attempts value of its own.  So of the     *)
(* retries that read the same row one alone takes it over, though deliveries *)
(* overlap, mark each other's rows and are cleaned up.                       *)
OneWinnerPerAttempt ==
  \A v, w \in Worker :
    /\ v # w
    /\ pc[v] = "running" /\ pc[w] = "running"
    /\ ev[v] = ev[w] /\ token[v] > 0
    => token[v] # token[w]

(* While deliveries end within their lease, two of them never handle the     *)
(* same event at the same time: no second reply, and no other's mark.        *)
ExclusiveHolder ==
  \A v, w \in Worker, e \in Event : Holds(v, e) /\ Holds(w, e) => v = w

(* An event that was handled stays handled: it is never opened again for a   *)
(* late retry (only cleanup may forget it).                                  *)
DoneIsFinal ==
  [][\A e \in Event : row[e].status = "done" => row'[e].status \in {"done", "absent"}]_vars

(* A delivery is dropped only when the event is done, or another delivery    *)
(* took it over since this one read the row, or the lease that it read was   *)
(* still running.  A drop is answered 200, so the platform never sends the   *)
(* event again: a drop for any other reason loses the message.               *)
DropIsJustified ==
  [][\A w \in Worker :
       pc[w] \in {"select", "update"} /\ pc'[w] = "idle"
       => LET r == row[ev[w]] IN
          \/ r.status = "done"
          \/ r.status = "processing" /\ r.expires > at[w]
          \/ pc[w] = "update" /\ r.attempts > old[w].attempts]_vars

(* cleanup never deletes the row of a lease that is still running: a reclaim *)
(* refreshes received_at together with the expiry.                           *)
LiveLeaseSurvivesCleanup ==
  [][\A e \in Event : LiveLease(row[e], now) => row'[e].status # "absent"]_vars

-----------------------------------------------------------------------------

OwnerOf(e) ==
  IF \E w \in Worker : Holds(w, e)
  THEN CHOOSE w \in Worker : Holds(w, e)
  ELSE Nobody

Lease == INSTANCE EventLease
           WITH owner <- [e \in Event |-> OwnerOf(e)],
                closed <- {e \in Event : row[e].status = "done"}

(* While deliveries end within their lease and cleanup does not run, the     *)
(* table implements the abstract lease: single owner, closed for good.       *)
ImplementsLease == Lease!Spec
=============================================================================
