----------------------------- MODULE EventLease -----------------------------
(***************************************************************************)
(* What the dispatcher needs of the idempotency table, without its columns *)
(* and its clock: every event is open, owned by one delivery at a time, or *)
(* closed for good.  This is the promise of the docstring of               *)
(* models/webhook_event_dedupe.py.  WebhookDedupe, statement by statement, *)
(* and Dispatcher, with the handlers and tasks around them, are shown to   *)
(* keep it while no delivery outlives its lease and no row is deleted.     *)
(***************************************************************************)
CONSTANTS Worker, Event, Nobody

VARIABLES
  owner,    \* Event -> Worker or Nobody
  closed    \* the events that were handled

vars == <<owner, closed>>

Init ==
  /\ owner = [e \in Event |-> Nobody]
  /\ closed = {}

(* A delivery takes an open event that nobody owns. *)
Acquire(w, e) ==
  /\ owner[e] = Nobody
  /\ e \notin closed
  /\ owner' = [owner EXCEPT ![e] = w]
  /\ UNCHANGED closed

(* Its owner handled it: the event is closed. *)
Finish(w, e) ==
  /\ owner[e] = w
  /\ owner' = [owner EXCEPT ![e] = Nobody]
  /\ closed' = closed \cup {e}

(* Its owner failed: the event is open again. *)
Release(w, e) ==
  /\ owner[e] = w
  /\ owner' = [owner EXCEPT ![e] = Nobody]
  /\ UNCHANGED closed

(* A process dies: what its workers own is open again. *)
Die(ws) ==
  /\ owner' = [e \in Event |-> IF owner[e] \in ws THEN Nobody ELSE owner[e]]
  /\ UNCHANGED closed

Next ==
  \/ \E w \in Worker, e \in Event : Acquire(w, e) \/ Finish(w, e) \/ Release(w, e)
  \/ \E ws \in SUBSET Worker : Die(ws)

Spec == Init /\ [][Next]_vars
=============================================================================
