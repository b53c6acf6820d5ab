----------------------------- MODULE DedupeRow -----------------------------
(***************************************************************************)
(* The row of the table webhook_event_dedupe that stands for one           *)
(* (channel_type, event_id), and what each statement of                    *)
(* models/webhook_event_dedupe.py does to it.  The operators are pure: the *)
(* modules that use them decide which statements run atomically.           *)
(*                                                                         *)
(* Time is a natural number.  processing_expires_at = NULL is the time 0,  *)
(* which no claim writes because TTL is positive.                          *)
(***************************************************************************)
EXTENDS Integers

CONSTANT TTL    \* PROCESSING_TTL, in ticks of the model's clock

ASSUME TTLAssumption == TTL \in Nat \ {0}

NullTime == 0

Statuses == {"absent", "processing", "done", "failed"}

Rows == [status : Statuses, expires : Nat, attempts : Nat, received : Nat]

NoRow ==
  [status |-> "absent", expires |-> NullTime, attempts |-> 0, received |-> 0]

(* The row that the INSERT of claim writes at time t. *)
NewRow(t) ==
  [status |-> "processing", expires |-> t + TTL, attempts |-> 1, received |-> t]

(* Mutants of LiveLease: the lease ends one tick early; it never ends. *)
LiveLeaseOffByOne(r, t) ==
  r.status = "processing" /\ r.expires # NullTime /\ r.expires > t + 1
LiveLeaseForever(r, t) == r.status = "processing"

(* A processing row whose lease has not run out at time t. *)
LiveLease(r, t) ==
  /\ r.status = "processing"
  /\ r.expires # NullTime
  /\ r.expires > t

(* Mutant of Reclaimable: every row without a live lease, done ones too. *)
ReclaimableDone(r, t) == r.status # "absent" /\ ~ LiveLease(r, t)

(* The row read at time t may be taken over: it failed, or its lease is over. *)
Reclaimable(r, t) ==
  \/ r.status = "failed"
  \/ r.status = "processing" /\ ~ LiveLease(r, t)

(* Mutant of StillAsRead: an UPDATE by key alone. *)
StillThere(r, old) == r.status # "absent"

(* The WHERE clause of the conditional UPDATE: r is still the row that was   *)
(* read as old.  The expiry is compared only for a processing row.           *)
StillAsRead(r, old) ==
  /\ r.status = old.status
  /\ r.attempts = old.attempts
  /\ old.status = "processing" => r.expires = old.expires

(* Mutant of ReclaimedRow: received_at keeps the time of the first delivery. *)
ReclaimedRowStaleAge(old, t) ==
  [status |-> "processing", expires |-> t + TTL, attempts |-> old.attempts + 1,
   received |-> old.received]

(* What that UPDATE writes. *)
ReclaimedRow(old, t) ==
  [status |-> "processing", expires |-> t + TTL, attempts |-> old.attempts + 1,
   received |-> t]

(* Mutant of Marked: the expiry is left behind. *)
MarkedKeepsExpiry(r, s) ==
  IF r.status = "absent" THEN r ELSE [r EXCEPT !.status = s]

(* mark_done and mark_failed are UPDATEs by key alone: they change any row   *)
(* that exists, whoever claimed it last.                                     *)
Marked(r, s) ==
  IF r.status = "absent" THEN r
  ELSE [r EXCEPT !.status = s, !.expires = NullTime]

(* cleanup deletes by age alone, at time t. *)
Outdated(r, t, retention) ==
  r.status # "absent" /\ r.received + retention < t

=============================================================================
