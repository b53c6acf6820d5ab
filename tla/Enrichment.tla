----------------------------- MODULE Enrichment -----------------------------
(***************************************************************************)
(* The enrichment worker (services/enrichment.py): a turn inserts a user   *)
(* message, then offers a job to a bounded queue in the process; one       *)
(* daemon thread takes the jobs, asks a model for a sentiment and an       *)
(* intent, and writes what it found to the session's row.  One session of  *)
(* one bot; a message is its number, a label the message it comes from.    *)
(***************************************************************************)
EXTENDS Naturals, Sequences, FiniteSets

CONSTANTS Turn,        \* threads that insert messages
          Field,       \* what the classifier fills: the sentiment, the intent
          Capacity,    \* _QUEUE_MAX
          MaxMessage,  \* bound: messages of the session
          MaxRestart,  \* bound: restarts of the process
          Faults       \* what may fail: "model", "store"

EnrichmentAssumption ==
  Capacity \in Nat \ {0} /\ MaxMessage \in Nat /\ MaxRestart \in Nat

VARIABLES enabled,  \* config_json["enrichment_enabled"]
          rows,     \* messages inserted
          turn,     \* the threads that insert
          queue,    \* _QUEUE: numbers of messages
          worker,   \* the thread of _worker_loop and the job it holds
          label,    \* the session's row: the message each field speaks of
          restarts, \* restarts so far
          raced,    \* history: two turns offered their messages out of order
          latest    \* history: the last message accepted

vars == <<enabled, rows, turn, queue, worker, label, restarts, raced, latest>>

Message == 1..MaxMessage
Waiting == [pc |-> "get", job |-> 0, found |-> {}]
Idle == [pc |-> "idle", id |-> 0]

Init ==
  /\ enabled \in BOOLEAN /\ rows = 0
  /\ turn = [t \in Turn |-> Idle]
  /\ queue = <<>> /\ worker = Waiting
  /\ label = [f \in Field |-> 0]
  /\ restarts = 0 /\ raced = FALSE /\ latest = 0

(* insert_new_message: the row first, the job after it.                     *)
Insert(t) ==
  /\ turn[t].pc = "idle" /\ rows < MaxMessage
  /\ rows' = rows + 1
  /\ turn' = [turn EXCEPT ![t] = [pc |-> "read", id |-> rows + 1]]
  /\ UNCHANGED <<enabled, queue, worker, label, restarts, raced, latest>>

(* is_enabled reads the bot's row; it answers no when the read fails.       *)
ReadFlag(t) ==
  /\ turn[t].pc = "read"
  /\ \/ enabled /\ turn' = [turn EXCEPT ![t].pc = "put"]
     \/ (~ enabled \/ "store" \in Faults) /\ turn' = [turn EXCEPT ![t] = Idle]
  /\ UNCHANGED <<enabled, rows, queue, worker, label, restarts, raced, latest>>

(* put_nowait: a full queue turns the new job away.                         *)
Accepts == Len(queue) < Capacity

Put(t) ==
  /\ turn[t].pc = "put"
  /\ turn' = [turn EXCEPT ![t] = Idle]
  /\ IF Accepts
       THEN /\ queue' = Append(queue, turn[t].id)
            /\ raced' = (raced \/ turn[t].id < latest)
            /\ latest' = turn[t].id
       ELSE UNCHANGED <<queue, raced, latest>>
  /\ UNCHANGED <<enabled, rows, worker, label, restarts>>

(* Mutant of Take: the last job first. *)
TakeNewest ==
  /\ worker.pc = "get" /\ queue # <<>>
  /\ worker' = [pc |-> "classify", job |-> queue[Len(queue)], found |-> {}]
  /\ queue' = SubSeq(queue, 1, Len(queue) - 1)
  /\ UNCHANGED <<enabled, rows, turn, label, restarts, raced, latest>>

Take ==
  /\ worker.pc = "get" /\ queue # <<>>
  /\ worker' = [pc |-> "classify", job |-> Head(queue), found |-> {}]
  /\ queue' = Tail(queue)
  /\ UNCHANGED <<enabled, rows, turn, label, restarts, raced, latest>>

(* The model's reply may lack a field, or hold one that cannot be coerced.  *)
Classify ==
  /\ worker.pc = "classify"
  /\ \E found \in SUBSET Field :
       worker' = [worker EXCEPT !.pc = "apply", !.found = found]
  /\ UNCHANGED <<enabled, rows, turn, queue, label, restarts, raced, latest>>

(* No client can be built, the call fails, or the reply is not JSON.        *)
GiveUp ==
  /\ worker.pc = "classify" /\ "model" \in Faults
  /\ worker' = Waiting
  /\ UNCHANGED <<enabled, rows, turn, queue, label, restarts, raced, latest>>

(* set_enrichment writes the fields that were found and leaves the others.  *)
Updated == [f \in Field |-> IF f \in worker.found THEN worker.job ELSE label[f]]

Apply ==
  /\ worker.pc = "apply"
  /\ worker' = Waiting
  /\ label' = Updated \/ ("store" \in Faults /\ label' = label)
  /\ UNCHANGED <<enabled, rows, turn, queue, restarts, raced, latest>>

Toggle ==
  /\ enabled' = ~ enabled
  /\ UNCHANGED <<rows, turn, queue, worker, label, restarts, raced, latest>>

(* stop_worker joins for two seconds; what is queued dies with the process. *)
Restart ==
  /\ restarts < MaxRestart
  /\ restarts' = restarts + 1
  /\ turn' = [t \in Turn |-> Idle]
  /\ queue' = <<>> /\ worker' = Waiting
  /\ UNCHANGED <<enabled, rows, label, raced, latest>>

Work == Take \/ Classify \/ GiveUp \/ Apply

Next == \/ \E t \in Turn : Insert(t) \/ ReadFlag(t) \/ Put(t)
        \/ Work \/ Toggle \/ Restart

Spec == Init /\ [][Next]_vars

(* The loop of the daemon thread always runs on: a get has a timeout, a call
   to the model one of 20 s, and every exception is caught.                 *)
FairSpec == Spec /\ WF_vars(Work)

-----------------------------------------------------------------------------

TypeOK ==
  /\ enabled \in BOOLEAN /\ raced \in BOOLEAN
  /\ rows \in 0..MaxMessage /\ restarts \in 0..MaxRestart
  /\ latest \in 0..rows
  /\ turn \in [Turn -> [pc : {"idle", "read", "put"}, id : 0..rows]]
  /\ queue \in Seq(1..rows) /\ Len(queue) <= Capacity
  /\ worker \in [pc : {"get", "classify", "apply"}, job : 0..rows,
                 found : SUBSET Field]
  /\ label \in [Field -> 0..rows]

(* The row follows the conversation: what a field says never goes back to an
   earlier message, unless two turns offered theirs out of order.           *)
NeverBackwards == [][raced' \/ \A f \in Field : label'[f] >= label[f]]_vars

(* The worker survives every failure: once no message comes, the queue is
   worked off.                                                              *)
QueueDrains == (rows = MaxMessage /\ \A t \in Turn : turn[t] = Idle)
                 ~> (queue = <<>> /\ worker = Waiting)
=============================================================================
