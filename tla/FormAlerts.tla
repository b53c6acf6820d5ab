---------------------------- MODULE FormAlerts ----------------------------
(***************************************************************************)
(* The forms a visitor submits in one session, and the alerts that are     *)
(* mailed for them (routes/actions.py, routes/widget.py).  widget_action   *)
(* and update_user are coroutines; they put a job for each address into a  *)
(* store in SQLite that all worker processes share, and every process runs *)
(* a scheduler over it.  A scheduler reads the jobs that are due, hands    *)
(* each to its pool of PROCESS_POOL_SIZE threads and then removes it from  *)
(* the store; a thread drops a job that comes to its turn later than the   *)
(* grace time.                                                             *)
(***************************************************************************)
EXTENDS FiniteSets, Naturals

CONSTANTS Process,            \* WEB_CONCURRENCY workers
          Form,               \* submissions
          ServedBy,           \* the process that serves the request of each
          ListEntry,          \* entries of the lists of addresses
          Listed,             \* those of each submission: alert_emails, in which
                              \* an address may stand twice, or customer_email
          Pool,               \* PROCESS_POOL_SIZE
          Delay, Grace,       \* EMAIL_DELAY_IN_MINUTES, misfire_grace_time
          MaxMinute, MaxStop  \* bounds of the clock and of the restarts

AlertsAssumption ==
  /\ ServedBy \in [Form -> Process] /\ Listed \in [Form -> SUBSET ListEntry]
  /\ {Pool, Delay} \subseteq Nat \ {0}
  /\ {Grace, MaxMinute, MaxStop} \subseteq Nat

VARIABLES minute, stops,
          up,        \* processes that run
          lives,     \* those whose scheduler's thread does
          forms,     \* where the request of each form is
          talked,    \* the session has messages
          jobs,      \* the job store: alerts that wait to be due
          due,       \* when an alert is due
          sched,     \* what each scheduler does with an alert
          pool,      \* where it is in each pool
          mails,     \* runs of send_scheduled_email, by process and alert
          met,       \* history: alerts that two schedulers had at a time, or that
                     \* a process left in the store when it stopped
          badTill    \* history: no process or scheduler was down and no pool full
                     \* from this minute on

alertVars == <<minute, stops, up, lives, forms, talked, jobs, due, sched, pool, mails,
               met, badTill>>

Alert == {a \in Form \X ListEntry : a[2] \in Listed[a[1]]}
Of(f, entries) == {a \in Alert : a[1] = f /\ a[2] \in entries}
Minutes == 0 .. MaxMinute
Nowhere == [a \in Alert |-> "none"]

Init ==
  /\ minute = 0 /\ stops = 0 /\ up = Process /\ lives = Process
  /\ forms = [f \in Form |-> "idle"] /\ talked = FALSE
  /\ jobs = {} /\ due = [a \in Alert |-> 0]
  /\ sched = [p \in Process |-> Nowhere] /\ pool = [p \in Process |-> Nowhere]
  /\ mails = [p \in Process |-> [a \in Alert |-> 0]]
  /\ met = {} /\ badTill = 0

-----------------------------------------------------------------------------
(* The request is there; widget_action awaits the uploaded files.            *)
Submit(f) ==
  /\ ServedBy[f] \in up /\ forms[f] = "idle"
  /\ forms' = [forms EXCEPT ![f] = "uploading"]
  /\ UNCHANGED <<minute, stops, up, lives, talked, jobs, due, sched, pool, mails,
                 met, badTill>>

(* An alert is due now if the session has messages, else after the delay.    *)
DueTime == IF talked THEN minute ELSE minute + Delay

(* The job store may fail on the way, and after it the event that update_user
   writes: a 500.                                                            *)
Schedule(f) ==
  /\ ServedBy[f] \in up /\ forms[f] = "uploading"
  /\ \E done \in SUBSET Listed[f], answer \in {"accepted", "failed"} :
       /\ answer = "accepted" => done = Listed[f]
       /\ forms' = [forms EXCEPT ![f] = answer]
       /\ jobs' = jobs \cup Of(f, done)
       /\ due' = [a \in Alert |-> IF a \in Of(f, done) THEN DueTime ELSE due[a]]
  /\ UNCHANGED <<minute, stops, up, lives, talked, sched, pool, mails, met, badTill>>

(* The visitor writes, or does not; after the last form no alert depends on it. *)
Chat ==
  /\ ~ talked /\ \E f \in Form : forms[f] \in {"idle", "uploading"}
  /\ talked' = TRUE
  /\ UNCHANGED <<minute, stops, up, lives, forms, jobs, due, sched, pool, mails,
                 met, badTill>>

-----------------------------------------------------------------------------
(* External, APScheduler's _process_jobs: it reads what is due without a lock
   on the store or a mark on the rows.                                       *)
Busy(p) == \E a \in Alert : sched[p][a] # "none"
OtherHas(p, a) == \E q \in Process \ {p} : sched[q][a] # "none"

Poll(p) ==
  LET dueNow == {a \in jobs : due[a] <= minute} IN
  /\ p \in lives /\ ~ Busy(p) /\ dueNow # {}
  /\ sched' = [sched EXCEPT ![p] = [a \in Alert |-> IF a \in dueNow THEN "found" ELSE "none"]]
  /\ met' = met \cup {a \in dueNow : OtherHas(p, a)}
  /\ UNCHANGED <<minute, stops, up, lives, forms, talked, jobs, due, pool, mails, badTill>>

Hand(p, a) ==
  /\ p \in lives /\ sched[p][a] = "found" /\ \A b \in Alert : sched[p][b] # "handed"
  /\ sched' = [sched EXCEPT ![p][a] = "handed"]
  /\ pool' = [pool EXCEPT ![p][a] = "waiting"]
  /\ UNCHANGED <<minute, stops, up, lives, forms, talked, jobs, due, mails, met, badTill>>

(* A job that another scheduler removed: JobLookupError ends the thread.      *)
Remove(p, a) ==
  /\ p \in lives /\ sched[p][a] = "handed"
  /\ IF a \in jobs
     THEN jobs' = jobs \ {a} /\ sched' = [sched EXCEPT ![p][a] = "none"] /\ UNCHANGED lives
     ELSE /\ lives' = lives \ {p} /\ UNCHANGED jobs
          /\ sched' = [sched EXCEPT ![p] = Nowhere]
  /\ UNCHANGED <<minute, stops, up, forms, talked, due, pool, mails, met, badTill>>

Free(p) == Cardinality({a \in Alert : pool[p][a] \in {"mailing", "keeping"}}) < Pool

(* External, run_job: a job that waited longer than the grace is dropped.     *)
TooLate(a) == minute > due[a] + Grace

Start(p, a) ==
  /\ p \in up /\ pool[p][a] = "waiting" /\ Free(p)
  /\ pool' = [pool EXCEPT ![p][a] = IF TooLate(a) THEN "none" ELSE "mailing"]
  /\ UNCHANGED <<minute, stops, up, lives, forms, talked, jobs, due, sched, mails,
                 met, badTill>>

(* send_scheduled_email, up to the mail: an error ends the job, as the server's
   refusal does.                                                             *)
Mail(p, a) ==
  /\ pool[p][a] = "mailing"
  /\ mails' = [mails EXCEPT ![p][a] = @ + 1]
  /\ \E next \in {"keeping", "none"} : pool' = [pool EXCEPT ![p][a] = next]
  /\ UNCHANGED <<minute, stops, up, lives, forms, talked, jobs, due, sched, met, badTill>>

(* The two messages of the form, after the mail.                             *)
Keep(p, a) ==
  /\ pool[p][a] = "keeping"
  /\ pool' = [pool EXCEPT ![p][a] = "none"]
  /\ talked' = TRUE
  /\ UNCHANGED <<minute, stops, up, lives, forms, jobs, due, sched, mails, met, badTill>>

-----------------------------------------------------------------------------
(* What is due starts at once when a thread is free: a scheduler that lives is
   woken by the jobs of its own process, and takes milliseconds for them, of
   which the grace time has a thousand.                                      *)
Prompt ==
  /\ \A p \in lives : ~ Busy(p)
  /\ \A a \in jobs : ServedBy[a[1]] \in lives => due[a] > minute
  /\ \A p \in up : (\E a \in Alert : pool[p][a] = "waiting") => ~ Free(p)

Sound == lives = Process /\ \A p \in Process : Free(p)

Pass ==
  /\ minute < MaxMinute /\ Prompt
  /\ minute' = minute + 1
  /\ badTill' = IF Sound THEN badTill ELSE minute + 1
  /\ UNCHANGED <<stops, up, lives, forms, talked, jobs, due, sched, pool, mails, met>>

(* Mutant of Stored: the jobs are in the memory of the process they came to. *)
StoredInMemory(p) == {a \in jobs : ServedBy[a[1]] # p}

(* The job store is a file. *)
Stored(p) == jobs

(* A process stops: the store stays, its pool and its requests do not.       *)
Stop(p) ==
  /\ p \in up /\ stops < MaxStop
  /\ up' = up \ {p} /\ lives' = lives \ {p} /\ stops' = stops + 1
  /\ forms' = [f \in Form |-> IF ServedBy[f] = p /\ forms[f] = "uploading"
                              THEN "failed" ELSE forms[f]]
  /\ jobs' = Stored(p)
  /\ sched' = [sched EXCEPT ![p] = Nowhere] /\ pool' = [pool EXCEPT ![p] = Nowhere]
  /\ met' = met \cup {a \in Alert : sched[p][a] = "handed"}
  /\ badTill' = minute + 1
  /\ UNCHANGED <<minute, talked, due, mails>>

Restart(p) ==
  /\ p \in Process \ up
  /\ up' = up \cup {p} /\ lives' = lives \cup {p}
  /\ UNCHANGED <<minute, stops, forms, talked, jobs, due, sched, pool, mails,
                 met, badTill>>

Next ==
  \/ Chat \/ Pass
  \/ \E f \in Form : Submit(f) \/ Schedule(f)
  \/ \E p \in Process : Poll(p) \/ Stop(p) \/ Restart(p)
  \/ \E p \in Process, a \in Alert :
       Hand(p, a) \/ Remove(p, a) \/ Start(p, a) \/ Mail(p, a) \/ Keep(p, a)

Spec == Init /\ [][Next]_alertVars

-----------------------------------------------------------------------------
(* Types. *)
TypeOK ==
  /\ minute \in Minutes /\ stops \in 0 .. MaxStop
  /\ lives \subseteq up /\ up \subseteq Process /\ talked \in BOOLEAN
  /\ forms \in [Form -> {"idle", "uploading", "accepted", "failed"}]
  /\ jobs \subseteq Alert /\ due \in [Alert -> Nat]
  /\ sched \in [Process -> [Alert -> {"none", "found", "handed"}]]
  /\ pool \in [Process -> [Alert -> {"none", "waiting", "mailing", "keeping"}]]
  /\ mails \in [Process -> [Alert -> Nat]]
  /\ met \subseteq Alert /\ badTill \in Nat

Mailed(a) == \E p \in Process : mails[p][a] > 0
Pending(a) == a \in jobs \/ \E p \in Process : pool[p][a] \in {"waiting", "mailing"}

(* An alert of a submission is mailed once at most, unless two workers'
   schedulers had it at a time or a process stopped between handing it over and
   removing it from the store: then by each process, and once for each time it
   runs.  And a mail is tried for every entry of the list of an accepted
   submission, unless a process or its scheduler was down or all its threads
   were busy at some time since the alert was due: a restart before that loses
   nothing.                                                                  *)
AlertsSound ==
  \A a \in Alert :
    /\ \A p \in Process : mails[p][a] <= stops + 1
    /\ a \notin met => \A p, q \in Process : /\ mails[p][a] <= 1
                                             /\ mails[p][a] > 0 /\ mails[q][a] > 0 => p = q
    /\ forms[a[1]] = "accepted" /\ ~ Pending(a) /\ ~ Mailed(a)
         => badTill > due[a]
=============================================================================
