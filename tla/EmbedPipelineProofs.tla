------------------------- MODULE EmbedPipelineProofs -------------------------
(***************************************************************************)
(* What holds of EmbedPipeline for any number of files, requests, crashes  *)
(* and errors: types, that no row is forgotten, that no points are left    *)
(* without their row, that a purge is whole, and that search finds a file  *)
(* once and as its row says.                                               *)
(***************************************************************************)
EXTENDS EmbedPipeline, TLAPS

LEMMA AnyIn == AnyFile \in File /\ AnyType \in Type
BY EmbedAssumption DEF AnyFile, AnyType

Places == {"idle", "tasks"} \cup Embedding \cup Handling

LEMMA DoingIn ==
  ASSUME NEW at \in Places, NEW f \in File, NEW t \in Type
  PROVE  Doing(at, f, t) \in Requests
BY DEF Doing, Requests, Places

LEMMA IdleIn == Idle \in Requests
BY AnyIn, DoingIn DEF Idle, Places

LEMMA HappensType ==
  ASSUME count \in [Events -> Nat], NEW e \in Events, Happens(e)
  PROVE  count' \in [Events -> Nat]
BY DEF Happens

LEMMA SetStatusType ==
  ASSUME status \in [File -> Statuses], NEW f \in File, NEW s \in Statuses, SetStatus(f, s)
  PROVE  status' \in [File -> Statuses]
BY DEF SetStatus

LEMMA TypeInit == Init => TypeOK
<1> SUFFICES ASSUME Init PROVE TypeOK
  OBVIOUS
<1>1. status \in [File -> Statuses] /\ type \in [File -> Type] /\ disk \subseteq File
  BY AnyIn DEF Init, Statuses
<1>2. points \in [File -> [Type -> Nat]]
  BY DEF Init
<1>3. req \in [Request -> Requests]
  BY IdleIn DEF Init
<1>4. count \in [Events -> Nat]
  BY DEF Init
<1> QED BY <1>1, <1>2, <1>3, <1>4 DEF Init, TypeOK, PurgeSteps

(* A request goes on with a record of its own type.                          *)
LEMMA BeginType ==
  ASSUME TypeOK, NEW r \in Request, NEW q \in Requests, Begin(r, q)
  PROVE  TypeOK'
<1>1. req' \in [Request -> Requests]
  BY DEF TypeOK, Begin
<1>2. Touches(q) \subseteq File
  BY DEF Touches, Requests
<1>3. met' \subseteq File
  BY <1>2 DEF TypeOK, Begin
<1>4. count' \in [Events -> Nat]
  BY HappensType DEF TypeOK, Begin, Events
<1> QED BY <1>1, <1>3, <1>4 DEF TypeOK, Begin, data, life

LEMMA BeginsType ==
  ASSUME TypeOK, NEW r \in Request, Begins(r)
  PROVE  TypeOK'
<1>1. {"upload", "retype", "requeue", "drop", "all"} \subseteq Places
  BY DEF Places, Handling
<1>2. CASE BeginUpload(r)
  BY <1>1, <1>2, DoingIn, BeginType DEF BeginUpload
<1>3. CASE BeginOnFile(r)
  BY <1>1, <1>3, DoingIn, BeginType DEF BeginOnFile
<1>4. CASE BeginAll(r)
  BY <1>1, <1>4, AnyIn, DoingIn, BeginType DEF BeginAll
<1> QED BY <1>2, <1>3, <1>4 DEF Begins

(* One file's points are lists of numbers again.                             *)
LEMMA NoneType == None \in [File -> [Type -> Nat]]
BY DEF None

LEMMA ClearType ==
  ASSUME points \in [File -> [Type -> Nat]], NEW f \in File,
         points' = [points EXCEPT ![f] = None[f]]
  PROVE  points' \in [File -> [Type -> Nat]]
BY NoneType

LEMMA UpsertType ==
  ASSUME points \in [File -> [Type -> Nat]], NEW f \in File, NEW t \in Type,
         points' = [points EXCEPT ![f][t] = IF f \in Textless THEN @ ELSE @ + 1]
  PROVE  points' \in [File -> [Type -> Nat]]
OBVIOUS

LEMMA GotoType ==
  ASSUME req \in [Request -> Requests], NEW r \in Request, NEW at \in Places, Goto(r, at)
  PROVE  req' \in [Request -> Requests]
BY DEF Goto, Requests, Places

LEMMA IdleType ==
  ASSUME req \in [Request -> Requests], NEW r \in Request, req' = [req EXCEPT ![r] = Idle]
  PROVE  req' \in [Request -> Requests]
BY IdleIn

LEMMA StepsType ==
  ASSUME TypeOK, NEW r \in Request, Steps(r) \/ Raise(r)
  PROVE  TypeOK'
<1> USE DEF TypeOK, Places, Embedding, Handling
<1>0. req[r] \in Requests /\ req[r].file \in File /\ req[r].kind \in Type
  BY DEF Requests
<1>1. CASE StoreUpload(r)
  <2>1. req' \in [Request -> Requests]
    BY <1>0, <1>1 DEF StoreUpload, Requests
  <2>2. status' \in [File -> Statuses]
    BY <1>0, <1>1 DEF StoreUpload, Statuses
  <2> QED BY <1>0, <1>1, <2>1, <2>2 DEF StoreUpload, life
<1>2. CASE Retype(r)
  <2>1. req' \in [Request -> Requests]
    BY <1>2, GotoType DEF Retype
  <2> QED BY <1>0, <1>2, <2>1 DEF Retype, life
<1>3. CASE Requeue(r)
  <2>1. req' \in [Request -> Requests]
    <3>1. ASSUME NEW f \in File,
                 req' = [req EXCEPT ![r] = [@ EXCEPT !.at = "tasks", !.tasks = {f}]]
          PROVE  req' \in [Request -> Requests]
      BY <1>0, <3>1 DEF Requests
    <3> QED BY <1>0, <1>3, <3>1, IdleType DEF Requeue
  <2>2. status' \in [File -> Statuses]
    BY <1>0, <1>3, SetStatusType DEF Requeue, Statuses
  <2> QED BY <1>3, <2>1, <2>2 DEF Requeue, life
<1>4. CASE DropPoints(r)
  BY <1>0, <1>4, GotoType, ClearType DEF DropPoints, life
<1>5. CASE DropRow(r)
  <2>1. req' \in [Request -> Requests]
    BY <1>5, GotoType DEF DropRow
  <2>2. status' \in [File -> Statuses]
    BY <1>0, <1>5, SetStatusType DEF DropRow, Statuses
  <2> QED BY <1>5, <2>1, <2>2 DEF DropRow, life
<1>6. CASE DropDisk(r)
  BY <1>6, IdleType DEF DropDisk, life
<1>7. CASE ClearAll(r)
  BY <1>7, GotoType, NoneType DEF ClearAll, life
<1>8. CASE ListAll(r)
  <2>1. req' \in [Request -> Requests]
    BY <1>0, <1>8 DEF ListAll, Requests
  <2> QED BY <1>8, <2>1 DEF ListAll, data, life
<1>9. CASE QueueEach(r)
  <2>1. req' \in [Request -> Requests]
    <3>1. ASSUME NEW f \in req[r].todo, f \in disk,
                 req' = [req EXCEPT ![r] = [@ EXCEPT !.todo = req[r].todo \ {f},
                                                     !.tasks = req[r].tasks \cup {f}]]
          PROVE  req' \in [Request -> Requests]
      BY <1>0, <3>1 DEF Requests
    <3>2. ASSUME NEW f \in req[r].todo, req' = [req EXCEPT ![r].todo = @ \ {f}]
          PROVE  req' \in [Request -> Requests]
      BY <1>0, <3>2 DEF Requests
    <3>3. CASE Goto(r, "tasks")
      BY <3>3, GotoType
    <3> QED BY <1>9, <3>1, <3>2, <3>3 DEF QueueEach
  <2>2. status' \in [File -> Statuses]
    BY <1>0, <1>9, SetStatusType DEF QueueEach, Statuses, Requests
  <2> QED BY <1>9, <2>1, <2>2 DEF QueueEach, life
<1>10. CASE NextTask(r)
  <2>1. req' \in [Request -> Requests]
    <3>1. ASSUME NEW f \in req[r].tasks,
                 req' = [req EXCEPT ![r] = [@ EXCEPT !.at = "mark", !.file = f,
                                                     !.tasks = req[r].tasks \ {f}]]
          PROVE  req' \in [Request -> Requests]
      BY <1>0, <3>1 DEF Requests
    <3> QED BY <1>10, <3>1, IdleType DEF NextTask
  <2> QED BY <1>10, <2>1 DEF NextTask, data, life
<1>11. CASE MarkEmbedding(r)
  <2>1. req' \in [Request -> Requests]
    BY <1>11, GotoType DEF MarkEmbedding
  <2>2. status' \in [File -> Statuses]
    BY <1>0, <1>11, SetStatusType DEF MarkEmbedding, Statuses
  <2> QED BY <1>11, <2>1, <2>2 DEF MarkEmbedding, life
<1>12. CASE ReadType(r)
  <2>1. req' \in [Request -> Requests]
    BY <1>0, <1>12, AnyIn DEF ReadType, Requests
  <2> QED BY <1>12, <2>1 DEF ReadType, data, life
<1>13. CASE ClearPoints(r)
  BY <1>0, <1>13, GotoType, ClearType DEF ClearPoints, life
<1>14. CASE LoadFile(r)
  BY <1>0, <1>14, GotoType DEF LoadFile, data, life
<1>15. CASE UpsertPoints(r)
  BY <1>0, <1>15, GotoType, UpsertType DEF UpsertPoints, life
<1>16. CASE Report(r)
  <2>1. req' \in [Request -> Requests]
    BY <1>16, GotoType DEF Report
  <2>2. status' \in [File -> Statuses]
    BY <1>0, <1>16, SetStatusType DEF Report, Statuses
  <2> QED BY <1>16, <2>1, <2>2 DEF Report, life
<1>17. CASE Raise(r)
  <2>1. req' \in [Request -> Requests]
    BY <1>17, GotoType, IdleType DEF Raise
  <2>2. count' \in [Events -> Nat]
    BY <1>17, HappensType DEF Raise, Events
  <2> QED BY <1>17, <2>1, <2>2 DEF Raise, data, life
<1> QED
  BY <1>1, <1>2, <1>3, <1>4, <1>5, <1>6, <1>7, <1>8, <1>9, <1>10, <1>11, <1>12,
     <1>13, <1>14, <1>15, <1>16, <1>17 DEF Steps

(* What a purge counts, and what it writes down of its steps.                *)
LEMMA PurgeCounts ==
  ASSUME Purge
  PROVE  /\ UNCHANGED count \/ Happens("fault")
         /\ failed' \subseteq failed \cup PurgeSteps
BY DEF Purge, BeginPurge, PurgeVectors, PurgeFiles, PurgeRow, Swallow, PurgeSteps

LEMMA TypeNext == TypeOK /\ [Next]_vars => TypeOK'
<1> SUFFICES ASSUME TypeOK, [Next]_vars PROVE TypeOK'
  OBVIOUS
<1> USE DEF TypeOK, PurgeSteps
<1>1. CASE SoftDelete
  BY <1>1 DEF SoftDelete, data
<1>2. CASE BeginPurge \/ PurgeVectors \/ PurgeFiles
  <2>1. count' \in [Events -> Nat] /\ failed' \subseteq PurgeSteps
    BY <1>2, PurgeCounts, HappensType DEF Events, Purge
  <2> QED BY <1>2, <2>1, NoneType DEF BeginPurge, PurgeVectors, PurgeFiles, data
<1>3. CASE PurgeRow
  <2>1. status' \in [File -> Statuses]
    BY <1>3 DEF PurgeRow, Statuses
  <2>2. count' \in [Events -> Nat] /\ failed' \subseteq PurgeSteps
    BY <1>3, PurgeCounts, HappensType DEF Events, Purge
  <2> QED BY <1>3, <2>1, <2>2 DEF PurgeRow
<1>4. CASE Crash
  <2>1. req' \in [Request -> Requests] /\ count' \in [Events -> Nat]
    BY <1>4, IdleIn, HappensType DEF Crash, Events
  <2> QED BY <1>4, <2>1 DEF Crash, data
<1>5. CASE Boot
  <2>1. status' \in [File -> Statuses]
    BY <1>5 DEF Boot, Statuses
  <2> QED BY <1>5, <2>1 DEF Boot
<1>6. CASE UNCHANGED vars
  BY <1>6 DEF vars, data, life
<1> QED
  BY <1>1, <1>2, <1>3, <1>4, <1>5, <1>6, BeginsType, StepsType DEF Next, Purge

(* Rows, points, requests and counters keep their types.                     *)
THEOREM TypeCorrect == Spec => []TypeOK
BY TypeInit, TypeNext, PTL DEF Spec

-----------------------------------------------------------------------------
(* What a step of one request leaves alone.                                  *)

LEMMA OthersStay ==
  ASSUME TypeOK, NEW r \in Request, Begins(r) \/ Steps(r) \/ Raise(r)
  PROVE  \A s \in Request \ {r} : req'[s] = req[s]
<1> USE DEF TypeOK
<1>1. CASE Begins(r)
  BY <1>1 DEF Begins, BeginUpload, BeginOnFile, BeginAll, Begin
<1>2. CASE StoreUpload(r) \/ Retype(r) \/ Requeue(r)
  BY <1>2 DEF StoreUpload, Retype, Requeue, Goto
<1>3. CASE DropPoints(r) \/ DropRow(r) \/ DropDisk(r) \/ ClearAll(r) \/ ListAll(r)
  BY <1>3 DEF DropPoints, DropRow, DropDisk, ClearAll, ListAll, Goto
<1>4. CASE QueueEach(r)
  BY <1>4 DEF QueueEach, Goto
<1>5. CASE NextTask(r) \/ MarkEmbedding(r) \/ ReadType(r) \/ ClearPoints(r)
  BY <1>5 DEF NextTask, MarkEmbedding, ReadType, ClearPoints, Goto
<1>6. CASE LoadFile(r) \/ UpsertPoints(r) \/ Report(r) \/ Raise(r)
  BY <1>6 DEF LoadFile, UpsertPoints, Report, Raise, Goto
<1> QED BY <1>1, <1>2, <1>3, <1>4, <1>5, <1>6 DEF Steps

(* The fields of a request after a step that changes several of them.        *)
Becomes(r, at, tasks, todo) ==
  req'[r].at = at /\ req'[r].tasks = tasks /\ req'[r].todo = todo

LEMMA RequeueMoves ==
  ASSUME TypeOK, NEW r \in Request, Requeue(r)
  PROVE  /\ req[r].at = "requeue"
         /\ \/ /\ SetStatus(req[r].file, "pending")
               /\ Becomes(r, "tasks", {req[r].file}, req[r].todo)
            \/ UNCHANGED status /\ Becomes(r, "idle", {}, {})
<1>1. req[r] \in Requests
  BY DEF TypeOK
<1>2. ASSUME req' = [req EXCEPT ![r] = Idle] PROVE Becomes(r, "idle", {}, {})
  BY <1>2 DEF TypeOK, Becomes, Idle, Doing
<1>3. ASSUME req' = [req EXCEPT ![r] = [@ EXCEPT !.at = "tasks", !.tasks = {req[r].file}]]
      PROVE  Becomes(r, "tasks", {req[r].file}, req[r].todo)
  BY <1>1, <1>3 DEF TypeOK, Becomes, Requests
<1> QED BY <1>2, <1>3 DEF Requeue

LEMMA QueueEachMoves ==
  ASSUME TypeOK, NEW r \in Request, QueueEach(r)
  PROVE  /\ req[r].at = "each"
         /\ \/ \E f \in req[r].todo :
                 \/ /\ SetStatus(f, "pending")
                    /\ Becomes(r, "each", req[r].tasks \cup {f}, req[r].todo \ {f})
                 \/ /\ f \notin disk /\ SetStatus(f, "failed")
                    /\ Becomes(r, "each", req[r].tasks, req[r].todo \ {f})
            \/ /\ UNCHANGED status /\ req[r].todo = {}
               /\ Becomes(r, "tasks", req[r].tasks, {})
<1>1. req[r] \in Requests /\ req[r].at = "each"
  BY DEF TypeOK, QueueEach
<1>2. ASSUME NEW f \in req[r].todo,
             req' = [req EXCEPT ![r] = [@ EXCEPT !.todo = req[r].todo \ {f},
                                                 !.tasks = req[r].tasks \cup {f}]]
      PROVE  Becomes(r, "each", req[r].tasks \cup {f}, req[r].todo \ {f})
  BY <1>1, <1>2 DEF TypeOK, Becomes, Requests
<1>3. ASSUME NEW f \in req[r].todo, req' = [req EXCEPT ![r].todo = @ \ {f}]
      PROVE  Becomes(r, "each", req[r].tasks, req[r].todo \ {f})
  BY <1>1, <1>3 DEF TypeOK, Becomes, Requests
<1>4. ASSUME Goto(r, "tasks"), req[r].todo = {} PROVE Becomes(r, "tasks", req[r].tasks, {})
  BY <1>1, <1>4 DEF TypeOK, Becomes, Requests, Goto
<1> QED BY <1>2, <1>3, <1>4 DEF QueueEach

LEMMA NextTaskMoves ==
  ASSUME TypeOK, NEW r \in Request, NextTask(r)
  PROVE  /\ req[r].at = "tasks"
         /\ \/ \E f \in req[r].tasks :
                 Becomes(r, "mark", req[r].tasks \ {f}, req[r].todo) /\ req'[r].file = f
            \/ req[r].tasks = {} /\ Becomes(r, "idle", {}, {})
<1>1. req[r] \in Requests
  BY DEF TypeOK
<1>2. ASSUME req' = [req EXCEPT ![r] = Idle] PROVE Becomes(r, "idle", {}, {})
  BY <1>2 DEF TypeOK, Becomes, Idle, Doing
<1>3. ASSUME NEW f \in req[r].tasks,
             req' = [req EXCEPT ![r] = [@ EXCEPT !.at = "mark", !.file = f,
                                                 !.tasks = req[r].tasks \ {f}]]
      PROVE  Becomes(r, "mark", req[r].tasks \ {f}, req[r].todo) /\ req'[r].file = f
  BY <1>1, <1>3 DEF TypeOK, Becomes, Requests
<1> QED BY <1>2, <1>3 DEF NextTask

LEMMA BeginMoves ==
  ASSUME TypeOK, NEW r \in Request, Begins(r)
  PROVE  /\ req[r].at = "idle"
         /\ \E at \in {"upload", "retype", "requeue", "drop", "all"}, f \in File, t \in Type :
              /\ at \in {"retype", "requeue", "drop"} => HasRow(f)
              /\ req'[r] = Doing(at, f, t)
              /\ met' = met \cup {g \in Touches(Doing(at, f, t)) : ~Quiet(g)}
<1>1. ASSUME NEW q, Begin(r, q)
      PROVE  /\ req[r].at = "idle" /\ req'[r] = q
             /\ met' = met \cup {g \in Touches(q) : ~Quiet(g)}
  BY <1>1 DEF TypeOK, Begin
<1>2. CASE BeginUpload(r)
  BY <1>1, <1>2 DEF BeginUpload
<1>3. CASE BeginOnFile(r)
  BY <1>1, <1>3 DEF BeginOnFile
<1>4. CASE BeginAll(r)
  BY <1>1, <1>4, AnyIn DEF BeginAll
<1> QED BY <1>2, <1>3, <1>4 DEF Begins

(* No request works on a bot whose purge has begun.                          *)
Rest ==
  purge # "off" \/ bot = "gone" =>
    bot # "live" /\ \A r \in Request : req[r].at = "idle"

LEMMA StepsAreBusy ==
  ASSUME NEW r \in Request, Steps(r) \/ Raise(r)
  PROVE  req[r].at # "idle" /\ UNCHANGED life
BY DEF Steps, Raise, StoreUpload, Retype, Requeue, DropPoints, DropRow, DropDisk,
       ClearAll, ListAll, QueueEach, NextTask, MarkEmbedding, ReadType, ClearPoints,
       LoadFile, UpsertPoints, Report, Embedding

LEMMA BeginsAreLive ==
  ASSUME NEW r \in Request, Begins(r)
  PROVE  bot = "live" /\ UNCHANGED <<data, life>>
BY DEF Begins, BeginUpload, BeginOnFile, BeginAll, Begin

LEMMA RestNext ==
  ASSUME TypeOK, Rest, [Next]_vars
  PROVE  Rest'
<1> USE DEF Rest
<1>1. ASSUME NEW r \in Request, Begins(r) PROVE Rest'
  BY <1>1, BeginsAreLive DEF life
<1>2. ASSUME NEW r \in Request, Steps(r) \/ Raise(r) PROVE Rest'
  BY <1>2, StepsAreBusy DEF life
<1>3. CASE SoftDelete
  BY <1>3 DEF SoftDelete
<1>4. CASE Purge
  BY <1>4 DEF Purge, BeginPurge, PurgeVectors, PurgeFiles, PurgeRow
<1>5. CASE Crash
  BY <1>5 DEF Crash, Idle, Doing
<1>6. CASE Boot
  BY <1>6 DEF Boot
<1>7. CASE UNCHANGED vars
  BY <1>7 DEF vars, life
<1> QED BY <1>1, <1>2, <1>3, <1>4, <1>5, <1>6, <1>7 DEF Next

(* What the steps of a purge have removed, or failed to.                     *)
Purged ==
  /\ purge \in {"files", "row"} \/ bot = "gone" => points = None \/ "vectors" \in failed
  /\ purge = "row" \/ bot = "gone" => disk = {} \/ "files" \in failed

LEMMA PurgedNext ==
  ASSUME TypeOK, Rest, Purged, [Next]_vars
  PROVE  Purged'
<1> USE DEF Purged
<1>1. ASSUME NEW r \in Request, Begins(r) PROVE Purged'
  BY <1>1, BeginsAreLive DEF life, data
<1>2. ASSUME NEW r \in Request, Steps(r) \/ Raise(r) PROVE Purged'
  BY <1>2, StepsAreBusy DEF life, Rest
<1>3. CASE SoftDelete
  BY <1>3 DEF SoftDelete, data
<1>4. CASE BeginPurge \/ PurgeVectors \/ PurgeFiles \/ PurgeRow
  BY <1>4 DEF BeginPurge, PurgeVectors, PurgeFiles, PurgeRow, Swallow, Rest, data, None
<1>5. CASE Crash
  BY <1>5 DEF Crash, data
<1>6. CASE Boot
  BY <1>6 DEF Boot
<1>7. CASE UNCHANGED vars
  BY <1>7 DEF vars, data, life
<1> QED BY <1>1, <1>2, <1>3, <1>4, <1>5, <1>6, <1>7 DEF Next, Purge

(* However often purges failed or were cut off, and whatever requests and    *)
(* crashes came before: of a bot whose row is gone only that is left whose   *)
(* own step failed in the purge that took the row, and nothing comes back.   *)
THEOREM PurgeLeavesNothing == Spec => []PurgeIsWhole
<1>1. Init => Rest /\ Purged
  BY DEF Init, Rest, Purged
<1>2. TypeOK /\ Rest /\ Purged /\ [Next]_vars => (Rest /\ Purged)'
  BY RestNext, PurgedNext
<1>3. Purged => PurgeIsWhole
  BY DEF Purged, PurgeIsWhole
<1> QED BY <1>1, <1>2, <1>3, TypeCorrect, PTL DEF Spec

-----------------------------------------------------------------------------
(* A request has embeds once it queues them, and files to queue until then.  *)
Shaped(q) ==
  /\ q.at \in {"idle"} \cup (Handling \ {"each"}) => q.tasks = {}
  /\ q.at # "each" => q.todo = {}

TasksLast == \A r \in Request : Shaped(req[r])

(* A process that is down has crashed.                                       *)
DownCrashed == ~up => ~NoCrash

Awaited == NoCrash =>
  \A f \in File : status[f] \in Unsettled => \E r \in Request : f \in Ahead(req[r])

(* What request r owes a file: a row that it leaves unsettled it will embed. *)
Pays(r) ==
  \A f \in File : status'[f] \in Unsettled =>
    \/ f \in Ahead(req'[r])
    \/ status[f] \in Unsettled /\ f \notin Ahead(req[r])

LEMMA StepPays ==
  ASSUME TypeOK, TasksLast, NEW r \in Request, Steps(r) \/ Raise(r)
  PROVE  Pays(r) /\ Shaped(req'[r])
<1> USE DEF TypeOK, TasksLast, Shaped, Pays, Ahead, Embedding, Handling, Unsettled
<1>0. req[r] \in Requests /\ req[r].tasks \subseteq File /\ req[r].file \in File
  BY DEF Requests
<1>1. CASE StoreUpload(r)
  BY <1>0, <1>1 DEF StoreUpload, Requests
<1>2. CASE Retype(r)
  BY <1>0, <1>2 DEF Retype, Goto, Requests
<1>3. CASE Requeue(r)
  BY <1>0, <1>3, RequeueMoves DEF SetStatus, Becomes
<1>4. CASE DropPoints(r)
  BY <1>0, <1>4 DEF DropPoints, Goto, Requests
<1>5. CASE DropRow(r)
  BY <1>0, <1>5 DEF DropRow, SetStatus, Goto, Requests
<1>6. CASE DropDisk(r)
  BY <1>0, <1>6 DEF DropDisk, Requests, Idle, Doing
<1>7. CASE ClearAll(r)
  BY <1>0, <1>7 DEF ClearAll, Goto, Requests
<1>8. CASE ListAll(r)
  BY <1>0, <1>8 DEF ListAll, data, Requests
<1>9. CASE QueueEach(r)
  BY <1>0, <1>9, QueueEachMoves DEF SetStatus, Becomes
<1>10. CASE NextTask(r)
  BY <1>0, <1>10, NextTaskMoves DEF NextTask, data, Becomes
<1>11. CASE MarkEmbedding(r)
  BY <1>0, <1>11 DEF MarkEmbedding, SetStatus, Goto, Requests
<1>12. CASE ReadType(r)
  BY <1>0, <1>12 DEF ReadType, data, Requests
<1>13. CASE ClearPoints(r)
  BY <1>0, <1>13 DEF ClearPoints, Goto, Requests
<1>14. CASE LoadFile(r)
  BY <1>0, <1>14 DEF LoadFile, data, Goto, Requests
<1>15. CASE UpsertPoints(r)
  BY <1>0, <1>15 DEF UpsertPoints, Goto, Requests
<1>16. CASE Report(r)
  BY <1>0, <1>16 DEF Report, SetStatus, HasRow, Goto, Requests
<1>17. CASE Raise(r)
  <2>1. Shaped(req[r])
    BY DEF TasksLast
  <2>2. CASE req[r].at \in {"clear", "load", "upsert"} /\ Goto(r, "fail")
    BY <1>0, <1>17, <2>1, <2>2 DEF Raise, data, Goto, Requests
  <2>3. CASE req[r].at \in {"drop", "all"} /\ req' = [req EXCEPT ![r] = Idle]
    BY <1>0, <1>17, <2>1, <2>3 DEF Raise, data, Idle, Doing
  <2> QED BY <1>17, <2>2, <2>3 DEF Raise
<1> QED
  BY <1>1, <1>2, <1>3, <1>4, <1>5, <1>6, <1>7, <1>8, <1>9, <1>10, <1>11, <1>12,
     <1>13, <1>14, <1>15, <1>16, <1>17 DEF Steps

LEMMA BeginPays ==
  ASSUME TypeOK, TasksLast, NEW r \in Request, Begins(r)
  PROVE  Pays(r) /\ Shaped(req'[r])
<1>1. req[r].at = "idle" /\ Shaped(req'[r])
  <2>1. PICK at, f, t : req'[r] = Doing(at, f, t)
    BY BeginMoves
  <2>2. Shaped(req'[r])
    BY <2>1 DEF Doing, Shaped
  <2> QED BY <2>2, BeginMoves
<1>2. UNCHANGED status
  BY BeginsAreLive DEF data
<1> QED BY <1>1, <1>2 DEF TasksLast, Shaped, Pays, Ahead, Embedding

LEMMA CountsOnly ==
  ASSUME TypeOK, NEW r \in Request, Begins(r) \/ Steps(r) \/ Raise(r), NoCrash'
  PROVE  NoCrash
<1>1. CASE Begins(r) \/ Raise(r)
  BY <1>1 DEF Begins, BeginUpload, BeginOnFile, BeginAll, Begin, Raise, Happens, NoCrash,
              TypeOK, Events
<1>2. CASE Steps(r)
  BY <1>2 DEF Steps, StoreUpload, Retype, Requeue, DropPoints, DropRow, DropDisk,
              ClearAll, ListAll, QueueEach, NextTask, MarkEmbedding, ReadType, ClearPoints,
              LoadFile, UpsertPoints, Report, NoCrash
<1> QED BY <1>1, <1>2

LEMMA PurgeCalm ==
  ASSUME TypeOK, Purge
  PROVE  NoCrash' = NoCrash
BY PurgeCounts DEF Happens, NoCrash, TypeOK, Events

LEMMA AwaitedNext ==
  ASSUME TypeOK, TasksLast, DownCrashed, Awaited, [Next]_vars
  PROVE  (TasksLast /\ DownCrashed /\ Awaited)'
<1>1. ASSUME NEW r \in Request, Begins(r) \/ Steps(r) \/ Raise(r)
      PROVE  (TasksLast /\ DownCrashed /\ Awaited)'
  <2>1. Pays(r) /\ Shaped(req'[r])
    BY <1>1, StepPays, BeginPays
  <2>2. \A s \in Request \ {r} : req'[s] = req[s]
    BY <1>1, OthersStay
  <2>3. TasksLast'
    BY <2>1, <2>2 DEF TasksLast
  <2>4. DownCrashed'
    <3>1. up' = up
      BY <1>1, StepsAreBusy, BeginsAreLive DEF life
    <3> QED BY <1>1, <3>1, CountsOnly DEF DownCrashed
  <2>5. Awaited'
    <3> SUFFICES ASSUME NoCrash', NEW f \in File, status'[f] \in Unsettled
                 PROVE  \E s \in Request : f \in Ahead(req'[s])
      BY DEF Awaited, Ahead, Unsettled, Embedding
    <3>1. CASE f \in Ahead(req'[r])
      BY <3>1
    <3>2. CASE status[f] \in Unsettled /\ f \notin Ahead(req[r])
      <4>1. PICK s \in Request : f \in Ahead(req[s])
        BY <1>1, <3>2, CountsOnly DEF Awaited
      <4> QED BY <2>2, <3>2, <4>1 DEF Ahead
    <3> QED BY <2>1, <3>1, <3>2 DEF Pays
  <2> QED BY <2>3, <2>4, <2>5
<1>2. CASE SoftDelete
  BY <1>2 DEF SoftDelete, data, TasksLast, Shaped, DownCrashed, Awaited, NoCrash, Ahead, Unsettled,
              Embedding, Handling
<1>3. CASE Purge
  <2>1. \A f \in File : status'[f] \in Unsettled => status[f] \in Unsettled
    BY <1>3 DEF Purge, BeginPurge, PurgeVectors, PurgeFiles, PurgeRow, data, Unsettled
  <2>2. UNCHANGED <<req, up>> /\ NoCrash' = NoCrash
    BY <1>3, PurgeCalm DEF Purge, BeginPurge, PurgeVectors, PurgeFiles, PurgeRow
  <2> QED
    BY <2>1, <2>2 DEF TasksLast, Shaped, DownCrashed, Awaited, Ahead, Embedding, Handling, Unsettled
<1>4. CASE Crash
  <2>1. ~NoCrash'
    BY <1>4 DEF Crash, Happens, NoCrash, TypeOK, Events
  <2> QED BY <1>4, <2>1 DEF Crash, TasksLast, Shaped, DownCrashed, Awaited, Idle, Doing
<1>5. CASE Boot
  BY <1>5 DEF Boot, TasksLast, Shaped, DownCrashed, Awaited, NoCrash
<1>6. CASE UNCHANGED vars
  BY <1>6 DEF vars, data, life, TasksLast, Shaped, DownCrashed, Awaited, NoCrash, Ahead, Unsettled,
              Embedding, Handling
<1> QED BY <1>1, <1>2, <1>3, <1>4, <1>5, <1>6 DEF Next, Purge

(* Until the process dies, no row is forgotten in pending or embedding:      *)
(* every error path and every overlap of requests leaves somebody who will   *)
(* embed the file or has settled it.                                         *)
THEOREM NobodyForgotten == Spec => []UnsettledIsAhead
<1>1. Init => TasksLast /\ DownCrashed /\ Awaited
  BY DEF Init, TasksLast, Shaped, DownCrashed, Awaited, Idle, Doing, Unsettled
<1>2. Awaited => UnsettledIsAhead
  BY DEF Awaited, UnsettledIsAhead
<1> QED BY <1>1, <1>2, AwaitedNext, TypeCorrect, PTL DEF Spec

-----------------------------------------------------------------------------
(* Two requests work on a file only if it is in met.                         *)
Alone ==
  \A r, s \in Request : r # s => Touches(req[r]) \cap Touches(req[s]) \subseteq met

(* What a request knows of a file that nobody else works on: one that it     *)
(* embeds or will embed has a row, one whose row it is about to delete has no points.  *)
Knows(q, f) ==
  /\ f \in Ahead(q) \cup q.todo => HasRow(f)
  /\ q.at \in {"retype", "requeue"} /\ q.file = f => HasRow(f)
  /\ q.at = "dropRow" /\ q.file = f => points[f] = None[f]

Known ==
  \A r \in Request : \A f \in Touches(req[r]) \ met : Knows(req[r], f)

Emptied ==
  purge \in {"files", "row"} \/ bot = "gone" => points = None \/ "vectors" \in failed

OrphanInv == Alone /\ Known /\ Emptied /\ NoOrphanPoints

(* A step stays within the files of its request, and what it does to one     *)
(* that nobody else works on is in order.                                    *)
Orderly(r) ==
  /\ Touches(req'[r]) \subseteq Touches(req[r])
  /\ \A f \in File \ Touches(req[r]) : status'[f] = status[f] /\ points'[f] = points[f]
  /\ \A f \in Touches(req[r]) :
       Knows(req[r], f) /\ (HasRow(f) \/ points[f] = None[f])
         => Knows(req[r], f)' /\ (HasRow(f)' \/ points'[f] = None[f])

LEMMA StepOrderly ==
  ASSUME TypeOK, TasksLast, NEW r \in Request, Steps(r) \/ Raise(r)
  PROVE  Orderly(r) /\ UNCHANGED met
<1> USE DEF TypeOK, Orderly, Touches, Knows, Ahead, Embedding, HasRow
<1>0. req[r] \in Requests /\ req[r].tasks \subseteq File /\ req[r].todo \subseteq File
      /\ req[r].file \in File
  BY DEF Requests
<1>s. Shaped(req[r])
  BY DEF TasksLast
<1> USE <1>s DEF Shaped, Handling
<1>1. CASE StoreUpload(r)
  BY <1>0, <1>1 DEF StoreUpload, Requests
<1>2. CASE Retype(r)
  BY <1>0, <1>2 DEF Retype, Goto, Requests
<1>3. CASE Requeue(r)
  <2>1. UNCHANGED <<points, met>>
    BY <1>3 DEF Requeue
  <2> QED BY <1>0, <2>1, <1>3, RequeueMoves DEF SetStatus, Becomes
<1>4. CASE DropPoints(r)
  BY <1>0, <1>4 DEF DropPoints, Goto, Requests
<1>5. CASE DropRow(r)
  BY <1>0, <1>5 DEF DropRow, SetStatus, Goto, Requests
<1>6. CASE DropDisk(r)
  BY <1>0, <1>6 DEF DropDisk, Requests, Idle, Doing
<1>7. CASE ClearAll(r)
  BY <1>0, <1>7 DEF ClearAll, Goto, Requests
<1>8. CASE ListAll(r)
  BY <1>0, <1>8 DEF ListAll, data, Requests
<1>9. CASE QueueEach(r)
  <2>1. UNCHANGED <<points, met>>
    BY <1>9 DEF QueueEach
  <2> QED BY <1>0, <2>1, <1>9, QueueEachMoves DEF SetStatus, Becomes
<1>10. CASE NextTask(r)
  <2>1. UNCHANGED <<status, points, met>>
    BY <1>10 DEF NextTask, data
  <2> QED BY <1>0, <2>1, <1>10, NextTaskMoves DEF Becomes
<1>11. CASE MarkEmbedding(r)
  BY <1>0, <1>11 DEF MarkEmbedding, SetStatus, Goto, Requests
<1>12. CASE ReadType(r)
  BY <1>0, <1>12 DEF ReadType, data, Requests
<1>13. CASE ClearPoints(r)
  BY <1>0, <1>13 DEF ClearPoints, Goto, Requests
<1>14. CASE LoadFile(r)
  BY <1>0, <1>14 DEF LoadFile, data, Goto, Requests
<1>15. CASE UpsertPoints(r)
  BY <1>0, <1>15 DEF UpsertPoints, Goto, Requests
<1>16. CASE Report(r)
  BY <1>0, <1>16 DEF Report, SetStatus, Goto, Requests
<1>17. CASE Raise(r)
  BY <1>0, <1>17 DEF Raise, data, Goto, Requests, Idle, Doing
<1> QED
  BY <1>1, <1>2, <1>3, <1>4, <1>5, <1>6, <1>7, <1>8, <1>9, <1>10, <1>11, <1>12,
     <1>13, <1>14, <1>15, <1>16, <1>17 DEF Steps

LEMMA OrphanStep ==
  ASSUME TypeOK, TasksLast, OrphanInv, Rest, NEW r \in Request, Steps(r) \/ Raise(r)
  PROVE  OrphanInv'
<1>0. bot # "gone" /\ UNCHANGED life
  BY StepsAreBusy DEF Rest
<1>1. Orderly(r) /\ UNCHANGED met
  BY StepOrderly
<1>2. \A s \in Request \ {r} : req'[s] = req[s]
  BY OthersStay
<1>3. \A s \in Request : Touches(req[s]) \subseteq File /\ Touches(req'[s]) \subseteq File
  BY <1>1, <1>2 DEF Touches, TypeOK, Requests, Orderly
<1>4. Alone'
  <2> SUFFICES ASSUME NEW s \in Request, NEW t \in Request, s # t
               PROVE  Touches(req'[s]) \cap Touches(req'[t]) \subseteq met'
    BY DEF Alone, Touches
  <2>1. Touches(req'[s]) \subseteq Touches(req[s]) /\ Touches(req'[t]) \subseteq Touches(req[t])
    BY <1>1, <1>2 DEF Orderly
  <2> QED BY <1>1, <2>1 DEF OrphanInv, Alone
<1>5. Known'
  <2> SUFFICES ASSUME NEW s \in Request, NEW f \in Touches(req'[s]), f \notin met'
               PROVE  Knows(req[s], f)'
    BY DEF Known, Touches
  <2>1. f \in File /\ f \notin met
    BY <1>1, <1>3
  <2>2. CASE s = r
    <3>1. f \in Touches(req[r])
      BY <1>1, <2>2 DEF Orderly
    <3>2. Knows(req[r], f) /\ (HasRow(f) \/ points[f] = None[f])
      BY <1>0, <2>1, <3>1 DEF OrphanInv, Known, NoOrphanPoints
    <3> QED BY <1>1, <2>2, <3>1, <3>2 DEF Orderly
  <2>3. CASE s # r
    <3>1. f \in Touches(req[s]) /\ f \notin Touches(req[r])
      BY <1>2, <2>1, <2>3 DEF OrphanInv, Alone
    <3>2. status'[f] = status[f] /\ points'[f] = points[f]
      BY <1>1, <2>1, <3>1 DEF Orderly
    <3>3. Knows(req[s], f)
      BY <2>1, <3>1 DEF OrphanInv, Known
    <3> QED BY <1>2, <2>3, <3>2, <3>3 DEF Knows, HasRow, Ahead, None
  <2> QED BY <2>2, <2>3
<1>6. Emptied'
  BY StepsAreBusy, <1>0 DEF OrphanInv, Emptied, Rest, life
<1>7. NoOrphanPoints'
  <2> SUFFICES ASSUME NEW f \in File, f \notin met'
               PROVE  HasRow(f)' \/ points'[f] = None[f]
    BY DEF NoOrphanPoints, HasRow, None
  <2>1. HasRow(f) \/ points[f] = None[f]
    BY <1>0, <1>1 DEF OrphanInv, NoOrphanPoints
  <2>2. CASE f \in Touches(req[r])
    BY <1>1, <2>1, <2>2 DEF Orderly, OrphanInv, Known
  <2>3. CASE f \notin Touches(req[r])
    BY <1>1, <2>1, <2>3 DEF Orderly, HasRow
  <2> QED BY <2>2, <2>3
<1> QED BY <1>4, <1>5, <1>6, <1>7 DEF OrphanInv

LEMMA OrphanBegin ==
  ASSUME TypeOK, OrphanInv, Rest, NEW r \in Request, Begins(r)
  PROVE  OrphanInv'
<1>1. PICK at \in {"upload", "retype", "requeue", "drop", "all"}, f \in File, t \in Type :
        /\ at \in {"retype", "requeue", "drop"} => HasRow(f)
        /\ req'[r] = Doing(at, f, t)
        /\ met' = met \cup {g \in Touches(Doing(at, f, t)) : ~Quiet(g)}
  BY BeginMoves
<1>2. \A s \in Request \ {r} : req'[s] = req[s]
  BY OthersStay
<1>3. bot = "live" /\ UNCHANGED <<data, life>>
  BY BeginsAreLive
<1>4. Touches(req'[r]) \subseteq File
  BY <1>1 DEF Touches, Doing
<1>5. \A s \in Request \ {r} : Touches(req'[r]) \cap Touches(req[s]) \subseteq met'
  BY <1>1 DEF Quiet
<1>6. Alone'
  <2> SUFFICES ASSUME NEW s \in Request, NEW u \in Request, s # u
               PROVE  Touches(req'[s]) \cap Touches(req'[u]) \subseteq met'
    BY DEF Alone, Touches
  <2>1. CASE s = r \/ u = r
    BY <1>2, <1>5, <2>1
  <2>2. CASE s # r /\ u # r
    BY <1>1, <1>2, <2>2 DEF OrphanInv, Alone
  <2> QED BY <2>1, <2>2
<1>7. Known'
  <2> SUFFICES ASSUME NEW s \in Request, NEW g \in Touches(req'[s]), g \notin met'
               PROVE  Knows(req[s], g)'
    BY DEF Known, Touches
  <2>1. CASE s = r
    <3>1. Knows(Doing(at, f, t), g)'
      BY <1>1, <1>3 DEF Knows, Ahead, Doing, Embedding, HasRow, data
    <3> QED BY <1>1, <2>1, <3>1 DEF Knows, Ahead
  <2>2. CASE s # r
    <3>1. Knows(req[s], g)
      BY <1>1, <1>2, <2>2 DEF OrphanInv, Known
    <3> QED BY <1>2, <1>3, <2>2, <3>1 DEF Knows, HasRow, Ahead, None, data
  <2> QED BY <2>1, <2>2
<1>8. Emptied'
  BY <1>3 DEF OrphanInv, Emptied, Rest, data, life
<1>9. NoOrphanPoints'
  BY <1>1, <1>3 DEF OrphanInv, NoOrphanPoints, HasRow, data, life
<1> QED BY <1>6, <1>7, <1>8, <1>9 DEF OrphanInv

LEMMA OrphanNext ==
  ASSUME TypeOK, TasksLast, Rest, OrphanInv, [Next]_vars
  PROVE  OrphanInv'
<1> USE DEF OrphanInv, Alone, Known, Knows, Emptied, NoOrphanPoints
<1>1. CASE SoftDelete \/ UNCHANGED vars
  BY <1>1 DEF SoftDelete, vars, data, life, Touches, Ahead, HasRow, None
<1>2. CASE BeginPurge
  BY <1>2 DEF BeginPurge, Rest, data, Touches, Ahead, HasRow, None
<1>3. CASE PurgeVectors \/ PurgeFiles
  BY <1>3 DEF PurgeVectors, PurgeFiles, Swallow, Rest, Touches, Ahead, HasRow, None
<1>4. CASE PurgeRow
  <2>1. points = None \/ "vectors" \in failed
    BY <1>4 DEF PurgeRow
  <2>2. \A r \in Request : Touches(req'[r]) = {}
    BY <1>4 DEF PurgeRow, Rest, Touches
  <2>3. CASE bot' = "gone" /\ failed' = failed
    BY <1>4, <2>1, <2>2, <2>3 DEF PurgeRow, None
  <2>4. CASE UNCHANGED <<bot, status>> /\ failed \subseteq failed'
    BY <1>4, <2>1, <2>2, <2>4 DEF PurgeRow, HasRow, None
  <2> QED BY <1>4, <2>3, <2>4 DEF PurgeRow, Swallow
<1>5. CASE Crash
  <2>1. \A r \in Request : Touches(req'[r]) = {}
    BY <1>5 DEF Crash, Touches, Idle, Doing
  <2> QED BY <1>5, <2>1 DEF Crash, data, HasRow
<1>6. CASE Boot
  <2>1. \A f \in File : HasRow(f)' <=> HasRow(f)
    BY <1>6 DEF Boot, HasRow, Unsettled
  <2>2. UNCHANGED <<req, points, met, bot, purge, failed>>
    BY <1>6 DEF Boot
  <2>3. Alone'
    BY <2>2 DEF Touches
  <2>4. Known'
    <3> SUFFICES ASSUME NEW r \in Request, NEW f \in Touches(req[r]), f \notin met
                 PROVE  Knows(req[r], f)'
      BY <2>2 DEF Touches
    <3>1. Knows(req[r], f)
      OBVIOUS
    <3>2. HasRow(f)' <=> HasRow(f)
      BY <2>1 DEF TypeOK, Requests, Touches
    <3> QED BY <2>2, <3>1, <3>2 DEF Ahead, None
  <2>5. Emptied'
    BY <2>2 DEF None
  <2>6. NoOrphanPoints'
    BY <2>1, <2>2 DEF None
  <2> QED BY <2>3, <2>4, <2>5, <2>6
<1> QED
  BY <1>1, <1>2, <1>3, <1>4, <1>5, <1>6, OrphanStep, OrphanBegin DEF Next, Purge

(* A file without a row has no points unless two requests worked on it at a  *)
(* time or the bot's purge could not drop them: no order of uploads, embeds, *)
(* errors, crashes and deletions leaves a deleted file in the answers.       *)
THEOREM NothingOrphaned == Spec => []NoOrphanPoints
<1>1. Init => TasksLast /\ DownCrashed /\ Awaited /\ Rest
  BY DEF Init, TasksLast, Shaped, DownCrashed, Awaited, Idle, Doing, Unsettled, Rest
<1>2. Init => OrphanInv
  <2> SUFFICES ASSUME Init PROVE OrphanInv
    OBVIOUS
  <2>1. \A r \in Request : Touches(req[r]) = {}
    BY DEF Init, Touches, Idle, Doing
  <2>2. \A f \in File : HasRow(f) \/ points[f] = None[f]
    BY DEF Init, HasRow, None
  <2> QED BY <2>1, <2>2 DEF Init, OrphanInv, Alone, Known, Emptied, NoOrphanPoints
<1>3. OrphanInv => NoOrphanPoints
  BY DEF OrphanInv
<1> QED BY <1>1, <1>2, <1>3, AwaitedNext, RestNext, OrphanNext, TypeCorrect, PTL DEF Spec
-----------------------------------------------------------------------------
(* The rows and the uploads: a row has its upload on disk unless the process *)
(* died or the purge got to it, and an upload in progress has no row yet.    *)
Kept(q) ==
  /\ q.at = "upload" => status[q.file] = "absent"
  /\ q.at \in {"drop", "dropRow"} => status[q.file] # "absent"
  /\ q.at = "dropDisk" => status[q.file] = "deleted"

Stored ==
  /\ NoCrash /\ (bot = "live" \/ \E r \in Request : req[r].at # "idle") =>
       \A f \in File : HasRow(f) => f \in disk
  /\ \A r \in Request : Kept(req[r])
  /\ \A r, s \in Request :
       r # s /\ req[r].at = "upload" /\ req[s].at = "upload" => req[r].file # req[s].file

(* One copy of a file's chunks, of one type.                                 *)
Copy(t) == [u \in Type |-> IF u = t THEN 1 ELSE 0]
Slim(f) == points[f] = None[f] \/ \E t \in Type : points[f] = Copy(t)
Fits(f) == points[f] \in {None[f], Copy(type[f])}

(* What a request knows of the points of a file that nobody else works on.   *)
Serves(q, f) ==
  q.file = f =>
    /\ q.at \in {"load", "upsert"} => points[f] = None[f]
    /\ NoCrash /\ HasRow(f) =>
         /\ q.at \in {"clear", "load", "upsert"} => q.kind = type[f]
         /\ q.at = "report" => Fits(f)

(* A file whose new type is not requeued yet has old chunks still.           *)
Retyped(f) == \E r \in Request : req[r].at = "requeue" /\ req[r].file = f

Served ==
  /\ \A r \in Request : \A f \in Touches(req[r]) \ met : Serves(req[r], f)
  /\ \A f \in File \ met : Slim(f)
  /\ NoCrash => \A f \in File \ met : status[f] = "embedded" => Fits(f) \/ Retyped(f)

(* Whoever takes the points of a file away brings them back.                 *)
Calm == NoCrash /\ count["error"] = 0 /\ bot = "live"
Rises(q, f) ==
  \/ f \in q.tasks \cup q.todo \/ q.at = "list"
  \/ q.file = f /\ q.at \in {"mark", "read", "clear", "load", "upsert", "dropRow"}
Shown(f) == f \in Textless \/ \E t \in Type : points[f][t] > 0
Told(f) == status[f] = "embedded" \/ \E r \in Request : req[r].at = "report" /\ req[r].file = f
Findable ==
  Calm => \A f \in File : HasRow(f) /\ Told(f) => Shown(f) \/ \E r \in Request : Rises(req[r], f)

(* Requests stay within their files, and one that begins meets the others.   *)
LEMMA AloneNext ==
  ASSUME TypeOK, TasksLast, Alone, [Next]_vars
  PROVE  Alone'
<1>1. ASSUME NEW r \in Request, Steps(r) \/ Raise(r) PROVE Alone'
  <2>1. Touches(req'[r]) \subseteq Touches(req[r]) /\ UNCHANGED met
    BY <1>1, StepOrderly DEF Orderly
  <2>2. \A s \in Request \ {r} : req'[s] = req[s]
    BY <1>1, OthersStay
  <2> SUFFICES ASSUME NEW s \in Request, NEW t \in Request, s # t
               PROVE  Touches(req'[s]) \cap Touches(req'[t]) \subseteq met'
    BY DEF Alone, Touches
  <2>3. Touches(req'[s]) \subseteq Touches(req[s]) /\ Touches(req'[t]) \subseteq Touches(req[t])
    BY <2>1, <2>2
  <2> QED BY <2>1, <2>3 DEF Alone
<1>2. ASSUME NEW r \in Request, Begins(r) PROVE Alone'
  <2>1. PICK at \in {"upload", "retype", "requeue", "drop", "all"}, f \in File, t \in Type :
          /\ req'[r] = Doing(at, f, t)
          /\ met' = met \cup {g \in Touches(Doing(at, f, t)) : ~Quiet(g)}
    BY <1>2, BeginMoves
  <2>2. \A s \in Request \ {r} : req'[s] = req[s]
    BY <1>2, OthersStay
  <2>3. \A s \in Request \ {r} : Touches(req'[r]) \cap Touches(req[s]) \subseteq met'
    BY <2>1 DEF Quiet
  <2> SUFFICES ASSUME NEW s \in Request, NEW u \in Request, s # u
               PROVE  Touches(req'[s]) \cap Touches(req'[u]) \subseteq met'
    BY DEF Alone, Touches
  <2>4. CASE s = r \/ u = r
    BY <2>2, <2>3, <2>4
  <2>5. CASE s # r /\ u # r
    BY <2>1, <2>2, <2>5 DEF Alone
  <2> QED BY <2>4, <2>5
<1>3. CASE SoftDelete \/ Purge \/ Boot \/ UNCHANGED vars
  <2>1. UNCHANGED <<req, met>>
    BY <1>3 DEF SoftDelete, Purge, BeginPurge, PurgeVectors, PurgeFiles, PurgeRow, Boot, vars
  <2> QED BY <2>1 DEF Alone, Touches
<1>4. CASE Crash
  <2>1. \A r \in Request : Touches(req'[r]) = {}
    BY <1>4 DEF Crash, Touches, Idle, Doing
  <2> QED BY <2>1 DEF Alone, Touches
<1> QED BY <1>1, <1>2, <1>3, <1>4 DEF Next

(* Where the steps over sets of files lead.                                  *)
LEMMA TasksLead ==
  ASSUME TypeOK, NEW r \in Request, NextTask(r)
  PROVE  /\ UNCHANGED <<status, points, type>>
         /\ req[r].at = "tasks" /\ req'[r].at \in {"mark", "idle"}
<1>1. UNCHANGED data
  <2>1. UNCHANGED <<data, life, met, count>>
    BY Zenon DEF NextTask
  <2> QED BY <2>1
<1>2. req[r].at = "tasks" /\ req'[r].at \in {"mark", "idle"}
  BY NextTaskMoves DEF Becomes
<1> QED BY <1>1, <1>2 DEF data

LEMMA EachLeads ==
  ASSUME TypeOK, NEW r \in Request, QueueEach(r)
  PROVE  /\ UNCHANGED <<points, type>>
         /\ req[r].at = "each" /\ req'[r].at \in {"each", "tasks"}
         /\ \A f \in File : status'[f] = status[f] \/ (HasRow(f) /\ status'[f] \in {"pending", "failed"})
<1>0. req[r] \in Requests /\ req[r].todo \subseteq File
  BY DEF TypeOK, Requests
<1>1. UNCHANGED <<points, type>>
  <2>1. UNCHANGED <<type, disk, points, life, met, count>>
    BY Zenon DEF QueueEach
  <2> QED BY <2>1
<1>2. req[r].at = "each" /\ req'[r].at \in {"each", "tasks"}
  BY QueueEachMoves DEF Becomes
<1>3. ASSUME NEW g \in File, NEW s \in {"pending", "failed"}, SetStatus(g, s), NEW f \in File
      PROVE  status'[f] = status[f] \/ (HasRow(f) /\ status'[f] \in {"pending", "failed"})
  BY <1>3 DEF SetStatus, TypeOK
<1>4. \/ \E g \in req[r].todo : SetStatus(g, "pending") \/ SetStatus(g, "failed")
      \/ UNCHANGED status
  BY QueueEachMoves
<1> QED BY <1>0, <1>1, <1>2, <1>3, <1>4

(* What a step of request r does to the rows and to its own place.           *)
LEMMA StepKeeps ==
  ASSUME TypeOK, Stored, NEW r \in Request, Steps(r) \/ Raise(r)
  PROVE  /\ \A f \in File :
              /\ HasRow(f)' => HasRow(f) \/ (req[r].at = "upload" /\ req[r].file = f)
              /\ status[f] = "absent" /\ status'[f] # "absent" =>
                   req[r].at = "upload" /\ req[r].file = f
              /\ status'[f] = "absent" => status[f] = "absent"
              /\ status[f] = "deleted" => status'[f] = "deleted"
         /\ req'[r].at # "upload"
         /\ Kept(req[r])'
<1> USE DEF TypeOK, HasRow, Kept, Embedding, Handling
<1>0. req[r] \in Requests /\ req[r].file \in File /\ req[r].todo \subseteq File
  BY DEF Requests
<1>s. Kept(req[r])
  BY DEF Stored
<1> USE <1>s
<1>1. CASE StoreUpload(r)
  BY <1>0, <1>1 DEF StoreUpload, Requests
<1>2. CASE Retype(r)
  BY <1>0, <1>2 DEF Retype, Goto, Requests
<1>3. CASE Requeue(r)
  BY <1>0, <1>3, RequeueMoves DEF SetStatus, Becomes
<1>4. CASE DropPoints(r)
  BY <1>0, <1>4 DEF DropPoints, Goto, Requests
<1>5. CASE DropRow(r)
  BY <1>0, <1>5 DEF DropRow, SetStatus, Goto, Requests
<1>6. CASE DropDisk(r)
  BY <1>0, <1>6 DEF DropDisk, Requests, Idle, Doing
<1>7. CASE ClearAll(r)
  BY <1>0, <1>7 DEF ClearAll, Goto, Requests
<1>8. CASE ListAll(r)
  BY <1>0, <1>8 DEF ListAll, data, Requests
<1>9. CASE QueueEach(r)
  BY <1>9, EachLeads
<1>10. CASE NextTask(r)
  BY <1>10, TasksLead
<1>11. CASE MarkEmbedding(r)
  BY <1>0, <1>11 DEF MarkEmbedding, SetStatus, Goto, Requests
<1>12. CASE ReadType(r)
  BY <1>0, <1>12 DEF ReadType, data, Requests
<1>13. CASE ClearPoints(r) \/ UpsertPoints(r)
  BY <1>0, <1>13 DEF ClearPoints, UpsertPoints, Goto, Requests
<1>14. CASE LoadFile(r)
  BY <1>0, <1>14 DEF LoadFile, data, Goto, Requests
<1>16. CASE Report(r)
  BY <1>0, <1>16 DEF Report, SetStatus, Goto, Requests
<1>17. CASE Raise(r)
  BY <1>0, <1>17 DEF Raise, data, Goto, Requests, Idle, Doing
<1> QED
  BY <1>1, <1>2, <1>3, <1>4, <1>5, <1>6, <1>7, <1>8, <1>9, <1>10, <1>11, <1>12,
     <1>13, <1>14, <1>16, <1>17 DEF Steps

(* An upload only goes from the disk after its row.                          *)
LEMMA StepDisk ==
  ASSUME TypeOK, NEW r \in Request, Steps(r) \/ Raise(r), NEW f \in disk
  PROVE  f \in disk' \/ (req[r].at = "dropDisk" /\ req[r].file = f)
BY DEF Steps, Raise, StoreUpload, Retype, Requeue, DropPoints, DropRow, DropDisk, ClearAll,
       ListAll, QueueEach, NextTask, MarkEmbedding, ReadType, ClearPoints, LoadFile,
       UpsertPoints, Report, data

LEMMA UploadStored ==
  ASSUME TypeOK, NEW r \in Request, Steps(r) \/ Raise(r), req[r].at = "upload"
  PROVE  req[r].file \in disk'
BY DEF Steps, Raise, StoreUpload, Retype, Requeue, DropPoints, DropRow, DropDisk, ClearAll,
       ListAll, QueueEach, NextTask, MarkEmbedding, ReadType, ClearPoints, LoadFile,
       UpsertPoints, Report

LEMMA StoredNext ==
  ASSUME TypeOK, Rest, Stored, [Next]_vars
  PROVE  Stored'
<1>1. ASSUME NEW r \in Request, Steps(r) \/ Raise(r) PROVE Stored'
  <2>1. \A s \in Request \ {r} : req'[s] = req[s]
    BY <1>1, OthersStay
  <2>2. req[r].at # "idle" /\ (NoCrash' => NoCrash)
    BY <1>1, StepsAreBusy, CountsOnly DEF life
  <2>3. ASSUME NoCrash', NEW f \in File, HasRow(f)' PROVE f \in disk'
    <3>1. CASE HasRow(f)
      <4>1. f \in disk
        BY <2>2, <2>3, <3>1 DEF Stored
      <4>2. ~(req[r].at = "dropDisk" /\ req[r].file = f)
        BY <3>1 DEF Stored, Kept, HasRow
      <4> QED BY <1>1, <4>1, <4>2, StepDisk
    <3>2. CASE req[r].at = "upload" /\ req[r].file = f
      BY <1>1, <3>2, UploadStored
    <3> QED BY <1>1, <2>3, <3>1, <3>2, StepKeeps
  <2>4. ASSUME NEW s \in Request PROVE Kept(req[s])'
    <3>1. CASE s = r
      BY <1>1, <3>1, StepKeeps
    <3>2. CASE s # r
      <4>1. Kept(req[s]) /\ req'[s] = req[s] /\ req[s].file \in File
        BY <2>1, <3>2 DEF Stored, TypeOK, Requests
      <4>2. req[s].at = "upload" /\ req[r].at = "upload" => req[s].file # req[r].file
        BY <3>2 DEF Stored
      <4> QED BY <1>1, <4>1, <4>2, StepKeeps DEF Kept
    <3> QED BY <3>1, <3>2
  <2>5. \A s, t \in Request :
          s # t /\ req'[s].at = "upload" /\ req'[t].at = "upload" => req'[s].file # req'[t].file
    BY <1>1, <2>1, StepKeeps DEF Stored
  <2> QED BY <2>3, <2>4, <2>5 DEF Stored, HasRow, Kept
<1>2. ASSUME NEW r \in Request, Begins(r) PROVE Stored'
  <2>1. UNCHANGED <<data, life>> /\ bot = "live" /\ (NoCrash' => NoCrash)
    BY <1>2, BeginsAreLive, CountsOnly
  <2>2. \A s \in Request \ {r} : req'[s] = req[s]
    BY <1>2, OthersStay
  <2>3. /\ req'[r].at \notin {"dropRow", "dropDisk"}
        /\ req'[r].at = "drop" => HasRow(req'[r].file)
        /\ req'[r].at = "upload" =>
             /\ status[req'[r].file] = "absent"
             /\ \A s \in Request : req[s].at = "upload" => req[s].file # req'[r].file
    <3>1. ASSUME NEW q, Begin(r, q) PROVE req'[r] = q
      BY <3>1 DEF Begin, TypeOK
    <3>2. CASE BeginUpload(r)
      BY <3>1, <3>2 DEF BeginUpload, Doing
    <3>3. CASE BeginOnFile(r)
      BY <3>1, <3>3 DEF BeginOnFile, Doing
    <3>4. CASE BeginAll(r)
      BY <3>1, <3>4 DEF BeginAll, Doing
    <3> QED BY <1>2, <3>2, <3>3, <3>4 DEF Begins
  <2>4. ASSUME NEW s \in Request PROVE Kept(req[s])'
    BY <2>1, <2>2, <2>3 DEF Stored, Kept, HasRow, data
  <2>5. \A s, t \in Request :
          s # t /\ req'[s].at = "upload" /\ req'[t].at = "upload" => req'[s].file # req'[t].file
    BY <2>2, <2>3 DEF Stored
  <2>6. NoCrash' => \A f \in File : HasRow(f)' => f \in disk'
    BY <2>1 DEF Stored, HasRow, data
  <2> QED BY <2>4, <2>5, <2>6 DEF Stored, Kept
<1>3. CASE SoftDelete \/ UNCHANGED vars
  BY <1>3 DEF SoftDelete, vars, data, life, Stored, NoCrash, HasRow, Kept
<1>4. CASE Purge
  <2>1. bot' # "live" /\ \A r \in Request : req'[r].at = "idle"
    BY <1>4 DEF Purge, BeginPurge, PurgeVectors, PurgeFiles, PurgeRow, Rest
  <2>2. ~(bot' = "live" \/ \E r \in Request : req'[r].at # "idle")
    BY <2>1
  <2>3. \A r \in Request : Kept(req[r])'
    BY <2>1 DEF Kept
  <2>4. \A r, s \in Request : ~(req'[r].at = "upload" /\ req'[s].at = "upload")
    BY <2>1
  <2> QED BY <2>2, <2>3, <2>4 DEF Stored
<1>5. CASE Crash
  <2>1. ~NoCrash'
    BY <1>5 DEF Crash, Happens, NoCrash, TypeOK, Events
  <2> QED BY <1>5, <2>1 DEF Crash, Stored, Kept, Idle, Doing
<1>6. CASE Boot
  BY <1>6 DEF Boot, Stored, NoCrash, HasRow, Kept, Unsettled, TypeOK, Requests
<1> QED BY <1>1, <1>2, <1>3, <1>4, <1>5, <1>6 DEF Next, Purge

LEMMA PointsStay ==
  ASSUME NEW f \in File, points'[f] = points[f]
  PROVE  /\ Slim(f)' <=> Slim(f)
         /\ type'[f] = type[f] => (Fits(f)' <=> Fits(f))
BY DEF Slim, Fits, None, Copy

LEMMA PointsGo ==
  ASSUME NEW f \in File, points'[f] = None[f]
  PROVE  Slim(f)' /\ Fits(f)' /\ points'[f] = None'[f]
BY DEF Slim, Fits, None

LEMMA PointsCome ==
  ASSUME TypeOK, NEW f \in File, NEW t \in Type, points[f] = None[f],
         points' = [points EXCEPT ![f][t] = IF f \in Textless THEN @ ELSE @ + 1]
  PROVE  Slim(f)' /\ (type'[f] = t => Fits(f)')
<1>0. CASE f \in Textless
  <2>1. points'[f] = None[f]
    BY <1>0 DEF TypeOK
  <2> QED BY <2>1, PointsGo
<1> SUFFICES ASSUME f \notin Textless PROVE Slim(f)' /\ (type'[f] = t => Fits(f)')
  BY <1>0
<1>1. points'[f] = [None[f] EXCEPT ![t] = 1]
  BY DEF TypeOK, None
<1>2. points'[f] = Copy(t)
  BY <1>1 DEF None, Copy
<1>3. \E u \in Type : points'[f] = Copy(u)'
  BY <1>2 DEF Copy
<1>4. type'[f] = t => points'[f] = Copy(type[f])'
  BY <1>2 DEF Copy
<1> QED BY <1>3, <1>4 DEF Slim, Fits

(* What holds of a file that request q, and nobody else, works on.           *)
TrueFor(q, f) ==
  /\ Serves(q, f) /\ Slim(f)
  /\ NoCrash /\ status[f] = "embedded" => Fits(f) \/ (q.at = "requeue" /\ q.file = f)

(* The steps that leave points and types as they are.                        *)
LEMMA StepTrueRows ==
  ASSUME TypeOK, TasksLast, NEW r \in Request,
         NoCrash' => NoCrash, NoCrash => \A g \in File : HasRow(g) => g \in disk,
         \/ StoreUpload(r) \/ Requeue(r) \/ DropRow(r) \/ DropDisk(r) \/ ListAll(r)
         \/ QueueEach(r) \/ NextTask(r) \/ MarkEmbedding(r) \/ ReadType(r)
         \/ LoadFile(r) \/ Report(r) \/ Raise(r),
         NEW f \in Touches(req[r]), f \in File, TrueFor(req[r], f)
  PROVE  TrueFor(req[r], f)'
<1> USE DEF TypeOK, TrueFor, Serves, Touches, HasRow
<1>0. req[r] \in Requests /\ req[r].tasks \subseteq File /\ req[r].todo \subseteq File
      /\ req[r].file \in File
  BY DEF Requests
<1>s. Shaped(req[r])
  BY DEF TasksLast
<1> USE <1>s DEF Shaped, Handling
<1>p. points' = points => (Slim(f)' <=> Slim(f)) /\ (type'[f] = type[f] => (Fits(f)' <=> Fits(f)))
  BY PointsStay
<1>n. None' = None
  BY DEF None
<1>1. CASE StoreUpload(r)
  BY <1>0, <1>1, <1>p DEF StoreUpload, Requests
<1>3. CASE Requeue(r)
  <2>1. UNCHANGED <<points, type>>
    BY <1>3 DEF Requeue
  <2>2. CASE f \in disk
    <3>1. status'[f] # "embedded" \/ status'[f] = status[f]
      BY <1>0, <1>3, <2>2 DEF Requeue, SetStatus
    <3>2. req[r].at = "requeue" /\ f = req[r].file
      BY <1>3 DEF Requeue
    <3>3. status'[f] # "embedded"
      BY <1>0, <1>3, <2>2, <3>2 DEF Requeue, SetStatus
    <3>4. req'[r].at \in {"tasks", "idle"}
      BY <1>3, RequeueMoves DEF Becomes
    <3> QED BY <2>1, <3>3, <3>4, <1>p
  <2>3. CASE f \notin disk
    <3>1. req'[r].at \in {"tasks", "idle"}
      BY <1>3, RequeueMoves DEF Becomes
    <3>2. req[r].at = "requeue" /\ f = req[r].file
      BY <1>3 DEF Requeue
    <3>3. status'[f] = status[f]
      BY <1>3, <2>3, <3>2 DEF Requeue
    <3> QED BY <2>1, <2>3, <3>1, <3>3, <1>p
  <2> QED BY <2>2, <2>3
<1>5. CASE DropRow(r)
  BY <1>0, <1>5, <1>p DEF DropRow, SetStatus, Goto, Requests
<1>6. CASE DropDisk(r)
  BY <1>0, <1>6, <1>p DEF DropDisk, Requests, Idle, Doing
<1>8. CASE ListAll(r)
  BY <1>0, <1>8, <1>p DEF ListAll, data, Requests
<1>9. CASE QueueEach(r)
  BY <1>9, <1>p, EachLeads
<1>10. CASE NextTask(r)
  BY <1>10, <1>p, TasksLead
<1>11. CASE MarkEmbedding(r)
  BY <1>0, <1>11, <1>p DEF MarkEmbedding, SetStatus, Goto, Requests
<1>12. CASE ReadType(r)
  <2>1. req'[r].at = "clear" /\ req'[r].file = req[r].file
        /\ (HasRow(req[r].file) => req'[r].kind = type[req[r].file])
    BY <1>0, <1>12 DEF ReadType, Requests
  <2>2. UNCHANGED <<status, points, type>> /\ req[r].at = "read"
    BY <1>12 DEF ReadType, data
  <2> QED BY <2>1, <2>2, <1>p
<1>14. CASE LoadFile(r)
  <2>1. UNCHANGED <<status, points, type>> /\ req[r].at = "load"
    BY <1>14 DEF LoadFile, data
  <2>2. req'[r].at \in {"upsert", "fail"} /\ req'[r].file = req[r].file
        /\ req'[r].kind = req[r].kind
    BY <1>0, <1>14 DEF LoadFile, Goto, Requests
  <2> QED BY <2>1, <2>2, <1>p, <1>n
<1>16. CASE Report(r)
  <2>1. UNCHANGED <<points, type>> /\ req'[r].at = "tasks"
    BY <1>0, <1>16 DEF Report, Goto, Requests
  <2>2. CASE req[r].at = "report" /\ f = req[r].file
    BY <1>0, <1>16, <1>p, <2>1, <2>2 DEF Report, SetStatus
  <2>3. CASE ~(req[r].at = "report" /\ f = req[r].file)
    <3>1. status'[f] = status[f] \/ status'[f] = "failed"
      BY <1>0, <1>16, <2>3 DEF Report, SetStatus
    <3>2. req[r].at \in {"report", "fail"}
      BY <1>16 DEF Report
    <3> QED BY <1>p, <2>1, <3>1, <3>2
  <2> QED BY <2>2, <2>3
<1>17. CASE Raise(r)
  <2>1. UNCHANGED <<status, points, type>>
        /\ req[r].at \in {"clear", "load", "upsert", "drop", "all"}
    BY <1>17 DEF Raise, data
  <2>2. req'[r].at \in {"fail", "idle"}
    BY <1>0, <1>17 DEF Raise, Goto, Idle, Doing, Requests
  <2> QED BY <2>1, <2>2, <1>p
<1> QED
  BY <1>1, <1>3, <1>5, <1>6, <1>8, <1>9, <1>10, <1>11, <1>12, <1>14, <1>16, <1>17

(* The steps that change points or types.                                    *)
LEMMA StepTruePoints ==
  ASSUME TypeOK, TasksLast, NEW r \in Request, NoCrash' => NoCrash,
         Retype(r) \/ DropPoints(r) \/ ClearAll(r) \/ ClearPoints(r) \/ UpsertPoints(r),
         NEW f \in Touches(req[r]), f \in File, TrueFor(req[r], f)
  PROVE  TrueFor(req[r], f)'
<1> USE DEF TypeOK, TrueFor, Serves, HasRow
<1>0. req[r] \in Requests /\ req[r].file \in File /\ req[r].kind \in Type
  BY DEF Requests
<1>s. Shaped(req[r])
  BY DEF TasksLast
<1>p. points'[f] = points[f] =>
        (Slim(f)' <=> Slim(f)) /\ (type'[f] = type[f] => (Fits(f)' <=> Fits(f)))
  BY PointsStay
<1>n. points'[f] = None[f] => Slim(f)' /\ Fits(f)' /\ points'[f] = None'[f]
  BY PointsGo
<1>2. CASE Retype(r)
  <2>1. f = req[r].file /\ req[r].at = "retype"
    BY <1>2, <1>s DEF Retype, Touches, Shaped, Handling
  <2>2. UNCHANGED <<status, points>> /\ req'[r].at = "requeue" /\ req'[r].file = req[r].file
    BY <1>0, <1>2 DEF Retype, Goto, Requests
  <2> QED BY <1>p, <2>1, <2>2
<1>4. CASE DropPoints(r)
  <2>1. f = req[r].file
    BY <1>4, <1>s DEF DropPoints, Touches, Shaped, Handling
  <2>2. points'[f] = None[f] /\ UNCHANGED <<status, type>> /\ req'[r].at = "dropRow"
    BY <1>0, <1>4, <2>1 DEF DropPoints, Goto, Requests
  <2> QED BY <1>n, <2>2
<1>7. CASE ClearAll(r)
  <2>1. points'[f] = None[f] /\ UNCHANGED <<status, type>> /\ req'[r].at = "list"
    BY <1>0, <1>7 DEF ClearAll, Goto, Requests
  <2> QED BY <1>n, <2>1
<1>13. CASE ClearPoints(r)
  <2>1. /\ req[r].at = "clear" /\ UNCHANGED <<status, type>>
        /\ req'[r].at = "load" /\ req'[r].file = req[r].file /\ req'[r].kind = req[r].kind
    BY <1>0, <1>13 DEF ClearPoints, Goto, Requests
  <2>2. points'[f] = IF f = req[r].file THEN None[f] ELSE points[f]
    BY <1>0, <1>13 DEF ClearPoints
  <2> QED BY <1>n, <1>p, <2>1, <2>2
<1>15. CASE UpsertPoints(r)
  <2>1. /\ req[r].at = "upsert" /\ UNCHANGED <<status, type>>
        /\ req'[r].at = "report" /\ req'[r].file = req[r].file
    BY <1>0, <1>15 DEF UpsertPoints, Goto, Requests
  <2>2. CASE f = req[r].file
    <3>1. points[f] = None[f]
      BY <2>1, <2>2
    <3>2. Slim(f)' /\ (type'[f] = req[r].kind => Fits(f)')
      BY <1>0, <1>15, <2>2, <3>1, PointsCome DEF UpsertPoints
    <3>3. NoCrash /\ HasRow(f) => req[r].kind = type[f]
      BY <2>1, <2>2
    <3> QED BY <2>1, <2>2, <3>2, <3>3
  <2>3. CASE f # req[r].file
    <3>1. points'[f] = points[f]
      BY <1>0, <1>15, <2>3 DEF UpsertPoints
    <3> QED BY <1>p, <2>1, <2>3, <3>1
  <2> QED BY <2>2, <2>3
<1> QED BY <1>2, <1>4, <1>7, <1>13, <1>15

LEMMA StepTrue ==
  ASSUME TypeOK, TasksLast, Rest, Stored, NEW r \in Request, Steps(r) \/ Raise(r),
         NEW f \in Touches(req[r]), f \in File, TrueFor(req[r], f)
  PROVE  TrueFor(req[r], f)'
<1>1. NoCrash' => NoCrash
  BY CountsOnly
<1>2. req[r].at # "idle"
  BY StepsAreBusy
<1>3. NoCrash => \A g \in File : HasRow(g) => g \in disk
  BY <1>2 DEF Stored, Rest
<1> QED BY <1>1, <1>3, StepTrueRows, StepTruePoints DEF Steps

(* Types change only by the requests that work on the file.                  *)
LEMMA StepTypes ==
  ASSUME TypeOK, NEW r \in Request, Steps(r) \/ Raise(r), NEW f \in File \ Touches(req[r])
  PROVE  type'[f] = type[f]
<1>1. CASE StoreUpload(r)
  BY <1>1 DEF StoreUpload, Touches, TypeOK
<1>2. CASE Retype(r)
  BY <1>2 DEF Retype, Touches, TypeOK
<1>3. CASE QueueEach(r)
  BY <1>3, EachLeads
<1>4. CASE NextTask(r)
  BY <1>4, TasksLead
<1>5. CASE ~(StoreUpload(r) \/ Retype(r) \/ QueueEach(r) \/ NextTask(r))
  <2>1. type' = type
    BY <1>5 DEF Steps, Raise, Requeue, DropPoints, DropRow, DropDisk, ClearAll, ListAll,
                MarkEmbedding, ReadType, ClearPoints, LoadFile, UpsertPoints, Report, data
  <2> QED BY <2>1
<1> QED BY <1>1, <1>2, <1>3, <1>4, <1>5

(* A file whose row and points stay stays as true as it was.                 *)
LEMMA ServesStay ==
  ASSUME NEW s \in Request, NEW f \in File, NoCrash' => NoCrash, req'[s] = req[s],
         status'[f] = status[f], points'[f] = points[f], type'[f] = type[f], Serves(req[s], f)
  PROVE  Serves(req[s], f)'
<1>1. Fits(f)' <=> Fits(f)
  BY PointsStay
<1>2. None' = None
  BY DEF None
<1> QED BY <1>1, <1>2 DEF Serves, HasRow

ServedInv == TasksLast /\ Rest /\ Alone /\ Stored /\ Served

LEMMA ServedStep ==
  ASSUME TypeOK, ServedInv, NEW r \in Request, Steps(r) \/ Raise(r)
  PROVE  Served'
<1> USE DEF ServedInv
<1>1. Orderly(r) /\ UNCHANGED met
  BY StepOrderly
<1>2. \A s \in Request \ {r} : req'[s] = req[s]
  BY OthersStay
<1>3. \A s \in Request : Touches(req[s]) \subseteq File /\ Touches(req'[s]) \subseteq File
  BY <1>1, <1>2 DEF Touches, TypeOK, Requests, Orderly
<1>c. NoCrash' => NoCrash
  BY CountsOnly
<1>4. ASSUME NEW f \in File \ met, f \in Touches(req[r])
      PROVE  TrueFor(req[r], f)'
  <2>1. Retyped(f) => req[r].at = "requeue" /\ req[r].file = f
    <3> SUFFICES ASSUME NEW s \in Request, req[s].at = "requeue", req[s].file = f
                 PROVE  s = r
      BY DEF Retyped
    <3>1. f \in Touches(req[s])
      BY DEF Touches
    <3> QED BY <1>4, <3>1 DEF Alone
  <2>2. TrueFor(req[r], f)
    BY <1>4, <2>1 DEF Served, TrueFor
  <2> QED BY <1>4, <2>2, StepTrue
<1>5. ASSUME NEW f \in File \ met, f \notin Touches(req[r])
      PROVE  status'[f] = status[f] /\ points'[f] = points[f] /\ type'[f] = type[f]
  BY <1>1, <1>5, StepTypes DEF Orderly
<1>6. ASSUME NEW s \in Request, NEW f \in Touches(req'[s]), f \notin met'
      PROVE  Serves(req[s], f)'
  <2>1. f \in File \ met
    BY <1>1, <1>3, <1>6
  <2>2. CASE s = r
    BY <1>1, <1>4, <1>6, <2>1, <2>2 DEF Orderly, TrueFor
  <2>3. CASE s # r
    <3>1. f \in Touches(req[s]) /\ req'[s] = req[s]
      BY <1>2, <1>6, <2>3
    <3>2. f \notin Touches(req[r])
      BY <2>1, <2>3, <3>1 DEF Alone
    <3>3. Serves(req[s], f)
      BY <2>1, <3>1 DEF Served
    <3> QED BY <1>5, <1>c, <2>1, <3>1, <3>2, <3>3, ServesStay
  <2> QED BY <2>2, <2>3
<1>7. ASSUME NEW f \in File, f \notin met'
      PROVE  Slim(f)' /\ (NoCrash' /\ status'[f] = "embedded" => Fits(f)' \/ Retyped(f)')
  <2>1. f \in File \ met
    BY <1>1, <1>7
  <2>2. CASE f \in Touches(req[r])
    BY <1>4, <2>1, <2>2 DEF TrueFor, Retyped
  <2>3. CASE f \notin Touches(req[r])
    <3>1. status'[f] = status[f] /\ points'[f] = points[f] /\ type'[f] = type[f]
      BY <1>5, <2>1, <2>3
    <3>2. (Slim(f)' <=> Slim(f)) /\ (Fits(f)' <=> Fits(f))
      BY <3>1, PointsStay
    <3>3. Retyped(f) => Retyped(f)'
      <4> SUFFICES ASSUME NEW s \in Request, req[s].at = "requeue", req[s].file = f
                   PROVE  Retyped(f)'
        BY DEF Retyped
      <4>1. s # r
        BY <2>3 DEF Touches
      <4> QED BY <1>2, <4>1 DEF Retyped
    <3> QED BY <1>c, <2>1, <3>1, <3>2, <3>3 DEF Served
  <2> QED BY <2>2, <2>3
<1> QED BY <1>6, <1>7 DEF Served, Touches

LEMMA ServedBegin ==
  ASSUME TypeOK, ServedInv, NEW r \in Request, Begins(r)
  PROVE  Served'
<1> USE DEF ServedInv
<1>1. PICK at \in {"upload", "retype", "requeue", "drop", "all"}, f \in File, t \in Type :
        /\ req[r].at = "idle" /\ req'[r] = Doing(at, f, t)
        /\ met' = met \cup {g \in Touches(Doing(at, f, t)) : ~Quiet(g)}
  BY BeginMoves
<1>2. \A s \in Request \ {r} : req'[s] = req[s]
  BY OthersStay
<1>3. UNCHANGED data /\ (NoCrash' => NoCrash)
  BY BeginsAreLive, CountsOnly
<1>4. Touches(req'[r]) \subseteq File /\ \A s \in Request : Touches(req[s]) \subseteq File
  BY <1>1 DEF Touches, Doing, TypeOK, Requests
<1>5. ASSUME NEW s \in Request, NEW g \in Touches(req'[s]), g \notin met'
      PROVE  Serves(req[s], g)'
  <2>1. CASE s = r
    BY <1>1, <2>1 DEF Serves, Doing
  <2>2. CASE s # r
    <3>1. req'[s] = req[s] /\ g \in Touches(req[s]) /\ g \notin met /\ g \in File
      BY <1>1, <1>2, <1>4, <1>5, <2>2
    <3>2. Serves(req[s], g)
      BY <3>1 DEF Served
    <3> QED BY <1>3, <3>1, <3>2, ServesStay DEF data
  <2> QED BY <2>1, <2>2
<1>6. ASSUME NEW g \in File, g \notin met'
      PROVE  Slim(g)' /\ (NoCrash' /\ status'[g] = "embedded" => Fits(g)' \/ Retyped(g)')
  <2>1. g \notin met
    BY <1>1, <1>6
  <2>2. (Slim(g)' <=> Slim(g)) /\ (Fits(g)' <=> Fits(g)) /\ status'[g] = status[g]
    BY <1>3, PointsStay DEF data
  <2>3. Retyped(g) => Retyped(g)'
    <3> SUFFICES ASSUME NEW s \in Request, req[s].at = "requeue", req[s].file = g
                 PROVE  Retyped(g)'
      BY DEF Retyped
    <3>1. s # r
      BY <1>1
    <3> QED BY <1>2, <3>1 DEF Retyped
  <2> QED BY <1>3, <2>1, <2>2, <2>3 DEF Served
<1> QED BY <1>5, <1>6 DEF Served, Touches

LEMMA ServedNext ==
  ASSUME TypeOK, ServedInv, [Next]_vars
  PROVE  Served'
<1> USE DEF ServedInv
<1>2. CASE PurgeVectors \/ PurgeFiles \/ PurgeRow
  <2>1. \A r \in Request : Touches(req'[r]) = {}
    BY <1>2 DEF PurgeVectors, PurgeFiles, PurgeRow, Rest, Touches
  <2>2. UNCHANGED <<req, met, type>> /\ NoCrash' = NoCrash
    BY <1>2, PurgeCalm DEF Purge, PurgeVectors, PurgeFiles, PurgeRow
  <2>3. points' = None \/ points' = points
    BY <1>2 DEF PurgeVectors, PurgeFiles, PurgeRow
  <2>4. \A f \in File : status'[f] = "embedded" => status[f] = "embedded"
    BY <1>2 DEF PurgeVectors, PurgeFiles, PurgeRow, TypeOK
  <2>5. ASSUME NEW f \in File
        PROVE  /\ Slim(f) => Slim(f)'
               /\ Fits(f) => Fits(f)'
    BY <2>2, <2>3, PointsStay, PointsGo
  <2> QED BY <2>1, <2>2, <2>4, <2>5 DEF Served, Retyped, Touches
<1>3. CASE Crash
  <2>1. \A r \in Request : Touches(req'[r]) = {}
    BY <1>3 DEF Crash, Touches, Idle, Doing
  <2>2. ~NoCrash'
    BY <1>3 DEF Crash, Happens, NoCrash, TypeOK, Events
  <2>3. \A f \in File : Slim(f) => Slim(f)'
    BY <1>3, PointsStay DEF Crash, data
  <2> QED BY <1>3, <2>1, <2>2, <2>3 DEF Served, Touches, Crash
<1>4. CASE SoftDelete \/ BeginPurge \/ Boot \/ UNCHANGED vars
  <2>1. UNCHANGED <<req, met, count, type, points>>
    BY <1>4 DEF SoftDelete, BeginPurge, Boot, vars, data
  <2>2. \A f \in File :
          (HasRow(f)' <=> HasRow(f)) /\ (status'[f] = "embedded" <=> status[f] = "embedded")
    BY <1>4 DEF SoftDelete, BeginPurge, Boot, vars, data, HasRow, Unsettled, TypeOK
  <2>3. \A f \in File : (Slim(f)' <=> Slim(f)) /\ (Fits(f)' <=> Fits(f))
    BY <2>1, PointsStay
  <2>4. ASSUME NEW r \in Request, NEW f \in Touches(req[r]) \ met PROVE Serves(req[r], f)'
    <3>1. f \in File /\ Serves(req[r], f)
      BY DEF Served, TypeOK, Requests, Touches
    <3>2. None' = None
      BY DEF None
    <3> QED BY <2>1, <2>2, <2>3, <3>1, <3>2 DEF Serves, NoCrash
  <2> QED BY <2>1, <2>2, <2>3, <2>4 DEF Served, Retyped, NoCrash, Touches
<1> QED BY <1>2, <1>3, <1>4, ServedStep, ServedBegin DEF Next, Purge

LEMMA Shows ==
  ASSUME TypeOK, NEW f \in File
  PROVE  /\ points'[f] = points[f] => (Shown(f)' <=> Shown(f))
         /\ \A t \in Type :
              points' = [points EXCEPT ![f][t] = IF f \in Textless THEN @ ELSE @ + 1] => Shown(f)'
<1>1. points'[f] = points[f] => (Shown(f)' <=> Shown(f))
  BY DEF Shown
<1>2. ASSUME NEW t \in Type, f \notin Textless,
             points' = [points EXCEPT ![f][t] = IF f \in Textless THEN @ ELSE @ + 1]
      PROVE  Shown(f)'
  <2>1. points[f][t] \in Nat /\ points'[f][t] = points[f][t] + 1
    BY <1>2 DEF TypeOK
  <2> QED BY <2>1 DEF Shown
<1> QED BY <1>1, <1>2 DEF Shown

(* A step of request r leaves the points of a file or will put them back,    *)
(* and what it was to put back it still is, unless the row is gone.          *)
Restores(r, f) ==
  /\ Shown(f) => Shown(f)' \/ Rises(req[r], f)'
  /\ Rises(req[r], f) => Shown(f)' \/ Rises(req[r], f)' \/ ~HasRow(f)'
  /\ HasRow(f)' => HasRow(f) \/ Rises(req[r], f)'

LEMMA StepRestores ==
  ASSUME TypeOK, TasksLast, NEW r \in Request, Steps(r), NEW f \in File, HasRow(f) => f \in disk
  PROVE  Restores(r, f)
<1> USE DEF TypeOK, Restores, Rises, HasRow
<1>0. req[r] \in Requests /\ req[r].tasks \subseteq File /\ req[r].todo \subseteq File
      /\ req[r].file \in File /\ req[r].kind \in Type
  BY DEF Requests
<1>s. Shaped(req[r])
  BY DEF TasksLast
<1>p. points'[f] = points[f] => (Shown(f)' <=> Shown(f))
  BY Shows
<1>1. CASE StoreUpload(r)
  BY <1>0, <1>1, <1>p, <1>s DEF StoreUpload, Requests, Shaped, Handling
<1>2. CASE Retype(r)
  BY <1>0, <1>2, <1>p, <1>s DEF Retype, Goto, Requests, Shaped, Handling
<1>3. CASE Requeue(r)
  <2>1. UNCHANGED points
    BY <1>3 DEF Requeue
  <2>2. req[r].tasks = {} /\ req[r].todo = {}
    BY <1>3, <1>s DEF Requeue, Shaped, Handling
  <2>3. HasRow(f)' => HasRow(f)
    BY <1>0, <1>3, RequeueMoves DEF SetStatus
  <2> QED BY <1>3, <1>p, <2>1, <2>2, <2>3, RequeueMoves
<1>4. CASE DropPoints(r)
  <2>1. req[r].at = "drop" /\ req'[r].at = "dropRow" /\ req'[r].file = req[r].file
        /\ req'[r].tasks = req[r].tasks /\ req'[r].todo = req[r].todo /\ UNCHANGED status
    BY <1>0, <1>4 DEF DropPoints, Goto, Requests
  <2>2. f # req[r].file => points'[f] = points[f]
    BY <1>0, <1>4 DEF DropPoints
  <2> QED BY <1>p, <2>1, <2>2
<1>5. CASE DropRow(r)
  <2>1. req[r].at = "dropRow" /\ req[r].tasks = {} /\ req[r].todo = {} /\ UNCHANGED points
    BY <1>5, <1>s DEF DropRow, Shaped, Handling
  <2>2. HasRow(f)' => HasRow(f) /\ f # req[r].file
    BY <1>0, <1>5 DEF DropRow, SetStatus
  <2> QED BY <1>p, <2>1, <2>2
<1>6. CASE DropDisk(r)
  <2>1. req[r].at = "dropDisk" /\ req[r].tasks = {} /\ req[r].todo = {} /\ UNCHANGED <<status, points>>
    BY <1>6, <1>s DEF DropDisk, Shaped, Handling
  <2> QED BY <1>p, <2>1
<1>7. CASE ClearAll(r)
  BY <1>0, <1>7, <1>s DEF ClearAll, Goto, Requests, Shaped, Handling
<1>8. CASE ListAll(r)
  BY <1>0, <1>8, <1>p DEF ListAll, data, Requests
<1>9. CASE QueueEach(r)
  <2>1. UNCHANGED points /\ req[r].at = "each" /\ (HasRow(f)' => HasRow(f))
    BY <1>9, EachLeads
  <2>2. ASSUME f \in req[r].tasks \cup req[r].todo
        PROVE  Rises(req[r], f)' \/ f \notin disk
    <3>1. \/ \E g \in req[r].todo :
               \/ req'[r].tasks = req[r].tasks \cup {g} /\ req'[r].todo = req[r].todo \ {g}
               \/ g \notin disk /\ req'[r].tasks = req[r].tasks /\ req'[r].todo = req[r].todo \ {g}
          \/ req'[r].tasks = req[r].tasks /\ req[r].todo = {}
      BY <1>9, QueueEachMoves DEF Becomes
    <3> QED BY <2>2, <3>1
  <2> QED BY <1>p, <2>1, <2>2
<1>10. CASE NextTask(r)
  <2>1. UNCHANGED <<status, points>> /\ req[r].at = "tasks"
    BY <1>10, TasksLead
  <2>2. req[r].todo = {}
    BY <1>s, <2>1 DEF Shaped
  <2>3. f \in req[r].tasks => Rises(req[r], f)'
    BY <1>10, NextTaskMoves DEF Becomes
  <2> QED BY <1>p, <2>1, <2>2, <2>3
<1>11. CASE MarkEmbedding(r)
  BY <1>0, <1>11, <1>p DEF MarkEmbedding, SetStatus, Goto, Requests
<1>12. CASE ReadType(r)
  BY <1>0, <1>12, <1>p DEF ReadType, data, Requests
<1>13. CASE ClearPoints(r)
  <2>1. req[r].at = "clear" /\ req'[r].at = "load" /\ req'[r].file = req[r].file
        /\ req'[r].tasks = req[r].tasks /\ req'[r].todo = req[r].todo /\ UNCHANGED status
    BY <1>0, <1>13 DEF ClearPoints, Goto, Requests
  <2>2. f # req[r].file => points'[f] = points[f]
    BY <1>0, <1>13 DEF ClearPoints
  <2> QED BY <1>p, <2>1, <2>2
<1>14. CASE LoadFile(r)
  <2>1. UNCHANGED <<status, points>> /\ req[r].at = "load"
    BY <1>14 DEF LoadFile, data
  <2>2. req'[r].at = IF req[r].file \in disk THEN "upsert" ELSE "fail"
    BY <1>0, <1>14 DEF LoadFile, Goto, Requests
  <2>3. req'[r].file = req[r].file /\ req'[r].tasks = req[r].tasks /\ req'[r].todo = req[r].todo
    BY <1>0, <1>14 DEF LoadFile, Goto, Requests
  <2> QED BY <1>p, <2>1, <2>2, <2>3
<1>15. CASE UpsertPoints(r)
  <2>1. req[r].at = "upsert" /\ UNCHANGED status
        /\ req'[r].tasks = req[r].tasks /\ req'[r].todo = req[r].todo
    BY <1>0, <1>15 DEF UpsertPoints, Goto, Requests
  <2>2. f # req[r].file => points'[f] = points[f]
    BY <1>0, <1>15 DEF UpsertPoints
  <2>3. f = req[r].file => Shown(f)'
    BY <1>0, <1>15, Shows DEF UpsertPoints
  <2> QED BY <1>p, <2>1, <2>2, <2>3
<1>16. CASE Report(r)
  <2>1. UNCHANGED points /\ req[r].at \in {"report", "fail"}
        /\ req'[r].tasks = req[r].tasks /\ req'[r].todo = req[r].todo
    BY <1>0, <1>16 DEF Report, Goto, Requests
  <2>2. HasRow(f)' => HasRow(f)
    BY <1>0, <1>16 DEF Report, SetStatus
  <2> QED BY <1>p, <2>1, <2>2
<1> QED
  BY <1>1, <1>2, <1>3, <1>4, <1>5, <1>6, <1>7, <1>8, <1>9, <1>10, <1>11, <1>12,
     <1>13, <1>14, <1>15, <1>16 DEF Steps

(* Nobody is told that a file is embedded before its points are there.       *)
LEMMA StepTold ==
  ASSUME TypeOK, NEW r \in Request, Steps(r), NEW f \in File
  PROVE  Told(f)' => Told(f) \/ Shown(f)'
<1>0. req[r] \in Requests /\ req[r].file \in File /\ req[r].todo \subseteq File /\ req[r].kind \in Type
  BY DEF TypeOK, Requests
<1>1. \A s \in Request \ {r} : req'[s] = req[s]
  BY OthersStay
<1>2. CASE UpsertPoints(r)
  <2>1. f = req[r].file => Shown(f)'
    BY <1>0, <1>2, Shows DEF UpsertPoints
  <2>2. UNCHANGED status /\ req'[r].file = req[r].file
    BY <1>0, <1>2 DEF UpsertPoints, Goto, Requests, TypeOK
  <2> QED BY <1>1, <2>1, <2>2 DEF Told
<1>3. CASE ~UpsertPoints(r)
  <2>1. req'[r].at # "report"
    <3> USE <1>0, <1>3 DEF TypeOK
    <3>1. CASE Requeue(r)
      BY <3>1, RequeueMoves DEF Becomes
    <3>2. CASE QueueEach(r)
      BY <3>2, EachLeads
    <3>3. CASE NextTask(r)
      BY <3>3, TasksLead
    <3>4. CASE StoreUpload(r)
      BY <3>4 DEF StoreUpload, Requests
    <3>5. CASE DropDisk(r)
      BY <3>5 DEF DropDisk, Idle, Doing
    <3>7. CASE ListAll(r)
      BY <3>7 DEF ListAll, Requests
    <3>8. CASE ReadType(r)
      BY <3>8 DEF ReadType, Requests
    <3>9. ASSUME NEW at, at # "report", Goto(r, at) PROVE req'[r].at # "report"
      BY <3>9 DEF Goto, Requests
    <3>10. CASE Retype(r) \/ DropPoints(r) \/ DropRow(r)
      BY <3>9, <3>10 DEF Retype, DropPoints, DropRow
    <3>11. CASE ClearAll(r) \/ MarkEmbedding(r) \/ ClearPoints(r)
      BY <3>9, <3>11 DEF ClearAll, MarkEmbedding, ClearPoints
    <3>6. CASE LoadFile(r) \/ Report(r)
      BY <3>6, <3>9 DEF LoadFile, Report
    <3> QED
      BY <3>1, <3>2, <3>3, <3>4, <3>5, <3>6, <3>7, <3>8, <3>10, <3>11 DEF Steps
  <2>2. status'[f] = "embedded" => Told(f)
    <3> USE <1>0 DEF TypeOK
    <3>1. CASE Requeue(r)
      BY <3>1, RequeueMoves DEF SetStatus, Told
    <3>2. CASE QueueEach(r)
      BY <3>2, EachLeads DEF Told
    <3>3. CASE NextTask(r)
      BY <3>3, TasksLead DEF Told
    <3>4. CASE StoreUpload(r) \/ Retype(r) \/ DropPoints(r) \/ DropRow(r) \/ DropDisk(r)
      BY <3>4 DEF StoreUpload, Retype, DropPoints, DropRow, DropDisk, SetStatus, Told
    <3>5. CASE ClearAll(r) \/ ListAll(r) \/ MarkEmbedding(r) \/ ReadType(r) \/ ClearPoints(r)
               \/ LoadFile(r)
      BY <3>5 DEF ClearAll, ListAll, MarkEmbedding, ReadType, ClearPoints, LoadFile, SetStatus,
                  data, Told
    <3>6. CASE Report(r)
      BY <3>6 DEF Report, SetStatus, Told
    <3> QED BY <1>3, <3>1, <3>2, <3>3, <3>4, <3>5, <3>6 DEF Steps
  <2> QED BY <1>1, <2>1, <2>2 DEF Told
<1> QED BY <1>2, <1>3

LEMMA FindableNext ==
  ASSUME TypeOK, TasksLast, DownCrashed, Rest, Stored, Findable, [Next]_vars
  PROVE  Findable'
<1> SUFFICES ASSUME Calm', NEW f \in File, HasRow(f)', Told(f)'
             PROVE  Shown(f)' \/ \E r \in Request : Rises(req[r], f)'
  BY DEF Findable, Calm, NoCrash, HasRow, Told, Shown, Rises
<1>1. ASSUME NEW r \in Request, Steps(r)
      PROVE  Shown(f)' \/ \E s \in Request : Rises(req[s], f)'
  <2>1. UNCHANGED life /\ req[r].at # "idle" /\ (NoCrash' => NoCrash)
    BY <1>1, StepsAreBusy, CountsOnly
  <2>2. UNCHANGED count
    <3>1. CASE StoreUpload(r) \/ Retype(r) \/ Requeue(r) \/ DropPoints(r) \/ DropRow(r) \/ DropDisk(r)
      BY Zenon, <3>1 DEF StoreUpload, Retype, Requeue, DropPoints, DropRow, DropDisk
    <3>2. CASE ClearAll(r) \/ ListAll(r) \/ QueueEach(r) \/ NextTask(r) \/ MarkEmbedding(r)
      BY Zenon, <3>2 DEF ClearAll, ListAll, QueueEach, NextTask, MarkEmbedding
    <3>3. CASE ReadType(r) \/ ClearPoints(r) \/ LoadFile(r) \/ UpsertPoints(r) \/ Report(r)
      BY Zenon, <3>3 DEF ReadType, ClearPoints, LoadFile, UpsertPoints, Report
    <3> QED BY <1>1, <3>1, <3>2, <3>3 DEF Steps
  <2>3. Calm
    BY <2>1, <2>2 DEF Calm, life
  <2>4. HasRow(f) => f \in disk
    BY <2>1, <2>3 DEF Stored, Rest, Calm
  <2>5. Restores(r, f)
    BY <1>1, <2>4, StepRestores
  <2>6. CASE Rises(req[r], f)' \/ Shown(f)'
    BY <2>6
  <2>7. CASE HasRow(f) /\ Told(f)
    <3>1. Shown(f) \/ \E s \in Request : Rises(req[s], f)
      BY <2>3, <2>7 DEF Findable
    <3>2. ASSUME NEW s \in Request, s # r, Rises(req[s], f) PROVE Rises(req[s], f)'
      <4>1. req'[s] = req[s]
        BY <1>1, <3>2, OthersStay
      <4> QED BY <3>2, <4>1 DEF Rises
    <3> QED BY <2>5, <3>1, <3>2 DEF Restores
  <2> QED BY <1>1, <2>5, <2>6, <2>7, StepTold DEF Restores
<1>2. ASSUME NEW r \in Request, Raise(r) PROVE FALSE
  BY <1>2 DEF Raise, Happens, Calm, TypeOK, Events
<1>3. ASSUME NEW r \in Request, Begins(r)
      PROVE  Shown(f)' \/ \E s \in Request : Rises(req[s], f)'
  <2>1. UNCHANGED <<data, life>> /\ req[r].at = "idle" /\ req[r].tasks = {} /\ req[r].todo = {}
    BY <1>3, BeginsAreLive, BeginMoves DEF TasksLast, Shaped
  <2>2. Calm
    BY <1>3, <2>1 DEF Begins, BeginUpload, BeginOnFile, BeginAll, Begin, Happens, Calm, NoCrash, life,
                      TypeOK, Events
  <2>3. \A s \in Request \ {r} : req'[s] = req[s]
    BY <1>3, OthersStay
  <2>4. req'[r].at # "report"
    <3>1. PICK at \in {"upload", "retype", "requeue", "drop", "all"}, g \in File, t \in Type :
            req'[r] = Doing(at, g, t)
      BY <1>3, BeginMoves
    <3> QED BY <3>1 DEF Doing
  <2>5. HasRow(f) /\ Told(f)
    BY <2>1, <2>3, <2>4 DEF HasRow, Told, data
  <2>6. Shown(f) \/ \E s \in Request : Rises(req[s], f)
    BY <2>2, <2>5 DEF Findable
  <2>7. ASSUME NEW s \in Request, Rises(req[s], f) PROVE Rises(req[s], f)'
    <3>1. s # r
      BY <2>1, <2>7 DEF Rises
    <3> QED BY <2>3, <2>7, <3>1 DEF Rises
  <2>8. Shown(f) => Shown(f)'
    BY <2>1, Shows DEF data
  <2> QED BY <2>6, <2>7, <2>8
<1>4. CASE UNCHANGED vars
  BY <1>4 DEF vars, data, life, Findable, Calm, NoCrash, HasRow, Told, Shown, Rises
<1>5. CASE SoftDelete \/ Crash
  BY <1>5 DEF SoftDelete, Crash, Happens, Calm, NoCrash, TypeOK, Events
<1>6. CASE Purge
  <2>1. bot' # "live"
    BY <1>6 DEF Purge, BeginPurge, PurgeVectors, PurgeFiles, PurgeRow, Rest
  <2> QED BY <2>1 DEF Calm
<1>7. CASE Boot
  BY <1>7 DEF Boot, DownCrashed, Calm, NoCrash
<1> QED BY <1>1, <1>2, <1>3, <1>4, <1>5, <1>6, <1>7 DEF Next, Purge

(* Search finds a file once and as its row says: however often it is         *)
(* embedded, interrupted and embedded again, it has its chunks at most once  *)
(* and of one type; until the process dies that is its row's type whenever   *)
(* the row says embedded and nobody works on it; and then the chunks are     *)
(* there, if the file has any text, in whatever order uploads, retypings,    *)
(* deletions and full reindexes came, as long as nothing raised.             *)
THEOREM SearchTrue == Spec => []SearchIsTrue
<1>1. Init => /\ TasksLast /\ DownCrashed /\ Awaited /\ Rest
              /\ Alone /\ Stored /\ Served /\ Findable
  <2> SUFFICES ASSUME Init
               PROVE  /\ TasksLast /\ DownCrashed /\ Awaited /\ Rest
                      /\ Alone /\ Stored /\ Served /\ Findable
    OBVIOUS
  <2>1. TasksLast /\ DownCrashed /\ Awaited /\ Rest
    BY DEF Init, TasksLast, Shaped, DownCrashed, Awaited, Idle, Doing, Unsettled, Rest
  <2>2. \A r \in Request : Touches(req[r]) = {} /\ req[r].at = "idle"
    BY DEF Init, Touches, Idle, Doing
  <2>3. Alone
    BY <2>2 DEF Alone
  <2>4. Stored
    BY <2>2 DEF Init, Stored, Kept, HasRow
  <2>5. ASSUME NEW f \in File
        PROVE  /\ points[f] = None[f] \/ (points[f] = Copy(type[f]) /\ type[f] = AnyType)
               /\ status[f] = "embedded" /\ f \notin Textless => points[f] = Copy(AnyType)
    BY DEF Init, None, Copy
  <2>6. Served
    BY <2>2, <2>5, AnyIn DEF Served, Slim, Fits
  <2>7. Findable
    <3> SUFFICES ASSUME NEW f \in File, status[f] = "embedded", f \notin Textless PROVE Shown(f)
      BY <2>2 DEF Findable, Told, Shown
    <3>1. points[f][AnyType] = 1
      BY <2>5, AnyIn DEF Copy
    <3> QED BY <3>1, AnyIn DEF Shown
  <2> QED BY <2>1, <2>3, <2>4, <2>6, <2>7
<1>2. ASSUME TypeOK, Served, Findable, TasksLast PROVE SearchIsTrue
  <2>1. ASSUME NEW f \in File, NEW t \in Type
        PROVE  /\ points[f] = None[f] => points[f][t] = 0
               /\ \A u \in Type : points[f] = Copy(u) => points[f][t] = IF t = u THEN 1 ELSE 0
    BY DEF None, Copy
  <2>2. ASSUME NEW f \in File \ met, NEW t \in Type
        PROVE  points[f][t] <= 1 /\ \A u \in Type \ {t} : points[f][t] * points[f][u] = 0
    <3>1. Slim(f)
      BY <1>2 DEF Served
    <3> QED BY <2>1, <3>1 DEF Slim
  <2>3. ASSUME NoCrash, NEW f \in File, status[f] = "embedded", Quiet(f), f \notin met,
               NEW t \in Type, points[f][t] > 0
        PROVE  t = type[f]
    <3>1. ~Retyped(f)
      BY <2>3 DEF Retyped, Quiet, Touches
    <3>2. Fits(f)
      BY <1>2, <2>3, <3>1 DEF Served
    <3>3. type[f] \in Type
      BY <1>2 DEF TypeOK
    <3> QED BY <2>1, <2>3, <3>2, <3>3 DEF Fits
  <2>4. ASSUME NoCrash, NEW f \in File, status[f] = "embedded", Quiet(f),
               count["error"] = 0, bot = "live", f \notin Textless
        PROVE  \E t \in Type : points[f][t] > 0
    <3>1. Shown(f) \/ \E r \in Request : Rises(req[r], f)
      BY <1>2, <2>4 DEF Findable, Calm, HasRow, Told
    <3>2. ASSUME NEW r \in Request PROVE ~Rises(req[r], f)
      <4>1. f \notin Touches(req[r]) /\ Shaped(req[r])
        BY <1>2, <2>4 DEF Quiet, TasksLast
      <4> QED BY <4>1 DEF Touches, Rises, Shaped
    <3> QED BY <2>4, <3>1, <3>2 DEF Shown
  <2> QED BY <2>2, <2>3, <2>4 DEF SearchIsTrue
<1>3. TypeOK /\ DownCrashed /\ Awaited /\ ServedInv /\ Findable /\ [Next]_vars
        => (DownCrashed /\ Awaited /\ ServedInv /\ Findable)'
  BY AwaitedNext, RestNext, AloneNext, StoredNext, ServedNext, FindableNext DEF ServedInv
<1> QED BY <1>1, <1>2, <1>3, TypeCorrect, PTL DEF Spec, ServedInv
=============================================================================
