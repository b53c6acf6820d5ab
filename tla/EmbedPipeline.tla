---------------------------- MODULE EmbedPipeline ----------------------------
(***************************************************************************)
(* The knowledge files of one bot: the routes of routes/admin_bot_files.py *)
(* that upload, retype, reindex and delete them, _embed_file_sync and the  *)
(* points it keeps in Qdrant, the sweep at startup, and the purge of a     *)
(* deleted bot (services/bot_purge.py).                                    *)
(*                                                                         *)
(* A request is a route's handler and then the embeds it left behind,      *)
(* which run one after another in its background tasks.  Both run in       *)
(* threads: every statement on the rows, the points or the disk is an      *)
(* action, and requests interleave between any two.                        *)
(***************************************************************************)
EXTENDS Naturals, FiniteSets

CONSTANTS
  Request,     \* requests that may be live at once
  File,        \* file ids, each used once
  Type,        \* document types
  Textless,    \* the files in which no loader finds text: they have no chunks
  FileCap,     \* limits.file_count_cap
  Limit        \* bound: how often each event happens, [Events -> Nat]

Events == {"request", "crash", "error", "fault"}
PurgeSteps == {"vectors", "files", "row"}

ASSUME EmbedAssumption ==
  /\ FileCap \in Nat /\ Textless \subseteq File /\ Limit \in [Events -> Nat]
  /\ IsFiniteSet(File) /\ File # {} /\ Type # {}

VARIABLES
  status,   \* embedding_status of emly_files, [File -> Statuses]
  type,     \* document_type, [File -> Type]
  disk,     \* the files whose upload is on disk
  points,   \* Qdrant: how many copies of a file's chunks, by their type
  bot,      \* "live", soft-deleted, or "gone"
  purge,    \* where purge_one is
  failed,   \* history: the steps of the latest purge that failed
  up,       \* the process serves requests
  req,      \* the requests, [Request -> Requests]
  met,      \* history: files that two requests worked on at a time
  count     \* how often each event happened

data == <<status, type, disk, points>>
life == <<bot, purge, failed, up>>
vars == <<data, life, req, met, count>>

(* "absent": not uploaded yet; "deleted": the row is gone. *)
Statuses == {"absent", "pending", "embedding", "embedded", "failed", "deleted"}
HasRow(f) == status[f] \notin {"absent", "deleted"}
Unsettled == {"pending", "embedding"}

(* The steps of an embed, and of the handlers before it. *)
Embedding == {"mark", "read", "clear", "load", "upsert", "report", "fail"}
Handling == {"upload", "retype", "requeue", "drop", "dropRow", "dropDisk", "all", "list", "each"}

(* `file' is what the request works on, `kind' the document type it carries, *)
(* `todo' what reindex_all has still to queue and `tasks' its embeds.        *)
Requests ==
  [at: {"idle", "tasks"} \cup Embedding \cup Handling, file: File, kind: Type,
   todo: SUBSET File, tasks: SUBSET File]

None == [f \in File |-> [t \in Type |-> 0]]
AnyFile == CHOOSE f \in File : TRUE
AnyType == CHOOSE t \in Type : TRUE     \* DEFAULT_DOCUMENT_TYPE

(* A request that comes with a file and a type. *)
Doing(at, f, t) == [at |-> at, file |-> f, kind |-> t, todo |-> {}, tasks |-> {}]
Idle == Doing("idle", AnyFile, AnyType)

TypeOK ==
  /\ status \in [File -> Statuses] /\ type \in [File -> Type]
  /\ disk \subseteq File /\ points \in [File -> [Type -> Nat]]
  /\ bot \in {"live", "deleted", "gone"} /\ purge \in {"off"} \cup PurgeSteps
  /\ failed \subseteq PurgeSteps /\ up \in BOOLEAN
  /\ req \in [Request -> Requests] /\ met \subseteq File
  /\ count \in [Events -> Nat]

(* Some files were embedded before. *)
Init ==
  /\ status \in [File -> {"absent", "embedded"}]
  /\ type = [f \in File |-> AnyType]
  /\ disk = {f \in File : status[f] = "embedded"}
  /\ points = [f \in File |-> [t \in Type |->
                 IF f \in disk \ Textless /\ t = AnyType THEN 1 ELSE 0]]
  /\ bot = "live" /\ purge = "off" /\ failed = {} /\ up = TRUE
  /\ req = [r \in Request |-> Idle]
  /\ met = {} /\ count = [e \in Events |-> 0]

Happens(e) == count[e] < Limit[e] /\ count' = [count EXCEPT ![e] = @ + 1]

(* What a request works on, and the embeds it will still do. *)
Touches(q) ==
  IF q.at = "idle" THEN {}
  ELSE IF q.at \in {"all", "list"} THEN File
  ELSE q.todo \cup q.tasks \cup (IF q.at \in {"each", "tasks"} THEN {} ELSE {q.file})
Ahead(q) == q.tasks \cup (IF q.at \in Embedding THEN {q.file} ELSE {})
Quiet(f) == \A r \in Request : f \notin Touches(req[r])

(* update_status: a row that is gone is not updated. *)
SetStatus(f, s) == status' = [status EXCEPT ![f] = IF HasRow(f) THEN s ELSE @]

Goto(r, at) == req' = [req EXCEPT ![r].at = at]

-----------------------------------------------------------------------------
(* The routes *)

(* _resolve_bot and the first look at the rows. *)
Begin(r, q) ==
  /\ up /\ bot = "live" /\ req[r].at = "idle" /\ Happens("request")
  /\ req' = [req EXCEPT ![r] = q]
  /\ met' = met \cup {f \in Touches(q) : ~Quiet(f)}
  /\ UNCHANGED <<data, life>>

(* upload_file checks the limits and then awaits the body. *)
BeginUpload(r) ==
  \E f \in File, t \in Type :
    /\ status[f] = "absent"
    /\ \A q \in Request : req[q].at = "upload" => req[q].file # f
    /\ Cardinality({g \in File : HasRow(g)}) < FileCap
    /\ Begin(r, Doing("upload", f, t))

StoreUpload(r) ==
  /\ req[r].at = "upload"
  /\ LET f == req[r].file
     IN  /\ disk' = disk \cup {f}
         /\ status' = [status EXCEPT ![f] = "pending"]
         /\ type' = [type EXCEPT ![f] = req[r].kind]
         /\ req' = [req EXCEPT ![r] = [@ EXCEPT !.at = "tasks", !.tasks = {f}]]
  /\ UNCHANGED <<points, life, met, count>>

(* patch_file, reindex_file and delete_file find the row first. *)
BeginOnFile(r) ==
  \E f \in File, t \in Type, at \in {"retype", "requeue", "drop"} :
    /\ HasRow(f)
    /\ Begin(r, Doing(at, f, t))

(* update_document_type *)
Retype(r) ==
  /\ req[r].at = "retype"
  /\ LET f == req[r].file
     IN  type' = [type EXCEPT ![f] = IF HasRow(f) THEN req[r].kind ELSE @]
  /\ Goto(r, "requeue")
  /\ UNCHANGED <<status, disk, points, life, met, count>>

(* With its upload on disk the file is marked and its embed is queued. *)
Requeue(r) ==
  /\ req[r].at = "requeue"
  /\ LET f == req[r].file
     IN  \/ /\ f \in disk
            /\ SetStatus(f, "pending")
            /\ req' = [req EXCEPT ![r] = [@ EXCEPT !.at = "tasks", !.tasks = {f}]]
         \/ /\ f \notin disk
            /\ req' = [req EXCEPT ![r] = Idle]
            /\ UNCHANGED status
  /\ UNCHANGED <<type, disk, points, life, met, count>>

(* Mutant of DropPoints: they are forgotten. *)
DropPointsNot(r) ==
  /\ req[r].at = "drop"
  /\ Goto(r, "dropRow")
  /\ UNCHANGED <<data, life, met, count>>

(* delete_file: the points, the row, the upload. *)
DropPoints(r) ==
  /\ req[r].at = "drop"
  /\ points' = [points EXCEPT ![req[r].file] = None[req[r].file]]
  /\ Goto(r, "dropRow")
  /\ UNCHANGED <<status, type, disk, life, met, count>>

DropRow(r) ==
  /\ req[r].at = "dropRow"
  /\ SetStatus(req[r].file, "deleted")
  /\ Goto(r, "dropDisk")
  /\ UNCHANGED <<type, disk, points, life, met, count>>

DropDisk(r) ==
  /\ req[r].at = "dropDisk"
  /\ disk' = disk \ {req[r].file}
  /\ req' = [req EXCEPT ![r] = Idle]
  /\ UNCHANGED <<status, type, points, life, met, count>>

(* reindex_all: all points go, then every row is queued. *)
BeginAll(r) == Begin(r, Doing("all", AnyFile, AnyType))

ClearAll(r) ==
  /\ req[r].at = "all"
  /\ points' = None
  /\ Goto(r, "list")
  /\ UNCHANGED <<status, type, disk, life, met, count>>

ListAll(r) ==
  /\ req[r].at = "list"
  /\ req' = [req EXCEPT ![r] = [@ EXCEPT !.at = "each", !.todo = {f \in File : HasRow(f)}]]
  /\ UNCHANGED <<data, life, met, count>>

(* Each row is queued, or fails for want of its upload. *)
QueueEach(r) ==
  /\ req[r].at = "each"
  /\ \/ \E f \in req[r].todo :
          \/ /\ f \in disk
             /\ SetStatus(f, "pending")
             /\ req' = [req EXCEPT ![r] =
                          [@ EXCEPT !.todo = req[r].todo \ {f},
                                    !.tasks = req[r].tasks \cup {f}]]
          \/ /\ f \notin disk
             /\ SetStatus(f, "failed")
             /\ req' = [req EXCEPT ![r].todo = @ \ {f}]
     \/ /\ req[r].todo = {}
        /\ Goto(r, "tasks")
        /\ UNCHANGED status
  /\ UNCHANGED <<type, disk, points, life, met, count>>

-----------------------------------------------------------------------------
(* The background tasks: _embed_file_sync *)

NextTask(r) ==
  /\ req[r].at = "tasks"
  /\ \/ \E f \in req[r].tasks :
          req' = [req EXCEPT ![r] = [@ EXCEPT !.at = "mark", !.file = f,
                                            !.tasks = req[r].tasks \ {f}]]
     \/ /\ req[r].tasks = {}
        /\ req' = [req EXCEPT ![r] = Idle]
  /\ UNCHANGED <<data, life, met, count>>

MarkEmbedding(r) ==
  /\ req[r].at = "mark"
  /\ SetStatus(req[r].file, "embedding")
  /\ Goto(r, "read")
  /\ UNCHANGED <<type, disk, points, life, met, count>>

(* The type "is read from the row". *)
ReadType(r) ==
  /\ req[r].at = "read"
  /\ LET f == req[r].file
     IN  req' = [req EXCEPT ![r] = [@ EXCEPT !.at = "clear",
                                             !.kind = IF HasRow(f) THEN type[f] ELSE AnyType]]
  /\ UNCHANGED <<data, life, met, count>>

(* Mutant of ClearPoints: nothing is deleted. *)
ClearPointsNot(r) ==
  /\ req[r].at = "clear"
  /\ Goto(r, "load")
  /\ UNCHANGED <<data, life, met, count>>

(* The points of earlier embeds go. *)
ClearPoints(r) ==
  /\ req[r].at = "clear"
  /\ points' = [points EXCEPT ![req[r].file] = None[req[r].file]]
  /\ Goto(r, "load")
  /\ UNCHANGED <<status, type, disk, life, met, count>>

(* process_file: the upload is read and cut into chunks ... *)
LoadFile(r) ==
  /\ req[r].at = "load"
  /\ Goto(r, IF req[r].file \in disk THEN "upsert" ELSE "fail")
  /\ UNCHANGED <<data, life, met, count>>

(* ... which are embedded and upserted under ids of their own, if any. *)
UpsertPoints(r) ==
  /\ req[r].at = "upsert"
  /\ points' = [points EXCEPT ![req[r].file][req[r].kind] =
                  IF req[r].file \in Textless THEN @ ELSE @ + 1]
  /\ Goto(r, "report")
  /\ UNCHANGED <<status, type, disk, life, met, count>>

(* Mutant of Report: a failure is only logged. *)
ReportSuccess(r) ==
  /\ \/ req[r].at = "report" /\ SetStatus(req[r].file, "embedded")
     \/ req[r].at = "fail" /\ UNCHANGED status
  /\ Goto(r, "tasks")
  /\ UNCHANGED <<type, disk, points, life, met, count>>

(* The row says how it went. *)
Report(r) ==
  /\ req[r].at \in {"report", "fail"}
  /\ SetStatus(req[r].file, IF req[r].at = "report" THEN "embedded" ELSE "failed")
  /\ Goto(r, "tasks")
  /\ UNCHANGED <<type, disk, points, life, met, count>>

(* Qdrant, a loader or the model raises: an embed fails, a handler ends. *)
Raise(r) ==
  /\ Happens("error")
  /\ \/ /\ req[r].at \in {"clear", "load", "upsert"}
        /\ Goto(r, "fail")
     \/ /\ req[r].at \in {"drop", "all"}
        /\ req' = [req EXCEPT ![r] = Idle]
  /\ UNCHANGED <<data, life, met>>

-----------------------------------------------------------------------------
(* The end of the bot: soft_delete_bot and, after the grace of seven days,   *)
(* purge_one.  No request lasts that long.                                   *)

SoftDelete ==
  /\ up /\ bot = "live"
  /\ bot' = "deleted"
  /\ UNCHANGED <<data, purge, failed, up, req, met, count>>

(* Mutant of BeginPurge: the row goes first. *)
BeginPurgeRowFirst ==
  /\ up /\ bot = "deleted" /\ purge = "off"
  /\ bot' = "gone" /\ purge' = "vectors" /\ failed' = {}
  /\ status' = [f \in File |-> IF HasRow(f) THEN "deleted" ELSE status[f]]
  /\ UNCHANGED <<type, disk, points, up, req, met, count>>

(* The daily sweep finds the bot, again as long as its row is there. *)
BeginPurge ==
  /\ up /\ bot = "deleted" /\ purge = "off"
  /\ \A r \in Request : req[r].at = "idle"
  /\ purge' = "vectors" /\ failed' = {}
  /\ UNCHANGED <<data, bot, up, req, met, count>>

(* Each step swallows its failure, and the next one runs all the same. *)
Swallow(step) == Happens("fault") /\ failed' = failed \cup {step}

PurgeVectors ==
  /\ purge = "vectors"
  /\ \/ points' = None /\ UNCHANGED <<failed, count>>
     \/ Swallow("vectors") /\ UNCHANGED points
  /\ purge' = "files"
  /\ UNCHANGED <<status, type, disk, bot, up, req, met>>

(* rmtree stops at what it cannot remove. *)
PurgeFiles ==
  /\ purge = "files"
  /\ \/ disk' = {} /\ UNCHANGED <<failed, count>>
     \/ Swallow("files") /\ disk' \in SUBSET disk
  /\ purge' = "row"
  /\ UNCHANGED <<status, type, points, bot, up, req, met>>

(* The rows of its files cascade. *)
PurgeRow ==
  /\ purge = "row"
  /\ \/ /\ bot' = "gone"
        /\ status' = [f \in File |-> IF HasRow(f) THEN "deleted" ELSE status[f]]
        /\ UNCHANGED <<failed, count>>
     \/ Swallow("row") /\ UNCHANGED <<bot, status>>
  /\ purge' = "off"
  /\ UNCHANGED <<type, disk, points, up, req, met>>

-----------------------------------------------------------------------------
(* Crash and startup *)

Crash ==
  /\ up /\ Happens("crash")
  /\ up' = FALSE /\ purge' = "off"
  /\ req' = [r \in Request |-> Idle]
  /\ UNCHANGED <<data, bot, failed, met>>

(* recover_pending_embeds runs inside the event loop that starts the server: *)
(* run_until_complete raises at the first row whose upload is on disk, and   *)
(* main.py logs it.  Rows before that one whose upload is missing fail.      *)
Boot ==
  /\ ~up
  /\ up' = TRUE
  /\ LET stuck == {f \in File : status[f] \in Unsettled}
     IN  \E before \in SUBSET (stuck \ disk) :
           /\ stuck \cap disk = {} => before = stuck
           /\ status' = [f \in File |-> IF f \in before THEN "failed" ELSE status[f]]
  /\ UNCHANGED <<type, disk, points, bot, purge, failed, req, met, count>>

-----------------------------------------------------------------------------
Begins(r) == BeginUpload(r) \/ BeginOnFile(r) \/ BeginAll(r)

Steps(r) ==
  \/ StoreUpload(r) \/ Retype(r) \/ Requeue(r)
  \/ DropPoints(r) \/ DropRow(r) \/ DropDisk(r)
  \/ ClearAll(r) \/ ListAll(r) \/ QueueEach(r)
  \/ NextTask(r) \/ MarkEmbedding(r) \/ ReadType(r) \/ ClearPoints(r)
  \/ LoadFile(r) \/ UpsertPoints(r) \/ Report(r)

Purge == BeginPurge \/ PurgeVectors \/ PurgeFiles \/ PurgeRow

Next ==
  \/ \E r \in Request : Begins(r) \/ Steps(r) \/ Raise(r)
  \/ SoftDelete \/ Purge \/ Crash \/ Boot

Spec == Init /\ [][Next]_vars

(* Threads run, the daily sweep comes, a dead process is started again. *)
FairSpec ==
  /\ Spec
  /\ \A r \in Request : WF_vars(Steps(r))
  /\ WF_vars(Purge) /\ WF_vars(Boot)

-----------------------------------------------------------------------------
(* Properties *)

NoCrash == count["crash"] = 0

(* What is not in the bot's list is not in its answers: a file without a row *)
(* has no points, unless two requests worked on it at a time, or the purge   *)
(* that took the row could not delete them.                                  *)
NoOrphanPoints ==
  ~(bot = "gone" /\ "vectors" \in failed) =>
    \A f \in File \ met : HasRow(f) \/ points[f] = None[f]

(* Search finds a file once and as its row says.  "requeuing a half-done     *)
(* embed never doubles the chunks": however often a file is embedded,        *)
(* interrupted and embedded again, it has its chunks at most once.  "stale   *)
(* metadata in Qdrant": a file that is embedded and at rest has only chunks  *)
(* of its row's type.  Both unless two requests worked on it at a time.  And *)
(* what says embedded and has any text can be found when everybody is        *)
(* through, in whatever order requests came, as long as nothing raised or    *)
(* crashed.                                                                  *)
SearchIsTrue ==
  /\ \A f \in File \ met : \A t \in Type :
       points[f][t] <= 1 /\ \A u \in Type \ {t} : points[f][t] * points[f][u] = 0
  /\ NoCrash => \A f \in File :
       status[f] = "embedded" /\ Quiet(f) =>
         /\ f \notin met => \A t \in Type : points[f][t] > 0 => t = type[f]
         /\ count["error"] = 0 /\ bot = "live" /\ f \notin Textless =>
              \E t \in Type : points[f][t] > 0

(* No row is forgotten in pending or embedding: some request will still      *)
(* embed it, as long as the process lives.                                   *)
UnsettledIsAhead ==
  NoCrash => \A f \in File :
    status[f] \in Unsettled => \E r \in Request : f \in Ahead(req[r])

(* A bot's row outlives its points and uploads: what a purge cut off by a    *)
(* crash left, or one whose last step failed, the next sweep removes, and    *)
(* when the row is gone only that is left whose own step failed in the very  *)
(* purge that took the row.  (It is never looked at again, although the      *)
(* module says "partial failures resume cleanly".)                           *)
PurgeIsWhole ==
  bot = "gone" =>
    /\ points = None \/ "vectors" \in failed
    /\ disk = {} \/ "files" \in failed

(* main.py on the sweep at startup: "so the runtime self-heals". *)
SelfHeals == \A f \in File : status[f] \in Unsettled ~> status[f] \notin Unsettled
=============================================================================
