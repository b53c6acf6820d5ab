----------------------------- MODULE CrawlWorker -----------------------------
(***************************************************************************)
(* services/crawl_worker.py and models/crawl_jobs.py for one crawl job:    *)
(* the supervisor, the loop of _run_job, a runner for each claimed page,   *)
(* the threads that embed files, the admin routes that pause, resume and   *)
(* cancel the job, and crashes of the process.                             *)
(*                                                                         *)
(* The supervisor, the loop and the runners are coroutines of one event    *)
(* loop and reach the database synchronously: what runs between two awaits *)
(* is one action, and runners do not run while the loop is at its turn.    *)
(* Routes and embeds run in threads and come between any two statements.   *)
(* A crash may come between two statements too.                            *)
(***************************************************************************)
EXTENDS Naturals, Sequences, FiniteSets, Functions

CONSTANTS
  Page,          \* canonical URLs in scope
  Seed,          \* the seed_url of the job
  Links,         \* the links of a page in document order, [Page -> Seq(Page)]
  File,          \* file names
  FileOf,        \* _url_to_filename of a page's final URL, [Page -> File]
  MaxPages,      \* options maxPages, maxDepth and concurrency
  MaxDepth,
  Concurrency,
  Faults,        \* which of FaultKinds happen
  MaxEvents      \* bound: requests of admins and crashes

FaultKinds == {"crash", "unfit", "raise", "embed"}

(* What _transition_crawl_job may be asked to write. *)
Transitions == {"running", "paused", "cancelled"}

Events == Transitions \cup {"delete", "crash"}

Terminal == {"completed", "cancelled", "failed"}    \* JOB_TERMINAL_STATUSES

ASSUME CrawlAssumption ==
  /\ IsFiniteSet(Page) /\ Seed \in Page
  /\ Links \in [Page -> Seq(Page)] /\ \A p \in Page : IsInjective(Links[p])
  /\ FileOf \in [Page -> File] /\ Faults \subseteq FaultKinds
  /\ MaxPages \in Nat /\ MaxDepth \in Nat /\ Concurrency \in Nat \ {0}
  /\ MaxEvents \in Nat

VARIABLES
  job,       \* the row of crawl_jobs
  page,      \* crawl_job_pages: Page -> Rows
  file,      \* the bot's files, by file name: [File -> FileStates]
  loop,      \* where _run_job is, "off" when there is no such task
  runner,    \* where the runner of a page is: Page -> Runners
  pending,   \* transitions that passed their check and are to be written
  count      \* how often each event happened, [Events -> Nat]

db == <<job, page, file>>
admin == <<pending, count>>
vars == <<db, loop, runner, admin>>

PageStates == {"none", "queued", "fetching", "embedding", "done", "skipped", "failed"}
Settled == {"done", "skipped", "failed"}
InFlight == {"fetching", "embedding"}     \* "uploading" lasts for no await
Reasons == {"", "unfit", "imported", "max pages"}

(* Ids count from 1 in the order of insertion; a page without a row has 0.  *)
Rows == [id: Nat, state: PageStates, depth: Nat, reason: Reasons]
Absent == [id |-> 0, state |-> "none", depth |-> 0, reason |-> ""]
Table == {p \in Page : page[p].state # "none"}

(* A runner fetches its page, waits for the thread that embeds its file,   *)
(* hears that the thread is through, and is over; in_flight is the set of  *)
(* runners that the loop has started and not yet seen over.                *)
Runners == {"off", "fetch", "embed", "embedded", "over"}
Live == {p \in Page : runner[p] \in {"fetch", "embed", "embedded"}}
Over == {p \in Page : runner[p] = "over"}

Loops == {"off", "new", "turn", "wait", "drain", "finish"}
Yielded == loop # "turn"

(* embedding_status, and whose runner wrote the row, if one did: a runner    *)
(* looks for its row by id, so it does not see another's of that name.      *)
FileStates == [status: {"absent", "pending", "embedded", "failed"}, by: SUBSET Page]
NoFile == [status |-> "absent", by |-> {}]
Imported == [status |-> "embedded", by |-> {}]

Counters == {"total", "done", "skipped", "failed"}
Jobs == [status: {"running", "paused"} \cup Terminal,
         total: Nat, done: Nat, skipped: Nat, failed: Nat]

TypeOK ==
  /\ job \in Jobs
  /\ page \in [Page -> Rows]
  /\ \A p \in Page :
       page[p].id \in IF p \in Table THEN 1 .. Cardinality(Table) ELSE {0}
  /\ \A p, q \in Table : page[p].id = page[q].id => p = q
  /\ file \in [File -> FileStates]
  /\ loop \in Loops
  /\ runner \in [Page -> Runners]
  /\ pending \subseteq Transitions /\ count \in [Events -> Nat]

Idle == [p \in Page |-> "off"]

(* CrawlJobsTable.create; the bot may have files of earlier crawls.          *)
Init ==
  /\ job = [status |-> "running", total |-> 0, done |-> 0, skipped |-> 0, failed |-> 0]
  /\ page = [p \in Page |-> Absent]
  /\ file \in [File -> {NoFile, Imported}]
  /\ loop = "off" /\ runner = Idle
  /\ pending = {} /\ count = [e \in Events |-> 0]

-----------------------------------------------------------------------------
(* CrawlJobsTable *)

Queued == {p \in Page : page[p].state = "queued"}

(* claim_next_queued takes the row with the least id; it fails only if      *)
(* another process takes that row first, and there is no other.             *)
Oldest == {p \in Queued : \A q \in Queued : page[p].id <= page[q].id}

(* has_pages_in_flight counts the queued pages too. *)
PagesInFlight == \E p \in Page : page[p].state \in {"queued"} \cup InFlight

(* Mutants of Reset: pages that are fetched stay so; failed pages get a retry. *)
ResetForgetsFetching ==
  [p \in Page |->
     IF page[p].state = "embedding" THEN [page[p] EXCEPT !.state = "queued"] ELSE page[p]]

ResetRetriesFailed ==
  [p \in Page |->
     IF page[p].state \in InFlight \cup {"failed"} THEN [page[p] EXCEPT !.state = "queued"]
     ELSE page[p]]

(* reset_in_flight_for_job *)
Reset ==
  [p \in Page |->
     IF page[p].state \in InFlight THEN [page[p] EXCEPT !.state = "queued"] ELSE page[p]]

(* Mutant of NewLinks: a link is added although it has a row that is settled. *)
NewLinksAgain(p, n) ==
  {Links[p][i] : i \in {k \in 1 .. n : page[p].depth < MaxDepth}}
    \ {q \in Table : page[q].state \in {"queued"} \cup InFlight}

(* The links of a page up to the n-th, if its depth allows, that have no row *)
(* yet.                                                                      *)
NewLinks(p, n) ==
  {Links[p][i] : i \in {k \in 1 .. n : page[p].depth < MaxDepth}} \ Table

(* Those of some links of a page that come no later than q. *)
UpTo(p, new, q) ==
  {r \in new : \E i, j \in DOMAIN Links[p] : i <= j /\ Links[p][i] = r /\ Links[p][j] = q}

(* add_page_if_new for some links of p. *)
Added(p, new) ==
  [q \in Page |->
     IF q \in new
     THEN [id |-> Cardinality(Table) + Cardinality(UpTo(p, new, q)), state |-> "queued",
           depth |-> page[p].depth + 1, reason |-> ""]
     ELSE page[q]]
Seeded == [page EXCEPT ![Seed] = [id |-> 1, state |-> "queued", depth |-> 0, reason |-> ""]]

(* update_page_state; a reason that is not given is kept. *)
Moved(pages, p, state, reason) ==
  [pages EXCEPT ![p] = [pages[p] EXCEPT
    !.state = state, !.reason = IF reason = "" THEN pages[p].reason ELSE reason]]

(* bump_counters *)
Bumped(j, counter, n) == [j EXCEPT ![counter] = @ + n]

-----------------------------------------------------------------------------
(* _supervisor_loop and _run_job *)

(* A job that runs and has no task, or a task that is done, gets one. *)
Supervise ==
  /\ Yielded
  /\ job.status = "running" /\ loop = "off"
  /\ loop' = "new"
  /\ UNCHANGED <<db, runner, admin>>

StartRefused ==
  /\ loop = "new" /\ job.status # "running"
  /\ loop' = "off"
  /\ UNCHANGED <<db, runner, admin>>

(* The recovery sweep, and the seed if the job has no page yet.  (The seed   *)
(* has a scheme and a host, or create_crawl_job had refused it: the branch   *)
(* "invalid seed URL" is never taken.)                                       *)
StartJob ==
  /\ loop = "new" /\ job.status = "running"
  /\ \/ /\ Table # {}
        /\ page' = Reset
        /\ UNCHANGED job
     \/ /\ Table = {}
        /\ page' = Seeded
        /\ job' = Bumped(job, "total", 1)
  /\ loop' = "turn"
  /\ UNCHANGED <<file, runner, admin>>

(* Mutant of NothingLeft: the budget ends the job whatever is in flight. *)
NothingLeftEarly ==
  \/ job.status # "running"
  \/ job.total >= MaxPages
  \/ Queued = {} /\ runner = Idle /\ ~PagesInFlight

NothingLeft ==
  \/ job.status # "running"
  \/ job.total >= MaxPages /\ ~PagesInFlight
  \/ Queued = {} /\ runner = Idle /\ ~PagesInFlight

(* The loop breaks and gathers its runners. *)
LeaveLoop ==
  /\ loop = "turn" /\ NothingLeft
  /\ loop' = "drain"
  /\ UNCHANGED <<db, runner, admin>>

MayClaim == loop = "turn" /\ ~NothingLeft /\ Queued # {}

(* A page is claimed when the job has too many pages. *)
TooMany == job.total > MaxPages
SkipOverflow ==
  /\ MayClaim /\ TooMany
  /\ \E p \in Oldest : page' = Moved(page, p, "skipped", "max pages")
  /\ job' = Bumped(job, "skipped", 1)
  /\ UNCHANGED <<file, loop, runner, admin>>

(* A runner is started, and the loop waits when there are enough.  (Their   *)
(* semaphore never blocks: no more than Concurrency of them exist.)         *)
Enough(n) == n >= Concurrency
StartRunner ==
  /\ MayClaim /\ ~TooMany
  /\ \E p \in Oldest :
       /\ page' = Moved(page, p, "fetching", "")
       /\ runner' = [runner EXCEPT ![p] = "fetch"]
  /\ loop' = IF Enough(Cardinality(Live \cup Over) + 1) THEN "wait" ELSE "turn"
  /\ UNCHANGED <<job, file, admin>>

(* Nothing is queued: wait for a runner, which may find more. *)
AwaitRunner ==
  /\ loop = "turn" /\ ~NothingLeft /\ Queued = {}
  /\ runner # Idle
  /\ loop' = "wait"
  /\ UNCHANGED <<db, runner, admin>>

(* asyncio.wait(..., FIRST_COMPLETED) *)
Reap ==
  /\ loop = "wait" /\ Over # {}
  /\ runner' = [p \in Page |-> IF p \in Over THEN "off" ELSE runner[p]]
  /\ loop' = "turn"
  /\ UNCHANGED <<db, admin>>

(* asyncio.gather, and the status is read a last time. *)
Drain ==
  /\ loop = "drain" /\ Live = {}
  /\ runner' = Idle
  /\ loop' = IF job.status = "running" THEN "finish" ELSE "off"
  /\ UNCHANGED <<db, admin>>

(* ... and overwritten, whatever it has become. *)
Complete ==
  /\ loop = "finish"
  /\ job' = [job EXCEPT !.status = "completed"]
  /\ loop' = "off"
  /\ UNCHANGED <<page, file, runner, admin>>

-----------------------------------------------------------------------------
(* runner and _process_page *)

(* The page is unsafe, forbidden by robots.txt, or cannot be fetched. *)
SkipPage(p) ==
  /\ Yielded /\ runner[p] = "fetch" /\ "unfit" \in Faults
  /\ page' = Moved(page, p, "skipped", "unfit")
  /\ job' = Bumped(job, "skipped", 1)
  /\ runner' = [runner EXCEPT ![p] = "over"]
  /\ UNCHANGED <<file, loop, admin>>

LinksOf(p) == NewLinks(p, Len(Links[p]))

(* The page is fetched and its links are added; then it is thin, its file  *)
(* name is known to the bot, or it is stored and its embed starts.         *)
FetchPage(p) ==
  /\ Yielded /\ runner[p] = "fetch"
  /\ LET found == Added(p, LinksOf(p))
         counted == Bumped(job, "total", Cardinality(LinksOf(p)))
     IN  \/ /\ "unfit" \in Faults
            /\ page' = Moved(found, p, "skipped", "unfit")
            /\ job' = Bumped(counted, "skipped", 1)
            /\ runner' = [runner EXCEPT ![p] = "over"]
            /\ UNCHANGED file
         \/ /\ file[FileOf[p]] # NoFile
            /\ page' = Moved(found, p, "skipped", "imported")
            /\ job' = Bumped(counted, "skipped", 1)
            /\ runner' = [runner EXCEPT ![p] = "over"]
            /\ UNCHANGED file
         \/ /\ file[FileOf[p]] = NoFile
            /\ page' = Moved(found, p, "embedding", "")
            /\ job' = counted
            /\ file' = [file EXCEPT ![FileOf[p]] = [status |-> "pending", by |-> {p}]]
            /\ runner' = [runner EXCEPT ![p] = "embed"]
  /\ UNCHANGED <<loop, admin>>

(* An exception, say of a link that does not parse: the links before it    *)
(* are added, and the runner fails the page.                               *)
PageRaises(p) ==
  /\ Yielded /\ runner[p] = "fetch" /\ "raise" \in Faults
  /\ \E n \in 0 .. Len(Links[p]) :
       /\ page' = Moved(Added(p, NewLinks(p, n)), p, "failed", "")
       /\ job' = Bumped(Bumped(job, "total", Cardinality(NewLinks(p, n))), "failed", 1)
  /\ runner' = [runner EXCEPT ![p] = "over"]
  /\ UNCHANGED <<file, loop, admin>>

Has(p) == file[FileOf[p]].by = {p}

(* The thread of _embed_file_sync; the row may be gone by now. *)
EmbedFile(p) ==
  /\ runner[p] = "embed"
  /\ \E outcome \in {"embedded"} \cup (IF "embed" \in Faults THEN {"failed"} ELSE {}) :
       file' = [file EXCEPT ![FileOf[p]] = IF Has(p) THEN [@ EXCEPT !.status = outcome] ELSE @]
  /\ runner' = [runner EXCEPT ![p] = "embedded"]
  /\ UNCHANGED <<job, page, loop, admin>>

Outcome(p) == IF Has(p) /\ file[FileOf[p]].status = "embedded" THEN "done" ELSE "failed"

(* The runner looks what became of the file. *)
SettlePage(p) ==
  /\ Yielded /\ runner[p] = "embedded"
  /\ page' = Moved(page, p, Outcome(p), "")
  /\ job' = Bumped(job, Outcome(p), 1)
  /\ runner' = [runner EXCEPT ![p] = "over"]
  /\ UNCHANGED <<file, loop, admin>>

-----------------------------------------------------------------------------
(* Admins: _transition_crawl_job in a thread, and delete_file *)

Happens(e) ==
  /\ SumFunction(count) < MaxEvents
  /\ count' = [count EXCEPT ![e] = @ + 1]

AskTransition(t) ==
  /\ Happens(t)
  /\ t \notin pending /\ job.status \notin Terminal
  /\ pending' = pending \cup {t}
  /\ UNCHANGED <<db, loop, runner>>

WriteTransition(t) ==
  /\ t \in pending
  /\ pending' = pending \ {t}
  /\ job' = [job EXCEPT !.status = t]
  /\ UNCHANGED <<page, file, loop, runner, count>>

DeleteFile(f) ==
  /\ Happens("delete")
  /\ file[f] # NoFile
  /\ file' = [file EXCEPT ![f] = NoFile]
  /\ UNCHANGED <<job, page, loop, runner, pending>>

-----------------------------------------------------------------------------
(* Crashes: tasks, threads and requests die; the rows stay *)

Die ==
  /\ "crash" \in Faults /\ Happens("crash")
  /\ loop' = "off" /\ runner' = Idle /\ pending' = {}

(* Between two actions. *)
Crash ==
  /\ Die
  /\ UNCHANGED db

(* Some rows of an action are written; the counter of the last one is not. *)
CrashAdding ==
  /\ Die
  /\ \/ /\ loop = "new" /\ job.status = "running" /\ Table = {}
        /\ page' = Seeded
        /\ UNCHANGED job
     \/ \E p \in Page : \E n \in 1 .. Len(Links[p]), lost \in {0, 1} :
          /\ Yielded /\ runner[p] = "fetch"
          /\ lost = 1 => Links[p][n] \in NewLinks(p, n)
          /\ page' = Added(p, NewLinks(p, n))
          /\ job' = Bumped(job, "total", Cardinality(NewLinks(p, n)) - lost)
  /\ UNCHANGED file

(* A page is settled and not counted. *)
CrashSettling ==
  /\ Die
  /\ \/ /\ MayClaim /\ TooMany
        /\ \E p \in Oldest : page' = Moved(page, p, "skipped", "max pages")
     \/ \E p \in Page :
          /\ Yielded /\ runner[p] = "embedded"
          /\ page' = Moved(page, p, Outcome(p), "")
     \/ \E p \in Page :
          /\ Yielded /\ runner[p] = "fetch" /\ "unfit" \in Faults
          /\ page' = Moved(page, p, "skipped", "unfit")
  /\ UNCHANGED <<job, file>>

-----------------------------------------------------------------------------
Worker ==
  \/ Supervise \/ StartRefused \/ StartJob
  \/ LeaveLoop \/ SkipOverflow \/ StartRunner \/ AwaitRunner
  \/ Reap \/ Drain \/ Complete

Runner(p) ==
  SkipPage(p) \/ FetchPage(p) \/ PageRaises(p) \/ EmbedFile(p) \/ SettlePage(p)

Next ==
  \/ Worker
  \/ \E p \in Page : Runner(p)
  \/ \E t \in Transitions : AskTransition(t) \/ WriteTransition(t)
  \/ \E f \in File : DeleteFile(f)
  \/ Crash \/ CrashAdding \/ CrashSettling

Spec == Init /\ [][Next]_vars

(* The event loop runs its coroutines and every fetch and embed ends, with  *)
(* an error if need be.  Admins and crashes are under no obligation.        *)
FairSpec ==
  /\ Spec
  /\ WF_vars(Worker)
  /\ \A p \in Page : WF_vars(Runner(p))

-----------------------------------------------------------------------------
(* Properties *)

SettledPages == {p \in Page : page[p].state \in Settled}

(* bump_counters increments in SQL, once for every row that is added or     *)
(* settled: the counters of the job never run ahead of its pages, and all   *)
(* together they lag behind by one for every crash, at most.  So no more    *)
(* pages are fetched than maxPages allows, but for those whose count a      *)
(* crash lost, whatever their links hold.  (With the types, where every     *)
(* page has one row.)                                                       *)
Fetched ==
  {p \in Page : page[p].state \notin {"none", "queued"} /\ page[p].reason # "max pages"}
CountersFollow ==
  LET of(s) == Cardinality({p \in Page : page[p].state = s})
      shown == job.total + job.done + job.skipped + job.failed
      actual == Cardinality(Table) + of("done") + of("skipped") + of("failed")
  IN  /\ TypeOK
      /\ job.total <= Cardinality(Table) /\ job.done <= of("done")
      /\ job.skipped <= of("skipped") /\ job.failed <= of("failed")
      /\ actual <= shown + count["crash"]
      /\ Cardinality(Fetched) <= MaxPages + count["crash"]

(* reset_in_flight_for_job against orphans: while _run_job is in its loop,  *)
(* the pages in flight are those that have a runner, each at its runner's   *)
(* stage, and there are at most `concurrency` of them.  And a job that      *)
(* nobody resumed completes only when every page it found is settled,       *)
(* crashes or not.  (A pause and a resume while the loop gathers its        *)
(* runners complete it with pages still queued.)                            *)
NoPageLeftBehind ==
  /\ loop \in {"turn", "wait", "drain", "finish"} =>
       /\ \A p \in Page :
            /\ page[p].state = "fetching" <=> runner[p] = "fetch"
            /\ page[p].state = "embedding" <=> runner[p] \in {"embed", "embedded"}
       /\ Cardinality(Live) <= Concurrency
  /\ job.status = "completed" /\ count["running"] = 0 => ~PagesInFlight

(* A page is settled once: no restart and no second link reopens it. *)
SettledStays ==
  [][\A p \in SettledPages : page'[p] = page[p]]_vars

(* The worker never hangs: a job that runs ends, or is paused. *)
RunsEnd == job.status = "running" ~> job.status # "running"
=============================================================================
