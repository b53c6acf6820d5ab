---------------------------- MODULE CrawlProofs ----------------------------
(***************************************************************************)
(* What holds of CrawlWorker for any pages, links, budget and concurrency, *)
(* and any number of admins' requests and crashes: pages in flight have a  *)
(* runner, none is left behind, and a settled page stays settled.          *)
(***************************************************************************)
EXTENDS CrawlWorker, FiniteSetTheorems, TLAPS

JobRecords == [status: {"running", "paused"} \cup Terminal,
               total: Int, done: Int, skipped: Int, failed: Int]

Amounts == Int
Pages == [Page -> Rows]

(* The types that the argument needs.                                        *)
Types ==
  /\ job \in JobRecords /\ page \in Pages /\ file \in [File -> FileStates]
  /\ loop \in Loops /\ runner \in [Page -> Runners]
  /\ pending \subseteq Transitions /\ count \in [Events -> Nat]

(* A runner lives while the loop does, at the stage of its page.             *)
Running == loop \in {"turn", "wait", "drain", "finish"}
Staged(p) ==
  /\ page[p].state = "fetching" <=> runner[p] = "fetch"
  /\ page[p].state = "embedding" <=> runner[p] \in {"embed", "embedded"}
Runs == IF Running THEN \A p \in Page : Staged(p) ELSE runner = Idle

(* There are never more than enough, room for one when the loop has its turn,
   and none once they are gathered.                                          *)
Started == Live \cup Over
Places ==
  /\ Cardinality(Started) <= Concurrency
  /\ loop = "turn" => Cardinality(Started) < Concurrency
  /\ loop = "finish" => Started = {}

(* A job that nobody resumed: it drains when it was stopped, or nothing is
   left.                                                                     *)
Ending ==
  count["running"] = 0 =>
    /\ "running" \notin pending
    /\ loop = "drain" => job.status # "running" \/ ~ PagesInFlight
    /\ loop = "finish" => ~ PagesInFlight
    /\ job.status = "completed" => loop = "off" /\ ~ PagesInFlight

IInv == Types /\ Runs /\ Places /\ Ending

-----------------------------------------------------------------------------
(* The operators.                                                            *)
LEMMA IdleType == Idle \in [Page -> Runners] /\ \A p \in Page : Idle[p] = "off"
BY DEF Idle, Runners

LEMMA BumpedType ==
  ASSUME NEW j \in JobRecords, NEW c \in Counters, NEW n \in Amounts
  PROVE  Bumped(j, c, n) \in JobRecords /\ Bumped(j, c, n).status = j.status
BY DEF JobRecords, Counters, Amounts, Bumped

LEMMA MovedType ==
  ASSUME NEW pages \in Pages, NEW p \in Page, NEW state \in PageStates, NEW reason \in Reasons
  PROVE  /\ Moved(pages, p, state, reason) \in Pages
         /\ Moved(pages, p, state, reason)[p].state = state
         /\ \A q \in Page \ {p} : Moved(pages, p, state, reason)[q] = pages[q]
<1> DEFINE row == [pages[p] EXCEPT !.state = state, !.reason = IF reason = "" THEN pages[p].reason ELSE reason]
<1>1. row \in Rows /\ row.state = state
  BY DEF Rows, Pages, Reasons
<1>2. Moved(pages, p, state, reason) = [pages EXCEPT ![p] = row]
  BY DEF Moved, Pages
<1> QED BY <1>1, <1>2 DEF Pages

LEMMA SetsFinite ==
  ASSUME CrawlAssumption, NEW S \in SUBSET Page
  PROVE  IsFiniteSet(S) /\ Cardinality(S) \in Nat
BY FS_Subset, FS_CardinalityType DEF CrawlAssumption

LEMMA NewLinksType ==
  ASSUME CrawlAssumption, Types, NEW p \in Page, NEW n \in 0 .. Len(Links[p])
  PROVE  NewLinks(p, n) \subseteq Page \ Table /\ Cardinality(NewLinks(p, n)) \in Nat
<1>1. Links[p] \in Seq(Page)
  BY DEF CrawlAssumption
<1>2. \A i \in 1 .. n : Links[p][i] \in Page
  BY <1>1
<1>3. NewLinks(p, n) \subseteq Page \ Table
  BY <1>2 DEF NewLinks
<1> QED BY <1>3, SetsFinite

LEMMA AddedType ==
  ASSUME CrawlAssumption, Types, NEW p \in Page, NEW new \in SUBSET (Page \ Table)
  PROVE  /\ Added(p, new) \in Pages
         /\ \A q \in new : Added(p, new)[q].state = "queued"
         /\ \A q \in Page \ new : Added(p, new)[q] = page[q]
<1>1. Table \subseteq Page /\ \A q \in Page : UpTo(p, new, q) \subseteq Page
  BY DEF Table, UpTo
<1>2. \A q \in Page : Cardinality(Table) + Cardinality(UpTo(p, new, q)) \in Nat
  <2>1. Cardinality(Table) \in Nat
    BY <1>1, SetsFinite
  <2>2. \A q \in Page : Cardinality(UpTo(p, new, q)) \in Nat
    BY <1>1, SetsFinite
  <2> QED BY <2>1, <2>2
<1>3. page[p].depth + 1 \in Nat
  BY DEF Types, Rows, Pages
<1>4. \A q \in Page : Added(p, new)[q] \in Rows
  BY <1>2, <1>3 DEF Added, Types, Rows, Pages, PageStates, Reasons
<1> QED BY <1>4 DEF Added, Pages

LEMMA SeededType ==
  ASSUME CrawlAssumption, Types
  PROVE  /\ Seeded \in Pages /\ Seeded[Seed].state = "queued"
         /\ \A q \in Page \ {Seed} : Seeded[q] = page[q]
BY DEF CrawlAssumption, Types, Seeded, Rows, Pages, PageStates, Reasons

LEMMA ResetType ==
  ASSUME Types
  PROVE  /\ Reset \in Pages
         /\ \A q \in Page : IF page[q].state \in InFlight THEN Reset[q].state = "queued"
                                                         ELSE Reset[q] = page[q]
<1>1. \A q \in Page : [page[q] EXCEPT !.state = "queued"] \in Rows
                      /\ [page[q] EXCEPT !.state = "queued"].state = "queued"
  BY DEF Types, Rows, Pages, PageStates
<1> QED BY <1>1 DEF Reset, Types, Pages

LEMMA Names ==
  /\ "total" \in Counters /\ "done" \in Counters /\ "skipped" \in Counters /\ "failed" \in Counters
  /\ "done" \in PageStates /\ "skipped" \in PageStates /\ "failed" \in PageStates
  /\ "fetching" \in PageStates /\ "embedding" \in PageStates
  /\ "done" \in Settled /\ "skipped" \in Settled /\ "failed" \in Settled
  /\ "embedding" \notin Settled /\ "fetching" \notin Settled /\ "queued" \notin Settled /\ "none" \notin Settled
  /\ \A s \in Settled : s \in PageStates /\ s \in Counters
  /\ "" \in Reasons /\ "imported" \in Reasons /\ "unfit" \in Reasons /\ "max pages" \in Reasons /\ 1 \in Amounts
BY DEF Counters, PageStates, Settled, Reasons, Amounts

LEMMA Finishing ==
  ASSUME NEW pages \in Pages, NEW j \in JobRecords, NEW p \in Page,
         NEW outcome \in Settled, NEW reason \in Reasons
  PROVE  /\ Moved(pages, p, outcome, reason) \in Pages
         /\ Moved(pages, p, outcome, reason)[p].state \in Settled
         /\ \A q \in Page \ {p} : Moved(pages, p, outcome, reason)[q] = pages[q]
         /\ Bumped(j, outcome, 1) \in JobRecords /\ Bumped(j, outcome, 1).status = j.status
<1>1. outcome \in PageStates /\ outcome \in Counters /\ 1 \in Amounts
  BY Names
<1> QED BY <1>1, MovedType, BumpedType

-----------------------------------------------------------------------------
(* Steps.  A runner's step moves its own page; a step of the loop, one that is
   queued; and a link that is added had no row.                              *)
LEMMA InitIInv == ASSUME CrawlAssumption, Init PROVE IInv
<1>1. Types
  <2>1. job \in JobRecords
    BY DEF Init, JobRecords, Terminal
  <2>2. Absent \in Rows
    BY DEF Absent, Rows, Pages, PageStates, Reasons
  <2>3. page \in Pages
    BY <2>2 DEF Init, Pages
  <2>4. file \in [File -> FileStates]
    BY DEF Init, FileStates, NoFile, Imported
  <2>5. loop \in Loops /\ runner \in [Page -> Runners] /\ pending \subseteq Transitions
    BY IdleType DEF Init, Loops
  <2>6. count \in [Events -> Nat]
    BY DEF Init
  <2> QED BY <2>1, <2>3, <2>4, <2>5, <2>6 DEF Types, Pages
<1>2. Started = {}
  BY IdleType DEF Init, Started, Live, Over
<1>3. Places
  BY <1>2, FS_EmptySet DEF CrawlAssumption, Init, Places
<1> QED BY <1>1, <1>3 DEF IInv, Init, Runs, Running, Ending, Events, Transitions

LEMMA StartedMoves ==
  ASSUME CrawlAssumption, Types, NEW p \in Page, runner[p] \in {"fetch", "embed", "embedded"},
         NEW to \in {"embed", "embedded", "over"}, runner' = [runner EXCEPT ![p] = to]
  PROVE  Started' = Started
<1>1. runner'[p] = to /\ \A q \in Page \ {p} : runner'[q] = runner[q]
  BY DEF Types
<1> QED BY <1>1 DEF Started, Live, Over

(* What a runner's step, a crash aside, does.                                *)
Settles(p) ==
  /\ runner[p] \in {"fetch", "embedded"} /\ page'[p].state \in Settled /\ runner' = [runner EXCEPT ![p] = "over"]
Embeds(p) ==
  /\ runner[p] = "fetch" /\ page'[p].state = "embedding" /\ runner' = [runner EXCEPT ![p] = "embed"]

LEMMA RunnerSteps ==
  ASSUME CrawlAssumption, Types, NEW p \in Page, Runner(p), ~ EmbedFile(p)
  PROVE  /\ Yielded /\ (Settles(p) \/ Embeds(p))
         /\ page' \in Pages /\ file' \in [File -> FileStates]
         /\ job' \in JobRecords /\ job'.status = job.status
         /\ \A q \in Page \ {p} : page'[q] = page[q] \/ (page[q].state = "none" /\ page'[q].state = "queued")
         /\ UNCHANGED <<loop, admin>>
<1> DEFINE Goal == /\ Yielded /\ (Settles(p) \/ Embeds(p))
                   /\ page' \in Pages /\ file' \in [File -> FileStates]
                   /\ job' \in JobRecords /\ job'.status = job.status
                   /\ \A q \in Page \ {p} :
                        page'[q] = page[q] \/ (page[q].state = "none" /\ page'[q].state = "queued")
                   /\ UNCHANGED <<loop, admin>>
           Found(n) == Added(p, NewLinks(p, n))
           Counted(n) == Bumped(job, "total", Cardinality(NewLinks(p, n)))
<1>p. page \in Pages
  BY DEF Types
<1>j. job \in JobRecords
  BY DEF Types
<1>0. file \in [File -> FileStates] /\ Len(Links[p]) \in Nat /\ FileOf[p] \in File
  BY DEF Types, CrawlAssumption
<1>1. ASSUME NEW outcome \in Settled, NEW reason \in Reasons,
             page' = Moved(page, p, outcome, reason), job' = Bumped(job, outcome, 1),
             runner[p] \in {"fetch", "embedded"}, Yielded, UNCHANGED <<loop, admin, file>>,
             runner' = [runner EXCEPT ![p] = "over"]
      PROVE  Goal
  BY <1>p, <1>j, <1>0, <1>1, Finishing DEF Settles
<1>2. CASE SkipPage(p)
  <2>1. \E outcome \in Settled, reason \in Reasons :
          page' = Moved(page, p, outcome, reason) /\ job' = Bumped(job, outcome, 1)
    BY <1>2, Names DEF SkipPage
  <2> QED BY <1>1, <1>2, <2>1 DEF SkipPage
<1>3. CASE SettlePage(p)
  <2>1. \E outcome \in Settled, reason \in Reasons :
          page' = Moved(page, p, outcome, reason) /\ job' = Bumped(job, outcome, 1)
    BY <1>3, Names DEF SettlePage, Outcome
  <2> QED BY <1>1, <1>3, <2>1 DEF SettlePage
<1>4. ASSUME NEW n \in 0 .. Len(Links[p])
      PROVE  /\ Found(n) \in Pages /\ Counted(n) \in JobRecords /\ Counted(n).status = job.status
             /\ \A q \in Page : \/ Found(n)[q] = page[q]
                                \/ page[q].state = "none" /\ Found(n)[q].state = "queued"
  <2>1. NewLinks(p, n) \in SUBSET (Page \ Table) /\ Cardinality(NewLinks(p, n)) \in Amounts
    BY NewLinksType DEF Amounts
  <2>2. Counted(n) \in JobRecords /\ Counted(n).status = job.status
    BY <1>j, <2>1, BumpedType, Names
  <2>3. \A q \in NewLinks(p, n) : page[q].state = "none"
    BY <2>1 DEF Table
  <2> QED BY <2>1, <2>2, <2>3, AddedType
<1>5. ASSUME NEW n \in 0 .. Len(Links[p]), NEW outcome \in Settled, NEW reason \in Reasons,
             page' = Moved(Found(n), p, outcome, reason), job' = Bumped(Counted(n), outcome, 1),
             runner[p] = "fetch", Yielded, UNCHANGED <<loop, admin, file>>, runner' = [runner EXCEPT ![p] = "over"]
      PROVE  Goal
  <2> HIDE DEF Found, Counted
  <2>1. Found(n) \in Pages /\ Counted(n) \in JobRecords /\ Counted(n).status = job.status
    BY <1>4
  <2>2. /\ page' \in Pages /\ page'[p].state \in Settled /\ \A q \in Page \ {p} : page'[q] = Found(n)[q]
        /\ job' \in JobRecords /\ job'.status = job.status
    BY <1>5, <2>1, Finishing
  <2>3. Settles(p)
    BY <1>5, <2>2 DEF Settles
  <2>4. \A q \in Page \ {p} : page'[q] = page[q] \/ (page[q].state = "none" /\ page'[q].state = "queued")
    BY <1>4, <2>2
  <2> QED BY <1>0, <1>5, <2>2, <2>3, <2>4
<1>6. ASSUME NEW state \in {"embedding"}, NEW reason \in Reasons, NEW n \in {Len(Links[p])},
             page' = Moved(Found(n), p, state, reason), job' = Counted(n),
             runner[p] = "fetch", Yielded, UNCHANGED <<loop, admin>>,
             file' = [file EXCEPT ![FileOf[p]] = [status |-> "pending", by |-> {p}]], runner' = [runner EXCEPT ![p] = "embed"]
      PROVE  Goal
  <2> HIDE DEF Found, Counted
  <2>1. n \in 0 .. Len(Links[p])
    BY <1>0
  <2>0. state \in PageStates
    BY Names
  <2>2. Found(n) \in Pages /\ Counted(n) \in JobRecords /\ Counted(n).status = job.status
    BY <1>4, <2>1
  <2>3. page' \in Pages /\ page'[p].state = state /\ \A q \in Page \ {p} : page'[q] = Found(n)[q]
    BY <1>6, <2>0, <2>2, MovedType
  <2>4. file' \in [File -> FileStates]
    BY <1>0, <1>6 DEF FileStates
  <2>5. Embeds(p)
    BY <1>6, <2>3 DEF Embeds
  <2>6. \A q \in Page \ {p} : page'[q] = page[q] \/ (page[q].state = "none" /\ page'[q].state = "queued")
    BY <1>4, <2>1, <2>3
  <2> QED BY <1>6, <2>2, <2>3, <2>4, <2>5, <2>6
<1>7. CASE FetchPage(p)
  <2> DEFINE n == Len(Links[p])
  <2>0. n \in 0 .. Len(Links[p]) /\ n \in {Len(Links[p])}
    BY <1>0
  <2>1. runner[p] = "fetch" /\ Yielded /\ UNCHANGED <<loop, admin>>
    BY <1>7 DEF FetchPage
  <2>2. CASE /\ page' = Moved(Found(n), p, "skipped", "unfit") /\ job' = Bumped(Counted(n), "skipped", 1)
             /\ UNCHANGED file /\ runner' = [runner EXCEPT ![p] = "over"]
    BY <1>5, <2>0, <2>1, <2>2, Names
  <2>3. CASE /\ page' = Moved(Found(n), p, "skipped", "imported") /\ job' = Bumped(Counted(n), "skipped", 1)
             /\ UNCHANGED file /\ runner' = [runner EXCEPT ![p] = "over"]
    BY <1>5, <2>0, <2>1, <2>3, Names
  <2>4. CASE /\ page' = Moved(Found(n), p, "embedding", "") /\ job' = Counted(n)
             /\ file' = [file EXCEPT ![FileOf[p]] = [status |-> "pending", by |-> {p}]] /\ runner' = [runner EXCEPT ![p] = "embed"]
    <3>1. PICK state \in {"embedding"}, reason \in Reasons : page' = Moved(Found(n), p, state, reason)
      BY <2>4, Names
    <3> QED BY <1>6, <2>0, <2>1, <2>4, <3>1
  <2> QED BY <1>7, <2>2, <2>3, <2>4 DEF FetchPage, LinksOf
<1>8. CASE PageRaises(p)
  <2>1. PICK n \in 0 .. Len(Links[p]), outcome \in Settled, reason \in Reasons :
          page' = Moved(Found(n), p, outcome, reason) /\ job' = Bumped(Counted(n), outcome, 1)
    BY <1>8, Names DEF PageRaises
  <2>2. /\ runner[p] = "fetch" /\ Yielded /\ UNCHANGED <<loop, admin, file>>
        /\ runner' = [runner EXCEPT ![p] = "over"]
    BY <1>8 DEF PageRaises
  <2>3. n \in 0 .. Len(Links[p]) /\ outcome \in Settled /\ reason \in Reasons
    OBVIOUS
  <2> HIDE DEF Found, Counted
  <2> QED BY <1>5, <2>1, <2>2, <2>3
<1> QED BY <1>2, <1>3, <1>7, <1>8 DEF Runner

(* Only what is not settled changes.                                         *)
Keeps == \A q \in SettledPages : page'[q] = page[q]

-----------------------------------------------------------------------------
(* A runner's step.  Its page is in flight, so that no job is about to end.  *)
LEMMA RunnerLives ==
  ASSUME Types, Runs, NEW p \in Page, runner[p] # "off"
  PROVE  Running /\ Staged(p)
BY IdleType DEF Runs

LEMMA RunnerIInv ==
  ASSUME CrawlAssumption, IInv, NEW p \in Page, Runner(p), ~ EmbedFile(p)
  PROVE  IInv' /\ Keeps
<1> USE DEF IInv
<1>1. /\ Yielded /\ (Settles(p) \/ Embeds(p))
      /\ page' \in Pages /\ file' \in [File -> FileStates]
      /\ job' \in JobRecords /\ job'.status = job.status
      /\ \A q \in Page \ {p} : page'[q] = page[q] \/ (page[q].state = "none" /\ page'[q].state = "queued")
      /\ loop' = loop /\ pending' = pending /\ count' = count
  BY RunnerSteps DEF admin
<1>2. runner[p] \in {"fetch", "embedded"}
  BY <1>1 DEF Settles, Embeds
<1>3. Running /\ Staged(p)
  BY <1>2, RunnerLives
<1>4. page[p].state \in {"fetching", "embedding"}
  BY <1>2, <1>3 DEF Staged
<1>5. PagesInFlight
  BY <1>4 DEF PagesInFlight, InFlight
<1>6. PICK to \in {"over", "embed"} :
        /\ runner' = [runner EXCEPT ![p] = to]
        /\ to = "over" => page'[p].state \in {"done", "skipped", "failed"}
        /\ to = "embed" => page'[p].state = "embedding"
  BY <1>1 DEF Settles, Embeds, Settled
<1>7. runner' \in [Page -> Runners] /\ runner'[p] = to /\ \A q \in Page \ {p} : runner'[q] = runner[q]
  BY <1>6 DEF Types, Runners
<1>8. Types'
  BY <1>1, <1>7 DEF Types, Pages
<1>9. Runs'
  <2>1. Running'
    BY <1>1, <1>3 DEF Running
  <2>2. ASSUME NEW q \in Page PROVE Staged(q)'
    <3>1. CASE q = p
      BY <1>6, <1>7, <3>1 DEF Staged
    <3>2. CASE q # p
      <4>1. runner'[q] = runner[q] /\ Staged(q)
        BY <1>3, <1>7, <3>2 DEF Runs
      <4>2. page'[q].state = page[q].state \/ (page[q].state = "none" /\ page'[q].state = "queued")
        BY <1>1, <3>2
      <4> QED BY <4>1, <4>2 DEF Staged
    <3> QED BY <3>1, <3>2
  <2> QED BY <2>1, <2>2 DEF Runs
<1>10. Places'
  <2>1. Started' = Started
    BY <1>2, <1>6, StartedMoves
  <2> QED BY <1>1, <2>1 DEF Places
<1>11. Ending'
  BY <1>1, <1>5 DEF Ending
<1>12. Keeps
  BY <1>1, <1>4 DEF Keeps, SettledPages, Settled
<1> QED BY <1>8, <1>9, <1>10, <1>11, <1>12

LEMMA EmbedIInv ==
  ASSUME CrawlAssumption, IInv, NEW p \in Page, EmbedFile(p)
  PROVE  IInv' /\ Keeps
<1> USE DEF IInv
<1>1. /\ runner[p] = "embed" /\ runner' = [runner EXCEPT ![p] = "embedded"]
      /\ job' = job /\ page' = page /\ loop' = loop /\ pending' = pending /\ count' = count
  BY DEF EmbedFile, admin
<1>2. FileOf[p] \in File
  BY DEF CrawlAssumption
<1>3. file' \in [File -> FileStates]
  <2>1. PICK outcome \in {"embedded", "failed"} :
          file' = [file EXCEPT ![FileOf[p]] = IF Has(p) THEN [file[FileOf[p]] EXCEPT !.status = outcome]
                                              ELSE file[FileOf[p]]]
    BY DEF EmbedFile
  <2>2. file \in [File -> FileStates] /\ file[FileOf[p]] \in FileStates
    BY <1>2 DEF Types
  <2>3. [file[FileOf[p]] EXCEPT !.status = outcome] \in FileStates
    BY <2>2 DEF FileStates
  <2> QED BY <1>2, <2>1, <2>2, <2>3
<1>4. runner' \in [Page -> Runners] /\ runner'[p] = "embedded" /\ \A q \in Page \ {p} : runner'[q] = runner[q]
  BY <1>1 DEF Types, Runners
<1>5. Types'
  BY <1>1, <1>3, <1>4 DEF Types
<1>6. Runs'
  <2>1. Running /\ Running'
    BY <1>1, RunnerLives DEF Running
  <2>2. \A q \in Page : Staged(q)'
    BY <1>1, <1>4, <2>1 DEF Runs, Staged
  <2> QED BY <2>1, <2>2 DEF Runs
<1>7. Places'
  <2>1. Started' = Started
    BY <1>1, StartedMoves
  <2> QED BY <1>1, <2>1 DEF Places
<1>8. Ending'
  BY <1>1 DEF Ending, PagesInFlight
<1>9. Keeps
  BY <1>1 DEF Keeps
<1> QED BY <1>5, <1>6, <1>7, <1>8, <1>9

-----------------------------------------------------------------------------
(* Steps of the loop.                                                        *)
LEMMA Quiet ==
  ASSUME Types, Runs, loop \in {"off", "new"}
  PROVE  runner = Idle /\ Started = {}
<1>1. runner = Idle
  BY DEF Runs, Running
<1> QED BY <1>1, IdleType DEF Started, Live, Over

LEMMA StartedSize ==
  ASSUME CrawlAssumption
  PROVE  /\ Started \in SUBSET Page /\ IsFiniteSet(Started) /\ Cardinality(Started) \in Nat
         /\ Concurrency \in Nat /\ 0 < Concurrency
<1>1. Started \in SUBSET Page
  BY DEF Started, Live, Over
<1> QED BY <1>1, SetsFinite DEF CrawlAssumption

(* A page that is claimed is queued, and nobody has it.                      *)
LEMMA ClaimedPage ==
  ASSUME IInv, MayClaim, NEW p \in Oldest
  PROVE  /\ p \in Page /\ page[p].state = "queued" /\ Running /\ loop = "turn" /\ job.status = "running"
         /\ runner[p] \notin {"fetch", "embed", "embedded"} /\ \A q \in Page : Staged(q)
<1>1. p \in Page /\ page[p].state = "queued" /\ loop = "turn" /\ job.status = "running"
  BY DEF MayClaim, Oldest, Queued, NothingLeft
<1>2. Running /\ \A q \in Page : Staged(q)
  BY <1>1 DEF IInv, Runs, Running
<1> QED BY <1>1, <1>2 DEF Staged

LEMMA TurnIInv ==
  ASSUME CrawlAssumption, IInv, SkipOverflow \/ StartRunner
  PROVE  IInv' /\ Keeps
<1> USE DEF IInv
<1>j. job \in JobRecords /\ page \in Pages
  BY DEF Types
<1>1. PICK p \in Oldest, state \in {"skipped", "fetching"}, reason \in Reasons :
        /\ MayClaim /\ page' = Moved(page, p, state, reason)
        /\ \/ SkipOverflow /\ state = "skipped"
           \/ StartRunner /\ state = "fetching" /\ runner' = [runner EXCEPT ![p] = "fetch"]
  <2>1. CASE SkipOverflow
    BY <2>1, Names DEF SkipOverflow
  <2>2. CASE StartRunner
    BY <2>2, Names DEF StartRunner
  <2> QED BY <2>1, <2>2
<1>2. /\ p \in Page /\ page[p].state = "queued" /\ Running /\ loop = "turn" /\ job.status = "running"
      /\ runner[p] \notin {"fetch", "embed", "embedded"} /\ \A q \in Page : Staged(q)
  BY <1>1, ClaimedPage
<1>3. page' \in Pages /\ page'[p].state = state /\ \A q \in Page \ {p} : page'[q] = page[q]
  <2>1. state \in PageStates
    BY Names
  <2> QED BY <1>j, <1>1, <1>2, <2>1, MovedType
<1>4. Keeps
  BY <1>2, <1>3 DEF Keeps, SettledPages, Settled
<1>5. CASE SkipOverflow
  <2>1. job' = Bumped(job, "skipped", 1) /\ file' = file /\ loop' = loop /\ runner' = runner
        /\ pending' = pending /\ count' = count /\ state = "skipped"
    BY <1>1, <1>5 DEF SkipOverflow, StartRunner, TooMany, admin
  <2>2. job' \in JobRecords /\ job'.status = job.status
    BY <1>j, <2>1, BumpedType, Names
  <2>3. Types'
    BY <1>3, <2>1, <2>2 DEF Types, Pages
  <2>4. Runs'
    BY <1>2, <1>3, <2>1 DEF Runs, Running, Staged
  <2>5. Places'
    BY <2>1 DEF Places, Started, Live, Over
  <2>6. Ending'
    BY <1>2, <2>1, <2>2 DEF Ending
  <2> QED BY <1>4, <2>3, <2>4, <2>5, <2>6
<1>6. CASE StartRunner
  <2>1. /\ job' = job /\ file' = file /\ pending' = pending /\ count' = count
        /\ loop' = IF Enough(Cardinality(Live \cup Over) + 1) THEN "wait" ELSE "turn"
    BY <1>6 DEF StartRunner, admin
  <2>2. state = "fetching" /\ runner' = [runner EXCEPT ![p] = "fetch"]
    BY <1>1, <1>6 DEF SkipOverflow, StartRunner
  <2>3. runner' \in [Page -> Runners] /\ runner'[p] = "fetch" /\ \A q \in Page \ {p} : runner'[q] = runner[q]
    BY <1>2, <2>2 DEF Types, Runners
  <2>4. Types'
    BY <1>3, <2>1, <2>3 DEF Types, Pages, Loops
  <2>5. Runs'
    <3>1. Running'
      BY <2>1 DEF Running
    <3>2. \A q \in Page : Staged(q)'
      BY <1>2, <1>3, <2>2, <2>3 DEF Staged
    <3> QED BY <3>1, <3>2 DEF Runs
  <2>6. Places'
    <3>1. Started' = Started \cup {p}
      BY <1>2, <2>3 DEF Started, Live, Over
    <3>2. Cardinality(Started') <= Cardinality(Started) + 1 /\ Cardinality(Started') \in Nat
      <4>1. IsFiniteSet(Started') /\ Cardinality(Started') =
              IF p \in Started THEN Cardinality(Started) ELSE Cardinality(Started) + 1
        BY <3>1, StartedSize, FS_AddElement
      <4> QED BY <4>1, StartedSize, FS_CardinalityType
    <3>3. Cardinality(Started) < Concurrency
      BY <1>2 DEF Places
    <3>4. loop' = "turn" => Cardinality(Started) + 1 < Concurrency
      BY <2>1, StartedSize DEF Enough, Started
    <3> QED BY <2>1, <3>2, <3>3, <3>4, StartedSize DEF Places
  <2>7. Ending'
    BY <1>2, <2>1 DEF Ending
  <2> QED BY <1>4, <2>4, <2>5, <2>6, <2>7
<1> QED BY <1>5, <1>6

LEMMA StartIInv ==
  ASSUME CrawlAssumption, IInv, Supervise \/ StartRefused \/ StartJob
  PROVE  IInv' /\ Keeps
<1> USE DEF IInv
<1>1. loop \in {"off", "new"} /\ file' = file /\ runner' = runner /\ pending' = pending /\ count' = count
  BY DEF Supervise, StartRefused, StartJob, admin, db
<1>2. runner = Idle /\ Started = {} /\ Started' = {}
  <2>1. runner = Idle /\ Started = {}
    BY <1>1, Quiet
  <2> QED BY <1>1, <2>1 DEF Started, Live, Over
<1>3. Cardinality(Started') = 0
  BY <1>2, FS_EmptySet
<1>4. Places'
  BY <1>2, <1>3, StartedSize DEF Places
<1>5. CASE Supervise \/ StartRefused
  <2>1. job' = job /\ page' = page /\ loop' \in {"off", "new"}
        /\ (loop' = "new" => job.status = "running") /\ (loop' = "off" => loop = "new")
    BY <1>5 DEF Supervise, StartRefused, db
  <2>2. Types'
    BY <1>1, <2>1 DEF Types, Loops
  <2>3. Runs'
    BY <1>1, <1>2, <2>1 DEF Runs, Running, Idle
  <2>4. Ending'
    BY <1>1, <2>1 DEF Ending, PagesInFlight
  <2> QED BY <1>4, <2>1, <2>2, <2>3, <2>4 DEF Keeps
<1>6. CASE StartJob
  <2>1. loop = "new" /\ job.status = "running" /\ loop' = "turn"
    BY <1>6 DEF StartJob
  <2>2. /\ page' \in Pages /\ \A q \in Page : page'[q].state \notin {"fetching", "embedding"}
        /\ job' \in JobRecords /\ job'.status = job.status /\ Keeps
    <3>1. CASE Table # {} /\ page' = Reset /\ job' = job
      <4>1. Reset \in Pages
        BY ResetType
      <4>2. \A q \in Page : IF page[q].state \in InFlight THEN Reset[q].state = "queued" ELSE Reset[q] = page[q]
        BY ResetType
      <4>3. Keeps
        BY <3>1, <4>2 DEF Keeps, SettledPages, Settled, InFlight
      <4>4. \A q \in Page : page'[q].state \notin {"fetching", "embedding"}
        BY <3>1, <4>2 DEF InFlight
      <4> QED BY <3>1, <4>1, <4>3, <4>4 DEF Types
    <3>2. CASE Table = {} /\ page' = Seeded /\ job' = Bumped(job, "total", 1)
      <4>1. \A q \in Page : page[q].state = "none"
        BY <3>2 DEF Table
      <4>2. Seeded \in Pages /\ Seeded[Seed].state = "queued" /\ \A q \in Page \ {Seed} : Seeded[q] = page[q]
        BY SeededType
      <4>3. \A q \in Page : page'[q].state \in {"none", "queued"}
        BY <3>2, <4>1, <4>2
      <4>4. job' \in JobRecords /\ job'.status = job.status
        <5>1. job \in JobRecords
          BY DEF Types
        <5> QED BY <3>2, <5>1, BumpedType, Names
      <4>5. Keeps
        BY <4>1 DEF Keeps, SettledPages, Settled
      <4> QED BY <3>2, <4>2, <4>3, <4>4, <4>5
    <3> QED BY <1>6, <3>1, <3>2 DEF StartJob
  <2>3. Types'
    BY <1>1, <2>1, <2>2 DEF Types, Pages, Loops
  <2>4. Runs'
    <3>1. \A q \in Page : runner'[q] = "off"
      BY <1>1, <1>2, IdleType
    <3>2. \A q \in Page : Staged(q)'
      BY <2>2, <3>1 DEF Staged
    <3> QED BY <2>1, <3>2 DEF Runs, Running
  <2>5. Ending'
    BY <1>1, <2>1, <2>2 DEF Ending
  <2> QED BY <1>4, <2>2, <2>3, <2>4, <2>5
<1> QED BY <1>5, <1>6

LEMMA WaitIInv ==
  ASSUME CrawlAssumption, IInv, LeaveLoop \/ AwaitRunner \/ Reap \/ Drain \/ Complete
  PROVE  IInv' /\ Keeps
<1> USE DEF IInv
<1>1. page' = page /\ file' = file /\ pending' = pending /\ count' = count
  BY DEF LeaveLoop, AwaitRunner, Reap, Drain, Complete, admin, db
<1>2. Keeps
  BY <1>1 DEF Keeps
<1>3. CASE LeaveLoop \/ AwaitRunner
  <2>1. job' = job /\ runner' = runner /\ loop = "turn" /\ loop' \in {"drain", "wait"}
    BY <1>3 DEF LeaveLoop, AwaitRunner, db
  <2>2. Types'
    BY <1>1, <2>1 DEF Types, Loops
  <2>3. Runs'
    BY <1>1, <2>1 DEF Runs, Running, Staged
  <2>4. Places'
    BY <2>1 DEF Places, Started, Live, Over
  <2>5. loop' = "drain" => NothingLeft
    BY <1>3 DEF LeaveLoop, AwaitRunner
  <2>6. Ending'
    BY <1>1, <2>1, <2>5 DEF Ending, NothingLeft, PagesInFlight
  <2> QED BY <1>2, <2>2, <2>3, <2>4, <2>6
<1>4. CASE Reap
  <2>1. job' = job /\ loop = "wait" /\ loop' = "turn" /\ Over # {}
        /\ runner' = [q \in Page |-> IF q \in Over THEN "off" ELSE runner[q]]
    BY <1>4 DEF Reap, db
  <2>2. \A q \in Page : runner'[q] = IF runner[q] = "over" THEN "off" ELSE runner[q]
    BY <2>1 DEF Over
  <2>3. Types'
    BY <1>1, <2>1 DEF Types, Loops, Runners
  <2>4. Runs'
    BY <1>1, <2>1, <2>2 DEF Runs, Running, Staged
  <2>5. Places'
    <3>1. Started' \in SUBSET Started /\ Started' # Started
      BY <2>1, <2>2 DEF Started, Live, Over
    <3>2. Cardinality(Started') <= Cardinality(Started) /\ Cardinality(Started') # Cardinality(Started)
      BY <3>1, StartedSize, FS_Subset
    <3>3. IsFiniteSet(Started')
      BY <3>1, StartedSize, FS_Subset
    <3>4. Cardinality(Started') \in Nat
      BY <3>3, FS_CardinalityType
    <3>5. Cardinality(Started) <= Concurrency
      BY DEF Places
    <3> QED BY <2>1, <3>2, <3>4, <3>5, StartedSize DEF Places
  <2>6. Ending'
    BY <1>1, <2>1 DEF Ending, PagesInFlight
  <2> QED BY <1>2, <2>3, <2>4, <2>5, <2>6
<1>5. CASE Drain
  <2>1. job' = job /\ loop = "drain" /\ Live = {} /\ runner' = Idle
        /\ loop' = IF job.status = "running" THEN "finish" ELSE "off"
    BY <1>5 DEF Drain, db
  <2>2. Types'
    BY <1>1, <2>1, IdleType DEF Types, Loops
  <2>3. Runs'
    <3>1. \A q \in Page : Staged(q)
      BY <2>1 DEF Runs, Running
    <3>2. \A q \in Page : Staged(q)'
      BY <1>1, <2>1, <3>1, IdleType DEF Staged, Live
    <3> QED BY <2>1, <3>2 DEF Runs, Running, Idle
  <2>4. Started' = {}
    BY <2>1, IdleType DEF Started, Live, Over
  <2>5. Places'
    BY <2>1, <2>4, FS_EmptySet, StartedSize DEF Places
  <2>6. Ending'
    BY <1>1, <2>1 DEF Ending, PagesInFlight
  <2> QED BY <1>2, <2>2, <2>3, <2>5, <2>6
<1>6. CASE Complete
  <2>1. job' = [job EXCEPT !.status = "completed"] /\ loop = "finish" /\ loop' = "off" /\ runner' = runner
    BY <1>6 DEF Complete
  <2>2. Types'
    BY <1>1, <2>1 DEF Types, Loops, JobRecords, Terminal
  <2>3. Places'
    BY <2>1 DEF Places, Started, Live, Over
  <2>4. Ending'
    BY <1>1, <2>1 DEF Ending, PagesInFlight
  <2>5. Runs'
    <3>1. \A q \in Page : runner[q] = "off"
      BY <2>1 DEF Places, Started, Live, Over, Types, Runners
    <3>2. runner = Idle
      BY <3>1 DEF Types, Idle
    <3> QED BY <2>1, <3>2 DEF Runs, Running, Idle
  <2> QED BY <1>2, <2>2, <2>3, <2>4, <2>5
<1> QED BY <1>3, <1>4, <1>5, <1>6

-----------------------------------------------------------------------------
(* Requests of admins come in threads.                                       *)
LEMMA HappensCount ==
  ASSUME Types, NEW e \in Events, Happens(e)
  PROVE  /\ count' \in [Events -> Nat]
         /\ count'["running"] = 0 => count["running"] = 0 /\ e # "running"
<1>1. count' = [count EXCEPT ![e] = count[e] + 1]
  BY DEF Happens
<1>2. "running" \in Events
  BY DEF Events, Transitions
<1>3. count[e] \in Nat /\ count["running"] \in Nat
  BY <1>2 DEF Types
<1> QED BY <1>1, <1>2, <1>3 DEF Types

LEMMA AdminIInv ==
  ASSUME CrawlAssumption, IInv,
         \/ \E t \in Transitions : AskTransition(t) \/ WriteTransition(t)
         \/ \E f \in File : DeleteFile(f)
  PROVE  IInv' /\ Keeps
<1> USE DEF IInv
<1>1. page' = page /\ loop' = loop /\ runner' = runner
  BY DEF AskTransition, WriteTransition, DeleteFile, db
<1>2. Keeps
  BY <1>1 DEF Keeps
<1>3. Runs'
  BY <1>1 DEF Runs, Running, Staged, Idle
<1>4. Places'
  BY <1>1 DEF Places, Started, Live, Over
<1>5. Transitions \subseteq Events /\ "delete" \in Events
  BY DEF Events
<1>6. ASSUME NEW t \in Transitions, AskTransition(t)
      PROVE  Types' /\ Ending'
  <2>1. job' = job /\ file' = file /\ pending' = pending \cup {t} /\ Happens(t)
    BY <1>6 DEF AskTransition, db
  <2>2. count' \in [Events -> Nat] /\ (count'["running"] = 0 => count["running"] = 0 /\ t # "running")
    BY <1>5, <2>1, HappensCount
  <2>3. Types'
    BY <1>1, <2>1, <2>2 DEF Types
  <2>4. Ending'
    BY <1>1, <2>1, <2>2 DEF Ending, PagesInFlight
  <2> QED BY <2>3, <2>4
<1>7. ASSUME NEW t \in Transitions, WriteTransition(t)
      PROVE  Types' /\ Ending'
  <2>1. job' = [job EXCEPT !.status = t] /\ file' = file /\ t \in pending /\ pending' = pending \ {t}
        /\ count' = count
    BY <1>7 DEF WriteTransition
  <2>2. job' \in JobRecords /\ job'.status = t
    BY <2>1 DEF Types, JobRecords, Transitions, Terminal
  <2>3. Types'
    BY <1>1, <2>1, <2>2 DEF Types
  <2>4. t \in {"running", "paused", "cancelled"}
    BY DEF Transitions
  <2>5. Ending'
    BY <1>1, <2>1, <2>2, <2>4 DEF Ending, PagesInFlight
  <2> QED BY <2>3, <2>5
<1>8. ASSUME NEW f \in File, DeleteFile(f)
      PROVE  Types' /\ Ending'
  <2>1. job' = job /\ file' = [file EXCEPT ![f] = NoFile] /\ pending' = pending /\ Happens("delete")
    BY <1>8 DEF DeleteFile
  <2>2. count' \in [Events -> Nat] /\ (count'["running"] = 0 => count["running"] = 0)
    BY <1>5, <2>1, HappensCount
  <2>3. Types'
    BY <1>1, <2>1, <2>2 DEF Types, FileStates, NoFile
  <2>4. Ending'
    BY <1>1, <2>1, <2>2 DEF Ending, PagesInFlight
  <2> QED BY <2>3, <2>4
<1> QED BY <1>2, <1>3, <1>4, <1>6, <1>7, <1>8

-----------------------------------------------------------------------------
(* A crash: whatever was written, the job has the status it had, and pages were
   written only while the loop lived.                                        *)
LEMMA DeadIInv ==
  ASSUME CrawlAssumption, IInv, Die, page' \in Pages, job' \in JobRecords, job'.status = job.status, file' = file,
         page' = page \/ loop # "off"
  PROVE  IInv'
<1> USE DEF IInv
<1>1. loop' = "off" /\ runner' = Idle /\ pending' = {} /\ Happens("crash")
  BY DEF Die
<1>2. count' \in [Events -> Nat] /\ (count'["running"] = 0 => count["running"] = 0)
  BY <1>1, HappensCount DEF Events
<1>3. Types'
  BY <1>1, <1>2, IdleType DEF Types, Pages, Loops
<1>4. Runs'
  BY <1>1 DEF Runs, Running, Idle
<1>5. Started' = {}
  BY <1>1, IdleType DEF Started, Live, Over
<1>6. Places'
  BY <1>1, <1>5, FS_EmptySet, StartedSize DEF Places
<1>7. Ending'
  BY <1>1, <1>2 DEF Ending, PagesInFlight
<1> QED BY <1>3, <1>4, <1>6, <1>7

LEMMA CrashIInv == ASSUME CrawlAssumption, IInv, Crash PROVE IInv' /\ Keeps
<1>1. Die /\ page' = page /\ job' = job /\ file' = file
  BY DEF Crash, db
<1>2. page \in Pages /\ job \in JobRecords
  BY DEF IInv, Types
<1> QED BY <1>1, <1>2, DeadIInv DEF Keeps

LEMMA CrashAddingIInv == ASSUME CrawlAssumption, IInv, CrashAdding PROVE IInv' /\ Keeps
<1>1. Die /\ file' = file /\ Types /\ Runs /\ page \in Pages /\ job \in JobRecords
  BY DEF CrashAdding, IInv, Types
<1>2. CASE loop = "new" /\ Table = {} /\ page' = Seeded /\ job' = job
  <2>1. page' \in Pages
    BY <1>1, <1>2, SeededType
  <2>2. Keeps
    BY <1>2 DEF Keeps, SettledPages, Settled, Table
  <2> QED BY <1>1, <1>2, <2>1, <2>2, DeadIInv
<1>3. ASSUME NEW p \in Page, NEW n \in 1 .. Len(Links[p]), NEW lost \in {0, 1},
             runner[p] = "fetch", page' = Added(p, NewLinks(p, n)),
             job' = Bumped(job, "total", Cardinality(NewLinks(p, n)) - lost)
      PROVE  IInv' /\ Keeps
  <2>1. n \in 0 .. Len(Links[p])
    BY DEF CrawlAssumption
  <2>2. NewLinks(p, n) \in SUBSET (Page \ Table) /\ Cardinality(NewLinks(p, n)) \in Nat
    BY <1>1, <2>1, NewLinksType
  <2>3. Cardinality(NewLinks(p, n)) - lost \in Amounts
    BY <2>2 DEF Amounts
  <2>4. job' \in JobRecords /\ job'.status = job.status
    BY <1>1, <1>3, <2>3, BumpedType, Names
  <2>5. page' \in Pages /\ \A q \in Page \ NewLinks(p, n) : page'[q] = page[q]
    BY <1>1, <1>3, <2>2, AddedType
  <2>6. \A q \in NewLinks(p, n) : page[q].state = "none"
    BY <2>2 DEF Table
  <2>7. Keeps
    BY <2>5, <2>6 DEF Keeps, SettledPages, Settled
  <2>8. loop # "off"
    BY <1>1, <1>3, RunnerLives DEF Running
  <2> QED BY <1>1, <2>4, <2>5, <2>7, <2>8, DeadIInv
<1> QED BY <1>2, <1>3 DEF CrashAdding

LEMMA CrashSettlingIInv == ASSUME CrawlAssumption, IInv, CrashSettling PROVE IInv' /\ Keeps
<1>1. Die /\ file' = file /\ job' = job /\ Types /\ Runs /\ page \in Pages /\ job \in JobRecords
  BY DEF CrashSettling, IInv, Types
<1>2. PICK p \in Page, outcome \in Settled, reason \in Reasons :
        /\ page' = Moved(page, p, outcome, reason)
        /\ (MayClaim /\ p \in Oldest) \/ runner[p] = "embedded" \/ runner[p] = "fetch"
  <2>1. Oldest \subseteq Page
    BY DEF Oldest, Queued
  <2>2. CASE MayClaim /\ \E p \in Oldest : page' = Moved(page, p, "skipped", "max pages")
    BY <2>1, <2>2, Names
  <2>3. CASE \E p \in Page : /\ runner[p] = "embedded"
                             /\ page' = Moved(page, p, Outcome(p), "")
    BY <2>3, Names DEF Outcome
  <2>4. CASE \E p \in Page : runner[p] = "fetch" /\ page' = Moved(page, p, "skipped", "unfit")
    BY <2>4, Names
  <2> QED BY <2>2, <2>3, <2>4 DEF CrashSettling
<1>3. page' \in Pages /\ \A q \in Page \ {p} : page'[q] = page[q]
  BY <1>1, <1>2, Finishing
<1>4. loop # "off" /\ page[p].state \in {"queued", "fetching", "embedding"}
  <2>1. CASE MayClaim /\ p \in Oldest
    BY <2>1, ClaimedPage
  <2>2. CASE runner[p] \in {"embedded", "fetch"}
    BY <1>1, <2>2, RunnerLives DEF Running, Staged
  <2> QED BY <1>2, <2>1, <2>2
<1>5. Keeps
  BY <1>3, <1>4 DEF Keeps, SettledPages, Settled
<1> QED BY <1>1, <1>3, <1>4, <1>5, DeadIInv

-----------------------------------------------------------------------------
LEMMA StepIInv == ASSUME CrawlAssumption, IInv, [Next]_vars PROVE IInv' /\ (Keeps \/ UNCHANGED vars)
<1>1. CASE Worker
  BY <1>1, TurnIInv, StartIInv, WaitIInv DEF Worker
<1>2. ASSUME NEW p \in Page, Runner(p) PROVE IInv' /\ Keeps
  BY <1>2, RunnerIInv, EmbedIInv
<1>3. CASE \/ \E t \in Transitions : AskTransition(t) \/ WriteTransition(t)
           \/ \E f \in File : DeleteFile(f)
  BY <1>3, AdminIInv
<1>4. CASE Crash \/ CrashAdding \/ CrashSettling
  BY <1>4, CrashIInv, CrashAddingIInv, CrashSettlingIInv
<1>5. CASE UNCHANGED vars
  BY <1>5 DEF vars, db, admin, IInv, Types, Runs, Running, Staged, Idle, Places, Started, Live, Over, Ending, PagesInFlight
<1> QED BY <1>1, <1>2, <1>3, <1>4, <1>5 DEF Next

LEMMA IInvImplies == ASSUME CrawlAssumption, IInv PROVE NoPageLeftBehind
<1> USE DEF IInv
<1>1. Live \in SUBSET Started
  BY DEF Started
<1>2. Cardinality(Live) <= Concurrency
  <2>1. Cardinality(Live) <= Cardinality(Started) /\ IsFiniteSet(Live)
    BY <1>1, StartedSize, FS_Subset
  <2> QED BY <2>1, StartedSize, FS_CardinalityType DEF Places
<1> QED BY <1>2 DEF NoPageLeftBehind, Runs, Running, Staged, Ending

(* Whatever the site, the budget and the concurrency, and however often admins
   interfere and the process dies: while the loop lives the pages in flight are
   those of its runners, and a job that nobody resumed completes only when every
   page it found is settled.                                                 *)
THEOREM NoneLeftBehind == ASSUME CrawlAssumption PROVE Spec => []NoPageLeftBehind
<1>1. Init => IInv
  BY InitIInv
<1>2. IInv /\ [Next]_vars => IInv'
  BY StepIInv
<1>3. IInv => NoPageLeftBehind
  BY IInvImplies
<1> QED BY <1>1, <1>2, <1>3, PTL DEF Spec

(* A page is settled once.                                                   *)
THEOREM SettledOnce == ASSUME CrawlAssumption PROVE Spec => SettledStays
<1>1. Init => IInv
  BY InitIInv
<1>2. IInv /\ [Next]_vars => IInv'
  BY StepIInv
<1>3. IInv /\ [Next]_vars => [\A p \in SettledPages : page'[p] = page[p]]_vars
  BY StepIInv DEF Keeps
<1> QED BY <1>1, <1>2, <1>3, PTL DEF Spec, SettledStays
-----------------------------------------------------------------------------
(* The books of a job: its counters and the pages that they count.           *)
Listed(pages) == {p \in Page : pages[p].state # "none"}
In(pages, s) == {p \in Page : pages[p].state = s}
Size(pages, s) == Cardinality(In(pages, s))
Taken(pages) == {p \in Page : pages[p].state \notin {"none", "queued"} /\ pages[p].reason # "max pages"}

(* No counter runs ahead, and all together they lag behind by `lag'.         *)
Balance(total, done, skipped, failed, pages, ofDone, ofSkipped, ofFailed, lag) ==
  /\ total <= pages /\ done <= ofDone /\ skipped <= ofSkipped /\ failed <= ofFailed
  /\ pages + ofDone + ofSkipped + ofFailed <= total + done + skipped + failed + lag

Follows(j, pages, lag) ==
  /\ j \in Jobs
  /\ Balance(j.total, j.done, j.skipped, j.failed, Cardinality(Listed(pages)),
             Size(pages, "done"), Size(pages, "skipped"), Size(pages, "failed"), lag)

(* Rows are numbered in the order of insertion, and only a page that is      *)
(* skipped may say "max pages".                                              *)
Numbered(pages) ==
  /\ \A p \in Page :
       pages[p].id \in IF p \in Listed(pages) THEN 1 .. Cardinality(Listed(pages)) ELSE {0}
  /\ \A p, q \in Listed(pages) : pages[p].id = pages[q].id => p = q
  /\ \A p \in Page : pages[p].reason = "max pages" => pages[p].state = "skipped"

Lost == count["crash"]
Tally ==
  /\ Follows(job, page, Lost) /\ Numbered(page)
  /\ Cardinality(Taken(page)) <= MaxPages + Lost

LEMMA Sizes ==
  ASSUME CrawlAssumption, NEW pages
  PROVE  /\ Listed(pages) \in SUBSET Page /\ IsFiniteSet(Listed(pages))
         /\ Cardinality(Listed(pages)) \in Nat
         /\ Taken(pages) \in SUBSET Listed(pages) /\ IsFiniteSet(Taken(pages))
         /\ Cardinality(Taken(pages)) \in Nat
         /\ Cardinality(Taken(pages)) <= Cardinality(Listed(pages))
         /\ \A s : IsFiniteSet(In(pages, s)) /\ Size(pages, s) \in Nat
<1>1. Listed(pages) \in SUBSET Page /\ Taken(pages) \in SUBSET Listed(pages)
  BY DEF Listed, Taken
<1>2. \A s : In(pages, s) \in SUBSET Page
  BY DEF In
<1>3. IsFiniteSet(Listed(pages)) /\ Cardinality(Listed(pages)) \in Nat
  BY <1>1, SetsFinite
<1>4. /\ IsFiniteSet(Taken(pages)) /\ Cardinality(Taken(pages)) \in Nat
      /\ Cardinality(Taken(pages)) <= Cardinality(Listed(pages))
  <2>1. Taken(pages) \in SUBSET Page
    BY <1>1
  <2> QED BY <1>1, <1>3, <2>1, SetsFinite, FS_Subset
<1>5. \A s : IsFiniteSet(In(pages, s)) /\ Size(pages, s) \in Nat
  BY <1>2, SetsFinite DEF Size
<1> QED BY <1>1, <1>3, <1>4, <1>5

(* Accounts of a job that are in balance stay so when a counter follows.     *)
LEMMA Balances ==
  ASSUME NEW t \in Nat, NEW d \in Nat, NEW k \in Nat, NEW f \in Nat,
         NEW T \in Nat, NEW D \in Nat, NEW K \in Nat, NEW F \in Nat,
         NEW lag \in Nat, Balance(t, d, k, f, T, D, K, F, lag)
  PROVE  /\ Balance(t, d + 1, k, f, T, D + 1, K, F, lag) /\ Balance(t, d, k, f, T, D + 1, K, F, lag + 1)
         /\ Balance(t, d, k + 1, f, T, D, K + 1, F, lag) /\ Balance(t, d, k, f, T, D, K + 1, F, lag + 1)
         /\ Balance(t, d, k, f + 1, T, D, K, F + 1, lag) /\ Balance(t, d, k, f, T, D, K, F + 1, lag + 1)
         /\ T <= t + lag
BY DEF Balance

LEMMA BalanceAdds ==
  ASSUME NEW t \in Nat, NEW d \in Nat, NEW k \in Nat, NEW f \in Nat,
         NEW T \in Nat, NEW D \in Nat, NEW K \in Nat, NEW F \in Nat,
         NEW lag \in Nat, Balance(t, d, k, f, T, D, K, F, lag),
         NEW u \in Nat, NEW U \in Nat, NEW more \in Nat, lag <= more,
         U + t + lag = T + u + more
  PROVE  Balance(u, d, k, f, U, D, K, F, more)
BY DEF Balance

(* A counter that is bumped, and no other, has gone up.                      *)
LEMMA BumpedTotal ==
  ASSUME NEW j \in Jobs, NEW n \in Nat
  PROVE  /\ Bumped(j, "total", n) \in Jobs /\ Bumped(j, "total", n).total = j.total + n
         /\ Bumped(j, "total", n).done = j.done /\ Bumped(j, "total", n).skipped = j.skipped
         /\ Bumped(j, "total", n).failed = j.failed
BY DEF Jobs, Bumped

LEMMA BumpedDone ==
  ASSUME NEW j \in Jobs
  PROVE  /\ Bumped(j, "done", 1) \in Jobs /\ Bumped(j, "done", 1).total = j.total
         /\ Bumped(j, "done", 1).done = j.done + 1
         /\ Bumped(j, "done", 1).skipped = j.skipped /\ Bumped(j, "done", 1).failed = j.failed
BY DEF Jobs, Bumped

LEMMA BumpedSkipped ==
  ASSUME NEW j \in Jobs
  PROVE  /\ Bumped(j, "skipped", 1) \in Jobs /\ Bumped(j, "skipped", 1).total = j.total
         /\ Bumped(j, "skipped", 1).skipped = j.skipped + 1
         /\ Bumped(j, "skipped", 1).done = j.done /\ Bumped(j, "skipped", 1).failed = j.failed
BY DEF Jobs, Bumped

LEMMA BumpedFailed ==
  ASSUME NEW j \in Jobs
  PROVE  /\ Bumped(j, "failed", 1) \in Jobs /\ Bumped(j, "failed", 1).total = j.total
         /\ Bumped(j, "failed", 1).failed = j.failed + 1
         /\ Bumped(j, "failed", 1).done = j.done /\ Bumped(j, "failed", 1).skipped = j.skipped
BY DEF Jobs, Bumped

LEMMA JobNumbers ==
  ASSUME NEW j \in Jobs
  PROVE  /\ j.total \in Nat /\ j.done \in Nat /\ j.skipped \in Nat /\ j.failed \in Nat
         /\ j.status \in {"running", "paused"} \cup Terminal
BY DEF Jobs

(* Links that are new to the table get numbers of their own, above the rest. *)
Linked(p) == {Links[p][i] : i \in DOMAIN Links[p]}

LEMMA UpToFinite ==
  ASSUME CrawlAssumption, NEW p \in Page, NEW new \in SUBSET Page, NEW q
  PROVE  UpTo(p, new, q) \in SUBSET new /\ Cardinality(UpTo(p, new, q)) \in Nat
<1>1. UpTo(p, new, q) \in SUBSET new
  BY DEF UpTo
<1> QED BY <1>1, SetsFinite

LEMMA UpToGrows ==
  ASSUME CrawlAssumption, NEW p \in Page, NEW new \in SUBSET Page,
         NEW i \in DOMAIN Links[p], NEW j \in DOMAIN Links[p], i < j,
         Links[p][i] \in new, Links[p][j] \in new
  PROVE  Cardinality(UpTo(p, new, Links[p][i])) # Cardinality(UpTo(p, new, Links[p][j]))
<1> DEFINE few == UpTo(p, new, Links[p][i])
           many == UpTo(p, new, Links[p][j])
<1>1. /\ DOMAIN Links[p] \subseteq Int
      /\ \A k, l \in DOMAIN Links[p] : Links[p][k] = Links[p][l] => k = l
  BY DEF CrawlAssumption, IsInjective
<1>2. few \subseteq many
  <2> SUFFICES ASSUME NEW r \in few PROVE r \in many
    OBVIOUS
  <2>1. PICK k \in DOMAIN Links[p], l \in DOMAIN Links[p] :
          k <= l /\ Links[p][k] = r /\ Links[p][l] = Links[p][i]
    BY DEF UpTo
  <2>2. l = i /\ k <= j
    BY <1>1, <2>1
  <2> QED BY <2>1, <2>2 DEF UpTo
<1>3. Links[p][j] \in many /\ Links[p][j] \notin few
  <2>1. Links[p][j] \in many
    BY <1>1 DEF UpTo
  <2>2. ASSUME Links[p][j] \in few PROVE FALSE
    <3>1. PICK k \in DOMAIN Links[p], l \in DOMAIN Links[p] :
            k <= l /\ Links[p][k] = Links[p][j] /\ Links[p][l] = Links[p][i]
      BY <2>2 DEF UpTo
    <3>2. k = j /\ l = i
      BY <1>1, <3>1
    <3> QED BY <1>1, <3>1, <3>2
  <2> QED BY <2>1, <2>2
<1>4. many \in SUBSET Page
  BY UpToFinite
<1>5. IsFiniteSet(many)
  BY <1>4, SetsFinite
<1> HIDE DEF few, many
<1>6. few \in SUBSET many /\ few # many
  BY <1>2, <1>3
<1>7. Cardinality(few) # Cardinality(many)
  BY <1>5, <1>6, FS_Subset
<1> QED BY <1>7 DEF few, many

LEMMA UpToNumbers ==
  ASSUME CrawlAssumption, NEW p \in Page, NEW new \in SUBSET Page, new \subseteq Linked(p)
  PROVE  /\ \A q \in new : Cardinality(UpTo(p, new, q)) \in 1 .. Cardinality(new)
         /\ \A q, r \in new :
              Cardinality(UpTo(p, new, q)) = Cardinality(UpTo(p, new, r)) => q = r
<1>0. DOMAIN Links[p] \subseteq Int
  BY DEF CrawlAssumption
<1>1. ASSUME NEW q \in new PROVE Cardinality(UpTo(p, new, q)) \in 1 .. Cardinality(new)
  <2>1. q \in UpTo(p, new, q)
    <3>1. PICK i \in DOMAIN Links[p] : Links[p][i] = q
      BY DEF Linked
    <3> QED BY <1>0, <3>1 DEF UpTo
  <2>2. IsFiniteSet(new) /\ Cardinality(new) \in Nat
    BY SetsFinite
  <2>3. /\ UpTo(p, new, q) \in SUBSET new /\ Cardinality(UpTo(p, new, q)) \in Nat
    BY UpToFinite
  <2>4. /\ IsFiniteSet(UpTo(p, new, q)) /\ Cardinality(UpTo(p, new, q)) <= Cardinality(new)
    BY <2>2, <2>3, FS_Subset
  <2>5. Cardinality(UpTo(p, new, q)) # 0
    BY <2>1, <2>4, FS_EmptySet
  <2> QED BY <2>2, <2>3, <2>4, <2>5
<1>2. ASSUME NEW q \in new, NEW r \in new, q # r
      PROVE  Cardinality(UpTo(p, new, q)) # Cardinality(UpTo(p, new, r))
  <2>1. PICK i \in DOMAIN Links[p] : Links[p][i] = q
    BY DEF Linked
  <2>2. PICK k \in DOMAIN Links[p] : Links[p][k] = r
    BY DEF Linked
  <2>3. i < k \/ k < i
    BY <1>0, <1>2, <2>1, <2>2
  <2> QED BY <2>1, <2>2, <2>3, UpToGrows
<1> QED BY <1>1, <1>2

LEMMA AddedRows ==
  ASSUME CrawlAssumption, Types, NEW p \in Page, NEW new \in SUBSET (Page \ Table), NEW q \in Page
  PROVE  /\ q \in new =>
              /\ Added(p, new)[q].id = Cardinality(Table) + Cardinality(UpTo(p, new, q))
              /\ Added(p, new)[q].state = "queued" /\ Added(p, new)[q].reason = ""
         /\ q \notin new => Added(p, new)[q] = page[q]
BY DEF Added

LEMMA AddedBooks ==
  ASSUME CrawlAssumption, Types, Numbered(page), NEW p \in Page,
         NEW new \in SUBSET (Page \ Table), new \subseteq Linked(p)
  PROVE  /\ Cardinality(Listed(Added(p, new))) = Cardinality(Listed(page)) + Cardinality(new)
         /\ \A s \in Settled : Size(Added(p, new), s) = Size(page, s)
         /\ Taken(Added(p, new)) = Taken(page)
         /\ Numbered(Added(p, new))
<1> DEFINE pages == Added(p, new)
           T == Cardinality(Listed(page))
           N == Cardinality(new)
<1>0. Table = Listed(page)
  BY DEF Table, Listed
<1>1. \A q \in Page : IF q \in new THEN /\ pages[q].id = T + Cardinality(UpTo(p, new, q))
                                        /\ pages[q].state = "queued" /\ pages[q].reason = ""
                                   ELSE pages[q] = page[q]
  <2> SUFFICES ASSUME NEW q \in Page
               PROVE  IF q \in new THEN /\ pages[q].id = T + Cardinality(UpTo(p, new, q))
                                        /\ pages[q].state = "queued" /\ pages[q].reason = ""
                                   ELSE pages[q] = page[q]
    OBVIOUS
  <2>1. /\ q \in new => /\ pages[q].id = Cardinality(Table) + Cardinality(UpTo(p, new, q))
                        /\ pages[q].state = "queued" /\ pages[q].reason = ""
        /\ q \notin new => pages[q] = page[q]
    BY AddedRows, ZenonT(30)
  <2> HIDE DEF pages
  <2> QED BY <1>0, <2>1
<1>2. \A q \in new : page[q].state = "none"
  BY DEF Table
<1> HIDE DEF pages
<1>3. Listed(pages) = Listed(page) \cup new
  BY <1>0, <1>1 DEF Listed
<1>4. IsFiniteSet(new) /\ N \in Nat /\ IsFiniteSet(Listed(page)) /\ T \in Nat
  BY Sizes, SetsFinite
<1>5. Cardinality(Listed(pages)) = T + N
  <2>1. Listed(page) \cap new = {}
    BY <1>0
  <2>2. Cardinality(Listed(page) \cap new) = 0
    BY <2>1, FS_EmptySet
  <2>3. Cardinality(Listed(page) \cup new) = T + N - Cardinality(Listed(page) \cap new)
    BY <1>4, FS_Union
  <2> QED BY <1>3, <1>4, <2>2, <2>3
<1>6. \A s \in Settled : In(pages, s) = In(page, s)
  BY <1>1, <1>2 DEF In, Settled
<1>7. Taken(pages) = Taken(page)
  BY <1>1, <1>2 DEF Taken
<1>8. /\ \A q \in new : Cardinality(UpTo(p, new, q)) \in 1 .. N
      /\ \A q, r \in new : Cardinality(UpTo(p, new, q)) = Cardinality(UpTo(p, new, r)) => q = r
  BY UpToNumbers
<1>9. Numbered(pages)
  <2>1. ASSUME NEW q \in Page
        PROVE  pages[q].id \in IF q \in Listed(pages) THEN 1 .. Cardinality(Listed(pages)) ELSE {0}
    <3>1. CASE q \in new
      <4>1. pages[q].id = T + Cardinality(UpTo(p, new, q)) /\ q \in Listed(pages)
        BY <1>1, <1>3, <3>1
      <4>2. Cardinality(UpTo(p, new, q)) \in 1 .. N
        BY <1>8, <3>1
      <4> HIDE DEF T, N
      <4> QED BY <1>4, <1>5, <4>1, <4>2
    <3>2. CASE q \in Listed(page)
      <4>1. pages[q].id \in 1 .. T /\ q \in Listed(pages)
        BY <1>0, <1>1, <1>3, <3>2 DEF Numbered
      <4> HIDE DEF T, N
      <4> QED BY <1>4, <1>5, <4>1
    <3>3. CASE q \notin new /\ q \notin Listed(page)
      BY <1>1, <1>3, <3>3 DEF Numbered
    <3> QED BY <3>1, <3>2, <3>3
  <2>2. ASSUME NEW q \in Listed(pages), NEW r \in Listed(pages), pages[q].id = pages[r].id
        PROVE  q = r
    <3> DEFINE up(x) == Cardinality(UpTo(p, new, x))
    <3>0. q \in Page /\ r \in Page
      BY DEF Listed
    <3>1. \A x \in new : pages[x].id = T + up(x) /\ up(x) \in 1 .. N
      BY <1>1, <1>8
    <3>2. \A x \in Listed(page) : pages[x].id \in 1 .. T /\ pages[x].id = page[x].id
      BY <1>0, <1>1, Sizes DEF Numbered
    <3>3. CASE q \in new /\ r \in new
      <4>1. T + up(q) = T + up(r) /\ up(q) \in Nat /\ up(r) \in Nat
        BY <2>2, <3>1, <3>3
      <4>2. up(q) = up(r)
        <5> HIDE DEF up, T
        <5> QED BY <1>4, <4>1
      <4> QED BY <1>8, <3>3, <4>2
    <3>4. CASE q \in Listed(page) /\ r \in Listed(page)
      BY <2>2, <3>2, <3>4 DEF Numbered
    <3>5. ASSUME NEW x \in new, NEW y \in Listed(page) PROVE pages[x].id # pages[y].id
      <4>1. pages[x].id = T + up(x) /\ up(x) \in 1 .. N /\ pages[y].id \in 1 .. T
        BY <3>1, <3>2
      <4> HIDE DEF up, T, N
      <4> QED BY <1>4, <4>1
    <3> QED BY <1>3, <2>2, <3>3, <3>4, <3>5
  <2>3. \A q \in Page : pages[q].reason = "max pages" => pages[q].state = "skipped"
    BY <1>1 DEF Numbered
  <2> QED BY <2>1, <2>2, <2>3 DEF Numbered
<1> QED BY <1>5, <1>6, <1>7, <1>9 DEF Size, pages

(* A page that is moved is listed as before, and counted if it is settled.   *)
LEMMA MovedRows ==
  ASSUME NEW pages \in Pages, NEW p \in Page, NEW s \in PageStates, NEW why \in Reasons
  PROVE  /\ Moved(pages, p, s, why)[p].id = pages[p].id
         /\ Moved(pages, p, s, why)[p].state = s
         /\ Moved(pages, p, s, why)[p].reason \in {pages[p].reason, why}
         /\ \A q \in Page \ {p} : Moved(pages, p, s, why)[q] = pages[q]
<1>1. pages[p] \in [id: Nat, state: PageStates, depth: Nat, reason: Reasons]
  BY DEF Pages, Rows
<1> QED BY <1>1 DEF Moved, Pages

(* What a page that is moved may say. *)
Told(s) == IF s = "skipped" THEN Reasons ELSE Reasons \ {"max pages"}

LEMMA MovedBooks ==
  ASSUME CrawlAssumption, NEW pages \in Pages, Numbered(pages), NEW p \in Page,
         pages[p].state \in {"queued", "fetching", "embedding"},
         NEW s \in Settled \cup InFlight, NEW why \in Told(s)
  PROVE  LET moved == Moved(pages, p, s, why)
         IN  /\ Listed(moved) = Listed(pages)
             /\ \A t \in Settled : t # s => Size(moved, t) = Size(pages, t)
             /\ s \in Settled => Size(moved, s) = Size(pages, s) + 1
             /\ pages[p].state # "queued" \/ why = "max pages" =>
                  Taken(moved) \in SUBSET Taken(pages)
             /\ Numbered(moved)
<1> DEFINE moved == Moved(pages, p, s, why)
<1>1. /\ moved[p].state = s
      /\ moved[p].reason \in {pages[p].reason, why}
      /\ moved[p].id = pages[p].id
      /\ \A q \in Page \ {p} : moved[q] = pages[q]
  <2>1. s \in PageStates /\ why \in Reasons
    BY DEF Settled, InFlight, PageStates, Told
  <2> QED BY <2>1, MovedRows
<1> HIDE DEF moved
<1>2. Listed(moved) = Listed(pages)
  BY <1>1 DEF Listed, Settled, InFlight
<1>3. ASSUME NEW t \in Settled, t # s PROVE Size(moved, t) = Size(pages, t)
  <2>1. p \notin In(pages, t)
    BY DEF In, Settled
  <2>2. In(moved, t) = In(pages, t)
    BY <1>1, <1>3, <2>1 DEF In
  <2> QED BY <2>2 DEF Size
<1>4. ASSUME s \in Settled PROVE Size(moved, s) = Size(pages, s) + 1
  <2>1. p \notin In(pages, s)
    BY <1>4 DEF In, Settled
  <2>2. IsFiniteSet(In(pages, s))
    BY Sizes
  <2>3. In(moved, s) = In(pages, s) \cup {p}
    BY <1>1 DEF In
  <2>4. Cardinality(In(pages, s) \cup {p}) = Cardinality(In(pages, s)) + 1
    BY <2>1, <2>2, FS_AddElement
  <2> QED BY <2>3, <2>4 DEF Size
<1>5. pages[p].reason # "max pages"
  BY DEF Numbered, Settled
<1>6. ASSUME pages[p].state # "queued" \/ why = "max pages"
      PROVE  Taken(moved) \in SUBSET Taken(pages)
  <2>1. why = "max pages" => moved[p].reason = "max pages"
    <3>1. pages[p] \in [id: Nat, state: PageStates, depth: Nat, reason: Reasons]
      BY DEF Pages, Rows
    <3> QED BY <3>1 DEF moved, Moved, Pages
  <2> QED BY <1>1, <1>5, <1>6, <2>1 DEF Taken
<1>7. Numbered(moved)
  <2>1. \A q \in Page : moved[q].id = pages[q].id
    BY <1>1
  <2>2. \A q \in Page : moved[q].reason = "max pages" => moved[q].state = "skipped"
    BY <1>1, <1>5 DEF Numbered, Told
  <2>3. Listed(pages) \subseteq Page
    BY DEF Listed
  <2> QED BY <1>2, <2>1, <2>2, <2>3 DEF Numbered
<1> QED BY <1>2, <1>3, <1>4, <1>6, <1>7 DEF moved

LEMMA ResetBooks ==
  ASSUME Types, Numbered(page)
  PROVE  /\ Listed(Reset) = Listed(page) /\ Numbered(Reset)
         /\ \A t \in Settled : Size(Reset, t) = Size(page, t)
         /\ Taken(Reset) \in SUBSET Taken(page)
<1>1. \A q \in Page : IF page[q].state \in InFlight
                      THEN /\ Reset[q].id = page[q].id /\ Reset[q].state = "queued"
                           /\ Reset[q].reason = page[q].reason
                      ELSE Reset[q] = page[q]
  <2>1. \A q \in Page : page[q] \in [id: Nat, state: PageStates, depth: Nat, reason: Reasons]
    BY DEF Types, Pages, Rows
  <2> QED BY <2>1 DEF Reset
<1>2. Listed(Reset) = Listed(page)
  BY <1>1 DEF Listed, InFlight
<1>3. ASSUME NEW t \in Settled PROVE In(Reset, t) = In(page, t)
  BY <1>1 DEF In, InFlight, Settled
<1>4. Taken(Reset) \in SUBSET Taken(page)
  BY <1>1 DEF Taken
<1>5. Numbered(Reset)
  <2>1. \A q \in Page : Reset[q].id = page[q].id
    BY <1>1
  <2>2. \A q \in Page : Reset[q].reason = "max pages" => Reset[q].state = "skipped"
    BY <1>1 DEF Numbered, InFlight
  <2>3. Listed(page) \subseteq Page
    BY DEF Listed
  <2> QED BY <1>2, <2>1, <2>2, <2>3 DEF Numbered
<1> QED BY <1>2, <1>3, <1>4, <1>5 DEF Size

LEMMA SeededBooks ==
  ASSUME CrawlAssumption, Types, Numbered(page), Table = {}
  PROVE  /\ Cardinality(Listed(page)) = 0 /\ Cardinality(Listed(Seeded)) = 1 /\ Numbered(Seeded)
         /\ \A t \in Settled : Size(Seeded, t) = Size(page, t)
         /\ Taken(Seeded) \in SUBSET Taken(page)
<1>1. Seed \in Page /\ \A q \in Page : page[q].state = "none"
  BY DEF CrawlAssumption, Table
<1>2. /\ Seeded[Seed].id = 1 /\ Seeded[Seed].state = "queued" /\ Seeded[Seed].reason = ""
      /\ \A q \in Page \ {Seed} : Seeded[q] = page[q]
  BY <1>1 DEF Seeded, Types, Pages
<1>3. Listed(page) = {} /\ Listed(Seeded) = {Seed}
  BY <1>1, <1>2 DEF Listed
<1>4. Cardinality(Listed(page)) = 0 /\ Cardinality(Listed(Seeded)) = 1
  BY <1>3, FS_EmptySet, FS_Singleton
<1>5. ASSUME NEW t \in Settled PROVE In(Seeded, t) = In(page, t)
  BY <1>1, <1>2 DEF In, Settled
<1>6. Taken(Seeded) \in SUBSET Taken(page)
  BY <1>1, <1>2 DEF Taken
<1>7. Numbered(Seeded)
  <2>1. \A q \in Page \ {Seed} : page[q].id = 0 /\ page[q].reason # "max pages"
    BY <1>1, <1>3 DEF Numbered
  <2>2. /\ Seeded[Seed].id \in 1 .. 1
        /\ \A q \in Page \ {Seed} : Seeded[q].id \in {0}
    <3>1. 1 \in 1 .. 1
      OBVIOUS
    <3> QED BY <1>2, <2>1, <3>1, Zenon
  <2>3. \A q \in Page : Seeded[q].reason # "max pages"
    BY <1>2, <2>1
  <2> QED BY <1>3, <1>4, <2>2, <2>3 DEF Numbered
<1> QED BY <1>4, <1>5, <1>6, <1>7 DEF Size

-----------------------------------------------------------------------------
(* What the counters say of the pages, step by step.                         *)
LEMMA FollowsAdd ==
  ASSUME CrawlAssumption, Types, Numbered(page), NEW lag \in Nat, Follows(job, page, lag),
         NEW p \in Page, NEW new \in SUBSET (Page \ Table), new \subseteq Linked(p),
         NEW lost \in {0, 1}, lost = 1 => new # {}
  PROVE  /\ Follows(Bumped(job, "total", Cardinality(new) - lost), Added(p, new), lag + lost)
         /\ Numbered(Added(p, new)) /\ Taken(Added(p, new)) = Taken(page)
<1> DEFINE n == Cardinality(new)
           pages == Added(p, new)
           j == Bumped(job, "total", n - lost)
<1>1. /\ Cardinality(Listed(pages)) = Cardinality(Listed(page)) + n
      /\ Taken(pages) = Taken(page) /\ Numbered(pages)
  BY AddedBooks
<1>2. n \in Nat /\ Cardinality(Listed(page)) \in Nat /\ lost <= n
  <2>1. IsFiniteSet(new) /\ n \in Nat /\ Cardinality(Listed(page)) \in Nat
    BY Sizes, SetsFinite
  <2>2. lost = 1 => n # 0
    BY <2>1, FS_EmptySet
  <2> HIDE DEF n
  <2> QED BY <2>1, <2>2
<1> HIDE DEF n
<1>3. job \in Jobs /\ job.total \in Nat /\ job.done \in Nat /\ job.skipped \in Nat /\ job.failed \in Nat
  BY JobNumbers DEF Follows
<1>4. /\ j \in Jobs /\ j.total = job.total + (n - lost) /\ j.done = job.done
      /\ j.skipped = job.skipped /\ j.failed = job.failed
  <2>1. n - lost \in Nat
    BY <1>2
  <2> QED BY <1>3, <2>1, BumpedTotal, Zenon
<1>5. /\ Size(pages, "done") = Size(page, "done") /\ Size(pages, "skipped") = Size(page, "skipped")
      /\ Size(pages, "failed") = Size(page, "failed")
      /\ Size(page, "done") \in Nat /\ Size(page, "skipped") \in Nat /\ Size(page, "failed") \in Nat
  <2>1. \A s \in Settled : Size(pages, s) = Size(page, s)
    BY AddedBooks
  <2> QED BY <2>1, Names, Sizes
<1> HIDE DEF j, pages
<1>6. Balance(job.total, job.done, job.skipped, job.failed, Cardinality(Listed(page)),
              Size(page, "done"), Size(page, "skipped"), Size(page, "failed"), lag)
  BY DEF Follows
<1>7. Balance(job.total + (n - lost), job.done, job.skipped, job.failed, Cardinality(Listed(page)) + n,
              Size(page, "done"), Size(page, "skipped"), Size(page, "failed"), lag + lost)
  <2>1. PICK t \in Nat, T \in Nat, m \in Nat :
          t = job.total /\ T = Cardinality(Listed(page)) /\ m = n - lost
    BY <1>2, <1>3
  <2>2. /\ t + m \in Nat /\ T + n \in Nat /\ lag + lost \in Nat /\ lag <= lag + lost
        /\ (T + n) + t + lag = T + (t + m) + (lag + lost)
    BY <1>2, <2>1, SMTT(30)
  <2> QED BY <1>2, <1>3, <1>5, <1>6, <2>1, <2>2, BalanceAdds, ZenonT(30)
<1>8. Follows(j, pages, lag + lost)
  BY <1>1, <1>4, <1>5, <1>7 DEF Follows
<1> QED BY <1>1, <1>8 DEF j, pages, n

LEMMA FollowsMoved ==
  ASSUME CrawlAssumption, NEW pages \in Pages, Numbered(pages),
         NEW j, NEW lag \in Nat, Follows(j, pages, lag),
         NEW p \in Page, pages[p].state \in {"queued", "fetching", "embedding"},
         NEW s \in Settled \cup InFlight, NEW why \in Told(s)
  PROVE  /\ s \in InFlight => Follows(j, Moved(pages, p, s, why), lag)
         /\ s \in Settled => /\ Follows(Bumped(j, s, 1), Moved(pages, p, s, why), lag)
                             /\ Follows(j, Moved(pages, p, s, why), lag + 1)
         /\ Numbered(Moved(pages, p, s, why))
<1> DEFINE moved == Moved(pages, p, s, why)
<1>0. /\ \A t \in Settled : t # s => Size(moved, t) = Size(pages, t)
      /\ s \in Settled => Size(moved, s) = Size(pages, s) + 1
  BY MovedBooks, ZenonT(30)
<1>1. Listed(moved) = Listed(pages) /\ Numbered(moved)
  BY MovedBooks
<1> HIDE DEF moved
<1>2. j \in Jobs /\ j.total \in Nat /\ j.done \in Nat /\ j.skipped \in Nat /\ j.failed \in Nat
  BY JobNumbers DEF Follows
<1>3. /\ Cardinality(Listed(pages)) \in Nat
      /\ Size(pages, "done") \in Nat /\ Size(pages, "skipped") \in Nat /\ Size(pages, "failed") \in Nat
  BY Sizes
<1>4. Balance(j.total, j.done, j.skipped, j.failed, Cardinality(Listed(pages)),
              Size(pages, "done"), Size(pages, "skipped"), Size(pages, "failed"), lag)
  BY DEF Follows
<1> DEFINE T == Cardinality(Listed(pages))
           D == Size(pages, "done")
           K == Size(pages, "skipped")
           F == Size(pages, "failed")
<1>5. /\ Balance(j.total, j.done + 1, j.skipped, j.failed, T, D + 1, K, F, lag)
      /\ Balance(j.total, j.done, j.skipped, j.failed, T, D + 1, K, F, lag + 1)
      /\ Balance(j.total, j.done, j.skipped + 1, j.failed, T, D, K + 1, F, lag)
      /\ Balance(j.total, j.done, j.skipped, j.failed, T, D, K + 1, F, lag + 1)
      /\ Balance(j.total, j.done, j.skipped, j.failed + 1, T, D, K, F + 1, lag)
      /\ Balance(j.total, j.done, j.skipped, j.failed, T, D, K, F + 1, lag + 1)
  BY <1>2, <1>3, <1>4, Balances
<1>6. ASSUME s \in InFlight PROVE Follows(j, moved, lag)
  <2>1. Size(moved, "done") = D /\ Size(moved, "skipped") = K /\ Size(moved, "failed") = F
    BY <1>0, <1>6 DEF Settled, InFlight
  <2> QED BY <1>1, <1>2, <1>4, <2>1 DEF Follows
<1>7. ASSUME s = "done"
      PROVE  Follows(Bumped(j, s, 1), moved, lag) /\ Follows(j, moved, lag + 1)
  <2>1. Size(moved, "done") = D + 1 /\ Size(moved, "skipped") = K /\ Size(moved, "failed") = F
    BY <1>0, <1>7 DEF Settled
  <2>2. /\ Bumped(j, "done", 1) \in Jobs /\ Bumped(j, "done", 1).total = j.total
        /\ Bumped(j, "done", 1).done = j.done + 1
        /\ Bumped(j, "done", 1).skipped = j.skipped /\ Bumped(j, "done", 1).failed = j.failed
    BY <1>2, BumpedDone, Zenon
  <2>3. Follows(Bumped(j, "done", 1), moved, lag) /\ Follows(j, moved, lag + 1)
    BY <1>1, <1>2, <1>5, <2>1, <2>2 DEF Follows
  <2> QED BY <1>7, <2>3, Zenon
<1>8. ASSUME s = "skipped"
      PROVE  Follows(Bumped(j, s, 1), moved, lag) /\ Follows(j, moved, lag + 1)
  <2>1. Size(moved, "done") = D /\ Size(moved, "skipped") = K + 1 /\ Size(moved, "failed") = F
    BY <1>0, <1>8 DEF Settled
  <2>2. /\ Bumped(j, "skipped", 1) \in Jobs /\ Bumped(j, "skipped", 1).total = j.total
        /\ Bumped(j, "skipped", 1).skipped = j.skipped + 1
        /\ Bumped(j, "skipped", 1).done = j.done /\ Bumped(j, "skipped", 1).failed = j.failed
    BY <1>2, BumpedSkipped, Zenon
  <2>3. Follows(Bumped(j, "skipped", 1), moved, lag) /\ Follows(j, moved, lag + 1)
    BY <1>1, <1>2, <1>5, <2>1, <2>2 DEF Follows
  <2> QED BY <1>8, <2>3, Zenon
<1>9. ASSUME s = "failed"
      PROVE  Follows(Bumped(j, s, 1), moved, lag) /\ Follows(j, moved, lag + 1)
  <2>1. Size(moved, "done") = D /\ Size(moved, "skipped") = K /\ Size(moved, "failed") = F + 1
    BY <1>0, <1>9 DEF Settled
  <2>2. /\ Bumped(j, "failed", 1) \in Jobs /\ Bumped(j, "failed", 1).total = j.total
        /\ Bumped(j, "failed", 1).failed = j.failed + 1
        /\ Bumped(j, "failed", 1).done = j.done /\ Bumped(j, "failed", 1).skipped = j.skipped
    BY <1>2, BumpedFailed, Zenon
  <2>3. Follows(Bumped(j, "failed", 1), moved, lag) /\ Follows(j, moved, lag + 1)
    BY <1>1, <1>2, <1>5, <2>1, <2>2 DEF Follows
  <2> QED BY <1>9, <2>3, Zenon
<1>10. s \in Settled => /\ Follows(Bumped(j, s, 1), moved, lag) /\ Follows(j, moved, lag + 1)
  BY <1>7, <1>8, <1>9, Zenon DEF Settled
<1> QED BY <1>1, <1>6, <1>10 DEF moved

(* The pages of a job are no more than its counter and what was lost.        *)
LEMMA FollowsTotal ==
  ASSUME CrawlAssumption, NEW j, NEW pages, NEW lag \in Nat, Follows(j, pages, lag)
  PROVE  Cardinality(Listed(pages)) <= j.total + lag
<1>1. /\ j.total \in Nat /\ j.done \in Nat /\ j.skipped \in Nat /\ j.failed \in Nat
  BY JobNumbers DEF Follows
<1>2. /\ Cardinality(Listed(pages)) \in Nat
      /\ Size(pages, "done") \in Nat /\ Size(pages, "skipped") \in Nat /\ Size(pages, "failed") \in Nat
  BY Sizes
<1>3. Balance(j.total, j.done, j.skipped, j.failed, Cardinality(Listed(pages)),
              Size(pages, "done"), Size(pages, "skipped"), Size(pages, "failed"), lag)
  BY DEF Follows
<1> QED BY <1>1, <1>2, <1>3, Balances

LEMMA FollowsStatus ==
  ASSUME NEW j, NEW pages, NEW lag, Follows(j, pages, lag),
         NEW status \in {"running", "paused"} \cup Terminal
  PROVE  Follows([j EXCEPT !.status = status], pages, lag)
<1>1. /\ [j EXCEPT !.status = status] \in Jobs
      /\ [j EXCEPT !.status = status].total = j.total /\ [j EXCEPT !.status = status].done = j.done
      /\ [j EXCEPT !.status = status].skipped = j.skipped
      /\ [j EXCEPT !.status = status].failed = j.failed
  BY DEF Follows, Jobs
<1> QED BY <1>1 DEF Follows

(* Before the seed, after the seed, and after a recovery.                    *)
LEMMA FollowsSeed ==
  ASSUME CrawlAssumption, Types, Numbered(page), Table = {}, NEW lag \in Nat, Follows(job, page, lag)
  PROVE  /\ Follows(Bumped(job, "total", 1), Seeded, lag) /\ Follows(job, Seeded, lag + 1)
         /\ Numbered(Seeded) /\ Taken(Seeded) \in SUBSET Taken(page)
<1>1. /\ Cardinality(Listed(page)) = 0 /\ Cardinality(Listed(Seeded)) = 1 /\ Numbered(Seeded)
      /\ Taken(Seeded) \in SUBSET Taken(page)
  BY SeededBooks
<1>2. job \in Jobs /\ job.total \in Nat /\ job.done \in Nat /\ job.skipped \in Nat /\ job.failed \in Nat
  BY JobNumbers DEF Follows
<1>3. /\ Size(page, "done") \in Nat /\ Size(page, "skipped") \in Nat /\ Size(page, "failed") \in Nat
      /\ Size(Seeded, "done") = Size(page, "done") /\ Size(Seeded, "skipped") = Size(page, "skipped")
      /\ Size(Seeded, "failed") = Size(page, "failed")
  <2>1. \A t \in Settled : Size(Seeded, t) = Size(page, t)
    BY SeededBooks
  <2> QED BY <2>1, Names, Sizes
<1>4. Balance(job.total, job.done, job.skipped, job.failed, 0,
              Size(page, "done"), Size(page, "skipped"), Size(page, "failed"), lag)
  BY <1>1 DEF Follows
<1>5. /\ Bumped(job, "total", 1) \in Jobs /\ Bumped(job, "total", 1).total = job.total + 1
      /\ Bumped(job, "total", 1).done = job.done
      /\ Bumped(job, "total", 1).skipped = job.skipped /\ Bumped(job, "total", 1).failed = job.failed
  BY <1>2, BumpedTotal, Zenon
<1>6. /\ Balance(job.total + 1, job.done, job.skipped, job.failed, 1,
                 Size(page, "done"), Size(page, "skipped"), Size(page, "failed"), lag)
      /\ Balance(job.total, job.done, job.skipped, job.failed, 1,
                 Size(page, "done"), Size(page, "skipped"), Size(page, "failed"), lag + 1)
  <2>1. PICK t \in Nat : t = job.total
    BY <1>2
  <2>2. /\ 0 \in Nat /\ 1 \in Nat /\ t + 1 \in Nat /\ lag + 1 \in Nat /\ lag <= lag /\ lag <= lag + 1
        /\ 1 + t + lag = 0 + (t + 1) + lag /\ 1 + t + lag = 0 + t + (lag + 1)
    OBVIOUS
  <2>3. Balance(t, job.done, job.skipped, job.failed, 0,
                Size(page, "done"), Size(page, "skipped"), Size(page, "failed"), lag)
    BY <1>4, <2>1
  <2>4. /\ Balance(t + 1, job.done, job.skipped, job.failed, 1,
                   Size(page, "done"), Size(page, "skipped"), Size(page, "failed"), lag)
        /\ Balance(t, job.done, job.skipped, job.failed, 1,
                   Size(page, "done"), Size(page, "skipped"), Size(page, "failed"), lag + 1)
    BY <1>2, <1>3, <2>2, <2>3, BalanceAdds, ZenonT(30)
  <2> QED BY <2>1, <2>4
<1> QED BY <1>1, <1>2, <1>3, <1>5, <1>6 DEF Follows

LEMMA FollowsReset ==
  ASSUME Types, Numbered(page), NEW lag, Follows(job, page, lag)
  PROVE  Follows(job, Reset, lag) /\ Numbered(Reset) /\ Taken(Reset) \in SUBSET Taken(page)
<1>1. /\ Listed(Reset) = Listed(page) /\ Numbered(Reset)
      /\ Taken(Reset) \in SUBSET Taken(page)
  BY ResetBooks
<1>2. /\ Size(Reset, "done") = Size(page, "done") /\ Size(Reset, "skipped") = Size(page, "skipped")
      /\ Size(Reset, "failed") = Size(page, "failed")
  <2>1. \A t \in Settled : Size(Reset, t) = Size(page, t)
    BY ResetBooks
  <2> QED BY <2>1, Names
<1> QED BY <1>1, <1>2 DEF Follows

LEMMA FollowsLater ==
  ASSUME CrawlAssumption, NEW j, NEW pages, NEW lag \in Nat, Follows(j, pages, lag),
         NEW more \in Nat, lag <= more
  PROVE  Follows(j, pages, more)
<1>1. /\ j.total \in Nat /\ j.done \in Nat /\ j.skipped \in Nat /\ j.failed \in Nat
  BY JobNumbers DEF Follows
<1>2. /\ Cardinality(Listed(pages)) \in Nat
      /\ Size(pages, "done") \in Nat /\ Size(pages, "skipped") \in Nat /\ Size(pages, "failed") \in Nat
  BY Sizes
<1> DEFINE T == Cardinality(Listed(pages))
<1>3. Balance(j.total, j.done, j.skipped, j.failed, T,
              Size(pages, "done"), Size(pages, "skipped"), Size(pages, "failed"), lag)
  BY DEF Follows
<1>4. PICK t \in Nat, d \in Nat, k \in Nat, f \in Nat, D \in Nat, K \in Nat, F \in Nat :
        /\ t = j.total /\ d = j.done /\ k = j.skipped /\ f = j.failed
        /\ D = Size(pages, "done") /\ K = Size(pages, "skipped") /\ F = Size(pages, "failed")
  BY <1>1, <1>2, Zenon
<1>5. Balance(t, d, k, f, T, D, K, F, more)
  <2>1. Balance(t, d, k, f, T, D, K, F, lag)
    BY <1>3, <1>4
  <2>2. T \in Nat
    BY <1>2
  <2> HIDE DEF T
  <2> QED BY <2>1, <2>2 DEF Balance
<1> QED BY <1>4, <1>5, Zenon DEF Follows

(* A step keeps the tally if the books agree and no page is taken up.        *)
LEMMA TallyStays ==
  ASSUME CrawlAssumption, Tally, Lost \in Nat, Lost' \in Nat, Lost <= Lost',
         Follows(job', page', Lost'), Numbered(page'), Taken(page') \in SUBSET Taken(page)
  PROVE  Tally'
<1>1. Cardinality(Taken(page')) <= Cardinality(Taken(page))
  BY Sizes, FS_Subset
<1>2. Cardinality(Taken(page)) \in Nat /\ Cardinality(Taken(page')) \in Nat /\ MaxPages \in Nat
  BY Sizes DEF CrawlAssumption
<1>3. Cardinality(Taken(page')) <= MaxPages + Lost'
  BY <1>1, <1>2 DEF Tally
<1> QED BY <1>3 DEF Tally

LEMMA LostType ==
  ASSUME Types
  PROVE  /\ Lost \in Nat /\ Lost + 1 \in Nat /\ Lost <= Lost /\ Lost <= Lost + 1
         /\ Die => Lost' = Lost + 1
         /\ count' = count => Lost' = Lost
         /\ \A t \in Transitions \cup {"delete"} : Happens(t) => Lost' = Lost
<1>1. "crash" \in Events /\ Transitions \cup {"delete"} \subseteq Events \ {"crash"}
  BY DEF Events, Transitions
<1>2. \A e \in Events : Happens(e) => count' = [count EXCEPT ![e] = count[e] + 1]
  BY DEF Happens
<1>3. ASSUME Die PROVE Lost' = Lost + 1
  BY <1>1, <1>2, <1>3 DEF Die, Lost, Types
<1>4. ASSUME NEW t \in Transitions \cup {"delete"}, Happens(t) PROVE Lost' = Lost
  BY <1>1, <1>2, <1>4 DEF Lost, Types
<1> QED BY <1>1, <1>3, <1>4 DEF Lost, Types

LEMMA ToldNames ==
  /\ "" \in Told("done") /\ "" \in Told("failed") /\ "" \in Told("fetching") /\ "" \in Told("embedding")
  /\ "unfit" \in Told("skipped") /\ "imported" \in Told("skipped") /\ "max pages" \in Told("skipped")
BY DEF Told, Reasons

(* A page in flight that is moved on was taken before.                       *)
LEMMA MovedOn ==
  ASSUME CrawlAssumption, NEW pages \in Pages, Numbered(pages), NEW p \in Page,
         pages[p].state \in InFlight, NEW s \in Settled \cup InFlight, NEW why \in Told(s)
  PROVE  Taken(Moved(pages, p, s, why)) \in SUBSET Taken(pages)
<1>1. pages[p].state \in {"queued", "fetching", "embedding"} /\ pages[p].state # "queued"
  BY DEF InFlight
<1> QED BY <1>1, MovedBooks

(* What the loop does.                                                       *)
LEMMA SeedTally ==
  ASSUME CrawlAssumption, IInv, Tally, StartJob
  PROVE  Tally'
<1>1. Types /\ Lost \in Nat /\ Lost' = Lost /\ Follows(job, page, Lost) /\ Numbered(page)
  BY LostType DEF IInv, Tally, StartJob, admin
<1>2. CASE page' = Reset /\ job' = job
  <2>1. Follows(job, Reset, Lost) /\ Numbered(Reset) /\ Taken(Reset) \in SUBSET Taken(page)
    BY <1>1, FollowsReset
  <2> QED BY <1>1, <1>2, <2>1, TallyStays
<1>3. CASE Table = {} /\ page' = Seeded /\ job' = Bumped(job, "total", 1)
  <2>1. /\ Follows(Bumped(job, "total", 1), Seeded, Lost)
        /\ Numbered(Seeded) /\ Taken(Seeded) \in SUBSET Taken(page)
    BY <1>1, <1>3, FollowsSeed
  <2> QED BY <1>1, <1>3, <2>1, TallyStays
<1> QED BY <1>2, <1>3 DEF StartJob

LEMMA OverflowTally ==
  ASSUME CrawlAssumption, IInv, Tally, NEW p \in Oldest, MayClaim,
         page' = Moved(page, p, "skipped", "max pages"),
         \/ job' = Bumped(job, "skipped", 1) /\ Lost' = Lost
         \/ job' = job /\ Lost' = Lost + 1
  PROVE  Tally'
<1>1. Types /\ Lost \in Nat /\ Follows(job, page, Lost) /\ Numbered(page) /\ page \in Pages
  BY LostType DEF IInv, Tally, Types
<1>2. p \in Page /\ page[p].state \in {"queued", "fetching", "embedding"}
  BY ClaimedPage
<1>3. "skipped" \in Settled \cup InFlight /\ "skipped" \in Settled /\ "max pages" \in Told("skipped")
  BY Names, ToldNames
<1>4. /\ Follows(Bumped(job, "skipped", 1), page', Lost) /\ Follows(job, page', Lost + 1)
      /\ Numbered(page')
  BY <1>1, <1>2, <1>3, FollowsMoved
<1>5. Taken(page') \in SUBSET Taken(page)
  BY <1>1, <1>2, <1>3, MovedBooks
<1>6. CASE job' = Bumped(job, "skipped", 1) /\ Lost' = Lost
  <2>1. Lost' \in Nat /\ Lost <= Lost'
    BY <1>1, <1>6, LostType, Zenon
  <2>2. Follows(job', page', Lost')
    BY <1>4, <1>6, Zenon
  <2> QED BY <1>1, <1>4, <1>5, <2>1, <2>2, TallyStays
<1>7. CASE job' = job /\ Lost' = Lost + 1
  <2>1. Lost' \in Nat /\ Lost <= Lost'
    BY <1>1, <1>7, LostType, Zenon
  <2>2. Follows(job', page', Lost')
    BY <1>4, <1>7, Zenon
  <2> QED BY <1>1, <1>4, <1>5, <2>1, <2>2, TallyStays
<1> QED BY <1>6, <1>7

LEMMA ClaimTally ==
  ASSUME CrawlAssumption, IInv, Tally, StartRunner
  PROVE  Tally'
<1>1. /\ Types /\ Lost \in Nat /\ Lost' = Lost /\ job' = job
      /\ Follows(job, page, Lost) /\ Numbered(page) /\ page \in Pages
  BY LostType DEF IInv, Tally, Types, StartRunner, admin
<1>2. PICK p \in Oldest : page' = Moved(page, p, "fetching", "")
  BY DEF StartRunner
<1>3. p \in Page /\ page[p].state \in {"queued", "fetching", "embedding"}
  BY ClaimedPage DEF StartRunner
<1>4. "fetching" \in Settled \cup InFlight /\ "fetching" \in InFlight /\ "" \in Told("fetching")
  BY ToldNames DEF InFlight
<1>5. Follows(job, page', Lost) /\ Numbered(page')
  BY <1>1, <1>2, <1>3, <1>4, FollowsMoved
<1>6. Cardinality(Listed(page')) <= job.total + Lost
  BY <1>1, <1>5, FollowsTotal
<1>7. job.total \in Nat /\ MaxPages \in Nat /\ job.total <= MaxPages
  <2>1. job.total \in Nat /\ MaxPages \in Nat
    BY <1>1, JobNumbers DEF Follows, CrawlAssumption
  <2>2. ~ (job.total > MaxPages)
    BY DEF StartRunner, TooMany
  <2> QED BY <2>1, <2>2
<1>8. /\ Cardinality(Taken(page')) \in Nat /\ Cardinality(Listed(page')) \in Nat
      /\ Cardinality(Taken(page')) <= Cardinality(Listed(page'))
  BY Sizes
<1>9. Cardinality(Taken(page')) <= MaxPages + Lost
  BY <1>1, <1>6, <1>7, <1>8
<1> QED BY <1>1, <1>5, <1>9 DEF Tally

(* What the runner of a page and its crash do.                               *)
LEMMA OnTally ==
  ASSUME CrawlAssumption, Tally, Lost \in Nat,
         NEW pages \in Pages, Numbered(pages), NEW j, Follows(j, pages, Lost),
         Taken(pages) \in SUBSET Taken(page),
         NEW p \in Page, pages[p].state \in InFlight,
         NEW s \in Settled \cup InFlight, NEW why \in Told(s), page' = Moved(pages, p, s, why),
         \/ s \in Settled /\ job' = Bumped(j, s, 1) /\ Lost' = Lost
         \/ s \in Settled /\ job' = j /\ Lost' = Lost + 1
         \/ s \in InFlight /\ job' = j /\ Lost' = Lost
  PROVE  Tally'
<1>1. pages[p].state \in {"queued", "fetching", "embedding"}
  BY DEF InFlight
<1>2. /\ s \in InFlight => Follows(j, page', Lost)
      /\ s \in Settled => Follows(Bumped(j, s, 1), page', Lost) /\ Follows(j, page', Lost + 1)
      /\ Numbered(page')
  BY <1>1, FollowsMoved
<1>3. Taken(page') \in SUBSET Taken(page)
  BY MovedOn
<1>4. CASE s \in Settled /\ job' = Bumped(j, s, 1) /\ Lost' = Lost
  BY <1>2, <1>3, <1>4, TallyStays
<1>5. CASE s \in Settled /\ job' = j /\ Lost' = Lost + 1
  BY <1>2, <1>3, <1>5, TallyStays
<1>6. CASE s \in InFlight /\ job' = j /\ Lost' = Lost
  BY <1>2, <1>3, <1>6, TallyStays
<1> QED BY <1>4, <1>5, <1>6

LEMMA FoundLinks ==
  ASSUME CrawlAssumption, IInv, Tally, NEW p \in Page, runner[p] = "fetch", NEW n \in 0 .. Len(Links[p])
  PROVE  LET new == NewLinks(p, n)
         IN  /\ new \in SUBSET (Page \ Table) /\ new \subseteq Linked(p) /\ Cardinality(new) \in Nat
             /\ Added(p, new) \in Pages /\ Numbered(Added(p, new)) /\ Taken(Added(p, new)) = Taken(page)
             /\ Added(p, new)[p].state \in InFlight
             /\ Follows(Bumped(job, "total", Cardinality(new)), Added(p, new), Lost)
<1> DEFINE new == NewLinks(p, n)
<1>1. Types /\ Lost \in Nat /\ Follows(job, page, Lost) /\ Numbered(page)
  BY LostType DEF IInv, Tally
<1>2. new \in SUBSET (Page \ Table) /\ Cardinality(new) \in Nat
  BY <1>1, NewLinksType
<1>3. new \subseteq Linked(p)
  BY DEF NewLinks, Linked, CrawlAssumption
<1>4. page[p].state = "fetching"
  BY <1>1, RunnerLives DEF IInv, Staged
<1> HIDE DEF new
<1>5. Added(p, new) \in Pages /\ Added(p, new)[p] = page[p]
  <2>1. p \notin new
    BY <1>2, <1>4 DEF Table
  <2> QED BY <1>1, <1>2, <2>1, AddedType
<1>6. 0 \in {0, 1} /\ (0 = 1 => new # {}) /\ Cardinality(new) - 0 = Cardinality(new) /\ Lost + 0 = Lost
  BY <1>1, <1>2
<1>7. /\ Follows(Bumped(job, "total", Cardinality(new) - 0), Added(p, new), Lost + 0)
      /\ Numbered(Added(p, new)) /\ Taken(Added(p, new)) = Taken(page)
  BY <1>1, <1>2, <1>3, <1>6, FollowsAdd
<1> QED BY <1>2, <1>3, <1>4, <1>5, <1>6, <1>7 DEF new, InFlight

LEMMA RunnerTally ==
  ASSUME CrawlAssumption, IInv, Tally, NEW p \in Page, Runner(p)
  PROVE  Tally'
<1>1. /\ Types /\ Lost \in Nat /\ Lost' = Lost
      /\ Follows(job, page, Lost) /\ Numbered(page) /\ page \in Pages
  BY LostType DEF IInv, Tally, Types, Runner, SkipPage, FetchPage, PageRaises, EmbedFile, SettlePage, admin
<1>2. runner[p] \in {"fetch", "embedded"} => page[p].state \in InFlight
  BY <1>1, RunnerLives DEF IInv, Staged, InFlight
<1>3. CASE SkipPage(p)
  <2>1. runner[p] = "fetch" /\ page' = Moved(page, p, "skipped", "unfit") /\ job' = Bumped(job, "skipped", 1)
    BY <1>3 DEF SkipPage
  <2> QED BY <1>1, <1>2, <2>1, Names, ToldNames, OnTally
<1>4. CASE FetchPage(p)
  <2> DEFINE new == LinksOf(p)
             found == Added(p, new)
             counted == Bumped(job, "total", Cardinality(new))
  <2>1. /\ found \in Pages /\ Numbered(found) /\ Taken(found) \in SUBSET Taken(page)
        /\ found[p].state \in InFlight /\ Follows(counted, found, Lost)
    <3>1. Len(Links[p]) \in 0 .. Len(Links[p])
      BY DEF CrawlAssumption
    <3>2. runner[p] = "fetch"
      BY <1>4 DEF FetchPage
    <3> QED BY <3>1, <3>2, FoundLinks DEF LinksOf
  <2>2. \/ page' = Moved(found, p, "skipped", "unfit") /\ job' = Bumped(counted, "skipped", 1)
        \/ page' = Moved(found, p, "skipped", "imported") /\ job' = Bumped(counted, "skipped", 1)
        \/ page' = Moved(found, p, "embedding", "") /\ job' = counted
    BY <1>4 DEF FetchPage
  <2> HIDE DEF found, counted
  <2>3. CASE page' = Moved(found, p, "skipped", "unfit") /\ job' = Bumped(counted, "skipped", 1)
    BY <1>1, <2>1, <2>3, Names, ToldNames, OnTally
  <2>4. CASE page' = Moved(found, p, "skipped", "imported") /\ job' = Bumped(counted, "skipped", 1)
    BY <1>1, <2>1, <2>4, Names, ToldNames, OnTally
  <2>5. CASE page' = Moved(found, p, "embedding", "") /\ job' = counted
    <3>1. "embedding" \in InFlight
      BY DEF InFlight
    <3> QED BY <1>1, <2>1, <2>5, <3>1, ToldNames, OnTally
  <2> QED BY <2>2, <2>3, <2>4, <2>5
<1>5. CASE PageRaises(p)
  <2>1. PICK n \in 0 .. Len(Links[p]) :
          /\ page' = Moved(Added(p, NewLinks(p, n)), p, "failed", "")
          /\ job' = Bumped(Bumped(job, "total", Cardinality(NewLinks(p, n))), "failed", 1)
    BY <1>5 DEF PageRaises
  <2> DEFINE found == Added(p, NewLinks(p, n))
             counted == Bumped(job, "total", Cardinality(NewLinks(p, n)))
  <2>2. /\ found \in Pages /\ Numbered(found) /\ Taken(found) \in SUBSET Taken(page)
        /\ found[p].state \in InFlight /\ Follows(counted, found, Lost)
    BY <1>5, FoundLinks DEF PageRaises
  <2>3. page' = Moved(found, p, "failed", "") /\ job' = Bumped(counted, "failed", 1)
    BY <2>1
  <2> HIDE DEF found, counted
  <2> QED BY <1>1, <2>2, <2>3, Names, ToldNames, OnTally
<1>6. CASE EmbedFile(p)
  <2>1. page' = page /\ job' = job
    BY <1>6 DEF EmbedFile
  <2> QED BY <1>1, <2>1, TallyStays
<1>7. CASE SettlePage(p)
  <2>1. PICK s \in {"done", "failed"} : page' = Moved(page, p, s, "") /\ job' = Bumped(job, s, 1)
    BY <1>7 DEF SettlePage, Outcome
  <2>2. s \in Settled /\ "" \in Told(s) /\ page[p].state \in InFlight
    BY <1>2, <1>7, ToldNames DEF Settled, SettlePage
  <2> QED BY <1>1, <2>1, <2>2, OnTally
<1> QED BY <1>3, <1>4, <1>5, <1>6, <1>7 DEF Runner

(* Crashes, and the rest.                                                    *)
LEMMA CrashTally ==
  ASSUME CrawlAssumption, IInv, Tally, Crash \/ CrashAdding \/ CrashSettling
  PROVE  Tally'
<1>1. /\ Types /\ Lost \in Nat /\ Lost' = Lost + 1 /\ Lost' \in Nat /\ Lost <= Lost'
      /\ Follows(job, page, Lost) /\ Numbered(page) /\ page \in Pages
  <2>1. Types /\ Die /\ Follows(job, page, Lost) /\ Numbered(page) /\ page \in Pages
    BY DEF IInv, Tally, Types, Crash, CrashAdding, CrashSettling
  <2> QED BY <2>1, LostType
<1>2. CASE Crash
  <2>1. page' = page /\ job' = job
    BY <1>2 DEF Crash, db
  <2>2. Follows(job, page, Lost')
    BY <1>1, FollowsLater
  <2> QED BY <1>1, <2>1, <2>2, TallyStays
<1>3. CASE Table = {} /\ page' = Seeded /\ job' = job
  <2>1. Follows(job, Seeded, Lost + 1) /\ Numbered(Seeded) /\ Taken(Seeded) \in SUBSET Taken(page)
    BY <1>1, <1>3, FollowsSeed
  <2> QED BY <1>1, <1>3, <2>1, TallyStays
<1>4. ASSUME NEW p \in Page, NEW n \in 1 .. Len(Links[p]), NEW lost \in {0, 1}, runner[p] = "fetch",
             lost = 1 => Links[p][n] \in NewLinks(p, n),
             page' = Added(p, NewLinks(p, n)),
             job' = Bumped(job, "total", Cardinality(NewLinks(p, n)) - lost)
      PROVE  Tally'
  <2>1. n \in 0 .. Len(Links[p])
    BY DEF CrawlAssumption
  <2>2. NewLinks(p, n) \in SUBSET (Page \ Table) /\ NewLinks(p, n) \subseteq Linked(p)
    BY <1>4, <2>1, FoundLinks
  <2>3. lost = 1 => NewLinks(p, n) # {}
    BY <1>4
  <2>4. /\ Follows(job', page', Lost + lost) /\ Numbered(page') /\ Taken(page') = Taken(page)
    BY <1>1, <1>4, <2>2, <2>3, FollowsAdd
  <2>5. Lost + lost \in Nat /\ Lost + lost <= Lost'
    BY <1>1
  <2>6. Follows(job', page', Lost')
    BY <1>1, <2>4, <2>5, FollowsLater
  <2> QED BY <1>1, <2>4, <2>6, TallyStays
<1>5. CASE CrashSettling
  <2>1. job' = job
    BY <1>5 DEF CrashSettling
  <2>2. CASE MayClaim /\ \E p \in Oldest : page' = Moved(page, p, "skipped", "max pages")
    BY <1>1, <2>1, <2>2, OverflowTally
  <2>3. ASSUME NEW p \in Page, runner[p] \in {"fetch", "embedded"}, NEW s \in Settled, NEW why \in Told(s),
               page' = Moved(page, p, s, why)
        PROVE  Tally'
    <3>1. page[p].state \in InFlight
      BY <1>1, <2>3, RunnerLives DEF IInv, Staged, InFlight
    <3> QED BY <1>1, <2>1, <2>3, <3>1, OnTally
  <2>4. ASSUME NEW p \in Page, runner[p] = "embedded",
               page' = Moved(page, p, Outcome(p), "")
        PROVE  Tally'
    <3>1. PICK s \in {"done", "failed"} : page' = Moved(page, p, s, "")
      BY <2>4 DEF Outcome
    <3>2. s \in Settled /\ "" \in Told(s)
      BY ToldNames DEF Settled
    <3> QED BY <2>3, <2>4, <3>1, <3>2
  <2>5. ASSUME NEW p \in Page, runner[p] = "fetch", page' = Moved(page, p, "skipped", "unfit")
        PROVE  Tally'
    BY <2>3, <2>5, Names, ToldNames
  <2> QED BY <1>5, <2>2, <2>4, <2>5 DEF CrashSettling
<1>6. CASE CrashAdding
  BY <1>3, <1>4, <1>6 DEF CrashAdding
<1> QED BY <1>2, <1>5, <1>6

LEMMA IdleTally ==
  ASSUME CrawlAssumption, IInv, Tally, page' = page, Lost' = Lost,
         job' = job \/ \E status \in {"running", "paused"} \cup Terminal : job' = [job EXCEPT !.status = status]
  PROVE  Tally'
<1>1. Lost \in Nat /\ Follows(job, page, Lost) /\ Numbered(page)
  BY LostType DEF IInv, Tally
<1>2. CASE job' = job
  BY <1>1, <1>2, TallyStays
<1>3. ASSUME NEW status \in {"running", "paused"} \cup Terminal, job' = [job EXCEPT !.status = status]
      PROVE  Tally'
  <2>1. Follows(job', page, Lost)
    BY <1>1, <1>3, FollowsStatus
  <2> QED BY <1>1, <2>1, TallyStays
<1> QED BY <1>2, <1>3

LEMMA StepTally == ASSUME CrawlAssumption, IInv, Tally, [Next]_vars PROVE Tally'
<1>1. Types
  BY DEF IInv
<1>2. CASE Worker
  <2>1. Lost' = Lost
    BY <1>1, <1>2, LostType
       DEF Worker, Supervise, StartRefused, StartJob, LeaveLoop, SkipOverflow, StartRunner, AwaitRunner, Reap,
           Drain, Complete, admin
  <2>2. CASE Supervise \/ StartRefused \/ LeaveLoop \/ AwaitRunner \/ Reap \/ Drain
    <3>1. page' = page /\ job' = job
      BY <2>2 DEF Supervise, StartRefused, LeaveLoop, AwaitRunner, Reap, Drain, db
    <3> QED BY <2>1, <3>1, IdleTally
  <2>3. CASE Complete
    <3>1. page' = page /\ job' = [job EXCEPT !.status = "completed"] /\ "completed" \in Terminal
      BY <2>3 DEF Complete, Terminal
    <3> QED BY <2>1, <3>1, IdleTally
  <2>4. CASE SkipOverflow
    <3>1. PICK p \in Oldest : page' = Moved(page, p, "skipped", "max pages")
      BY <2>4 DEF SkipOverflow
    <3>2. MayClaim /\ job' = Bumped(job, "skipped", 1)
      BY <2>4 DEF SkipOverflow
    <3> QED BY <2>1, <3>1, <3>2, OverflowTally
  <2> QED BY <1>2, <2>2, <2>3, <2>4, SeedTally, ClaimTally DEF Worker
<1>3. CASE \E p \in Page : Runner(p)
  BY <1>3, RunnerTally
<1>4. ASSUME NEW t \in Transitions, AskTransition(t) \/ WriteTransition(t) PROVE Tally'
  <2>1. Lost' = Lost /\ page' = page
    BY <1>1, <1>4, LostType DEF AskTransition, WriteTransition, db
  <2>2. job' = job \/ job' = [job EXCEPT !.status = t]
    BY <1>4 DEF AskTransition, WriteTransition, db
  <2>3. t \in {"running", "paused"} \cup Terminal
    BY DEF Transitions, Terminal
  <2> QED BY <2>1, <2>2, <2>3, IdleTally
<1>5. ASSUME NEW f \in File, DeleteFile(f) PROVE Tally'
  <2>1. Lost' = Lost /\ page' = page /\ job' = job
    BY <1>1, <1>5, LostType DEF DeleteFile
  <2> QED BY <2>1, IdleTally
<1>6. CASE Crash \/ CrashAdding \/ CrashSettling
  BY <1>6, CrashTally
<1>7. CASE UNCHANGED vars
  <2>1. Lost' = Lost /\ page' = page /\ job' = job
    BY <1>7 DEF vars, db, admin, Lost
  <2> QED BY <2>1, IdleTally
<1> QED BY <1>2, <1>3, <1>4, <1>5, <1>6, <1>7 DEF Next

LEMMA InitTally == ASSUME CrawlAssumption, Init PROVE Tally
<1>1. /\ Lost = 0 /\ MaxPages \in Nat /\ "crash" \in Events
  BY DEF Init, Lost, Events, CrawlAssumption
<1>2. \A p \in Page : page[p].id = 0 /\ page[p].state = "none" /\ page[p].reason = ""
  BY DEF Init, Absent
<1>3. Listed(page) = {} /\ Taken(page) = {}
  BY <1>2 DEF Listed, Taken
<1>4. In(page, "done") = {} /\ In(page, "skipped") = {} /\ In(page, "failed") = {}
  BY <1>2 DEF In
<1>5. Cardinality({}) = 0
  BY FS_EmptySet
<1>6. /\ job \in Jobs /\ job.total = 0 /\ job.done = 0 /\ job.skipped = 0 /\ job.failed = 0
  BY DEF Init, Jobs
<1>7. Balance(0, 0, 0, 0, 0, 0, 0, 0, 0)
  BY DEF Balance
<1>8. Follows(job, page, Lost)
  BY <1>1, <1>3, <1>4, <1>5, <1>6, <1>7 DEF Follows, Size
<1>9. Numbered(page)
  BY <1>2, <1>3 DEF Numbered
<1> QED BY <1>1, <1>3, <1>5, <1>8, <1>9 DEF Tally

LEMMA TallyImplies == ASSUME CrawlAssumption, IInv, Tally PROVE CountersFollow
<1>1. Types /\ Follows(job, page, Lost) /\ Numbered(page)
  BY DEF IInv, Tally
<1>2. Table = Listed(page) /\ Fetched = Taken(page)
  BY DEF Table, Listed, Fetched, Taken
<1>3. TypeOK
  BY <1>1, <1>2 DEF TypeOK, Types, Pages, Follows, Numbered
<1>4. Cardinality(Fetched) <= MaxPages + count["crash"]
  BY <1>2 DEF Tally, Lost
<1>5. /\ job.total <= Cardinality(Table) /\ job.done <= Size(page, "done")
      /\ job.skipped <= Size(page, "skipped") /\ job.failed <= Size(page, "failed")
      /\ Cardinality(Table) + Size(page, "done") + Size(page, "skipped") + Size(page, "failed")
           <= job.total + job.done + job.skipped + job.failed + Lost
  BY <1>1, <1>2, Zenon DEF Follows, Balance
<1> QED BY <1>3, <1>4, <1>5, Zenon DEF CountersFollow, Size, In, Lost

(* Whatever its pages link to, whatever admins do and however often the process
   dies between two statements: the counters of a job never run ahead of its
   pages, all together they lag behind by one for every crash at most, and no
   more pages are fetched than maxPages allows and crashes lost.             *)
THEOREM CountersRight == ASSUME CrawlAssumption PROVE Spec => []CountersFollow
<1>1. Init => IInv /\ Tally
  BY InitIInv, InitTally
<1>2. IInv /\ Tally /\ [Next]_vars => (IInv /\ Tally)'
  BY StepIInv, StepTally
<1>3. IInv /\ Tally => CountersFollow
  BY TallyImplies
<1> QED BY <1>1, <1>2, <1>3, PTL DEF Spec
=============================================================================
