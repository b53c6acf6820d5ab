# A TLA+ model of the emly backend

This directory holds TLA+ specifications of the parts of the emly assistant that keep
state while several things happen at once: webhooks and their retries, crawls, embeddings,
conversations that an admin may take over, sign-in and accounts, channel installs and their
tokens, queues in the background, and a process that may die between two statements. The
modules are read next to `src/`; `PROJECT.json` maps every definition to the lines it
stands for.

    tlc -config CrawlJob.cfg MCCrawlWorker     check one instance
    tlapm DispatcherProofs.tla                 check the proofs of one module

Section 1 is the inventory, 2 the modules, 3 what TLC checks, 4 what is proved, 5 where the
code and its documents part, 6 what is left out, 7 what could come next.

## 1. The system

emly is one FastAPI application with a relational database (SQLite by default, Postgres in
deployments), a Qdrant vector store (embedded by default, remote by `QDRANT_URL`), a
directory of uploads and one of signing keys.

How its parts run decides what can interleave, and every module follows it:

- `async def` handlers and the asyncio tasks they start are coroutines of one event loop.
  They reach the database synchronously, so what runs between two awaits is atomic against
  other coroutines.
- plain `def` routes, plain functions in `BackgroundTasks`, `asyncio.to_thread` calls, the
  enrichment worker and the APScheduler jobs are threads. They interleave with everything at
  each statement.
- several processes may serve webhooks when Qdrant is remote
  (`main._assert_runtime_topology`). They share only the database, at READ COMMITTED.
- everything in memory is lost when the process dies: tasks, caches, queues, locks, login
  states and codes.

### Components

| component | state | operations | hard behaviour | what makes it correct |
|---|---|---|---|---|
| idempotency table (`models/webhook_event_dedupe.py`) | a row per (channel type, event id): status, lease, attempts | claim (INSERT, SELECT, conditional UPDATE), mark_done, mark_failed, cleanup | retries in several processes, crashes, late marks, expiry | one holder at a time; done is final; nothing is dropped without a reason |
| dispatcher (`channels/dispatcher.py`) | `_inflight`, handlers and background tasks | handle_inbound, sync and async replies, send_with_retry | platform retries, crash after the ack, a full background, partial sends | done means delivered, no gaps, acked means answered, nobody is answered twice, the counter is exact |
| crawler (`services/crawl_worker.py`, `models/crawl_jobs.py`) | job and page rows, counters, loop and runners | supervise, run, claim, fetch, embed, settle, recover; pause, resume, cancel | runners and admins interleave, crash between row and counter, budget | no page is left behind, settled stays settled, counters follow, the loop ends |
| knowledge files (`routes/admin_bot_files.py`, `services/data_service.py`, `agents/rag_manager.py`) | file rows, uploads, points in Qdrant | upload, retype, reindex, delete, reindex all, embed, sweep at startup | three stores without a transaction, threads, crash | rows, points and disk agree; nothing waits for ever |
| bot deletion (`services/bot_purge.py`) | `deleted_at`, the purge under way | soft delete, daily purge | steps that fail one by one, restart | nothing is left when the row is gone |
| agent runtimes (`agents/conversation_agent.py`) | runtime per bot, TTL cache of sessions, slots of a topic | build, invalidate, evict, route, fill slots | build races with invalidate, the cache is full, two turns share a handler | no stale runtime after a save; one session per user; slot filling ends |
| sessions and takeover (`models/emly_sessions.py`, `models/emly_messages.py`, `services/agent_service.py`, `routes/admin_bot_sessions.py`, `routes/chat.py`) | session rows, messages | message, takeover, release, reply, resolve | flag read before a long model call, read-modify-write, row before event | the holder decides who speaks; the count follows the messages |
| analytics (`routes/admin_bot_dashboard.py`, `models/emly_messages.py`) | none of its own; ratings, deflection flags, labels | funnel, enrichment, citations, report and the other cards; rate, override, relabel, delete | a card is several queries of moving tables, windows and percentiles | parts add up, cards of a window agree |
| admins and memberships (`models/admin_*.py`, `routes/admin_admins.py`, `routes/admin_bots.py`, `user_resolver.py`) | admins, roles, invitations | boot, resolve, invite, activate, promote, demote, delete, memberships | check then act in two transactions, relinking | a superadmin and an owner remain; accounts for open invitations alone |
| issuer and sign-in (`services/auth/`, `routes/auth*.py`) | codes, login states, keys on disk, lockout counters | login, form, code, callback, exchange, lock, key generation | expiry races, one-shot stores, crash between two files | one session per login; sessions survive restarts; guesses are bounded |
| channel installs (`routes/admin_bot_channels.py`, `models/bot_channels.py`) | channel rows, webhooks at the platform | create, delete, disable, secrets, purge | awaits of the platform between statements | the webhook is that of the row |
| channel tokens (`channels/auth/`) | secrets, cached tokens, refresh locks | mint, refresh under a lock, save | refresh races with a save, lost answers, expiry | a refresh token is used once; tokens are in date; saves stay |
| signing keys (`channels/jwt_verifier.py`) | cached key sets, failures, attempts | verify, fetch, forced refresh | the issuer rotates, fetches fail | withdrawn keys fade; the issuer's key is accepted |
| enrichment (`services/enrichment.py`) | a bounded queue, one worker thread | insert, enqueue, classify, apply | a full queue, turns that cross, restart | labels never go back; the queue is worked off |
| realtime feed (`services/realtime.py`, `routes/admin_bot_realtime.py`) | subscribers with bounded queues | connect, publish, offer, serve, abandon | a thread given up on that still takes an event | lost only by a full queue or such a thread; in order, once |
| forms and alerts (`routes/widget.py`, `routes/actions.py`) | form rows, a job store all workers share, a pool of threads each | submit, schedule, poll, hand over, mail | several schedulers over one store, restart, a grace time | every entry of a list is mailed, and once, or there is a reason |
| bots and templates, page fetcher, migrations, UI, widget | none that steps interleave on | single rows, I/O, rendering | - | - |

The dispatcher calls the idempotency table before and after everything it does, the agent in
a thread, and an adapter to send; the adapter gets a token and, inbound, has its message
verified with the issuer's keys. A turn of the agent takes its handler from the runtime
cache, stores its messages with the session row, offers a job to the enrichment worker and
publishes to the feed. Admin routes write rows that the crawler, the embeds, the turns and
the dispatcher read again later, and each of them resolves its admin first. The crawler ends
a page by the embed of its file.

## 2. The modules

| module | stands for |
|---|---|
| `DedupeRow` | pure operators: one row of the table and what each SQL statement does to it |
| `WebhookDedupe` | the claim protocol, one action per statement, workers in different processes |
| `EventLease` | the abstract promise: an event is open, owned by one delivery, or closed for good; kept by `WebhookDedupe` and by `Dispatcher` |
| `Dispatcher` | handle_inbound and its background task over the same rows, one process |
| `CrawlWorker` | one crawl job: supervisor, loop, runners, embeds, admins, crashes |
| `EmbedPipeline` | the files of one bot in database, Qdrant and disk; deletion of the bot |
| `SessionTurns` | one session: turns of the user, admins who take it over, reply, release, resolve |
| `BotRuntime` | the runtime and handlers a process caches for a bot, and the saves that drop them |
| `TopicSlots` | routing and slot filling of one conversation's handler |
| `Analytics` | messages and sessions of a bot, and the cards that count them |
| `Enrichment` | the enrichment queue, its thread and the labels of a session |
| `LiveFeed` | subscribers, publishers and streams of one bot's feed |
| `FormAlerts` | submitted forms and the mails the scheduler sends for them |
| `AdminLifecycle` | accounts, invitations, superadmins, memberships of one bot |
| `SignIn` | one account, its logins through the embedded issuer, the keystore |
| `ChannelInstall` | channel rows and the webhooks at the platform |
| `ChannelTokens` | the access token of one channel |
| `SigningKeys` | the keys of one issuer in the verifier's cache |
| `Conversation` | `SessionTurns`, one `BotRuntime` for each bot, and `Analytics` side by side |
| `Sidework` | `TopicSlots`, `Enrichment`, `LiveFeed` and `FormAlerts` side by side |
| `Access` | `AdminLifecycle`, `SignIn`, `ChannelInstall`, `ChannelTokens` and `SigningKeys` side by side |
| `MC*` | instances for TLC: sites, key assignments, bounds, symmetry |
| `*Proofs` | theorems (section 4) |

`Conversation`, `Sidework` and `Access` put several instances side by side: `part` says
which of them a behaviour is about, the others rest. The state spaces add up and do not
multiply, and each property speaks of its own part. All their constants are parameters, so
they can be proved about; `MCConversation`, `MCSidework` and `MCAccess` give bots, contents,
topics and e-mail addresses for TLC.

`Dispatcher` and `WebhookDedupe` share `DedupeRow`, so a row changes in both by the same
operators. They differ in the grain: in one process `claim` runs between two awaits and is
one action of `Dispatcher`; across processes its statements interleave, which is what
`WebhookDedupe` is about.

**WebhookDedupe.** A worker is one delivery: `idle -> insert -> select -> update -> running`,
as `claim` goes, then `MarkDone`, `MarkFailed` or `Crash`. `claim` reads the clock once
(`at`). `Hold` bounds how long a delivery may run: with `Hold < TTL` deliveries keep within
their lease, which nothing in the code enforces; with a larger one they may not, and then two
run together and mark each other's rows.

**Dispatcher.** `req[r].pc` names the await at which a request stands: `verify` (signature),
`parse`, `sync` (the agent within the response), `queued`, `agent`, `send`, `sorry` (the
apology), `extra` (chunks after a sync answer), `canned`. `row` is the table, `inflight` the
global counter, `chan` the channel's row as admins change it, `settled` what the platform has
seen acked, `got` what the user received, chunk by chunk. The agent, the adapter and the
platform are choices of outcome, each under a member of `Faults`. `Escapes` are the paths on
which an exception leaves a handler or a task without a mark: `parse_inbound` raises, the
agent raises `TimeoutError` where there is no window, `_prepare_outgoing` raises. `unmarked`
remembers the ids whose last claim ended so, by the death of the process, or by a channel that
changed before the task began.

**CrawlWorker.** `job`, `page` and `file` are the rows; `loop` and `runner` the tasks. A
page's `id` is the order of insertion, by which `claim_next_queued` chooses. The loop is at
its `turn` until it awaits, so no coroutine runs then, but threads do: `WriteTransition` and
`EmbedFile` come at any time. A file row remembers whose runner wrote it, since a runner
looks its row up by id and another page may have the same file name. `AskTransition` and
`WriteTransition` are the check and the write of `_transition_crawl_job`. `Crash*` cut an
action between two of its statements.

**EmbedPipeline.** A request is a handler and the embeds it queued. `points[f][t]` counts
copies of a file's chunks made with document type `t`, since a point gets a new id at every
upsert; the files in `Textless` have no chunks and are embedded with no points. `met` is a
history variable, the files on which two requests worked at a time: the code takes no lock,
and most promises hold only for the other files. Each step of `purge_one` may fail, which it
swallows; `failed` are the steps that did in the latest purge.

**SessionTurns.** A turn goes from `gate` (is the session taken over?) over the rows of the
user's message to `model` and to the rows of the answer; `insert_new_message` is three
statements (`row`, `read`, `write`) whoever calls it, and the last one writes the count that
the second one read. An admin's request is `check`, `update` or an insert, then `publish`.
`held` and `free` remember whether somebody, or nobody, held the session since a turn began;
`past` remembers overlaps. `log` is all that was ever stored and `gone` how many of those
rows admins deleted, which does not touch the count. A read of the takeover flag that fails
is swallowed (`GateFails`). The module says "store", "model", "reader" or "start" for what
may fail.

**BotRuntime.** `runtime` and `cache` are the two dictionaries of a process, `row` the
configuration and the key in the database, read one after the other. `Lookup` and the steps
behind it are `get_handler` with `_runtime_for`; `PutConfig`, `OpenEditor`, `PutKey` and
`SaveStep` are the saves with their version check, which a save without `expected_version`
skips, and `invalidate_bot`, which first drops the runtime, then lists the sessions, then
purges them; `Expire` is the TTL. `get_handler` finds a user's older sessions by the prefix of
their keys, so it also takes those of a user whose key begins alike (`Begins`). A turn that
stores what it built before a save is the hazard, and `past` says when it could happen.

**TopicSlots.** `current`, `filled` and `slotState` are the handler's fields, which turns
share; a turn carries the topic and the number of attempts it read at its start, as
`ConversationState` does, and writes them back at its end. A streaming turn sets the current
topic at its end if one topic answered, others never do, which is one of the findings.
`reliable` says that nothing fails any more.

**Analytics.** `table` and `sessions` are the rows with their hour; `writing` is a message
that was stamped and is not inserted yet. A card is asked for, then one `Query` follows the
other over what is stored at that moment, into `req.got`. The counting functions (`Report`,
`Heatmap`, `Percentiles`, `Daily` and so on) are the SQL and the Python behind it; `Latencies`
says what ORDER BY returns by the rank of each row, without its LIMIT of 100000.

**Enrichment, LiveFeed, FormAlerts.** Each is a producer, a bounded place and a consumer.
A turn reads the bot's switch between its insert and its offer, so two turns may cross
(`raced`). A publisher copies the subscribers under the lock and offers after it; a stream
waits in a thread that it gives up on after its timeout (`stray`), and that thread still takes
one event. An alert is a row of the job store, which the processes share, for each entry of a
form's list, in which an address may stand twice. Every process has a scheduler that reads
what is due without a lock (`Poll`), hands each alert to its pool of `Pool` threads (`Hand`) and
then removes it (`Remove`; a row that another has removed ends the scheduler's thread). A
thread drops what comes too late.

**AdminLifecycle.** Every request resolves its admin statement by statement (`link`,
`email`, `touch`, `relink`, `invite`, `activate`) before it handles anything; the link is
written only for a person who was found by e-mail. The handlers of `admin_admins` are
coroutines without an await, so one runs at a time, while those of `admin_bots` are threads:
`Authorise` counts and `WriteMember` writes. A change of an admin is two commits all the
same, `SetActive` and `SetSuper`, with a possible crash between them. `stale` marks a
request whose reading was overtaken.

**SignIn.** `login`, `authorize_post` and `token` are single steps; the callback waits in a
thread that asks this very process. Boot is a chain of `server`: the private key, its public
part, the bootstrap account; a crash may leave any prefix on disk. `cred` has two keys,
because the activation of an account moves the password to another one.

**ChannelInstall, ChannelTokens, SigningKeys.** The platform is external: it acts at one
moment and its answer is handled at a later one, so a request is cut there. Only the rollback
of a failed install deletes a webhook: removing a channel calls `auth.revoke`, which does
nothing for a static token, and `TelegramAdapter.revoke` has no caller. So `removed` are the
channels whose webhook may stay behind, and `marred` the accounts after something that the code
does not answer for. A token's strategy (minted, refreshed, rotated, dated or not) is chosen at
the start; `raced` says that the secrets were last saved during a refresh. The keys' verifier
has its lock, a cool-down after a failure and one after a forced refresh; the issuer serves one
key that can be converted at a time, and those that cannot, which the verifier skips, are left
out.

## 3. The runs

| run | question | instance | distinct states |
|---|---|---|---|
| dedupe_punctual | is the claim exclusive and final, and an EventLease? | 3 workers, 3 deliveries of an event, TTL 2, 4 ticks, `Hold` 1 | @dedupe_punctual@ |
| dedupe_cleanup | what is left of the claim when deliveries outlive their lease and rows are cleaned up? | 3 workers, 4 deliveries, 6 ticks, TTL 1, retention 4, `Hold` 2 | @dedupe_cleanup@ |
| dispatcher_async | what does done promise, in which order do chunks come, is the whole an EventLease, under all faults? | 1 event of any kind, 2 requests, 3 deliveries, 2 chunks, 2 attempts | @dispatcher_async@ |
| dispatcher_lease | are the counter and the leases given back, is nobody answered twice? | 2 events on 2 channels, 1 background place | @dispatcher_lease@ |
| dispatcher_answered | is an acked message answered? | 2 events, one without id, room for both | @dispatcher_answered@ |
| crawl_job | are pages, counters and the job's end right? | 4 pages with cycles and redirects, 3 allowed, 2 at a time, 2 events | @crawl_job@ |
| embed_files | do rows, points and disk agree? | 2 files, one without text, 2 types, 2 of 3 requests at a time, 1 crash, 1 error, 2 failed steps of a purge | @embed_files@ |
| embed_self_heals | violation: the sweep at startup heals nothing | 1 file, 1 request, 1 crash | - |
| conversation | who speaks, what is counted, which configuration answers, do cards add up? | parts: 2 turns, 2 admins, 3 requests; 2 turns of one user, of two or of users whose keys begin alike and a save, with room in the cache and without; 2 saves and a turn; 2 sessions, 2 hours, 2 changes | @conversation@ |
| sidework | do slots, labels, feed and alerts survive overlaps and full queues? | parts: 3 topics, 2 turns; 3 messages, queue of 2, 1 restart; 2 publishers, 2 streams, queue of 1; 1 form for 2 addresses, 2 processes with 1 thread each, 1 stop | @sidework@ |
| slots_ask_forever | violation: a bot with one topic asks for ever | 1 topic, 1 turn at a time, 3 attempts | - |
| access | are accounts, logins, webhooks, tokens and keys sound? | parts: 3 people, 2 of 4 requests; 2 logins, 2 codes, 2 keys; 2 accounts, 2 channels, 3 admins; 2 deliveries, 2 saves; 2 messages, 2 keys; 1 restart each | @access@ |

### Properties

- **dedupe_punctual**: `TypeOK`; `ExclusiveHolder` (one delivery of an event at a time);
  `DoneIsFinal`; `DropIsJustified` (claim refuses only what is done, held or just taken
  over); `ImplementsLease` (refinement of `EventLease`).
- **dedupe_cleanup**, in which deliveries outlive their lease, run together and mark each
  other's rows: `OneWinnerPerAttempt` (no two running deliveries wrote the same `attempts`, so
  of the retries that read one row only one takes it over); `LiveLeaseSurvivesCleanup` (nobody
  in the repository calls `cleanup`; whoever does takes no row whose lease runs).
- **dispatcher_async**: `DoneMeansDelivered` (on an async channel a done event was delivered
  whole); `NoGap` (no chunk comes without the one before it); `NoOrphanLease` (a row in
  processing has a request that will mark it, or its last claim ended on one of the paths that
  mark nothing, which the module names); `HandlesAsLease` (refinement of `EventLease`: one
  request at a time works on an event id, and done is for good).
- **dispatcher_lease**: `InflightExact` (`_inflight` is the number of background tasks, and
  within the cap); `NoOrphanLease` again, with windows, a cap and shedding; `AnsweredOnce`
  (while sends and acks arrive); `PlacesComeBack` (a full background empties).
- **dispatcher_answered**: `AckedIsAnswered`, a liveness property: what the platform saw acked
  is answered, or apologised for.
- **crawl_job**: `CountersFollow` (the job's counters and its budget agree with the rows);
  `NoPageLeftBehind` (pages in flight have a runner, and a job that nobody resumed completes
  with every page settled); `SettledStays`; `RunsEnd` (a run of the loop comes to an end).
- **embed_files**: `SearchIsTrue` (a row that says embedded can be found if it has any text,
  once and with its own type); `NoOrphanPoints`; `UnsettledIsAhead` (what is pending or
  embedding is ahead of some request); `PurgeIsWhole` (of a bot whose row is gone only that is
  left whose own step failed in the purge that took the row, however many purges were cut off
  before).
- **conversation**: `CountFollows`, `FeedNamesHolder` and `HolderDecides` of `SessionTurns`;
  `FreshUnlessRaced` and `HandlersKept` of `BotRuntime`; `CardsAddUp` of `Analytics`.
- **sidework**: `AsksWithinLimit` and `RouterComesBack` (a user who keeps writing gets back to
  the router) of `TopicSlots`; `LabelsSettle` (labels never go back, the queue is worked off)
  of `Enrichment`; `FeedFaithful`; `AlertsSound`.
- **access**: `AccountsSound` of `AdminLifecycle`; `SignInSound`; `HookMatches`;
  `TokensSound`; `KeysSound`.

The modules state each of them in full, with the conditions under which the code keeps it. A
condition is a history variable (`met`, `past`, `raced`, `stale`, `marred`, `removed`,
`late`, `failed`, `unmarked`, `badTill`) that says precisely what happened, so outside of it
the property is unrestricted; section 5 says what goes wrong inside.

### Why these bounds

- dedupe: rows do not depend on each other, so one event is the general case. Three workers
  are a holder and two retries that read the same stale row; with two, nobody competes for
  the conditional UPDATE. TTL 2 is the least lease with an instant inside it; `Hold` 2 with TTL
  1 is the least with which two deliveries run together, and a fourth delivery finds a row that
  a late one marked.
- dispatcher: two requests are an original and its retry. Two chunks are the least answer
  with a gap in it; one background place is the least cap two channels compete for; two
  attempts let a send fail and recover. A cap, a chunk and an attempt more change no branch.
  `dispatcher_lease` runs without crashes and lost acks, which `dispatcher_async` has.
- crawl: the diamond site has two pages that link to one, a self link, a link back to the
  seed and two pages that redirect to one file name; with four pages and three allowed,
  the budget is passed and not passed. Two events cover pause with resume, cancel with crash
  and crash with crash. A lone runner would hide the waits of the loop; two show them.
- embed: two files tell `reindex_all` from the routes on one file, and the cap from no cap.
  Three requests, two of them live, cover embed + retype + delete on one file. Crash and
  error are once each, before, within or after any of them. Two failures of a purge are two
  steps of one, or a step of one and of the purge that repeats it.
- conversation: two turns and two admins with three requests are takeover, reply and release
  around a model call, and every pair of inserts that can overlap. Where the cache has room for
  both sessions of a user, only the user's turns take handlers away; where it has room for one
  of two users, each turn drops the other's. Two saves meet, and `MaxConfig` 3 lets the second
  be refused; `FreshHolds` and `HandlersHold` have no such bounds. Two hours and days of two
  hours put rows before, in and after a window.
- sidework: three topics are one that asks, one to switch to and one that answers directly. A
  queue of two and three messages overflow; a feed of one holds one event and loses another. Two
  processes are two schedulers over one store; one thread in each pool makes the second alert of
  a list wait beyond the grace (`Grace` 0), and one minute is what a delayed alert waits.
- access: three people, two with the same e-mail, are the relink; four requests are invite,
  sign-in and two changes that meet. Two codes and two logins replay and cross. Two deliveries
  of one channel meet at an expiry while an admin saves, and a second save makes the first one
  old; in three hours a token of two is minted, expires and is refreshed.

### The two violations

Each is a disagreement of code and comment, quoted in `PROJECT.json`:

1. `embed_self_heals`: `recover_pending_embeds` calls `run_until_complete` inside the running
   loop and raises: a file interrupted while it is embedded stays so.
2. `slots_ask_forever`: the attempts of a turn are read for `current_topic`, which the graph
   of a bot with one topic never returns and a turn that does not stream never sets; every
   turn counts from 0 and the limit is never reached.

### Fairness

Safety runs use `Spec`. Liveness runs use `FairSpec`:

- `Dispatcher`: weak fairness of each handler; `CrawlWorker`: of the loop and each runner;
  `EmbedPipeline`: of the steps of each request, the purge and the restart. The event loop and
  the thread pools run what is ready, and calls to the model, to Qdrant and to sites have
  timeouts, so they end, maybe with an error.
- `TopicSlots`: weak fairness of each turn. That the user keeps writing and that failures end
  one day (`Recover`) are premises of `RouterComesBack`, not assumptions of the specification.
- `Enrichment`: weak fairness of `Work`; its thread catches every exception.

Nothing obliges admins, platforms, users and crashes. No strong fairness is needed: a step
that is enabled stays so until it is taken or its process dies.

`CHECK_DEADLOCK FALSE` is in every run: when the events of an instance are used up, the
system rests.

## 4. Proofs

For any number of workers, requests, events, files, pages, chunks, attempts, turns, admins
and people, and with no bound on time, crashes or errors (`MaxTime`, `MaxDeliveries`,
`MaxRequests`, `Limit` and the like are any numbers).

`WebhookDedupeProofs`
- `TypeCorrect`, with the fact that a row has an expiry exactly while it is processing.
- `OneWinner` (nobody runs `cleanup`): no two running deliveries of an event wrote the same
  `attempts`. `OneWinnerPerAttempt` alone is not inductive: a retry about to update must not
  be able to write a value that somebody holds. `TokenInv` adds that the row exists
  (`RowPresent`), that no token is above the row's attempts (`Fenced`), and that what was read
  for the UPDATE could be taken over.
- `Exclusive`, `DoneStaysDone`, `DropsAreJustified` (also `Hold < TTL`): from `LeaseInv`,
  which adds that a busy delivery is within `Hold` of its claim (`ClaimInTime`), that the row
  carries the claim of the one that runs (`LeaseHeld`) and that a row read for an UPDATE is
  current or overtaken (`ReadIsCurrent`). A live holder's lease is then live, so nobody finds
  its row reclaimable.
- `LeasesOutliveCleanup` (`TTL <= Retention`, five minutes and a day in the code): a row in
  processing expires `TTL` after it was received (`RowsDated`), since one statement writes
  both, and only cleanup takes rows away.
- `ImplementsEventLease`: under the assumptions of `Exclusive` every step maps to a step of
  `EventLease` or to none. A claim that wins is `Acquire`, `MarkDone` is `Finish`,
  `MarkFailed` and `Crash` are `Release`.

`DispatcherProofs`
- `TypeCorrect`, one lemma per helper and one step per action.
- `CountExact`: `_inflight` is the number of requests in the background and at most the cap.
  Each action moves at most one request, and `EnterBackground` and `LeaveBackground` are the
  only ones that cross the border.
- `Delivered` and `GapFree` (events have ids of their own, `OwnKeys`): on async channels done
  means every chunk arrived, and no gap is ever seen on any channel. `Progress` is the
  strengthening: what a request at each `pc` has achieved. Retries, crashes and lost acks keep
  it since `got` only grows.
- `LeasesHeld`, from no hypothesis: every row in processing belongs to a request that will mark
  it, or its last claim ended on one of the paths that mark nothing (`unmarked`). The proof
  goes through every action by what it does to the row and to its request, so it is a list of
  those paths that is complete.
- `HandlersImplementLease` (`Hold < TTL`, nothing else: crashes, malformed events and shared
  event ids included): every step of `Dispatcher` is a step of `EventLease` or none. A claim
  that wins is `Acquire`; `mark_done` is `Finish`; `mark_failed` and the paths that mark
  nothing are `Release`; a crash, which takes every request with it, is `Die`. `LeaseInv` says
  that a request between claim and mark (`Holding`) finds its row in processing with the
  expiry it wrote, and is alone with it. Each action lets its lease go, keeps it, or takes
  what is free by the table (`Lets`, `Goes`, `Takes`), so the invariant and the refinement are
  three cases each. What is sent after the mark (`canned`, `extra`) must not mark again, which
  is what the run's mutant does.

`OnceProofs`
- `NeverTwice` (`Calm`: no crash, sends succeed, acks are seen, own ids, `Hold < TTL`): nobody
  is answered twice. `OnceInv` adds that a request at work knows its row and what is left to
  send (`Knows`), that one request works on an event at a time (`Sole`), and that only a done
  event, or one that is being sent, has brought anything (`Sent`).

`CrawlProofs`
- `NoneLeftBehind` and `SettledOnce`, for any site, budget and concurrency. `IInv` is `Types`,
  `Runs` (a page in flight has its runner while the loop lives), `Places` (runners are
  counted by the places of the loop) and `Ending` (what the loop knows when it leaves). The
  crash actions are each proved from the statement at which they cut.
- `CountersRight`: the counters of a job against its pages. `Tally` is the strengthening: the
  counters balance up to one for each crash (`Follows`), ids number the rows in the order of
  insertion, only skipped pages say "max pages" (`Numbered`), and the pages taken up fit the
  budget. The helpers that write rows get lemmas on what they do to the number of pages in
  each state (`AddedBooks`, `MovedBooks`, `ResetBooks`, `SeededBooks`), so each action is
  three facts.

`EmbedPipelineProofs`
- `TypeCorrect`, again one lemma per helper and one step per action.
- `NobodyForgotten`: until the process dies, a row in `pending` or `embedding` is ahead of
  some request (`UnsettledIsAhead`). `Awaited` says so of the whole table; it needs that
  requests have no embeds before they queue them (`TasksLast`) and that only a crash brings
  the process down (`DownCrashed`). `StepPays` says what one request owes: a row that it
  leaves unsettled is ahead of it, or was unsettled and not its own.
- `NothingOrphaned`: no points without a row, outside `met` and unless the purge that took the
  bot's row failed to drop them.
  `OrphanInv` is the strengthening: two requests share only files in `met` (`Alone`); a
  request that embeds a file alone knows that it has a row, and one about to delete a row
  that it has no points (`Known`); a purge beyond its vectors left none (`Emptied`). A step
  changes only files that its request touches (`StepOrderly`), so what the others know stays.
- `SearchTrue`: `Stored` (until a crash a row has its upload), `Served` (a file that two
  requests never shared has one copy at most, and one that loads or upserts it finds none) and
  `Findable` (without errors, whoever takes away the points of a row that says embedded and has
  text will bring them back). A step leaves alone what other requests know (`ServesStay`).
- `PurgeLeavesNothing`, for any number of failing steps and interrupted purges: `Purged` ties
  what is left to the step the purge has reached and to the steps of it that failed, and `Rest`
  says that no request runs during it.

`ConversationProofs`
- `CountHolds`, `FeedHolds` and `HolderHolds`, from one invariant: the row exists for all who
  read it (`RowFits`), what a turn remembers of the holder is true (`TurnFits`), admins that
  did not overlap are alone (`Alone`), the count is behind the messages by those whose write
  is pending (`Counting`), and a message of the user is stored once and before its answer
  (`Stored`).
- `FreshHolds` and `HandlersHold`, for any number of bots, from `RuntimeInv` of the bot whose
  part it is (`AllInv`). Each condition of the properties has its own strengthening. If no two
  turns of a user met, the user's other sessions are doomed by the turn that opens one, then
  gone (`UsersApart`). If no save met a turn (`SavesApart`), what a turn is about to remove or
  to fetch is still there (`TurnsSure`), what it carries is the row, and what a save has not
  dropped yet is on its list (`Freshening`, with one process). If no two saves of the
  configuration met, the one about to be written succeeds what the row holds
  (`SavesInOrder`). `FreshUnlessRaced` speaks of one process, since the code tells no other of
  a save; `HandlersHold` has no such bound. Processes and sessions are assumed to be finite.
- `CardsHold`, from `FiguresInv`. That the cards of one window agree (`CardsAgreeHolds`) holds
  of whatever is stored: the parts that a card shows are the classes of a map on the rows (or
  the sessions), and the classes of a finite set add up to it (`PartsMakeWhole`). The fold
  behind `Total` is met by one function only: of two that differ, take a least subset on which
  they do (`TotalUnfolds`, by `WFMin` of the library; no induction scheme is needed). The
  latencies in order are stated by ranks, each of which one message has (`Ranks`,
  `RanksTaken`). That the parts of one card add up while rows come and go needs `Tallied`: the
  count that a later one is a share of is at least what it would be now, since no step adds to
  what the card counts without `late` or, for deflections, `relabelled` (`CountsStand`).

`SideworkProofs`, one inductive invariant for each part of `Sidework` (a step is one of a
single part, `StepSideInv`); the lemmas before them say what Append, Tail and the removal of
an element do to a sequence that has nothing twice
- `AsksBounded`: `TalkInv`. Unless turns overlap, one is under way (`Alone`), a topic has
  asked once more at most than it counted, in the state it keeps or in the copy that a turn
  carries along (`Counted`), and what asks is the current topic or is about to become it
  (`Tied`, of the topics that asked and of those that are active). The second does not hold
  of a bot with one topic, whose turns read the counter of a topic that is never current.
- `LabelsNeverBackwards`: `EnrichInv`. Unless turns crossed, message numbers rise from the
  labels over the job in hand and the queue to the last one accepted (`LabelsInOrder`), and
  threads hold messages that are stored (`HoldsRows`).
- `FeedIsFaithful`: `FeedInv`. A stream is registered once, exactly while it is open, and two
  publishers never offer one event (`FeedPlaces`); what is shown and what waits in a queue is
  in order across both, and what is still offered is in neither (`FeedOrder`); what is due is
  shown, waiting, lost or on its way (`FeedKept`).
- `AlertsReachAll`, for any number of processes: `AlertsInv`, of each alert. A process takes it
  from the store once for each time it runs (`Placed`), and unless two schedulers met one
  process at most does (`Single`); the clock passes its time only in a bad minute (`OnTime`); an
  accepted alert is in the store, with a process, mailed or excused, and one that was handed
  over may leave the store (`NotLost`).

`AccessProofs`, again one inductive invariant for each part (`AllSteps`)
- `AccountsHold`: types, that a superadmin stays, that an owner stays but for the two cases
  that `LastOwnerStays` names (an admin is deleted; a change was written on a count that was
  out of date), and that accounts are made for open invitations, but for those revoked or
  used while the request held them. `Fits` says what a request may rely on at each `pc`
  unless it is `stale`. `Charge` carries the superadmin over the two commits of an update:
  one handler is on the event loop, and between its statements there is another superadmin
  than its target.
- `SignInHold`: `SignInInv`. What the process signs with is what is on disk, and so are the
  keys of all sessions (`OnDisk`); the password is under the key where sign-in looks
  (`HasPassword`); a login that came back has lost its state and has one code under way or one
  session (`CameBack`); the failures count the tries, and the lock ends its time after the
  last one (`LockFollows`).
- `HooksHold`: `InstallInv`. Rows have an account and a number each (`InstallRows`), a request
  works on a row it knows (`InstallWork`), and an account that is not marred is tended: its
  hook is that of its row or of a removed one, or the one request on it knows what the hook is
  and will set it (`Tended`).
- `TokensHold`: `TokensInv`. That an admin's secrets stay is said of those saved last, and
  not if they were saved during a refresh, which does overwrite them. Whoever asks knows the
  secrets it asks with up to a race (`Informed`), one of those who may rotate is at work
  (`OneRefreshes`), and what is stored and minted is of the generation and age it says
  (`TokensKept`, `RefreshCounts`).
- `KeysHold`: `KeysInv`. What is cached was served when it was fetched (`KeysCached`), and a
  refresh that was attempted is under way, has fetched or has failed (`Attempted`). It needs
  the intervals in the code's order: 30 s after a failure, 60 s between forced refreshes, 24 h
  of cache (`Cooldown <= Interval <= TTL`, `KeysAssumption`).

The assumptions are hypotheses of the theorems, not of the modules. `OwnKeys` is real: with
shared ids `Delivered` is false. `Hold < TTL` is what the code hopes for, and `Calm` leaves out
what makes any sender repeat itself. Where the code breaks a promise, the theorem does not
assume the case away: the property names the history in which the promise is void (section 3).

Every invariant and every action property that a passing run checks is a theorem. Only
model-checked are the liveness properties (`AckedIsAnswered`, `PlacesComeBack`, `RunsEnd`,
`RouterComesBack`, and that the enrichment queue is worked off): the prover does neither
fairness nor ENABLED.

## 5. Where the code and its documents part

Met while reading or model-checking. Most are modelled and are the reason for a condition in
a property; only the two of section 3 have a run of their own.

Webhooks and the dispatcher
- A delivery that outlives its lease marks by key alone: `mark_failed` turns `done` into
  `failed`, and the event is answered again.
- A crash after the async ack loses the message ("the user is never ghosted",
  `dispatcher.py:15`); a retry acked as concurrent settles the event, and when the
  original is shed nobody answers.
- `cleanup` has no caller, though its docstring speaks of a daily run.
- A sync reply lost with its response is gone; chunks after a sync answer may be lost
  silently; Telegram's update ids are claimed without the bot they belong to.
- An event that cannot be parsed, an answer that `_prepare_outgoing` cannot handle, a
  `TimeoutError` of the agent on a channel without a window (the branch at `dispatcher.py:467`
  takes it for the window's) and a channel disabled before the task begins leave the row in
  processing: retries are acked as concurrent for five minutes, and nobody apologises.

Crawls, files and purges
- "We've already discovered more than max_pages; skip the overflow" (`crawl_worker.py:481`)
  skips every page claimed from then on, also those within the first `max_pages`.
- Pause and resume during the final gather completes a job with queued pages.
- Two embeds of a file double its chunks; deleting a file while it is embedded leaves its
  points; `reindex_all` and a crash leave rows that say embedded without points.
- "partial failures resume cleanly" (`bot_purge.py:6`): each step of `purge_one` swallows its
  failure, the row goes all the same, and no later sweep finds the bot; the comment at
  `admin_bots.py:348` expects otherwise. `PurgeIsWhole` says what is left then, and that a purge
  cut off before the row is gone does resume.
- `concurrency` of a crawl is not checked to be positive (`admin_bot_files.py:435`); with 0
  the loop would wait for ever. `CrawlWorker` assumes it positive.

Conversations
- `chat.py:176` calls `get_flow_graph()` without the bot it requires: that route always fails.
- `upsert_on_message` returns before it publishes on a session's first message; it selects
  then inserts where its docstring (`emly_sessions.py:91`) promises ON CONFLICT.
- Deleting a message does not lower `turn_count`, which then exceeds the messages that are left.
- A read of the takeover flag that fails is swallowed (`agent_service.py:99`), and the bot
  answers a session that an admin holds.
- A save without `expected_version` is not checked against what others saved
  (`admin_bot_dashboard.py:1079`).
- A user's older sessions are found by key prefix (`conversation_agent.py:1294`): where ids
  are chosen freely, "one active session per user-on-bot" also ends sessions of a user whose
  id begins alike.
- The comment "any worker polls the row's version" (`bots.py:158`) describes nothing that is
  done: other processes keep their runtimes until they expire.
- A full enrichment queue drops the newest message, the documentation says the oldest;
  `enrichment_enabled` is no field of `BotConfigV1`; `start_worker` does nothing while the old
  thread is still stopping.

Analytics
- "Nearest-rank percentile" rounds half to even: the median of five samples is the second,
  p95 of eleven the tenth.
- `list_bots_summary` reuses the previous bot's report when one fails, names the count of all
  sessions `sessions_24h`, and compares local time with UTC rows, as the impressions do.
- A cleared rating still counts as rated in the session filter, not in the report; the admin's
  override can rate a user's message.
- The funnel's "each later step is a subset of started" fails when a session with an earlier
  stamp is inserted between the queries; the rate of deflection can exceed 1 when a flag is
  set between the two counts.

Accounts and sign-in
- A deleted admin cannot be invited again: the consumed invitation keeps the e-mail, which is
  unique. The "idempotent" bootstrap (`main.py:150`) raises for a deleted bootstrap admin, so
  the process does not boot. Its password, printed "exactly once", is lost if the process dies
  between the upsert and the log.
- The transaction at `admin_bots.py:415` does not stop two owners who demote each other at
  READ COMMITTED, as its comment says.
- A one-time password never expires (`otp_auth.py:99` computes the expiry from now). After a
  lock has ended one failure locks again; activation of the account resets a running lock.
- Login states and codes that nobody collects are never swept. The callback imports a constant
  that does not exist, so `space_invites` is always empty.

Channels
- The WhatsApp OAuth callback always fails (`channels.py:177`). After a refresh whose answer
  has no expiry the old one stays, and every send refreshes again.
- A refresh writes back the secrets it read before it, and an admin's save meanwhile is lost.
  `PUT /secrets` leaves cached tokens, so a health check of wrong secrets passes for up to an
  hour, and on Telegram loses the bot's id, its name and the webhook's secret.
- A soft-deleted channel still blocks another install with 409. A hard delete "revokes
  platform-side state" by its comment (`admin_bot_channels.py:402`), but calls
  `auth.revoke`, a no-op for Telegram's static token (`channels/auth/base.py:63`);
  `TelegramAdapter.revoke`, which asks for `deleteWebhook`, has no caller. The purge of a
  bot cascades to the channel rows in the same way.
- The cool-down that `jwt_verifier.py:40` explains is checked neither again by those who
  waited for the lock nor by a forced refresh.

Others
- The schedulers of several workers read one `actions.db` without a lock (`actions.py:116`),
  so two may mail the same alert, and the one that comes second to remove it ends with
  `JobLookupError`; an address twice in `alert_emails` is mailed twice.
- The scheduler drops alerts that waited more than one second for a thread; `update_user`
  schedules its mail before the event is stored, so a failing request mails at each retry;
  `_insert_user_race_safe` swaps longitude and latitude; the cached user report is stale after
  a change of the details; the grace of a rotated widget key compares naive with aware times (no
  production code calls it).

## 6. What is not modelled

- Errors of the database itself except where "store" is a fault, full disks, and clocks that
  go back or differ.
- The content of messages, pages, prompts and vectors: an outcome is a choice.
- Cryptography: a signature, a code or a token is right or not.
- Time, but for leases, expiries and windows: politeness delays, backoff, the days of grace.
- `CrawlWorker`: two jobs of one bot (they meet only in its files), robots rules and the
  host allow-list (one choice, "unfit"), a second process with a crawler.
- `EmbedPipeline`: quotas in bytes, crawled files (they enter as files embedded before), the
  agent's searches.
- `BotRuntime` and `TopicSlots`: several processes (one suffices for what is promised, others
  keep their runtimes until they expire), prompts, retrieval, the texts of commands.
- `SessionTurns` and `Analytics`: lists, transcripts, exports and the search preview, the
  classifier of deflections, impressions and token sums, the summary over all bots.
- `AdminLifecycle` and `SignIn`: the audit log, the editing of a bot's own fields, sign-in at an
  external issuer, password changes, one-time passwords by mail.
- `ChannelInstall`, `ChannelTokens` and `SigningKeys`: the OAuth redirect, the encryption of
  secrets, the platforms' formats, keys that cannot be converted.
- The widget's accounts of visitors, its CORS and its tokens; templates and creation of bots
  (single-row writes); the page fetcher (I/O, its outcomes are choices of `CrawlWorker`);
  migrations, which run before the program serves; the TypeScript front ends, which render.

## 7. What could come next

- A composition of `CrawlWorker` with `EmbedPipeline` through the file rows: what the crawler
  takes for an embed is the embed of the pipeline. One of `SessionTurns` with `TopicSlots`,
  in which the takeover and the slots meet.
- `EventLease` for the token refresh (one refresher at a time), and a mutual exclusion of bot
  and admin over a session as the abstract side of `HolderDecides`.
- Proofs: that the requests of several processes, each a `Dispatcher`, keep `EventLease` when
  their claims interleave as in `WebhookDedupe`; each module has its own half of that.
- Several processes in `BotRuntime`, the visitors' one-time passwords, and the chunking of
  texts as an operator against a reference definition.
