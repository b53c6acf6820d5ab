----------------------------- MODULE Dispatcher -----------------------------
(***************************************************************************)
(* channels/dispatcher.py in one process: webhook deliveries, the          *)
(* idempotency table of DedupeRow, the agent, the background tasks that    *)
(* send the reply, and the cap on tasks in flight.                         *)
(*                                                                         *)
(* A request is one run of handle_inbound together with the background     *)
(* task it leaves behind.  Handlers are coroutines of one event loop and   *)
(* the table is read and written synchronously, so everything between two  *)
(* awaits is one action: in particular claim, and the test and increment   *)
(* of _inflight under its lock.                                            *)
(*                                                                         *)
(* The platform sends an event again as long as it has seen no 2xx answer: *)
(* an event whose 2xx answer it saw is settled.                            *)
(***************************************************************************)
EXTENDS DedupeRow, FiniteSets

CONSTANTS
  Request,        \* runs of handle_inbound that may be live at once
  Event,          \* what users and platforms post
  Key,            \* event ids
  KeyOf,          \* extract_event_id, [Event -> Key \cup {NoKey}]
  NoKey,          \* "return None to skip dedupe"
  Kinds,          \* what events may hold
  Channel,        \* bot_channels
  ChanOf,         \* _resolve_channel, [Event -> Channel]
  Modes,          \* how channels may be set to reply
  Chunks,         \* messages that an answer is cut into
  MaxInflight,    \* _MAX_INFLIGHT
  MaxSend,        \* max_attempts of send_with_retry
  Faults,         \* which of FaultKinds happen
  Nobody,         \* the owner, in EventLease, of an event nobody works on
  Hold,           \* a request ends at most Hold ticks after its claim
  MaxTime,        \* bound: the clock stops there
  MaxDeliveries   \* bound: deliveries of one event

FaultKinds ==
  {"crash", "send", "agent", "format", "channel", "signature", "lostAck"}

(* _resolve_reply_mode; "timed" is sync with a sync_response_timeout. *)
ReplyModes == {"async", "sync", "timed"}

EventKinds == {"message", "canned", "ignored", "malformed"}

(* A channel may be disabled, lack its external_id, or be deleted. *)
ChannelStates == {"ok", "inactive", "incomplete", "deleted"}

ASSUME DispatcherAssumption ==
  /\ KeyOf \in [Event -> Key \cup {NoKey}] /\ NoKey \notin Key
  /\ Kinds \subseteq EventKinds /\ Faults \subseteq FaultKinds
  /\ ChanOf \in [Event -> Channel] /\ Modes \subseteq ReplyModes
  /\ Chunks \in Nat \ {0} /\ MaxInflight \in Nat \ {0} /\ MaxSend \in Nat \ {0}
  /\ Hold \in Nat /\ MaxTime \in Nat /\ MaxDeliveries \in Nat
  /\ IsFiniteSet(Request) /\ Nobody \notin Request

VARIABLES
  now,       \* the clock
  row,       \* webhook_event_dedupe: Key -> Rows
  kind,      \* what parse_inbound makes of an event
  mode,      \* the reply mode of a channel
  chan,      \* the state of a channel's row
  inflight,  \* _inflight
  req,       \* the requests: Request -> Requests \cup {Idle}
  sent,      \* deliveries of an event so far
  settled,   \* events whose 2xx answer the platform saw
  got,       \* what the user received: Event -> [Items -> Nat]
  unmarked   \* history: ids whose last claim ended without a mark

vars == <<now, row, kind, mode, chan, inflight, req, sent, settled, got, unmarked>>

(* Item 0 is DEFAULT_ERROR_REPLY, item i the i-th chunk of the answer. *)
Items == 0 .. Chunks

Unanswered == {"verify", "parse", "sync"}
Background == {"queued", "agent", "send", "sorry"}    \* counted in _inflight
Sending == {"send", "sorry", "extra", "canned"}

(* Where a request is, its event, the channel it resolved, when it began or  *)
(* claimed, the item it sends and the attempt of send_with_retry.            *)
Requests ==
  [pc : Unanswered \cup Background \cup Sending, ev : Event,
   snap : ChannelStates, at : Nat, item : Items, try : 1 .. MaxSend]

Idle == [pc |-> "idle"]

(* Where a request has claimed its event and has not marked it.  What sends  *)
(* the canned reply or the rest of a sync answer comes after the mark.       *)
Holding == {"parse", "sync"} \cup Background

Counted == {r \in Request : req[r].pc \in Background}

TypeOK ==
  /\ now \in Nat
  /\ row \in [Key -> Rows]
  /\ kind \in [Event -> EventKinds]
  /\ mode \in [Channel -> ReplyModes]
  /\ chan \in [Channel -> ChannelStates]
  /\ inflight \in Nat
  /\ req \in [Request -> Requests \cup {Idle}]
  /\ sent \in [Event -> Nat]
  /\ settled \in SUBSET Event
  /\ got \in [Event -> [Items -> Nat]]
  /\ unmarked \in SUBSET (Key \cup {NoKey})

Init ==
  /\ now = 0
  /\ row = [k \in Key |-> NoRow]
  /\ kind \in [Event -> Kinds]
  /\ mode \in [Channel -> Modes]
  /\ chan = [c \in Channel |-> "ok"]
  /\ inflight = 0
  /\ req = [r \in Request |-> Idle]
  /\ sent = [e \in Event |-> 0]
  /\ settled = {}
  /\ got = [e \in Event |-> [i \in Items |-> 0]]
  /\ unmarked = {}

-----------------------------------------------------------------------------
(* Effects shared by the actions. *)

Goto(r, p) == req' = [req EXCEPT ![r].pc = p]

End(r) == req' = [req EXCEPT ![r] = Idle]

KeyR(r) == KeyOf[req[r].ev]
ModeR(r) == mode[ChanOf[req[r].ev]]

(* The row that BotChannels.get_by_id reads for r's channel. *)
ChanR(r) == chan[ChanOf[req[r].ev]]

(* WebhookEventDedupes.mark_done / mark_failed, "if dedupe_key". *)
Mark(r, s) ==
  row' = IF KeyR(r) = NoKey THEN row
         ELSE [row EXCEPT ![KeyR(r)] = Marked(@, s)]

(* r ends without a mark of its event. *)
Strand(r) == unmarked' = unmarked \cup {KeyR(r)}

(* The request is answered with 2xx; the platform may fail to see it. *)
Ack(r) ==
  \/ settled' = settled \cup {req[r].ev}
  \/ "lostAck" \in Faults /\ UNCHANGED settled

(* ... and the body carries item i to the user. *)
Reply(r, i) ==
  \/ /\ settled' = settled \cup {req[r].ev}
     /\ got' = [got EXCEPT ![req[r].ev][i] = @ + 1]
  \/ "lostAck" \in Faults /\ UNCHANGED <<settled, got>>

(* An HTTPException, or an exception that becomes a 500. *)
Refuse(r) == End(r) /\ UNCHANGED settled

(* Mutants of EnterBackground: the event is shed without releasing its row;  *)
(* the cap is tested with > instead of >=.                                   *)
EnterBackgroundNoMark(r) ==
  \/ inflight >= MaxInflight /\ Refuse(r) /\ UNCHANGED <<row, inflight>>
  \/ /\ inflight < MaxInflight
     /\ inflight' = inflight + 1
     /\ Ack(r) /\ Goto(r, "queued") /\ UNCHANGED row

EnterBackgroundOffByOne(r) ==
  \/ /\ inflight > MaxInflight
     /\ Mark(r, "failed") /\ Refuse(r) /\ UNCHANGED inflight
  \/ /\ inflight <= MaxInflight
     /\ inflight' = inflight + 1
     /\ Ack(r) /\ Goto(r, "queued") /\ UNCHANGED row

(* The test and increment under _inflight_lock: shed the event, or take a    *)
(* place in the background and ack.                                          *)
EnterBackground(r) ==
  \/ /\ inflight >= MaxInflight
     /\ Mark(r, "failed") /\ Refuse(r) /\ UNCHANGED inflight
  \/ /\ inflight < MaxInflight
     /\ inflight' = inflight + 1
     /\ Ack(r) /\ Goto(r, "queued") /\ UNCHANGED row

(* Mutant of LeaveBackground: a task that ends keeps its place. *)
LeaveBackgroundKeepsPlace(r) == End(r) /\ UNCHANGED inflight

(* The "finally" of a background task: _inflight = max(0, _inflight - 1). *)
LeaveBackground(r) ==
  /\ inflight' = IF inflight > 0 THEN inflight - 1 ELSE 0
  /\ End(r)

StartSending(r, p, i) ==
  req' = [req EXCEPT ![r] = [@ EXCEPT !.pc = p, !.item = i, !.try = 1]]

-----------------------------------------------------------------------------
(* handle_inbound *)

(* The platform delivers e; _resolve_channel reads the channel row. *)
Receive(r, e) ==
  /\ req[r] = Idle
  /\ e \notin settled
  /\ sent[e] < MaxDeliveries
  /\ sent' = [sent EXCEPT ![e] = @ + 1]
  /\ LET c == chan[ChanOf[e]] IN
     \/ c \in {"inactive", "deleted"} /\ UNCHANGED req          \* 404
     \/ /\ c \notin {"inactive", "deleted"}
        /\ req' = [req EXCEPT ![r] =
                     [pc |-> "verify", ev |-> e, snap |-> c, at |-> now,
                      item |-> 0, try |-> 1]]
  /\ UNCHANGED <<now, row, kind, mode, chan, inflight, settled, got, unmarked>>

Proceed(r) == req' = [req EXCEPT ![r].pc = "parse", ![r].at = now]

(* verify_signature answers, then claim: a new or reclaimable event goes on, *)
(* any other is acked as a duplicate.                                        *)
Claim(r) ==
  /\ req[r].pc = "verify"
  /\ \/ "signature" \in Faults /\ Refuse(r) /\ UNCHANGED <<row, unmarked>>
     \/ KeyR(r) = NoKey /\ Proceed(r) /\ UNCHANGED <<row, settled, unmarked>>
     \/ /\ KeyR(r) # NoKey
        /\ LET old == row[KeyR(r)] IN
           \/ /\ old.status = "absent"
              /\ row' = [row EXCEPT ![KeyR(r)] = NewRow(now)]
              /\ Proceed(r) /\ unmarked' = unmarked \ {KeyR(r)} /\ UNCHANGED settled
           \/ /\ Reclaimable(old, now)
              /\ row' = [row EXCEPT ![KeyR(r)] = ReclaimedRow(old, now)]
              /\ Proceed(r) /\ unmarked' = unmarked \ {KeyR(r)} /\ UNCHANGED settled
           \/ /\ old.status = "done" \/ LiveLease(old, now)
              /\ Ack(r) /\ End(r) /\ UNCHANGED <<row, unmarked>>
  /\ UNCHANGED <<now, kind, mode, chan, inflight, sent, got>>

(* parse_inbound answers; everything up to the next await follows. *)
Parse(r) ==
  /\ req[r].pc = "parse"
  /\ LET k == kind[req[r].ev] IN
     \/ /\ k = "ignored"            \* nothing to answer, or the bot's own post
        /\ Mark(r, "done") /\ Ack(r) /\ End(r) /\ UNCHANGED inflight
     \/ /\ k = "canned"
        /\ Mark(r, "done") /\ Ack(r) /\ StartSending(r, "canned", 1)
        /\ UNCHANGED inflight
     \/ /\ k = "message" /\ req[r].snap = "incomplete"
        /\ Mark(r, "failed") /\ Refuse(r) /\ UNCHANGED inflight
     \/ /\ k = "message" /\ req[r].snap # "incomplete" /\ ModeR(r) # "async"
        /\ Goto(r, "sync") /\ UNCHANGED <<row, inflight, settled>>
     \/ /\ k = "message" /\ req[r].snap # "incomplete" /\ ModeR(r) = "async"
        /\ EnterBackground(r)
  /\ UNCHANGED <<now, kind, mode, chan, sent, got, unmarked>>

(* Mutant of SyncAnswer: the event is left processing. *)
SyncAnswerNoMark(r) ==
  /\ req[r].pc = "sync"
  /\ Reply(r, 1)
  /\ \/ Chunks > 1 /\ StartSending(r, "extra", 2)
     \/ Chunks = 1 /\ End(r)
  /\ UNCHANGED <<now, row, kind, mode, chan, inflight, sent, unmarked>>

(* The sync path waits for the agent, at most sync_response_timeout.  What   *)
(* does not fit in the answer is left to background tasks.                   *)
SyncAnswer(r) ==
  /\ req[r].pc = "sync"
  /\ Mark(r, "done") /\ Reply(r, 1)
  /\ \/ Chunks > 1 /\ StartSending(r, "extra", 2)
     \/ Chunks = 1 /\ End(r)
  /\ UNCHANGED <<now, kind, mode, chan, inflight, sent, unmarked>>

SyncFormatError(r) ==
  /\ req[r].pc = "sync" /\ "format" \in Faults
  /\ Mark(r, "failed") /\ Refuse(r)
  /\ UNCHANGED <<now, kind, mode, chan, inflight, sent, got, unmarked>>

(* The agent raised: apologise in the answer rather than with a 500. *)
SyncAgentError(r) ==
  /\ req[r].pc = "sync" /\ "agent" \in Faults
  /\ Mark(r, "failed")
  /\ \/ Reply(r, 0) /\ End(r)
     \/ "format" \in Faults /\ Refuse(r) /\ UNCHANGED got
  /\ UNCHANGED <<now, kind, mode, chan, inflight, sent, unmarked>>

(* Mutant of SyncTimeout: the answer is acked and no task waits for it. *)
SyncTimeoutForgets(r) ==
  /\ req[r].pc = "sync" /\ ModeR(r) = "timed"
  /\ Ack(r) /\ End(r)
  /\ UNCHANGED <<now, row, kind, mode, chan, inflight, sent, got, unmarked>>

(* The sync window is over: the agent goes on in the background. *)
SyncTimeout(r) ==
  /\ req[r].pc = "sync" /\ ModeR(r) = "timed"
  /\ EnterBackground(r)
  /\ UNCHANGED <<now, kind, mode, chan, sent, got, unmarked>>

(* An exception that nothing catches ends the request in a 500, or the task, *)
(* and no mark is made: parse_inbound raises; the agent itself raises        *)
(* TimeoutError where there is no window ("assert agent_task is not None");  *)
(* _prepare_outgoing raises on what the agent answered.                      *)
Escapes(r) ==
  /\ \/ req[r].pc = "parse" /\ kind[req[r].ev] = "malformed"
     \/ req[r].pc = "sync" /\ ModeR(r) = "sync" /\ "agent" \in Faults
     \/ req[r].pc \in {"sync", "agent"} /\ "format" \in Faults
  /\ \/ req[r].pc = "agent" /\ LeaveBackground(r)
     \/ req[r].pc # "agent" /\ End(r) /\ UNCHANGED inflight
  /\ Strand(r)
  /\ UNCHANGED <<now, row, kind, mode, chan, sent, settled, got>>

-----------------------------------------------------------------------------
(* _run_agent_and_send, _send_when_agent_done and _safe_send *)

(* The task reads the channel again; without a live one it just ends. *)
StartBackground(r) ==
  /\ req[r].pc = "queued"
  /\ \/ ChanR(r) \in {"inactive", "deleted"} /\ LeaveBackground(r) /\ Strand(r)
     \/ /\ ChanR(r) \notin {"inactive", "deleted"}
        /\ Goto(r, "agent") /\ UNCHANGED <<inflight, unmarked>>
  /\ UNCHANGED <<now, row, kind, mode, chan, sent, settled, got>>

(* The agent answers, or raises and the user gets an apology. *)
AgentReturns(r) ==
  /\ req[r].pc = "agent"
  /\ \/ StartSending(r, "send", 1)
     \/ "agent" \in Faults /\ StartSending(r, "sorry", 0)
  /\ UNCHANGED <<now, row, kind, mode, chan, inflight, sent, settled, got, unmarked>>

(* What follows a send that succeeded.  The extra chunks and the canned      *)
(* reply are tasks of _safe_send, which marks nothing.                       *)
AfterSend(r) ==
  LET pc == req[r].pc
      i  == req[r].item
  IN \/ /\ pc \in {"send", "extra"} /\ i < Chunks
        /\ StartSending(r, pc, i + 1) /\ UNCHANGED <<row, inflight>>
     \/ /\ pc = "send" /\ i = Chunks
        /\ Mark(r, "done") /\ LeaveBackground(r)
     \/ /\ pc = "sorry"
        /\ Mark(r, "failed") /\ LeaveBackground(r)
     \/ /\ pc = "canned" \/ (pc = "extra" /\ i = Chunks)
        /\ End(r) /\ UNCHANGED <<row, inflight>>

(* Mutant of AfterFailedSend: a chunk that is given up is skipped. *)
AfterFailedSendSkips(r) == AfterSend(r)

(* Mutant of AfterFailedSend: the rest of a sync answer marks its event, too. *)
AfterFailedSendReopens(r) ==
  \/ /\ req[r].pc = "send"
     /\ Mark(r, "failed") /\ LeaveBackground(r)
  \/ /\ req[r].pc = "extra"
     /\ Mark(r, "failed") /\ End(r) /\ UNCHANGED inflight
  \/ req[r].pc \notin {"send", "extra"} /\ AfterSend(r)

(* Mutant of AfterFailedSend: the task returns and leaves its event locked. *)
AfterFailedSendNoMark(r) ==
  \/ req[r].pc = "send" /\ LeaveBackground(r) /\ UNCHANGED row
  \/ req[r].pc # "send" /\ AfterSend(r)

(* What follows a send that was given up: only the answer's own chunks make  *)
(* the event fail, every other failure is suppressed.                        *)
AfterFailedSend(r) ==
  \/ /\ req[r].pc = "send"
     /\ Mark(r, "failed") /\ LeaveBackground(r)
  \/ req[r].pc # "send" /\ AfterSend(r)

Receives(r) == got' = [got EXCEPT ![req[r].ev][req[r].item] = @ + 1]

(* _safe_send starts by reading the channel and returns when it is deleted. *)
ChannelGone(r) ==
  req[r].pc \in {"extra", "canned"} /\ req[r].try = 1 /\ ChanR(r) = "deleted"

SkipSend(r) ==
  /\ ChannelGone(r)
  /\ AfterSend(r)
  /\ UNCHANGED <<now, kind, mode, chan, sent, settled, got, unmarked>>

(* One attempt of send_with_retry.  A retried attempt may have reached the   *)
(* user (a response lost after delivery) or not.                             *)
SendOK(r) ==
  /\ req[r].pc \in Sending /\ ~ ChannelGone(r)
  /\ Receives(r)
  /\ AfterSend(r)
  /\ UNCHANGED <<now, kind, mode, chan, sent, settled, unmarked>>

SendRetry(r) ==
  /\ req[r].pc \in Sending /\ ~ ChannelGone(r) /\ "send" \in Faults
  /\ req[r].try < MaxSend
  /\ req' = [req EXCEPT ![r].try = @ + 1]
  /\ Receives(r) \/ UNCHANGED got
  /\ UNCHANGED <<now, row, kind, mode, chan, inflight, sent, settled, unmarked>>

(* The last attempt failed, or the platform refused for good. *)
SendFails(r) ==
  /\ req[r].pc \in Sending /\ ~ ChannelGone(r) /\ "send" \in Faults
  /\ AfterFailedSend(r)
  /\ UNCHANGED <<now, kind, mode, chan, sent, settled, got, unmarked>>

-----------------------------------------------------------------------------
(* The environment *)

(* The process dies and restarts: every request is gone, the table stays. *)
Crash ==
  /\ "crash" \in Faults
  /\ \E r \in Request : req[r] # Idle
  /\ req' = [r \in Request |-> Idle]
  /\ inflight' = 0
  /\ unmarked' = unmarked \cup {KeyR(r) : r \in {q \in Request : req[q].pc \in Holding}}
  /\ UNCHANGED <<now, row, kind, mode, chan, sent, settled, got>>

(* An admin disables, enables, completes or deletes the channel. *)
SetChannel(c, s) ==
  /\ "channel" \in Faults
  /\ chan[c] \notin {s, "deleted"}
  /\ chan' = [chan EXCEPT ![c] = s]
  /\ UNCHANGED <<now, row, kind, mode, inflight, req, sent, settled, got, unmarked>>

Tick ==
  /\ now < MaxTime
  /\ \A r \in Request : req[r] # Idle => now < req[r].at + Hold
  /\ now' = now + 1
  /\ UNCHANGED <<row, kind, mode, chan, inflight, req, sent, settled, got, unmarked>>

Handle(r) ==
  \/ Claim(r) \/ Parse(r)
  \/ SyncAnswer(r) \/ SyncFormatError(r) \/ SyncAgentError(r) \/ SyncTimeout(r)
  \/ Escapes(r)
  \/ StartBackground(r) \/ AgentReturns(r)
  \/ SkipSend(r) \/ SendOK(r) \/ SendRetry(r) \/ SendFails(r)

Next ==
  \/ \E r \in Request : Handle(r) \/ \E e \in Event : Receive(r, e)
  \/ Crash
  \/ \E c \in Channel, s \in ChannelStates : SetChannel(c, s)
  \/ Tick

Spec == Init /\ [][Next]_vars

(* The event loop runs every ready coroutine, and the agent returns: it is   *)
(* called with the timeouts of its HTTP clients.                             *)
FairSpec == Spec /\ \A r \in Request : WF_vars(Handle(r))

-----------------------------------------------------------------------------
(* Properties *)

(* _inflight is the number of background tasks that have not ended, on every *)
(* path out of them, and never exceeds its cap.                              *)
InflightExact == inflight = Cardinality(Counted) /\ inflight <= MaxInflight

Async(e) == mode[ChanOf[e]] = "async"

(* On an async channel a message marked done was delivered whole: mark_done  *)
(* comes after the last chunk only.                                          *)
DoneMeansDelivered ==
  \A e \in Event :
    /\ Async(e) /\ kind[e] = "message"
    /\ KeyOf[e] # NoKey /\ row[KeyOf[e]].status = "done"
    => \A i \in 1 .. Chunks : got[e][i] > 0

(* On an async channel the user never sees a part of an answer without the   *)
(* parts before it, with retries, crashes and redeliveries in between.       *)
NoGap ==
  \A e \in Event, i \in 2 .. Chunks :
    Async(e) /\ got[e][i] > 0 => got[e][i - 1] > 0

Works(r, k) == req[r].pc \in Holding /\ KeyR(r) = k

Owner(k) ==
  IF \E r \in Request : Works(r, k) THEN CHOOSE r \in Request : Works(r, k) ELSE Nobody

Lease == INSTANCE EventLease
           WITH Worker <- Request, Event <- Key,
                owner <- [k \in Key |-> Owner(k)],
                closed <- {k \in Key : row[k].status = "done"}

(* One request at a time works on an event id, from its claim to its mark or *)
(* to whatever ends it without one, and an event that is marked done stays   *)
(* done: mark_done and mark_failed are by key alone, so it is the handlers   *)
(* and tasks that must only mark what they still own.                        *)
HandlesAsLease == Lease!Spec

(* A row that says processing has a request that still works on its event,   *)
(* or its last claim ended on one of the paths that mark nothing: the        *)
(* process died, an exception escaped, or the channel was disabled before    *)
(* the task began.  No answer, apology, refusal, overload, timeout or failed *)
(* send, of this delivery or of one that overlaps with it, leaves a lease    *)
(* behind for which the platform's retries would be dropped as concurrent.   *)
NoOrphanLease ==
  \A k \in Key : row[k].status = "processing" /\ k \notin unmarked
    => \E r \in Request : Works(r, k)

(* The answer reaches the user at most once, however often the platform      *)
(* delivers the event, as long as no send fails and the process lives.       *)
AnsweredOnce == \A e \in Event, i \in 1 .. Chunks : got[e][i] <= 1

(* "Error fallback so the user is never ghosted": once the platform has seen *)
(* a message acked, the user gets all of the answer or the apology.          *)
Answered(e) == got[e][0] > 0 \/ \A i \in 1 .. Chunks : got[e][i] > 0

AckedIsAnswered ==
  \A e \in Event : kind[e] = "message" /\ e \in settled ~> Answered(e)

(* Places in the background come back, whatever fails. *)
PlacesComeBack == []<>(inflight < MaxInflight)
=============================================================================
