------------------------------ MODULE Sidework ------------------------------
(***************************************************************************)
(* TopicSlots, Enrichment, LiveFeed and FormAlerts, side by side: a        *)
(* behaviour is one of a single part, the others rest.                     *)
(***************************************************************************)
EXTENDS Integers

CONSTANTS Turn, Streamed, Topic, FirstTopic, Direct, Slots, MaxAttempts, NoTopic,
          Field, Places, MaxMessage, MaxRestart,
          Publisher, Stream, MaxEvent, MaxStray, Capacity, Faults,
          Process, Form, ServedBy, ListEntry, Listed, Pool, Delay, Grace, MaxMinute, MaxStop

VARIABLES part,
          current, filled, slotState, slotTurn, asked, past, reliable,
          enabled, rows, turn, queue, worker, label, restarts, raced, latest,
          subs, box, stream, stray, pub, events, seen, lost, due, before,
          minute, stops, up, lives, forms, talked, jobs, dueAt, sched, pool, mails,
          met, badTill

Talk == INSTANCE TopicSlots WITH turn <- slotTurn
Enrich == INSTANCE Enrichment WITH Capacity <- Places
Feed == INSTANCE LiveFeed
Alerts == INSTANCE FormAlerts WITH due <- dueAt

ASSUME SideworkAssumption ==
  /\ Talk!TopicsAssumption /\ Enrich!EnrichmentAssumption
  /\ Feed!FeedAssumption /\ Alerts!AlertsAssumption

talkVars == <<current, filled, slotState, slotTurn, asked, past, reliable>>
enrichVars == <<enabled, rows, turn, queue, worker, label, restarts, raced, latest>>
feedVars == <<subs, box, stream, stray, pub, events, seen, lost, due, before>>
alertVars == <<minute, stops, up, lives, forms, talked, jobs, dueAt, sched, pool, mails,
               met, badTill>>
vars == <<part, talkVars, enrichVars, feedVars, alertVars>>

Init ==
  /\ part \in {"talk", "enrich", "feed", "alerts"}
  /\ Talk!Init /\ Enrich!Init /\ Feed!Init /\ Alerts!Init
  /\ part # "enrich" => enabled

OfTalk(A) == part = "talk" /\ A /\ UNCHANGED <<part, enrichVars, feedVars, alertVars>>
OfEnrich(A) == part = "enrich" /\ A /\ UNCHANGED <<part, talkVars, feedVars, alertVars>>
OfFeed(A) == part = "feed" /\ A /\ UNCHANGED <<part, talkVars, enrichVars, alertVars>>
OfAlerts(A) == part = "alerts" /\ A /\ UNCHANGED <<part, talkVars, enrichVars, feedVars>>

Next ==
  OfTalk(Talk!Next) \/ OfEnrich(Enrich!Next) \/ OfFeed(Feed!Next) \/ OfAlerts(Alerts!Next)

Spec == Init /\ [][Next]_vars

(* The fairness each module states.                                         *)
FairSpec ==
  /\ Spec
  /\ \A t \in Turn : WF_vars(OfTalk(Talk!TurnStep(t)))
  /\ WF_vars(OfEnrich(Enrich!Work))

-----------------------------------------------------------------------------
(* TopicSlots: a topic asks MAX_SLOT_FILLING_ATTEMPTS times in a row at most,
   and one topic at a time.                                                 *)
AsksWithinLimit == Talk!TypeOK /\ Talk!AsksWithinLimit

(* TopicSlots: who keeps writing gets back to the router.                   *)
RouterComesBack == Talk!RouterComesBack

(* Enrichment: the queue is worked off, and a label never goes back to an
   earlier message (_worker_loop).                                          *)
LabelsSettle == Enrich!QueueDrains /\ Enrich!NeverBackwards

(* LiveFeed: an event is lost to an open stream only by a full queue or a
   thread that was given up on, and is shown in its order and once.         *)
FeedFaithful == Feed!TypeOK /\ Enrich!TypeOK /\ Feed!FeedFaithful

(* FormAlerts: an accepted form is mailed to every entry of its list, unless a
   process was down or its threads busy when it was due, and once, unless two
   workers' schedulers had it at a time (send_email_with_attachments and the
   job store that all workers share).                                       *)
AlertsSound == Alerts!TypeOK /\ Alerts!AlertsSound
=============================================================================
