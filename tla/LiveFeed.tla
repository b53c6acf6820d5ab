------------------------------ MODULE LiveFeed ------------------------------
(***************************************************************************)
(* The live feed of one bot (services/realtime.py and the stream of        *)
(* routes/admin_bot_realtime.py).  A stream registers a bounded queue; a   *)
(* publisher copies the list of queues under the lock and offers the event *)
(* to each of them after it; the stream waits for its queue in a thread    *)
(* that it may give up on, and that then goes on by itself.                *)
(***************************************************************************)
EXTENDS Naturals, Sequences, FiniteSets, SequencesExt

CONSTANTS Publisher,  \* threads that publish
          Stream,     \* connections of admins, each used once
          Capacity,   \* _QUEUE_MAX of realtime.py
          MaxEvent,   \* bound: events published
          MaxStray    \* bound: threads a stream gave up on

FeedAssumption ==
  Capacity \in Nat \ {0} /\ MaxEvent \in Nat /\ MaxStray \in Nat

VARIABLES subs,    \* _SUBSCRIBERS[bot]: the streams registered, in order
          box,     \* the queue of each stream
          stream,  \* where each stream is
          stray,   \* threads that a stream gave up on, still in queue.get
          pub,     \* the publishers: the event and the queues left to offer to
          events,  \* events published so far
          seen,    \* history: what each stream sent to its client
          lost,    \* history: dropped by a full queue or taken by a stray
          due,     \* history: published while the stream was open
          before   \* history: the events offered to all when one was published

vars == <<subs, box, stream, stray, pub, events, seen, lost, due, before>>

Event == 1..MaxEvent
Quiet == [event |-> 0, left |-> <<>>]
Open(s) == stream[s] \in {"open", "loop", "wait"}
Goto(s, pc) == stream' = [stream EXCEPT ![s] = pc]

Init ==
  /\ subs = <<>> /\ box = [s \in Stream |-> <<>>]
  /\ stream = [s \in Stream |-> "closed"]
  /\ stray = [s \in Stream |-> 0]
  /\ pub = [p \in Publisher |-> Quiet] /\ events = 0
  /\ seen = [s \in Stream |-> <<>>]
  /\ lost = [s \in Stream |-> {}] /\ due = [s \in Stream |-> {}]
  /\ before = [e \in Event |-> {}]

(* subscribe, in the handler of the request, ahead of the generator.        *)
Connect(s) ==
  /\ stream[s] = "closed"
  /\ subs' = Append(subs, s) /\ Goto(s, "open")
  /\ UNCHANGED <<box, stray, pub, events, seen, lost, due, before>>

Start(s) ==
  /\ stream[s] = "open" /\ Goto(s, "loop")
  /\ UNCHANGED <<subs, box, stray, pub, events, seen, lost, due, before>>

(* The client leaves before the generator has begun: its finally never runs. *)
NeverStarts(s) ==
  /\ stream[s] = "open" /\ Goto(s, "unstarted")
  /\ UNCHANGED <<subs, box, stray, pub, events, seen, lost, due, before>>

(* Mutant of Unsubscribed: all streams of the bot leave. *)
UnsubscribedAll(s) == <<>>
Unsubscribed(s) == RemoveAt(subs, CHOOSE i \in DOMAIN subs : subs[i] = s)

Get(s) ==
  /\ stream[s] = "loop" /\ Goto(s, "wait")
  /\ UNCHANGED <<subs, box, stray, pub, events, seen, lost, due, before>>

Receive(s) ==
  /\ stream[s] = "wait" /\ box[s] # <<>>
  /\ seen' = [seen EXCEPT ![s] = Append(@, Head(box[s]))]
  /\ box' = [box EXCEPT ![s] = Tail(@)]
  /\ Goto(s, "loop")
  /\ UNCHANGED <<subs, stray, pub, events, lost, due, before>>

Nothing(s) ==
  /\ stream[s] = "wait" /\ box[s] = <<>> /\ Goto(s, "loop")
  /\ UNCHANGED <<subs, box, stray, pub, events, seen, lost, due, before>>

(* wait_for gives up; the thread stays in queue.get.                        *)
Abandon(s) ==
  /\ stream[s] = "wait" /\ stray[s] < MaxStray
  /\ stray' = [stray EXCEPT ![s] = @ + 1] /\ Goto(s, "loop")
  /\ UNCHANGED <<subs, box, pub, events, seen, lost, due, before>>

(* The client is gone, seen between two waits or by a cancellation in one.  *)
Disconnect(s) ==
  /\ \/ stream[s] = "loop" /\ UNCHANGED stray
     \/ /\ stream[s] = "wait" /\ stray[s] < MaxStray
        /\ stray' = [stray EXCEPT ![s] = @ + 1]
  /\ subs' = Unsubscribed(s) /\ Goto(s, "gone")
  /\ UNCHANGED <<box, pub, events, seen, lost, due, before>>

StrayTakes(s) ==
  /\ stray[s] > 0 /\ box[s] # <<>>
  /\ stray' = [stray EXCEPT ![s] = @ - 1]
  /\ lost' = [lost EXCEPT ![s] = @ \cup {Head(box[s])}]
  /\ box' = [box EXCEPT ![s] = Tail(@)]
  /\ UNCHANGED <<subs, stream, pub, events, seen, due, before>>

StrayEnds(s) ==
  /\ stray[s] > 0 /\ box[s] = <<>>
  /\ stray' = [stray EXCEPT ![s] = @ - 1]
  /\ UNCHANGED <<subs, box, stream, pub, events, seen, lost, due, before>>

(* publish: the copy of the list, then an offer to each of its queues.      *)
Published == 1..events
Offering == {pub[p].event : p \in Publisher}

Publish(p) ==
  /\ pub[p] = Quiet /\ events < MaxEvent
  /\ events' = events + 1
  /\ pub' = [pub EXCEPT ![p] =
       IF subs = <<>> THEN Quiet ELSE [event |-> events + 1, left |-> subs]]
  /\ due' = [s \in Stream |-> IF Open(s) THEN due[s] \cup {events + 1} ELSE due[s]]
  /\ before' = [before EXCEPT ![events + 1] = Published \ Offering]
  /\ UNCHANGED <<subs, box, stream, stray, seen, lost>>

Offer(p) ==
  /\ pub[p].left # <<>>
  /\ LET s == Head(pub[p].left) IN
     IF Len(box[s]) < Capacity
       THEN box' = [box EXCEPT ![s] = Append(@, pub[p].event)] /\ UNCHANGED lost
       ELSE lost' = [lost EXCEPT ![s] = @ \cup {pub[p].event}] /\ UNCHANGED box
  /\ pub' = [pub EXCEPT ![p] =
       IF Len(@.left) = 1 THEN Quiet ELSE [event |-> @.event, left |-> Tail(@.left)]]
  /\ UNCHANGED <<subs, stream, stray, events, seen, due, before>>

Serve(s) == Start(s) \/ Get(s) \/ Receive(s) \/ Nothing(s)
Stray(s) == StrayTakes(s) \/ StrayEnds(s)

Next == \/ \E s \in Stream : \/ Connect(s) \/ NeverStarts(s) \/ Serve(s)
                             \/ Abandon(s) \/ Disconnect(s) \/ Stray(s)
        \/ \E p \in Publisher : Publish(p) \/ Offer(p)

Spec == Init /\ [][Next]_vars

-----------------------------------------------------------------------------

TypeOK ==
  /\ subs \in Seq(Stream) /\ events \in 0..MaxEvent
  /\ \A s \in Stream : box[s] \in Seq(Published) /\ Len(box[s]) <= Capacity
  /\ stream \in [Stream -> {"closed", "open", "loop", "wait", "gone", "unstarted"}]
  /\ stray \in [Stream -> 0..MaxStray]
  /\ pub \in [Publisher -> [event : 0..events, left : Seq(Stream)]]
  /\ \A s \in Stream : seen[s] \in Seq(Published)
  /\ lost \in [Stream -> SUBSET Published] /\ due \in [Stream -> SUBSET Published]
  /\ before \in [Event -> SUBSET Published]

(* An event published while a stream is open reaches it, unless its queue was
   full or a thread it had given up on took the event.  The stream shows it
   after those that had reached everybody when it was published, and once.   *)
OnItsWay(s) == {pub[p].event : p \in {q \in Publisher : s \in ToSet(pub[q].left)}}
FeedFaithful ==
  \A s \in Stream :
    /\ due[s] \subseteq ToSet(seen[s]) \cup ToSet(box[s]) \cup lost[s] \cup OnItsWay(s)
    /\ \A i, j \in DOMAIN seen[s] :
         i < j => seen[s][j] # seen[s][i] /\ seen[s][j] \notin before[seen[s][i]]
=============================================================================
