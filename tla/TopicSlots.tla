----------------------------- MODULE TopicSlots -----------------------------
(***************************************************************************)
(* The handler of one conversation (agents/conversation_agent.py): routing *)
(* to a topic and filling the slots of that topic.  A turn is one message  *)
(* of the user.  Turns of a session share its handler and run in threads;  *)
(* session_lock exists and nobody takes it, so turns overlap.              *)
(*                                                                         *)
(* The model's calls to the language model return any of their outcomes:   *)
(* an intent with or without confidence, a subset of the slots, an answer  *)
(* or an exception.  Slots are names, their values are left out.           *)
(***************************************************************************)
EXTENDS Naturals, FiniteSets

CONSTANTS Turn,        \* threads in which turns run
          Topic,       \* topics of the bot
          FirstTopic,  \* the first in the order of the configuration
          Direct,      \* the topics with skip_slot_filling
          Slots,       \* Slots[p]: the slots of topic p, all of them required
          MaxAttempts, \* MAX_SLOT_FILLING_ATTEMPTS
          Streamed,    \* the turns that ask for a stream
          Faults,      \* what may fail: "model", "store"
          NoTopic

TopicsAssumption ==
  /\ IsFiniteSet(Topic) /\ FirstTopic \in Topic /\ Direct \subseteq Topic
  /\ NoTopic \notin Topic
  /\ MaxAttempts \in Nat \ {0} /\ Streamed \subseteq Turn

VARIABLES current,   \* ConversationManager.current_topic
          filled,    \* SlotManager.filled_slots
          slotState, \* ConversationManager.slot_filling_state
          turn,      \* the turns, each with the state it carries along
          asked,     \* history: questions put in a row, by topic; no need to
                     \* count beyond one too many
          past,      \* history: "overlap" once two turns ran at a time,
                     \* "new" once the user typed /new
          reliable   \* external: nothing fails any more

vars == <<current, filled, slotState, turn, asked, past, reliable>>

SlotNames == UNION {Slots[p] : p \in Topic}
Single == Topic = {FirstTopic}

(* ConversationState carries a topic and the number of attempts, both read
   when the turn began; node is the agent of the graph that runs.           *)
Turns == [pc : {"idle", "route", "extract", "answer", "save"},
          attempts : Nat,
          node : Topic \cup {NoTopic}, carried : Topic \cup {NoTopic}]
Rest == [pc |-> "idle", attempts |-> 0,
         node |-> NoTopic, carried |-> NoTopic]

Inactive == [active |-> FALSE, attempts |-> 0]
Asking(n) == [active |-> TRUE, attempts |-> n]

Busy(t) == turn[t].pc # "idle"
At(t, pc) == turn[t].pc = pc
Goto(t, pc) == turn' = [turn EXCEPT ![t].pc = pc]
Leave(t) == turn' = [turn EXCEPT ![t] = Rest]

Fresh == /\ current = NoTopic
         /\ filled = [p \in Topic |-> {}]
         /\ slotState = [p \in Topic |-> Inactive]
         /\ asked = [p \in Topic |-> 0]

Init == Fresh /\ turn = [t \in Turn |-> Rest] /\ past = {} /\ reliable = FALSE

Missing(p) == Slots[p] \ filled[p]

(* Where the graph starts: a bot with one topic has no router, and a topic
   that is asking for slots gets the next message without it.              *)
Entry == IF Single \/ (current # NoTopic /\ slotState[current].active)
         THEN "extract" ELSE "route"
EntryNode == IF Single THEN FirstTopic ELSE current

Begin(t) ==
  /\ ~ Busy(t)
  /\ turn' = [turn EXCEPT ![t] =
       [pc |-> Entry, node |-> EntryNode, carried |-> current,
        attempts |-> IF current = NoTopic THEN 0 ELSE slotState[current].attempts]]
  /\ past' = IF \E u \in Turn \ {t} : Busy(u) THEN past \cup {"overlap"} ELSE past
  /\ UNCHANGED <<current, filled, slotState, asked, reliable>>

(* /new: the topic and the slots are dropped, slot_filling_state is not.    *)
NewConversation ==
  /\ current' = NoTopic
  /\ filled' = [p \in Topic |-> {}]
  /\ asked' = [p \in Topic |-> 0]
  /\ past' = past \cup {"new"}
  /\ UNCHANGED <<slotState, turn, reliable>>

(* The handler is evicted and built again: a turn that is under way keeps
   the old one, so this is seen only between turns.                        *)
Rebuild ==
  /\ \A t \in Turn : ~ Busy(t)
  /\ current' = NoTopic /\ filled' = [p \in Topic |-> {}]
  /\ slotState' = [p \in Topic |-> Inactive] /\ asked' = [p \in Topic |-> 0]
  /\ UNCHANGED <<turn, past, reliable>>

(* detect_intent returns a known topic: what the model names if it is one,
   else the first.  A reply that cannot be read is not definitive.          *)
Intents == [topic : Topic, definitive : BOOLEAN]
Unread == [topic |-> FirstTopic, definitive |-> FALSE]

Routed(old, intent) ==
  IF intent.definitive \/ old = NoTopic THEN intent.topic ELSE old

(* While it streams, the handler's topic becomes what each node of the graph
   returns as soon as it does; else it is set when the turn ends.           *)
Yielded(t, p) == current' = IF t \in Streamed THEN p ELSE current

ToTopic(t, p) ==
  /\ turn' = [turn EXCEPT ![t].pc = "extract", ![t].node = p, ![t].carried = p]
  /\ Yielded(t, p)
  /\ UNCHANGED <<filled, slotState, asked, past, reliable>>

Route(t) ==
  /\ At(t, "route")
  /\ \E intent \in Intents \cup {Unread} : ToTopic(t, Routed(turn[t].carried, intent))

RouterFails(t) ==
  /\ At(t, "route") /\ "model" \in Faults /\ ~ reliable
  /\ ToTopic(t, FirstTopic)

(* What a slot-based topic does when slots are missing: ask, or give up.    *)
(* Mutant of Attempts: a repeated question does not count. *)
AttemptsUncounted(t, p) == turn[t].attempts
Attempts(t, p) == turn[t].attempts + IF slotState[p].active THEN 1 ELSE 0
TooMany(n) == n >= MaxAttempts

Ask(p, n) ==
  /\ slotState' = [slotState EXCEPT ![p] = Asking(n)]
  /\ asked' = [asked EXCEPT ![p] = IF @ > MaxAttempts THEN @ ELSE @ + 1]

(* Mutant of ResetSlotState: the topic stays active. *)
ResetAttempts(p) ==
  /\ slotState' = [slotState EXCEPT ![p].attempts = 0]
  /\ asked' = [asked EXCEPT ![p] = 0]

ResetSlotState(p) ==
  /\ slotState' = [slotState EXCEPT ![p] = Inactive]
  /\ asked' = [asked EXCEPT ![p] = 0]

(* extract_slots adds what the model found; nothing, when its reply cannot be
   read.  A topic without slots makes no call and misses nothing.           *)
Extract(t) ==
  LET p == turn[t].node IN
  /\ At(t, "extract") /\ p \notin Direct
  /\ \E found \in SUBSET Slots[p] :
       LET left == Missing(p) \ found IN
       \/ /\ left = {}
          /\ filled' = [filled EXCEPT ![p] = @ \cup found]
          /\ Goto(t, "answer")
          /\ UNCHANGED <<current, slotState, asked>>
       \/ /\ left # {} /\ TooMany(Attempts(t, p))
          /\ filled' = [filled EXCEPT ![p] = {}]
          /\ ResetSlotState(p) /\ Goto(t, "save") /\ Yielded(t, turn[t].carried)
       \/ /\ left # {} /\ ~ TooMany(Attempts(t, p))
          /\ filled' = [filled EXCEPT ![p] = @ \cup found]
          /\ Ask(p, Attempts(t, p)) /\ Goto(t, "save") /\ Yielded(t, turn[t].carried)
  /\ UNCHANGED <<past, reliable>>

SkipExtract(t) ==
  /\ At(t, "extract") /\ turn[t].node \in Direct
  /\ Goto(t, "answer")
  /\ UNCHANGED <<current, filled, slotState, asked, past, reliable>>

(* _generate_final_response.  A stream is only opened here, so the slot
   state is reset before its answer exists.                                 *)
Answer(t) ==
  /\ At(t, "answer")
  /\ ResetSlotState(turn[t].node)
  /\ Goto(t, "save") /\ Yielded(t, turn[t].carried)
  /\ UNCHANGED <<filled, past, reliable>>

(* invoke returns the topic that the state carries: in a graph without a
   router, the one it was given.                                            *)
Returned(t) == IF turn[t].carried = NoTopic THEN current ELSE turn[t].carried

(* The model raises, or the messages cannot be stored.  process answers with
   an apology and takes back nothing; an apology streams like an answer.     *)
Raises(t) ==
  \/ /\ "model" \in Faults /\ At(t, "extract")
     /\ turn[t].node \notin Direct /\ Slots[turn[t].node] # {}
  \/ "model" \in Faults /\ At(t, "answer")
  \/ "store" \in Faults /\ At(t, "save") /\ t \notin Streamed

Apologise(t) ==
  /\ ~ reliable /\ Raises(t)
  /\ IF t \in Streamed
     THEN Goto(t, "save") /\ Yielded(t, turn[t].carried)
     ELSE Leave(t) /\ current' = Returned(t)
  /\ UNCHANGED <<filled, slotState, asked, past, reliable>>

(* The turn ends: a stream that was read to its end sets the topic where there
   is only one, before it stores its messages.                              *)
Finish(t) ==
  /\ At(t, "save")
  /\ current' = CASE t \notin Streamed -> Returned(t)
                  [] t \in Streamed /\ Single -> FirstTopic
                  [] OTHER -> current
  /\ Leave(t)
  /\ UNCHANGED <<filled, slotState, asked, past, reliable>>

(* The model fails in the midst of the stream or the reader goes away.      *)
StreamBreaks(t) ==
  /\ ~ reliable /\ At(t, "save") /\ t \in Streamed
  /\ Leave(t)
  /\ UNCHANGED <<current, filled, slotState, asked, past, reliable>>

TurnStep(t) ==
  \/ Route(t) \/ RouterFails(t) \/ Extract(t) \/ SkipExtract(t) \/ Answer(t)
  \/ Apologise(t) \/ Finish(t) \/ StreamBreaks(t)

(* From now on the model, the store and the readers fail no more.           *)
Recover ==
  /\ ~ reliable /\ reliable' = TRUE
  /\ UNCHANGED <<current, filled, slotState, turn, asked, past>>

Next ==
  \/ \E t \in Turn : Begin(t) \/ TurnStep(t)
  \/ NewConversation \/ Rebuild \/ Recover

Spec == Init /\ [][Next]_vars
FairSpec == Spec /\ \A t \in Turn : WF_vars(TurnStep(t))

-----------------------------------------------------------------------------

(* Types.  attempts stays below the limit, or the topic would have given up. *)
TypeOK ==
  /\ current \in Topic \cup {NoTopic}
  /\ \A p \in Topic : filled[p] \subseteq Slots[p]
  /\ slotState \in [Topic -> [active : BOOLEAN, attempts : 0..(MaxAttempts - 1)]]
  /\ turn \in [Turn -> Turns]
  /\ \A t \in Turn : turn[t].pc \in {"extract", "answer", "save"} => turn[t].node \in Topic
  /\ past \subseteq {"overlap", "new"} /\ reliable \in BOOLEAN

(* MAX_SLOT_FILLING_ATTEMPTS holds: a topic asks at most that often in a row
   before it answers or lets the user go, however slots are found or lost and
   whatever fails.  Overlapping turns read the same number of attempts and
   may ask once more; a bot with one topic is the finding.  And a user is asked
   for the slots of one topic at a time: while a topic asks the router is
   skipped, and it stops asking before another starts.  /new leaves the topic
   asking.                                                                   *)
AsksWithinLimit ==
  /\ "overlap" \notin past /\ ~ Single => \A p \in Topic : asked[p] <= MaxAttempts
  /\ past = {} => Cardinality({p \in Topic : slotState[p].active}) <= 1

(* The same promise for every bot, as the comment "Check if we've exceeded
   max attempts" has it.                                                     *)
LimitHolds == "overlap" \notin past => \A p \in Topic : asked[p] <= MaxAttempts

(* A user who keeps writing is not held in a topic for ever, even when turns
   overlap and lose increments, as long as the model does not fail for ever. *)
Locked == current # NoTopic /\ slotState[current].active
KeepsWriting == []<><<\E t \in Turn : Begin(t)>>_vars
RouterComesBack == ~ Single /\ KeepsWriting /\ <>reliable => []<> ~ Locked
=============================================================================
