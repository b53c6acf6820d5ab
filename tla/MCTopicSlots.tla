---------------------------- MODULE MCTopicSlots ----------------------------
(* The instance of TopicSlots for a bot with one topic and one slot.        *)
EXTENDS TopicSlots, TLC

CONSTANTS p1, a
OneOnly == (p1 :> {a})
=============================================================================
