--------------------------- MODULE MCEmbedPipeline ---------------------------
(* Instances of EmbedPipeline for TLC. *)
EXTENDS EmbedPipeline, TLC

Three == [request |-> 3, crash |-> 1, error |-> 1, fault |-> 2]
OneCrash == [request |-> 1, crash |-> 1, error |-> 0, fault |-> 0]

Symmetry == Permutations(Request)
=============================================================================
