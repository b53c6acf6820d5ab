---------------------------- MODULE MCDispatcher ----------------------------
(* Instances of Dispatcher for TLC. *)
EXTENDS Dispatcher, TLC

CONSTANTS e1, e2, k1, k2, c1, c2

(* One event, or two events of two channels with event ids of their own.     *)
OneEvent == e1 :> k1
OneChannel == e1 :> c1
OwnKeyEach == (e1 :> k1) @@ (e2 :> k2)
OneKeyless == (e1 :> k1) @@ (e2 :> NoKey)
OwnChannelEach == (e1 :> c1) @@ (e2 :> c2)

Symmetry == Permutations(Request)
=============================================================================
