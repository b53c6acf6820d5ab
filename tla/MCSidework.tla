----------------------------- MODULE MCSidework -----------------------------
(* An instance of Sidework for TLC: two topics need a slot, one goes without. *)
EXTENDS Sidework, TLC

CONSTANTS p1, p2, p3, a, f1, w1

OneEach == (p1 :> {a}) @@ (p2 :> {a}) @@ (p3 :> {})
AtOne == f1 :> w1
All == f1 :> ListEntry
=============================================================================
