-------------------------- MODULE MCWebhookDedupe --------------------------
(* Instances of WebhookDedupe for TLC.  The workers are interchangeable. *)
EXTENDS WebhookDedupe, TLC

Symmetry == Permutations(Worker)
=============================================================================
