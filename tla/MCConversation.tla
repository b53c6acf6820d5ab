--------------------------- MODULE MCConversation ---------------------------
(***************************************************************************)
(* Conversation for TLC: what a process caches for three bots, in two of   *)
(* which two turns meet and in the third two admins, and the messages of   *)
(* two sessions.                                                           *)
(***************************************************************************)
EXTENDS Conversation, TLC

CONSTANTS Saver, Reader, s1, s2, s3

Symmetry == Permutations(Turn) \cup Permutations(Admin)

(* Two turns and an admin, with two sessions of one user or with one of each
   of two users and room for one; two admins and a turn, with room for one.   *)
Turning == [same |-> Turn, full |-> Turn, saves |-> Reader]
Saving == [same |-> Saver, full |-> Saver, saves |-> Admin]
Talking == [same |-> {s1, s2}, full |-> {s1, s3}, saves |-> {s1, s2}]
Rooms == [same |-> 2, full |-> 1, saves |-> 1]
Versions == [same |-> 1, full |-> 1, saves |-> 3]
(* The widget's users choose their ids: v's keys begin with u's prefix.     *)
Alike == {<<"u", "v">>}
TwoUsers == (s1 :> "u") @@ (s2 :> "u") @@ (s3 :> "v")

(* Two sessions, one of a channel and one of the widget.                    *)
Said(topic) == [role |-> "user", topic |-> topic, model |-> None, cited |-> FALSE,
                latency |-> None, deflected |-> None]
Answered(model, cited, latency, deflected) ==
  [role |-> "assistant", topic |-> "order", model |-> model, cited |-> cited,
   latency |-> latency, deflected |-> deflected]
Contents == (s1 :> {Said("order"), Answered("gpt", TRUE, 2, TRUE)})
         @@ (s2 :> {Answered(None, FALSE, 1, None)})
OnePhone == (s1 :> "whatsapp") @@ (s2 :> None)
=============================================================================
