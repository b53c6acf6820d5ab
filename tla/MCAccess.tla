------------------------------ MODULE MCAccess ------------------------------
(* An instance of Access for TLC: one person has two identities, and one is
   the bootstrap superadmin.                                                *)
EXTENDS Access, TLC

CONSTANTS i1, i2, i3, e1, e2

Mails == (i1 :> e1) @@ (i2 :> e2) @@ (i3 :> e2)
=============================================================================
