----------------------------- MODULE MC_Sessions -----------------------------
(***************************************************************************)
(* Instances of Sessions for TLC: a client, who logs in with a password,   *)
(* and a manager, who needs a code as well.                                *)
(***************************************************************************)
EXTENDS Sessions, TLC

Slots == Permutations(Requests)

=============================================================================
