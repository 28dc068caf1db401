--------------------------- MODULE MC_MomoClient ---------------------------
(***************************************************************************)
(* Instances of MomoClient for TLC: the timeout is two units, the margin   *)
(* four, as 30 s and 60 s in the code.                                     *)
(***************************************************************************)
EXTENDS MomoClient

=============================================================================
