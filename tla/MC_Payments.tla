---------------------------- MODULE MC_Payments ----------------------------
(***************************************************************************)
(* Instances of Payments for TLC: one invoice of 2, payments of what is    *)
(* due, and managers who record 1 by hand.                                 *)
(***************************************************************************)
EXTENDS Payments

MC_Total == [i \in Invoices |-> 2]

=============================================================================
