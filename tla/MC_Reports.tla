----------------------------- MODULE MC_Reports -----------------------------
(***************************************************************************)
(* Instances of Reports for TLC: the invoice of an order at the site "s1"  *)
(* and that of a rental at "s2", of 2 each.                                *)
(***************************************************************************)
EXTENDS Reports, TLC

MC_Total  == [i \in Invoices |-> 2]
MC_SiteOf == [i \in Invoices |-> IF i = "order" THEN "s1" ELSE "s2"]
MC_Place  == [i \in Invoices |-> IF i = "order" THEN 1 ELSE 2]

Slots == Permutations(Requests) \cup Permutations(Payments)

=============================================================================
