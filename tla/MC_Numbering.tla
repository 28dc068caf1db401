--------------------------- MODULE MC_Numbering ---------------------------
(***************************************************************************)
(* Instances of Numbering for TLC: orders and rentals "a", "b", "c" of the *)
(* site "s1", which is called Kigali, KIGALI or Huye, and "d" of the site  *)
(* "s2", which is called Musanze, so that their prefixes differ.           *)
(***************************************************************************)
EXTENDS Numbering, TLC

MC_SiteOf  == [x \in Subjects |-> IF x = "d" THEN "s2" ELSE "s1"]
MC_Prefix  == [n \in Names |-> IF n = "Kigali" THEN "KIGALI" ELSE n]
MC_NamesOf == [s \in Sites |-> IF s = "s2" THEN {"MUSANZE"} ELSE Names \ {"MUSANZE"}]

Slots == Permutations(Requests)

=============================================================================
