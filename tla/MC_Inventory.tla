---------------------------- MODULE MC_Inventory ----------------------------
(***************************************************************************)
(* Instances of Inventory for TLC: site "s1" with cold room "a", site "s2" *)
(* with cold room "b", the product "p" seeded with 2 kg in room "a", and   *)
(* the product id "n" still free.                                          *)
(***************************************************************************)
EXTENDS Inventory, TLC

MC_OpeningQty  == [p \in Products |-> IF p = "p" THEN 2 ELSE 0]
MC_OpeningUsed == [m \in Rooms |-> IF m = "a" THEN 2 ELSE 0]
MC_RoomOf      == [p \in Products |-> "a"]
MC_SiteOf      == [m \in Rooms |-> IF m = "a" THEN "s1" ELSE "s2"]
MC_Capacity    == [m \in Rooms |-> IF m = "a" THEN 3 ELSE 2]

\* The slots of the handlers are interchangeable.
Slots == Permutations(Requests)

=============================================================================
