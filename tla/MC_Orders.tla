------------------------------ MODULE MC_Orders ------------------------------
(***************************************************************************)
(* Instances of Orders for TLC: one site with one cold room, a second one  *)
(* that may be created, and 2 kg of one product, named twice by the cart.  *)
(***************************************************************************)
EXTENDS Orders

MC_OpeningQty  == [p \in Products |-> 2]
MC_OpeningUsed == [m \in Rooms |-> 2]
MC_RoomOf      == [p \in Products |-> "a"]
MC_SiteOf      == [m \in Rooms |-> "s1"]
MC_Capacity    == [m \in Rooms |-> 2]

Item(p, kg) == [product |-> p, kg |-> kg]
MC_Carts == {<<Item("p", 1), Item("p", 1)>>}

==============================================================================
