----------------------------- MODULE MC_Rentals -----------------------------
(***************************************************************************)
(* Instances of Rentals for TLC: a cold box "box" that the rentals "r1",   *)
(* "r2" and the request "n" ask for, and a cold room "room" of 2 kg with   *)
(* 1 kg in it, of which "r3" rents 1 kg.  The periods of "r1" and "n"      *)
(* overlap, the one of "r2" comes after them.                              *)
(***************************************************************************)
EXTENDS Rentals, TLC

MC_AssetOf  == [r \in Rentals |-> IF r = "r3" THEN "room" ELSE "box"]
MC_SiteOf   == [r \in Rentals |-> "s1"]
MC_Need     == [r \in Rentals |-> IF r = "r3" THEN 1 ELSE 0]
MC_Period   == [r \in Rentals |->
                   CASE r = "r1" -> [from |-> 1, to |-> 3]
                     [] r = "n"  -> [from |-> 2, to |-> 4]
                     [] OTHER    -> [from |-> 4, to |-> 5]]
MC_HomeOf   == [a \in Assets |-> "s1"]
MC_Capacity == [a \in Assets |-> IF a \in ColdRooms THEN 2 ELSE 0]
MC_Stored   == [a \in Assets |-> IF a \in ColdRooms THEN 1 ELSE 0]

Slots == Permutations(Requests)

=============================================================================
