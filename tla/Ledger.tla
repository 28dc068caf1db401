------------------------------- MODULE Ledger -------------------------------
(***************************************************************************)
(* What the stock services promise: an operation on stock is one step that *)
(* checks a product and a cold room and changes both by the same weight.   *)
(* Who may ask for it, and what a handler reads before, is left out.       *)
(***************************************************************************)
EXTENDS Integers, Sequences

CONSTANTS
    Products,   \* product ids
    Rooms,      \* cold room ids
    Weights     \* the weights clients name

VARIABLES qty, roomOf, life, used, capacity, roomLife, movements

products == <<qty, roomOf, life>>
rooms    == <<used, capacity, roomLife>>

Init ==
    /\ \A p \in Products : qty[p] >= 0
    /\ movements = << >>

Signed(kg, type) == IF type = "IN" THEN kg ELSE -kg
HasSpace(m, kg)  == used[m] + kg <= capacity[m]

Post(p, m, kg, type) ==
    movements' = Append(movements,
        [product |-> p, room |-> m, kg |-> kg, type |-> type])

\* Weight comes into or goes out of stock, in any room, and is booked.
Record(p, m, kg, type) ==
    /\ life[p] # "none" /\ roomLife[m] # "none"
    /\ qty[p] + Signed(kg, type) >= 0
    /\ qty' = [qty EXCEPT ![p] = @ + Signed(kg, type)]
    /\ used' = [used EXCEPT ![m] = @ + Signed(kg, type)]
    /\ Post(p, m, kg, type)
    /\ UNCHANGED <<roomOf, life, capacity, roomLife>>

\* An adjustment of a product is booked in the room where it stands.
Adjust(p, kg, type) == life[p] = "live" /\ Record(p, roomOf[p], kg, type)

Create(p, m, kg) ==
    /\ life[p] = "none" /\ roomLife[m] # "none"
    /\ qty' = [qty EXCEPT ![p] = kg]
    /\ roomOf' = [roomOf EXCEPT ![p] = m]
    /\ life' = [life EXCEPT ![p] = "live"]
    /\ used' = [used EXCEPT ![m] = @ + kg]
    /\ Post(p, m, kg, "IN")
    /\ UNCHANGED <<capacity, roomLife>>

\* An update takes a product to another room with all its weight, or leaves it
\* where it is, and may overwrite the weight.
Update(p, m, kg) ==
    /\ life[p] = "live" /\ roomLife[m] # "none"
    /\ used' = IF m = roomOf[p] THEN used
               ELSE [used EXCEPT ![roomOf[p]] = @ - qty[p], ![m] = @ + qty[p]]
    /\ roomOf' = [roomOf EXCEPT ![p] = m]
    /\ qty' = [qty EXCEPT ![p] = kg]
    /\ UNCHANGED <<life, capacity, roomLife, movements>>

Remove(p) ==
    /\ life[p] = "live"
    /\ life' = [life EXCEPT ![p] = "deleted"]
    /\ used' = [used EXCEPT ![roomOf[p]] = @ - qty[p]]
    /\ UNCHANGED <<qty, roomOf, capacity, roomLife, movements>>

\* An empty room is added, a room is given another capacity, or marked deleted.
ManageRoom(m) ==
    /\ \/ /\ roomLife[m] = "none" /\ roomLife'[m] = "live"
          /\ used' = [used EXCEPT ![m] = 0]
       \/ roomLife[m] = "live" /\ used' = used
    /\ \A n \in Rooms \ {m} : capacity'[n] = capacity[n] /\ roomLife'[n] = roomLife[n]
    /\ roomLife'[m] \in {"live", "deleted"}
    /\ UNCHANGED <<products, movements>>

\* A movement is booked in any room; whatever else brings weight into a room
\* finds space for it there.
Next ==
    \/ \E p \in Products, m \in Rooms, kg \in Weights, type \in {"IN", "OUT"} :
          Record(p, m, kg, type)
    \/ \E p \in Products, kg \in Weights, type \in {"IN", "OUT"} :
          Adjust(p, kg, type) /\ (type = "IN" => HasSpace(roomOf[p], kg))
    \/ \E p \in Products, m \in Rooms, kg \in Weights :
          Create(p, m, kg) /\ HasSpace(m, kg)
    \/ \E p \in Products, m \in Rooms : \E kg \in Weights \cup {qty[p]} :
          Update(p, m, kg) /\ (m # roomOf[p] => HasSpace(m, qty[p]))
    \/ \E p \in Products : Remove(p)
    \/ \E m \in Rooms : ManageRoom(m)

Spec == Init /\ [][Next]_<<products, rooms, movements>>

=============================================================================
