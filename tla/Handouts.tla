------------------------------ MODULE Handouts ------------------------------
(***************************************************************************)
(* What renting promises, without handlers, invoices and polls: an asset   *)
(* is handed out to one rental at a time, and a rental that is over is     *)
(* never handed anything again.  Managers may overrule the status of an    *)
(* asset by hand, and answer for that asset from then on.                  *)
(***************************************************************************)
CONSTANTS Rentals, Assets, AssetOf

VARIABLES
    holders,   \* asset -> the rentals it is handed out to
    over,      \* the rentals that are over
    overruled  \* the assets whose status was overruled

vars == <<holders, over, overruled>>

Init ==
    /\ holders = [a \in Assets |-> {}]
    /\ over = {} /\ overruled = {}

HandOut(r) ==
    LET a == AssetOf[r] IN
    /\ r \notin over
    /\ holders[a] = {} \/ a \in overruled
    /\ holders' = [holders EXCEPT ![a] = @ \cup {r}]
    /\ UNCHANGED <<over, overruled>>

\* The rental ends, whether it was handed its asset or not.
Close(r) ==
    /\ r \notin over
    /\ over' = over \cup {r}
    /\ holders' = [holders EXCEPT ![AssetOf[r]] = @ \ {r}]
    /\ UNCHANGED overruled

Overrule(a) ==
    /\ overruled' = overruled \cup {a}
    /\ UNCHANGED <<holders, over>>

Next == (\E r \in Rentals : HandOut(r) \/ Close(r)) \/ (\E a \in Assets : Overrule(a))

Spec == Init /\ [][Next]_vars

=============================================================================
