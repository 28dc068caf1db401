--------------------------- MODULE Rentals_proofs ---------------------------
(***************************************************************************)
(* Theorems about Rentals for every set of rentals, assets, sites and      *)
(* requests, and every overlap of their handlers.                          *)
(***************************************************************************)
EXTENDS Rentals, Sums, TLAPS

\* The kind of a slot tells what the slot holds.
LEMMA SlotKinds ==
    ASSUME NEW slot \in Request
    PROVE  /\ slot.kind \in {"create", "complete", "cancel", "invoice", "void"} =>
                slot \in RentalReq
           /\ slot.kind = "credit" => slot \in CreditReq
           /\ slot.kind = "activate" => slot \in ActivateReq
           /\ slot.kind = "cancelling" => slot \in CancelReq
           /\ slot.kind = "status" => slot \in StatusReq
           /\ slot.kind = "move" => slot \in MoveReq
           /\ slot.kind = "remove" => slot \in RemoveReq
BY DEF Request, Idle, RentalReq, CreditReq, ActivateReq, CancelReq, StatusReq, MoveReq,
       RemoveReq

\* A handler that is to read or write a rental holds a rental.
LEMMA SlotRental ==
    ASSUME NEW slot \in Request,
           slot.kind \in {"create", "complete", "cancel", "invoice", "void", "credit",
                          "activate", "cancelling"}
    PROVE  slot.rental \in Rentals
BY SlotKinds DEF RentalReq, CreditReq, ActivateReq, CancelReq

-----------------------------------------------------------------------------
(* Type correctness *)

LEMMA InitType == Init => RentalsTypeOK
BY RentalsAssumption DEF Init, RentalsTypeOK, RentalStatuses, AssetStatuses, Request

LEMMA BeginType ==
    ASSUME RentalsTypeOK, NEW q \in Requests, NEW slot \in Request, Begin(q, slot)
    PROVE  RentalsTypeOK'
BY DEF RentalsTypeOK, Begin, rentalVars, assetVars

LEMMA FinishType ==
    ASSUME RentalsTypeOK, NEW q \in Requests, Finish(q)
    PROVE  requests' \in [Requests -> Request]
BY DEF RentalsTypeOK, Finish, Request

\* The columns a commit writes keep their types.
LEMMA StatusType ==
    ASSUME RentalsTypeOK, NEW r, NEW s \in RentalStatuses, SetStatus(r, s)
    PROVE  rentalStatus' \in [Rentals -> RentalStatuses \cup {"none"}]
BY DEF RentalsTypeOK, SetStatus

LEMMA MarkType ==
    ASSUME RentalsTypeOK, NEW a, MarkAsRented(a) \/ MarkAsAvailable(a)
    PROVE  assetStatus' \in [Assets -> AssetStatuses]
BY DEF RentalsTypeOK, MarkAsRented, MarkAsAvailable, AssetStatuses

LEMMA RoomType ==
    ASSUME RentalsTypeOK, NEW r \in Rentals, ReserveRoom(r) \/ ReleaseRoom(r)
    PROVE  used' \in [Assets -> Int]
<1> DEFINE a == AssetOf[r]
           kg == IF TakesRoom(r) THEN Need[r] ELSE 0
<1>1. /\ kg \in Int /\ a \in Assets
      /\ used \in [Assets -> Int]
  BY RentalsAssumption DEF RentalsTypeOK
<1>2. used' = [used EXCEPT ![a] = @ + kg] \/ used' = [used EXCEPT ![a] = @ - kg]
  <2>1. CASE TakesRoom(r)
    BY <2>1 DEF ReserveRoom, ReleaseRoom
  <2>2. CASE ~TakesRoom(r)
    BY <1>1, <2>2 DEF ReserveRoom, ReleaseRoom
  <2> QED BY <2>1, <2>2
<1> HIDE DEF a, kg
<1> QED BY <1>1, <1>2

LEMMA InvoiceType ==
    ASSUME RentalsTypeOK, NEW r, NEW unpaid, VoidInvoice(r, unpaid)
    PROVE  invoice' \in [Rentals -> {"none", "UNPAID", "PAID", "VOID"}]
BY DEF RentalsTypeOK, VoidInvoice

\* The reading part of every handler fills its slot with a request.
LEMMA ReadType ==
    ASSUME RentalsTypeOK, NEW q \in Requests,
           \/ \E r \in Rentals :
                 \/ BeginCreate(q, r) \/ BeginInvoice(q, r)
                 \/ BeginComplete(q, r) \/ BeginCancel(q, r) \/ BeginVoid(q, r)
                 \/ BeginCredit(q, r, TRUE) \/ BeginCredit(q, r, FALSE)
                 \/ BeginActivate(q, r, TRUE) \/ BeginActivate(q, r, FALSE)
           \/ BeginStatus(q) \/ BeginMove(q) \/ BeginRemoveAsset(q)
    PROVE  RentalsTypeOK'
<1>1. ASSUME NEW r \in Rentals, BeginCreate(q, r) PROVE RentalsTypeOK'
  <2>1. [kind |-> "create", rental |-> r] \in Request
    BY DEF Request, RentalReq
  <2> QED BY <1>1, <2>1, BeginType DEF BeginCreate
<1>2. ASSUME NEW r \in Rentals, BeginInvoice(q, r) PROVE RentalsTypeOK'
  <2>1. [kind |-> "invoice", rental |-> r] \in Request
    BY DEF Request, RentalReq
  <2> QED BY <1>2, <2>1, BeginType DEF BeginInvoice
<1>3. ASSUME NEW r \in Rentals, BeginComplete(q, r) PROVE RentalsTypeOK'
  <2>1. [kind |-> "complete", rental |-> r] \in Request
    BY DEF Request, RentalReq
  <2> QED BY <1>3, <2>1, BeginType DEF BeginComplete
<1>4. ASSUME NEW r \in Rentals, BeginCancel(q, r) PROVE RentalsTypeOK'
  <2>1. [kind |-> "cancel", rental |-> r] \in Request
    BY DEF Request, RentalReq
  <2> QED BY <1>4, <2>1, BeginType DEF BeginCancel
<1>5. ASSUME NEW r \in Rentals, NEW system \in BOOLEAN, BeginActivate(q, r, system)
      PROVE  RentalsTypeOK'
  <2>1. [kind |-> "activate", rental |-> r, bySystem |-> system] \in Request
    BY DEF Request, ActivateReq
  <2> QED BY <1>5, <2>1, BeginType DEF BeginActivate
<1>6. CASE BeginStatus(q)
  <2>1. PICK a \in Equipment \ assetDeleted, s \in AssetStatuses :
            Begin(q, [kind |-> "status", asset |-> a, status |-> s])
    BY <1>6 DEF BeginStatus
  <2>2. [kind |-> "status", asset |-> a, status |-> s] \in Request
    BY DEF Request, StatusReq, Equipment
  <2> QED BY <2>1, <2>2, BeginType
<1>7. CASE BeginMove(q)
  <2>1. PICK a \in Equipment, s \in Sites :
            Begin(q, [kind |-> "move", asset |-> a, site |-> s])
    BY <1>7 DEF BeginMove
  <2>2. [kind |-> "move", asset |-> a, site |-> s] \in Request
    BY DEF Request, MoveReq, Equipment
  <2> QED BY <2>1, <2>2, BeginType
<1>8. CASE BeginRemoveAsset(q)
  <2>1. PICK a \in Equipment : Begin(q, [kind |-> "remove", asset |-> a])
    BY <1>8 DEF BeginRemoveAsset
  <2>2. [kind |-> "remove", asset |-> a] \in Request
    BY DEF Request, RemoveReq, Equipment
  <2> QED BY <2>1, <2>2, BeginType
<1>9. ASSUME NEW r \in Rentals, BeginVoid(q, r) PROVE RentalsTypeOK'
  <2>1. [kind |-> "void", rental |-> r] \in Request
    BY DEF Request, RentalReq
  <2> QED BY <1>9, <2>1, BeginType DEF BeginVoid
<1>10. ASSUME NEW r \in Rentals, NEW whole \in BOOLEAN, BeginCredit(q, r, whole)
       PROVE  RentalsTypeOK'
  <2>1. [kind |-> "credit", rental |-> r, whole |-> whole] \in Request
    BY DEF Request, CreditReq
  <2> QED BY <1>10, <2>1, BeginType DEF BeginCredit
<1> QED BY <1>1, <1>2, <1>3, <1>4, <1>5, <1>6, <1>7, <1>8, <1>9, <1>10

\* The writing part of every handler.
LEMMA CommitType ==
    ASSUME RentalsTypeOK, NEW q \in Requests, Commit(q)
    PROVE  RentalsTypeOK'
<1> DEFINE slot == requests[q]
<1>0. slot \in Request
  BY DEF RentalsTypeOK
<1>1. CASE Create(q)
  <2>1. "REQUESTED" \in RentalStatuses
    BY DEF RentalStatuses
  <2> QED BY <1>1, <2>1, StatusType, FinishType DEF Create, RentalsTypeOK, assetVars
<1>2. CASE CreateInvoice(q)
  BY <1>2, FinishType DEF CreateInvoice, RentalsTypeOK, rentalVars, assetVars
<1>3. CASE Activate(q)
  <2>1. slot.rental \in Rentals
    BY <1>0, <1>3, SlotRental DEF Activate
  <2>2. rentalStatus' \in [Rentals -> RentalStatuses \cup {"none"}]
    BY <1>3, StatusType DEF Activate, RentalStatuses
  <2>3. used' \in [Assets -> Int]
    BY <1>3, <2>1, RoomType DEF Activate
  <2>4. assetStatus' \in [Assets -> AssetStatuses]
    BY <1>3, MarkType DEF Activate
  <2> QED BY <1>3, <2>2, <2>3, <2>4, FinishType DEF Activate, RentalsTypeOK
<1>4. CASE Complete(q)
  <2>1. slot.rental \in Rentals
    BY <1>0, <1>4, SlotRental DEF Complete
  <2>2. rentalStatus' \in [Rentals -> RentalStatuses \cup {"none"}]
    BY <1>4, StatusType DEF Complete, RentalStatuses
  <2>3. used' \in [Assets -> Int]
    BY <1>4, <2>1, RoomType DEF Complete
  <2>4. assetStatus' \in [Assets -> AssetStatuses]
    BY <1>4, MarkType DEF Complete
  <2> QED BY <1>4, <2>2, <2>3, <2>4, FinishType DEF Complete, RentalsTypeOK
<1>5. CASE WriteCancelled(q)
  <2>1. slot.rental \in Rentals
    BY <1>0, <1>5, SlotRental DEF WriteCancelled
  <2>2. [kind |-> "cancelling", rental |-> slot.rental,
         seenUnpaid |-> invoice[slot.rental] = "UNPAID"] \in Request
    BY <2>1 DEF Request, CancelReq
  <2>3. requests' \in [Requests -> Request]
    BY <1>5, <2>2 DEF WriteCancelled, RentalsTypeOK
  <2> QED BY <1>5, <2>3 DEF WriteCancelled, RentalsTypeOK, rentalVars, assetVars
<1>6. CASE Cancel(q)
  <2>1. slot.rental \in Rentals
    BY <1>0, <1>6, SlotRental DEF Cancel
  <2>2. rentalStatus' \in [Rentals -> RentalStatuses \cup {"none"}]
    BY <1>6, StatusType DEF Cancel, RentalStatuses
  <2>3. rentalDeleted' \in SUBSET Rentals
    BY <1>6, <2>1 DEF Cancel, RentalsTypeOK
  <2>4. invoice' \in [Rentals -> {"none", "UNPAID", "PAID", "VOID"}]
    BY <1>6, InvoiceType DEF Cancel
  <2> QED BY <1>6, <2>2, <2>3, <2>4, FinishType DEF Cancel, RentalsTypeOK, assetVars
<1>7. CASE UpdateStatus(q)
  <2>1. slot.asset \in Assets /\ slot.status \in AssetStatuses
    BY <1>0, <1>7, SlotKinds DEF UpdateStatus, StatusReq
  <2> QED BY <1>7, <2>1, FinishType DEF UpdateStatus, RentalsTypeOK, rentalVars
<1>8. CASE Move(q)
  <2>1. slot.asset \in Assets /\ slot.site \in Sites
    BY <1>0, <1>8, SlotKinds DEF Move, MoveReq
  <2> QED BY <1>8, <2>1, FinishType DEF Move, RentalsTypeOK, rentalVars
<1>9. CASE RemoveAsset(q)
  <2>1. slot.asset \in Assets
    BY <1>0, <1>9, SlotKinds DEF RemoveAsset, RemoveReq
  <2> QED BY <1>9, <2>1, FinishType DEF RemoveAsset, RentalsTypeOK, rentalVars
<1>10. CASE Credit(q)
  <2>1. slot.rental \in Rentals
    BY <1>0, <1>10, SlotRental DEF Credit
  <2>2. invoice' \in [Rentals -> {"none", "UNPAID", "PAID", "VOID"}]
    BY <1>10 DEF Credit, RentalsTypeOK
  <2> QED BY <1>10, <2>2, FinishType DEF Credit, RentalsTypeOK, rentalVars, assetVars
<1>11. CASE Void(q)
  <2>1. invoice' \in [Rentals -> {"none", "UNPAID", "PAID", "VOID"}]
    BY <1>11, InvoiceType DEF Void
  <2> QED BY <1>11, <2>1, FinishType DEF Void, RentalsTypeOK, rentalVars, assetVars
<1> QED BY <1>1, <1>2, <1>3, <1>4, <1>5, <1>6, <1>7, <1>8, <1>9, <1>10, <1>11 DEF Commit

LEMMA RollBackType ==
    ASSUME RentalsTypeOK, NEW q \in Requests, RollBack(q)
    PROVE  RentalsTypeOK'
BY FinishType DEF RollBack, RentalsTypeOK, rentalVars, assetVars

LEMMA NextType == RentalsTypeOK /\ [Next]_vars => RentalsTypeOK'
<1> SUFFICES ASSUME RentalsTypeOK, [Next]_vars PROVE RentalsTypeOK'
  OBVIOUS
<1>1. ASSUME NEW q \in Requests, Handle(q) PROVE RentalsTypeOK'
  BY <1>1, ReadType, CommitType, RollBackType DEF Handle, Poll
<1>2. CASE UNCHANGED vars
  BY <1>2 DEF vars, RentalsTypeOK, rentalVars, assetVars
<1> QED BY <1>1, <1>2 DEF Next

\* Every reachable state of the tables and of the handlers in flight is well
\* typed.
THEOREM TypeCorrect == Spec => []RentalsTypeOK
<1> QED BY InitType, NextType, PTL DEF Spec

-----------------------------------------------------------------------------
(* One running rental per asset                                            *)
(*                                                                         *)
(* OneActivePerAsset is not inductive: a second activation is refused only *)
(* because the first one left the asset RENTED.  HandedOutOnce says so.    *)
(* It needs that nothing gives an asset back: a completion writes by id    *)
(* what it read before, and two of them free an asset that has been handed *)
(* out again in between.                                                   *)

HandedOutOnce ==
    /\ \A q \in Requests : requests[q].kind # "complete"
    /\ \A r \in Rentals :
          rentalStatus[r] = "ACTIVE" /\ AssetOf[r] \notin handSet =>
              assetStatus[AssetOf[r]] = "RENTED"
    /\ OneActivePerAsset

LEMMA InitHandedOut == Init => HandedOutOnce
BY DEF Init, HandedOutOnce, OneActivePerAsset, Idle

\* A step that leaves the tables it speaks of alone, or takes running rentals
\* away, keeps HandedOutOnce.
LEMMA FewerActive ==
    ASSUME HandedOutOnce, UNCHANGED <<assetStatus, handSet>>,
           \A r \in Rentals : rentalStatus'[r] = "ACTIVE" => rentalStatus[r] = "ACTIVE",
           \A q \in Requests : requests'[q].kind # "complete"
    PROVE  HandedOutOnce'
BY DEF HandedOutOnce, OneActivePerAsset

LEMMA OneSlotChanges ==
    ASSUME RentalsTypeOK, HandedOutOnce, NEW q \in Requests, NEW slot,
           requests' = [requests EXCEPT ![q] = slot], slot.kind # "complete"
    PROVE  \A o \in Requests : requests'[o].kind # "complete"
BY DEF RentalsTypeOK, HandedOutOnce

LEMMA FinishedSlot ==
    ASSUME RentalsTypeOK, HandedOutOnce, NEW q \in Requests, Finish(q)
    PROVE  \A o \in Requests : requests'[o].kind # "complete"
<1>1. Idle.kind # "complete"
  BY DEF Idle
<1> QED BY <1>1, OneSlotChanges DEF Finish

LEMMA BegunSlot ==
    ASSUME RentalsTypeOK, HandedOutOnce, NEW q \in Requests, NEW slot,
           Begin(q, slot), slot.kind # "complete"
    PROVE  HandedOutOnce'
BY OneSlotChanges, FewerActive DEF Begin, rentalVars, assetVars

LEMMA NextHandedOut ==
    ASSUME "complete" \notin Kinds, RentalsTypeOK, HandedOutOnce, [Next]_vars
    PROVE  HandedOutOnce'
<1>1. ASSUME NEW q \in Requests, NEW r \in Rentals,
             \/ BeginCreate(q, r) \/ BeginInvoice(q, r)
             \/ BeginComplete(q, r) \/ BeginCancel(q, r) \/ BeginVoid(q, r)
             \/ BeginCredit(q, r, TRUE) \/ BeginCredit(q, r, FALSE)
             \/ BeginActivate(q, r, TRUE) \/ BeginActivate(q, r, FALSE)
      PROVE  HandedOutOnce'
  <2>1. ~BeginComplete(q, r)
    BY DEF BeginComplete
  <2>2. CASE BeginCreate(q, r)
    BY <2>2, BegunSlot DEF BeginCreate
  <2>3. CASE BeginInvoice(q, r)
    BY <2>3, BegunSlot DEF BeginInvoice
  <2>4. CASE BeginCancel(q, r)
    BY <2>4, BegunSlot DEF BeginCancel
  <2>5. ASSUME NEW system \in BOOLEAN, BeginActivate(q, r, system)
        PROVE  HandedOutOnce'
    BY <2>5, BegunSlot DEF BeginActivate
  <2>6. CASE BeginVoid(q, r)
    BY <2>6, BegunSlot DEF BeginVoid
  <2>7. ASSUME NEW whole \in BOOLEAN, BeginCredit(q, r, whole)
        PROVE  HandedOutOnce'
    BY <2>7, BegunSlot DEF BeginCredit
  <2> QED BY <1>1, <2>1, <2>2, <2>3, <2>4, <2>5, <2>6, <2>7
<1>2. ASSUME NEW q \in Requests, BeginStatus(q) \/ BeginMove(q) \/ BeginRemoveAsset(q)
      PROVE  HandedOutOnce'
  <2>1. CASE BeginStatus(q)
    BY <2>1, BegunSlot DEF BeginStatus
  <2>2. CASE BeginMove(q)
    BY <2>2, BegunSlot DEF BeginMove
  <2>3. CASE BeginRemoveAsset(q)
    BY <2>3, BegunSlot DEF BeginRemoveAsset
  <2> QED BY <1>2, <2>1, <2>2, <2>3
<1>3. ASSUME NEW q \in Requests, Commit(q) PROVE HandedOutOnce'
  <2>1. CASE Create(q)
    <3>1. \A r \in Rentals : rentalStatus'[r] = "ACTIVE" => rentalStatus[r] = "ACTIVE"
      BY <2>1 DEF Create, SetStatus, RentalsTypeOK
    <3> QED BY <2>1, <3>1, FinishedSlot, FewerActive DEF Create, assetVars
  <2>2. CASE CreateInvoice(q)
    BY <2>2, FinishedSlot, FewerActive DEF CreateInvoice, rentalVars, assetVars
  <2>3. CASE Activate(q)
    <3> DEFINE r == requests[q].rental
               a == AssetOf[r]
    <3>1. r \in Rentals /\ a \in Assets
      BY <2>3, SlotRental, RentalsAssumption DEF Activate, RentalsTypeOK
    <3>2. /\ rentalStatus' = [rentalStatus EXCEPT ![r] = "ACTIVE"]
          /\ assetStatus' = [assetStatus EXCEPT ![a] = "RENTED"]
          /\ UNCHANGED handSet
          /\ assetStatus[a] = "AVAILABLE"
      BY <2>3 DEF Activate, SetStatus, MarkAsRented, Available
    <3>3. \A o \in Requests : requests'[o].kind # "complete"
      BY <2>3, FinishedSlot DEF Activate
    <3>4. ASSUME NEW o \in Rentals, rentalStatus'[o] = "ACTIVE", AssetOf[o] \notin handSet'
          PROVE  assetStatus'[AssetOf[o]] = "RENTED"
      BY <3>1, <3>2, <3>4, RentalsAssumption DEF HandedOutOnce, RentalsTypeOK
    <3>5. ASSUME NEW o \in Rentals, rentalStatus'[o] = "ACTIVE", AssetOf[o] = a,
                 a \notin handSet'
          PROVE  o = r
      BY <3>1, <3>2, <3>5 DEF HandedOutOnce, RentalsTypeOK
    <3>6. OneActivePerAsset'
      BY <3>1, <3>2, <3>5 DEF HandedOutOnce, OneActivePerAsset, RentalsTypeOK
    <3> QED BY <3>3, <3>4, <3>6 DEF HandedOutOnce
  <2>4. ~Complete(q)
    BY DEF Complete, HandedOutOnce
  <2>5. CASE WriteCancelled(q)
    <3> DEFINE slot == [kind |-> "cancelling", rental |-> requests[q].rental,
                        seenUnpaid |-> invoice[requests[q].rental] = "UNPAID"]
    <3>1. requests' = [requests EXCEPT ![q] = slot] /\ slot.kind # "complete"
      BY <2>5 DEF WriteCancelled
    <3>2. \A o \in Requests : requests'[o].kind # "complete"
      <4> HIDE DEF slot
      <4> QED BY <3>1, OneSlotChanges
    <3> QED BY <2>5, <3>2, FewerActive DEF WriteCancelled, rentalVars, assetVars
  <2>6. CASE Cancel(q)
    <3>1. \A r \in Rentals : rentalStatus'[r] = "ACTIVE" => rentalStatus[r] = "ACTIVE"
      BY <2>6 DEF Cancel, SetStatus, RentalsTypeOK
    <3> QED BY <2>6, <3>1, FinishedSlot, FewerActive DEF Cancel, assetVars
  <2>7. CASE UpdateStatus(q)
    <3>1. \A o \in Requests : requests'[o].kind # "complete"
      BY <2>7, FinishedSlot DEF UpdateStatus
    <3>2. requests[q].asset \in Assets
      BY <2>7, SlotKinds DEF UpdateStatus, StatusReq, RentalsTypeOK
    <3>3. /\ assetStatus' = [assetStatus EXCEPT ![requests[q].asset] = requests[q].status]
          /\ handSet' = handSet \cup {requests[q].asset}
          /\ UNCHANGED rentalStatus
      BY <2>7 DEF UpdateStatus, rentalVars
    <3> QED BY <3>1, <3>2, <3>3, RentalsAssumption
            DEF HandedOutOnce, OneActivePerAsset, RentalsTypeOK
  <2>8. CASE Move(q)
    BY <2>8, FinishedSlot, FewerActive DEF Move, rentalVars
  <2>9. CASE RemoveAsset(q)
    BY <2>9, FinishedSlot, FewerActive DEF RemoveAsset, rentalVars
  <2>10. CASE Credit(q)
    BY <2>10, FinishedSlot, FewerActive DEF Credit, rentalVars, assetVars
  <2>11. CASE Void(q)
    BY <2>11, FinishedSlot, FewerActive DEF Void, rentalVars, assetVars
  <2> QED BY <1>3, <2>1, <2>2, <2>3, <2>4, <2>5, <2>6, <2>7, <2>8, <2>9, <2>10, <2>11
          DEF Commit
<1>4. ASSUME NEW q \in Requests, RollBack(q) PROVE HandedOutOnce'
  BY <1>4, FinishedSlot, FewerActive DEF RollBack, rentalVars, assetVars
<1>5. CASE UNCHANGED vars
  BY <1>5, FewerActive DEF vars, rentalVars, assetVars, HandedOutOnce
<1> QED BY <1>1, <1>2, <1>3, <1>4, <1>5 DEF Next, Handle, Poll

\* While no rental is completed, an asset whose status nobody writes by hand
\* is handed out once, however activations by managers, activations by the
\* poll, cancellations and changes of the equipment overlap.
THEOREM HandedOutToOne ==
    ASSUME "complete" \notin Kinds
    PROVE  Spec => []OneActivePerAsset
<1>1. Init => RentalsTypeOK /\ HandedOutOnce
  BY InitType, InitHandedOut
<1>2. RentalsTypeOK /\ HandedOutOnce /\ [Next]_vars => (RentalsTypeOK /\ HandedOutOnce)'
  BY NextType, NextHandedOut
<1>3. HandedOutOnce => OneActivePerAsset
  BY DEF HandedOutOnce
<1> QED BY <1>1, <1>2, <1>3, PTL DEF Spec

-----------------------------------------------------------------------------
(* The handlers implement Handouts                                         *)
(*                                                                         *)
(* Creating must not bring back a rental that is over: a handler about to  *)
(* insert a rental holds one that has no row, no two hold the same, and a  *)
(* handler that is to end a rental has seen its row.                       *)

Creates(q, r) == requests[q].kind = "create" /\ requests[q].rental = r
Ends(q, r) ==
    requests[q].kind \in {"complete", "cancel", "cancelling"} /\ requests[q].rental = r

CreatesNew ==
    /\ \A q \in Requests, r \in Rentals : Creates(q, r) => rentalStatus[r] = "none"
    /\ \A q, p \in Requests, r \in Rentals : Creates(q, r) /\ Creates(p, r) => q = p
    /\ \A q \in Requests, r \in Rentals : Ends(q, r) => rentalStatus[r] # "none"

\* A slot is emptied, or filled by a handler that creates nothing.
LEMMA NewStaysNew ==
    ASSUME RentalsTypeOK, CreatesNew, NEW q \in Requests, NEW slot,
           requests' = [requests EXCEPT ![q] = slot], slot.kind # "create",
           slot.kind \in {"complete", "cancel", "cancelling"} =>
               slot.rental \in Rentals /\ rentalStatus[slot.rental] # "none",
           \A r \in Rentals :
               /\ rentalStatus'[r] = "none" => rentalStatus[r] = "none"
               /\ rentalStatus[r] = "none" => rentalStatus'[r] = "none" \/ Creates(q, r)
    PROVE  CreatesNew'
<1>1. \A o \in Requests : o # q => requests'[o] = requests[o]
  BY DEF RentalsTypeOK
<1>2. requests'[q] = slot
  BY DEF RentalsTypeOK
<1>3. \A o \in Requests, r \in Rentals : Creates(o, r)' => o # q /\ Creates(o, r)
  BY <1>1, <1>2 DEF Creates
<1>4. \A o \in Requests, r \in Rentals : Creates(o, r)' => rentalStatus'[r] = "none"
  BY <1>3 DEF CreatesNew
<1>5. \A o, p \in Requests, r \in Rentals : Creates(o, r)' /\ Creates(p, r)' => o = p
  BY <1>3 DEF CreatesNew
<1>6. ASSUME NEW o \in Requests, NEW r \in Rentals, Ends(o, r)'
      PROVE  rentalStatus'[r] # "none"
  BY <1>1, <1>2, <1>6 DEF CreatesNew, Ends
<1> QED BY <1>4, <1>5, <1>6 DEF CreatesNew

LEMMA FinishedNew ==
    ASSUME RentalsTypeOK, CreatesNew, NEW q \in Requests, Finish(q),
           \A r \in Rentals :
               /\ rentalStatus'[r] = "none" => rentalStatus[r] = "none"
               /\ rentalStatus[r] = "none" => rentalStatus'[r] = "none" \/ Creates(q, r)
    PROVE  CreatesNew'
<1>1. Idle.kind \notin {"create", "complete", "cancel", "cancelling"}
  BY DEF Idle
<1> QED BY <1>1, NewStaysNew DEF Finish

LEMMA BegunOther ==
    ASSUME RentalsTypeOK, CreatesNew, NEW q \in Requests, NEW slot,
           Begin(q, slot), slot.kind # "create",
           slot.kind \in {"complete", "cancel", "cancelling"} =>
               slot.rental \in Rentals /\ rentalStatus[slot.rental] # "none"
    PROVE  CreatesNew'
BY NewStaysNew DEF Begin, rentalVars

LEMMA BegunCreate ==
    ASSUME RentalsTypeOK, CreatesNew, NEW q \in Requests, NEW r \in Rentals,
           BeginCreate(q, r)
    PROVE  CreatesNew'
<1> DEFINE slot == [kind |-> "create", rental |-> r]
<1>1. /\ requests' = [requests EXCEPT ![q] = slot]
      /\ UNCHANGED rentalStatus
      /\ rentalStatus[r] = "none"
      /\ \A o \in Requests : requests[o] # slot
  BY DEF BeginCreate, Begin, rentalVars
<1>2. ASSUME NEW o \in Requests, Creates(o, r) PROVE FALSE
  <2>1. requests[o] \in RentalReq
    BY <1>2, SlotKinds DEF Creates, RentalsTypeOK
  <2>2. requests[o] = slot
    BY <1>2, <2>1 DEF Creates, RentalReq
  <2> QED BY <1>1, <2>2
<1>3. \A o \in Requests, s \in Rentals :
          /\ Creates(o, s)' => (o = q /\ s = r) \/ (o # q /\ Creates(o, s))
          /\ Ends(o, s)' => Ends(o, s)
  BY <1>1 DEF Creates, Ends, RentalsTypeOK
<1>4. \A o \in Requests, s \in Rentals : Creates(o, s)' => rentalStatus'[s] = "none"
  BY <1>1, <1>3 DEF CreatesNew
<1>5. \A o, p \in Requests, s \in Rentals : Creates(o, s)' /\ Creates(p, s)' => o = p
  BY <1>2, <1>3 DEF CreatesNew
<1>6. \A o \in Requests, s \in Rentals : Ends(o, s)' => rentalStatus'[s] # "none"
  BY <1>1, <1>3 DEF CreatesNew
<1> QED BY <1>4, <1>5, <1>6 DEF CreatesNew

LEMMA CommitNew ==
    ASSUME RentalsTypeOK, CreatesNew, NEW q \in Requests, Commit(q) \/ RollBack(q)
    PROVE  CreatesNew'
<1> DEFINE r == requests[q].rental
<1>1. CASE Create(q)
  <2>1. \A o \in Rentals :
            /\ rentalStatus'[o] = "none" => rentalStatus[o] = "none"
            /\ rentalStatus[o] = "none" => rentalStatus'[o] = "none" \/ Creates(q, o)
    BY <1>1 DEF Create, SetStatus, RentalsTypeOK, Creates
  <2> QED BY <1>1, <2>1, FinishedNew DEF Create
<1>2. CASE Activate(q) \/ Complete(q) \/ Cancel(q)
  <2>1. PICK s \in RentalStatuses : SetStatus(r, s)
    BY <1>2 DEF Activate, Complete, Cancel, RentalStatuses
  <2>2. r \in Rentals
    BY <1>2, SlotRental DEF Activate, Complete, Cancel, RentalsTypeOK
  <2>3. rentalStatus[r] # "none"
    <3>1. CASE Activate(q)
      BY <3>1 DEF Activate, Activatable
    <3>2. CASE Complete(q) \/ Cancel(q)
      BY <2>2, <3>2 DEF Complete, Cancel, CreatesNew, Ends
    <3> QED BY <1>2, <3>1, <3>2
  <2>4. \A o \in Rentals :
            /\ rentalStatus'[o] = "none" => rentalStatus[o] = "none"
            /\ rentalStatus[o] = "none" => rentalStatus'[o] = "none"
    BY <2>1, <2>3 DEF SetStatus, RentalsTypeOK, RentalStatuses
  <2>5. Finish(q)
    BY <1>2 DEF Activate, Complete, Cancel
  <2> QED BY <2>4, <2>5, FinishedNew
<1>3. CASE WriteCancelled(q)
  <2> DEFINE slot == [kind |-> "cancelling", rental |-> r,
                      seenUnpaid |-> invoice[r] = "UNPAID"]
  <2>1. r \in Rentals
    BY <1>3, SlotRental DEF WriteCancelled, RentalsTypeOK
  <2>2. rentalStatus[r] # "none"
    BY <1>3, <2>1 DEF WriteCancelled, CreatesNew, Ends
  <2>3. requests' = [requests EXCEPT ![q] = slot] /\ UNCHANGED rentalStatus
    BY <1>3 DEF WriteCancelled, rentalVars
  <2>4. slot.kind = "cancelling" /\ slot.rental = r
    OBVIOUS
  <2> HIDE DEF slot
  <2> QED BY <2>1, <2>2, <2>3, <2>4, NewStaysNew
<1>4. CASE \/ CreateInvoice(q) \/ Credit(q) \/ Void(q) \/ UpdateStatus(q)
           \/ Move(q) \/ RemoveAsset(q) \/ RollBack(q)
  <2>1. Finish(q) /\ UNCHANGED rentalStatus
    BY <1>4 DEF CreateInvoice, Credit, Void, UpdateStatus, Move, RemoveAsset, RollBack,
       rentalVars
  <2> QED BY <2>1, FinishedNew
<1> QED BY <1>1, <1>2, <1>3, <1>4 DEF Commit

LEMMA NextNew ==
    ASSUME RentalsTypeOK, CreatesNew, [Next]_vars
    PROVE  CreatesNew'
<1>1. ASSUME NEW q \in Requests, NEW r \in Rentals,
             \/ BeginCreate(q, r) \/ BeginInvoice(q, r) \/ BeginVoid(q, r)
             \/ BeginComplete(q, r) \/ BeginCancel(q, r)
      PROVE  CreatesNew'
  <2>1. CASE BeginInvoice(q, r)
    BY <2>1, BegunOther DEF BeginInvoice
  <2>2. CASE BeginVoid(q, r)
    BY <2>2, BegunOther DEF BeginVoid
  <2>3. CASE BeginComplete(q, r)
    BY <2>3, BegunOther DEF BeginComplete
  <2>4. CASE BeginCancel(q, r)
    BY <2>4, BegunOther DEF BeginCancel
  <2> QED BY <1>1, <2>1, <2>2, <2>3, <2>4, BegunCreate
<1>2. ASSUME NEW q \in Requests, NEW r \in Rentals, NEW b \in BOOLEAN,
             BeginCredit(q, r, b) \/ BeginActivate(q, r, b)
      PROVE  CreatesNew'
  <2>1. CASE BeginCredit(q, r, b)
    BY <2>1, BegunOther DEF BeginCredit
  <2>2. CASE BeginActivate(q, r, b)
    BY <2>2, BegunOther DEF BeginActivate
  <2> QED BY <1>2, <2>1, <2>2
<1>3. ASSUME NEW q \in Requests, BeginStatus(q) \/ BeginMove(q) \/ BeginRemoveAsset(q)
      PROVE  CreatesNew'
  <2>1. CASE BeginStatus(q)
    BY <2>1, BegunOther DEF BeginStatus
  <2>2. CASE BeginMove(q)
    BY <2>2, BegunOther DEF BeginMove
  <2>3. CASE BeginRemoveAsset(q)
    BY <2>3, BegunOther DEF BeginRemoveAsset
  <2> QED BY <1>3, <2>1, <2>2, <2>3
<1>4. CASE UNCHANGED vars
  BY <1>4 DEF vars, rentalVars, CreatesNew, Creates, Ends
<1> QED BY <1>1, <1>2, <1>3, <1>4, CommitNew DEF Next, Handle, Poll

\* A step that changes neither the rows of rentals nor what managers wrote by
\* hand is a stutter of the promise.
LEMMA StutterKeepsPromise ==
    ASSUME UNCHANGED <<rentalStatus, handSet>>
    PROVE  UNCHANGED Promise!vars
BY DEF Promise!vars, ActiveOn

LEMMA StepKeepsPromise ==
    ASSUME RentalsTypeOK, HandedOutOnce, CreatesNew, [Next]_vars
    PROVE  [Promise!Next]_(Promise!vars)
<1>1. ASSUME NEW q \in Requests, Commit(q) PROVE [Promise!Next]_(Promise!vars)
  <2> DEFINE r == requests[q].rental
             a == AssetOf[r]
  <2>1. CASE Create(q)
    <3>1. r \in Rentals /\ rentalStatus[r] = "none"
      BY <2>1, SlotRental DEF Create, Creates, CreatesNew, RentalsTypeOK
    <3>2. rentalStatus' = [rentalStatus EXCEPT ![r] = "REQUESTED"] /\ UNCHANGED handSet
      BY <2>1 DEF Create, SetStatus, assetVars
    <3>3. \A o \in Rentals :
              /\ rentalStatus'[o] = "ACTIVE" <=> rentalStatus[o] = "ACTIVE"
              /\ rentalStatus'[o] \in {"COMPLETED", "CANCELLED"} <=>
                     rentalStatus[o] \in {"COMPLETED", "CANCELLED"}
      BY <3>1, <3>2 DEF RentalsTypeOK
    <3> QED BY <3>2, <3>3 DEF Promise!vars, ActiveOn
  <2>2. CASE Activate(q)
    <3>1. r \in Rentals /\ a \in Assets
      BY <2>2, SlotRental, RentalsAssumption DEF Activate, RentalsTypeOK
    <3>2. /\ rentalStatus' = [rentalStatus EXCEPT ![r] = "ACTIVE"]
          /\ rentalStatus[r] = "APPROVED"
          /\ assetStatus[a] = "AVAILABLE"
          /\ UNCHANGED handSet
      BY <2>2 DEF Activate, Activatable, Available, SetStatus
    <3>3. ActiveOn(a) = {} \/ a \in handSet
      BY <3>1, <3>2 DEF HandedOutOnce, ActiveOn
    <3>4. \A b \in Assets :
              ActiveOn(b)' = IF b = a THEN ActiveOn(b) \cup {r} ELSE ActiveOn(b)
      BY <3>1, <3>2 DEF ActiveOn, RentalsTypeOK
    <3>5. UNCHANGED {o \in Rentals : rentalStatus[o] \in {"COMPLETED", "CANCELLED"}}
      BY <3>1, <3>2 DEF RentalsTypeOK
    <3>6. Promise!HandOut(r)
      BY <3>1, <3>2, <3>3, <3>4, <3>5 DEF Promise!HandOut
    <3> QED BY <3>1, <3>6 DEF Promise!Next
  <2>3. ~Complete(q)
    BY DEF Complete, HandedOutOnce
  <2>4. CASE Cancel(q)
    <3>1. PICK c \in Rentals : c = r
      BY <2>4, SlotRental DEF Cancel, RentalsTypeOK
    <3>2. rentalStatus' = [rentalStatus EXCEPT ![c] = "CANCELLED"] /\ UNCHANGED handSet
      BY <2>4, <3>1 DEF Cancel, SetStatus, assetVars
    <3>3. CASE rentalStatus[c] \in {"COMPLETED", "CANCELLED"}
      <4>1. \A o \in Rentals :
                /\ rentalStatus'[o] = "ACTIVE" <=> rentalStatus[o] = "ACTIVE"
                /\ rentalStatus'[o] \in {"COMPLETED", "CANCELLED"} <=>
                       rentalStatus[o] \in {"COMPLETED", "CANCELLED"}
        BY <3>2, <3>3 DEF RentalsTypeOK
      <4> QED BY <3>2, <4>1 DEF Promise!vars, ActiveOn
    <3>4. CASE rentalStatus[c] \notin {"COMPLETED", "CANCELLED"}
      <4>1. \A b \in Assets :
                ActiveOn(b)' = IF b = AssetOf[c] THEN ActiveOn(b) \ {c} ELSE ActiveOn(b)
        BY <3>2 DEF ActiveOn, RentalsTypeOK
      <4>2. {o \in Rentals : rentalStatus'[o] \in {"COMPLETED", "CANCELLED"}}
              = {o \in Rentals : rentalStatus[o] \in {"COMPLETED", "CANCELLED"}} \cup {c}
        BY <3>2 DEF RentalsTypeOK
      <4>3. AssetOf[c] \in Assets
        BY RentalsAssumption
      <4>4. Promise!Close(c)
        BY <3>2, <3>4, <4>1, <4>2, <4>3 DEF Promise!Close
      <4> QED BY <4>4 DEF Promise!Next
    <3> QED BY <3>3, <3>4
  <2>5. CASE UpdateStatus(q)
    <3>1. requests[q].asset \in Assets
      BY <2>5, SlotKinds DEF UpdateStatus, StatusReq, RentalsTypeOK
    <3>2. handSet' = handSet \cup {requests[q].asset} /\ UNCHANGED rentalStatus
      BY <2>5 DEF UpdateStatus, rentalVars
    <3>3. Promise!Overrule(requests[q].asset)
      BY <3>2 DEF Promise!Overrule, ActiveOn
    <3> QED BY <3>1, <3>3 DEF Promise!Next
  <2>6. CASE \/ WriteCancelled(q) \/ CreateInvoice(q) \/ Credit(q) \/ Void(q)
             \/ Move(q) \/ RemoveAsset(q)
    BY <2>6, StutterKeepsPromise DEF WriteCancelled, CreateInvoice, Credit, Void, Move,
       RemoveAsset, rentalVars, assetVars
  <2> QED BY <1>1, <2>1, <2>2, <2>3, <2>4, <2>5, <2>6 DEF Commit
<1>2. ASSUME NEW q \in Requests, Handle(q), ~Commit(q) PROVE UNCHANGED <<rentalStatus, handSet>>
  BY <1>2 DEF Handle, Poll, RollBack, Begin, BeginCreate, BeginInvoice, BeginVoid, BeginCredit,
     BeginActivate, BeginComplete, BeginCancel, BeginStatus, BeginMove, BeginRemoveAsset,
     rentalVars, assetVars
<1>3. CASE UNCHANGED vars
  BY <1>3, StutterKeepsPromise DEF vars, rentalVars, assetVars
<1> QED BY <1>1, <1>2, <1>3, StutterKeepsPromise DEF Next

LEMMA InitKeepsPromise == Init => Promise!Init /\ CreatesNew
<1>1. SUFFICES ASSUME Init PROVE Promise!Init /\ CreatesNew
  OBVIOUS
<1>2. \A r \in Rentals : rentalStatus[r] \notin {"ACTIVE", "COMPLETED", "CANCELLED"}
  BY <1>1 DEF Init
<1>3. Promise!Init
  BY <1>1, <1>2 DEF Init, Promise!Init, ActiveOn
<1>4. CreatesNew
  BY <1>1 DEF Init, CreatesNew, Creates, Ends, Idle
<1> QED BY <1>3, <1>4

\* While no rental is completed, the handlers implement the promise of
\* Handouts: every activation hands an asset out that nobody holds, or whose
\* status a manager wrote by hand, and no cancelled rental comes back.
THEOREM HandoutsImplemented ==
    ASSUME "complete" \notin Kinds
    PROVE  Spec => HandedOutAsPromised
<1> DEFINE Inv == RentalsTypeOK /\ HandedOutOnce /\ CreatesNew
<1>1. Init => Inv /\ Promise!Init
  BY InitType, InitHandedOut, InitKeepsPromise
<1>2. Inv /\ [Next]_vars => Inv'
  BY NextType, NextHandedOut, NextNew
<1>3. Inv /\ [Next]_vars => [Promise!Next]_(Promise!vars)
  BY StepKeepsPromise
<1> QED BY <1>1, <1>2, <1>3, PTL DEF Spec, HandedOutAsPromised, Promise!Spec

-----------------------------------------------------------------------------
(* A running rental has been paid                                          *)
(*                                                                         *)
(* activateRental reads the invoice before it waits for the asset.  What   *)
(* it has read holds as long as the rental is APPROVED: only a             *)
(* cancellation voids a paid invoice, and it closes the rental with it.    *)
(* It needs that no handler overwrites the status of an invoice with       *)
(* anything but PAID, which WholeCredits says.                             *)

WholeCredits ==
    \A q \in Requests :
        /\ requests[q].kind # "void"
        /\ requests[q].kind = "credit" => requests[q].whole

\* A slot is filled with something else, or emptied.
LEMMA OtherSlot ==
    ASSUME RentalsTypeOK, WholeCredits, NEW q \in Requests, NEW slot,
           requests' = [requests EXCEPT ![q] = slot],
           slot.kind # "void", slot.kind = "credit" => slot.whole
    PROVE  WholeCredits'
BY DEF RentalsTypeOK, WholeCredits

LEMMA NextWhole ==
    ASSUME {"void", "installments"} \cap Kinds = {}, RentalsTypeOK, WholeCredits, [Next]_vars
    PROVE  WholeCredits'
<1>1. ASSUME NEW q \in Requests, Finish(q) PROVE WholeCredits'
  <2>1. Idle.kind # "void" /\ Idle.kind # "credit"
    BY DEF Idle
  <2> QED BY <1>1, <2>1, OtherSlot DEF Finish
<1>2. ASSUME NEW q \in Requests, Commit(q) \/ RollBack(q) PROVE WholeCredits'
  <2>1. CASE WriteCancelled(q)
    <3> DEFINE slot == [kind |-> "cancelling", rental |-> requests[q].rental,
                        seenUnpaid |-> invoice[requests[q].rental] = "UNPAID"]
    <3>1. /\ requests' = [requests EXCEPT ![q] = slot]
          /\ slot.kind # "void" /\ slot.kind # "credit"
      BY <2>1 DEF WriteCancelled
    <3> HIDE DEF slot
    <3> QED BY <3>1, OtherSlot
  <2>2. CASE ~WriteCancelled(q)
    <3>1. Finish(q)
      BY <1>2, <2>2 DEF Commit, RollBack, Create, CreateInvoice, Credit, Void, Activate,
         Complete, Cancel, UpdateStatus, Move, RemoveAsset
    <3> QED BY <1>1, <3>1
  <2> QED BY <2>1, <2>2
<1>3. ASSUME NEW q \in Requests, NEW slot, Begin(q, slot),
             slot.kind # "void", slot.kind = "credit" => slot.whole
      PROVE  WholeCredits'
  BY <1>3, OtherSlot DEF Begin
<1>4. ASSUME NEW q \in Requests, NEW r \in Rentals,
             BeginCreate(q, r) \/ BeginInvoice(q, r) \/ BeginComplete(q, r) \/ BeginCancel(q, r)
      PROVE  WholeCredits'
  <2>1. CASE BeginCreate(q, r)
    BY <2>1, <1>3 DEF BeginCreate
  <2>2. CASE BeginInvoice(q, r)
    BY <2>2, <1>3 DEF BeginInvoice
  <2>3. CASE BeginComplete(q, r)
    BY <2>3, <1>3 DEF BeginComplete
  <2>4. CASE BeginCancel(q, r)
    BY <2>4, <1>3 DEF BeginCancel
  <2> QED BY <1>4, <2>1, <2>2, <2>3, <2>4
<1>5. ASSUME NEW q \in Requests, NEW r \in Rentals, NEW b \in BOOLEAN,
             BeginVoid(q, r) \/ BeginCredit(q, r, b) \/ BeginActivate(q, r, b)
      PROVE  WholeCredits'
  <2>1. ~BeginVoid(q, r)
    BY DEF BeginVoid
  <2>2. CASE BeginCredit(q, r, b)
    <3>1. b /\ Begin(q, [kind |-> "credit", rental |-> r, whole |-> b])
      BY <2>2 DEF BeginCredit
    <3> QED BY <1>3, <3>1
  <2>3. CASE BeginActivate(q, r, b)
    BY <2>3, <1>3 DEF BeginActivate
  <2> QED BY <1>5, <2>1, <2>2, <2>3
<1>6. ASSUME NEW q \in Requests, BeginStatus(q) \/ BeginMove(q) \/ BeginRemoveAsset(q)
      PROVE  WholeCredits'
  <2>1. CASE BeginStatus(q)
    BY <2>1, <1>3 DEF BeginStatus
  <2>2. CASE BeginMove(q)
    BY <2>2, <1>3 DEF BeginMove
  <2>3. CASE BeginRemoveAsset(q)
    BY <2>3, <1>3 DEF BeginRemoveAsset
  <2> QED BY <1>6, <2>1, <2>2, <2>3
<1>7. CASE UNCHANGED vars
  BY <1>7 DEF vars, WholeCredits
<1> QED BY <1>2, <1>4, <1>5, <1>6, <1>7 DEF Next, Handle, Poll

PaidWhenActive ==
    /\ ActiveIsPaid
    /\ \A q \in Requests :
          requests[q].kind = "activate" =>
              \/ invoice[requests[q].rental] = "PAID"
              \/ rentalStatus[requests[q].rental] # "APPROVED"

LEMMA InitPaid == Init => PaidWhenActive
BY DEF Init, PaidWhenActive, ActiveIsPaid, Idle

\* Steps that take no money back keep it: a rental becomes neither APPROVED nor
\* ACTIVE, and where its invoice is changed from PAID, it is neither any more.
LEMMA PaidStays ==
    ASSUME RentalsTypeOK, PaidWhenActive,
           NEW q \in Requests, NEW slot, requests' = [requests EXCEPT ![q] = slot],
           slot.kind # "activate",
           \A r \in Rentals :
               /\ rentalStatus'[r] \in {"APPROVED", "ACTIVE"} =>
                      rentalStatus'[r] = rentalStatus[r]
               /\ invoice[r] = "PAID" =>
                      \/ invoice'[r] = "PAID"
                      \/ rentalStatus'[r] \notin {"APPROVED", "ACTIVE"}
    PROVE  PaidWhenActive'
<1>1. ActiveIsPaid'
  BY DEF PaidWhenActive, ActiveIsPaid
<1>2. ASSUME NEW o \in Requests, requests'[o].kind = "activate"
      PROVE  \/ invoice'[requests'[o].rental] = "PAID"
             \/ rentalStatus'[requests'[o].rental] # "APPROVED"
  <2>1. o # q /\ requests'[o] = requests[o]
    BY <1>2 DEF RentalsTypeOK
  <2>2. requests[o].rental \in Rentals
    BY <1>2, <2>1, SlotRental DEF RentalsTypeOK
  <2>3. \/ invoice[requests[o].rental] = "PAID"
        \/ rentalStatus[requests[o].rental] # "APPROVED"
    BY <1>2, <2>1 DEF PaidWhenActive
  <2> QED BY <2>1, <2>2, <2>3
<1> QED BY <1>1, <1>2 DEF PaidWhenActive

LEMMA BegunUnpaid ==
    ASSUME RentalsTypeOK, PaidWhenActive, NEW q \in Requests, NEW slot,
           Begin(q, slot), slot.kind # "activate"
    PROVE  PaidWhenActive'
BY PaidStays DEF Begin, rentalVars

LEMMA IdleIsNotActivate == Idle.kind # "activate"
BY DEF Idle

LEMMA CommitPaid ==
    ASSUME RentalsTypeOK, WholeCredits, PaidWhenActive, NEW q \in Requests, Commit(q)
    PROVE  PaidWhenActive'
<1> DEFINE r == requests[q].rental
<1>1. CASE Create(q)
  <2>1. \A o \in Rentals : rentalStatus'[o] \in {"APPROVED", "ACTIVE"} =>
                               rentalStatus'[o] = rentalStatus[o]
    BY <1>1 DEF Create, SetStatus, RentalsTypeOK
  <2> QED BY <1>1, <2>1, PaidStays, IdleIsNotActivate DEF Create, Finish
<1>2. CASE CreateInvoice(q)
  <2>1. \A o \in Rentals : invoice[o] = "PAID" => invoice'[o] = "PAID"
    BY <1>2 DEF CreateInvoice, RentalsTypeOK
  <2> QED BY <1>2, <2>1, PaidStays, IdleIsNotActivate
          DEF CreateInvoice, Finish, rentalVars
<1>3. CASE Activate(q)
  <2>1. r \in Rentals
    BY <1>3, SlotRental DEF Activate, RentalsTypeOK
  <2>2. /\ rentalStatus' = [rentalStatus EXCEPT ![r] = "ACTIVE"]
        /\ requests' = [requests EXCEPT ![q] = Idle]
        /\ UNCHANGED invoice
        /\ rentalStatus[r] = "APPROVED"
        /\ requests[q].kind = "activate"
    BY <1>3 DEF Activate, Activatable, SetStatus, Finish
  <2>3. invoice[r] = "PAID"
    BY <2>2 DEF PaidWhenActive
  <2>4. ActiveIsPaid'
    BY <2>1, <2>2, <2>3 DEF PaidWhenActive, ActiveIsPaid, RentalsTypeOK
  <2>5. ASSUME NEW o \in Requests, requests'[o].kind = "activate"
        PROVE  \/ invoice'[requests'[o].rental] = "PAID"
               \/ rentalStatus'[requests'[o].rental] # "APPROVED"
    <3>1. o # q /\ requests'[o] = requests[o]
      BY <2>2, <2>5, IdleIsNotActivate DEF RentalsTypeOK
    <3>2. requests[o].rental \in Rentals
      BY <2>5, <3>1, SlotRental DEF RentalsTypeOK
    <3>3. \/ invoice[requests[o].rental] = "PAID"
          \/ rentalStatus[requests[o].rental] # "APPROVED"
      BY <2>5, <3>1 DEF PaidWhenActive
    <3> QED BY <2>1, <2>2, <3>1, <3>2, <3>3 DEF RentalsTypeOK
  <2> QED BY <2>4, <2>5 DEF PaidWhenActive
<1>4. CASE Complete(q)
  <2>1. \A o \in Rentals : rentalStatus'[o] \in {"APPROVED", "ACTIVE"} =>
                               rentalStatus'[o] = rentalStatus[o]
    BY <1>4 DEF Complete, SetStatus, RentalsTypeOK
  <2> QED BY <1>4, <2>1, PaidStays, IdleIsNotActivate DEF Complete, Finish
<1>5. CASE WriteCancelled(q)
  <2> DEFINE slot == [kind |-> "cancelling", rental |-> r,
                      seenUnpaid |-> invoice[r] = "UNPAID"]
  <2>1. requests' = [requests EXCEPT ![q] = slot] /\ slot.kind # "activate"
    BY <1>5 DEF WriteCancelled
  <2>2. UNCHANGED <<rentalStatus, invoice>>
    BY <1>5 DEF WriteCancelled, rentalVars
  <2> HIDE DEF slot
  <2> QED BY <2>1, <2>2, PaidStays
<1>6. CASE Cancel(q)
  <2>1. /\ rentalStatus' = [rentalStatus EXCEPT ![r] = "CANCELLED"]
        /\ \A o \in Rentals : o # r => invoice'[o] = invoice[o]
        /\ requests' = [requests EXCEPT ![q] = Idle]
    BY <1>6 DEF Cancel, SetStatus, VoidInvoice, Finish, RentalsTypeOK
  <2>2. \A o \in Rentals :
            /\ rentalStatus'[o] \in {"APPROVED", "ACTIVE"} =>
                   rentalStatus'[o] = rentalStatus[o]
            /\ invoice[o] = "PAID" =>
                   \/ invoice'[o] = "PAID"
                   \/ rentalStatus'[o] \notin {"APPROVED", "ACTIVE"}
    BY <2>1 DEF RentalsTypeOK
  <2> QED BY <2>1, <2>2, PaidStays, IdleIsNotActivate
<1>7. CASE UpdateStatus(q)
  BY <1>7, PaidStays, IdleIsNotActivate DEF UpdateStatus, Finish, rentalVars
<1>8. CASE Move(q)
  BY <1>8, PaidStays, IdleIsNotActivate DEF Move, Finish, rentalVars
<1>9. CASE RemoveAsset(q)
  BY <1>9, PaidStays, IdleIsNotActivate DEF RemoveAsset, Finish, rentalVars
<1>10. CASE Credit(q)
  <2>1. /\ invoice' = [invoice EXCEPT ![r] = "PAID"]
        /\ requests' = [requests EXCEPT ![q] = Idle]
        /\ UNCHANGED rentalStatus
    BY <1>10 DEF Credit, Finish, WholeCredits, rentalVars
  <2>2. \A o \in Rentals : invoice[o] = "PAID" => invoice'[o] = "PAID"
    BY <2>1 DEF RentalsTypeOK
  <2> QED BY <2>1, <2>2, PaidStays, IdleIsNotActivate
<1>11. ~Void(q)
  BY DEF Void, WholeCredits
<1> QED BY <1>1, <1>2, <1>3, <1>4, <1>5, <1>6, <1>7, <1>8, <1>9, <1>10, <1>11 DEF Commit

LEMMA NextPaid ==
    ASSUME RentalsTypeOK, WholeCredits, PaidWhenActive, [Next]_vars
    PROVE  PaidWhenActive'
<1>1. ASSUME NEW q \in Requests, NEW r \in Rentals,
             BeginCreate(q, r) \/ BeginInvoice(q, r) \/ BeginComplete(q, r) \/ BeginCancel(q, r)
             \/ BeginVoid(q, r) \/ BeginCredit(q, r, TRUE) \/ BeginCredit(q, r, FALSE)
      PROVE  PaidWhenActive'
  <2>1. CASE BeginCreate(q, r)
    BY <2>1, BegunUnpaid DEF BeginCreate
  <2>2. CASE BeginInvoice(q, r)
    BY <2>2, BegunUnpaid DEF BeginInvoice
  <2>3. CASE BeginComplete(q, r)
    BY <2>3, BegunUnpaid DEF BeginComplete
  <2>4. CASE BeginCancel(q, r)
    BY <2>4, BegunUnpaid DEF BeginCancel
  <2>5. CASE BeginVoid(q, r)
    BY <2>5, BegunUnpaid DEF BeginVoid
  <2>6. ASSUME NEW whole \in BOOLEAN, BeginCredit(q, r, whole) PROVE PaidWhenActive'
    BY <2>6, BegunUnpaid DEF BeginCredit
  <2> QED BY <1>1, <2>1, <2>2, <2>3, <2>4, <2>5, <2>6
<1>2. ASSUME NEW q \in Requests, NEW r \in Rentals, NEW system \in BOOLEAN,
             BeginActivate(q, r, system)
      PROVE  PaidWhenActive'
  <2> DEFINE slot == [kind |-> "activate", rental |-> r, bySystem |-> system]
  <2>1. /\ requests' = [requests EXCEPT ![q] = slot]
        /\ UNCHANGED <<rentalStatus, invoice>>
        /\ invoice[r] = "PAID"
    BY <1>2 DEF BeginActivate, Begin, rentalVars
  <2>2. slot.rental = r
    OBVIOUS
  <2> HIDE DEF slot
  <2> QED BY <2>1, <2>2 DEF PaidWhenActive, ActiveIsPaid, RentalsTypeOK
<1>3. ASSUME NEW q \in Requests, BeginStatus(q) \/ BeginMove(q) \/ BeginRemoveAsset(q)
      PROVE  PaidWhenActive'
  <2>1. CASE BeginStatus(q)
    BY <2>1, BegunUnpaid DEF BeginStatus
  <2>2. CASE BeginMove(q)
    BY <2>2, BegunUnpaid DEF BeginMove
  <2>3. CASE BeginRemoveAsset(q)
    BY <2>3, BegunUnpaid DEF BeginRemoveAsset
  <2> QED BY <1>3, <2>1, <2>2, <2>3
<1>4. ASSUME NEW q \in Requests, RollBack(q) PROVE PaidWhenActive'
  BY <1>4, PaidStays, IdleIsNotActivate DEF RollBack, Finish, rentalVars
<1>5. CASE UNCHANGED vars
  BY <1>5 DEF vars, rentalVars, assetVars, PaidWhenActive, ActiveIsPaid
<1> QED BY <1>1, <1>2, <1>3, <1>4, <1>5, CommitPaid DEF Next, Handle, Poll

\* A rental that runs has a paid invoice, for any overlap of activations,
\* completions, cancellations, payments and webhooks, as long as no manager
\* voids invoices or records installments.
THEOREM ActiveRentalsArePaid ==
    ASSUME {"void", "installments"} \cap Kinds = {}
    PROVE  Spec => []ActiveIsPaid
<1> DEFINE Inv == RentalsTypeOK /\ WholeCredits /\ PaidWhenActive
<1>1. Init => WholeCredits
  BY DEF Init, WholeCredits, Idle
<1>2. Init => Inv
  BY <1>1, InitType, InitPaid
<1>3. Inv /\ [Next]_vars => Inv'
  BY NextType, NextWhole, NextPaid
<1>4. Inv => ActiveIsPaid
  BY DEF PaidWhenActive
<1> QED BY <1>2, <1>3, <1>4, PTL DEF Spec

-----------------------------------------------------------------------------
(* Why approveRental is no action                                          *)

\* A period overlaps itself in the sense of checkDateOverlap.
LEMMA OverlapsItself ==
    ASSUME NEW r \in Rentals
    PROVE  Overlaps(Period[r], Period[r])
BY PeriodsAssumption DEF Overlaps

\* A rental that could be approved is one of those that book its asset.
LEMMA RequestBooksItself ==
    ASSUME NEW r \in Rentals, Live(r), rentalStatus[r] = "REQUESTED"
    PROVE  r \in Booked(r)
BY OverlapsItself DEF Booked, Live

\* Whatever the tables hold, approveRental refuses every request: it is left out
\* of Next.
LEMMA NoRequestPasses ==
    ASSUME NEW r \in Rentals
    PROVE  ~PassesApproval(r)
BY RequestBooksItself DEF PassesApproval

-----------------------------------------------------------------------------
(* One request at a time *)

OneRequest == \E q : Requests = {q}

\* What a handler has found still holds when it writes.
SlotFits(s) ==
    /\ s.kind = "create" => rentalStatus[s.rental] = "none"
    /\ s.kind = "complete" => rentalStatus[s.rental] = "ACTIVE"
    /\ s.kind \in {"cancel", "cancelling"} =>
         rentalStatus[s.rental] \in {"REQUESTED", "APPROVED"}
    /\ s.kind = "cancelling" => (s.seenUnpaid <=> invoice[s.rental] = "UNPAID")
    /\ s.kind = "invoice" => rentalStatus[s.rental] # "CANCELLED"
    /\ s.kind = "credit" /\ ~s.whole => rentalStatus[s.rental] # "CANCELLED"

\* RentedWhileActive needs that the rental a completion ends is the only one
\* that runs on its asset.
SerialInv ==
    /\ RentalsTypeOK
    /\ OneActivePerAsset
    /\ RentedWhileActive
    /\ CancelledOwesNothing
    /\ \A q \in Requests : SlotFits(requests[q])

LEMMA OnlySlot ==
    ASSUME OneRequest, RentalsTypeOK, NEW q \in Requests, NEW slot,
           requests' = [requests EXCEPT ![q] = slot]
    PROVE  \A o \in Requests : requests'[o] = slot
BY DEF OneRequest, RentalsTypeOK

\* A handler begins, or moves on, with what it has found.
LEMMA SerialMoves ==
    ASSUME OneRequest, SerialInv, RentalsTypeOK', NEW q \in Requests, NEW slot,
           requests' = [requests EXCEPT ![q] = slot], SlotFits(slot),
           UNCHANGED <<rentalStatus, invoice, assetStatus, handSet>>
    PROVE  SerialInv'
<1>1. \A o \in Requests : requests'[o] = slot
  BY OnlySlot DEF SerialInv
<1>2. ASSUME NEW o \in Requests PROVE SlotFits(requests[o])'
  BY <1>1 DEF SlotFits
<1>3. OneActivePerAsset' /\ RentedWhileActive' /\ CancelledOwesNothing'
  BY DEF SerialInv, OneActivePerAsset, RentedWhileActive, ActiveOn, CancelledOwesNothing
<1> QED BY <1>2, <1>3 DEF SerialInv

\* A handler ends.
LEMMA SerialEnds ==
    ASSUME OneRequest, SerialInv, RentalsTypeOK', NEW q \in Requests, Finish(q),
           OneActivePerAsset', RentedWhileActive', CancelledOwesNothing'
    PROVE  SerialInv'
<1>1. \A o \in Requests : requests'[o] = Idle
  BY OnlySlot DEF SerialInv, Finish
<1>2. ASSUME NEW o \in Requests PROVE SlotFits(requests[o])'
  BY <1>1 DEF SlotFits, Idle
<1> QED BY <1>2 DEF SerialInv

\* No rental starts or stops to run, and no asset changes its status.
LEMMA SameActive ==
    ASSUME SerialInv, UNCHANGED <<assetStatus, handSet>>,
           \A r \in Rentals : rentalStatus'[r] = "ACTIVE" <=> rentalStatus[r] = "ACTIVE"
    PROVE  OneActivePerAsset' /\ RentedWhileActive'
<1>1. OneActivePerAsset'
  BY DEF SerialInv, OneActivePerAsset
<1>2. \A a \in Assets : ActiveOn(a)' = ActiveOn(a)
  BY DEF ActiveOn
<1>3. RentedWhileActive'
  BY <1>2 DEF SerialInv, RentedWhileActive
<1> QED BY <1>1, <1>3

LEMMA BeginSerial ==
    ASSUME OneRequest, SerialInv, RentalsTypeOK', NEW q \in Requests,
           \/ \E r \in Rentals :
                 \/ BeginCreate(q, r)
                 \/ BeginInvoice(q, r) \/ BeginVoid(q, r)
                 \/ BeginCredit(q, r, TRUE) \/ BeginCredit(q, r, FALSE)
                 \/ BeginActivate(q, r, TRUE) \/ BeginActivate(q, r, FALSE)
                 \/ BeginComplete(q, r)
                 \/ BeginCancel(q, r)
           \/ BeginStatus(q) \/ BeginMove(q) \/ BeginRemoveAsset(q)
    PROVE  SerialInv'
<1>1. ASSUME NEW slot, Begin(q, slot), SlotFits(slot) PROVE SerialInv'
  BY <1>1, SerialMoves DEF Begin, rentalVars, assetVars
<1>2. ASSUME NEW r \in Rentals,
             BeginCreate(q, r) \/ BeginInvoice(q, r) \/ BeginComplete(q, r) \/ BeginCancel(q, r)
      PROVE  SerialInv'
  <2>1. PICK kind \in {"create", "invoice", "complete", "cancel"} :
          /\ Begin(q, [kind |-> kind, rental |-> r])
          /\ kind = "create" => rentalStatus[r] = "none"
          /\ kind = "invoice" => rentalStatus[r] # "CANCELLED"
          /\ kind = "complete" => rentalStatus[r] = "ACTIVE"
          /\ kind = "cancel" => rentalStatus[r] \in {"REQUESTED", "APPROVED"}
    BY <1>2 DEF BeginCreate, BeginInvoice, BeginComplete, BeginCancel
  <2> DEFINE slot == [kind |-> kind, rental |-> r]
  <2>2. SlotFits(slot)
    BY <2>1 DEF SlotFits
  <2> HIDE DEF slot
  <2> QED BY <1>1, <2>1, <2>2 DEF slot
<1>3. ASSUME NEW r \in Rentals, NEW whole \in BOOLEAN, BeginCredit(q, r, whole)
      PROVE  SerialInv'
  <2> DEFINE slot == [kind |-> "credit", rental |-> r, whole |-> whole]
  <2>1. ~whole => rentalStatus[r] # "CANCELLED"
    BY <1>3 DEF BeginCredit, SerialInv, CancelledOwesNothing
  <2>2. SlotFits(slot)
    BY <2>1 DEF SlotFits
  <2> HIDE DEF slot
  <2> QED BY <1>1, <1>3, <2>2 DEF BeginCredit, slot
<1>4. ASSUME NEW slot, Begin(q, slot),
             slot.kind \in {"void", "activate", "status", "move", "remove"}
      PROVE  SerialInv'
  BY <1>1, <1>4 DEF SlotFits
<1>5. ASSUME NEW r \in Rentals, NEW system \in BOOLEAN, BeginActivate(q, r, system)
      PROVE  SerialInv'
  BY <1>4, <1>5 DEF BeginActivate
<1>6. ASSUME NEW r \in Rentals, BeginVoid(q, r) PROVE SerialInv'
  BY <1>4, <1>6 DEF BeginVoid
<1>7. CASE BeginStatus(q)
  BY <1>4, <1>7 DEF BeginStatus
<1>8. CASE BeginMove(q)
  BY <1>4, <1>8 DEF BeginMove
<1>9. CASE BeginRemoveAsset(q)
  BY <1>4, <1>9 DEF BeginRemoveAsset
<1> QED BY <1>2, <1>3, <1>5, <1>6, <1>7, <1>8, <1>9

LEMMA StartsToRun ==
    ASSUME SerialInv, NEW r \in Rentals, assetStatus[AssetOf[r]] = "AVAILABLE",
           SetStatus(r, "ACTIVE"), MarkAsRented(AssetOf[r]), UNCHANGED <<invoice, handSet>>
    PROVE  OneActivePerAsset' /\ RentedWhileActive' /\ CancelledOwesNothing'
<1> DEFINE a == AssetOf[r]
<1>1. RentalsTypeOK /\ a \in Assets
  BY RentalsAssumption DEF SerialInv
<1>2. /\ rentalStatus'[r] = "ACTIVE" /\ assetStatus'[a] = "RENTED"
      /\ \A o \in Rentals : o # r => rentalStatus'[o] = rentalStatus[o]
      /\ \A b \in Assets : b # a => assetStatus'[b] = assetStatus[b]
  BY <1>1 DEF SetStatus, MarkAsRented, RentalsTypeOK
<1>3. a \notin handSet => ActiveOn(a) = {}
  BY <1>1 DEF SerialInv, RentedWhileActive
<1>4. OneActivePerAsset'
  BY <1>2, <1>3 DEF SerialInv, OneActivePerAsset, ActiveOn
<1>5. ActiveOn(a)' # {}
  BY <1>2 DEF ActiveOn
<1>6. \A b \in Assets : b # a => ActiveOn(b)' = ActiveOn(b)
  BY <1>2 DEF ActiveOn
<1>7. RentedWhileActive'
  BY <1>1, <1>2, <1>5, <1>6 DEF SerialInv, RentedWhileActive
<1>8. CancelledOwesNothing'
  BY <1>2 DEF SerialInv, CancelledOwesNothing
<1> QED BY <1>4, <1>7, <1>8

LEMMA StopsToRun ==
    ASSUME SerialInv, NEW r \in Rentals, rentalStatus[r] = "ACTIVE",
           SetStatus(r, "COMPLETED"), MarkAsAvailable(AssetOf[r]),
           UNCHANGED <<invoice, handSet>>
    PROVE  OneActivePerAsset' /\ RentedWhileActive' /\ CancelledOwesNothing'
<1> DEFINE a == AssetOf[r]
<1>1. RentalsTypeOK /\ a \in Assets
  BY RentalsAssumption DEF SerialInv
<1>2. /\ rentalStatus'[r] = "COMPLETED" /\ assetStatus'[a] = "AVAILABLE"
      /\ \A o \in Rentals : o # r => rentalStatus'[o] = rentalStatus[o]
      /\ \A b \in Assets : b # a => assetStatus'[b] = assetStatus[b]
  BY <1>1 DEF SetStatus, MarkAsAvailable, RentalsTypeOK
<1>3. OneActivePerAsset'
  BY <1>2 DEF SerialInv, OneActivePerAsset
<1>4. a \notin handSet => ActiveOn(a)' = {}
  BY <1>2 DEF SerialInv, OneActivePerAsset, ActiveOn
<1>5. \A b \in Assets : b # a => ActiveOn(b)' = ActiveOn(b)
  BY <1>2 DEF ActiveOn
<1>6. RentedWhileActive'
  BY <1>1, <1>2, <1>4, <1>5 DEF SerialInv, RentedWhileActive
<1>7. CancelledOwesNothing'
  BY <1>2 DEF SerialInv, CancelledOwesNothing
<1> QED BY <1>3, <1>6, <1>7

LEMMA CommitSerial ==
    ASSUME OneRequest, SerialInv, RentalsTypeOK', NEW q \in Requests,
           Commit(q) \/ RollBack(q)
    PROVE  SerialInv'
<1> DEFINE s == requests[q]
           r == s.rental
           a == AssetOf[r]
<1>1. RentalsTypeOK /\ SlotFits(s) /\ s \in Request
  BY DEF SerialInv, RentalsTypeOK
<1>2. s.kind \in {"create", "complete", "cancel", "invoice", "void", "credit",
                  "activate", "cancelling"} => r \in Rentals /\ a \in Assets
  BY <1>1, SlotRental, RentalsAssumption
<1>3. CASE Create(q) \/ Cancel(q)
  <2>1. r \in Rentals /\ rentalStatus[r] # "ACTIVE"
    BY <1>1, <1>2, <1>3 DEF Create, Cancel, SlotFits
  <2>2. PICK v \in {"REQUESTED", "CANCELLED"} : SetStatus(r, v)
    BY <1>3 DEF Create, Cancel
  <2>3. \A o \in Rentals : rentalStatus'[o] = "ACTIVE" <=> rentalStatus[o] = "ACTIVE"
    BY <1>1, <2>1, <2>2 DEF SetStatus, RentalsTypeOK
  <2>4. OneActivePerAsset' /\ RentedWhileActive'
    BY <1>3, <2>3, SameActive DEF Create, Cancel, assetVars
  <2>5. CancelledOwesNothing'
    <3>1. CASE Create(q)
      BY <1>1, <3>1
      DEF Create, SetStatus, SerialInv, CancelledOwesNothing, RentalsTypeOK
    <3>2. CASE Cancel(q)
      <4>1. s.seenUnpaid <=> invoice[r] = "UNPAID"
        BY <1>1, <3>2 DEF Cancel, SlotFits
      <4>2. invoice'[r] # "UNPAID" /\ \A o \in Rentals : o # r => invoice'[o] = invoice[o]
        BY <1>1, <2>1, <3>2, <4>1 DEF Cancel, VoidInvoice, RentalsTypeOK
      <4>3. \A o \in Rentals : o # r => rentalStatus'[o] = rentalStatus[o]
        BY <1>1, <2>2 DEF SetStatus, RentalsTypeOK
      <4> QED BY <4>2, <4>3 DEF SerialInv, CancelledOwesNothing
    <3> QED BY <1>3, <3>1, <3>2
  <2> QED BY <1>3, <2>4, <2>5, SerialEnds DEF Create, Cancel
<1>4. CASE WriteCancelled(q)
  <2> DEFINE slot == [kind |-> "cancelling", rental |-> r,
                      seenUnpaid |-> invoice[r] = "UNPAID"]
  <2>1. rentalStatus[r] \in {"REQUESTED", "APPROVED"}
    BY <1>1, <1>4 DEF WriteCancelled, SlotFits
  <2>2. SlotFits(slot)
    BY <2>1 DEF SlotFits
  <2>3. /\ requests' = [requests EXCEPT ![q] = slot]
        /\ UNCHANGED <<rentalStatus, invoice, assetStatus, handSet>>
    BY <1>4 DEF WriteCancelled, rentalVars, assetVars
  <2> HIDE DEF slot
  <2> QED BY <2>2, <2>3, SerialMoves
<1>5. CASE Activate(q)
  <2>1. /\ r \in Rentals /\ a \in Assets /\ assetStatus[a] = "AVAILABLE"
        /\ SetStatus(r, "ACTIVE") /\ MarkAsRented(AssetOf[r])
        /\ UNCHANGED <<invoice, handSet>> /\ Finish(q)
    BY <1>2, <1>5 DEF Activate, Available
  <2> QED BY <2>1, StartsToRun, SerialEnds
<1>6. CASE Complete(q)
  <2>1. /\ r \in Rentals /\ a \in Assets /\ rentalStatus[r] = "ACTIVE"
        /\ SetStatus(r, "COMPLETED") /\ MarkAsAvailable(AssetOf[r])
        /\ UNCHANGED <<invoice, handSet>> /\ Finish(q)
    BY <1>1, <1>2, <1>6 DEF Complete, SlotFits
  <2> QED BY <2>1, StopsToRun, SerialEnds
<1>7. CASE CreateInvoice(q) \/ Credit(q) \/ Void(q)
  <2>1. Finish(q) /\ UNCHANGED <<rentalStatus, assetStatus, handSet>>
    BY <1>7 DEF CreateInvoice, Credit, Void, rentalVars, assetVars
  <2>2. r \in Rentals
    BY <1>2, <1>7 DEF CreateInvoice, Credit, Void
  <2>3. OneActivePerAsset' /\ RentedWhileActive'
    BY <2>1, SameActive
  <2>4. invoice'[r] = "UNPAID" => rentalStatus[r] # "CANCELLED"
    BY <1>1, <1>7, <2>2
    DEF CreateInvoice, Credit, Void, VoidInvoice, SlotFits, RentalsTypeOK
  <2>5. \A o \in Rentals : o # r => invoice'[o] = invoice[o]
    BY <1>1, <1>7, <2>2 DEF CreateInvoice, Credit, Void, VoidInvoice, RentalsTypeOK
  <2>6. CancelledOwesNothing'
    BY <2>1, <2>4, <2>5 DEF SerialInv, CancelledOwesNothing
  <2> QED BY <2>1, <2>3, <2>6, SerialEnds
<1>8. CASE UpdateStatus(q)
  <2>1. /\ assetStatus' = [assetStatus EXCEPT ![s.asset] = s.status]
        /\ handSet' = handSet \cup {s.asset} /\ Finish(q)
        /\ UNCHANGED <<rentalStatus, invoice>>
    BY <1>8 DEF UpdateStatus, rentalVars
  <2>2. OneActivePerAsset' /\ CancelledOwesNothing'
    BY <2>1 DEF SerialInv, OneActivePerAsset, CancelledOwesNothing
  <2>3. \A b \in Assets \ handSet' : assetStatus'[b] = assetStatus[b] /\ b \notin handSet
    BY <1>1, <2>1 DEF RentalsTypeOK
  <2>4. RentedWhileActive'
    BY <2>1, <2>3 DEF SerialInv, RentedWhileActive, ActiveOn
  <2> QED BY <2>1, <2>2, <2>4, SerialEnds
<1>9. CASE Move(q) \/ RemoveAsset(q) \/ RollBack(q)
  <2>1. Finish(q) /\ UNCHANGED <<rentalStatus, invoice, assetStatus, handSet>>
    BY <1>9 DEF Move, RemoveAsset, RollBack, rentalVars, assetVars
  <2>2. CancelledOwesNothing'
    BY <2>1 DEF SerialInv, CancelledOwesNothing
  <2> QED BY <2>1, <2>2, SameActive, SerialEnds
<1> QED BY <1>3, <1>4, <1>5, <1>6, <1>7, <1>8, <1>9 DEF Commit

LEMMA InitSerial == Init => SerialInv
<1> SUFFICES ASSUME Init PROVE SerialInv
  OBVIOUS
<1>1. RentalsTypeOK
  BY InitType
<1>2. OneActivePerAsset /\ RentedWhileActive /\ CancelledOwesNothing
  BY DEF Init, OneActivePerAsset, RentedWhileActive, ActiveOn, CancelledOwesNothing
<1>3. \A q \in Requests : SlotFits(requests[q])
  BY DEF Init, SlotFits, Idle
<1> QED BY <1>1, <1>2, <1>3 DEF SerialInv

LEMMA NextSerial ==
    ASSUME OneRequest
    PROVE  SerialInv /\ [Next]_vars => SerialInv'
<1> SUFFICES ASSUME SerialInv, [Next]_vars PROVE SerialInv'
  OBVIOUS
<1>1. RentalsTypeOK'
  BY NextType DEF SerialInv
<1>2. CASE UNCHANGED vars
  <2>1. UNCHANGED <<rentalStatus, invoice, assetStatus, handSet, requests>>
    BY <1>2 DEF vars, rentalVars, assetVars
  <2> QED BY <1>1, <2>1
          DEF SerialInv, SlotFits, OneActivePerAsset, RentedWhileActive, ActiveOn,
              CancelledOwesNothing
<1> QED BY <1>1, <1>2, BeginSerial, CommitSerial DEF Next, Handle, Poll

\* One request at a time an asset is RENTED exactly while a rental of it runs,
\* completions included, as long as nobody writes its status by hand.
THEOREM AssetsAreGivenBack == ASSUME OneRequest PROVE Spec => []RentedWhileActive
<1>1. SerialInv => RentedWhileActive
  BY DEF SerialInv
<1> QED BY <1>1, InitSerial, NextSerial, PTL DEF Spec

\* One request at a time nothing is left to pay for a cancelled rental, neither
\* by an invoice generated late nor by an installment.
THEOREM CancelledIsSettled == ASSUME OneRequest PROVE Spec => []CancelledOwesNothing
<1>1. SerialInv => CancelledOwesNothing
  BY DEF SerialInv
<1> QED BY <1>1, InitSerial, NextSerial, PTL DEF Spec

-----------------------------------------------------------------------------
(* The room that rentals take of cold rooms *)

Reserved(a) == SumFunctionOnSet(Need, ActiveOn(a))

LEMMA ReservedType ==
    ASSUME IsFiniteSet(Rentals)
    PROVE  \A a : IsFiniteSet(ActiveOn(a)) /\ Reserved(a) \in Int
<1> SUFFICES ASSUME NEW a PROVE IsFiniteSet(ActiveOn(a)) /\ Reserved(a) \in Int
  OBVIOUS
<1>1. ActiveOn(a) \subseteq Rentals
  BY DEF ActiveOn
<1>2. IsFiniteSet(ActiveOn(a)) /\ \A r \in ActiveOn(a) : Need[r] \in Int
  BY <1>1, FS_Subset, RentalsAssumption
<1> QED BY <1>2, SumType DEF Reserved

\* No rental starts or stops to run, and no room is reserved or released.
LEMMA SameReserved ==
    ASSUME RoomIsReserved, used' = used,
           \A r \in Rentals : rentalStatus'[r] = "ACTIVE" <=> rentalStatus[r] = "ACTIVE"
    PROVE  RoomIsReserved'
<1>1. \A a : ActiveOn(a)' = ActiveOn(a)
  BY DEF ActiveOn
<1> QED BY <1>1 DEF RoomIsReserved

\* A rental that starts to run takes its room once.
LEMMA RoomTaken ==
    ASSUME IsFiniteSet(Rentals), RentalsTypeOK, RoomIsReserved,
           NEW r \in Rentals, rentalStatus[r] # "ACTIVE",
           SetStatus(r, "ACTIVE"), ReserveRoom(r)
    PROVE  RoomIsReserved'
<1> SUFFICES ASSUME NEW a \in ColdRooms PROVE used'[a] = Stored[a] + Reserved(a)'
  BY DEF RoomIsReserved, Reserved
<1>1. /\ a \in Assets /\ AssetOf[r] \in Assets /\ used[a] \in Int
      /\ Stored[a] \in Int /\ Need[r] \in Nat
  BY RentalsAssumption DEF RentalsTypeOK
<1>2. used[a] = Stored[a] + Reserved(a) /\ Reserved(a) \in Int
  BY ReservedType DEF RoomIsReserved, Reserved
<1>3. /\ rentalStatus'[r] = "ACTIVE"
      /\ \A o \in Rentals \ {r} : rentalStatus'[o] = rentalStatus[o]
  BY DEF SetStatus, RentalsTypeOK
<1>4. CASE a = AssetOf[r]
  <2>1. ActiveOn(a)' = ActiveOn(a) \cup {r} /\ r \notin ActiveOn(a)
    BY <1>3, <1>4 DEF ActiveOn
  <2>2. \A o \in ActiveOn(a) : Need[o] \in Int
    BY RentalsAssumption DEF ActiveOn
  <2>3. Reserved(a)' = Need[r] + Reserved(a)
    BY <1>1, <2>1, <2>2, ReservedType, SumAdd DEF Reserved
  <2>4. used'[a] = IF Need[r] > 0 THEN used[a] + Need[r] ELSE used[a]
    BY <1>1, <1>4 DEF ReserveRoom, TakesRoom, RentalsTypeOK
  <2> QED BY <1>1, <1>2, <2>3, <2>4
<1>5. CASE a # AssetOf[r]
  <2>1. ActiveOn(a)' = ActiveOn(a)
    BY <1>3, <1>5 DEF ActiveOn
  <2>2. used'[a] = used[a]
    BY <1>1, <1>5 DEF ReserveRoom, RentalsTypeOK
  <2> QED BY <1>2, <2>1, <2>2 DEF Reserved
<1> QED BY <1>4, <1>5

\* A rental that ends gives it back once.
LEMMA RoomGivenBack ==
    ASSUME IsFiniteSet(Rentals), RentalsTypeOK, RoomIsReserved,
           NEW r \in Rentals, rentalStatus[r] = "ACTIVE",
           SetStatus(r, "COMPLETED"), ReleaseRoom(r)
    PROVE  RoomIsReserved'
<1> SUFFICES ASSUME NEW a \in ColdRooms PROVE used'[a] = Stored[a] + Reserved(a)'
  BY DEF RoomIsReserved, Reserved
<1>1. /\ a \in Assets /\ AssetOf[r] \in Assets /\ used[a] \in Int
      /\ Stored[a] \in Int /\ Need[r] \in Nat
  BY RentalsAssumption DEF RentalsTypeOK
<1>2. used[a] = Stored[a] + Reserved(a) /\ Reserved(a) \in Int
  BY ReservedType DEF RoomIsReserved, Reserved
<1>3. /\ rentalStatus'[r] = "COMPLETED"
      /\ \A o \in Rentals \ {r} : rentalStatus'[o] = rentalStatus[o]
  BY DEF SetStatus, RentalsTypeOK
<1>4. CASE a = AssetOf[r]
  <2>1. ActiveOn(a)' = ActiveOn(a) \ {r} /\ r \in ActiveOn(a)
    BY <1>3, <1>4 DEF ActiveOn
  <2>2. \A o \in ActiveOn(a) : Need[o] \in Int
    BY RentalsAssumption DEF ActiveOn
  <2>3. IsFiniteSet(ActiveOn(a) \ {r}) /\ \A o \in ActiveOn(a) \ {r} : Need[o] \in Int
    BY <2>2, ReservedType, FS_RemoveElement
  <2>4. Reserved(a) = Need[r] + Reserved(a)' /\ Reserved(a)' \in Int
    BY <2>1, <2>2, <2>3, ReservedType, SumSplit, SumType DEF Reserved
  <2>5. used'[a] = IF Need[r] > 0 THEN used[a] - Need[r] ELSE used[a]
    BY <1>1, <1>4 DEF ReleaseRoom, TakesRoom, RentalsTypeOK
  <2> QED BY <1>1, <1>2, <2>4, <2>5
<1>5. CASE a # AssetOf[r]
  <2>1. ActiveOn(a)' = ActiveOn(a)
    BY <1>3, <1>5 DEF ActiveOn
  <2>2. used'[a] = used[a]
    BY <1>1, <1>5 DEF ReleaseRoom, RentalsTypeOK
  <2> QED BY <1>2, <2>1, <2>2 DEF Reserved
<1> QED BY <1>4, <1>5

\* What a handler needs to find for that: a rental that it creates or cancels does
\* not run, one that it completes does.
FindsItRunning(s) ==
    /\ s.kind \in {"create", "cancelling"} => rentalStatus[s.rental] # "ACTIVE"
    /\ s.kind = "complete" => rentalStatus[s.rental] = "ACTIVE"

LEMMA CommitReserves ==
    ASSUME IsFiniteSet(Rentals), RentalsTypeOK, RoomIsReserved, NEW q \in Requests,
           FindsItRunning(requests[q]), Commit(q) \/ RollBack(q)
    PROVE  RoomIsReserved'
<1> DEFINE s == requests[q]
           r == s.rental
<1>1. RentalsTypeOK /\ RoomIsReserved /\ FindsItRunning(s) /\ s \in Request
  BY DEF RentalsTypeOK
<1>2. s.kind \in {"create", "complete", "activate", "cancelling"} => r \in Rentals
  BY <1>1, SlotRental
<1>3. CASE Activate(q)
  <2>1. /\ r \in Rentals /\ rentalStatus[r] = "APPROVED"
        /\ SetStatus(r, "ACTIVE") /\ ReserveRoom(r)
    BY <1>2, <1>3 DEF Activate, Activatable
  <2> QED BY <1>1, <2>1, RoomTaken
<1>4. CASE Complete(q)
  <2>1. /\ r \in Rentals /\ rentalStatus[r] = "ACTIVE"
        /\ SetStatus(r, "COMPLETED") /\ ReleaseRoom(r)
    BY <1>1, <1>2, <1>4 DEF Complete, FindsItRunning
  <2> QED BY <1>1, <2>1, RoomGivenBack
<1>5. CASE Create(q) \/ Cancel(q)
  <2>1. r \in Rentals /\ rentalStatus[r] # "ACTIVE" /\ used' = used
    BY <1>1, <1>2, <1>5 DEF Create, Cancel, FindsItRunning, assetVars
  <2>2. PICK v \in {"REQUESTED", "CANCELLED"} : SetStatus(r, v)
    BY <1>5 DEF Create, Cancel
  <2>3. \A o \in Rentals : rentalStatus'[o] = "ACTIVE" <=> rentalStatus[o] = "ACTIVE"
    BY <1>1, <2>1, <2>2 DEF SetStatus, RentalsTypeOK
  <2> QED BY <1>1, <2>1, <2>3, SameReserved
<1>6. CASE \/ WriteCancelled(q) \/ CreateInvoice(q) \/ Credit(q) \/ Void(q)
           \/ UpdateStatus(q) \/ Move(q) \/ RemoveAsset(q) \/ RollBack(q)
  <2>1. used' = used /\ rentalStatus' = rentalStatus
    BY <1>6 DEF WriteCancelled, CreateInvoice, Credit, Void, UpdateStatus, Move,
                RemoveAsset, RollBack, assetVars, rentalVars
  <2> QED BY <1>1, <2>1, SameReserved
<1> QED BY <1>3, <1>4, <1>5, <1>6 DEF Commit

\* No handler touches a room while it reads.
LEMMA BeginReserves ==
    ASSUME RoomIsReserved, NEW q \in Requests, Handle(q), ~Commit(q), ~RollBack(q)
    PROVE  RoomIsReserved'
<1>1. UNCHANGED <<rentalStatus, used>>
  BY DEF Handle, Poll, Begin, BeginCreate, BeginInvoice, BeginVoid, BeginCredit,
     BeginActivate, BeginComplete, BeginCancel, BeginStatus, BeginMove, BeginRemoveAsset,
     rentalVars, assetVars
<1> QED BY <1>1, SameReserved

LEMMA StutterReserves == RoomIsReserved /\ UNCHANGED vars => RoomIsReserved'
BY SameReserved DEF vars, rentalVars, assetVars

LEMMA InitReserves == Init => RoomIsReserved
<1> SUFFICES ASSUME Init, NEW a \in ColdRooms PROVE used[a] = Stored[a] + Reserved(a)
  BY DEF RoomIsReserved, Reserved
<1>1. ActiveOn(a) = {}
  BY DEF Init, ActiveOn
<1>2. Reserved(a) = 0
  BY <1>1, SumEmpty DEF Reserved
<1>3. used[a] = Stored[a] /\ Stored[a] \in Nat
  BY RentalsAssumption DEF Init
<1> QED BY <1>2, <1>3

\* One request at a time the counter of a cold room is what stood in it plus what
\* the rentals that run need: activateRental takes the room of a rental once and
\* complete gives it back once, whatever else happens to the rental.
THEOREM RoomStaysReserved ==
    ASSUME OneRequest, IsFiniteSet(Rentals)
    PROVE  Spec => []RoomIsReserved
<1> DEFINE Inv == SerialInv /\ RoomIsReserved
<1>1. Inv /\ [Next]_vars => Inv'
  <2> SUFFICES ASSUME Inv, [Next]_vars PROVE RoomIsReserved'
    BY NextSerial
  <2>1. RentalsTypeOK /\ \A q \in Requests : FindsItRunning(requests[q])
    BY DEF SerialInv, SlotFits, FindsItRunning
  <2> QED BY <2>1, CommitReserves, BeginReserves, StutterReserves DEF Next
<1> QED BY <1>1, InitReserves, InitSerial, PTL DEF Spec

\* Nobody ends a rental.
NothingEnds == \A q \in Requests : requests[q].kind \notin {"complete", "cancel", "cancelling"}

LEMMA NextEndsNothing ==
    ASSUME {"complete", "cancel"} \cap Kinds = {}, RentalsTypeOK, NothingEnds, [Next]_vars
    PROVE  NothingEnds'
<1>1. ASSUME NEW q \in Requests, NEW slot, requests' = [requests EXCEPT ![q] = slot],
             slot.kind \notin {"complete", "cancel", "cancelling"}
      PROVE  NothingEnds'
  BY <1>1 DEF RentalsTypeOK, NothingEnds
<1>2. ASSUME NEW q \in Requests, Finish(q) PROVE NothingEnds'
  BY <1>1, <1>2 DEF Finish, Idle
<1>3. ASSUME NEW q \in Requests, Commit(q) \/ RollBack(q) PROVE NothingEnds'
  <2>1. ~WriteCancelled(q)
    BY DEF WriteCancelled, NothingEnds
  <2>2. Finish(q)
    BY <1>3, <2>1 DEF Commit, RollBack, Create, Activate, Complete, Cancel, CreateInvoice,
       Credit, Void, UpdateStatus, Move, RemoveAsset
  <2> QED BY <1>2, <2>2
<1>4. ASSUME NEW q \in Requests, NEW slot, Begin(q, slot),
             slot.kind \in {"create", "invoice", "void", "credit", "activate", "status",
                            "move", "remove"}
      PROVE  NothingEnds'
  BY <1>1, <1>4 DEF Begin
<1>5. ASSUME NEW q \in Requests, NEW r \in Rentals, NEW b \in BOOLEAN,
             \/ BeginCreate(q, r) \/ BeginInvoice(q, r) \/ BeginVoid(q, r)
             \/ BeginCredit(q, r, b) \/ BeginActivate(q, r, b)
             \/ BeginComplete(q, r) \/ BeginCancel(q, r)
      PROVE  NothingEnds'
  <2>1. \E slot : /\ Begin(q, slot)
                  /\ slot.kind \in {"create", "invoice", "void", "credit", "activate"}
    BY <1>5 DEF BeginCreate, BeginInvoice, BeginVoid, BeginCredit, BeginActivate,
                BeginComplete, BeginCancel
  <2> QED BY <1>4, <2>1
<1>6. ASSUME NEW q \in Requests, BeginStatus(q) \/ BeginMove(q) \/ BeginRemoveAsset(q)
      PROVE  NothingEnds'
  <2>1. CASE BeginStatus(q)
    BY <1>4, <2>1 DEF BeginStatus
  <2>2. CASE BeginMove(q)
    BY <1>4, <2>2 DEF BeginMove
  <2>3. CASE BeginRemoveAsset(q)
    BY <1>4, <2>3 DEF BeginRemoveAsset
  <2> QED BY <1>6, <2>1, <2>2, <2>3
<1>7. CASE UNCHANGED vars
  BY <1>7 DEF vars, NothingEnds
<1> QED BY <1>3, <1>5, <1>6, <1>7 DEF Next, Handle, Poll

\* However many managers and polls activate rentals at once, and whatever is
\* created, paid or voided meanwhile, a rental that runs has taken its room of the
\* cold room exactly once, as long as no rental is completed or cancelled.
THEOREM RoomIsTakenOnce ==
    ASSUME {"complete", "cancel"} \cap Kinds = {}, IsFiniteSet(Rentals)
    PROVE  Spec => []RoomIsReserved
<1> DEFINE Inv == RentalsTypeOK /\ HandedOutOnce /\ CreatesNew /\ NothingEnds /\ RoomIsReserved
<1>1. Init => Inv
  BY InitType, InitHandedOut, InitKeepsPromise, InitReserves DEF Init, NothingEnds, Idle
<1>2. Inv /\ [Next]_vars => Inv'
  <2> SUFFICES ASSUME Inv, [Next]_vars PROVE RoomIsReserved'
    BY NextType, NextHandedOut, NextNew, NextEndsNothing
  <2>1. ASSUME NEW q \in Requests PROVE FindsItRunning(requests[q])
    <3>1. requests[q].kind = "create" => requests[q].rental \in Rentals
      BY SlotRental DEF RentalsTypeOK
    <3> QED BY <3>1 DEF NothingEnds, FindsItRunning, CreatesNew, Creates
  <2> QED BY <2>1, CommitReserves, BeginReserves, StutterReserves DEF Next
<1> QED BY <1>1, <1>2, PTL DEF Spec

=============================================================================
