------------------------------ MODULE Rentals ------------------------------
(***************************************************************************)
(* Renting equipment: rentals.service.ts, cold-assets.services.ts and      *)
(* generateRentalInvoice of invoices.service.ts, over the tables rentals,  *)
(* invoices, tricycles, cold_boxes, cold_plates and cold_rooms.            *)
(*                                                                         *)
(* activateRental locks the row of the asset (SELECT ... FOR UPDATE) and   *)
(* guards its update of the rental by the status; the other handlers read, *)
(* check, and update by id.  What a handler has read is kept in its slot.  *)
(*                                                                         *)
(* approveRental is no action, as it never changes anything: a request     *)
(* books its asset for itself (Booked, NoRequestPasses of the proofs), so  *)
(* that the checks it makes before it writes are never passed.  Rentals    *)
(* that an earlier version of the service approved are in the tables from  *)
(* the start (Legacy).                                                     *)
(***************************************************************************)
EXTENDS Integers, FiniteSetsExt

CONSTANTS
    Rentals,            \* rental ids, existing or yet to be requested
    Assets,             \* tricycles, cold boxes, cold plates and cold rooms
    ColdRooms,          \* the assets that are cold rooms
    Sites,
    Requests,           \* request slots: how many handlers overlap
    Kinds,              \* the requests of clients and managers
    AssetOf,            \* rental -> coldBoxId, coldPlateId, tricycleId or coldRoomId
    SiteOf,             \* rental -> siteId
    Need,               \* rental -> capacityNeededKg, 0 when there is none
    Period,             \* rental -> rentalStartDate and rentalEndDate
    HomeOf,             \* asset -> siteId at the start
    Capacity,           \* asset -> totalCapacityKg
    Stored,             \* asset -> usedCapacityKg at the start
    Legacy,             \* rentals in the tables at the start, APPROVED
    LegacyInvoiced,     \* those of them whose invoice exists
    RoomStatusVisible,  \* the Prisma client knows cold_rooms.status
    SystemUserRow       \* the users table has a row with id 'SYSTEM', which
                        \* nothing in the repository creates

ASSUME RentalsAssumption ==
    /\ ColdRooms \subseteq Assets
    /\ AssetOf \in [Rentals -> Assets]
    /\ SiteOf \in [Rentals -> Sites]
    /\ Need \in [Rentals -> Nat]
    /\ HomeOf \in [Assets -> Sites]
    /\ Capacity \in [Assets -> Nat]
    /\ Stored \in [Assets -> Nat]
    /\ Legacy \subseteq Rentals
    /\ LegacyInvoiced \subseteq Legacy
    /\ RoomStatusVisible \in BOOLEAN
    /\ SystemUserRow \in BOOLEAN

\* parseAndValidateDates: a rental ends after it starts.
ASSUME PeriodsAssumption ==
    /\ Period \in [Rentals -> [from: Int, to: Int]]
    /\ \A r \in Rentals : Period[r].from < Period[r].to

VARIABLES
    rentalStatus,   \* rentals.status, or "none" when there is no row yet
    rentalDeleted,  \* rentals with deletedAt set
    invoice,        \* status of the invoice of a rental, or "none"
    assetStatus,    \* status of tricycles, cold_boxes, cold_plates, cold_rooms
    assetSite,      \* siteId of the asset
    assetDeleted,   \* assets with deletedAt set
    used,           \* cold_rooms.usedCapacityKg
    requests,       \* what each handler in flight has read
    handSet         \* history: assets whose status a manager has written

rentalVars == <<rentalStatus, rentalDeleted>>
assetVars  == <<assetStatus, assetSite, assetDeleted, used, handSet>>
vars == <<rentalVars, invoice, assetVars, requests>>

AssetStatuses  == {"AVAILABLE", "RENTED", "IN_USE", "MAINTENANCE"}
RentalStatuses == {"REQUESTED", "APPROVED", "ACTIVE", "COMPLETED", "CANCELLED"}

Idle        == [kind |-> "idle"]
RentalReq   == [kind: {"create", "complete", "cancel", "invoice", "void"}, rental: Rentals]
CreditReq   == [kind: {"credit"}, rental: Rentals, whole: BOOLEAN]
ActivateReq == [kind: {"activate"}, rental: Rentals, bySystem: BOOLEAN]
CancelReq   == [kind: {"cancelling"}, rental: Rentals, seenUnpaid: BOOLEAN]
StatusReq   == [kind: {"status"}, asset: Assets, status: AssetStatuses]
MoveReq     == [kind: {"move"}, asset: Assets, site: Sites]
RemoveReq   == [kind: {"remove"}, asset: Assets]
Request     == {Idle} \cup RentalReq \cup CreditReq \cup ActivateReq \cup CancelReq
                      \cup StatusReq \cup MoveReq \cup RemoveReq

RentalsTypeOK ==
    /\ rentalStatus \in [Rentals -> RentalStatuses \cup {"none"}]
    /\ rentalDeleted \in SUBSET Rentals
    /\ invoice \in [Rentals -> {"none", "UNPAID", "PAID", "VOID"}]
    /\ assetStatus \in [Assets -> AssetStatuses]
    /\ assetSite \in [Assets -> Sites]
    /\ assetDeleted \in SUBSET Assets
    /\ used \in [Assets -> Int]
    /\ requests \in [Requests -> Request]
    /\ handSet \in SUBSET Assets

Init ==
    /\ rentalStatus = [r \in Rentals |-> IF r \in Legacy THEN "APPROVED" ELSE "none"]
    /\ rentalDeleted = {}
    /\ invoice = [r \in Rentals |-> IF r \in LegacyInvoiced THEN "UNPAID" ELSE "none"]
    /\ assetStatus = [a \in Assets |-> "AVAILABLE"]
    /\ assetSite = HomeOf
    /\ assetDeleted = {}
    /\ used = Stored
    /\ requests = [q \in Requests |-> Idle]
    /\ handSet = {}

-----------------------------------------------------------------------------
(* What the handlers share *)

Begin(q, slot) ==
    /\ requests[q] = Idle
    /\ requests' = [requests EXCEPT ![q] = slot]
    /\ UNCHANGED <<rentalVars, invoice, assetVars>>

Finish(q) == requests' = [requests EXCEPT ![q] = Idle]

Live(r) == rentalStatus[r] # "none" /\ r \notin rentalDeleted

\* The asset of a rental is found at its site and can be had.
Available(r) ==
    LET a == AssetOf[r] IN
    /\ assetSite[a] = SiteOf[r]
    /\ a \notin assetDeleted
    /\ assetStatus[a] = "AVAILABLE"

TakesRoom(r) == AssetOf[r] \in ColdRooms /\ Need[r] > 0
RoomSuffices(r) ==
    TakesRoom(r) => Need[r] <= Capacity[AssetOf[r]] - used[AssetOf[r]]

\* Through the Prisma client, cold rooms may have no status to read or write.
StatusField(a) == a \in ColdRooms => RoomStatusVisible

\* A cancellation between its update of the rental row and its commit.
RowFree(r) ==
    ~ \E q \in Requests :
        requests[q].kind = "cancelling" /\ requests[q].rental = r

SetStatus(r, s) == rentalStatus' = [rentalStatus EXCEPT ![r] = s]

\* Fault: the asset keeps its status.
KeepStatus(a) == UNCHANGED assetStatus
MarkAsRented(a)    == assetStatus' = [assetStatus EXCEPT ![a] = "RENTED"]
MarkAsAvailable(a) == assetStatus' = [assetStatus EXCEPT ![a] = "AVAILABLE"]

ReserveRoom(r) ==
    used' = [used EXCEPT ![AssetOf[r]] = IF TakesRoom(r) THEN @ + Need[r] ELSE @]

\* Fault: the room of a completed rental stays reserved.
ReleaseNothing(r) == UNCHANGED used
ReleaseRoom(r) ==
    used' = [used EXCEPT ![AssetOf[r]] = IF TakesRoom(r) THEN @ - Need[r] ELSE @]

\* Fault: the invoice of a cancelled rental is left alone.
VoidNothing(r, unpaid) == UNCHANGED invoice

VoidInvoice(r, unpaid) ==
    invoice' = [invoice EXCEPT ![r] = IF unpaid THEN "VOID" ELSE @]

-----------------------------------------------------------------------------
(* createRental: nothing is locked, and overlapping dates are not looked at *)

BeginCreate(q, r) ==
    LET a == AssetOf[r] IN
    /\ "create" \in Kinds
    /\ rentalStatus[r] = "none"
    /\ \A o \in Requests : requests[o] # [kind |-> "create", rental |-> r]
    /\ a \in ColdRooms => TakesRoom(r)
    /\ RoomSuffices(r)
    /\ StatusField(a)
    /\ Available(r)
    /\ Begin(q, [kind |-> "create", rental |-> r])

Create(q) ==
    /\ requests[q].kind = "create"
    /\ SetStatus(requests[q].rental, "REQUESTED")
    /\ Finish(q)
    /\ UNCHANGED <<rentalDeleted, invoice, assetVars>>

-----------------------------------------------------------------------------
(* approveRental: the checks it makes before it writes *)

Overlaps(p, w) ==
    \/ p.from <= w.from /\ p.to > w.from
    \/ p.from < w.to /\ p.to >= w.to
    \/ p.from >= w.from /\ p.to <= w.to

Booked(r) ==
    {o \in Rentals :
        /\ AssetOf[o] = AssetOf[r]
        /\ rentalStatus[o] \in {"REQUESTED", "APPROVED", "ACTIVE"}
        /\ o \notin rentalDeleted
        /\ Overlaps(Period[o], Period[r])}

PassesApproval(r) ==
    /\ Live(r) /\ rentalStatus[r] = "REQUESTED"
    /\ Available(r)
    /\ Booked(r) = {}
    /\ RoomSuffices(r)

-----------------------------------------------------------------------------
(* generateRentalInvoice; invoices.rentalId is unique *)

BeginInvoice(q, r) ==
    /\ invoice[r] = "none"
    /\ Live(r) /\ rentalStatus[r] \in {"APPROVED", "ACTIVE"}
    /\ AssetOf[r] \notin ColdRooms
    /\ Begin(q, [kind |-> "invoice", rental |-> r])

CreateInvoice(q) ==
    LET r == requests[q].rental IN
    /\ requests[q].kind = "invoice"
    /\ invoice[r] = "none"
    /\ invoice' = [invoice EXCEPT ![r] = "UNPAID"]
    /\ Finish(q)
    /\ UNCHANGED <<rentalVars, assetVars>>

\* markPaid and reconcilePayment read the invoice and write the status of the
\* sum by id: an amount due in whole makes it PAID, also when the webhook finds
\* a voided invoice; an installment makes it UNPAID, whatever it is by then.
\* Payments models them with their amounts.
BeginCredit(q, r, whole) ==
    /\ invoice[r] # "none"
    /\ ~whole => "installments" \in Kinds /\ invoice[r] = "UNPAID"
    /\ Begin(q, [kind |-> "credit", rental |-> r, whole |-> whole])

Credit(q) ==
    LET r == requests[q].rental IN
    /\ requests[q].kind = "credit"
    /\ invoice' = [invoice EXCEPT ![r] = IF requests[q].whole THEN "PAID" ELSE "UNPAID"]
    /\ Finish(q)
    /\ UNCHANGED <<rentalVars, assetVars>>

\* voidInvoice, by a manager: reads and checks, then updates by id.
BeginVoid(q, r) ==
    /\ "void" \in Kinds
    /\ invoice[r] = "UNPAID"
    /\ Begin(q, [kind |-> "void", rental |-> r])

Void(q) ==
    /\ requests[q].kind = "void"
    /\ VoidInvoice(requests[q].rental, TRUE)
    /\ Finish(q)
    /\ UNCHANGED <<rentalVars, assetVars>>

-----------------------------------------------------------------------------
(* activateRental, called by managers and by the poll of 60 seconds *)

\* Fault: any invoice will do.
BeginActivateUnpaid(q, r, system) ==
    /\ Live(r) /\ rentalStatus[r] = "APPROVED"
    /\ invoice[r] # "none"
    /\ Begin(q, [kind |-> "activate", rental |-> r, bySystem |-> system])

\* Fault: the rental has to run already.
BeginActivateActive(q, r, system) ==
    /\ Live(r) /\ rentalStatus[r] = "ACTIVE"
    /\ invoice[r] = "PAID"
    /\ Begin(q, [kind |-> "activate", rental |-> r, bySystem |-> system])
BeginActivate(q, r, system) ==
    /\ Live(r) /\ rentalStatus[r] = "APPROVED"
    /\ invoice[r] = "PAID"
    /\ Begin(q, [kind |-> "activate", rental |-> r, bySystem |-> system])

\* autoActivateRentals selects the rentals activateRental accepts, and goes on
\* with the next one when it fails.
Poll(q) == \E r \in Rentals : BeginActivate(q, r, TRUE)

\* Fault: the rental is updated by its id alone.
ActivatableAny(r) == TRUE

\* updateMany selects the row by its status.
Activatable(r) == Live(r) /\ rentalStatus[r] = "APPROVED"

\* Locks the asset, checks it, reserves its room, and updates the rental if it
\* is still APPROVED; the audit row of the poll names the user 'SYSTEM'.
Activate(q) ==
    LET r == requests[q].rental
        a == AssetOf[r] IN
    /\ requests[q].kind = "activate"
    /\ requests[q].bySystem => SystemUserRow
    /\ Available(r) /\ RoomSuffices(r) /\ StatusField(a)
    /\ RowFree(r)
    /\ Activatable(r)
    /\ SetStatus(r, "ACTIVE")
    /\ MarkAsRented(a)
    /\ ReserveRoom(r)
    /\ Finish(q)
    /\ UNCHANGED <<rentalDeleted, invoice, assetSite, assetDeleted, handSet>>

-----------------------------------------------------------------------------
(* complete and cancelRental: the rental is updated by id *)

BeginComplete(q, r) ==
    /\ "complete" \in Kinds
    /\ Live(r) /\ rentalStatus[r] = "ACTIVE"
    /\ Begin(q, [kind |-> "complete", rental |-> r])

Complete(q) ==
    LET r == requests[q].rental
        a == AssetOf[r] IN
    /\ requests[q].kind = "complete"
    /\ StatusField(a)
    /\ RowFree(r)
    /\ SetStatus(r, "COMPLETED")
    /\ MarkAsAvailable(a)
    /\ ReleaseRoom(r)
    /\ Finish(q)
    /\ UNCHANGED <<rentalDeleted, invoice, assetSite, assetDeleted, handSet>>

BeginCancel(q, r) ==
    /\ "cancel" \in Kinds
    /\ Live(r) /\ rentalStatus[r] \in {"REQUESTED", "APPROVED"}
    /\ Begin(q, [kind |-> "cancel", rental |-> r])

\* tx.rental.update, which locks the row, then tx.invoice.findUnique.
WriteCancelled(q) ==
    LET r == requests[q].rental IN
    /\ requests[q].kind = "cancel"
    /\ RowFree(r)
    /\ requests' = [requests EXCEPT ![q] =
           [kind |-> "cancelling", rental |-> r, seenUnpaid |-> invoice[r] = "UNPAID"]]
    /\ UNCHANGED <<rentalVars, invoice, assetVars>>

\* tx.invoice.update and the commit.
Cancel(q) ==
    LET r == requests[q].rental IN
    /\ requests[q].kind = "cancelling"
    /\ SetStatus(r, "CANCELLED")
    /\ rentalDeleted' = rentalDeleted \cup {r}
    /\ VoidInvoice(r, requests[q].seenUnpaid)
    /\ Finish(q)
    /\ UNCHANGED assetVars

-----------------------------------------------------------------------------
(* cold-assets.services.ts; the cold rooms have endpoints of their own *)

Equipment == Assets \ ColdRooms

BeginStatus(q) ==
    \E a \in Equipment \ assetDeleted, s \in AssetStatuses :
        /\ "status" \in Kinds
        /\ Begin(q, [kind |-> "status", asset |-> a, status |-> s])

UpdateStatus(q) ==
    /\ requests[q].kind = "status"
    /\ assetStatus' = [assetStatus EXCEPT ![requests[q].asset] = requests[q].status]
    /\ handSet' = handSet \cup {requests[q].asset}
    /\ Finish(q)
    /\ UNCHANGED <<rentalVars, invoice, assetSite, assetDeleted, used>>

\* updateTricycle, updateColdBox, updateColdPlate: the body may name a site,
\* and a deleted asset is found as well.
BeginMove(q) ==
    \E a \in Equipment, s \in Sites :
        /\ "move" \in Kinds
        /\ Begin(q, [kind |-> "move", asset |-> a, site |-> s])

Move(q) ==
    /\ requests[q].kind = "move"
    /\ assetSite' = [assetSite EXCEPT ![requests[q].asset] = requests[q].site]
    /\ Finish(q)
    /\ UNCHANGED <<rentalVars, invoice, assetStatus, assetDeleted, used, handSet>>

BeginRemoveAsset(q) ==
    \E a \in Equipment :
        /\ "remove" \in Kinds
        /\ Begin(q, [kind |-> "remove", asset |-> a])

RemoveAsset(q) ==
    /\ requests[q].kind = "remove"
    /\ assetDeleted' = assetDeleted \cup {requests[q].asset}
    /\ Finish(q)
    /\ UNCHANGED <<rentalVars, invoice, assetStatus, assetSite, used, handSet>>

\* A check of the transaction fails, it times out, or the process stops.
RollBack(q) ==
    /\ requests[q] # Idle
    /\ Finish(q)
    /\ UNCHANGED <<rentalVars, invoice, assetVars>>

-----------------------------------------------------------------------------

Commit(q) ==
    \/ Create(q) \/ Activate(q) \/ Complete(q) \/ WriteCancelled(q) \/ Cancel(q)
    \/ CreateInvoice(q) \/ Credit(q) \/ Void(q)
    \/ UpdateStatus(q) \/ Move(q) \/ RemoveAsset(q)

Handle(q) ==
    \/ \E r \in Rentals :
          \/ BeginCreate(q, r)
          \/ BeginInvoice(q, r) \/ BeginVoid(q, r)
          \/ BeginCredit(q, r, TRUE) \/ BeginCredit(q, r, FALSE)
          \/ "activate" \in Kinds /\ BeginActivate(q, r, FALSE)
          \/ BeginComplete(q, r)
          \/ BeginCancel(q, r)
    \/ BeginStatus(q) \/ BeginMove(q) \/ BeginRemoveAsset(q)
    \/ Poll(q)
    \/ Commit(q)
    \/ RollBack(q)

Next == \E q \in Requests : Handle(q)

Spec == Init /\ [][Next]_vars

\* Handlers end.  The poll comes to every paid rental again and again, and a
\* transaction that is tried again and again goes through in the end.
FairSpec ==
    /\ Spec
    /\ \A q \in Requests : WF_vars(Commit(q) \/ RollBack(q))
    /\ \A q \in Requests, r \in Rentals :
          /\ SF_vars(BeginActivate(q, r, TRUE))
          /\ SF_vars(requests[q].kind = "activate" /\ requests[q].rental = r
                        /\ Activate(q))

-----------------------------------------------------------------------------
(* Properties *)

ActiveOn(a) == {r \in Rentals : rentalStatus[r] = "ACTIVE" /\ AssetOf[r] = a}

\* An asset whose status nobody writes by hand is handed out to one rental at
\* a time: activateRental locks its row and looks at its status again, so
\* managers and the poll may overlap (rentals.service.ts:591-635).  Stated without
\* completions: complete updates the rental and the asset by id (:703-708), and
\* the second of two that overlap takes the asset from whoever has it by then,
\* so that it is handed out twice.
OneActivePerAsset ==
    \A r, o \in Rentals :
        /\ rentalStatus[r] = "ACTIVE" /\ rentalStatus[o] = "ACTIVE"
        /\ AssetOf[r] = AssetOf[o] /\ AssetOf[r] \notin handSet
        => r = o

\* What renting promises of its assets.
Promise == INSTANCE Handouts WITH
    holders   <- [a \in Assets |-> ActiveOn(a)],
    over      <- {r \in Rentals : rentalStatus[r] \in {"COMPLETED", "CANCELLED"}},
    overruled <- handSet

\* Without completions the handlers implement that promise: an asset is handed
\* out only when nobody holds it, and a rental that was cancelled while a manager
\* or the poll was activating it is never activated (rentals.service.ts:591-660).
HandedOutAsPromised == Promise!Spec

\* A rental that runs is paid, although activateRental reads the invoice before
\* it waits for the asset, and a cancellation may void the invoice.  Managers
\* who void invoices or record installments beside a payment can undo it.
ActiveIsPaid == \A r \in Rentals : rentalStatus[r] = "ACTIVE" => invoice[r] = "PAID"

\* An asset whose status nobody writes by hand is RENTED exactly while a rental
\* of it runs: complete gives it back, a running rental is never cancelled.
RentedWhileActive ==
    \A a \in Assets \ handSet : assetStatus[a] = "RENTED" <=> ActiveOn(a) # {}

\* activateRental and complete reserve and release the room a rental needs,
\* each once.
RoomIsReserved ==
    \A a \in ColdRooms : used[a] = Stored[a] + SumFunctionOnSet(Need, ActiveOn(a))

\* cancelRental voids the invoice with the rental: nothing is left to pay.
CancelledOwesNothing ==
    \A r \in Rentals : rentalStatus[r] = "CANCELLED" => invoice[r] # "UNPAID"

\* "Automatically activates paid rentals every 60 seconds"
\* (rentals.service.ts:793): a rental that is approved and paid is activated,
\* unless its asset cannot be had.  It takes a row of users with the id 'SYSTEM',
\* which the audit row of the poll names (:639, :839), and one request at a time.
PaidIsActivated ==
    \A r \in Rentals :
        Live(r) /\ rentalStatus[r] = "APPROVED" /\ invoice[r] = "PAID"
            ~> rentalStatus[r] # "APPROVED" \/ ~Available(r) \/ ~RoomSuffices(r)

=============================================================================
