----------------------------- MODULE Inventory -----------------------------
(***************************************************************************)
(* Stock keeping: products.service.ts, stock-movements.service.ts and      *)
(* cold-rooms.service.ts over the tables products, cold_rooms and          *)
(* stock_movements.                                                        *)
(*                                                                         *)
(* Every HTTP request is a slot of Requests.  A Begin action is the part   *)
(* of a handler that reads and checks; what it read is kept in the slot.   *)
(* A Commit action is the database transaction becoming visible: between   *)
(* the two any other request may commit (PostgreSQL READ COMMITTED, no     *)
(* version column, no SELECT FOR UPDATE in these services).  A request     *)
(* that is refused changes nothing and is a Begin that is not enabled.     *)
(***************************************************************************)
EXTENDS Integers, Sequences, FiniteSetsExt

CONSTANTS
    Products,           \* product ids, existing or yet to be created
    Rooms,              \* cold room ids, existing or yet to be created
    Sites,
    Requests,           \* request slots: how many handlers overlap
    Callers,            \* who calls: a site (its manager) or Admin
    Admin,              \* a SUPER_ADMIN
    NULL,               \* a field the request body leaves out
    Kinds,              \* the kinds of request the clients send
    Kgs,                \* weights a request may name
    PatchKgs,           \* weights PATCH /products may carry (or NULL)
    Capacities,         \* capacities a cold room may be given
    RoomStatusVisible,  \* the Prisma client knows cold_rooms.status
    OpeningQty,         \* product id -> weight in the seed data
    OpeningUsed,        \* room id -> used weight in the seed data
    SeededProducts,     \* the products of the seed data
    SeededRooms,        \* the cold rooms of the seed data
    SeededRoomOf,       \* product id -> its cold room in the seed data
    SeededSiteOf,       \* room id -> its site in the seed data
    SeededCapacity,     \* room id -> its capacity in the seed data
    MaxMovements,       \* bound: rows the stock_movements table may reach
    MaxOffLedger        \* bound: weight a room may gain or lose without rows

ASSUME SetsAssumption ==
    /\ SeededProducts \subseteq Products
    /\ SeededRooms \subseteq Rooms
    /\ Callers \subseteq Sites \cup {Admin}
    /\ Admin \notin Sites
    /\ NULL \notin Sites
    /\ NULL \notin Rooms
    /\ RoomStatusVisible \in BOOLEAN
    /\ MaxMovements \in Nat
    /\ MaxOffLedger \in Nat

\* Weights are whole kilograms; the validators refuse negative ones
\* (adjust-stock.dto.ts @Min(0.1), create-product.dto.ts @Min(0)).
ASSUME WeightsAssumption ==
    /\ Kgs \subseteq Nat
    /\ NULL \notin Nat
    /\ PatchKgs \subseteq Nat \cup {NULL}
    /\ Capacities \subseteq Nat

\* products.coldRoomId is a foreign key.
ASSUME SeedAssumption ==
    /\ OpeningQty \in [Products -> Nat]
    /\ OpeningUsed \in [Rooms -> Nat]
    /\ SeededRoomOf \in [Products -> Rooms]
    /\ \A p \in SeededProducts : SeededRoomOf[p] \in SeededRooms
    /\ SeededSiteOf \in [Rooms -> Sites]
    /\ SeededCapacity \in [Rooms -> Nat]

VARIABLES
    qty,        \* products.quantityKg
    status,     \* products.status
    roomOf,     \* products.coldRoomId
    siteOf,     \* products.siteId
    life,       \* has the product row been created, is deletedAt set
    used,       \* cold_rooms.usedCapacityKg
    capacity,   \* cold_rooms.totalCapacityKg
    roomSite,   \* cold_rooms.siteId
    roomLife,   \* has the cold room row been created, is deletedAt set
    movements,  \* stock_movements, in the order of their commits
    requests,   \* what each handler in flight has read
    offLedger   \* history: weight moved in and out of a room without a row

productVars == <<qty, status, roomOf, siteOf, life>>
roomVars    == <<used, capacity, roomSite, roomLife>>
vars == <<qty, status, roomOf, siteOf, life, used, capacity, roomSite,
          roomLife, movements, requests, offLedger>>

Types     == {"IN", "OUT"}
Lives     == {"none", "live", "deleted"}
Movement  == [product: Products, room: Rooms, kg: Nat, type: Types]

\* Fault: a reversal gets a movement type of its own.
OppositeOwnType(type) == IF type = "IN" THEN "REVERSAL" ELSE "IN"
Opposite(type) == IF type = "IN" THEN "OUT" ELSE "IN"

Signed(kg, type) == IF type = "IN" THEN kg ELSE -kg

(***************************************************************************)
(* The slot of a handler in flight: the body of its request and the        *)
(* values it has read ("seen").                                            *)
(***************************************************************************)
Idle      == [kind |-> "idle"]
RecordReq == [kind: {"record"}, product: Products, room: Rooms, kg: Nat,
              type: Types, seenQty: Int]
RevertReq == [kind: {"revert"}, row: Movement]
AdjustReq == [kind: {"adjust"}, product: Products, kg: Nat, type: Types,
              seenQty: Int, seenRoom: Rooms]
CreateReq == [kind: {"create"}, room: Rooms, site: Sites, kg: Nat]
UpdateReq == [kind: {"patch", "update"}, product: Products,
              toRoom: Rooms \cup {NULL}, toSite: Sites \cup {NULL},
              toKg: Nat \cup {NULL}, seenQty: Int, seenRoom: Rooms, seenSite: Sites]
RemoveReq == [kind: {"remove"}, product: Products, seenQty: Int,
              seenRoom: Rooms]
RoomReq   == [kind: {"roomUpdate"}, room: Rooms, toSite: Sites \cup {NULL},
              toCapacity: Nat \cup {NULL}]
CloseReq  == [kind: {"roomRemove"}, room: Rooms]
Request   == {Idle} \cup RecordReq \cup RevertReq \cup AdjustReq
                    \cup CreateReq \cup UpdateReq \cup RemoveReq
                    \cup RoomReq \cup CloseReq

TypeOK ==
    /\ qty \in [Products -> Int]
    /\ status \in [Products -> {"IN_STOCK", "OUT_OF_STOCK"}]
    /\ roomOf \in [Products -> Rooms]
    /\ siteOf \in [Products -> Sites]
    /\ life \in [Products -> Lives]
    /\ used \in [Rooms -> Int]
    /\ capacity \in [Rooms -> Nat]
    /\ roomSite \in [Rooms -> Sites]
    /\ roomLife \in [Rooms -> Lives]
    /\ movements \in Seq(Movement)
    /\ requests \in [Requests -> Request]
    /\ offLedger \in [Rooms -> Int]

\* prisma/seed.ts: rooms with a used weight, products in stock, no movements.
Init ==
    /\ qty = OpeningQty
    /\ status = [p \in Products |-> "IN_STOCK"]
    /\ roomOf = SeededRoomOf
    /\ siteOf = [p \in Products |-> SeededSiteOf[SeededRoomOf[p]]]
    /\ life = [p \in Products |-> IF p \in SeededProducts THEN "live" ELSE "none"]
    /\ used = OpeningUsed
    /\ capacity = SeededCapacity
    /\ roomSite = SeededSiteOf
    /\ roomLife = [m \in Rooms |-> IF m \in SeededRooms THEN "live" ELSE "none"]
    /\ movements = << >>
    /\ requests = [r \in Requests |-> Idle]
    /\ offLedger = [m \in Rooms |-> 0]

-----------------------------------------------------------------------------
(* What the handlers share *)

Exists(p) == life[p] # "none"
Live(p)   == life[p] = "live"
RoomExists(m) == roomLife[m] # "none"

\* A SITE_MANAGER acts on the rows of its own site, a SUPER_ADMIN on any.
May(caller, site) == caller \in {site, Admin}

\* (room as any).status !== 'AVAILABLE': undefined, so refused, unless the
\* client exposes the column.
AcceptsStock(m) == RoomStatusVisible

\* Fault: the incoming weight is left out of the check.
HasSpaceNow(m, kg) == used[m] <= capacity[m]
HasSpace(m, kg) == used[m] + kg <= capacity[m]

\* Fault: the room only has to exist.
BelongsToAny(m, site) == RoomExists(m)
BelongsTo(m, site) == RoomExists(m) /\ roomSite[m] = site

Begin(r, slot) ==
    /\ requests[r] = Idle
    /\ requests' = [requests EXCEPT ![r] = slot]
    /\ UNCHANGED <<productVars, roomVars, movements, offLedger>>

Finish(r) == requests' = [requests EXCEPT ![r] = Idle]

\* stockMovement.create together with the relative update of the room.
Post(p, m, kg, type) ==
    /\ Len(movements) < MaxMovements
    /\ movements' = Append(movements,
            [product |-> p, room |-> m, kg |-> kg, type |-> type])

Bounded(f) == \A m \in Rooms : f[m] \in -MaxOffLedger .. MaxOffLedger

-----------------------------------------------------------------------------
(* StockMovementsService.recordMovement *)

Covers(p, kg, type) == type = "OUT" => qty[p] >= kg

\* Fault: only the product's site is checked.
OwnsProduct(u, p, m) == May(u, siteOf[p])
OwnsBoth(u, p, m) == May(u, siteOf[p]) /\ May(u, roomSite[m])

\* The reads and checks of recordMovement; OrdersService calls it as well.
ReadForMovement(r, p, m, kg, type, u) ==
    /\ Exists(p) /\ RoomExists(m)
    /\ OwnsBoth(u, p, m)
    /\ Covers(p, kg, type)
    /\ Begin(r, [kind |-> "record", product |-> p, room |-> m, kg |-> kg,
                 type |-> type, seenQty |-> qty[p]])

BeginRecord(r) ==
    \E p \in Products, m \in Rooms, kg \in Kgs, type \in Types, u \in Callers :
        /\ "record" \in Kinds
        /\ kg > 0
        /\ ReadForMovement(r, p, m, kg, type, u)

\* The product gets the value computed from the earlier read, the room a
\* relative update.
CommitRecord(r) ==
    LET q == requests[r] IN
    /\ q.kind = "record"
    /\ qty' = [qty EXCEPT ![q.product] = q.seenQty + Signed(q.kg, q.type)]
    /\ used' = [used EXCEPT ![q.room] = @ + Signed(q.kg, q.type)]
    /\ Post(q.product, q.room, q.kg, q.type)
    /\ Finish(r)
    /\ UNCHANGED <<status, roomOf, siteOf, life, capacity, roomSite, roomLife,
                   offLedger>>

(* StockMovementsService.revertMovement *)

\* Fault: taking back an addition is not checked.
TakesBackAlways(row) == TRUE
TakesBack(row) == row.type = "IN" => qty[row.product] >= row.kg

BeginRevert(r) ==
    \E i \in DOMAIN movements, u \in Callers :
        LET row == movements[i] IN
        /\ "revert" \in Kinds
        /\ May(u, siteOf[row.product])
        /\ TakesBack(row)
        /\ Begin(r, [kind |-> "revert", row |-> row])

\* Fault: the product is forgotten.
CommitRevertRoomOnly(r) ==
    LET row == requests[r].row
        back == Opposite(row.type) IN
    /\ requests[r].kind = "revert"
    /\ used' = [used EXCEPT ![row.room] = @ + Signed(row.kg, back)]
    /\ Post(row.product, row.room, row.kg, back)
    /\ Finish(r)
    /\ UNCHANGED <<qty, status, roomOf, siteOf, life, capacity, roomSite,
                   roomLife, offLedger>>

\* Fault: the row of the reversal has the type of the movement it reverts.
CommitRevertSameType(r) ==
    LET row == requests[r].row
        back == Opposite(row.type) IN
    /\ requests[r].kind = "revert"
    /\ qty' = [qty EXCEPT ![row.product] = @ + Signed(row.kg, back)]
    /\ used' = [used EXCEPT ![row.room] = @ + Signed(row.kg, back)]
    /\ Post(row.product, row.room, row.kg, row.type)
    /\ Finish(r)
    /\ UNCHANGED <<status, roomOf, siteOf, life, capacity, roomSite, roomLife,
                   offLedger>>

CommitRevert(r) ==
    LET row == requests[r].row
        back == Opposite(row.type) IN
    /\ requests[r].kind = "revert"
    /\ qty' = [qty EXCEPT ![row.product] = @ + Signed(row.kg, back)]
    /\ used' = [used EXCEPT ![row.room] = @ + Signed(row.kg, back)]
    /\ Post(row.product, row.room, row.kg, back)
    /\ Finish(r)
    /\ UNCHANGED <<status, roomOf, siteOf, life, capacity, roomSite, roomLife,
                   offLedger>>

-----------------------------------------------------------------------------
(* ProductsService.adjustStock: findOne, then the reads of the transaction *)

BeginAdjust(r) ==
    \E p \in Products, kg \in Kgs, type \in Types, u \in Callers :
        /\ "adjust" \in Kinds
        /\ kg > 0
        /\ Live(p)
        /\ May(u, siteOf[p])
        /\ qty[p] + Signed(kg, type) >= 0
        /\ type = "IN" => AcceptsStock(roomOf[p]) /\ HasSpace(roomOf[p], kg)
        /\ Begin(r, [kind |-> "adjust", product |-> p, kg |-> kg,
                     type |-> type, seenQty |-> qty[p], seenRoom |-> roomOf[p]])

RoomToAdjust(q) == q.seenRoom

CommitAdjust(r) ==
    LET q == requests[r]
        newQuantity == q.seenQty + Signed(q.kg, q.type) IN
    /\ q.kind = "adjust"
    /\ qty' = [qty EXCEPT ![q.product] = newQuantity]
    /\ status' = [status EXCEPT ![q.product] =
                    IF newQuantity > 0 THEN "IN_STOCK" ELSE "OUT_OF_STOCK"]
    /\ used' = [used EXCEPT ![RoomToAdjust(q)] = @ + Signed(q.kg, q.type)]
    /\ Post(q.product, q.seenRoom, q.kg, q.type)
    /\ Finish(r)
    /\ UNCHANGED <<roomOf, siteOf, life, capacity, roomSite, roomLife, offLedger>>

(* ProductsService.create: the room is checked, an image may be uploaded,  *)
(* then the rows are written.                                              *)

BeginCreate(r) ==
    \E m \in Rooms, s \in Sites, kg \in Kgs, u \in Callers :
        /\ "create" \in Kinds
        /\ May(u, s)
        /\ BelongsTo(m, s)
        /\ AcceptsStock(m)
        /\ HasSpace(m, kg)
        /\ Begin(r, [kind |-> "create", room |-> m, site |-> s, kg |-> kg])

CommitCreate(r) ==
    LET q == requests[r] IN
    /\ q.kind = "create"
    /\ \E p \in Products :
        /\ ~Exists(p)
        /\ qty' = [qty EXCEPT ![p] = q.kg]
        /\ status' = [status EXCEPT ![p] = "IN_STOCK"]
        /\ roomOf' = [roomOf EXCEPT ![p] = q.room]
        /\ siteOf' = [siteOf EXCEPT ![p] = q.site]
        /\ life' = [life EXCEPT ![p] = "live"]
        /\ Post(p, q.room, q.kg, "IN")
    /\ used' = [used EXCEPT ![q.room] = @ + q.kg]
    /\ Finish(r)
    /\ UNCHANGED <<capacity, roomSite, roomLife, offLedger>>

(* ProductsService.update: PATCH with any of a room, a site, a weight.  It *)
(* reads the product, may upload an image, and then reads the target room. *)

Target(field, old) == IF field = NULL THEN old ELSE field

BeginUpdate(r) ==
    \E p \in Products, m \in Rooms \cup {NULL}, s \in Sites \cup {NULL},
       kg \in PatchKgs, u \in Callers :
        /\ "update" \in Kinds
        /\ Live(p)
        /\ May(u, siteOf[p])
        /\ u # Admin => s \in {NULL, siteOf[p]}
        /\ Begin(r, [kind |-> "patch", product |-> p, toRoom |-> m,
                     toSite |-> s, toKg |-> kg, seenQty |-> qty[p],
                     seenRoom |-> roomOf[p], seenSite |-> siteOf[p]])

Moves(q) == q.toRoom \notin {NULL, q.seenRoom}

\* The room is compared with what was read of the product.  It is read once
\* more inside the transaction, with the same check; the last read counts.
CheckUpdate(r) ==
    LET q == requests[r]
        room == Target(q.toRoom, q.seenRoom) IN
    /\ q.kind = "patch"
    /\ q.toRoom # NULL \/ q.toSite # NULL => BelongsTo(room, Target(q.toSite, q.seenSite))
    /\ Moves(q) => AcceptsStock(room) /\ HasSpace(room, q.seenQty)
    /\ requests' = [requests EXCEPT ![r].kind = "update"]
    /\ UNCHANGED <<productVars, roomVars, movements, offLedger>>

\* Fault: the room the product leaves is not relieved.
ShiftedIn(f, q) ==
    IF Moves(q) THEN [f EXCEPT ![q.toRoom] = @ + q.seenQty] ELSE f

\* A move shifts the weight that was read from the room that was read.
Shifted(f, q) ==
    IF Moves(q) THEN [f EXCEPT ![q.seenRoom] = @ - q.seenQty,
                               ![q.toRoom] = @ + q.seenQty]
                ELSE f

\* The move leaves no movement row; then the fields of the body overwrite
\* those of the product.
CommitUpdate(r) ==
    LET q == requests[r] IN
    /\ q.kind = "update"
    /\ used' = Shifted(used, q)
    /\ offLedger' = Shifted(offLedger, q)
    /\ Bounded(offLedger')
    /\ roomOf' = [roomOf EXCEPT ![q.product] = Target(q.toRoom, @)]
    /\ siteOf' = [siteOf EXCEPT ![q.product] = Target(q.toSite, @)]
    /\ qty' = [qty EXCEPT ![q.product] = Target(q.toKg, @)]
    /\ Finish(r)
    /\ UNCHANGED <<status, life, capacity, roomSite, roomLife, movements>>

(* ProductsService.remove *)

BeginRemove(r) ==
    \E p \in Products, u \in Callers :
        /\ "remove" \in Kinds
        /\ Live(p)
        /\ May(u, siteOf[p])
        /\ Begin(r, [kind |-> "remove", product |-> p, seenQty |-> qty[p],
                     seenRoom |-> roomOf[p]])

CommitRemove(r) ==
    LET q == requests[r] IN
    /\ q.kind = "remove"
    /\ life' = [life EXCEPT ![q.product] = "deleted"]
    /\ status' = [status EXCEPT ![q.product] = "OUT_OF_STOCK"]
    /\ used' = [used EXCEPT ![q.seenRoom] = @ - q.seenQty]
    /\ offLedger' = [offLedger EXCEPT ![q.seenRoom] = @ - q.seenQty]
    /\ Bounded(offLedger')
    /\ Finish(r)
    /\ UNCHANGED <<qty, roomOf, siteOf, capacity, roomSite, roomLife, movements>>

-----------------------------------------------------------------------------
(* ColdRoomService: a read with its checks, then one statement by id that  *)
(* overwrites the fields the body names, without looking at the weight     *)
(* stored.  create has nothing of a room to read.                          *)

CreateColdRoom ==
    \E m \in Rooms, s \in Sites, c \in Capacities, u \in Callers :
        /\ "roomCreate" \in Kinds
        /\ ~RoomExists(m)
        /\ May(u, s)
        /\ roomLife' = [roomLife EXCEPT ![m] = "live"]
        /\ roomSite' = [roomSite EXCEPT ![m] = s]
        /\ capacity' = [capacity EXCEPT ![m] = c]
        /\ used' = [used EXCEPT ![m] = 0]
        /\ offLedger' = [offLedger EXCEPT ![m] = 0]
        /\ UNCHANGED <<productVars, movements, requests>>

BeginUpdateRoom(r) ==
    \E m \in Rooms, s \in Sites \cup {NULL}, c \in Capacities \cup {NULL}, u \in Callers :
        /\ "roomUpdate" \in Kinds
        /\ roomLife[m] = "live"
        /\ May(u, roomSite[m])
        /\ u # Admin => s \in {NULL, u}
        /\ Begin(r, [kind |-> "roomUpdate", room |-> m, toSite |-> s, toCapacity |-> c])

UpdateColdRoom(r) ==
    LET q == requests[r] IN
    /\ q.kind = "roomUpdate"
    /\ roomSite' = [roomSite EXCEPT ![q.room] = Target(q.toSite, @)]
    /\ capacity' = [capacity EXCEPT ![q.room] = Target(q.toCapacity, @)]
    /\ Finish(r)
    /\ UNCHANGED <<productVars, used, roomLife, movements, offLedger>>

BeginRemoveRoom(r) ==
    \E m \in Rooms, u \in Callers :
        /\ "roomRemove" \in Kinds
        /\ roomLife[m] = "live"
        /\ May(u, roomSite[m])
        /\ Begin(r, [kind |-> "roomRemove", room |-> m])

RemoveColdRoom(r) ==
    LET q == requests[r] IN
    /\ q.kind = "roomRemove"
    /\ roomLife' = [roomLife EXCEPT ![q.room] = "deleted"]
    /\ Finish(r)
    /\ UNCHANGED <<productVars, used, capacity, roomSite, movements, offLedger>>

-----------------------------------------------------------------------------

\* The transaction of a handler fails or times out and is rolled back, or the
\* process stops: nothing of it becomes visible.
RollBack(r) ==
    /\ requests[r] # Idle
    /\ Finish(r)
    /\ UNCHANGED <<productVars, roomVars, movements, offLedger>>

Read(r) ==
    \/ BeginRecord(r) \/ BeginRevert(r) \/ BeginAdjust(r) \/ BeginCreate(r)
    \/ BeginUpdate(r) \/ CheckUpdate(r) \/ BeginRemove(r)
    \/ BeginUpdateRoom(r) \/ BeginRemoveRoom(r)

Commit(r) ==
    \/ CommitRecord(r) \/ CommitRevert(r) \/ CommitAdjust(r) \/ CommitCreate(r)
    \/ CommitUpdate(r) \/ CommitRemove(r)
    \/ UpdateColdRoom(r) \/ RemoveColdRoom(r)

Handle(r) == Read(r) \/ Commit(r) \/ RollBack(r)

Next == (\E r \in Requests : Handle(r)) \/ CreateColdRoom

Spec == Init /\ [][Next]_vars

-----------------------------------------------------------------------------
(* Properties *)

\* The movement rows of a product and of a room, and what rows add up to.
RowsOf(p)  == {i \in DOMAIN movements : movements[i].product = p}
RowsIn(m)  == {i \in DOMAIN movements : movements[i].room = m}
Rows       == [i \in DOMAIN movements |-> Signed(movements[i].kg, movements[i].type)]
SumRows(I) == SumFunctionOnSet(Rows, I)

Opening(p) == IF p \in SeededProducts THEN OpeningQty[p] ELSE 0
OpeningRoom(m) == IF m \in SeededRooms THEN OpeningUsed[m] ELSE 0

\* Whatever handlers overlap, the used weight of a cold room is its opening
\* weight plus all movement rows booked in it plus the unbooked transfers and
\* removals: the relative updates of usedCapacityKg lose nothing
\* (stock-movements.service.ts:58-62, products.service.ts:299-302).
RoomLedger ==
    \A m \in Rooms : RoomExists(m) =>
        used[m] = OpeningRoom(m) + SumRows(RowsIn(m)) + offLedger[m]

\* One request at a time, the weight of a product is its opening weight plus
\* its movements, transfers, removals and reversals of reversals included
\* (products.controller.ts:127, "atomically").  A PATCH that names quantityKg
\* overwrites the weight and books no movement: this is about histories
\* without one (PatchKgs = {NULL}), and two requests that overlap break it.
ProductLedger ==
    \A p \in Products : Exists(p) => qty[p] = Opening(p) + SumRows(RowsOf(p))

\* What the stock services promise of an operation.
Atomic == INSTANCE Ledger WITH Weights <- Kgs \cup (PatchKgs \ {NULL})

\* One request at a time, the handlers keep that promise: what they have
\* checked and read is so still when they write, and product, room and movement
\* row change by the same weight (products.controller.ts:127,
\* stock-movements.service.ts:46-62).
StockIsAtomic == Atomic!Spec

\* Stock never goes below zero.  Where reversals are in play this needs one
\* request at a time; without them it holds under any overlap, although every
\* new weight is computed from a value that may be stale
\* (stock-movements.service.ts:46, products.service.ts:269).
StockNonNegative == \A p \in Products : qty[p] >= 0

\* The products that stand in a cold room.
StockIn(m) == {p \in Products : Live(p) /\ roomOf[p] = m}

\* products.service.ts and cold-rooms.service.ts, one request at a time, keep
\* the counter of each cold room equal to the stock that stands in it: create,
\* adjust, move and remove each shift both sides by the same weight, also while
\* rooms are resized, reassigned or deleted.  Left out are the PATCH that
\* names quantityKg (PatchKgs = {NULL}), which changes the product alone, and
\* recordMovement and revertMovement, which book in the room they are given.
RoomHoldsItsProducts ==
    \A m \in Rooms : RoomExists(m) =>
        used[m] = SumFunctionOnSet(qty, StockIn(m))

\* One request through the product or room endpoints at a time, a step that
\* adds weight to a cold room leaves it within its capacity, whatever weights
\* PATCH has overwritten and however rooms were resized before; a room resized
\* below what stands in it takes nothing more (products.service.ts:52, 214, 284).
NoOverfill ==
    [][\A m \in Rooms : used'[m] > used[m] => used'[m] <= capacity'[m]]_vars

\* One request at a time, and while no cold room is handed to another site, a
\* live product stands in a room of its own site (products.service.ts:41-44,
\* 193, 206).
RoomOfOwnSite == \A p \in Products : Live(p) => roomSite[roomOf[p]] = siteOf[p]

\* What the managers of Callers do never changes a product or a cold room of
\* another site, neither its weight or capacity, nor its status or life, nor
\* the site it belongs to, in any order and overlap: the checks made on what
\* was read still hold for what is written.
SitesApart ==
    [][/\ \A p \in Products : Exists(p) /\ siteOf[p] \notin Callers =>
            /\ qty'[p] = qty[p] /\ status'[p] = status[p] /\ life'[p] = life[p]
            /\ roomOf'[p] = roomOf[p] /\ siteOf'[p] = siteOf[p]
       /\ \A m \in Rooms : RoomExists(m) /\ roomSite[m] \notin Callers =>
            /\ used'[m] = used[m] /\ capacity'[m] = capacity[m]
            /\ roomSite'[m] = roomSite[m] /\ roomLife'[m] = roomLife[m]]_vars

=============================================================================
