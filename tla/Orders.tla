------------------------------- MODULE Orders -------------------------------
(***************************************************************************)
(* orders.service.ts on top of the stock of Inventory.                     *)
(*                                                                         *)
(* approveOrders opens a transaction and, inside it, calls services that   *)
(* do not receive that transaction: recordMovement commits each item in a  *)
(* transaction of its own, and generateOrderInvoice reads the order in     *)
(* another, which sees only what is committed.  When the outer transaction *)
(* is rolled back, neither of them is.                                     *)
(*                                                                         *)
(* The outer transaction holds a connection of the Prisma pool all the     *)
(* while, the inner ones hold one more each, as do the transactions of the *)
(* stock handlers and a statement that waits for the row of an order.      *)
(* What ends such a wait is the timeout of interactive transactions, which *)
(* rolls them back; the handler of an approval goes on nevertheless.       *)
(*                                                                         *)
(* A slot of Requests runs either one handler of Inventory or one of this  *)
(* module.                                                                 *)
(***************************************************************************)
EXTENDS Inventory

CONSTANTS
    Orders,        \* order ids
    Carts,         \* the item lists clients order, sequences of items
    PoolSize,      \* connections of the Prisma pool
    SiteIdIsUuid   \* sites.id has type uuid, as the invoice number query casts it

ASSUME OrdersAssumption ==
    /\ Carts \subseteq Seq([product: Products, kg: Nat \ {0}])
    /\ PoolSize \in Nat \ {0}
    /\ SiteIdIsUuid \in BOOLEAN

VARIABLES
    orderStatus,   \* orders.status, or "none" when there is no row yet
    orderDeleted,  \* orders.deletedAt is set
    orderSite,     \* orders.siteId
    orderItems,    \* order_items
    invoiced,      \* the orders with a committed invoice
    handling,      \* the order handler in a slot
    inTx           \* the slots whose stock handler is in its transaction

orderRows  == <<orderStatus, orderDeleted, orderSite, orderItems, invoiced>>
orderVars  == <<orderRows, handling, inTx>>
ordersVars == <<vars, orderVars>>

Statuses == {"none", "REQUESTED", "APPROVED", "REJECTED"}
None     == [step |-> "none"]

\* An approval keeps the items and rooms it read, how many it has reserved, and
\* whether its transaction is open still.
Approval == [step: {"reserve", "invoice"}, order: Orders, by: Sites,
             rooms: Seq(Rooms), done: Nat, tx: BOOLEAN]
Closing  == [step: {"reject", "rejecting", "delete", "deleting"}, order: Orders]
Placing  == [step: {"create"}, order: Orders, cart: Carts]

OrdersTypeOK ==
    /\ TypeOK
    /\ orderStatus \in [Orders -> Statuses]
    /\ orderDeleted \in [Orders -> BOOLEAN]
    /\ orderSite \in [Orders -> Sites]
    /\ orderItems \in [Orders -> Carts \cup {<< >>}]
    /\ invoiced \in SUBSET Orders
    /\ handling \in [Requests -> {None} \cup Approval \cup Closing \cup Placing]
    /\ inTx \in SUBSET Requests

OrdersInit ==
    /\ Init
    /\ orderStatus = [o \in Orders |-> "none"]
    /\ orderDeleted = [o \in Orders |-> FALSE]
    /\ orderSite \in [Orders -> Sites]
    /\ orderItems = [o \in Orders |-> << >>]
    /\ invoiced = {}
    /\ handling = [r \in Requests |-> None]
    /\ inTx = {}

Items(o) == orderItems[o]

\* tx.order.update of an approval holds the lock of the row until it ends.
RowFree(o) ==
    ~ \E r \in Requests :
        handling[r].step = "invoice" /\ handling[r].order = o /\ handling[r].tx

\* The connections an order handler keeps from one step to the next.
HoldsConnection(r) ==
    LET h == handling[r] IN
    \/ h.step \in {"reserve", "invoice"} /\ h.tx
    \/ h.step \in {"rejecting", "deleting"}

ConnectionsHeld == Cardinality({r \in Requests : HoldsConnection(r)}) + Cardinality(inTx)

\* The next statement outside the transactions in progress gets a connection.
Connected == ConnectionsHeld < PoolSize

Enter(r, slot) ==
    /\ requests[r] = Idle
    /\ handling[r] = None
    /\ handling' = [handling EXCEPT ![r] = slot]

Leave(r) == handling' = [handling EXCEPT ![r] = None]

-----------------------------------------------------------------------------

\* createOrders: every item is compared with the stock on its own; then the
\* order is inserted under an id nobody else is given.
BeginCreateOrder(r) ==
    \E o \in Orders, cart \in Carts :
        /\ Connected
        /\ orderStatus[o] = "none"
        /\ \A q \in Requests : handling[q].step = "create" => handling[q].order # o
        /\ \A i \in DOMAIN cart :
              LET p == cart[i].product IN
              Live(p) /\ siteOf[p] = orderSite[o] /\ qty[p] >= cart[i].kg
        /\ Enter(r, [step |-> "create", order |-> o, cart |-> cart])
        /\ UNCHANGED <<vars, orderRows, inTx>>

CreateOrder(r) ==
    LET h == handling[r] IN
    /\ h.step = "create"
    /\ Connected
    /\ orderStatus' = [orderStatus EXCEPT ![h.order] = "REQUESTED"]
    /\ orderItems' = [orderItems EXCEPT ![h.order] = h.cart]
    /\ Leave(r)
    /\ UNCHANGED <<vars, orderDeleted, orderSite, invoiced, inTx>>

Open(o) == orderStatus[o] = "REQUESTED" /\ ~orderDeleted[o]

\* approveOrders: tx.order.findFirst and the checks after it.  The approver
\* passes as a manager of the site, so an approver without a site gets nowhere.
BeginApprove(r) ==
    \E o \in Orders :
        /\ Connected
        /\ orderSite[o] \in Callers
        /\ Open(o)
        /\ Items(o) # << >>
        /\ Enter(r, [step |-> "reserve", order |-> o, by |-> orderSite[o], done |-> 0, tx |-> TRUE,
                     rooms |-> [i \in DOMAIN Items(o) |-> roomOf[Items(o)[i].product]]])
        /\ UNCHANGED <<vars, orderRows, inTx>>

\* recordMovement and ProductsService.remove open their transactions when they
\* have read; the other stock handlers read inside theirs.
OpenTransaction(r) ==
    /\ requests[r].kind \in {"record", "remove"}
    /\ r \notin inTx
    /\ Connected
    /\ inTx' = inTx \cup {r}
    /\ UNCHANGED <<vars, orderRows, handling>>

\* recordMovement for the next item: its reads, its transaction, its commit.
ReserveRead(r) ==
    LET h == handling[r]
        i == h.done + 1
        item == Items(h.order)[i] IN
    /\ h.step = "reserve"
    /\ Connected
    /\ i \in DOMAIN Items(h.order)
    /\ ReadForMovement(r, item.product, h.rooms[i], item.kg, "OUT", h.by)
    /\ UNCHANGED orderVars

\* Fault: the reservation does not touch the cold room.
ReserveProductOnly(r) ==
    LET h == handling[r]
        q == requests[r] IN
    /\ h.step = "reserve"
    /\ r \in inTx
    /\ qty' = [qty EXCEPT ![q.product] = q.seenQty - q.kg]
    /\ Post(q.product, q.room, q.kg, "OUT")
    /\ Finish(r)
    /\ handling' = [handling EXCEPT ![r].done = @ + 1]
    /\ inTx' = inTx \ {r}
    /\ UNCHANGED <<status, roomOf, siteOf, life, roomVars, offLedger, orderRows>>

Reserve(r) ==
    LET h == handling[r] IN
    /\ h.step = "reserve"
    /\ r \in inTx
    /\ CommitRecord(r)
    /\ handling' = [handling EXCEPT ![r].done = @ + 1]
    /\ inTx' = inTx \ {r}
    /\ UNCHANGED orderRows

\* tx.order.update to APPROVED: not visible yet, but the row is locked.
WriteApproved(r) ==
    LET h == handling[r] IN
    /\ h.step = "reserve"
    /\ h.done = Len(Items(h.order))
    /\ h.tx
    /\ RowFree(h.order)
    /\ handling' = [handling EXCEPT ![r].step = "invoice"]
    /\ UNCHANGED <<vars, orderRows, inTx>>

\* The same statement in a transaction that has timed out throws.
WriteTooLate(r) ==
    LET h == handling[r] IN
    /\ h.step = "reserve"
    /\ h.done = Len(Items(h.order))
    /\ ~h.tx
    /\ Leave(r)
    /\ UNCHANGED <<vars, orderRows, inTx>>

\* Fault: an approval that waits for its invoice never times out.
TimeOutOfReservation(r) ==
    /\ handling[r].step = "reserve" /\ handling[r].tx
    /\ handling' = [handling EXCEPT ![r].tx = FALSE]
    /\ UNCHANGED <<vars, orderRows, inTx>>

\* Five seconds after it began, the transaction is rolled back and its
\* connection returned; the handler goes on with what it awaits.
TimeOut(r) ==
    /\ handling[r].step \in {"reserve", "invoice"} /\ handling[r].tx
    /\ handling' = [handling EXCEPT ![r].tx = FALSE]
    /\ UNCHANGED <<vars, orderRows, inTx>>

\* Fault: the invoice is generated inside the caller's transaction and only
\* the deletion is checked.
InvoiceGeneratedInside(o) == o \notin invoiced
InvoiceGenerated(o) ==
    /\ o \notin invoiced
    /\ ~orderDeleted[o]
    /\ orderStatus[o] = "APPROVED"
    /\ SiteIdIsUuid

\* generateOrderInvoice in its own transaction, then the outer commit; when it
\* throws, the outer transaction alone is rolled back.
FinishApproval(r) ==
    LET o == handling[r].order IN
    /\ handling[r].step = "invoice"
    /\ Connected
    /\ orderStatus' = IF InvoiceGenerated(o) /\ handling[r].tx
                      THEN [orderStatus EXCEPT ![o] = "APPROVED"] ELSE orderStatus
    /\ invoiced' = IF InvoiceGenerated(o) THEN invoiced \cup {o} ELSE invoiced
    /\ Leave(r)
    /\ UNCHANGED <<vars, orderDeleted, orderSite, orderItems, inTx>>

\* recordMovement refuses the next item, or a statement of it fails: the items
\* already reserved stay withdrawn.
AbandonApproval(r) ==
    /\ handling[r].step = "reserve"
    /\ Connected \/ r \in inTx
    /\ Finish(r)
    /\ Leave(r)
    /\ inTx' = inTx \ {r}
    /\ UNCHANGED <<productVars, roomVars, movements, offLedger, orderRows>>

-----------------------------------------------------------------------------
(* rejectOrders and deleteOrder: a read with its checks, then an           *)
(* unconditional update by id, which gets a connection and keeps it while  *)
(* it waits for the lock of the row.                                       *)

BeginReject(r) ==
    \E o \in Orders :
        /\ Connected
        /\ orderSite[o] \in Callers \/ Admin \in Callers
        /\ Open(o)
        /\ Enter(r, [step |-> "reject", order |-> o])
        /\ UNCHANGED <<vars, orderRows, inTx>>

SendUpdate(r) ==
    /\ handling[r].step \in {"reject", "delete"}
    /\ Connected
    /\ handling' = [handling EXCEPT ![r].step = IF @ = "reject" THEN "rejecting" ELSE "deleting"]
    /\ UNCHANGED <<vars, orderRows, inTx>>

Reject(r) ==
    LET o == handling[r].order IN
    /\ handling[r].step = "rejecting"
    /\ RowFree(o)
    /\ orderStatus' = [orderStatus EXCEPT ![o] = "REJECTED"]
    /\ Leave(r)
    /\ UNCHANGED <<vars, orderDeleted, orderSite, orderItems, invoiced, inTx>>

BeginDelete(r) ==
    \E o \in Orders :
        /\ Connected
        /\ Open(o)
        /\ Enter(r, [step |-> "delete", order |-> o])
        /\ UNCHANGED <<vars, orderRows, inTx>>

Delete(r) ==
    LET o == handling[r].order IN
    /\ handling[r].step = "deleting"
    /\ RowFree(o)
    /\ orderDeleted' = [orderDeleted EXCEPT ![o] = TRUE]
    /\ Leave(r)
    /\ UNCHANGED <<vars, orderStatus, orderSite, orderItems, invoiced, inTx>>

-----------------------------------------------------------------------------

(* A slot without an order handler serves the stock endpoints.             *)

\* revertMovement, adjustStock and create read inside their transactions, and
\* update reads the target room there.
ReadInside == {"revert", "adjust", "create", "update"}

ReadStock(r) ==
    /\ handling[r] = None
    /\ Connected
    /\ Read(r)
    /\ inTx' = IF requests'[r].kind \in ReadInside THEN inTx \cup {r} ELSE inTx
    /\ UNCHANGED <<orderRows, handling>>

\* A transaction commits on its own connection; that of an update writes the
\* audit row over another one first (products.service.ts:240).  The writes of
\* the room endpoints are single statements.
CommitStock(r) ==
    LET kind == requests[r].kind IN
    /\ handling[r] = None
    /\ r \in inTx \/ kind \in {"roomUpdate", "roomRemove"}
    /\ kind \in {"update", "roomUpdate", "roomRemove"} => Connected
    /\ Commit(r)
    /\ inTx' = inTx \ {r}
    /\ UNCHANGED <<orderRows, handling>>

RollBackStock(r) ==
    /\ handling[r] = None
    /\ RollBack(r)
    /\ inTx' = inTx \ {r}
    /\ UNCHANGED <<orderRows, handling>>

AddColdRoom == Connected /\ CreateColdRoom /\ UNCHANGED orderVars

HandleStock(r) == ReadStock(r) \/ CommitStock(r) \/ RollBackStock(r)

-----------------------------------------------------------------------------

Approve(r) ==
    \/ ReserveRead(r) \/ Reserve(r) \/ WriteApproved(r) \/ WriteTooLate(r)
    \/ FinishApproval(r) \/ AbandonApproval(r)
    \/ TimeOut(r)

\* The next step of the order handler in a slot.
Continue(r) == CreateOrder(r) \/ Approve(r) \/ SendUpdate(r) \/ Reject(r) \/ Delete(r)

HandleOrder(r) ==
    \/ BeginCreateOrder(r) \/ BeginApprove(r) \/ BeginReject(r) \/ BeginDelete(r)
    \/ Continue(r)

OrdersNext ==
    \/ \E r \in Requests : HandleOrder(r) \/ HandleStock(r) \/ OpenTransaction(r)
    \/ AddColdRoom

OrdersSpec == OrdersInit /\ [][OrdersNext]_ordersVars

\* The next step of the order handler in a slot, opening the transaction of its
\* movement included, or the end of a transaction of a stock handler.
Resume(r) ==
    \/ Continue(r)
    \/ handling[r] # None /\ OpenTransaction(r)
    \/ r \in inTx /\ (CommitStock(r) \/ RollBackStock(r))

\* The event loop resumes every handler whose database call has returned,
\* transactions time out, and the pool and the database serve those who wait
\* for a connection or for the lock of a row in order.
FairOrdersSpec ==
    /\ OrdersSpec
    /\ \A r \in Requests : SF_ordersVars(Resume(r))

-----------------------------------------------------------------------------
(* Properties *)

\* Orders reach stock only through the transactions of recordMovement: the
\* composed system implements Inventory step by step (orders.service.ts:167-183).
StockOnlyThroughInventory == Spec

\* A rejection is final: no approval that read the order before the rejection
\* commits over it (orders.service.ts:186-193 updates by id alone).
RejectionIsFinal ==
    [][\A o \in Orders : orderStatus[o] = "REJECTED" => orderStatus'[o] = "REJECTED"]_ordersVars

\* Every order handler ends: also when approvals, updates that wait for their
\* rows and the transactions of stock handlers hold all connections of the
\* pool, while what they wait for needs one more (orders.service.ts:136, 167,
\* 204, products.service.ts:201, 240).
HandlersEnd == \A r \in Requests : handling[r] # None ~> handling[r] = None

=============================================================================
