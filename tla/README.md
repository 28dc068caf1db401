# A TLA+ specification of the MoFresh API

MoFresh is a NestJS service over PostgreSQL (Prisma) for cold rooms: products
are stored in them, clients order products or rent equipment, invoices are
raised and settled by MTN mobile money. Any number of HTTP requests are in
flight at a time; each is an `async` handler that reads, checks, awaits, and
writes. The interesting behaviour is what happens between the awaits.

## 1. Inventory of the system

Paths are below `src/src/modules/` unless they start with `prisma/`.

| component | state | operations | hard behaviour | what makes it correct |
|---|---|---|---|---|
| Stock: `products/`, `stock-movements/`, `cold-rooms/` | `products.quantityKg/status/coldRoomId/siteId/deletedAt`, `cold_rooms.usedCapacityKg/totalCapacityKg/siteId/deletedAt`, `stock_movements` | create, update (move, edit), adjustStock, remove; recordMovement, revertMovement; cold room create, update, remove | values read before a transaction and written as absolute values in it; checks made before it; image upload in the middle | stock and counters follow the movements; no negative stock; no overfull room; sites stay apart |
| Orders: `orders/` | `orders.status/deletedAt`, `order_items` | createOrders, approveOrders, rejectOrders, deleteOrder | a transaction that holds a connection of the pool and calls services which open their own transactions; a timeout of 5 s; check-then-update by id | stock only through movements; nothing oversold; rejections final; every handler ends, also with the pool exhausted |
| Invoices: `invoices/` | `invoices.status/paidAmount/totalAmount`, numbers | generateOrderInvoice, generateRentalInvoice, markPaid, voidInvoice, numbering | read-then-write of `paidAmount`; row lock on the site for numbers | status agrees with amount; no credit lost; what is settled stays so; numbers unique |
| Payments: `payments/`, `webhooks/` | `payments.status/amount/invoiceId` | initiatePayment, processWebhook, reconcilePayment, markPaidManually | webhooks repeated, early, late, overlapping | a payment is credited once; approved payments are settled |
| MoMo client: `payments/services/mtn-momo.service.ts` | token cache (in memory) | getAccessToken, requestToPay | expiry counted from the arrival of the answer, concurrent refresh, timeouts, restart | a payment carries a token MTN still honours; every call ends |
| Rentals: `rentals/` | `rentals.status/deletedAt`, asset status, room capacity | createRental, approveRental, activateRental, complete, cancelRental, poll of 60 s | `SELECT ... FOR UPDATE`, date overlap, poll racing managers | an asset is rented once; capacity is given back once; running rentals are paid, cancelled ones owe nothing; paid rentals are activated |
| Cold assets: `cold-assets/` | tricycles, boxes, plates | create, update, updateStatus, remove | writes the same status as Rentals, without a lock | an asset in use is not handed out; RENTED exactly while a rental runs |
| Auth: `auth/` | `otps`, `users.refreshToken` | login, verifyOtp, resendOtp, refreshTokens, requestPasswordReset, resetPassword, logout | every statement on its own, each may fail; check-then-write by id | a code that logged somebody in is gone; an ended session stays ended |
| Users, Sites: `users/`, `sites/` | `users`, `sites.managerId`, `vendor_requests` | register and its variants, update, remove, profile completeness, vendor requests; site create, update, remove | checks before writes, mail before write, a second write for `isProfileComplete` | an account that is there is kept; the flag agrees with the row; a profile is complete when nothing is reported missing |
| Audit log | `audit_logs` (append only) | createAuditLog | its foreign key fails transactions that name no user | - |
| Reports: `reports/` | none | getRevenueReport, getUnpaidInvoicesReport | queries on several connections while payments commit; pages of a list that changes | no invoice counted or listed twice, none missed |
| Mail, uploads, guards, filters, seeder | none or external | - | I/O or wiring | - |

Components interact through the database only, and through direct calls:
`OrdersService.approveOrders` calls `StockMovementsService.recordMovement` and
`InvoicesService.generateOrderInvoice`; `PaymentsService` calls
`InvoicesService.markPaid`; `RentalsService.approveRental` calls
`InvoicesService.generateRentalInvoice`. None of these calls passes the
caller's transaction on.

## 2. How the code is modelled

**Requests.** A handler in flight is a slot of the constant `Requests`. A
`Begin...` action is the part of a handler that reads and checks; the request
body and what it read are kept in the slot (`seenQty`, `seenRoom`, `seenPaid`).
A `Commit...` action (in Orders and Payments: an action named after the write)
is a database statement or transaction becoming visible. Between the two any
other slot may step. With `Requests = {r1}` a model is the system with one
request at a time; with two slots it has every overlap of two handlers. A
request that is refused changes nothing and is a `Begin` that is not enabled.
`RollBack`, `Abandon`, `AbandonApproval`, `Fail` and `Stop` are a transaction or
a call that fails, times out or is cut by the process stopping. The MTN token is
the only thing kept in memory between requests (`Restart` of MomoClient empties
it); for everything else a crash is all slots emptying. Where a handler writes
several times without a transaction (Users, Sessions), each write is an action
and `Stop` may come before any of them.

**Reads in a row.** Consecutive reads of a handler are one step when nothing is
written between them; so are reads inside a transaction, which under READ
COMMITTED see the committed state like any other read. `findOne` and
`requestToPay` are one step of `initiatePayment`, since what matters is that
MTN knows the reference before the row exists. Writes of one transaction are
one step, except where the code holds a row lock over a further read
(`LockAndRead` / `Reconcile`) or over a call to another connection
(`WriteApproved` / `FinishApproval`).

**Row locks.** `RowFree` says that no transaction in flight holds the row an
update needs. Locks that are taken and released in one step need no state.

**Data.** Weights and money are whole numbers in small sets. Names, dates,
documents, mails and log lines are left out. Money and weights are floats in the
code; no property here depends on rounding.

**Facts about the deployment** are constants:

- `RoomStatusVisible`: does the Prisma client return `cold_rooms.status`, which
  `products.service.ts:46, 207, 278` compares with `AVAILABLE`? With the
  `schema.prisma` of the repository (model ColdRoom, 206-227) it does not, and
  the comparison refuses every addition to stock. The database column exists
  (migration 20260218084249). Runs that look at the other rules set it to TRUE,
  the model then allows what the code does once the schema has the field;
  the run of Orders uses FALSE. In Rentals
  it decides whether a cold room can be rented at all: `checkAvailability` reads
  the field and `markAsRented` / `markAsAvailable` write it.
- `SiteIdIsUuid`: `invoices.service.ts:448` casts the id of a site to `uuid`;
  the migrations create it as TEXT. The runs set it to TRUE and show what the
  code does where the cast is accepted; no result depends on the value FALSE.
- `SystemUserRow`: is there a user with the id `SYSTEM`, to whom
  `payments.service.ts:253` and the poll (`rentals.service.ts:839`) attribute an
  audit row? No code creates it.
- `Kinds`: which requests the clients send, so that a run can ask for one
  mixture of handlers.

**Bounds.** `MaxMovements` (rows of stock_movements) and `MaxOffLedger` (weight
a room gains or loses without rows) stand in guards of commits; a commit at a
bound is not enabled, its slot still rolls back. `MaxCredits` is the number of
credits of an invoice at which managers stop starting new ones: it stands in
`BeginManual` and `BeginMarkPaid` and in no commit, so a handler in flight is
never cut by it, and credits that come from webhooks are finite because payments
are. `MaxCodes` bounds the one-time codes created for an account (in
`CreateCode`), `MaxVendorRequests` the vendor requests (in
`CreateVendorRequest`), and `PageSize` is the limit of a page, which the code
bounds as well. Two movements are enough for every overlap of two handlers; the serial runs
use three to reach a reversal of a reversal.

### Inventory

| code | model |
|---|---|
| `recordMovement` | `ReadForMovement`/`BeginRecord`, `CommitRecord` |
| `revertMovement` | `BeginRevert`, `CommitRevert` |
| `ProductsService.adjustStock` / `create` / `update` / `remove` | `Begin`/`Commit` + `Adjust`, `Create`, `Update`, `Remove` |
| `ColdRoomService.create` | `CreateColdRoom` |
| `ColdRoomService.update` / `remove`: `findOne`, then the write by id | `BeginUpdateRoom`, `UpdateColdRoom`; `BeginRemoveRoom`, `RemoveColdRoom` |
| `stockMovement.create` with the relative update of the room | `Post` |

`offLedger` is a history variable: the weight that transfers and removals shift
without a row. `Ledger` is the abstract specification of stock: an operation is
one step that looks at a product and a room and changes both, and the list of
movements, by the same weight. No handler, no read and no caller is in it.
`StockIsAtomic == Atomic!Spec` says that the handlers implement it, under the
identity mapping of the seven shared variables, with the weights clients name
for `Weights`.

`update` of a product reads twice: what it finds before the image upload is in
the slot after `BeginUpdate`, and `CheckUpdate` is the second read, of the target
room, with the checks that follow it.

A PATCH of a product may name `quantityKg` (`PatchKgs`), which replaces the weight
without a movement row. `ProductLedger`, `RoomHoldsItsProducts` and the ledger are
about tables in which nobody does; the runs that check them set `PatchKgs = {NULL}`,
and the theorems assume it where they need it (`NoOverwriting`).

### Orders (EXTENDS Inventory)

A slot holds an order handler in `handling` and, while an approval is inside
`recordMovement`, the stock handler in `requests`. `approveOrders` is
`BeginApprove`, then per item `ReserveRead` and `Reserve` (each its own commit),
`WriteApproved` (the update in the open transaction: not visible, row locked)
and `FinishApproval` (the invoice in its own transaction, then commit or
rollback). Since `generateOrderInvoice` sees the committed status, it never
sees the APPROVED of its caller: with this code `FinishApproval` always rolls
back, and the stock stays withdrawn. The model keeps both outcomes, guarded by
the code's condition. `StockOnlyThroughInventory` is a refinement: the composed
system implements `Inventory!Spec` under the identity mapping.

`createOrders` compares each item with the stock (`BeginCreateOrder`) and then
inserts the order (`CreateOrder`).

The pool has `PoolSize` connections. `ConnectionsHeld` counts those that are kept from one
step to the next: by an approval whose interactive transaction is open (`tx`), by
a rejection or deletion that has sent its update (`SendUpdate`) and waits for the
row, and by the transactions of the stock handlers (`inTx`), those of
`recordMovement` inside an approval among them. `revertMovement`, `adjustStock`,
`create` and `update` read inside their transactions, so that theirs are open from
`ReadStock` on; `recordMovement` and the removal of a product open theirs after
they have read (`OpenTransaction`). `CommitStock` and `RollBackStock` end them; the
update of a product asks for one connection more within its transaction, for the
audit row (`products.service.ts:240`). Every other statement needs one for the
length of its step (`Connected`). With both connections held by approvals, or by an
approval and an update that waits for its row, or by a stock handler, nothing
moves until a transaction ends: `TimeOut` is Prisma rolling that of an approval
back after 5 s and returning its connection, but the handler goes on with what it
awaits, commits the movements that are left, and throws when it comes back to its
transaction (`WriteTooLate`, or `FinishApproval` with `tx` FALSE).

### Payments

`answer` and `acked` are the outside: what MTN knows of a reference and whether
it got HTTP 200. `AcknowledgeOnly`, `BeginWebhook`, `Fail`, `BeginReconcile`,
`LockAndRead`, `Reconcile` are a webhook delivery, which may happen any number
of times in any slot; `BeginInitiate`, `CreatePayment`; `BeginManual`,
`PayManually`, `MarkManually`, `MarkPaid`; `BeginVoid`, `VoidInvoice`.
`credits` and `credited` are history: what was credited to an invoice, and how
often a payment was. `GenerateInvoice` is the two generators of invoices, of which
payments see the row and no more; before it an invoice has the status "none".

### Rentals

| code | model |
|---|---|
| `createRental` | `BeginCreate`, `Create` |
| `approveRental` | its checks: `PassesApproval`, with `Booked` / `Overlaps` for `checkDateOverlap` |
| `activateRental` by a manager, by the poll of 60 s | `BeginActivate`, `Poll`; `Activate` |
| `complete` | `BeginComplete`, `Complete` |
| `cancelRental` | `BeginCancel`, `WriteCancelled` (the row is locked, the invoice read), `Cancel` |
| `generateRentalInvoice` | `BeginInvoice`, `CreateInvoice` |
| `markPaid`, `reconcilePayment` on the invoice of a rental | `BeginCredit`, `Credit` |
| `voidInvoice` | `BeginVoid`, `Void` |
| `ColdAssetsService.updateStatus`, `update...`, `remove` | `Begin...` + `UpdateStatus`, `Move`, `RemoveAsset` |

`approveRental` is no action, because it never writes: `checkDateOverlap`
(`rentals.service.ts:224-285`) counts every REQUESTED, APPROVED or ACTIVE rental
of the asset whose dates overlap and does not leave out the rental to be
approved, which is REQUESTED and overlaps itself. `Rentals_proofs` has it as the
lemma `NoRequestPasses`; it follows from the definitions. Were it to pass, `generateRentalInvoice` would refuse: it
runs in a transaction of its own and still sees REQUESTED, and it knows no cold
rooms (`invoices.service.ts:193-203`). The rest of the service works on approved
rentals, so `Legacy` is a set of rentals that are APPROVED when the model
starts, some with an invoice (`LegacyInvoiced`): the rows an earlier version left,
before the overlap check looked at REQUESTED rentals as well. Its comment still
speaks of "existing ACTIVE or APPROVED rentals" (222).

A credit is abstracted to whether it settles the invoice (`whole`) or leaves a
rest ("installments" in `Kinds`); the amounts are those of Payments.
`Handouts` is an abstract specification of renting: sets of holders, rentals that
are over, and assets whose status a manager overruled; `HandOut`, `Close`,
`Overrule`. The refinement mapping takes the running rentals of an asset for its
holders, COMPLETED and CANCELLED for over, and `handSet` for overruled.
`HandedOutAsPromised` says that the handlers implement it.

`activateRental` locks the asset and rereads its status before it writes, so
`Activate` is one step with all of that in its guard; the rental row may be held
by a cancellation (`RowFree`). `handSet` is history: the assets whose status a
manager has written with `updateStatus`, for which no property of rentals can
hold.

### Numbering

| code | model |
|---|---|
| checks of `generateOrderInvoice`, `generateRentalInvoice` | `BeginGenerate` |
| `generateInvoiceNumberSafe` | `TakeNumber`, with `Series`, `IsLast`, `NumberOf` |
| `tx.invoice.create` and the commit | `CreateInvoice` |
| roll back of the transaction | `RollBack` |
| `SitesService.update` of a name | `Rename` |

A slot with a number holds the row of its site (`SELECT ... FOR UPDATE`) until
it commits or rolls back; `RowFree` is what the next `TakeNumber` and a `Rename`
of the site wait for. A statement that has waited reads the row and the invoices
as they are then, so waiting, reading the name, finding the last invoice and
adding one are one step. A number is a record of prefix, year and sequence: the
code writes it as a string and parses the sequence back from the last part
between dashes, which a dash in the name does not disturb.

`createdAt` comes from a clock that ticks with every row. The code needs it: it
takes the invoice created last for the one with the greatest number, which holds
because the lock orders the rows of a site in time, as long as the processes of
the service agree on the clock to less than the time between two commits. Not
modelled: a site whose name continues with a year ("INV-KIGALI-2026-..." as the
name "KIGALI-2026"), which `startsWith` cannot tell from the numbers of "KIGALI".

The module stands beside Orders and Rentals, which keep of an invoice what their
own properties need.

### MomoClient

| code | model |
|---|---|
| `getAccessToken` | `UseCached`, or `AskToken`, `ReceiveToken` |
| `requestToPay` | `Send`, `Return`; `RefuseNumber` when `sanitizePhoneNumber` throws |
| `handleMoMoError`, the axios timeout | `Fail` |
| MTN | `IssueToken`, `Answer` (external) |
| `Date.now()`, the passing of time | `Tick` |
| a new process | `Restart` |

Time is what is left of each span: `fresh` is `expiresAt - now` of the cache,
`valid` what MTN will still honour, `timer` what is left of the 30 s timeout. The
gap between `fresh` and `valid` is the point: the lifetime starts when MTN issues
the token, and the client counts it from the arrival of the answer. `expiresIn` is
what the answer says: the lifetime, or nothing (`Untold`), for which the client
takes `DefaultLifetime` (`expires_in || 3600`). MTN is assumed to leave it out only
for tokens that live at least that long.

### Users and sites

| code | model |
|---|---|
| `register` and its variants | `BeginRegister`, `SendCredentials`, `CreateUser`, `WriteFlag` |
| `getProfileCompleteness` | `BeginProfile`, `WriteFlag` |
| `update` | `BeginUpdate`, `WriteUpdate`, `WriteFlag` |
| `remove` | `BeginRemove`, `Remove` (one transaction) |
| `SitesService.create` / `update` / `remove` | `CreateSite`, `UpdateSite`, `BeginRemoveSite`, `RemoveSite` |
| `createVendorRequest`, `replyToVendorRequest` | `CreateVendorRequest`; `BeginReply`, `RecordReply`, `SendReply` |

An address stands for the email and phone of an account, which are unique among
all rows, the deleted ones too (`Vacant`). `SendCredentials` stands for
`sendPasswordEmail`, which returns also when mail is disabled and swallows what
goes wrong (`mail.service.ts:43-46, 184-186`): whether the password was mailed makes
no difference to what follows and is not kept. `replyMessage` of a vendor request
holds the last reply; an earlier one is overwritten. Sites take any account for a
manager that no other site has (`MayManage`: the foreign key and the unique index;
the service checks nothing). `alone` is history: the slot whose handler nothing has
overlapped since it began.

### Sessions

`login`, `verifyOtp`, `resendOtp`, `requestPasswordReset`, `resetPassword` and
`refreshTokens` make one database call after the other, and each call is an
action: the slot holds which call comes next (`Ops`). `session` is whether
`users.refreshToken` is set. It is a Boolean because bcrypt reads 72 bytes at
most and the refresh tokens of one account agree in those, so the comparison in
`refreshTokens` tells a logged-in account from one that is not, and no more.
`closed` is history: accounts whose session ended while nobody who had passed
the checks was still to store a token. `RemoveUser` and `Switch` are the parts
of Users and Sites that end or lock an account.

### Reports (EXTENDS Payments)

A report is read query by query (`ReadQuery`, `ReadData`, `ReadTotal`), in any
order within one `Promise.all` (`Together`) and after it (`Afterwards`), while
the handlers of Payments step between the queries. `TurnPage` is the client who
follows `totalPages`. `PagesOf` is what `skip` and `take` may cut out of the ordered
list: invoices with the same `dueDate` and `createdAt` share a `Place`, and the
database may return them in any order, so that a page holds as many of a place
as it has of the `Ranks` of it. `listed` counts how often the client has seen each
invoice. Invoices are generated while a report is made (`GenerateInvoice`), with
whatever due date the caller gave; `issued` is which there were when the client
began to turn the pages. For all sites the first `Promise.all` asks for the
balances as well, by status.

## 3. What the runs check

| run | instance | shows |
|---|---|---|
| inventory_overlap | 2 slots, 1 product and an id to create, 2 rooms of 2 sites, the manager of one site, every stock handler, rooms resized, moved and removed, weights overwritten, 2 movements | types; `RoomLedger`; `SitesApart`: no column of a product or room of the other site changes |
| inventory_serial | 1 slot, the administrator, 3 movements, every product and movement handler, rooms removed but not resized or moved, no overwritten weights | `ProductLedger`, `StockNonNegative`, `RoomOfOwnSite`, the refinement `StockIsAtomic` |
| inventory_products | 1 slot, product and room endpoints without `recordMovement`, rooms created, resized to 2 kg, moved and removed, no overwritten weights | `RoomHoldsItsProducts`, `NoOverfill` |
| orders_safety | 2 slots, a pool of 2 connections, 1 order whose cart names one product twice with 1 kg, 2 kg in stock, movements, adjustments and updates beside it, a second room created at any time (no removals: their transaction holds a connection as that of a movement does), `FairOrdersSpec` | `RejectionIsFinal`, the refinement `StockOnlyThroughInventory`, `HandlersEnd` |
| payments_overlap | 2 slots, 1 payment of one invoice of 2, marks of 1, a user `SYSTEM`, `FairSpec` | `ApprovedIsSettled` |
| reports_serial | 1 slot, 1 payment, marks of 1, voids, the invoice of an order at one site and of a rental at another, webhooks repeated and reordered, invoices generated at any time, reports of one site, of all sites and of pages of one invoice | `NoCreditLost`, `CreditedOnce`, `NothingUnsettled`, `SettledStays` of the payments; `NothingCountedTwice`, `BreakdownCovers`, `PagesAreExact` of the reports |
| rentals_overlap | 2 slots, 3 rentals of one cold box (two approved, one still to be requested), managers and the poll, cancellations, moves and removals; no completions, voids or installments | `OneActivePerAsset`, `ActiveIsPaid`, the refinement `HandedOutAsPromised` |
| rentals_serial | 1 slot, a cold box and a cold room with 1 kg left, every kind of request, a user `SYSTEM`, `FairSpec` | `RentedWhileActive`, `RoomIsReserved`, `CancelledOwesNothing`, `PaidIsActivated` |
| numbering_overlap | 2 slots, 3 subjects of one site with three names (two of them with one prefix) and one of another site whose name gives another prefix, two years | `NumberIsFree`, `Consecutive` |
| momoclient_overlap | 2 callers, a timeout of 2 units, a margin of 4, lifetimes 5, 6 and 7, told or left to the default of 6, `FairSpec` | `TokenIsHonoured`, `CallsEnd` |
| users_overlap | 2 slots, the administrator and one address, one site, registrations as manager, as client and as business, updates of role, names and password, one vendor request | `AccountsAreKept`, `FlagIsRepaired`, `CompleteMissesNothing` |
| sessions_overlap | 2 slots, a client who logs in with a password and a manager who needs a code, 2 codes each | `SpentIsGone`, `ClosedStaysClosed` |

Two slots are enough for a race of two handlers, which all the races found are;
the proofs cover any number for the properties that are proved. The serial runs
say what the handlers guarantee when they do not overlap, so that the overlap
is the reason when the same property fails. In momoclient_overlap the margin is
two timeouts, as 60 s and 30 s in the code; the lifetimes leave one to three units
of freshness, so that tokens are reused and expire in use.

`CHECK_DEADLOCK FALSE` stands where the system may come to rest: payments that
are all answered and settled, no order left to handle, no movement left below
the bound, every rental closed and every asset removed, every account removed.

Some properties are about less than everything the code may be asked to do; the
comment of each says so. What lies outside is among the disagreements below:
overwritten weights (`ProductLedger`, `RoomHoldsItsProducts`), rooms moved to another
site (`RoomOfOwnSite`), completions that overlap (`OneActivePerAsset`,
`HandedOutAsPromised`), a database without a user `SYSTEM` (`ApprovedIsSettled`,
`PaidIsActivated`), early webhooks (`ApprovedIsSettled`), sites whose names start alike
(`NumberIsFree`, `Consecutive`), an invoice generated between two pages
(`PagesAreExact`), and for the serial runs every overlap.

### Disagreements the models contain

Each of these is a behaviour of the modules above, seen while they were built;
no run of its own keeps it.

- With the repository's `schema.prisma` (`RoomStatusVisible = FALSE`) no
  addition to stock is ever accepted: `products.service.ts:46, 207, 278` reads
  a field the Prisma client does not have.
- `adjustStock` writes `quantityKg` as an absolute value computed from a read
  without a lock (`products.service.ts:259, 291`), although
  `products.controller.ts:127` says that it "updates product quantity
  atomically": of two overlapping adjustments one is lost while both movement
  rows stay. `ProductLedger` is therefore checked with one slot only; two slots
  violate it. Two that overlap may both find the space left in a room as well
  (`products.service.ts:284`), as may two creations (52): `NoOverfill` too is checked
  with one slot.
- A PATCH of a product that names `quantityKg` replaces the weight and writes no
  movement row (`products.service.ts:218-226`), and the counter of the room does not
  follow; a move in the same body shifts the old weight.
- `ColdRoomService.update` moves a room to another site
  (`cold-rooms.service.ts:117`) and leaves its products at the old one, although
  `products.service.ts:41` ensures "the cold room actually belongs to the site
  assigned to the product". It resizes a room below what is stored in it, and
  `remove` deletes one that is not empty.
- `recordMovement` looks at no capacity and lets a movement name another room
  than the product's: a room can be overfull, and another one's counter negative.
- Two overlapping updates of a product, one to another site and room, one that names a
  room of the old site, both pass the check of `products.service.ts:193` and leave
  the product in a room of a site it is not of.
- Two overlapping reversals both pass the check that stock suffices
  (`stock-movements.service.ts`, `revertMovement`) and the relative decrement
  takes stock below zero; this is why `StockStaysNonNegative` assumes that
  nobody reverts.
- No approval of an order succeeds (see Orders above), and the stock it has
  withdrawn stays withdrawn: `invoice-integration.interface.ts:42` says "If
  invoice generation fails, rollback stock reservation". An approval that has
  timed out goes on withdrawing the items that are left.
- A rejection and a deletion that overlap leave a deleted order REJECTED:
  "Only REQUESTED orders can be deleted" (`orders.service.ts:292`).
- Two overlapping `markPaid` lose one credit, although the method "updates paidAmount
  and status atomically" (`invoices.service.ts:490`). `voidInvoice` overlapping
  `markPaid` voids a paid invoice, although "only unpaid invoices can be voided"
  (558). A late webhook takes an invoice out of VOID, also one request at a time,
  although a void "cannot be undone" (557).
- Two overlapping deliveries of one webhook both pass the check that
  `payments.service.ts` marks "(idempotency)" and credit the invoice twice; with
  one request at a time `CreditedOnce` holds.
- `markPaidManually` commits the payment as PAID before `markPaid` refuses a
  voided invoice (`payments.service.ts:303-317`): the payment stays PAID, was
  never credited, and a second attempt is refused.
- A webhook that comes between `requestToPay` and the creation of the payment
  row (`payments.service.ts:65-73`) finds no payment, is answered with HTTP 200,
  "Webhook processed successfully", and is never repeated.
- No approval of a rental succeeds (see Rentals above).
- `complete` checks the status and updates by id: of two completions that
  overlap, the second frees the asset and the room once more, after they may
  have been handed out again, and two rentals of one asset run. This is why the
  `Kinds` of rentals_overlap have no "complete", and why `HandedOutToOne` assumes that.
- A cancellation that overlaps an activation (`rentals.service.ts:758`, by id)
  leaves the asset RENTED by a cancelled rental; no endpoint of rentals frees it.
- An invoice generated while its rental is being cancelled stays UNPAID.
- Two sites whose names agree after `toUpperCase` and the replacement of blanks
  share a prefix, and `sites.name` is not unique. The second of them looks for
  its own last invoice only (`invoices.service.ts:463`), finds none, and asks for
  number 1, which the unique index refuses, this time and every time.
- The ids of the migrations are TEXT (`SiteIdIsUuid = FALSE`): the query that
  locks the site then compares text with uuid, for which PostgreSQL has no
  operator, and no invoice is ever generated.
- A void or an installment that overlaps a payment takes the invoice of a
  running rental back out of PAID.
- `payments.service.ts:253` names a user `SYSTEM` in the audit row; unless such
  a row exists (`SystemUserRow`), the foreign key fails the whole transaction
  and no webhook is ever processed; no migration, seed or module creates one. The poll of rentals fails in the same way,
  and paid rentals are activated only by managers.
- A 401 of MTN leaves the rejected token in the cache: until its margin is
  reached every payment is refused.
- The amounts in the summary of the report of unpaid invoices are those of the
  page, beside the number of all of them (`reports.service.ts:350-361`). Sites that are deleted are in the total of the
  aggregated report and in no row of its breakdown, which is why
  `BreakdownCovers` is about live sites. The report of all sites asks for
  revenue and outstanding amounts in one `Promise.all`, so an invoice paid
  meanwhile may be in both; `NothingCountedTwice` is about one site.
- An invoice generated while a client turns the pages, with an earlier due date,
  moves the others on, and one is listed twice; invoices with both dates in common
  have no order (`reports.service.ts:297-308`).
- Removing a second SITE_MANAGER of a site clears the link to the first one.
  `managerId` is assigned without a look at the account (`sites.service.ts:17, 44`),
  so that a removed account may manage a site; the removal of a site
  that had no manager when it was read leaves a manager appointed meanwhile
  active.
- `register` goes on when the mail with a generated password was skipped or failed
  (`users.service.ts:85`): the account has a password nobody was told. A second reply
  to a vendor request overwrites the first (332).
- The address of a removed account is free for `register` and taken for the
  unique index: the mail with the password goes out, and the row is refused.
- Overlapping updates leave `isProfileComplete` of a row that was replaced, until
  the profile is read; an update that overlaps a removal may set `isActive` on
  the removed row. `register/vendor` has no creator and is refused for want of
  one, always.
- A refresh, or a login that has passed its checks, that overlaps a logout, a
  reset or a removal opens the session again. Two overlapping `verifyOtp` may
  both log in with one code. A reset that stops before its last call leaves its
  code usable.
- Seeding a database in use sets the status of assets and `usedCapacityKg` back;
  a site that was renamed is seeded once more; the first account seeded as
  "super admin" has the role SUPPLIER (`seeder/seeder.service.ts:47-60`).

## 4. Fairness

- `FairOrdersSpec`: strong fairness, per slot, of the next step of its order handler
  (`Continue`, and `OpenTransaction` for a movement of an approval), or of the end of
  the transaction of its stock handler (`Resume`). The event loop resumes a handler
  whose database call has returned; the timer of an interactive transaction fires,
  also for those of stock, whose `RollBackStock` it is; the pool hands connections to
  those who wait in order, and PostgreSQL row locks likewise, so handlers that come
  later cannot starve one that waits. It has to be strong because other handlers
  take and return connections while one waits. Nothing is assumed of stock handlers
  that are not in a transaction.
- `FairSpec` of Payments: handlers end (weak fairness, `Abandon` included). The
  strong fairness of `BeginReconcile`, `LockAndRead`, `Reconcile` and of new
  deliveries of an unacknowledged answer are assumptions about the outside:
  MTN repeats an answer until it gets HTTP 200, and a transaction that is tried
  again and again goes through in the end. Nothing is assumed of managers.
- `FairSpec` of Rentals: handlers end (weak fairness of `Commit` or `RollBack`).
  `setInterval` runs the poll every 60 s, it selects every paid APPROVED rental
  and goes on when one fails, so each of them is begun again and again (strong
  fairness of `BeginActivate(q, r, TRUE)` per rental); an activation that is
  begun again and again and could commit does so in the end (strong fairness of
  `Activate` per rental). Nothing is assumed of clients, managers or payers.
- `FairSpec` of MomoClient: time passes (weak fairness of `Tick`, which waits for
  timeouts that are due) and a timeout that is due fires (weak fairness of
  `Fail` at 0). Nothing is assumed of MTN, which may never answer.

## 5. What is proved

With TLAPS, for every value of the constants that meets the named assumptions
(`SetsAssumption`, `WeightsAssumption`, `SeedAssumption`, `OrdersAssumption`,
`PaymentsAssumption`, `RentalsAssumption`, `PeriodsAssumption`,
`NumberingAssumption`, `MomoAssumption`, `UsersAssumption`, `SessionsAssumption`,
`ReportsAssumption`). `Stock_proofs` is about Inventory and Orders,
`Payments_proofs` about Payments and Reports:

| theorem | statement | argument |
|---|---|---|
| `Stock_proofs!TypeCorrect` | `Spec => []TypeOK` | inductive as it stands, one lemma per action |
| `Stock_proofs!RoomLedgerHolds` | `Spec => []RoomLedger` | `LedgerInv` adds `TypeOK` and that the seeded rooms exist, without which the opening weight of a room created later would be counted |
| `Stock_proofs!StockStaysNonNegative` | `"revert" \notin Kinds`: `Spec => []StockNonNegative` | `StockInv` adds `PendingWritesFit`: the value a slot is going to write is not negative. It is made of what the slot itself read, so no other handler can spoil it: this is why stale absolute writes lose updates but never go negative, and why relative decrements (reversals) do |
| `Stock_proofs!SitesStayApart` | `Admin \notin Callers`: `Spec => SitesApart`, for every column: weight, status, room, site and life of a product, counter, capacity, site and life of a room | `ApartInv`: products of callers stand in rooms of callers, movement rows are of their products and rooms, and what a slot is going to write is theirs. Rooms and products never leave the sites of callers, so what a handler read of an owner earlier is as good as what it would read at the commit |
| `Stock_proofs!ProductsStayAtHome` | one slot (`OneRequest`), `"roomUpdate" \notin Kinds`, seeded products in seeded rooms: `Spec => []RoomOfOwnSite` | `HousedInv` adds that the room and the site a slot is going to write fit each other. An update of a room that changes its site would take its products along without theirs, hence the second assumption |
| `Stock_proofs!SerialStockNonNegative` | `OneRequest`: `Spec => []StockNonNegative`, reversals included | `FreshInv`: what the slot has read of its product, its room and the movement is so still, and what it has checked of them holds at the write |
| `Stock_proofs!StockIsSerial` | `OneRequest`: `Spec => StockIsAtomic` | with `FreshInv` each commit is an operation of `Ledger` and every begin, roll back and room endpoint a stutter or `ManageRoom` |
| `Stock_proofs!ProductLedgerHolds` | `OneRequest`, `NoOverwriting`: `Spec => []ProductLedger` | every operation of `Ledger` but an overwriting `Update` leaves `UnexplainedQty` as it was. `NoOverwriting`: a weight written through PATCH is booked in no row |
| `Stock_proofs!RoomsHoldTheirProducts` | `OneRequest`, finitely many products, `ProductsOnly`, `NoOverwriting`, `SeededRoomsHold`: `Spec => []RoomHoldsItsProducts` | `HoldInv` is `FreshInv` and that each room counts the sum over *all* products of what they weigh in it; an operation changes one summand, or moves it from one sum to another. `ProductsOnly`: a recorded movement may name another room than the product's. `SeededRoomsHold` is what `prisma/seed.ts:454, 459` sets up |
| `Stock_proofs!NoRoomIsOverfilled` | `OneRequest`, `ProductsOnly`: `Spec => NoOverfill`, weights overwritten and rooms resized included | a step property from `FreshInv`: a commit that raises a counter is an operation of `Ledger`, whose weight was checked against the space its room still has (`FillsWithinCapacity`) |
| `Payments_proofs!TypeCorrect` | `Spec => []PaymentsTypeOK` | inductive |
| `Payments_proofs!StatusAgrees` | `Spec => []StatusAgreesWithAmount` | both columns are written together from one read; voiding leaves the amount |
| `Payments_proofs!CreditsAddUp`, `NoneIsCreditedTwice` | `OneRequest`: `Spec => []NoCreditLost`, `[]CreditedOnce` | `SerialInv`: what a handler has read still holds when it writes (`SlotFits`), and only payments that are PAID were credited (`CreditedWhenPaid`), so that the status a handler finds tells whether there is still something to credit |
| `Payments_proofs!SettledForGood` | `OneRequest`: `Spec => SettledStays` | an action property from `SerialInv`: refusals and new attempts in flight concern payments that are not PAID |
| `Payments_proofs!InvoicesSettleForGood` | `OneRequest`: `Spec => NothingUnsettled` | `SettleInv` adds `AmountsCover` and `SlotCovers`: a request for money asks for all that is left, and what is paid only grows, so that its payment settles the invoice whenever it comes. This is what keeps a late webhook from turning a voided invoice into an UNPAID one: it makes it PAID |
| `Payments_proofs!ReportsTypeCorrect` | `OneRequest`, finitely many invoices: `ReportsSpec => []ReportsTypeOK` | inductive with `SettleInv`, which makes the answers whole numbers |
| `Payments_proofs!RevenueIsNotOwed` | `OneRequest`, finitely many invoices: `ReportsSpec => []NothingCountedTwice` | `MadeOfSite`: each revenue read is at most what it would be now, since PAID stays PAID; when the balances are read, PAID and UNPAID invoices are apart, so that the three figures fit in the total of the site, which no step changes |
| `Payments_proofs!SitesCoverTheTotal` | the same, finitely many sites: `ReportsSpec => []BreakdownCovers` | `MadeOfAll`: for each figure there is a set of invoices, still PAID, that the answer for all sites is the sum of, and a site asked later has at least its share; the shares of a finite set add up to it (`SumOfShares`) |
| `Payments_proofs!PagesListEachOnce` | `OneRequest`, finitely many invoices: `ReportsSpec => []PagesAreExact` | `PagesInv`: while no invoice was generated since the first page and no two share both dates (`Undisturbed`), the unpaid ones only get fewer (`NothingUnsettled`), so ranks only fall, and what was on a page stays above its end. When none was paid they are all the invoices up to the page, and the total is their number |
| `Stock_proofs!OrdersTypeCorrect` | `OrdersSpec => []OrdersTypeOK` | inductive |
| `Stock_proofs!OrdersImplementInventory` | `OrdersSpec => StockOnlyThroughInventory` | every step is a step of Inventory or stutters; uses that ordered weights are positive |
| `Stock_proofs!OrdersKeepRoomLedger`, `OrdersKeepStockNonNegative` | the two invariants under Orders | carried over by the refinement |
| `Stock_proofs!OrdersKeepSitesApart` | positive ordered weights, `Admin \notin Callers`: `OrdersSpec => SitesApart` | carried over by the refinement |
| `Stock_proofs!OrdersKeepProductLedger`, `OrdersAreSeriesOfMovements` | `OneRequest`, positive ordered weights, and for the first `NoOverwriting`: `OrdersSpec => []ProductLedger`, `OrdersSpec => StockIsAtomic` | composed of two refinements: an approval, whole or broken off after some items, is a series of operations of `Ledger` |
| `Stock_proofs!RejectionsAreFinal` | positive ordered weights (`OrderedWeightsMove`): `OrdersSpec => RejectionIsFinal` | `NeverApproved`: the invoice is generated from the committed status, which is never APPROVED, so that no approval writes one over a rejection; rows are created only where there is none |
| `Rentals_proofs!TypeCorrect` | `Spec => []RentalsTypeOK` | inductive |
| `Rentals_proofs!HandedOutToOne` | `"complete" \notin Kinds`: `Spec => []OneActivePerAsset` | `HandedOutOnce` adds that the asset of a running rental is RENTED, which is what a second activation finds once it has the lock, and that no completion is in flight, since those free assets by id |
| `Rentals_proofs!HandoutsImplemented` | `"complete" \notin Kinds`: `Spec => HandedOutAsPromised` | the initial states map to the initial state, and each commit is a `HandOut`, a `Close`, an `Overrule` or a stutter. `HandedOutOnce` gives that nobody holds what is handed out; `CreatesNew` adds that a handler about to insert a rental holds one without a row, which no other slot holds, so that nothing that is over is requested again |
| `Rentals_proofs!ActiveRentalsArePaid` | neither "void" nor "installments" in `Kinds`: `Spec => []ActiveIsPaid` | `PaidWhenActive` adds that what an activation in flight has read of the invoice still holds, or its rental is no longer APPROVED: only a cancellation takes a paid invoice back, and it closes the rental in the same commit. `WholeCredits` says that no other slot is going to |
| `Rentals_proofs!AssetsAreGivenBack`, `CancelledIsSettled` | `OneRequest`: `Spec => []RentedWhileActive`, `[]CancelledOwesNothing` | `SerialInv`: what a handler has found still holds when it writes, and one rental at most runs on an asset, so that the asset a completion frees is nobody else's |
| `Rentals_proofs!RoomStaysReserved` | `OneRequest`, finitely many rentals: `Spec => []RoomIsReserved` | `SerialInv` and the sum itself: an activation adds one summand, a completion takes one away, and a completion in flight has found its rental ACTIVE still |
| `Rentals_proofs!RoomIsTakenOnce` | any overlap, neither "complete" nor "cancel" in `Kinds`, finitely many rentals: `Spec => []RoomIsReserved` | a running rental then never stops, and `Activate` rereads the status under its lock: the summand is added once |
| `Numbering_proofs!TypeCorrect` | `Spec => []NumberingTypeOK` | inductive |
| `Numbering_proofs!NumbersAreFree` | `PrefixesApart`: `Spec => []NumberIsFree` | `Inv` adds that two slots with numbers hold rows of different sites, that a slot's number is one more than the count of its prefix and year, and `Consecutive`, which makes every number in use at most that count. `PrefixesApart` is needed: without it the last invoice of the site is not the last of the prefix |
| `Numbering_proofs!NumbersAreConsecutive` | `PrefixesApart`: `Spec => []Consecutive` | the same invariant; a created invoice extends its prefix and year by one and leaves the others, whose sites differ, alone |
| `MomoClient_proofs!TypeCorrect` | `Spec => []MomoTypeOK` | inductive |
| `MomoClient_proofs!TokensAreHonoured` | `Spec => []TokenIsHonoured` | what the client takes for the lifetime is at most the lifetime (`ToldLife`); a cached token has a timeout more to live than it looks fresh, a token on its way to the client has lost no more than the client waited, and a token on its way to MTN outlives its request; uses that the margin is two timeouts (`MomoAssumption`) |
| `Users_proofs!TypeCorrect` | `Spec => []UsersTypeOK` | inductive |
| `Users_proofs!AccountsStay` | `Spec => AccountsAreKept` | a registration writes a row only where there is none, and the other handlers write neither home nor documents, no password but one the owner chose, and no life but `deleted` |
| `Users_proofs!ProfilesAgree` | `Spec => []CompleteMissesNothing` | the two lists agree on every well-typed row |
| `Users_proofs!FlagsAreRepaired` | `Spec => FlagIsRepaired` | a slot that is alone is the only one in flight, and the flag it is about to write is that of the row |
| `Sessions_proofs!TypeCorrect` | `Spec => []SessionsTypeOK` | inductive |
| `Sessions_proofs!SpentCodesAreGone` | `Spec => []SpentIsGone` | a code in the slot of a handler about to store a token is stored no longer, and codes are numbered on: none comes back |
| `Sessions_proofs!ClosedSessionsStayClosed` | `Spec => []ClosedStaysClosed` | `ClosedInv` adds that no handler is about to store a token for a closed account; a refresh begins only where a session is, and so not there |

`OneRequest` says that `Requests` has one element. Under overlap these properties
do not hold (the races are among the disagreements of section 3); the theorems say
that the overlap is all that breaks them, for any data and any length of history.

Sums. `SumFunctionOnSet` is a fold over a set chosen in some order, and the
induction theorems of the library take operators the provers cannot
instantiate. `Sums` proves what the theorems above need (a sum splits, changes
with one summand, is monotone, is the sum of its shares) by a least
counterexample: the subsets of a finite set for which a fact fails have a least
one (`LeastSubset`, from the well-foundedness of the strict subset relation), and
taking an element out of it contradicts that. The sets summed over have to be
finite, which tables are; the constants are not assumed finite elsewhere.

Only model-checked: liveness, for which the prover has no rule here
(`HandlersEnd`, `ApprovedIsSettled`, `PaidIsActivated`, `CallsEnd`). Every other
property of a run is the statement of a theorem. `StatusAgreesWithAmount` is the
other way about: proved, for any overlap, and in no run.

## 6. What is not modelled, and the plan

Not modelled:

- Cold assets: the creation of an asset, which has no rentals yet.
- Orders: `updateStatus` (`orders.service.ts:414-455`), which no controller and no
  service calls.
- Mail and uploads: I/O without state. Mails whose order with a write matters
  are steps of Users (`SendCredentials`, `SendReply`); what an upload takes is the
  window between the read and the commit of a handler.
- Audit log: rows are appended and never read back by a handler; where a foreign
  key of such a row fails a transaction it is a constant (`SystemUserRow`).
- Guards, filters, configuration: stateless. The role, site and account checks
  that decide a step are guards of the actions.
- Seeding: a script that runs alone; its rows are `Init`.
- Passwords, token signatures, webhook signatures and the content of documents:
  data that decide whether a request is refused, and nothing else.

What the next steps are, in order of weight:

1. An abstract account per invoice for Payments, in the way of `Ledger` for stock
   and `Handouts` for rentals.
2. The overlaps that leave a property standing: which pairs of handlers may
   overlap in `ProductLedger` and in `CreditedOnce`, in place of `OneRequest`.
3. Larger instances: two orders over one product beside a third slot.
