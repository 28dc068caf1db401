------------------------------ MODULE Reports ------------------------------
(***************************************************************************)
(* The reports of reports.service.ts beside the payments that change what  *)
(* they count.                                                             *)
(*                                                                         *)
(* A report is not a snapshot: its queries run on connections of their     *)
(* own, in any order within one Promise.all, and payments commit between   *)
(* them, and so may new invoices be generated.  The period of a report is  *)
(* the caller's; it has not ended when a report is made of today.          *)
(***************************************************************************)
EXTENDS Payments

CONSTANTS
    Sites,
    AllSites,       \* a report of no site in particular
    SiteOf,         \* invoice -> siteId
    OrderInvoices,  \* the invoices of orders; the others are of rentals
    LiveSites,      \* the sites whose deletedAt is null
    Place,          \* invoice -> its place by dueDate, then createdAt descending;
                    \* invoices with both in common share one
    PageSize        \* limit of the report of unpaid invoices

ASSUME ReportsAssumption ==
    /\ SiteOf \in [Invoices -> Sites]
    /\ OrderInvoices \subseteq Invoices
    /\ AllSites \notin Sites /\ LiveSites \subseteq Sites
    /\ Place \in [Invoices -> Nat]
    /\ PageSize \in Nat \ {0}

VARIABLE report   \* the report in the making, or delivered

reportsVars == <<vars, report>>

Scopes   == Sites \cup {AllSites}
Queries  == {"productSales", "rentalIncome", "unpaidBalances"}
Asked    == Scopes \X Queries

\* A report of revenue, and a client who turns the pages of the unpaid invoices:
\* what has been read, with the answers of the revenue queries, or with the
\* page, the total, and how often the client has seen each invoice.
NoReport    == [kind |-> "none"]
RevenueMade == [kind: {"revenue", "delivered"}, scope: Scopes,
                read: SUBSET Asked, answers: [Asked -> Int]]
PagesTurned == [kind: {"pages", "last"}, scope: Scopes, page: Nat \ {0},
                read: SUBSET {"data", "total"}, total: Nat,
                listed: [Invoices -> Nat], began: SUBSET Invoices,
                issued: SUBSET Invoices]

ReportsTypeOK == report \in {NoReport} \cup RevenueMade \cup PagesTurned

ReportsInit == Init /\ report = NoReport

-----------------------------------------------------------------------------
(* getRevenueReport *)

Of(scope, status) ==
    {i \in Invoices : invStatus[i] = status /\ scope \in {SiteOf[i], AllSites}}

TotalOf(S) == SumFunctionOnSet(Total, S)
Balance(S) == TotalOf(S) - SumFunctionOnSet(paid, S)

Answer(scope, query) ==
    CASE query = "productSales" -> TotalOf(Of(scope, "PAID") \cap OrderInvoices)
      [] query = "rentalIncome" -> TotalOf(Of(scope, "PAID") \ OrderInvoices)
      [] query = "unpaidBalances" -> Balance(Of(scope, "UNPAID"))

SalesOf(scopes) == scopes \X {"productSales", "rentalIncome"}

\* Fault: everything is asked at once.
TogetherAll(scope) ==
    IF scope = AllSites THEN SalesOf({AllSites} \cup LiveSites)
    ELSE {scope} \X Queries

\* The queries of the first Promise.all; of all sites they include the balances,
\* as sums by status.  The numbers of invoices and the amounts paid are asked
\* for with them, and are left out.
Together(scope) ==
    SalesOf({scope}) \cup (IF scope = AllSites THEN {<<AllSites, "unpaidBalances">>} ELSE {})

\* What is asked when all of those are answered: the figures of every site, or
\* the outstanding balances of the one site.
Afterwards(scope) ==
    IF scope = AllSites THEN SalesOf(LiveSites) ELSE {<<scope, "unpaidBalances">>}

AskRevenue ==
    /\ report = NoReport
    /\ \E scope \in Scopes :
        report' = [kind |-> "revenue", scope |-> scope, read |-> {},
                   answers |-> [q \in Asked |-> 0]]

ReadQuery ==
    /\ report.kind = "revenue"
    /\ \E q \in Together(report.scope) \cup Afterwards(report.scope) :
        /\ q \notin report.read
        /\ q \in Together(report.scope) \/ Together(report.scope) \subseteq report.read
        /\ report' = [report EXCEPT !.read = @ \cup {q},
                                    !.answers[q] = Answer(q[1], q[2])]

DeliverRevenue ==
    /\ report.kind = "revenue"
    /\ Together(report.scope) \cup Afterwards(report.scope) = report.read
    /\ report' = [report EXCEPT !.kind = "delivered"]

-----------------------------------------------------------------------------
(* getUnpaidInvoicesReport *)

\* Fault: the pages overlap.
SkipTooFew(page) == (page - 1) * (PageSize - 1)
Skip(page) == (page - 1) * PageSize

\* The ranks from 1 on that an invoice of S may have: those of all the invoices
\* of S in its place.
Ranks(S, i) ==
    Cardinality({j \in S : Place[j] < Place[i]}) + 1
        .. Cardinality({j \in S : Place[j] <= Place[i]})

\* findMany with orderBy, skip and take: the page gets as many of the invoices
\* of a place as it has of their ranks, whichever the database comes upon first.
PagesOf(S, page) ==
    {P \in SUBSET S : \A i \in S :
        Cardinality({j \in P : Place[j] = Place[i]})
            = Cardinality(Ranks(S, i) \cap (Skip(page) + 1 .. Skip(page) + PageSize))}

Issued == {i \in Invoices : invStatus[i] # "none"}

AskUnpaid ==
    /\ report = NoReport
    /\ \E scope \in Scopes :
        report' = [kind |-> "pages", scope |-> scope, page |-> 1, read |-> {}, total |-> 0,
                   listed |-> [i \in Invoices |-> 0], began |-> Of(scope, "UNPAID"),
                   issued |-> Issued]

ReadData ==
    /\ report.kind = "pages" /\ "data" \notin report.read
    /\ \E page \in PagesOf(Of(report.scope, "UNPAID"), report.page) :
        report' = [report EXCEPT !.read = @ \cup {"data"},
            !.listed = [i \in Invoices |-> @[i] + (IF i \in page THEN 1 ELSE 0)]]

ReadTotal ==
    /\ report.kind = "pages" /\ "total" \notin report.read
    /\ report' = [report EXCEPT !.read = @ \cup {"total"},
                    !.total = Cardinality(Of(report.scope, "UNPAID"))]

\* totalPages tells the client whether there is another page.
TurnPage ==
    /\ report.kind = "pages" /\ report.read = {"data", "total"}
    /\ IF report.page * PageSize < report.total
       THEN report' = [report EXCEPT !.page = @ + 1, !.read = {}]
       ELSE report' = [report EXCEPT !.kind = "last"]

Close == report.kind \in {"delivered", "last"} /\ report' = NoReport

-----------------------------------------------------------------------------

Report ==
    /\ \/ AskRevenue \/ ReadQuery \/ DeliverRevenue
       \/ AskUnpaid \/ ReadData \/ ReadTotal \/ TurnPage
       \/ Close
    /\ UNCHANGED vars

ReportsNext == Report \/ (Next /\ UNCHANGED report)

ReportsSpec == ReportsInit /\ [][ReportsNext]_reportsVars

-----------------------------------------------------------------------------
(* Properties, of payments that do not overlap *)

TotalRevenue(scope) ==
    report.answers[<<scope, "productSales">>] + report.answers[<<scope, "rentalIncome">>]

\* No invoice is both revenue and outstanding in the report of a site, although
\* it may be paid while the report is made: what is outstanding is read last
\* (reports.service.ts:114).
NothingCountedTwice ==
    report.kind = "delivered" /\ report.scope # AllSites =>
        TotalRevenue(report.scope) + report.answers[<<report.scope, "unpaidBalances">>]
            <= TotalOf({i \in Invoices : SiteOf[i] = report.scope})

\* The sites together have no less revenue than the report of all of them says,
\* when no site is deleted: they are asked later (reports.service.ts:198).
BreakdownCovers ==
    report.kind = "delivered" /\ report.scope = AllSites /\ LiveSites = Sites =>
        SumFunctionOnSet([s \in Sites |-> TotalRevenue(s)], Sites) >= TotalRevenue(AllSites)

\* A client who turns all pages sees no invoice twice, although payments move
\* the later ones to earlier pages; and every one of them, when none was paid
\* or voided meanwhile (reports.service.ts:285-321).  So it is as long as no
\* invoice was generated since the first page, which moves others to later
\* pages, and no two have both dates in common, which leaves their order to the
\* database.
PagesAreExact ==
    report.kind = "last" /\ Issued = report.issued
        /\ (\A i, j \in Issued : Place[i] = Place[j] => i = j) =>
        /\ \A i \in Invoices : report.listed[i] <= 1
        /\ Of(report.scope, "UNPAID") = report.began =>
             {i \in Invoices : report.listed[i] > 0} = report.began

=============================================================================
