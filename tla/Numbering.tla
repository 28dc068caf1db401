----------------------------- MODULE Numbering -----------------------------
(***************************************************************************)
(* Invoice numbers: generateInvoiceNumberSafe of invoices.service.ts,      *)
(* which generateOrderInvoice and generateRentalInvoice call in their      *)
(* transactions, beside administrators who rename sites.                   *)
(*                                                                         *)
(* The transaction locks the row of the site, looks for the invoice of the *)
(* site created last whose number has the prefix of today, adds one, and   *)
(* creates the invoice before it commits and the lock is given back.       *)
(***************************************************************************)
EXTENDS Integers, FiniteSets

CONSTANTS
    Subjects,       \* the orders and rentals to be invoiced
    Sites,
    SiteOf,         \* subject -> siteId
    Names,          \* the names sites are given
    Prefix,         \* name -> the name in capitals with "_" for blanks
    NamesOf,        \* site -> the names an administrator gives it
    Requests,       \* request slots: how many handlers overlap
    FirstYear, LastYear,    \* the years the model looks at
    SiteIdIsUuid    \* sites.id has the type the query casts to

Prefixes == {Prefix[n] : n \in Names}
Years    == FirstYear .. LastYear

ASSUME NumberingAssumption ==
    /\ SiteOf \in [Subjects -> Sites]
    /\ Names = DOMAIN Prefix
    /\ NamesOf \in [Sites -> SUBSET Names]
    /\ FirstYear \in Nat /\ LastYear \in Nat /\ FirstYear <= LastYear
    /\ SiteIdIsUuid \in BOOLEAN

VARIABLES
    invoices,   \* the committed rows of invoices
    siteName,   \* sites.name
    year,       \* new Date().getFullYear()
    clock,      \* the createdAt of the latest row: every row has its own
    requests    \* what each handler in flight has read

vars == <<invoices, siteName, year, clock, requests>>

Number  == [prefix: Prefixes, year: Years, sequence: Nat \ {0}]
Invoice == [subject: Subjects, site: Sites, number: Number, createdAt: Nat]

Idle    == [kind |-> "idle"]
CheckedReq  == [kind: {"checked"}, subject: Subjects]
NumberedReq == [kind: {"numbered"}, subject: Subjects, number: Number]
Request == {Idle} \cup CheckedReq \cup NumberedReq

NumberingTypeOK ==
    /\ invoices \in SUBSET Invoice
    /\ siteName \in [Sites -> Names]
    /\ year \in Years
    /\ clock \in Nat
    /\ requests \in [Requests -> Request]

Init ==
    /\ invoices = {}
    /\ siteName \in [Sites -> Names]
    /\ \A s \in Sites : siteName[s] \in NamesOf[s]
    /\ year = FirstYear
    /\ clock = 0
    /\ requests = [q \in Requests |-> Idle]

-----------------------------------------------------------------------------

Invoiced(x) == \E i \in invoices : i.subject = x

\* Fault: nobody waits for the lock.
RowFreeAlways(s) == TRUE

\* The row of a site is locked from the SELECT ... FOR UPDATE to the commit.
RowFree(s) ==
    \A q \in Requests :
        requests[q].kind = "numbered" => SiteOf[requests[q].subject] # s

\* The checks of the two generators, before the number is asked for.
BeginGenerate(q, x) ==
    /\ requests[q] = Idle
    /\ ~Invoiced(x)
    /\ requests' = [requests EXCEPT ![q] = [kind |-> "checked", subject |-> x]]
    /\ UNCHANGED <<invoices, siteName, year, clock>>

\* Fault: the invoices of the site whatever their prefix.
SeriesOfSite(s, prefix, y) == {i \in invoices : i.site = s /\ i.number.year = y}

\* The invoices of the site whose numbers start with INV-<name>-<year>-.
Series(s, prefix, y) ==
    {i \in invoices : i.site = s /\ i.number.prefix = prefix /\ i.number.year = y}

IsLast(i, series) == i \in series /\ \A j \in series : j.createdAt <= i.createdAt

NumberOf(s, k) == [prefix |-> Prefix[siteName[s]], year |-> year, sequence |-> k]

Use(q, n) ==
    requests' = [requests EXCEPT ![q] =
        [kind |-> "numbered", subject |-> requests[q].subject, number |-> n]]

\* Waits for the row of the site, and then sees every invoice of it.
TakeNumber(q) ==
    LET s == SiteOf[requests[q].subject]
        series == Series(s, Prefix[siteName[s]], year) IN
    /\ requests[q].kind = "checked"
    /\ SiteIdIsUuid
    /\ RowFree(s)
    /\ \/ series = {} /\ Use(q, NumberOf(s, 1))
       \/ \E i \in series : IsLast(i, series)
                              /\ Use(q, NumberOf(s, i.number.sequence + 1))
    /\ UNCHANGED <<invoices, siteName, year, clock>>

\* invoice.create, with the unique indexes on invoiceNumber, orderId and
\* rentalId, and the commit.
Taken(n) == \E i \in invoices : i.number = n

CreateInvoice(q) ==
    LET x == requests[q].subject
        n == requests[q].number IN
    /\ requests[q].kind = "numbered"
    /\ ~Taken(n) /\ ~Invoiced(x)
    /\ clock' = clock + 1
    /\ invoices' = invoices \cup
          {[subject |-> x, site |-> SiteOf[x], number |-> n, createdAt |-> clock + 1]}
    /\ requests' = [requests EXCEPT ![q] = Idle]
    /\ UNCHANGED <<siteName, year>>

\* A unique index refuses the row, the transaction times out, or the process
\* stops: nothing of it stays.
RollBack(q) ==
    /\ requests[q] # Idle
    /\ requests' = [requests EXCEPT ![q] = Idle]
    /\ UNCHANGED <<invoices, siteName, year, clock>>

\* SitesService.update by an administrator waits for the row of the site.
Rename(s, n) ==
    /\ RowFree(s)
    /\ n \in NamesOf[s]
    /\ siteName' = [siteName EXCEPT ![s] = n]
    /\ UNCHANGED <<invoices, year, clock, requests>>

NewYear ==
    /\ year < LastYear
    /\ year' = year + 1
    /\ UNCHANGED <<invoices, siteName, clock, requests>>

Generate(q) ==
    \/ \E x \in Subjects : BeginGenerate(q, x)
    \/ TakeNumber(q) \/ CreateInvoice(q) \/ RollBack(q)

Next ==
    \/ \E q \in Requests : Generate(q)
    \/ \E s \in Sites, n \in Names : Rename(s, n)
    \/ NewYear

Spec == Init /\ [][Next]_vars

-----------------------------------------------------------------------------
(* Properties *)

\* "generate unique invoice number, transaction-safe version with row locking to
\* prevent race conditions" (invoices.service.ts:434): the number a handler is
\* about to use is free, so the unique index never refuses it, whoever numbers,
\* renames or rolls back.  It takes that no two sites are ever given names with
\* one prefix, which nothing sees to (sites.name is not unique): each site would
\* count invoices of its own only, towards the same numbers.
NumberIsFree ==
    \A q \in Requests : requests[q].kind = "numbered" => ~Taken(requests[q].number)

\* The numbers with one prefix of a year count from 1 without a gap, in the
\* order their invoices were created, also after renames, roll backs and the
\* turn of the year (invoices.service.ts:473-483), as long as no two sites share
\* a prefix.
Consecutive ==
    \A i \in invoices :
        i.number.sequence =
            Cardinality({j \in invoices :
                /\ j.number.prefix = i.number.prefix /\ j.number.year = i.number.year
                /\ j.createdAt <= i.createdAt})

=============================================================================
