SPECIFICATION ReportsSpec
CHECK_DEADLOCK FALSE
CONSTANTS
    Invoices = {"order", "rental"}
    Payments = {p1}
    Requests = {r1}
    NoPayment = NoPayment
    Total <- MC_Total
    Amounts = {1}
    Kinds = {"manual", "mark", "void"}
    SystemUserRow = TRUE
    MaxCredits = 2
    Sites = {"s1", "s2"}
    AllSites = "all"
    SiteOf <- MC_SiteOf
    OrderInvoices = {"order"}
    LiveSites = {"s1", "s2"}
    Place <- MC_Place
    PageSize = 1
INVARIANTS
    NothingCountedTwice
    BreakdownCovers
    PagesAreExact
    NoCreditLost
    CreditedOnce
PROPERTIES
    NothingUnsettled
    SettledStays
