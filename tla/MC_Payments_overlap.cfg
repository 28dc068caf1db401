SPECIFICATION FairSpec
CHECK_DEADLOCK FALSE
CONSTANTS
    Invoices = {i1}
    Payments = {p1}
    Requests = {r1, r2}
    NoPayment = NoPayment
    Total <- MC_Total
    Amounts = {1}
    Kinds = {"manual", "mark", "void"}
    SystemUserRow = TRUE
    MaxCredits = 3
PROPERTY
    ApprovedIsSettled
