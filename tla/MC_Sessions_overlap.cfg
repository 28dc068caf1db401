SPECIFICATION Spec
SYMMETRY Slots
CHECK_DEADLOCK FALSE
CONSTANTS
    Users = {"client", "manager"}
    Clients = {"client"}
    Requests = {r1, r2}
    MaxCodes = 2
INVARIANTS
    SpentIsGone
    ClosedStaysClosed
