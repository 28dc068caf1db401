SPECIFICATION Spec
SYMMETRY Slots
CHECK_DEADLOCK FALSE
CONSTANTS
    Addresses = {admin, a1}
    Admin = admin
    NoUser = NoUser
    Sites = {"s1"}
    NoSite = "nowhere"
    Requests = {r1, r2}
    Forms <- MC_Forms
    Changes <- MC_Changes
    Keep = Keep
    MaxVendorRequests = 1
INVARIANT
    CompleteMissesNothing
PROPERTIES
    
    FlagIsRepaired
