SPECIFICATION Spec
SYMMETRY Slots
CONSTANTS
    Products = {"p", "n"}
    Sites = {"s1", "s2"}
    Admin = "admin"
    NULL = NULL
    SeededProducts = {"p"}
    OpeningQty <- MC_OpeningQty
    OpeningUsed <- MC_OpeningUsed
    SeededRoomOf <- MC_RoomOf
    SeededSiteOf <- MC_SiteOf
    SeededCapacity <- MC_Capacity
    Requests = {r1, r2}
    Rooms = {"a", "b"}
    SeededRooms = {"a", "b"}
    Callers = {"s1"}
    Kinds = {"record", "revert", "adjust", "create", "update", "remove", "roomUpdate", "roomRemove"}
    Kgs = {1}
    PatchKgs = {NULL, 1}
    Capacities = {1}
    RoomStatusVisible = TRUE
    MaxMovements = 2
    MaxOffLedger = 2
INVARIANTS
    TypeOK
    RoomLedger
PROPERTY
    SitesApart
