SPECIFICATION Spec

CONSTANTS
    Products = {"p", "n"}
    Sites = {"s1", "s2"}
    Admin = "admin"
    NULL = NULL
    SeededProducts = {"p"}
    OpeningQty <- MC_OpeningQty
    OpeningUsed <- MC_OpeningUsed
    SeededRoomOf <- MC_RoomOf
    SeededSiteOf <- MC_SiteOf
    SeededCapacity <- MC_Capacity
    Requests = {r1}
    Rooms = {"a", "b"}
    SeededRooms = {"a", "b"}
    Callers = {"admin"}
    Kinds = {"record", "revert", "adjust", "create", "update", "remove", "roomRemove"}
    Kgs = {1}
    PatchKgs = {NULL}
    Capacities = {1}
    RoomStatusVisible = TRUE
    MaxMovements = 3
    MaxOffLedger = 2
INVARIANTS
    ProductLedger
    StockNonNegative
    RoomOfOwnSite
PROPERTY
    StockIsAtomic
