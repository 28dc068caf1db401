SPECIFICATION Spec

CONSTANTS
    Products = {"p", "n"}
    Sites = {"s1", "s2"}
    Admin = "admin"
    NULL = NULL
    SeededProducts = {"p"}
    OpeningQty <- MC_OpeningQty
    OpeningUsed <- MC_OpeningUsed
    SeededRoomOf <- MC_RoomOf
    SeededSiteOf <- MC_SiteOf
    SeededCapacity <- MC_Capacity
    Requests = {r1}
    Rooms = {"a", "b"}
    SeededRooms = {"a"}
    Callers = {"admin"}
    Kinds = {"adjust", "create", "update", "remove", "roomCreate", "roomUpdate", "roomRemove"}
    Kgs = {1}
    PatchKgs = {NULL}
    Capacities = {2}
    RoomStatusVisible = TRUE
    MaxMovements = 2
    MaxOffLedger = 2
INVARIANT
    RoomHoldsItsProducts
PROPERTY
    NoOverfill
