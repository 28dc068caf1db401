SPECIFICATION FairOrdersSpec
CHECK_DEADLOCK FALSE
CONSTANTS
    Products = {"p"}
    Rooms = {"a", "b"}
    Sites = {"s1"}
    Admin = "admin"
    NULL = NULL
    SeededProducts = {"p"}
    SeededRooms = {"a"}
    OpeningQty <- MC_OpeningQty
    OpeningUsed <- MC_OpeningUsed
    SeededRoomOf <- MC_RoomOf
    SeededSiteOf <- MC_SiteOf
    SeededCapacity <- MC_Capacity
    Requests = {r1, r2}
    Callers = {"s1"}
    Kinds = {"record", "adjust", "update", "roomCreate"}
    Kgs = {1}
    PatchKgs = {NULL}
    Capacities = {2}
    RoomStatusVisible = FALSE
    MaxMovements = 2
    MaxOffLedger = 3
    Orders = {o1}
    Carts <- MC_Carts
    PoolSize = 2
    SiteIdIsUuid = TRUE
PROPERTIES
    RejectionIsFinal
    StockOnlyThroughInventory
    HandlersEnd
