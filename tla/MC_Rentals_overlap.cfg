SPECIFICATION Spec
SYMMETRY Slots
CHECK_DEADLOCK FALSE
CONSTANTS
    Rentals = {"r1", "r2", "n"}
    Assets = {"box"}
    ColdRooms = {}
    Sites = {"s1", "s2"}
    Requests = {q1, q2}
    Kinds = {"create", "cancel", "activate", "move", "remove"}
    AssetOf <- MC_AssetOf
    SiteOf <- MC_SiteOf
    Need <- MC_Need
    Period <- MC_Period
    HomeOf <- MC_HomeOf
    Capacity <- MC_Capacity
    Stored <- MC_Stored
    Legacy = {"r1", "r2"}
    LegacyInvoiced = {"r1"}
    RoomStatusVisible = TRUE
    SystemUserRow = TRUE
INVARIANTS
    OneActivePerAsset
    ActiveIsPaid
PROPERTY
    HandedOutAsPromised
