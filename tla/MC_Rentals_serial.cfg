SPECIFICATION FairSpec
CHECK_DEADLOCK FALSE
CONSTANTS
    Rentals = {"r1", "r3", "n"}
    Assets = {"box", "room"}
    ColdRooms = {"room"}
    Sites = {"s1", "s2"}
    Requests = {q1}
    Kinds = {"create", "cancel", "activate", "complete", "void", "installments", "status", "move", "remove"}
    AssetOf <- MC_AssetOf
    SiteOf <- MC_SiteOf
    Need <- MC_Need
    Period <- MC_Period
    HomeOf <- MC_HomeOf
    Capacity <- MC_Capacity
    Stored <- MC_Stored
    Legacy = {"r1", "r3"}
    LegacyInvoiced = {"r1", "r3"}
    RoomStatusVisible = TRUE
    SystemUserRow = TRUE
INVARIANTS
    RentedWhileActive
    RoomIsReserved
    CancelledOwesNothing
PROPERTY
    PaidIsActivated
