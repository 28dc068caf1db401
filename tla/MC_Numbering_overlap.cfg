SPECIFICATION Spec
SYMMETRY Slots
CONSTANTS
    Subjects = {"a", "b", "c", "d"}
    Sites = {"s1", "s2"}
    SiteOf <- MC_SiteOf
    Names = {"Kigali", "KIGALI", "HUYE", "MUSANZE"}
    Prefix <- MC_Prefix
    NamesOf <- MC_NamesOf
    Requests = {q1, q2}
    FirstYear = 1
    LastYear = 2
    SiteIdIsUuid = TRUE
INVARIANTS
    NumberIsFree
    Consecutive
