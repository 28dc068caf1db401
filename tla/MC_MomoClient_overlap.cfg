SPECIFICATION FairSpec
CONSTANTS
    Requests = {r1, r2}
    Lifetimes = {5, 6, 7}
    DefaultLifetime = 6
    Timeout = 2
    Margin = 4
INVARIANTS
    TokenIsHonoured
PROPERTIES
    CallsEnd
