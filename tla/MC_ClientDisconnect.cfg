SPECIFICATION FairSpec
CONSTANTS
    c1 = c1
    c2 = c2
    k1 = k1
    k2 = k2
    Call = {c1}
    Id = {k1, k2}
    None = None
    Uses <- MCSlowWrite
PROPERTIES
    DisconnectCompletes
CHECK_DEADLOCK FALSE
