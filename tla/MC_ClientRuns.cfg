SPECIFICATION MCFairSpec
CONSTANTS
    c1 = c1
    c2 = c2
    k1 = k1
    k2 = k2
    Call = {c1, c2}
    Id = {k1, k2}
    None = None
    Uses <- MCUses
INVARIANTS
    TypeOK
    NotWrittenIsProven
    ResponseIsOwn
    StreamIsAccounted
PROPERTIES
    CanceledCallReturns
CHECK_DEADLOCK FALSE
