SPECIFICATION MCSpec
CONSTANTS
    Uses <- MCUses
    Fragments = 2
    ReadCapacity = 1
    h1 = h1
    t1 = t1
    w1 = w1
    w2 = w2
    r1 = r1
    r2 = r2
    Deliverer = {h1}
    Waiter = {w1, w2}
    Thread = {t1}
    Reply = {r1, r2}
    ErrorCode = {r2}
    None = None
    Lease = 1
    LocalSeq = 0
    WholeSeconds = FALSE
INVARIANTS
    ReportsAreTrue
PROPERTIES
    NoChildIsLeft
    RemoteIsCustodys
CHECK_DEADLOCK FALSE
