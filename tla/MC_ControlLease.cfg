SPECIFICATION RemoteSpec
CONSTANTS
    Deliverer = {d1}
    Waiter = {w1}
    Thread = {t1, t2}
    Reply = {r2}
    ErrorCode = {r2}
    None = None
    Lease = 1
    LocalSeq = 0
    WholeSeconds = TRUE

INVARIANTS
    ResultsAreUsable
