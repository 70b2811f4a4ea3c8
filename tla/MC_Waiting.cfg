SPECIFICATION MCSpec
CONSTANTS
    None = None
    Sender = {"s1"}
    Persistent = {"s1"}
    Bounded = {"s1"}
    Waiters = {"s1"}
    MaxTries = 2
    User = {u1, u2}
    Reader = {h1}
    Thread = {t1, t2}
    Session = {1, 2}
    Page = 4
    Reply = {"r1"}
    NoReply = NoReply
    EventBuffer = 1
INVARIANTS
    TypesOK
    PoolIsSound
PROPERTIES
    WaitMissesNothing
    WaitsEnd
    SendIsTrue
    CallersReturn
CHECK_DEADLOCK FALSE
