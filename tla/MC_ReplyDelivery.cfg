SPECIFICATION MCFairSpec
CONSTANTS
    i1 = i1
    i2 = i2
    i3 = i3
    here = here
    there = there
    r1 = r1
    m1 = m1
    Invocation <- MCInvocation
    Op = {here, there}
    Reply = {r1}
    Original = {m1}
    uses <- MCUses
    delivers <- MCDelivers
    answers <- MCAnswers
    Same = same
    None = None
    Lease = 2
    MaxStale = 0
    MaxTries = 2
INVARIANTS
    AtMostOnceBody
    EvidenceIsTrue
    ReceiptIsTrue
PROPERTIES
    FenceUnderLiveClaim
    ClaimIsClosed
CHECK_DEADLOCK FALSE
