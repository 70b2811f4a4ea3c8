SPECIFICATION FairSpec
CONSTANTS
    i1 = i1
    i2 = i2
    i3 = i3
    here = here
    there = there
    r1 = r1
    m1 = m1
    Invocation <- MCPairInvocation
    Op = {here, there}
    Reply = {r1}
    Original = {m1}
    uses <- MCPairUses
    delivers <- MCPairDelivers
    answers <- MCAnswers
    Same = same
    None = None
    Lease = 2
    MaxStale = 1
    MaxTries = 2
PROPERTIES
    OrphanIsRecovered
CHECK_DEADLOCK FALSE
