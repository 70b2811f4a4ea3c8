SPECIFICATION MCSpec
CONSTANTS
    r1 = r1
    r2 = r2
    r3 = r3
    m1 = m1
    m2 = m2
    h1 = h1
    h2 = h2
    i1 = i1
    i2 = i2
    Reply = {r1, r2, r3}
    Original = {m1, m2}
    Holder = {h1, h2}
    Body = {b1}
    Item = {i1, i2}
    None = None
    Lease = 1
    MaxStale = 1
INVARIANTS
    TypeOK
    CommitOrderDecides
    StatusIsNeverCorrupt
    ClaimsAreFenced
PROPERTIES
    OutcomeSpec
    EvidenceOnlyStrengthens
CHECK_DEADLOCK FALSE
