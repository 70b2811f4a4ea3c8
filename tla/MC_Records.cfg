SPECIFICATION MCSpec
CONSTANTS
    Op = {o1, o2}
    Message = {m1, m2}
    Meta = {d1, d2}
    Invocation = {i1, i2}
    None = None
    Lease = 2
    MaxStale = 1
    Last = 6
    Limit = 2
    Proc = {"p1", "p2"}
    Alias = {"a1"}
    EndpointID = {"i1", "i2"}
    CodexHome = {"h1"}
    Store = {"s1"}
    Dir = {"d1"}
    Places = {"real", "linked"}
    First <- MCFirst
    MaxTurns = 3
    PageSize = 1
    MaxPages = 2
    MaxHits = 3
    MaxReads = 2
    Opener = {"p1", "p2"}
    OpRow = {"o1"}
    ClaimRow = {"c1", "c2"}
    ReceiptRow = {"r1"}
    BlockerRow = {"b1"}
    Age = 1
    LastTick = 3
    Writer = {"w1", "w2"}
    Body = {"a", "b"}
    Hows = {"spill", "rpc", "force"}
    Command = {"c1", "c2"}
    Reply = {"r1", "r2"}
    ErrorReply = {"r2"}
    Importer = {"i1"}
    Absent = Absent
INVARIANTS
    TypesOK
    FenceDividesEvidence
    AuthorityIsSingle
    EventsExplainState
    ResolversAgree
    WalkIsASnapshot
    RegistriesAreSound
    OpensTheRightFile
    LookupIsSound
PROPERTIES
    EvidenceOnlyStrengthens
    ReceiptsAreTrue
    PruningIsSafe
    MigrationIsSafe
    SpillsAreWhole
    ImportsAreSound
CHECK_DEADLOCK FALSE
