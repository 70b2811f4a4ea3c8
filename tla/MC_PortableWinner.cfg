CONSTANTS
    Reply = {"r1", "r2"}
    ErrorReply = {"r2"}
    Importer = {"i1"}
    Absent = Absent
SPECIFICATION PortableSpec
INVARIANTS
    WinnerIsTheCustodians
CHECK_DEADLOCK FALSE
