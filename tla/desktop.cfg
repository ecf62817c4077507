CONSTANTS
    None = None
    NoQuery = "all"
    Queries = {"q1"}
    Pages <- MCPages
    ALL <- MCALL
    Kinds = {"k1"}
    Levels = {10, 6}
    Dims = {"d1", "d2"}
    Companies = {"c"}
    MaxClicks = 6
    MaxPending = 2
    MaxMessages = 1
    MaxHaste = 2
    MaxOps = 2
    MaxCommits = 1
    MaxFaults = 1
SPECIFICATION FairSpec
CHECK_DEADLOCK FALSE
PROPERTIES
    WaitingEnds
INVARIANTS
    TypeOK
    ShownIsAsked
    FreshAtRest
CONSTRAINT Focus
