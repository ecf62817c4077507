CONSTANTS
    Jobs = {j1, j2, j3}
    NoJob = NoJob
    Users = {u1}
    Kinds = {"Import"}
    WorkspacePending = 2
    UserPending = 2
    ConcurrentReads = 1
    HistoryLimit = 3
    Durable = FALSE
    StoreMayFail = FALSE
    ClockMonotone = TRUE
SPECIFICATION Spec
SYMMETRY Symmetry
INVARIANTS
    TypeOK
    QueuedIffInQueue
    SlotsMatchHolders
PROPERTIES
    FirstInFirstOut
