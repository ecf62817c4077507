CONSTANTS
    Jobs = {j1, j2}
    NoJob = NoJob
    Users = {u1}
    Kinds = {"Clear"}
    WorkspacePending = 1
    UserPending = 1
    ConcurrentReads = 1
    HistoryLimit = 1
    Durable = TRUE
    StoreMayFail = TRUE
    ClockMonotone = TRUE
SPECIFICATION Spec
SYMMETRY Symmetry
INVARIANTS
    StoreNotAhead
