CONSTANTS
    Jobs = {j1, j2}
    NoJob = NoJob
    Users = {u1}
    Kinds = {"Import"}
    WorkspacePending = 2
    UserPending = 2
    ConcurrentReads = 1
    HistoryLimit = 1
    Durable = FALSE
    StoreMayFail = FALSE
    ClockMonotone = TRUE
SPECIFICATION Spec
INVARIANTS
    WorkerEntryExists
