CONSTANTS
    Jobs <- MCJobs
    NoJob = NoJob
    Users <- MCUsers
    Kinds = {"Clear", "Import", "Export"}
    WorkspacePending = 2
    UserPending = 1
    ConcurrentReads = 1
    HistoryLimit = 1
    Durable = FALSE
    StoreMayFail = FALSE
    ClockMonotone = FALSE
SPECIFICATION CanonicalFairSpec
INVARIANTS
    LimitsHold
    NoLostWakeup
    PointOfNoReturn
PROPERTIES
    ImplementsLifecycle
    AcceptedJobsEnd
