CONSTANTS
    Names = {a, b}
    Peers = {p}
    Ids = {i1, i2}
    Tokens <- MCTokens
    Roles = {"owner", "admin", "viewer"}
    Secrets = {x}
    Logins = {l1, l2}
    Requests = {r1}
    None = None
    Gone = Gone
    IdleTtl = 1
    AbsoluteTtl = 2
    TouchInterval = 1
    MaxSessions = 2
    Permits = 1
    Threshold = 1
    MaxBackoff = 1
    StaleAfter = 2
    MaxTracked = 1
    MaxEpoch = 1
    MaxClock = 2
SPECIFICATION Spec
SYMMETRY Symmetry
CONSTRAINT Focus
INVARIANTS
    TypeOK
    OwnerRemains
    LiveSessionsAreCurrent
    LimitsHold
PROPERTIES
    DeadStaysDead
    ChangeEndsSessions
CHECK_DEADLOCK FALSE
