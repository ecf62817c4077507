CONSTANTS
    Texts = {a, b}
    FileRows = 2
    MaxRows = 3
    ChunkRows = 2
    BatchRows = 2
    MaxInterruptions = 2
    ClearsPartial = FALSE
    InterruptedResets = FALSE
    OldVersions = {0, 4, 6}
    LegacyVersions = {0}
SPECIFICATION UpgradeSpec
INVARIANTS
    IndexExact
    ResumeExact
    LogIsHonest
    UpgradeTypeOK
    BackedUp
    VersionIsEarned
    SearchIsExact
PROPERTIES
    DuplicatesAreOwned
    IndexCatchesUp
    Opens
