CONSTANTS
    Jobs = {1, 2}
    Kinds = {"Import", "Export"}
    ConcurrentReads = 1
    Files = 2
    Previews = {1, 2}
    PreviewLimit = 1
    PeekTtl = 1
    UploadTtl = 1
    ExportTtl = 1
    MaxAge = 1
    MaxStarts = 1
    None = None
SPECIFICATION Spec
INVARIANTS
    TypeOK
    ImportsHaveTheirFiles
    ExportsAreServed
    BatchIsHonest
    HistoryIsRecovered
PROPERTIES
    LeftoversGo
CONSTRAINT Focus
CHECK_DEADLOCK FALSE
