CONSTANTS
    Texts = {a, b}
    FileRows = 2
    MaxRows = 3
    ChunkRows = 1
    BatchRows = 2
    MaxInterruptions = 2
    ClearsPartial = TRUE
    InterruptedResets = FALSE
SPECIFICATION Spec
SYMMETRY Symmetry
INVARIANTS
    PartialIsOfTheData
