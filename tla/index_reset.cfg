CONSTANTS
    Texts = {a, b}
    FileRows = 2
    MaxRows = 3
    ChunkRows = 1
    BatchRows = 2
    MaxInterruptions = 2
    ClearsPartial = FALSE
    InterruptedResets = TRUE
SPECIFICATION Spec
SYMMETRY Symmetry
INVARIANTS
    PartialIsWhole
