CONSTANTS
    Jobs = {j1, j2}
    Workers = {w1, w2}
    None = None
    RecoveryEnabled = TRUE
    Kinds = {"process", "custom_chunks", "sdk_delete", "batch_delete", "clear",
             "admin", "scan", "upload", "insert", "repair"}
SPECIFICATION Spec
SYMMETRY Symmetry
CHECK_DEADLOCK FALSE
INVARIANTS
    TypeOK
    ExclusiveWork
    HolderOwnsSlot
    NoOrphanFlag
    FreezeBelongsToHolder
PROPERTIES
    OnlyHolderFrees
    RecoveryFence
