CONSTANTS
    Jobs = {j1, j2, j3}
    Workers = {w1, w2}
    None = None
    RecoveryEnabled = TRUE
    Kinds = {"batch_delete", "admin", "sdk_delete"}
SPECIFICATION Spec
CHECK_DEADLOCK FALSE
PROPERTIES
    JoinsOnlyBatchDelete
