CONSTANTS
    Jobs = {j1,j2,j3}
    Workers = {w1}
    None = None
    RecoveryEnabled = FALSE
    DocumentCapacity = 1
    ManualCapacity = 2
    TerminalCapacity = 2
    NDocs = 3
    OldFailed = {1}
    Stubs = {}
    Orphans = {}
    Journaled = {}
    PageSize = 2
    DrainLimit = 1
    StallRounds = 2
    Kinds = {"insert","retry","admin","custom_chunks"}
    Faults = {}
    Scenes = {"paged","unpaged","faulty","retry","fence"}
SPECIFICATION SceneSpec
CHECK_DEADLOCK FALSE
SYMMETRY Symmetry
INVARIANTS
    NothingStranded
    ResetsFindIdle
    BoundsHold
PROPERTIES
    AcksMeanReset
    DocsAreKept
