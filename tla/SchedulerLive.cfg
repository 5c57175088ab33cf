CONSTANTS
    retry = retry
    driver = driver
    writer = writer
    Jobs = {retry,driver,writer}
    Workers = {w1}
    None = None
    RecoveryEnabled = FALSE
    DocumentCapacity = 1
    ManualCapacity = 1
    TerminalCapacity = 1
    NDocs = 2
    OldFailed = {1}
    Stubs = {}
    Orphans = {}
    Journaled = {}
    PageSize = 2
    DrainLimit = 1
    StallRounds = 2
    Kinds = {"insert","retry","process","admin"}
    Faults = {}
    Scenes = {"stream","admin","journal"}
SPECIFICATION LiveSpec
CHECK_DEADLOCK FALSE
PROPERTIES
    EveryDocSettles
    
