CONSTANTS
    Scenes = {"graph","pool_slots","pool_outage","milvus","vectors"}
    Attempts = 1
    a1 = a1
    b1 = b1
    p1 = p1
    q1 = q1
    i1 = i1
    j1 = j1
    None = None
SPECIFICATION Spec
CHECK_DEADLOCK FALSE
PROPERTIES
    EveryStoreCallEnds
    AlwaysServesAgain
