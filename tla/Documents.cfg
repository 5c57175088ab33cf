CONSTANTS
    Scenes = {"deletes","shared","files","retries","again","together"}
    d1 = d1
    d2 = d2
    c1 = c1
    c2 = c2
    c3 = c3
    e1 = e1
    e2 = e2
    r1 = r1
    None = None
SPECIFICATION Spec
CHECK_DEADLOCK FALSE
INVARIANTS
    ObjectsStayAnchored
    DeletesWork
    OthersKeepTheirs
