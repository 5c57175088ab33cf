CONSTANTS
    Scenes = {"pool","pool_faults","milvus","milvus_deaths","pg","pg_close"}
    a = a
    b = b
    Triple = {x1,x2,x3}
    Twins = {y1,y2}
    None = None
    i1 = i1
    i2 = i2
    e1 = e1
    e2 = e2
    t1 = t1
    t2 = t2
    t3 = t3
    w1 = w1
    w2 = w2
SPECIFICATION Spec
CHECK_DEADLOCK FALSE
SYMMETRY Symmetry
INVARIANTS
    PoolsAreCounted
    EnsuredGraphExists
    OneBlipSurvived
    RowsSurvive
    VectorsMatch
    ReadsAreCurrent
    ErasedStayErased
PROPERTIES
    KeepsPromise
