CONSTANTS
    Scenes = {"nano","nano_peers","nano_batch","nano_read","faiss","faiss_peers","faiss_torn","graph","graph_blind","graph_batch"}
    p = p
    q = q
    a = a
    b = b
    c = c
    Twins = {t1,t2}
    Pair = {r1,r2}
    None = None
SPECIFICATION Spec
CHECK_DEADLOCK FALSE
SYMMETRY Symmetry
INVARIANTS
    WritesAreKept
    ReadIsCurrent
    AnswersAreTrue
PROPERTIES
    PeersKept
    RowsKeepTheirVectors
