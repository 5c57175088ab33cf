CONSTANTS
    Scenes = {"keyed","local","slots","limited","closing","queued"}
    Triple = {a1,a2,a3}
    Pair = {b1,b2}
    Twins = {c1,c2}
    Lone = {d}
    None = None
SPECIFICATION Spec
CHECK_DEADLOCK FALSE
SYMMETRY Symmetry
INVARIANTS
    MutualExclusion
    LocksAreCounted
    GateIsRight
    CallsAreCounted
PROPERTIES
    ReapsWithCare
    RunsOnce
