SPECIFICATION Spec
CONSTANTS
    GlobalIDs = {g1}
    LocalRefs <- MCLocalRefs
    Protocols = {p1}
    MaxHistory = 2
    Callers = {u, v}
    Channels = {c1}
    ChanCap = 1
    MaxCrashes = 1
SYMMETRY MCSymmetry
INVARIANTS ToldRecords
CHECK_DEADLOCK FALSE
