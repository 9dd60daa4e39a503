SPECIFICATION Spec
CONSTANTS
    g1 = g1
    g2 = g2
    GlobalIDs = {g1, g2}
    LocalRefs <- MCLocalRefs
    Protocols = {h1, h2}
    MaxHistory = 3
    Hotswaps = {h1}
    Moves <- Outward
    AutoAdvance = {FALSE}
    IoluMayFail = FALSE
    XoluMayFail = FALSE
    InitRecords <- OneEntity
    Calls = {"confirm", "abort"}
    Impatient = {"abort"}
    MaxCalls = 2
    MaxCrashes = 0
INVARIANTS ConcurrentTransitionsConflict
CHECK_DEADLOCK FALSE
