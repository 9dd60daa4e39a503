SPECIFICATION BothSpec
CONSTANTS
    g1 = g1
    h1 = h1
    g2 = g2
    GlobalIDs = {g1, g2}
    LocalRefs <- MCLocalRefs
    Protocols = {h1, h2}
    MaxHistory = 3
    Hotswaps = {h1}
    Moves <- Outward
    AutoAdvance = {FALSE}
    IoluMayFail = TRUE
    XoluMayFail = FALSE
    InitRecords <- TwoEntities
    Calls = {"confirm", "abort", "get"}
    Impatient = {}
    MaxCalls = 3
    MaxCrashes = 2
INVARIANTS NoOrphan WritesBlockedWhileMoving FaultsHarmless
PROPERTIES CompleteMeansMoved Settles
CHECK_DEADLOCK FALSE
