SPECIFICATION FairSpec
CONSTANTS
    g1 = g1
    g2 = g2
    GlobalIDs = {g1, g2}
    LocalRefs <- MCLocalRefs
    Protocols = {h1, h2}
    MaxHistory = 3
    Hotswaps = {h1}
    Moves <- Outward
    AutoAdvance = {TRUE}
    IoluMayFail = FALSE
    XoluMayFail = FALSE
    InitRecords <- OneEntity
    Calls = {}
    Impatient = {}
    MaxCalls = 0
    MaxCrashes = 1
PROPERTIES AutoAdvances
CHECK_DEADLOCK FALSE
