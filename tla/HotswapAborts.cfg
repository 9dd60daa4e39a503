SPECIFICATION FairSpec
CONSTANTS
    g1 = g1
    g2 = g2
    g3 = g3
    GlobalIDs = {g1, g2}
    LocalRefs <- MCLocalRefs
    Protocols <- MCProtocols
    MaxHistory = 3
    Hotswaps = {h1}
    Moves <- Outward
    IoluModes = {"configured"}
    AutoAdvance = {TRUE, FALSE}
    CallsMayFail = TRUE
    InitRecords <- OneEntity
    ClientProtocol = client
    MaxAborts = 3
    MaxClientOps = 2
INVARIANTS NoOrphan OneForwardDriver
PROPERTIES Settles
CHECK_DEADLOCK FALSE
