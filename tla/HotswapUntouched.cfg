SPECIFICATION Spec
CONSTANTS
    g1 = g1
    g2 = g2
    g3 = g3
    GlobalIDs = {g1}
    LocalRefs <- MCLocalRefs
    Protocols <- MCProtocols
    MaxHistory = 3
    Hotswaps = {h1}
    Moves <- Outward
    IoluModes = {"simulated"}
    AutoAdvance = {FALSE}
    CallsMayFail = FALSE
    InitRecords <- OneEntity
    ClientProtocol = client
    MaxAborts = 1
    MaxClientOps = 0
INVARIANTS FailedMeansUntouched
CHECK_DEADLOCK FALSE
