SPECIFICATION Spec
CONSTANTS
    g1 = g1
    g2 = g2
    g3 = g3
    GlobalIDs = {g1, g2, g3}
    LocalRefs <- TwoTenantRefs
    Protocols <- MCProtocols
    MaxHistory = 3
    Hotswaps = {h1, h2}
    Moves <- Neighbours
    IoluModes = {"simulated", "configured"}
    AutoAdvance = {TRUE, FALSE}
    CallsMayFail = FALSE
    InitRecords <- TwoTenants
    ClientProtocol = client
    MaxAborts = 0
    MaxClientOps = 0
INVARIANTS QuiesceHeld FailedMeansUntouched TenantsSeparate
PROPERTIES EndsHold
CHECK_DEADLOCK FALSE
