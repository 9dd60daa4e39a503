SPECIFICATION Spec
CONSTANTS
    g1 = g1
    g2 = g2
    GlobalIDs = {g1, g2}
    LocalRefs <- MCLocalRefs
    Protocols = {p1}
    MaxHistory = 1
    Channels = {c1}
    Filters <- MCFilters
    TypeOf <- MCTypeOf
    ChanCap = 2
INVARIANTS SubscribersKeepUp SnapshotsArePrefixes
PROPERTIES ImplementsOwnership
CHECK_DEADLOCK FALSE
