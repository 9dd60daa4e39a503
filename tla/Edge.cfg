SPECIFICATION MCEdgeSpec
CONSTANTS
    g1 = g1
    g2 = g2
    order = order
    GlobalIDs = {g1, g2}
    LocalRefs <- MCLocalRefs
    Protocols = {order, direct}
    MaxHistory = 4
    ProposalIDs = {p1, p2}
    InitRecords <- OneEntity
    ClientProtocol = direct
    MaxClientOps = 2
    Places <- MCPlaces
    Moves <- MCMoves
    NumericName <- MCNumericName
    ChanCap = 2
    DirectoryProtocols = {order}
    DirectoryHistory = 1
    Instances = {"a", "b"}
    RequestIDs = {1, 2}
    Menus <- MCMenus
    Deployments <- MCDeployments
    CacheTTL = 1
    CacheSize = 1
    MaxRedirects = 2
    DirectoryTTL = 1
    UnstableTTL = 0
    MaxMoves = 1
    MaxProxyFaults = 1
    MaxProxyTime = 2
    Buses = {"memory", "nats"}
    Consumers <- MCConsumers
    Events <- MCEvents
    MaxDeliver = 3
    MaxBusFaults = 2
INVARIANTS RecordMatchesProposals DirectoryExact ProxyReads BusDelivers
PROPERTIES CatchesUp EveryRequestAnswered
CHECK_DEADLOCK FALSE
