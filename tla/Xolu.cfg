SPECIFICATION MCXoluSpec
CONSTANTS
    Documents = {e1, e2}
    Requests = {r1, r2}
    MaxChanges = 3
    MaxProcessFaults = 2
    NodeIDs <- MCNodeIDs
    GraphTenants = {0, 1}
    Relationships = {"r", "s"}
    Modes = {"ignore", "error"}
    Limit = 2
    MaxEdges = 3
    MaxQueryDepth = 2
    MaxDim = 1
    MaxDay = 2
    MaxNums = 2
    Config <- NoLimits
    Timelines = {1}
    Dims = {1, 2}
    RetentionDays = {0, 1}
    Batches <- MCBatches
    Writers = {1, 2}
    purgeBatchSize = 1
    MaxWrites = 2
    MaxConfigs = 2
    MaxSeriesFaults = 1
    Managers = {"oql", "sulpher"}
    Jobs = {1, 2}
    EntityTypes = {"e"}
    Missing = "x"
    TTL = 2
    MaxQuery = 1
    MaxTime = 5
INVARIANTS SavedOrDirty GraphExact TimeSeriesExact OutcomesKept
PROPERTIES EventuallySaved EventuallyPurged
CHECK_DEADLOCK FALSE
