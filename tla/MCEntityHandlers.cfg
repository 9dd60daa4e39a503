SPECIFICATION Spec
CONSTANTS
    MaxQueryDepth = 2
    Menus <- MCMenus
    Configs <- MCConfigs
    Start <- MCStart
    Adapted = {"b"}
    Tenants = {1}
CHECK_DEADLOCK FALSE
INVARIANTS
    GraphFollowsStore
    CacheFresh
    VersionsIdentify
    StoreConsistent
    CountersExact
