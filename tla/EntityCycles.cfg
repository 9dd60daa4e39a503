SPECIFICATION Spec
CONSTANTS
    MaxQueryDepth = 2
    Menus <- MCMenus
    Configs <- ErrorConfigs
    Start <- MCStart
    Adapted = {"b"}
    Tenants = {1}
CHECK_DEADLOCK FALSE
INVARIANT
    NeverDiverge
