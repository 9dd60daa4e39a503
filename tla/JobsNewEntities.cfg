SPECIFICATION Spec
CONSTANTS
    Managers = {"oql", "sulpher"}
    Jobs = {j1, j2}
    Entities = {"e"}
    Missing = "x"
    TTL = 2
    MaxQuery = 1
    MaxTime = 5
INVARIANTS NewEntitiesRecognised
CHECK_DEADLOCK FALSE
