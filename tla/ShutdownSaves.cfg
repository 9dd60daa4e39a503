SPECIFICATION Spec
CONSTANTS
    Entities = {e1, e2}
    Requests = {r1, r2}
    MaxChanges = 3
    MaxFaults = 2
INVARIANTS ShutdownSaves
CHECK_DEADLOCK FALSE
