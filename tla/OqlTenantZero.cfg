CONSTANTS
    Workers = {w1}
    Tenants <- ZeroAndOne
    Envs <- MCEnvs
    Tables <- ZeroTables
    Statements <- MCStatements
    Queries = {}
    Refused <- MCRefused
    MaxStatements = 1
SPECIFICATION Spec
PROPERTIES DeletesOnlyMatching
CHECK_DEADLOCK FALSE
