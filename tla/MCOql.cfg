CONSTANTS
    Workers = {w1, w2}
    Tenants <- Scoped
    Envs <- MCEnvs
    Tables <- AllTables
    Statements <- MCStatements
    Queries <- MCQueries
    Refused <- MCRefused
    MaxStatements = 2
SPECIFICATION Spec
INVARIANTS SelectsExact SuccessReachesAll
PROPERTIES WritesWhatItRead
CHECK_DEADLOCK FALSE
