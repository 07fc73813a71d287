SPECIFICATION Spec
CONSTANTS
    c1 = c1
    c2 = c2
    s1 = s1
    Clients <- OneClient
    Statements <- NoStatements
    NoStatement = NoStatement
    MaxHandles = 1
    ReleasePolicy = "finished"
    Lookups = {"wait_handle"}
    SharedHandles = FALSE
    SpawnMayFail = FALSE
    WeakStores = FALSE
CHECK_DEADLOCK FALSE
INVARIANT ReleaseIsSafe
