SPECIFICATION FairSpec
CONSTANTS
    c1 = c1
    c2 = c2
    s1 = s1
    Clients <- OneClient
    Statements <- NoStatements
    NoStatement = NoStatement
    MaxHandles = 2
    ReleasePolicy = "never"
    Lookups = {"wait_handle"}
    SharedHandles = FALSE
    SpawnMayFail = FALSE
    WeakStores = FALSE
PROPERTY WaitReturns
