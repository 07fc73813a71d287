SPECIFICATION Spec
CONSTANTS
    c1 = c1
    c2 = c2
    s1 = s1
    Clients <- OneClient
    Statements <- OneStatement
    NoStatement = NoStatement
    MaxHandles = 2
    ReleasePolicy = "never"
    Lookups = {}
    SharedHandles = FALSE
    SpawnMayFail = FALSE
    WeakStores = FALSE
CHECK_DEADLOCK FALSE
INVARIANT StatementNotShared
