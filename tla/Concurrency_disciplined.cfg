SPECIFICATION FairSpec
CONSTANTS
    c1 = c1
    c2 = c2
    s1 = s1
    Clients <- OneClient
    Statements <- NoStatements
    NoStatement = NoStatement
    MaxHandles = 2
    ReleasePolicy = "finished"
    Lookups = {"worker_status", "wait_handle", "get_result"}
    SharedHandles = FALSE
    SpawnMayFail = TRUE
    WeakStores = TRUE
CHECK_DEADLOCK FALSE
INVARIANTS HandlesStayLive ToldTruth
PROPERTIES ImplementsPromise Served
