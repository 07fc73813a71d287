SPECIFICATION Spec
CONSTANTS
    c1 = c1
    c2 = c2
    s1 = s1
    Clients <- TwoClients
    Statements <- NoStatements
    NoStatement = NoStatement
    MaxHandles = 2
    ReleasePolicy = "anytime"
    Lookups = {"get_result"}
    SharedHandles = TRUE
    SpawnMayFail = TRUE
    WeakStores = TRUE
CHECK_DEADLOCK FALSE
SYMMETRY Symmetry
INVARIANTS TypeOK QueueInOrder SingleExecutor FlagHonest NoLeak OutIsLive
PROPERTY OutcomeIsFinal
