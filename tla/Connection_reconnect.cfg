SPECIFICATION FairSpec
CONSTANTS
    db1 = db1
    db2 = db2
    utf8 = utf8
    Unset = Unset
    Schemas <- TwoSchemas
    Charsets <- OneCharset
    Accounts <- EveryAccount
    MaxRefusals = 1
    MaxLosses = 2
INVARIANTS TypeOK AutoCommitHonest SchemaHonest
PROPERTIES ThrowsOnlyOnFault OperationEnds
