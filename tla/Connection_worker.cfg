SPECIFICATION Spec
CONSTANTS
    db1 = db1
    db2 = db2
    utf8 = utf8
    Unset = Unset
    Schemas <- TwoSchemas
    Charsets <- OneCharset
    Accounts <- PlainAccounts
    MaxRefusals = 0
    MaxLosses = 0
INVARIANT WorkerCommits
