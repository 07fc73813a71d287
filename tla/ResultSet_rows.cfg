SPECIFICATION Spec
CONSTANTS
    Null = Null
    a = a
    Bits <- MCBits
    Columns <- MCColumns
    Results <- MCResults
    Values = {a}
    MaxExecutions = 3
    MaxResultSets = 2
    MaxOutdated = 1
    MaxSets = 2
    MaxSetExecutions = 1
INVARIANT TypeOK
INVARIANT RowShown
INVARIANT NextHonest
INVARIANT BuffersSound
INVARIANT NumbersRead
INVARIANT ParamIsSent
PROPERTY FetchTouchesOwn
CHECK_DEADLOCK FALSE
