SPECIFICATION Spec
CONSTANTS
    MaxTransactions = 1
    MaxSavePoints = 1
    MaxWrites = 1
    MaxLosses = 1
INVARIANT CommitsAll
\* the user stops when the bounds are used up, and the program when it crashes
CHECK_DEADLOCK FALSE
