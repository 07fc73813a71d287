SPECIFICATION Spec
CONSTANTS
    MaxTransactions = 2
    MaxSavePoints = 3
    MaxWrites = 2
    MaxLosses = 1
INVARIANTS TypeOK HeldBack EndIsSafe SavePointUndoes ListMirrorsServer PointersValid IsolationKept
PROPERTY RollbackOwn
\* the user stops when the bounds are used up, and the program when it crashes
CHECK_DEADLOCK FALSE
