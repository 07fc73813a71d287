SPECIFICATION Spec
CONSTANTS
    Null = Null
    NoResult = NoResult
    NoRow = NoRow
    Results <- MCResults
    Sizes <- MCSizes
    Width = 3
    MaxSets = 2
    MaxHandles = 2
    MaxLosses = 1
INVARIANTS TypeOK ReaderOwnsLink StreamInBounds
PROPERTY ImplementsCursor
\* the program may crash, and the user destroy the connection
CHECK_DEADLOCK FALSE
