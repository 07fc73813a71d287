SPECIFICATION Spec
CONSTANTS
    Starts <- MCStarts
    Amounts <- MCAmounts
    Fields <- MCFields
    MaxCalls = 2
INVARIANTS DifferenceCounts RoundTrips
PROPERTIES FieldsValid AdditionIsExact ClockIsExact
CHECK_DEADLOCK FALSE
