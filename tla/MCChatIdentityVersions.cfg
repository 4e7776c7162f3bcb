CONSTANTS
    MaxVersion = 2
    Callers = {c1}
    Copies <- MCCopies
    MaxCalls = 5
    MaxStamp = 1
    NoRow = NoRow
    NoCall = NoCall
SPECIFICATION Spec
INVARIANT VersionsSurviveLinking
CHECK_DEADLOCK FALSE
