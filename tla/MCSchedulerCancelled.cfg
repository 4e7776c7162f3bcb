CONSTANTS
    Ids <- MCIds
    Words = {w1, w2}
    Unreachable = {}
    MaxTime = 2
    MaxGen = 3
    MaxFaults = 0
    NoRow = NoRow
    NoItem = NoItem
SPECIFICATION Spec
INVARIANT CancelledNeverGoes
CHECK_DEADLOCK FALSE
