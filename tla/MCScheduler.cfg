CONSTANTS
    Ids <- MCIds
    Words = {w1, w2}
    Unreachable = {w2}
    MaxTime = 2
    MaxGen = 3
    MaxFaults = 2
    NoRow = NoRow
    NoItem = NoItem
SPECIFICATION FairSpec
INVARIANTS TypeOK OncePerLostMark MarkedMeansGone
PROPERTIES SentIsFinal ReachableWordsGo
CHECK_DEADLOCK FALSE
