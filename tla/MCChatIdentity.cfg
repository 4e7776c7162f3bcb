CONSTANTS
    MaxVersion = 3
    Callers = {c1, c2}
    Copies <- MCCopies
    MaxCalls = 5
    MaxStamp = 2
    NoRow = NoRow
    NoCall = NoCall
SPECIFICATION Spec
INVARIANTS TypeOK CardDescribesText NothingBehindTheAlias
PROPERTIES CanonicalImplementsLife LinkingLosesNothing
CHECK_DEADLOCK FALSE
