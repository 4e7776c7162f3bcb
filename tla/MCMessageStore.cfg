CONSTANTS
    MaxVersion = 3
    Messages <- MCMessages
    Receipts = {"read"}
    Mixes = { {"reorder", "history", "download", "preview", "protect", "fault", "crash"},
              {"reorder", "history", "clear"},
              {"reorder", "protect", "clear", "crash"} }
    MaxDisturbances = 2
    NoRow = NoRow
SPECIFICATION Spec
INVARIANTS TypeOK CardDescribesText ViewOnceHoldsNothing ClearedLeavesNothing SaidIsKept
PROPERTIES ImplementsLife DeletedWordsKept
CHECK_DEADLOCK FALSE
