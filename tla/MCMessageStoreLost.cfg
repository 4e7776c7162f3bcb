CONSTANTS
    MaxVersion = 3
    Messages <- MCMessages
    Receipts = {"read"}
    Mixes = { {"download"} }
    MaxDisturbances = 1
    NoRow = NoRow
SPECIFICATION Spec
INVARIANT EveryVersionKept
CHECK_DEADLOCK FALSE
