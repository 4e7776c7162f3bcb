CONSTANTS
    Last = 3
    SentAt <- SharedSeconds
    Silent = {1}
    MaxSnapshots = 1
    MaxReads = 1
    Chats = {c1, c2}
    Callers = {k1, k2}
    MaxChanges = 3
    MaxLists = 3
    MaxSaid = 3
    MaxDrops = 1
    MaxCalls = 3
    Editors = {e1, e2}
    MaxEdits = 2
    MaxOthers = 1
    None = None
SPECIFICATION ChatsSpec
SYMMETRY Symmetry
CHECK_DEADLOCK FALSE
INVARIANTS
    ChatsTypeOK
    LatestIsShown
    NothingRefusedIsShown
    SettledCallsAgree
    ChangesAreTold
    VerdictsAreTrue
    GroupViewsCatchUp
PROPERTIES
    BadgeIsHonest
    SettingsConverge
