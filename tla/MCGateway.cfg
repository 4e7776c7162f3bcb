CONSTANTS
    Readers = {r1}
    Live = {v1}
    MaxFaults = 1
    None = None
    Pages = 2
    Rounds = 2
    MaxRestarts = 1
    Unmarked = Unmarked
    MaxTroubles = 2
    MaxRequests = 2
    Alerts = {a1, a2}
    Chats = {x, y}
    Limits = {1, 2}
    ServerRoom = 2
    MaxTracked = 1
    MaxMishaps = 1
    Scans = {s1, s2}
    Phones = {p1}
    Together = {{}, {s1, s2}, {s1, p1}}
SPECIFICATION GatewaySpec
INVARIANTS
    GatewayTypeOK
    StoredFilesAreTrue
    ExchangesAreOrderly
PROPERTIES
    SweepsEndWell
    DriftIsMendedQuietly
    QuestionsAreSettled
    NotesReachTheReader
CHECK_DEADLOCK FALSE
