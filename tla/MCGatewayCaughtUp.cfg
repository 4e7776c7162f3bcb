CONSTANTS
    Readers = {r1}
    Live = {}
    MaxFaults = 0
    None = None
    Pages = 1
    Rounds = 1
    MaxRestarts = 0
    Unmarked = Unmarked
    MaxTroubles = 0
    MaxRequests = 1
    Alerts = {}
    Chats = {x}
    Limits = {1}
    ServerRoom = 2
    MaxTracked = 1
    MaxMishaps = 0
    Scans = {}
    Phones = {}
    Together = {{}}
SPECIFICATION GatewaySpec
PROPERTIES
    ChangesAreCaughtUp
CHECK_DEADLOCK FALSE
