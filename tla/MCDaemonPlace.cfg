CONSTANTS
    Daemons = {}
    Calls = {}
    None = None
    Dead = Dead
    MaxTroubles = 0
    Callers = {a1}
    Nobody = Nobody
    Slots = 1
    Buffer = 2
    Pipe = 1
    MaxRequests = 0
    MaxEvents = 0
    Machines = {home, away}
    Home = home
    MaxMessages = 2
    MaxMishaps = 1
    Looks = {}
    MaxRelease = 0
    MaxRefusals = 0
    Rooms = {r1, r2}
    Busy = {r1}
    Page = 1
    Most = 2
    SeekPages = 2
    FirstHeld = 2
    LastHeld = 2
    Ours = {2}
    MaxNumber = 3
    MaxOpens = 2
    MaxActs = 1
    MaxCalls = 2
SPECIFICATION DaemonSpec
PROPERTIES
    ReaderKeepsPlace
CHECK_DEADLOCK FALSE
