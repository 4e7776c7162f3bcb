CONSTANTS
    Daemons = {d1, d2}
    Calls = {c1}
    None = None
    Dead = Dead
    MaxTroubles = 1
    Callers = {a1}
    Nobody = Nobody
    Slots = 1
    Buffer = 2
    Pipe = 1
    MaxRequests = 2
    MaxEvents = 3
    Machines = {home, away}
    Home = home
    MaxMessages = 1
    MaxMishaps = 1
    Looks = {tick, button}
    MaxRelease = 2
    MaxRefusals = 2
    Rooms = {r1, r2}
    Busy = {r1}
    Page = 1
    Most = 2
    SeekPages = 2
    FirstHeld = 2
    LastHeld = 2
    Ours = {2}
    MaxNumber = 3
    MaxOpens = 2
    MaxActs = 1
    MaxCalls = 2
SPECIFICATION DaemonSpec
INVARIANTS
    DaemonTypeOK
PROPERTIES
    OneDaemonServes
    DaemonsLeave
    ConnectionIsFaithful
    AccountMovesWhole
    OfferIsTheLatest
    ScreenFollowsTheReader
CHECK_DEADLOCK FALSE
