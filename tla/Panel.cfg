\* Two requests, rows, profiles and nodes; every page of the console.
CONSTANTS
    Reqs = {x, y}
    Keys = {k1, k2, k3}
    Subnets <- MCSubnets
    Limits = {1, 2}
    NoLimit = NoLimit
    Attempts = 2
    Threshold = 2
    MaxArrivals = 4
    MaxMeddling = 1
    Rows = {x, y}
    None = None
    Kinds = {"user", "squad", "node", "host", "region", "srr", "brand", "meta", "hysteria",
             "xray", "amneziawg", "naive", "shadowsocks", "mtproto", "mieru"}
    MaxEvents = 4
    Profiles = {x, y}
    Sites = {n1, n2}
    NoProfile = NoProfile
    MaxClicks = 3
    MaxTrouble = 1
    Tabs = {x, y}
    MaxTokens = 2
    MaxMoves = 5
    Watchers = {x, y}
    Calls = {n1, n2}
    MaxAsks = 3
    MaxChanges = 1
    MaxMishaps = 2
    Tested = {x, y}
    Spots = {n1, n2}
    NoSubject = NoSubject
    MaxTests = 2
    MaxShifts = 1
SPECIFICATION PanelSpec
SYMMETRY Symmetry
INVARIANTS
    PanelTypeOK
    PeersExplained
    RoomExplained
    FailuresExplained
    TypingExplained
    ListExplained
    EventsExplained
    RowsExplained
PROPERTIES
    SaveExplained
    DeployExplained
    SessionKept
    FiguresInOrder
CHECK_DEADLOCK FALSE
