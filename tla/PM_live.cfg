\* Two events at one price through a channel of capacity one.
SPECIFICATION FairSpec
CONSTANTS
    None = None
    MaxLevels = 2
    Prices = {1, 2, 3}
    Positions = {p1}
    Workers = {w1, w2}
    Callers = {h1}
    ChanCap = 1
    Plans <- LivePlan
    NewLevels = {}
    Deadlines = {}
    MaxNow = 0
    OnlineOps = {"open"}
    OfflineOps = {"open"}
    MaxOps = 0
    Faults = {"swap", "circuitOpen", "getFee", "storeGet"}
    MaxFaults = 1
PROPERTIES
    EventsAreHandled
    SwapsAreReported
CHECK_DEADLOCK FALSE
