\* Calls of the host and the expiry monitor race with two workers, before and after Run;
\* every kind of failure, crashes and restarts.
SPECIFICATION Spec
CONSTANTS
    None = None
    MaxLevels = 2
    Prices = {1, 2}
    Positions = {p1}
    Workers = {w1, w2}
    Callers = {h1}
    ChanCap = 2
    Plans <- RacePlans
    NewLevels <- AddedTake
    Deadlines = {2}
    MaxNow = 1
    OnlineOps = {"open", "cancel", "updateLevel", "addLevel", "removeLevel", "renew", "expire"}
    OfflineOps = {"open", "cancel", "updateLevel", "addLevel", "removeLevel", "renew"}
    MaxOps = 1
    Faults = {"storeGet", "getFee", "circuitOpen", "activate", "swap", "sendAccepted", "storeUpdate", "crash"}
    MaxFaults = 1
SYMMETRY WorkerSymmetry
INVARIANTS
    DoubleSwapOnlyIfRecordLost
    SizeConserved
    ReportedIsRecorded
    ActiveLevelWatched
PROPERTIES
    TerminalStaysTerminal
CHECK_DEADLOCK FALSE
