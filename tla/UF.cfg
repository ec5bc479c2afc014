\* Two subscribers, two loops, a pool that moves twice.
SPECIFICATION FairSpec
CONSTANTS
    Subscribers = {s1, s2}
    Prices = {1, 2}
    Cap = 1
    MaxLoops = 2
    MaxMoves = 2
INVARIANTS
    PolledIffSubscribed
    UpToDate
PROPERTIES
    NewestWins
    CopiesOnlyOpen
    CloseWillReturn
CHECK_DEADLOCK FALSE
