\* Two subscribers, two generations, a pool that moves twice, one failure;
\* OKX quotes a price some times as high as any of them, or none that is positive.
SPECIFICATION FairSpec
CONSTANTS
    Subscribers = {s1, s2}
    Prices = {1, 20}
    FirstPrice = 1
    OKXPrices = {0, 60}
    MaxDeviation = 200
    MaxGens = 2
    MaxMoves = 2
    MaxEvents = 8
INVARIANTS
    WatchedIffSubscribed
    UpToDate
    ConfirmedByOKX
PROPERTIES
    OlderOnlyFromAnother
    Converges
    OldGenerationsEnd
CHECK_DEADLOCK FALSE
