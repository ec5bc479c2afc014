\* Two calls of OpenPosition for one pair, while Run starts, serves and stops.
SPECIFICATION FairSpec
CONSTANTS
    p1 = p1
    p2 = p2
    p3 = p3
    ab = ab
    cd = cd
    Positions = {p1, p2}
    Pairs = {ab}
    PairOf <- TwoPairs
    Workers = {w1}
    ChanCap = 1
    Nobody = Nobody
INVARIANTS
    OneFeeder
    OpenPairsFed
    NoTriggerLost
    CrashOnlyIfLate
PROPERTIES
    RunReturns
CHECK_DEADLOCK FALSE
