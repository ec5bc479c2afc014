\* Two workers, two chains, two sweeps.
SPECIFICATION FairSpec
CONSTANTS
    Positions = {p1, p2}
    Chains = {c1, c2}
    ChainOf <- TwoChains
    Workers = {w1, w2}
    MaxMutexes = 3
    Sweeps = 2
INVARIANTS
    SerializedUnlessSwept
PROPERTIES
    WaitersGetTheLock
CHECK_DEADLOCK FALSE
