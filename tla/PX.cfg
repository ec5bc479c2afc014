\* Two positions of one owner, whose permits may have the same nonce.
SPECIFICATION Spec
CONSTANTS
    Positions = {p1, p2}
    Nobody = Nobody
    Callers = {c1}
    Size = 100
    Levels = 2
    Portion = 5000
    Trigger = 13
    PriceScale = 10
    UnitIn = 4
    UnitOut = 1
    Prices = {12, 13}
    Slippage = 200
    FeeConfigs <- Fees
    Permits <- Signed
    MinLifetime = 1
    MaxNonce = 1
    MaxNow = 1
    MaxCalls = 1
    MaxFaults = 1
SYMMETRY Symmetry
INVARIANTS
    FlagMeansActivated
    SpentOnlyIfLost
    AllowanceCoversPosition
    SellsAtTrigger
    FeesMatch
CHECK_DEADLOCK FALSE
