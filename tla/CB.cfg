\* Three workers around a breaker that trips on two failures.
SPECIFICATION BreakerSpec
CONSTANTS
    Workers = {w1, w2, w3}
    MaxFailures = 2
    ResetTimeout = 2
    HalfOpenMaxAttempts = 2
    MaxTime = 7
    MaxRun = 5
SYMMETRY WorkerSymmetry
PROPERTIES
    TripsAtThreshold
    QuietBeforeTrial
    ClosesAfterQuiet
CHECK_DEADLOCK FALSE
