\* More workers than trial calls the configuration allows.
SPECIFICATION BreakerSpec
CONSTANTS
    Workers = {w1, w2, w3}
    MaxFailures = 2
    ResetTimeout = 2
    HalfOpenMaxAttempts = 2
    MaxTime = 7
    MaxRun = 5
SYMMETRY WorkerSymmetry
INVARIANTS
    TrialCallsAreLimited
CHECK_DEADLOCK FALSE
