\* Four callers share a bucket of three tokens, two of which come every three
\* units of time.
SPECIFICATION FairLimiterSpec
CONSTANTS
    Callers = {c1, c2, c3, c4}
    Unit = 3
    Rate = 2
    Burst = 3
INVARIANTS
    WithinRate
PROPERTIES
    SomebodyProceeds
