SPECIFICATION FairSpec
CONSTANTS
    w1 = w1
    w2 = w2
    w3 = w3
    Workers <- ThreeWorkers
    Calls = 1
    Retries = 2
    Interval = 1
    Penalties <- ShortAndLong
    MinPenalty = 2
    MaxTime = 1
    None = None
\* The tasks end when they have made their calls (EveryCallReturns).
CHECK_DEADLOCK FALSE
INVARIANTS
    TypeOK
    LateStartsBounded
PROPERTIES
    KeepsRate
    OwnPenaltyServed
    EveryCallReturns
