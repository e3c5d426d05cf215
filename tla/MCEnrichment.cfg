\* Three slots share the breaker; the model fails twice.
SPECIFICATION FairSpec
CONSTANTS
    Calls = {c1, c2, c3}
    Configured = TRUE
    MaxRetries = 1
    MaxOutages = 2
CHECK_DEADLOCK FALSE
INVARIANT ProbeIsOut
PROPERTIES
    EveryCallReturns
    Recovered
