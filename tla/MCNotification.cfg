\* Three runs of one ticket that may end either way, one relay, two failures.
SPECIFICATION FairSpec
CONSTANTS
    Tickets = {t1}
    Runs = {p1, p2, p3}
    Classifications = {Fallback, a, b}
    Fallback = Fallback
    Relays = {r1}
    None = None
    BatchSize = 2
    MaxAttempts = 2
    MaxFailures = 2
CHECK_DEADLOCK FALSE
INVARIANT
    NothingHeardEarly
PROPERTY
    TriageIsHeardOf
