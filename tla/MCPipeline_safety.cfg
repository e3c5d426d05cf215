\* Two slots may run the ticket at once; two failures of any kind.
SPECIFICATION Spec
CONSTANTS
    Tickets = {t1}
    Workers = {w1, w2}
    Operators = {o1, o2}
    Sweepers = {s1}
    DeadIds = {d1}
    None = None
    MaxAttempts = 1
    MaxStalled = 0
    MaxUpgrades = 1
    Failures = {"fault", "crash", "gap", "stall", "flush"}
    MaxFailures = 2
CHECK_DEADLOCK FALSE
SYMMETRY Symmetry
INVARIANTS
    TypeOK
    EffectsFollowState
    OneReplayAtATime
    NoSilentLoss
PROPERTIES
    EnrichedIsFinal
    RefinesLife
