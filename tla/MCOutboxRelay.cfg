\* Two relays, two messages in one batch, three failures.
SPECIFICATION FairSpec
CONSTANTS
    Messages = {m1, m2}
    Relays = {r1, r2}
    None = None
    BatchSize = 2
    MaxAttempts = 2
    MaxFailures = 3
CHECK_DEADLOCK FALSE
INVARIANTS
    DuplicatesNeedFailures
    GivesUpInTime
PROPERTIES
    ImplementsDelivery
    EventuallyDecided
