\* One slot, retries of failed attempts, and two failures of any kind.
SPECIFICATION FairSpec
CONSTANTS
    Tickets = {t1}
    Workers = {w1}
    Operators = {o1}
    Sweepers = {s1}
    DeadIds = {d1, d2}
    None = None
    MaxAttempts = 2
    MaxStalled = 1
    MaxUpgrades = 1
    Failures = {"fault", "crash", "gap", "stall", "flush", "outage"}
    MaxFailures = 2
CHECK_DEADLOCK FALSE
PROPERTIES
    EventuallyTriaged
    
