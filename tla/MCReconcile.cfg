\* Timing: the interval is longer than a finished job's age and its lag, 8 > 5 + 2.
\* Backlog: four tickets, batches of two, and runs that fail only so often.
SPECIFICATION MCSpec
CONSTANTS
    Sweepers = {s1, s2}
    Interval = 8
    DegradedAfter = 1
    MaxLate = 1
    Lag = 2
    Tickets = {t1, t2, t3, t4}
    BatchSize = 2
    Poison = {}
    MaxFaults = 1
    MaxWrites = 1
INVARIANTS
    
    
    NoStampede
 
CHECK_DEADLOCK FALSE
