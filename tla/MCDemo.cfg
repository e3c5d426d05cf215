\* Sink: four keys over a map of two.
\* Page: two tickets, the second sent when the page has come to rest.
SPECIFICATION MCSpec
CONSTANTS
    k1 = k1
    k2 = k2
    k3 = k3
    k4 = k4
    long1 = long1
    long2 = long2
    NoAnswer = NoAnswer
    Headers <- FiveHeaders
    DedupKeys <- FourKeys
    KeyOf <- Slice
    MaxTracked = 2
    MaxCount = 2
    MaxInserts = 7
    MaxSubmits = 2
    MaxTries = 2
    MaxChecks = 2
    Overlap = 2
    Patient = TRUE
    MaxFaults = 1
INVARIANTS
    MapIsBounded
    RecentIsRemembered
 
CHECK_DEADLOCK FALSE
