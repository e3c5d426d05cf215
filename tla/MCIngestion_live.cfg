\* Clients that keep sending, faults, and a ledger row removed under them.
SPECIFICATION FairSpec
CONSTANTS
    Requests = {r1, r2}
    Keys = {k1, bad}
    UsableKeys = {k1}
    Hashes = {h1}
    TicketIds = {t1, t2, t3}
    NoRow = NoRow
    NoHash = NoHash
    NoKey = NoKey
    NoTicket = NoTicket
    MaxFaults = 2
    MaxPrunes = 1
CHECK_DEADLOCK FALSE
PROPERTIES
    EventuallyAnswered
    EventuallyCompleted
