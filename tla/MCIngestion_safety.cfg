\* Three clients of one key: a slow claimant, a reclaimer and a bystander.
SPECIFICATION Spec
CONSTANTS
    Requests = {r1, r2, r3}
    Keys = {k1, bad}
    UsableKeys = {k1}
    Hashes = {h1, h2}
    TicketIds = {t1, t2}
    NoRow = NoRow
    NoHash = NoHash
    NoKey = NoKey
    NoTicket = NoTicket
    MaxFaults = 2
    MaxPrunes = 0
CHECK_DEADLOCK FALSE
SYMMETRY Symmetry
INVARIANTS
    TypeOK
    OneTicketPerKey
    ReplayIsWired
    SameAnswer
PROPERTY
    AttachedForGood
