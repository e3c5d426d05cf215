\* One key and its ticket, two workers, one dead letter, one fault.
SPECIFICATION FairSpec
CONSTANTS
    Keys = {k1}
    Tickets = {t1}
    Workers = {w1, w2}
    DeadIds = {d1}
    None = None
    MaxFaults = 1
INVARIANT
    ReferencesHold
PROPERTIES
    SurvivingKeyKeepsTicket
    
    TicketTakesItsEvent
    NoEffectOfAGoneTicket
    SettledLeavesNothing
