----------------------------- MODULE DemoClient -----------------------------
(***************************************************************************)
(* The landing page's script: it submits a ticket, polls it until it is    *)
(* classified, then asks the sink for its notification, and paints four    *)
(* stages.  A callback runs to its next await; a request that is sent      *)
(* comes back any time later, with an answer from some moment in between.  *)
(***************************************************************************)
EXTENDS Naturals

CONSTANTS
    MaxSubmits,  \* bound: tickets sent from one page
    MaxTries,    \* polls before the page gives up (40)
    MaxChecks,   \* questions to the sink before it gives up (15)
    Overlap,     \* bound: GETs in flight of one poll, and checks at a time
    Patient,     \* the user waits until the page has come to rest
    MaxFaults    \* bound: requests that fail

\* What the constants stand for.
DemoAssumption ==
    /\ MaxSubmits \in Nat /\ MaxTries \in Nat /\ MaxChecks \in Nat \ {0}
    /\ Overlap \in Nat \ {0} /\ Patient \in BOOLEAN /\ MaxFaults \in Nat

Tickets == 1 .. MaxSubmits
Nobody == 0
Slots == 1 .. Overlap

VARIABLES
    sent,        \* tickets sent so far
    posting,     \* the POST is in flight and the button disabled
    current,     \* the ticket under inspection
    pollTimer,   \* the interval the page remembers, by its ticket
    intervals,   \* the intervals that run, by the ticket that started them
    tries,       \* the counter in the closure of each
    gets,        \* GET /tickets/:id in flight
    checks,      \* checkDelivery, by slot
    classified,  \* the stage as painted, and the ticket the answer was of
    notified,
    server,      \* what the service would answer of each ticket
    faults

vars == <<sent, posting, current, pollTimer, intervals, tries, gets, checks, classified,
          notified, server, faults>>
painted == <<classified, notified>>
polls == <<pollTimer, intervals, tries, gets>>

Blank == [state |-> "", of |-> Nobody]
Active == [state |-> "active", of |-> Nobody]
Done(t) == [state |-> "done", of |-> t]

NoCheck == [pc |-> "none", of |-> Nobody, asked |-> 0, seen |-> FALSE]

Init ==
    /\ sent = 0 /\ posting = FALSE /\ current = Nobody
    /\ pollTimer = Nobody /\ intervals = {} /\ tries = [t \in Tickets |-> 0]
    /\ gets = {} /\ checks = [s \in Slots |-> NoCheck]
    /\ classified = Blank /\ notified = Blank
    /\ server = [t \in Tickets |-> [settled |-> FALSE, delivered |-> FALSE]]
    /\ faults = 0

Fault == faults < MaxFaults /\ faults' = faults + 1

AtRest == ~posting /\ intervals = {} /\ gets = {} /\ \A s \in Slots : checks[s] = NoCheck

ResetPipeline == classified' = Blank /\ notified' = Blank

\* submitTicket up to its await: only the remembered interval is stopped.
Submit ==
    /\ ~posting /\ sent < MaxSubmits
    /\ Patient => AtRest
    /\ posting' = TRUE
    /\ intervals' = intervals \ {pollTimer}
    /\ ResetPipeline
    /\ UNCHANGED <<sent, current, pollTimer, tries, gets, checks, server, faults>>

\* tick() sends its GET, for the ticket that is current now.
Get(poll, first) ==
    /\ tries' = [tries EXCEPT ![poll] = IF @ > MaxTries THEN @ ELSE @ + 1]
    /\ \E s \in Slots :
          /\ \A g \in gets : g.poll = poll => g.slot # s
          /\ gets' = gets \cup {[poll |-> poll, slot |-> s, first |-> first, of |-> current',
                                 seen |-> server[current'].settled]}

\* 202: pollTicket sends its first GET.
Accepted ==
    /\ posting
    /\ posting' = FALSE
    /\ sent' = sent + 1
    /\ current' = sent'
    /\ classified' = Active
    /\ Get(current', TRUE)
    /\ UNCHANGED <<pollTimer, intervals, checks, notified, server, faults>>

\* Any other answer, or none.
Rejected ==
    /\ posting
    /\ posting' = FALSE
    /\ Fault
    /\ UNCHANGED <<sent, current, polls, checks, painted, server>>

\* The interval of a poll fires.
Tick(poll) ==
    /\ poll \in intervals
    /\ UNCHANGED current
    /\ Get(poll, FALSE)
    /\ UNCHANGED <<sent, posting, pollTimer, intervals, checks, painted, server, faults>>

\* What the server answered: as it was when asked, or as it is.
Answers(seen, now) == {seen, now}

\* pollTicket goes on after its first tick; else only the tick ends.
Resume(g, running) ==
    /\ gets' = gets \ {g}
    /\ IF g.first
       THEN pollTimer' = g.poll /\ intervals' = running \cup {g.poll}
       ELSE intervals' = running /\ UNCHANGED pollTimer

Bug_NeverStops == intervals

\* clearInterval(pollTimer)
Stopped == intervals \ {pollTimer}

\* checkDelivery up to its first await, for the ticket that is current now.
CheckDelivery ==
    \E s \in Slots :
        /\ checks[s] = NoCheck
        /\ checks' = [checks EXCEPT ![s] = [pc |-> "asked", of |-> current, asked |-> 1,
                                            seen |-> server[current].delivered]]

\* The rest of tick() once its GET came back.
TickSettled(g) ==
    /\ TRUE \in Answers(g.seen, server[g.of].settled)
    /\ Resume(g, Stopped)
    /\ classified' = Done(g.of)
    /\ notified' = Active
    /\ CheckDelivery
    /\ UNCHANGED <<sent, posting, current, tries, server, faults>>

TickPending(g) ==
    /\ FALSE \in Answers(g.seen, server[g.of].settled)
    /\ Resume(g, IF tries[g.poll] > MaxTries THEN Stopped ELSE intervals)
    /\ UNCHANGED <<sent, posting, current, tries, checks, painted, server, faults>>

\* Not 200: the interval is stopped, though the first tick starts it all the
\* same; or the fetch throws, which ends tick and, if it is the first, pollTicket.
TickFails(g) ==
    /\ Fault
    /\ \/ Resume(g, Stopped)
       \/ gets' = gets \ {g} /\ UNCHANGED <<pollTimer, intervals>>
    /\ UNCHANGED <<sent, posting, current, tries, checks, painted, server>>

\* checkDelivery with the sink's answer: delivered, or not yet and a second's
\* sleep or the end of the loop.
CheckDelivered(s) ==
    LET c == checks[s] IN
    /\ c.pc = "asked"
    /\ TRUE \in Answers(c.seen, server[c.of].delivered)
    /\ checks' = [checks EXCEPT ![s] = NoCheck]
    /\ notified' = Done(c.of)
    /\ UNCHANGED <<sent, posting, current, polls, classified, server, faults>>

CheckMissed(s) ==
    LET c == checks[s] IN
    /\ c.pc = "asked"
    /\ FALSE \in Answers(c.seen, server[c.of].delivered)
    /\ IF c.asked < MaxChecks
       THEN checks' = [checks EXCEPT ![s].pc = "sleep"] /\ UNCHANGED notified
       ELSE checks' = [checks EXCEPT ![s] = NoCheck] /\ notified' = Blank
    /\ UNCHANGED <<sent, posting, current, polls, classified, server, faults>>

CheckAgain(s) ==
    LET c == checks[s] IN
    /\ c.pc = "sleep"
    /\ checks' = [checks EXCEPT ![s] = [@ EXCEPT !.pc = "asked", !.asked = @ + 1,
                                                 !.seen = server[c.of].delivered]]
    /\ UNCHANGED <<sent, posting, current, polls, painted, server, faults>>

\* Not 200 or no count: the consumer is not exposed.  A fetch that throws leaves
\* the stage as it is.
CheckFails(s) ==
    /\ checks[s].pc = "asked"
    /\ Fault
    /\ checks' = [checks EXCEPT ![s] = NoCheck]
    /\ notified' \in {Blank, notified}
    /\ UNCHANGED <<sent, posting, current, polls, classified, server>>

\* The service classifies a ticket, then delivers its notification.
Settles(t) ==
    /\ t <= sent /\ ~server[t].settled
    /\ server' = [server EXCEPT ![t].settled = TRUE]
    /\ UNCHANGED <<sent, posting, current, polls, checks, painted, faults>>

Delivers(t) ==
    /\ server[t].settled /\ ~server[t].delivered
    /\ server' = [server EXCEPT ![t].delivered = TRUE]
    /\ UNCHANGED <<sent, posting, current, polls, checks, painted, faults>>

GetReturns(g) == TickSettled(g) \/ TickPending(g) \/ TickFails(g)
CheckReturns(s) == CheckDelivered(s) \/ CheckMissed(s) \/ CheckFails(s) \/ CheckAgain(s)

Next ==
    \/ Submit \/ Accepted \/ Rejected
    \/ \E t \in Tickets : Tick(t) \/ Settles(t) \/ Delivers(t)
    \/ \E g \in gets : TickSettled(g) \/ TickPending(g) \/ TickFails(g)
    \/ \E s \in Slots : CheckDelivered(s) \/ CheckMissed(s) \/ CheckFails(s) \/ CheckAgain(s)

Spec == Init /\ [][Next]_vars

\* Intervals fire and requests come back.  Nobody has to submit, and the service
\* need not classify or deliver anything.
Fairness ==
    /\ WF_vars(Accepted \/ Rejected)
    /\ \A t \in Tickets : WF_vars(Tick(t))
    /\ WF_vars(\E g \in gets : GetReturns(g))
    /\ \A s \in Slots : WF_vars(CheckReturns(s))

FairSpec == Spec /\ Fairness

-----------------------------------------------------------------------------

TypeOK ==
    /\ sent \in 0 .. MaxSubmits /\ posting \in BOOLEAN
    /\ current \in 0 .. sent /\ pollTimer \in 0 .. sent /\ intervals \subseteq 1 .. sent
    /\ tries \in [Tickets -> 0 .. MaxTries + 1]
    /\ gets \subseteq [poll : Tickets, slot : Slots, first : BOOLEAN, of : Tickets, seen : BOOLEAN]
    /\ checks \in [Slots -> [pc : {"none", "asked", "sleep"}, of : 0 .. sent,
                             asked : 0 .. MaxChecks, seen : BOOLEAN]]
    /\ classified \in {Blank, Active} \cup {Done(t) : t \in Tickets}
    /\ notified \in {Blank, Active} \cup {Done(t) : t \in Tickets}
    /\ server \in [Tickets -> [settled : BOOLEAN, delivered : BOOLEAN]]
    /\ faults \in 0 .. MaxFaults

\* Holds of a Patient user and of no other (README, section 5): "Current ticket
\* under inspection", so a stage painted done was answered for the ticket that is
\* current, and not for one sent before it.
ShownIsCurrent ==
    \A stage \in {classified, notified} : stage.state = "done" => stage.of = current

\* The page comes to rest: no interval or check goes on for ever, whether or not
\* the worker and the sink ever get to the ticket.
ComesToRest == posting ~> AtRest
=============================================================================
