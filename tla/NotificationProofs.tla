-------------------------- MODULE NotificationProofs ---------------------------
(***************************************************************************)
(* The target hears of nothing that has not happened, and never two        *)
(* payloads under one key: for any tickets, runs, relays and failures.     *)
(* What the relays do among themselves is taken from their own proofs, and *)
(* holds of the outbox among the worker's transactions as well.            *)
(***************************************************************************)
EXTENDS Notification, TLAPS

RelayProofs == INSTANCE OutboxRelayProofs

TypeInv ==
    /\ ticket \in [Tickets -> Classifications \cup {None}]
    /\ payload \in [Messages -> Classifications \cup {None}]
    /\ run \in [Runs -> [pc : {"load", "write", "done"}, ticket : Tickets \cup {None},
                         prior : {"PENDING", "DEGRADED", "ENRICHED"} \cup {None},
                         outcome : Classifications \cup {None}]]
    /\ \A r \in Runs : run[r].pc = "write" =>
          run[r].ticket \in Tickets /\ run[r].outcome \in Classifications

\* What the target has received is in the outbox.
HeardIsKept == \A m \in Messages : received[m] > 0 => row[m] # None

\* A row was committed with the write that it announces, which is still good.
RowsAreTrue ==
    \A t \in Tickets :
        /\ row[<<t, "triaged">>] # None => StatusOf(ticket[t]) # "PENDING"
        /\ row[<<t, "upgraded">>] # None => StatusOf(ticket[t]) = "ENRICHED"

IInv == TypeInv /\ RelayProofs!DeliveryInv /\ HeardIsKept /\ RowsAreTrue

-----------------------------------------------------------------------------

LEMMA StatusFacts ==
    /\ StatusOf(None) = "PENDING"
    /\ \A c \in Classifications : StatusOf(c) = IF c = Fallback THEN "DEGRADED" ELSE "ENRICHED"
BY NotificationAssumption DEF StatusOf

\* The constants are what the relays assume them to be.
LEMMA RelayConstants == RelayProofs!RelayAssumption
BY NotificationAssumption DEF RelayProofs!RelayAssumption, RelayProofs!Row, Relay!Row

\* The actions of the relays are those of the module that proves about them.
LEMMA SameActions ==
    /\ \A m \in Messages :
          /\ Relay!Emit(m) => RelayProofs!Emit(m)
          /\ Relay!BackoffEnds(m) => RelayProofs!BackoffEnds(m)
          /\ Relay!ArrivesLate(m) => RelayProofs!ArrivesLate(m)
    /\ \A r \in Relays :
          /\ Relay!Claim(r) => RelayProofs!Claim(r)
          /\ Relay!MarkSent(r) => RelayProofs!MarkSent(r)
          /\ Relay!MarkFailure(r) => RelayProofs!MarkFailure(r)
          /\ Relay!Commit(r) => RelayProofs!Commit(r)
          /\ Relay!LosesConnection(r) => RelayProofs!LosesConnection(r)
          /\ Relay!Dies(r) => RelayProofs!Dies(r)
          /\ \A m \in Messages :
                /\ Relay!Delivered(r, m) => RelayProofs!Delivered(r, m)
                /\ Relay!AnswerLost(r, m) => RelayProofs!AnswerLost(r, m)
                /\ Relay!Refused(r, m) => RelayProofs!Refused(r, m)
                /\ Relay!TimedOut(r, m) => RelayProofs!TimedOut(r, m)
<1>1. \A m \in Messages : Relay!Emit(m) => RelayProofs!Emit(m)
    BY DEF Relay!Emit, RelayProofs!Emit
<1>2. \A m \in Messages : Relay!BackoffEnds(m) => RelayProofs!BackoffEnds(m)
    BY DEF Relay!BackoffEnds, RelayProofs!BackoffEnds
<1>3. \A m \in Messages : Relay!ArrivesLate(m) => RelayProofs!ArrivesLate(m)
    BY DEF Relay!ArrivesLate, RelayProofs!ArrivesLate
<1>4. ASSUME NEW r \in Relays, Relay!Claim(r) PROVE RelayProofs!Claim(r)
    <2>1. Relay!Claimable = RelayProofs!Claimable
        BY Zenon DEF Relay!Claimable, RelayProofs!Claimable, Relay!Locked, RelayProofs!Locked,
               Relay!Holds, RelayProofs!Holds
    <2>2. Relay!Idle = RelayProofs!Idle
        BY Zenon DEF Relay!Idle, RelayProofs!Idle, Relay!NoWork, RelayProofs!NoWork
    <2>3. ASSUME NEW S PROVE Relay!Cardinality(S) = RelayProofs!Cardinality(S)
        BY Zenon DEF Relay!Cardinality, RelayProofs!Cardinality
    <2> QED BY <1>4, <2>1, <2>2, <2>3, Zenon DEF Relay!Claim, RelayProofs!Claim
<1>5. \A r \in Relays : Relay!MarkSent(r) => RelayProofs!MarkSent(r)
    BY Zenon DEF Relay!MarkSent, RelayProofs!MarkSent, Relay!Statement, RelayProofs!Statement,
           Relay!GivenUp, RelayProofs!GivenUp, Relay!Idle, RelayProofs!Idle,
           Relay!NoWork, RelayProofs!NoWork
<1>6. \A r \in Relays : Relay!MarkFailure(r) => RelayProofs!MarkFailure(r)
    BY Zenon DEF Relay!MarkFailure, RelayProofs!MarkFailure, Relay!Statement, RelayProofs!Statement,
           Relay!GivenUp, RelayProofs!GivenUp, Relay!Idle, RelayProofs!Idle,
           Relay!NoWork, RelayProofs!NoWork, Relay!Rescheduled, RelayProofs!Rescheduled,
           Relay!Exhausted, RelayProofs!Exhausted
<1>7. \A r \in Relays : Relay!Commit(r) => RelayProofs!Commit(r)
    BY Zenon DEF Relay!Commit, RelayProofs!Commit, Relay!Holds, RelayProofs!Holds,
           Relay!Idle, RelayProofs!Idle, Relay!NoWork, RelayProofs!NoWork
<1>8. \A r \in Relays : Relay!LosesConnection(r) => RelayProofs!LosesConnection(r)
    BY Zenon DEF Relay!LosesConnection, RelayProofs!LosesConnection, Relay!Fail, RelayProofs!Fail
<1>9. \A r \in Relays : Relay!Dies(r) => RelayProofs!Dies(r)
    BY Zenon DEF Relay!Dies, RelayProofs!Dies, Relay!Fail, RelayProofs!Fail,
           Relay!Idle, RelayProofs!Idle, Relay!NoWork, RelayProofs!NoWork
<1>10. \A r \in Relays, m \in Messages : Relay!Delivered(r, m) => RelayProofs!Delivered(r, m)
    BY Zenon DEF Relay!Delivered, RelayProofs!Delivered, Relay!Answered, RelayProofs!Answered
<1>11. \A r \in Relays, m \in Messages : Relay!AnswerLost(r, m) => RelayProofs!AnswerLost(r, m)
    BY Zenon DEF Relay!AnswerLost, RelayProofs!AnswerLost, Relay!Answered, RelayProofs!Answered,
           Relay!Fail, RelayProofs!Fail
<1>12. \A r \in Relays, m \in Messages : Relay!Refused(r, m) => RelayProofs!Refused(r, m)
    BY Zenon DEF Relay!Refused, RelayProofs!Refused, Relay!Answered, RelayProofs!Answered,
           Relay!Fail, RelayProofs!Fail
<1>13. \A r \in Relays, m \in Messages : Relay!TimedOut(r, m) => RelayProofs!TimedOut(r, m)
    BY Zenon DEF Relay!TimedOut, RelayProofs!TimedOut, Relay!Answered, RelayProofs!Answered,
           Relay!Fail, RelayProofs!Fail
<1> QED BY <1>1, <1>2, <1>3, <1>4, <1>5, <1>6, <1>7, <1>8, <1>9, <1>10, <1>11, <1>12, <1>13

LEMMA SameHandling == Relay!Handle => RelayProofs!Handle
BY SameActions DEF Relay!Handle, RelayProofs!Handle

LEMMA SameInit == Relay!Init => RelayProofs!Init
BY Zenon DEF Relay!Init, RelayProofs!Init, Relay!Idle, RelayProofs!Idle, Relay!NoWork, RelayProofs!NoWork

\* What a transaction inserts: at most one row, if there is none of that key.
LEMMA EmitFacts ==
    ASSUME TypeInv, RelayProofs!DeliveryInv,
           NEW t \in Tickets, NEW prior, NEW c \in Classifications,
           EmitEach(t, Emission(prior, c), c)
    PROVE  /\ payload' \in [Messages -> Classifications \cup {None}]
           /\ \A m \in Messages : row[m] # None => payload'[m] = payload[m]
           /\ received' = received
           /\ \A m \in Messages : row'[m] # None =>
                 row[m] # None \/ \E e \in Emission(prior, c) : m = <<t, e>>
           /\ \A m \in Messages : row[m] # None => row'[m] # None
           /\ [RelayProofs!Next]_(RelayProofs!vars)
<1>1. row \in [Messages -> RelayProofs!Row \cup {None}]
    BY DEF RelayProofs!DeliveryInv, RelayProofs!TypeInv, RelayProofs!TypeOK
<1>2. PICK events : events = Emission(prior, c)
    OBVIOUS
<1>3. events = {} \/ \E e \in {"triaged", "upgraded"} : events = {e}
    BY <1>2 DEF Emission
<1>4. CASE events = {}
    BY <1>2, <1>4 DEF EmitEach, relayVars, RelayProofs!vars, TypeInv
<1>5. ASSUME NEW e \in {"triaged", "upgraded"}, events = {e}
      PROVE  /\ payload' \in [Messages -> Classifications \cup {None}]
             /\ \A m \in Messages : row[m] # None => payload'[m] = payload[m]
             /\ received' = received
             /\ \A m \in Messages : row'[m] # None => row[m] # None \/ m = <<t, e>>
             /\ \A m \in Messages : row[m] # None => row'[m] # None
             /\ [RelayProofs!Next]_(RelayProofs!vars)
    <2> DEFINE k == <<t, e>>
    <2>1. k \in Messages
        BY DEF Messages
    <2>2. Emit(k, c)
        BY <1>2, <1>5 DEF EmitEach
    <2> HIDE DEF k
    <2>3. payload' = [payload EXCEPT ![k] = IF row[k] = None THEN c ELSE payload[k]]
        BY <2>2 DEF Emit, Stored
    <2>4. CASE row[k] = None
        <3>1. RelayProofs!Emit(k)
            BY <2>1, <2>2, <2>4, SameActions DEF Emit
        <3>2. received' = received /\ \A m \in Messages : m # k => row'[m] = row[m]
            BY <1>1, <3>1 DEF RelayProofs!Emit
        <3>3. RelayProofs!Next
            BY <2>1, <3>1 DEF RelayProofs!Next
        <3> QED BY <2>1, <2>3, <2>4, <3>2, <3>3 DEF TypeInv, k
    <2>5. CASE row[k] # None
        <3>1. UNCHANGED relayVars
            BY <2>2, <2>5 DEF Emit
        <3> QED BY <2>1, <2>3, <2>5, <3>1 DEF TypeInv, relayVars, RelayProofs!vars
    <2> QED BY <2>4, <2>5
<1>6. ASSUME NEW e \in {"triaged", "upgraded"}, events = {e}
      PROVE  \A m : m = <<t, e>> => \E f \in Emission(prior, c) : m = <<t, f>>
    BY <1>2, <1>6
<1> QED BY <1>3, <1>4, <1>5, <1>6

-----------------------------------------------------------------------------

LEMMA IInvInit == Init => IInv
<1> SUFFICES ASSUME Init PROVE IInv
    OBVIOUS
<1>1. TypeInv
    BY DEF Init, Idle, TypeInv
<1>2. RelayProofs!DeliveryInv
    BY SameInit, RelayConstants, RelayProofs!DeliveryInit DEF Init
<1>3. /\ \A m \in Messages : row[m] = None /\ received[m] = 0
      /\ \A t \in Tickets, e \in {"triaged", "upgraded"} : <<t, e>> \in Messages
    BY DEF Init, Relay!Init, Messages
<1> QED BY <1>1, <1>2, <1>3 DEF IInv, HeardIsKept, RowsAreTrue

LEMMA IInvNext == IInv /\ [Next]_vars => IInv'
<1> SUFFICES ASSUME IInv, [Next]_vars PROVE IInv'
    OBVIOUS
<1>0. TypeInv /\ RelayProofs!DeliveryInv /\ HeardIsKept /\ RowsAreTrue
    BY DEF IInv
<1>a. [RelayProofs!Next]_(RelayProofs!vars) => RelayProofs!DeliveryInv'
    BY <1>0, RelayConstants, RelayProofs!DeliveryStep
<1>b. UNCHANGED relayVars => RelayProofs!DeliveryInv'
    BY <1>a DEF relayVars, RelayProofs!vars
<1>c. \A t \in Tickets, e \in {"triaged", "upgraded"} : <<t, e>> \in Messages
    BY DEF Messages
<1>1. ASSUME NEW r \in Runs, NEW t \in Tickets, Load(r, t) PROVE IInv'
    <2>1. PICK c \in Classifications :
            run' = [run EXCEPT ![r] = [pc |-> "write", ticket |-> t,
                                       prior |-> StatusOf(ticket[t]), outcome |-> c]]
        BY <1>1 DEF Load
    <2>2. UNCHANGED <<ticket, payload, relayVars>>
        BY <1>1 DEF Load
    <2>3. StatusOf(ticket[t]) \in {"PENDING", "DEGRADED", "ENRICHED"}
        BY <1>0, StatusFacts DEF TypeInv
    <2>4. TypeInv'
        BY <1>0, <2>1, <2>2, <2>3 DEF TypeInv
    <2> QED BY <1>0, <1>b, <2>2, <2>4 DEF IInv, HeardIsKept, RowsAreTrue, relayVars
<1>2. ASSUME NEW r \in Runs, Persist(r) PROVE IInv'
    <2>1. PICK t \in Tickets, c \in Classifications :
            run[r].pc = "write" /\ t = run[r].ticket /\ c = run[r].outcome
        BY <1>0, <1>2 DEF Persist, TypeInv
    <2>2. run' = [run EXCEPT ![r] = Idle("done")]
        BY <1>2 DEF Persist
    <2>3. CASE ~Overwrites(ticket[t], c)
        <3>1. UNCHANGED <<ticket, payload, relayVars>>
            BY <1>2, <2>1, <2>3 DEF Persist
        <3>2. TypeInv'
            BY <1>0, <2>2, <3>1 DEF TypeInv, Idle
        <3> QED BY <1>0, <1>b, <3>1, <3>2 DEF IInv, HeardIsKept, RowsAreTrue, relayVars
    <2>4. CASE Overwrites(ticket[t], c)
        <3>1. /\ ticket' = [ticket EXCEPT ![t] = c]
              /\ EmitEach(t, Emission(run[r].prior, c), c)
            BY <1>2, <2>1, <2>4 DEF Persist
        <3> DEFINE events == Emission(run[r].prior, c)
        <3>2. /\ payload' \in [Messages -> Classifications \cup {None}]
              /\ received' = received
              /\ \A m \in Messages : row'[m] # None => row[m] # None \/ \E e \in events : m = <<t, e>>
              /\ \A m \in Messages : row[m] # None => row'[m] # None
              /\ RelayProofs!DeliveryInv'
            BY <1>0, <1>a, <3>1, EmitFacts
        <3>3. TypeInv'
            BY <1>0, <2>1, <2>2, <3>1, <3>2 DEF TypeInv, Idle
        <3>4. HeardIsKept'
            BY <1>0, <3>2 DEF HeardIsKept
        <3>5. "upgraded" \in events => StatusOf(c) = "ENRICHED"
            BY DEF Emission
        <3>6. /\ ticket'[t] = c /\ \A u \in Tickets : u # t => ticket'[u] = ticket[u]
              /\ StatusOf(c) # "PENDING"
            BY <1>0, <3>1, StatusFacts DEF TypeInv
        <3>7. StatusOf(ticket[t]) = "ENRICHED" => StatusOf(c) = "ENRICHED"
            BY <2>4 DEF Overwrites
        <3> HIDE DEF events
        <3>8. ASSUME NEW u \in Tickets
              PROVE  /\ row'[<<u, "triaged">>] # None => StatusOf(ticket'[u]) # "PENDING"
                     /\ row'[<<u, "upgraded">>] # None => StatusOf(ticket'[u]) = "ENRICHED"
            <4>1. CASE u = t
                <5>1. row'[<<t, "upgraded">>] # None => row[<<t, "upgraded">>] # None \/ "upgraded" \in events
                    BY <1>c, <3>2
                <5> QED BY <1>0, <3>5, <3>6, <3>7, <4>1, <5>1 DEF RowsAreTrue
            <4>2. CASE u # t
                <5>1. \A e \in {"triaged", "upgraded"} : row'[<<u, e>>] # None => row[<<u, e>>] # None
                    BY <1>c, <3>2, <4>2
                <5> QED BY <1>0, <3>6, <4>2, <5>1 DEF RowsAreTrue
            <4> QED BY <4>1, <4>2
        <3>9. RowsAreTrue'
            BY <3>8 DEF RowsAreTrue, StatusOf
        <3> QED BY <3>2, <3>3, <3>4, <3>9 DEF IInv
    <2> QED BY <2>3, <2>4
<1>3. ASSUME NEW r \in Runs, Fails(r) PROVE IInv'
    <2>1. UNCHANGED <<ticket, payload, relayVars>> /\ run' = [run EXCEPT ![r] = Idle("done")]
        BY <1>3 DEF Fails, RolledBack
    <2>2. TypeInv'
        BY <1>0, <2>1 DEF TypeInv, Idle
    <2> QED BY <1>0, <1>b, <2>1, <2>2 DEF IInv, HeardIsKept, RowsAreTrue, relayVars
<1>4. CASE RelayStep
    <2>1. RelayProofs!Handle /\ UNCHANGED <<ticket, run, payload>>
        BY <1>4, SameHandling DEF RelayStep
    <2>2. RelayProofs!DeliveryInv'
        BY <1>a, <2>1 DEF RelayProofs!Next
    <2>3. \A m \in Messages : /\ row'[m] # None => row[m] # None
                              /\ received'[m] > 0 => received[m] > 0 \/ row[m] # None
        BY <1>0, <2>1, RelayConstants, RelayProofs!NothingUnbidden
    <2>4. \A m \in Messages : row[m] # None => row'[m] # None
        BY <1>0, <2>1, RelayConstants, RelayProofs!RowsStay
    <2>5. TypeInv'
        BY <1>0, <2>1 DEF TypeInv
    <2>6. HeardIsKept'
        BY <1>0, <2>3, <2>4 DEF HeardIsKept
    <2>7. RowsAreTrue'
        <3>1. \A t \in Tickets, e \in {"triaged", "upgraded"} :
                row'[<<t, e>>] # None => row[<<t, e>>] # None
            BY <1>c, <2>3
        <3> QED BY <1>0, <2>1, <3>1 DEF RowsAreTrue
    <2> QED BY <2>2, <2>5, <2>6, <2>7 DEF IInv
<1>5. CASE UNCHANGED vars
    <2>1. UNCHANGED <<ticket, run, payload, relayVars>>
        BY <1>5 DEF vars
    <2> QED BY <1>0, <1>b, <2>1 DEF IInv, TypeInv, HeardIsKept, RowsAreTrue, relayVars
<1> QED BY <1>1, <1>2, <1>3, <1>4, <1>5 DEF Next

\* No side effect fires spuriously: what the target hears of a ticket is true of
\* it, for any number of runs that overlap or fail and relays that do.
THEOREM HeardIsTrue == Spec => []NothingHeardEarly
<1>1. IInv => NothingHeardEarly
    <2>1. \A t \in Tickets, e \in {"triaged", "upgraded"} : <<t, e>> \in Messages
        BY DEF Messages
    <2> QED BY <2>1 DEF IInv, HeardIsKept, RowsAreTrue, NothingHeardEarly, Heard
<1> QED BY <1>1, IInvInit, IInvNext, PTL DEF Spec

\* Whatever later runs emit, a key is only ever delivered with its first payload.
THEOREM KeysKeepTheirPayload == Spec => OnePayloadPerKey
<1>1. IInv /\ [Next]_vars => [\A m \in Messages : row[m] # None => payload'[m] = payload[m]]_vars
    <2> SUFFICES ASSUME IInv, Next
                 PROVE  \A m \in Messages : row[m] # None => payload'[m] = payload[m]
        OBVIOUS
    <2>1. ASSUME NEW r \in Runs, Persist(r)
          PROVE  \A m \in Messages : row[m] # None => payload'[m] = payload[m]
        <3>1. run[r].ticket \in Tickets /\ run[r].outcome \in Classifications
            BY <2>1 DEF IInv, TypeInv, Persist
        <3> QED BY <2>1, <3>1, EmitFacts DEF IInv, Persist
    <2>2. ASSUME UNCHANGED payload
          PROVE  \A m \in Messages : row[m] # None => payload'[m] = payload[m]
        BY <2>2
    <2> QED BY <2>1, <2>2 DEF Next, Load, Fails, RolledBack, RelayStep
<1> QED BY <1>1, IInvInit, IInvNext, PTL DEF Spec, OnePayloadPerKey

-----------------------------------------------------------------------------
(* The relays inside the composition are relays: a run that emits is one of  *)
(* their environment's steps, so what is proved of them holds here as well.  *)

LEMMA RelaySteps == IInv /\ [Next]_vars => [RelayProofs!Next]_(RelayProofs!vars)
<1> SUFFICES ASSUME IInv, [Next]_vars PROVE [RelayProofs!Next]_(RelayProofs!vars)
    OBVIOUS
<1>0. TypeInv /\ RelayProofs!DeliveryInv
    BY DEF IInv
<1>1. ASSUME UNCHANGED relayVars PROVE [RelayProofs!Next]_(RelayProofs!vars)
    BY <1>1 DEF relayVars, RelayProofs!vars
<1>2. ASSUME NEW r \in Runs, Persist(r) PROVE [RelayProofs!Next]_(RelayProofs!vars)
    <2>1. PICK t \in Tickets, c \in Classifications :
            t = run[r].ticket /\ c = run[r].outcome
        BY <1>0, <1>2 DEF Persist, TypeInv
    <2>2. CASE EmitEach(t, Emission(run[r].prior, c), c)
        BY <1>0, <2>2, EmitFacts
    <2>3. CASE UNCHANGED relayVars
        BY <1>1, <2>3
    <2> QED BY <1>2, <2>1, <2>2, <2>3 DEF Persist
<1>3. ASSUME RelayStep PROVE [RelayProofs!Next]_(RelayProofs!vars)
    BY <1>3, SameHandling DEF RelayStep, RelayProofs!Next
<1> QED BY <1>1, <1>2, <1>3 DEF Next, Load, Fails, RolledBack, vars

\* Emitted by runs that overlap, fail and repeat each other, a side effect still
\* has one outcome for good, is confirmed only when it arrived, is given up only
\* after MaxAttempts failures, and arrives again only for a failure.
THEOREM OutboxInContext ==
    Spec => /\ RelayProofs!ImplementsDelivery
            /\ []RelayProofs!DuplicatesNeedFailures
            /\ []RelayProofs!GivesUpInTime
<1>1. Init => RelayProofs!Init
    BY SameInit DEF Init
<1>2. Spec => RelayProofs!Spec
    BY <1>1, IInvInit, IInvNext, RelaySteps, PTL DEF Spec, RelayProofs!Spec
<1>3. RelayProofs!Spec => RelayProofs!ImplementsDelivery
    BY RelayConstants, RelayProofs!DeliveryImplemented
<1>4. RelayProofs!Spec => []RelayProofs!DuplicatesNeedFailures
    BY RelayConstants, RelayProofs!EachDuplicateIsPaidFor
<1>5. RelayProofs!Spec => []RelayProofs!GivesUpInTime
    BY RelayConstants, RelayProofs!GivesUp
<1> QED BY <1>2, <1>3, <1>4, <1>5
=============================================================================
