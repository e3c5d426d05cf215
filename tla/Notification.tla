----------------------------- MODULE Notification ------------------------------
(***************************************************************************)
(* From a classification to the webhook: the runs of TicketProcessor that  *)
(* write tickets and their outbox rows, composed with the relays that      *)
(* deliver the rows.  Unlike Pipeline, a ticket has the classification     *)
(* itself, an AI call may answer each time differently, and a row carries  *)
(* what the run that inserted it had to say.  How a run comes about (job,  *)
(* retry, stalled job, replay, reconcile) is Pipeline's business: here any *)
(* number of runs of any ticket may overlap.                               *)
(***************************************************************************)
EXTENDS Naturals

CONSTANTS
    Tickets,
    Runs,              \* bound: runs of TicketProcessor.process
    Classifications,   \* what enrich() may come back with
    Fallback,          \* ... when the AI is unavailable
    Relays, None, BatchSize, MaxAttempts, MaxFailures   \* see OutboxRelay

Messages == Tickets \X {"triaged", "upgraded"}

VARIABLES
    ticket,    \* the classification of each ticket, None at first
    run,       \* the runs
    payload,   \* the payload of each outbox row
    row, relay, late, received, failures   \* see OutboxRelay

Relay == INSTANCE OutboxRelay

ASSUME NotificationAssumption ==
    /\ None \notin Classifications \cup {Fallback} \cup Messages \cup Relay!Row
    /\ BatchSize \in Nat \ {0} /\ MaxAttempts \in Nat \ {0} /\ MaxFailures \in Nat

relayVars == <<row, relay, late, received, failures>>
vars == <<ticket, run, payload, relayVars>>

StatusOf(c) == CASE c = None     -> "PENDING"
                 [] c = Fallback -> "DEGRADED"
                 [] c \notin {None, Fallback} -> "ENRICHED"

Idle(pc) == [pc |-> pc, ticket |-> None, prior |-> None, outcome |-> None]

Init ==
    /\ ticket = [t \in Tickets |-> None]
    /\ run = [r \in Runs |-> Idle("load")]
    /\ payload = [m \in Messages |-> None]
    /\ Relay!Init

\* findByIdOrThrow and enrich(): both are used by the write.
Load(r, t) ==
    /\ run[r].pc = "load"
    /\ \E c \in Classifications :
          run' = [run EXCEPT ![r] = [pc |-> "write", ticket |-> t,
                                     prior |-> StatusOf(ticket[t]), outcome |-> c]]
    /\ UNCHANGED <<ticket, payload, relayVars>>

Overwrites(c, outcome) == StatusOf(outcome) = "ENRICHED" \/ StatusOf(c) # "ENRICHED"

Bug_OnlyUpgrades(prior, outcome) ==
    IF prior = "DEGRADED" /\ StatusOf(outcome) = "ENRICHED" THEN {"upgraded"} ELSE {}

\* The event of the transition as the run saw it, if any.
Emission(prior, outcome) ==
    CASE prior = "PENDING" -> {"triaged"}
      [] prior = "DEGRADED" /\ StatusOf(outcome) = "ENRICHED" -> {"upgraded"}
      [] OTHER -> {}

\* ON CONFLICT (dedup_key) DO NOTHING; the version in the key is always "v1".
Stored(m, c) == IF row[m] = None THEN c ELSE payload[m]

\* OutboxService.emit.
Emit(m, c) ==
    /\ IF row[m] = None THEN Relay!Emit(m) ELSE UNCHANGED relayVars
    /\ payload' = [payload EXCEPT ![m] = Stored(m, c)]

EmitEach(t, events, c) ==
    /\ \A e \in events : Emit(<<t, e>>, c)
    /\ events = {} => UNCHANGED <<payload, relayVars>>

\* The transaction of persistAndEmit.
Persist(r) ==
    LET t == run[r].ticket
        c == run[r].outcome
    IN
    /\ run[r].pc = "write"
    /\ IF Overwrites(ticket[t], c)
       THEN /\ ticket' = [ticket EXCEPT ![t] = c]
            /\ EmitEach(t, Emission(run[r].prior, c), c)
       ELSE UNCHANGED <<ticket, payload, relayVars>>
    /\ run' = [run EXCEPT ![r] = Idle("done")]

Bug_EmittedOutside(r) ==
    /\ EmitEach(run[r].ticket, Emission(run[r].prior, run[r].outcome), run[r].outcome)
    /\ UNCHANGED ticket

RolledBack(r) == UNCHANGED <<ticket, payload, relayVars>>

\* It is rolled back, or the worker's process dies before it commits.
Fails(r) ==
    /\ run[r].pc = "write"
    /\ RolledBack(r)
    /\ run' = [run EXCEPT ![r] = Idle("done")]

\* A relay takes a step, a backoff ends or a late request arrives.
RelayStep == Relay!Handle /\ UNCHANGED <<ticket, run, payload>>

Next ==
    \/ \E r \in Runs : (\E t \in Tickets : Load(r, t)) \/ Persist(r) \/ Fails(r)
    \/ RelayStep

Spec == Init /\ [][Next]_vars

\* Only the relays must go on; no run has to come.
FairSpec == Spec /\ Relay!Fairness

-----------------------------------------------------------------------------

Heard(t, e) == received[<<t, e>>] > 0

\* "A side effect can neither be lost nor fire spuriously": the target hears of a
\* state only when the ticket has reached it for good, however the runs and the
\* relays interleave, and whichever of them fails.
NothingHeardEarly ==
    \A t \in Tickets :
        /\ Heard(t, "triaged") => StatusOf(ticket[t]) # "PENDING"
        /\ Heard(t, "upgraded") => StatusOf(ticket[t]) = "ENRICHED"

\* A key stands for one payload: a consumer that keeps the first delivery of a
\* key and drops the rest has lost nothing by it, whatever later runs emitted.
OnePayloadPerKey == [][\A m \in Messages : row[m] # None => payload'[m] = payload[m]]_vars

\* A committed triage is heard of, or its notification is given up in the open:
\* it is not lost between the commit and the POST.
TriageIsHeardOf ==
    \A t \in Tickets :
        StatusOf(ticket[t]) # "PENDING" ~>
            \/ Heard(t, "triaged")
            \/ row[<<t, "triaged">>] # None /\ row[<<t, "triaged">>].status = "FAILED"

\* Does not hold (README, section 5): "two distinct effects can never
\* accidentally share a key and silently drop one", so what a run commits as the
\* effect of its write is in the outbox.
NoEffectDropped ==
    [][\A r \in Runs :
          run[r].pc = "write" /\ run'[r].pc = "done" /\ ticket' # ticket =>
              \A e \in Emission(run[r].prior, run[r].outcome) :
                  payload'[<<run[r].ticket, e>>] = run[r].outcome]_vars
=============================================================================
