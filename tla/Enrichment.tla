----------------------------- MODULE Enrichment ------------------------------
(***************************************************************************)
(* AiEnricher.enrich, as often as the worker slots of one process call it: *)
(* a retry loop around the circuit breaker they share (opossum, external)  *)
(* around the call of the model.  A call is in flight between two awaits,  *)
(* so the breaker it comes back to may not be the one it left.             *)
(*                                                                         *)
(* When the breaker opens is abstract: any failure may be the one that     *)
(* takes the error rate over the threshold.                                *)
(***************************************************************************)
EXTENDS Naturals

CONSTANTS
    Calls,        \* worker slots
    Configured,   \* whether MISTRAL_API_KEY is set
    MaxRetries,   \* MISTRAL_MAX_RETRIES
    MaxOutages    \* bound: how often the model goes down

ASSUME EnrichmentAssumption ==
    /\ Configured \in BOOLEAN
    /\ MaxRetries \in Nat
    /\ MaxOutages \in Nat

VARIABLES
    call,      \* where each slot is in enrich(), and in which attempt
    breaker,   \* the state of the breaker
    probing,   \* half-open and its single probe is taken
    healthy,   \* the model answers, and what it answers validates
    outages

vars == <<call, breaker, probing, healthy, outages>>

Idle == [pc |-> "idle", attempt |-> 0]

Init ==
    /\ call = [c \in Calls |-> Idle]
    /\ breaker = "closed"
    /\ probing = FALSE
    /\ healthy = TRUE
    /\ outages = 0

Bug_OpenUnlessClosed(state) == state # "closed"

\* MistralCircuitBreaker.isOpen: not when half-open.
IsOpen(state) == state = "open"

Goto(c, pc) == call' = [call EXCEPT ![c].pc = pc]

\* enrich: degrade at once without a key or behind an open breaker.
Enrich(c) ==
    /\ call[c].pc = "idle"
    /\ call' = [call EXCEPT ![c] =
          IF ~Configured \/ IsOpen(breaker) THEN [pc |-> "DEGRADED", attempt |-> 0]
          ELSE [pc |-> "fire", attempt |-> 1]]
    /\ UNCHANGED <<breaker, probing, healthy, outages>>

LastAttempt(attempt) == attempt >= MaxRetries + 1

\* The catch of callWithRetry: give up, or sleep and try again; "state" is the
\* breaker's after the failure.
Caught(c, state) ==
    Goto(c, IF IsOpen(state) \/ LastAttempt(call[c].attempt) THEN "DEGRADED" ELSE "sleep")

Admits == breaker = "closed" \/ (breaker = "halfOpen" /\ ~probing)

\* fire: the call goes out, or the breaker rejects it.
Fire(c) ==
    /\ call[c].pc = "fire"
    /\ IF Admits
       THEN Goto(c, "out") /\ probing' = (breaker = "halfOpen")
       ELSE Caught(c, breaker) /\ UNCHANGED probing
    /\ UNCHANGED <<breaker, healthy, outages>>

Bug_ProbeGoesOn == UNCHANGED probing

\* Whoever answers a half-open breaker, it waits for its probe no longer.
ProbeIsOver == probing' = FALSE

\* classify returns a validated result; any success closes a half-open breaker.
Succeeds(c) ==
    /\ call[c].pc = "out" /\ healthy
    /\ Goto(c, "ENRICHED")
    /\ breaker' = IF breaker = "halfOpen" THEN "closed" ELSE breaker
    /\ ProbeIsOver
    /\ UNCHANGED <<healthy, outages>>

\* Timeout, non-2xx, no JSON, wrong shape: all one TransientEnrichmentError.
\* Any failure re-opens a half-open breaker, and some failure opens a closed one.
Fails(c) ==
    /\ call[c].pc = "out" /\ ~healthy
    /\ \E state \in {"open", "closed"} :
          /\ breaker # "closed" => state = "open"
          /\ breaker' = state
          /\ Caught(c, state)
    /\ ProbeIsOver
    /\ UNCHANGED <<healthy, outages>>

Bug_NotCounted(attempt) == attempt

Following(attempt) == attempt + 1

\* The backoff is over.
Wakes(c) ==
    /\ call[c].pc = "sleep"
    /\ call' = [call EXCEPT ![c] = [pc |-> "fire", attempt |-> Following(@.attempt)]]
    /\ UNCHANGED <<breaker, probing, healthy, outages>>

\* enrich() has returned; the slot goes on to another job.
Returned(c) ==
    /\ call[c].pc \in {"ENRICHED", "DEGRADED"}
    /\ call' = [call EXCEPT ![c] = Idle]
    /\ UNCHANGED <<breaker, probing, healthy, outages>>

\* CIRCUIT_BREAKER_RESET_MS after the breaker opened.
ResetTimeout ==
    /\ breaker = "open"
    /\ breaker' = "halfOpen"
    /\ probing' = FALSE
    /\ UNCHANGED <<call, healthy, outages>>

GoesDown ==
    /\ healthy /\ outages < MaxOutages
    /\ healthy' = FALSE
    /\ outages' = outages + 1
    /\ UNCHANGED <<call, breaker, probing>>

ComesUp ==
    /\ ~healthy
    /\ healthy' = TRUE
    /\ UNCHANGED <<call, breaker, probing, outages>>

Next ==
    \/ \E c \in Calls :
          Enrich(c) \/ Fire(c) \/ Succeeds(c) \/ Fails(c) \/ Wakes(c) \/ Returned(c)
    \/ ResetTimeout \/ GoesDown \/ ComesUp

Spec == Init /\ [][Next]_vars

\* Node runs the slots, jobs keep coming, timers fire.  The model owes nothing.
Fairness ==
    /\ \A c \in Calls :
          WF_vars(Enrich(c) \/ Fire(c) \/ Succeeds(c) \/ Fails(c) \/ Wakes(c) \/ Returned(c))
    /\ WF_vars(ResetTimeout)

FairSpec == Spec /\ Fairness

-----------------------------------------------------------------------------

Outcome == {"ENRICHED", "DEGRADED"}

TypeOK ==
    /\ call \in [Calls -> [pc : {"idle", "fire", "out", "sleep"} \cup Outcome,
                           attempt : 0 .. MaxRetries + 1]]
    /\ breaker \in {"closed", "open", "halfOpen"}
    /\ probing \in BOOLEAN
    /\ healthy \in BOOLEAN
    /\ outages \in 0 .. MaxOutages

\* A half-open breaker that lets nothing through waits for a call that is on its
\* way, whatever late answers and failures of other slots arrive beside it: one
\* that waited for a probe nobody is making would degrade every ticket for good.
ProbeIsOut == probing => breaker = "halfOpen" /\ \E c \in Calls : call[c].pc = "out"

\* "Always returns a usable result": whatever the model does for however long,
\* enrich() comes back, with one outcome or the other.
EveryCallReturns ==
    \A c \in Calls : call[c].pc = "fire" ~> call[c].pc \in Outcome

\* Once the model is healthy for good, so is enrichment: no breaker stays open
\* or half-open for ever, and in the end every call is ENRICHED.
Recovered ==
    (<>[]healthy /\ Configured) => <>[](\A c \in Calls : call[c].pc # "DEGRADED")
=============================================================================
