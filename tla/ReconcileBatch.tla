--------------------------- MODULE ReconcileBatch ---------------------------
(***************************************************************************)
(* Which of many stranded tickets a pass of the reconcile sweep re-drives: *)
(* the SELECT takes the LIMIT oldest by updated_at, and only a run that    *)
(* writes its ticket moves it to the back.                                 *)
(*                                                                         *)
(* A pass is one step here: its awaits are interleaved in Pipeline, and    *)
(* its timer is in ReconcileClock.                                         *)
(***************************************************************************)
EXTENDS Naturals, FiniteSets

CONSTANTS
    Tickets,    \* all of them DEGRADED at first
    BatchSize,  \* RECONCILE_BATCH_SIZE
    Poison,     \* tickets whose run always fails, for the last time, unwritten
    MaxFaults,  \* bound: runs of other tickets that fail like that, lost jobs
    MaxWrites   \* bound: writes by jobs of the upgrade chain

\* What the constants stand for.
BatchAssumption ==
    /\ IsFiniteSet(Tickets)
    /\ BatchSize \in Nat \ {0}
    /\ Poison \subseteq Tickets
    /\ MaxFaults \in Nat
    /\ MaxWrites \in Nat

VARIABLES
    degraded,  \* the tickets that are DEGRADED
    ahead,     \* of each of them, the ones with an older updated_at
    young,     \* those of them younger than RECONCILE_DEGRADED_AFTER_MS
    job,       \* the reconcile job of each ticket
    moved,     \* history: tickets written by another job while theirs waited
    faults,
    writes

times == <<degraded, ahead, young>>
vars == <<times, job, moved, faults, writes>>

\* The values of updated_at put the tickets of a set in an order.
Ordered(set) ==
    /\ \A t \in set : ahead[t] \subseteq set \ {t}
    /\ \A t, u \in set : t # u => t \in ahead[u] \/ u \in ahead[t]
    /\ \A t, u \in set : t \in ahead[u] => ahead[t] \subseteq ahead[u]

Init ==
    /\ degraded = Tickets
    /\ ahead \in [Tickets -> SUBSET Tickets] /\ Ordered(Tickets)
    /\ young = Tickets
    /\ job = [t \in Tickets |-> "none"]
    /\ moved = {}
    /\ faults = 0
    /\ writes = 0

Waiting == {t \in Tickets : job[t] = "waiting"}

\* The threshold passes for the oldest that is still young.
Ages ==
    /\ \E t \in young : ahead[t] \cap young = {} /\ young' = young \ {t}
    /\ UNCHANGED <<degraded, ahead, job, moved, faults, writes>>

Stranded == degraded \ young

Bug_NoLimit == Stranded

\* ORDER BY t.updated_at ASC LIMIT RECONCILE_BATCH_SIZE
Batch == {t \in Stranded : Cardinality(ahead[t] \cap Stranded) < BatchSize}

\* The add is ignored while BullMQ holds the id, unless its job had failed.
Free(t) == job[t] \in {"none", "failed"}

Pass ==
    /\ \E t \in Batch : Free(t)
    /\ job' = [t \in Tickets |-> IF t \in Batch /\ Free(t) THEN "waiting" ELSE job[t]]
    /\ UNCHANGED <<times, moved, faults, writes>>

Bug_KeepsUpdatedAt(t) == UNCHANGED times

\* updated_at = now(): the ticket is the youngest.
Written(t) ==
    /\ ahead' = [u \in Tickets |-> IF u = t THEN degraded \ {t} ELSE ahead[u] \ {t}]
    /\ young' = young \cup {t}
    /\ UNCHANGED degraded

\* It is ENRICHED: no sweep finds it any more.
Settled(t) ==
    /\ degraded' = degraded \ {t}
    /\ ahead' = [u \in Tickets |-> IF u = t THEN {} ELSE ahead[u] \ {t}]
    /\ young' = young \ {t}

\* The run of a reconcile job ends.
Enriches(t) ==
    /\ job[t] = "waiting" /\ t \notin Poison
    /\ job' = [job EXCEPT ![t] = "completed"]
    /\ Settled(t)
    /\ moved' = moved \ {t}
    /\ UNCHANGED <<faults, writes>>

Degrades(t) ==
    /\ job[t] = "waiting" /\ t \notin Poison
    /\ job' = [job EXCEPT ![t] = "completed"]
    /\ IF t \in degraded THEN Written(t) ELSE UNCHANGED times
    /\ moved' = moved \ {t}
    /\ UNCHANGED <<faults, writes>>

\* It is dead-lettered and the ticket stays as it was; or Redis lost the job.
Fails(t) ==
    /\ job[t] = "waiting"
    /\ job' \in {[job EXCEPT ![t] = "failed"], [job EXCEPT ![t] = "none"]}
    /\ moved' = moved \ {t}
    /\ IF t \in Poison
       THEN UNCHANGED faults
       ELSE faults < MaxFaults /\ faults' = faults + 1
    /\ UNCHANGED <<times, writes>>

\* A job of the ticket's upgrade chain degrades it once more, or enriches it.
ChainWrites(t) ==
    /\ t \in degraded
    /\ writes < MaxWrites
    /\ writes' = writes + 1
    /\ Written(t) \/ Settled(t)
    /\ moved' = IF job[t] = "waiting" THEN moved \cup {t} ELSE moved
    /\ UNCHANGED <<job, faults>>

\* removeOnComplete, removeOnFail.
Dropped(t) ==
    /\ job[t] \in {"completed", "failed"}
    /\ job' = [job EXCEPT ![t] = "none"]
    /\ UNCHANGED <<times, moved, faults, writes>>

Next ==
    \/ Ages \/ Pass
    \/ \E t \in Tickets :
          Enriches(t) \/ Degrades(t) \/ Fails(t) \/ ChainWrites(t) \/ Dropped(t)

Spec == Init /\ [][Next]_vars

\* Time, the interval timer, the workers, and the age of finished jobs.
Fairness ==
    /\ WF_vars(Ages) /\ WF_vars(Pass)
    /\ \A t \in Tickets :
          WF_vars(Enriches(t) \/ Degrades(t) \/ Fails(t)) /\ WF_vars(Dropped(t))

FairSpec == Spec /\ Fairness

-----------------------------------------------------------------------------

TypeOK ==
    /\ degraded \subseteq Tickets
    /\ ahead \in [Tickets -> SUBSET Tickets]
    /\ young \subseteq degraded
    /\ job \in [Tickets -> {"none", "waiting", "completed", "failed"}]
    /\ moved \subseteq Waiting
    /\ faults \in 0 .. MaxFaults
    /\ writes \in 0 .. MaxWrites

\* "Bounded by interval + batch size + a per-ticket jobId, so a post-outage
\* backlog drains steadily": tickets being re-driven stay the oldest, so later
\* passes find the same ones, and no number of passes puts more than one batch
\* before the recovering AI, except for tickets that another job wrote meanwhile.
NoStampede == Cardinality(Waiting \ moved) <= BatchSize

\* "A DEGRADED ticket is now guaranteed to be retried until it upgrades": one
\* that stays stranded gets its run, however many are before it.  Of a ticket
\* behind a batch of Poison this is not so (README, section 5).
StrandedIsRedriven ==
    \A t \in Tickets :
        t \in Stranded ~> job[t] = "waiting" \/ t \notin Stranded
=============================================================================
