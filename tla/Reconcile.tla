----------------------------- MODULE Reconcile ------------------------------
(***************************************************************************)
(* The reconcile sweep in two views that share no state: its timing        *)
(* against the jobs of one ticket (ReconcileClock, extended here), and the *)
(* order of its batches over many tickets (ReconcileBatch, as Backlog).    *)
(***************************************************************************)
EXTENDS ReconcileClock, FiniteSets

CONSTANTS Tickets, BatchSize, Poison, MaxFaults, MaxWrites

VARIABLES degraded, ahead, young, jobs, moved, faults, writes

backlogVars == <<degraded, ahead, young, jobs, moved, faults, writes>>

Backlog == INSTANCE ReconcileBatch WITH job <- jobs

ASSUME BacklogAssumption == Backlog!BatchAssumption

\* See ReconcileBatch: however many passes, no more than a batch of re-driven
\* tickets is before the AI, but for those another job wrote meanwhile.
NoStampede == Backlog!NoStampede

\* See ReconcileBatch: a ticket that stays stranded gets its run in the end.
StrandedIsRedriven == Backlog!StrandedIsRedriven
=============================================================================
