--------------------------- MODULE ReconcileClock ---------------------------
(***************************************************************************)
(* How long a ticket can stay stranded in DEGRADED: the interval of the    *)
(* sweep against the time a finished reconcile job keeps its jobId.        *)
(*                                                                         *)
(* One ticket and the sweeps of all instances, in whole seconds.  What a   *)
(* pass does to the queue takes no time here; its awaits are interleaved   *)
(* in Pipeline, and the order of a batch is in ReconcileBatch.             *)
(***************************************************************************)
EXTENDS Integers

CONSTANTS
    Sweepers,       \* one ReconcileSweeper per instance
    Interval,       \* RECONCILE_SWEEP_INTERVAL_MS
    DegradedAfter,  \* RECONCILE_DEGRADED_AFTER_MS
    MaxLate,        \* bound: how late the event loop calls a timer
    Lag             \* how late BullMQ drops a job whose age is up

ASSUME ClockAssumption ==
    /\ Interval \in Nat \ {0}
    /\ DegradedAfter \in Nat
    /\ MaxLate \in Nat
    /\ Lag \in Nat

VARIABLES
    job,       \* the job <key>:reconcile:0 of the ticket
    age,       \* seconds since that job finished
    quiet,     \* seconds since the ticket's updated_at
    since,     \* per sweep, seconds since its timer last fired
    refused,   \* per sweep, passes refused since the job finished
    stranded   \* seconds the ticket has been stranded with no job to run

vars == <<job, age, quiet, since, refused, stranded>>

\* removeOnComplete: { age: 30 }, as it was before it was tied to the interval.
Bug_FixedTtl == 30

\* reconcileJobTtlSeconds.
JobTtl == IF Interval \div 2 > 5 THEN Interval \div 2 ELSE 5

Init ==
    /\ job = "none"
    /\ age = 0
    /\ quiet = 0
    /\ since \in [Sweepers -> 0 .. Interval]
    /\ refused = [s \in Sweepers |-> 0]
    /\ stranded = 0

Finished == job \in {"completed", "failed"}

\* Nobody has written the ticket for RECONCILE_DEGRADED_AFTER_MS.
Stranded == quiet > DegradedAfter

\* Timers fire, and BullMQ drops what is too old, before time goes on.
Second ==
    /\ \A s \in Sweepers : since[s] < Interval + MaxLate
    /\ Finished => age < JobTtl + Lag
    /\ since' = [s \in Sweepers |-> since[s] + 1]
    /\ age' = IF Finished THEN age + 1 ELSE 0
    /\ quiet' = IF Stranded THEN quiet ELSE quiet + 1
    /\ stranded' = IF Stranded /\ job # "waiting" THEN stranded + 1 ELSE 0
    /\ UNCHANGED <<job, refused>>

\* The add takes effect: no job has the id, or the one that had it failed and
\* was removed.
Free == job \in {"none", "failed"}

Bug_Recent == quiet < DegradedAfter

\* The WHERE clause of the SELECT.
Selected == Stranded

\* sweep(): enqueueReconcile of the ticket if the SELECT returns it.
Pass(s) ==
    /\ since[s] >= Interval
    /\ since' = [since EXCEPT ![s] = 0]
    /\ \/ /\ Selected /\ Free
          /\ job' = "waiting"
          /\ age' = 0
          /\ stranded' = 0
          /\ refused' = [r \in Sweepers |-> 0]
       \/ /\ Selected /\ job = "completed"
          /\ refused' = [refused EXCEPT ![s] = @ + 1]
          /\ UNCHANGED <<job, age, stranded>>
       \/ /\ Selected => job = "waiting"
          /\ UNCHANGED <<job, age, stranded, refused>>
    /\ UNCHANGED quiet

\* The re-driven run ends: the AI is still down and the ticket is written
\* DEGRADED again, or the run fails for the last time and writes nothing.
Degrades ==
    /\ job = "waiting"
    /\ job' = "completed"
    /\ age' = 0
    /\ quiet' = 0
    /\ stranded' = 0
    /\ UNCHANGED <<since, refused>>

Fails ==
    /\ job = "waiting"
    /\ job' = "failed"
    /\ age' = 0
    /\ UNCHANGED <<quiet, since, refused, stranded>>

\* Another job of the ticket, of its upgrade chain or a replay, writes it.
Touched ==
    /\ quiet # 0
    /\ quiet' = 0
    /\ stranded' = 0
    /\ UNCHANGED <<job, age, since, refused>>

\* removeOnComplete and removeOnFail: { age: JobTtl }.
Dropped ==
    /\ Finished
    /\ age >= JobTtl
    /\ job' = "none"
    /\ age' = 0
    /\ UNCHANGED <<quiet, since, refused, stranded>>

Next ==
    \/ Second
    \/ \E s \in Sweepers : Pass(s)
    \/ Degrades \/ Fails \/ Touched \/ Dropped

Spec == Init /\ [][Next]_vars

-----------------------------------------------------------------------------

TypeOK ==
    /\ job \in {"none", "waiting", "completed", "failed"}
    /\ age \in 0 .. JobTtl + Lag
    /\ quiet \in 0 .. DegradedAfter + 1
    /\ since \in [Sweepers -> 0 .. Interval + MaxLate]
    /\ refused \in [Sweepers -> Nat]
    /\ stranded \in Nat

\* A finished reconcile job is kept "for less than one sweep interval, so a
\* still-degraded ticket is always eligible again by the next pass": at most one
\* pass of a sweep finds the id taken by it.  That takes JobTtl + Lag < Interval,
\* which the configuration does not ensure (README, section 5).
NextPassRedrives == \A s \in Sweepers : refused[s] <= 1

\* The backstop acts in time: a ticket that is stranded with no job left to run
\* is re-driven within two intervals, however runs, timers, the drop of finished
\* jobs and the writes of other jobs fall together.
RedrivenInTime == Sweepers # {} => stranded <= 2 * (Interval + MaxLate)
=============================================================================
