------------------------------ MODULE Pipeline -------------------------------
(***************************************************************************)
(* The enrichment pipeline: the BullMQ queue (external, as the code uses   *)
(* it), the workers that run TicketProcessor, the jobs PipelineProducer    *)
(* adds, the dead letters with their replay, and the sweep that re-drives  *)
(* tickets stranded in DEGRADED.                                           *)
(*                                                                         *)
(* A worker slot, an operator's replay call and a sweep are processes that *)
(* interleave between their awaits.  A job that lost its lock is run again *)
(* while its first run goes on: the slot that no longer owns its job can   *)
(* still write the ticket, but its result no longer settles the job.       *)
(* enrich() shares no state with the rest, so its outcome is drawn from    *)
(* the state of the AI in the step that reads the ticket for it.           *)
(***************************************************************************)
EXTENDS Naturals

CONSTANTS
    Tickets,
    Workers,       \* worker slots (concurrency), of any number of processes
    Operators,     \* concurrent calls of POST /dlq/:id/replay
    Sweepers,      \* one ReconcileSweeper per instance
    DeadIds,       \* bound: the supply of dead letter ids
    None,          \* no worker, no run, no dead letter, no call
    MaxAttempts,   \* PIPELINE_MAX_ATTEMPTS
    MaxStalled,    \* BullMQ's maxStalledCount
    MaxUpgrades,   \* ENRICHMENT_UPGRADE_MAX_ATTEMPTS
    Failures,      \* the kinds of failure that may happen
    MaxFailures    \* bound: how many of them

FailureKinds == {
    "fault",    \* a statement or command fails, or its reply is lost
    "crash",    \* a worker's or a sweep's process dies
    "gap",      \* ... with a failure on its way from Redis to Postgres, or back
    "stall",    \* a live worker loses the lock of its job
    "flush",    \* Redis loses its data
    "outage"}   \* the AI goes down

Status == {"PENDING", "DEGRADED", "ENRICHED"}
Outcome == {"DEGRADED", "ENRICHED"}
Effect == [ticket : Tickets, event : {"triaged", "upgraded"}]

\* The jobId of each way to enqueue a ticket; "n" tells apart those of a kind.
IngestJob(t) == [ticket |-> t, kind |-> "ingest", n |-> 0]
UpgradeJob(t, n) == [ticket |-> t, kind |-> "upgrade", n |-> n]
Bug_ReusesTheKey(t, d) == IngestJob(t)
ReplayJob(t, d) == [ticket |-> t, kind |-> "replay", n |-> d]
ReconcileJob(t) == [ticket |-> t, kind |-> "reconcile", n |-> 0]

JobIds == [ticket : Tickets, kind : {"ingest", "reconcile"}, n : {0}]
          \cup [ticket : Tickets, kind : {"upgrade"}, n : 1 .. MaxUpgrades]
          \cup [ticket : Tickets, kind : {"replay"}, n : DeadIds]

Job == [state : {"absent", "queued", "active", "completed", "failed"},
        made : 0 .. MaxAttempts - 1, stalls : 0 .. MaxStalled + 1,
        upgrade : 0 .. MaxUpgrades, owner : Workers \cup {None}]

NoJob == [state |-> "absent", made |-> 0, stalls |-> 0, upgrade |-> 0, owner |-> None]

DeadLetter == [ticket : Tickets, upgrade : 0 .. MaxUpgrades, status : {"PENDING", "REPLAYED"}]

Run == [pc : {"load", "write", "schedule", "settle", "throw", "failed"},
        job : JobIds, upgrade : 0 .. MaxUpgrades, prior : Status, outcome : Outcome,
        terminal : BOOLEAN]

Call == [pc : {"enqueue", "revert"}, dl : DeadIds]

Sweep == [pc : {"idle", "next", "add"}, batch : SUBSET Tickets, row : Tickets \cup {None},
          existing : BOOLEAN]

ASSUME PipelineAssumption ==
    /\ None \notin Workers
    /\ None \notin DeadLetter
    /\ None \notin Run
    /\ None \notin Call
    /\ MaxAttempts \in Nat \ {0}
    /\ MaxStalled \in Nat
    /\ MaxUpgrades \in Nat
    /\ Failures \subseteq FailureKinds
    /\ MaxFailures \in Nat

VARIABLES
    ticket,    \* tickets: enrichment_status, and whether updated_at is old
    outbox,    \* outbox_messages, one per dedup key
    jobs,      \* the queue, by jobId
    dead,      \* dead_letters
    slot,      \* worker slots: the job a slot runs and where the run has got to
    oper,      \* replay calls in progress
    sweep,     \* sweeps in progress
    ai,        \* what enrich() comes back with
    logged,    \* tickets whose dead letter went to the alarm metric and the log
    exposed,   \* history: tickets that a gap or a flush has hit
    failures   \* how many failures have happened

vars == <<ticket, outbox, jobs, dead, slot, oper, sweep, ai, logged, exposed,
          failures>>
database == <<ticket, outbox, dead>>

NoSweep == [pc |-> "idle", batch |-> {}, row |-> None, existing |-> FALSE]

\* Ingestion has committed the tickets and enqueued their jobs.
Init ==
    /\ ticket = [t \in Tickets |-> [status |-> "PENDING", old |-> FALSE]]
    /\ outbox = {}
    /\ jobs = [j \in JobIds |->
                 IF j.kind = "ingest" THEN [NoJob EXCEPT !.state = "queued"] ELSE NoJob]
    /\ dead = [d \in DeadIds |-> None]
    /\ slot = [w \in Workers |-> None]
    /\ oper = [o \in Operators |-> None]
    /\ sweep = [s \in Sweepers |-> NoSweep]
    /\ ai \in {"ENRICHED", "DEGRADED"}
    /\ logged = {}
    /\ exposed = {}
    /\ failures = 0

Spend(failure) ==
    /\ failure \in Failures
    /\ failures < MaxFailures
    /\ failures' = failures + 1

-----------------------------------------------------------------------------
(* The queue.  Queue.add with the id of a job that BullMQ still holds, in    *)
(* whatever state, is silently ignored.  Waiting, delayed and backed-off     *)
(* jobs are all queued: a delay ends some time.                              *)

Held(j) == jobs[j].state # "absent"

Add(j, upgrade) ==
    jobs' = IF Held(j) THEN jobs
            ELSE [jobs EXCEPT ![j] = [NoJob EXCEPT !.state = "queued", !.upgrade = upgrade]]

Owns(w) == jobs[slot[w].job].owner = w

\* A finished job: nothing of it matters any more but its id and how it ended.
Finished(state) == [NoJob EXCEPT !.state = state]

\* The worker's last word on its job, unless the job was taken from it.
Settle(w, job) ==
    jobs' = IF Owns(w) THEN [jobs EXCEPT ![slot[w].job] = job] ELSE jobs

Bug_OneStallMore(j) == jobs[j].stalls > MaxStalled + 1

\* The deferred failure that the stalled check leaves on a job.
Unrecoverable(j) == jobs[j].stalls > MaxStalled

Bug_CountsAttemptsOnly(unrecoverable, last) == last

\* isTerminalFailure: the failures it recognises by the error or the count.
Terminal(unrecoverable, last) == unrecoverable \/ last

\* A worker slot takes a job.  One that stalled too often is failed before the
\* processor runs (UnrecoverableError).
Pick(w) ==
    /\ slot[w] = None
    /\ \E j \in JobIds :
        /\ jobs[j].state = "queued"
        /\ jobs' = [jobs EXCEPT ![j] = IF Unrecoverable(j) THEN Finished("failed")
                                       ELSE [@ EXCEPT !.state = "active", !.owner = w]]
        /\ slot' = [slot EXCEPT ![w] =
                        [pc |-> IF Unrecoverable(j) THEN "failed" ELSE "load", job |-> j,
                         upgrade |-> jobs[j].upgrade, prior |-> "PENDING",
                         outcome |-> "DEGRADED", terminal |-> Terminal(Unrecoverable(j), FALSE)]]
    /\ UNCHANGED <<database, oper, sweep, ai, logged, exposed, failures>>

\* The stalled check puts an active job whose lock lapsed back in the queue.
Requeue(j) ==
    /\ jobs[j].state = "active"
    /\ jobs' = [jobs EXCEPT ![j].state = "queued", ![j].owner = None, ![j].stalls = @ + 1]
    /\ UNCHANGED <<database, slot, oper, sweep, ai, logged, exposed>>

OrphanStalls(j) == jobs[j].owner = None /\ Requeue(j) /\ UNCHANGED failures

LiveRunStalls(j) == jobs[j].owner # None /\ Requeue(j) /\ Spend("stall")

\* removeOnComplete, removeOnFail.
JobExpires(j) ==
    /\ jobs[j].state \in {"completed", "failed"}
    /\ jobs' = [jobs EXCEPT ![j] = NoJob]
    /\ UNCHANGED <<database, slot, oper, sweep, ai, logged, exposed, failures>>

RedisFlushed ==
    /\ Spend("flush")
    /\ jobs' = [j \in JobIds |-> NoJob]
    /\ exposed' = Tickets
    /\ UNCHANGED <<database, slot, oper, sweep, ai, logged>>

-----------------------------------------------------------------------------
(* TicketProcessor.process. *)

At(w, pc) == slot[w] # None /\ slot[w].pc = pc

\* What was read and what the AI said is used by the next statement only.
Step(w, pc) ==
    slot' = [slot EXCEPT ![w].pc = pc, ![w].prior = "PENDING", ![w].outcome = "DEGRADED"]

\* A statement returns, or it took effect and its reply was lost.
Returns(w, pc) ==
    \/ Step(w, pc) /\ UNCHANGED failures
    \/ Step(w, "throw") /\ Spend("fault")

\* findByIdOrThrow, and enrich() with what has been read: both are used when
\* enrich() has come back, however long that took.
Load(w) ==
    /\ At(w, "load")
    /\ slot' = [slot EXCEPT ![w].pc = "write",
                           ![w].prior = ticket[slot[w].job.ticket].status,
                           ![w].outcome = ai]
    /\ UNCHANGED <<database, jobs, oper, sweep, ai, logged, exposed, failures>>

Bug_AlwaysOverwrites(status, outcome) == TRUE
Bug_FirstResultWins(status, outcome) == status = "PENDING"

\* WHERE enrichment_status <> 'ENRICHED', put only on a non-ENRICHED outcome.
Overwrites(status, outcome) == outcome = "ENRICHED" \/ status # "ENRICHED"

Bug_TriagesWhenEnriched(prior, outcome) ==
    CASE prior = "PENDING" /\ outcome = "ENRICHED" -> {"triaged"}
      [] prior = "DEGRADED" /\ outcome = "ENRICHED" -> {"upgraded"}
      [] OTHER -> {}

Bug_EveryResultUpgrades(prior, outcome) ==
    (IF prior = "PENDING" THEN {"triaged"} ELSE {})
    \cup (IF outcome = "ENRICHED" THEN {"upgraded"} ELSE {})

\* The side effect of the transition as the run saw it.
Emits(prior, outcome) ==
    CASE prior = "PENDING" -> {"triaged"}
      [] prior = "DEGRADED" /\ outcome = "ENRICHED" -> {"upgraded"}
      [] OTHER -> {}

\* persistAndEmit: one transaction writes the ticket and the outbox row, or,
\* when the UPDATE affects no row, nothing.  A DEGRADED outcome goes on to
\* scheduleUpgrade either way.
Write(w) ==
    LET t == slot[w].job.ticket
        outcome == slot[w].outcome
    IN
    /\ At(w, "write")
    /\ IF Overwrites(ticket[t].status, outcome)
       THEN /\ ticket' = [ticket EXCEPT ![t] = [status |-> outcome, old |-> FALSE]]
            /\ outbox' = outbox \cup {[ticket |-> t, event |-> e] :
                                        e \in Emits(slot[w].prior, outcome)}
       ELSE UNCHANGED <<ticket, outbox>>
    /\ Returns(w, IF outcome = "DEGRADED" THEN "schedule" ELSE "settle")
    /\ UNCHANGED <<jobs, dead, oper, sweep, ai, logged, exposed>>

\* scheduleUpgrade: the next upgrade job of the ticket, until they are used up.
ScheduleUpgrade(w) ==
    LET attempt == slot[w].upgrade + 1 IN
    /\ At(w, "schedule")
    /\ IF attempt > MaxUpgrades
       THEN Step(w, "settle") /\ UNCHANGED <<jobs, failures>>
       ELSE /\ Add(UpgradeJob(slot[w].job.ticket, attempt), attempt)
            /\ Returns(w, "settle")
    /\ UNCHANGED <<database, oper, sweep, ai, logged, exposed>>

\* A statement of process() fails without effect.
Throws(w) ==
    /\ \E pc \in {"load", "write", "schedule"} : At(w, pc)
    /\ Spend("fault")
    /\ Step(w, "throw")
    /\ UNCHANGED <<database, jobs, oper, sweep, ai, logged, exposed>>

\* process() resolved: BullMQ moves the job to completed.
Complete(w) ==
    /\ At(w, "settle")
    /\ Settle(w, Finished("completed"))
    /\ slot' = [slot EXCEPT ![w] = None]
    /\ UNCHANGED <<database, oper, sweep, ai, logged, exposed, failures>>

\* process() rejected: BullMQ counts the attempt, backs off or fails the job,
\* and emits 'failed'.  A run that lost its job is only an 'error' of the worker.
AttemptFailed(w) ==
    LET job == jobs[slot[w].job]
        last == job.made + 1 >= MaxAttempts
    IN
    /\ At(w, "throw")
    /\ Settle(w, IF last THEN Finished("failed")
                 ELSE [job EXCEPT !.state = "queued", !.owner = None, !.made = @ + 1])
    /\ slot' = [slot EXCEPT ![w] =
                    IF Owns(w) THEN [@ EXCEPT !.pc = "failed", !.terminal = Terminal(FALSE, last)] ELSE None]
    /\ UNCHANGED <<database, oper, sweep, ai, logged, exposed, failures>>

\* ... and the backstop: is the job in the failed set?
ProbedFailed(w) == jobs[slot[w].job].state = "failed"

\* onFailed, the failure is terminal (UnrecoverableError, last attempt, found in
\* the failed set, or assumed because the probe of Redis failed): insert the
\* dead letter or, when Postgres fails, raise the alarm and log the payload.
DeadLettered(w) ==
    /\ At(w, "failed")
    /\ \/ /\ slot[w].terminal \/ ProbedFailed(w)
          /\ UNCHANGED failures
       \/ ~slot[w].terminal /\ Spend("fault")
    /\ \E d \in DeadIds :
          /\ dead[d] = None
          /\ dead' = [dead EXCEPT ![d] =
                [ticket |-> slot[w].job.ticket, upgrade |-> slot[w].upgrade,
                 status |-> "PENDING"]]
    /\ slot' = [slot EXCEPT ![w] = None]
    /\ UNCHANGED <<ticket, outbox, jobs, oper, sweep, ai, logged, exposed>>

DeadLetterLogged(w) ==
    /\ At(w, "failed")
    /\ slot[w].terminal \/ ProbedFailed(w)
    /\ Spend("fault")
    /\ logged' = logged \cup {slot[w].job.ticket}
    /\ slot' = [slot EXCEPT ![w] = None]
    /\ UNCHANGED <<database, jobs, oper, sweep, ai, exposed>>

\* onFailed, the failure is not terminal: only count a retry.
RetryCounted(w) ==
    /\ At(w, "failed")
    /\ ~slot[w].terminal /\ ~ProbedFailed(w)
    /\ slot' = [slot EXCEPT ![w] = None]
    /\ UNCHANGED <<database, jobs, oper, sweep, ai, logged, exposed, failures>>

\* The worker's process dies while it runs a job: the lock lapses.
WorkerDies(w) ==
    /\ slot[w] # None
    /\ slot[w].pc # "failed"
    /\ Spend("crash")
    /\ jobs' = IF Owns(w) THEN [jobs EXCEPT ![slot[w].job].owner = None] ELSE jobs
    /\ slot' = [slot EXCEPT ![w] = None]
    /\ UNCHANGED <<database, oper, sweep, ai, logged, exposed>>

\* The process dies after BullMQ failed the job and before onFailed recorded it.
HandlerDies(w) ==
    /\ At(w, "failed")
    /\ Spend("gap")
    /\ exposed' = exposed \cup {slot[w].job.ticket}
    /\ slot' = [slot EXCEPT ![w] = None]
    /\ UNCHANGED <<database, jobs, oper, sweep, ai, logged>>

AiGoesDown ==
    /\ ai = "ENRICHED" /\ Spend("outage")
    /\ ai' = "DEGRADED"
    /\ UNCHANGED <<database, jobs, slot, oper, sweep, logged, exposed>>

AiRecovers ==
    /\ ai = "DEGRADED"
    /\ ai' = "ENRICHED"
    /\ UNCHANGED <<database, jobs, slot, oper, sweep, logged, exposed, failures>>

-----------------------------------------------------------------------------
(* DlqService.replay. *)

Bug_FlipsAnyway(d) == dead[d] # None

Flippable(d) == dead[d] # None /\ dead[d].status = "PENDING"

\* The conditional UPDATE; a caller that loses it gets 404 or 409.
Flip(o, d) ==
    /\ oper[o] = None
    /\ Flippable(d)
    /\ dead' = [dead EXCEPT ![d].status = "REPLAYED"]
    /\ oper' = [oper EXCEPT ![o] = [pc |-> "enqueue", dl |-> d]]
    /\ UNCHANGED <<ticket, outbox, jobs, slot, sweep, ai, logged, exposed, failures>>

\* enqueueReplay: added, or it throws before or after the add took effect.
EnqueueReplay(o) ==
    LET d == oper[o].dl
        add == Add(ReplayJob(dead[d].ticket, d), dead[d].upgrade)
    IN
    /\ oper[o] # None /\ oper[o].pc = "enqueue"
    /\ \/ /\ add
          /\ oper' = [oper EXCEPT ![o] = None]
          /\ UNCHANGED failures
       \/ /\ add \/ UNCHANGED jobs
          /\ oper' = [oper EXCEPT ![o].pc = "revert"]
          /\ Spend("fault")
    /\ UNCHANGED <<database, slot, sweep, ai, logged, exposed>>

\* The catch block puts the row back to PENDING.
Revert(o) ==
    /\ oper[o] # None /\ oper[o].pc = "revert"
    /\ dead' = [dead EXCEPT ![oper[o].dl].status = "PENDING"]
    /\ oper' = [oper EXCEPT ![o] = None]
    /\ UNCHANGED <<ticket, outbox, jobs, slot, sweep, ai, logged, exposed, failures>>

\* The process dies, or Postgres fails it, between the flip and the enqueue or
\* before the row is put back.
ReplayDies(o) ==
    /\ oper[o] # None
    /\ Spend("gap")
    /\ exposed' = exposed \cup {dead[oper[o].dl].ticket}
    /\ oper' = [oper EXCEPT ![o] = None]
    /\ UNCHANGED <<database, jobs, slot, sweep, ai, logged>>

-----------------------------------------------------------------------------
(* ReconcileSweeper.sweep and enqueueReconcile. *)

\* RECONCILE_DEGRADED_AFTER_MS have passed since the ticket was last written.
Ages(t) ==
    /\ ticket[t].status = "DEGRADED" /\ ~ticket[t].old
    /\ ticket' = [ticket EXCEPT ![t].old = TRUE]
    /\ UNCHANGED <<outbox, dead, jobs, slot, oper, sweep, ai, logged, exposed, failures>>

Stranded == {t \in Tickets : ticket[t].status = "DEGRADED" /\ ticket[t].old}

\* The SELECT (LIMIT lets a pass leave some for the next), one pass at a time.
Scan(s) ==
    /\ sweep[s].pc = "idle"
    /\ \E batch \in SUBSET Stranded \ {{}} :
          sweep' = [sweep EXCEPT ![s] = [NoSweep EXCEPT !.pc = "next", !.batch = batch]]
    /\ UNCHANGED <<database, jobs, slot, oper, ai, logged, exposed, failures>>

\* getJob, isFailed, remove: a failed job of that id must not block the add.
Inspect(s, t) ==
    LET j == ReconcileJob(t) IN
    /\ sweep[s].pc = "next"
    /\ t \in sweep[s].batch
    /\ jobs' = IF jobs[j].state = "failed" THEN [jobs EXCEPT ![j] = NoJob] ELSE jobs
    /\ sweep' = [sweep EXCEPT ![s].pc = "add", ![s].row = t, ![s].existing = Held(j)]
    /\ UNCHANGED <<database, slot, oper, ai, logged, exposed, failures>>

\* On to the next row, or the end of the pass.
NextRow(s) ==
    LET rest == sweep[s].batch \ {sweep[s].row} IN
    sweep' = [sweep EXCEPT ![s] =
                IF rest = {} THEN NoSweep ELSE [NoSweep EXCEPT !.pc = "next", !.batch = rest]]

\* What enqueueReconcile returns: not if getJob had found a job.
CountsAsRedriven(s) == ~sweep[s].existing

\* The add.  An error only skips the row.
Redrive(s) ==
    LET t == sweep[s].row
        add == Add(ReconcileJob(t), 0)
    IN
    /\ sweep[s].pc = "add"
    /\ \/ /\ add
          /\ UNCHANGED failures
       \/ /\ add \/ UNCHANGED jobs
          /\ Spend("fault")
    /\ NextRow(s)
    /\ UNCHANGED <<database, slot, oper, ai, logged, exposed>>

SweepDies(s) ==
    /\ sweep[s].pc # "idle"
    /\ Spend("crash")
    /\ sweep' = [sweep EXCEPT ![s] = NoSweep]
    /\ UNCHANGED <<database, jobs, slot, oper, ai, logged, exposed>>

-----------------------------------------------------------------------------

Handler(w) == DeadLettered(w) \/ RetryCounted(w)

Process(w) ==
    \/ Load(w) \/ Write(w) \/ ScheduleUpgrade(w) \/ Complete(w) \/ AttemptFailed(w)
    \/ Handler(w)

Next ==
    \/ \E w \in Workers :
          \/ Pick(w) \/ Load(w) \/ Write(w) \/ ScheduleUpgrade(w) \/ Throws(w)
          \/ Complete(w) \/ AttemptFailed(w)
          \/ DeadLettered(w) \/ DeadLetterLogged(w) \/ RetryCounted(w)
          \/ WorkerDies(w) \/ HandlerDies(w)
    \/ \E j \in JobIds : OrphanStalls(j) \/ LiveRunStalls(j) \/ JobExpires(j)
    \/ \E o \in Operators :
          (\E d \in DeadIds : Flip(o, d)) \/ EnqueueReplay(o) \/ Revert(o) \/ ReplayDies(o)
    \/ \E t \in Tickets : Ages(t)
    \/ \E s \in Sweepers :
          Scan(s) \/ (\E t \in Tickets : Inspect(s, t)) \/ Redrive(s) \/ SweepDies(s)
    \/ AiGoesDown \/ AiRecovers \/ RedisFlushed

Spec == Init /\ [][Next]_vars

\* Workers run, the stalled check and the sweep's timer tick, finished jobs are
\* dropped, operators replay what is dead-lettered, and an outage ends.
Fairness ==
    /\ \A w \in Workers : WF_vars(Pick(w)) /\ WF_vars(Process(w))
    /\ \A j \in JobIds : WF_vars(OrphanStalls(j)) /\ WF_vars(JobExpires(j))
    /\ \A o \in Operators :
          /\ WF_vars(\E d \in DeadIds : Flip(o, d))
          /\ WF_vars(EnqueueReplay(o)) /\ WF_vars(Revert(o))
    /\ \A t \in Tickets : WF_vars(Ages(t))
    /\ \A s \in Sweepers :
          WF_vars(Scan(s)) /\ WF_vars((\E t \in Tickets : Inspect(s, t)) \/ Redrive(s))
    /\ WF_vars(AiRecovers)

FairSpec == Spec /\ Fairness

-----------------------------------------------------------------------------

TypeOK ==
    /\ ticket \in [Tickets -> [status : Status, old : BOOLEAN]]
    /\ outbox \subseteq Effect
    /\ jobs \in [JobIds -> Job]
    /\ dead \in [DeadIds -> DeadLetter \cup {None}]
    /\ slot \in [Workers -> Run \cup {None}]
    /\ oper \in [Operators -> Call \cup {None}]
    /\ sweep \in [Sweepers -> Sweep]
    /\ ai \in {"ENRICHED", "DEGRADED"}
    /\ logged \subseteq Tickets
    /\ exposed \subseteq Tickets
    /\ failures \in 0 .. MaxFailures

Emitted(t, e) == [ticket |-> t, event |-> e] \in outbox

\* A ticket with an AI result keeps it: no late retry, lost job, replay or
\* sweep puts a fallback in its place ("a non-ENRICHED outcome must never
\* overwrite an ENRICHED one").
EnrichedIsFinal ==
    [][\A t \in Tickets :
          ticket[t].status = "ENRICHED" => ticket'[t].status = "ENRICHED"]_vars

\* State and notification are committed together, whichever of several runs of
\* the ticket writes first: a ticket has left PENDING exactly when its triaged
\* event is in the outbox, and an upgrade is only announced of a ticket that
\* was triaged before and is ENRICHED.
EffectsFollowState ==
    \A t \in Tickets :
        /\ Emitted(t, "triaged") <=> ticket[t].status # "PENDING"
        /\ Emitted(t, "upgraded") => ticket[t].status = "ENRICHED"

\* The life of a ticket as the rest of the system sees it: however many runs a
\* ticket gets, one after the other or at once, it is triaged once and upgraded
\* once, and what it is and what was promised of it change in the same step.
Life == INSTANCE TicketLife WITH
    status <- [t \in Tickets |-> ticket[t].status],
    told <- outbox

RefinesLife == Life!Spec

\* Two concurrent replays of a dead letter cannot both fire, also when one of
\* them fails and puts the row back.
OneReplayAtATime ==
    \A o \in Operators : oper[o] # None =>
        /\ dead[oper[o].dl].status = "REPLAYED"
        /\ \A p \in Operators : oper[p] # None /\ oper[p].dl = oper[o].dl => p = o

\* Something still stands for the ticket: a job that will run, a failure being
\* handled, a dead letter to replay or being replayed, or the alarm.
Accounted(t) ==
    \/ \E j \in JobIds : j.ticket = t /\ jobs[j].state \in {"queued", "active"}
    \/ \E w \in Workers : slot[w] # None /\ slot[w].job.ticket = t /\ slot[w].pc = "failed"
    \/ \E d \in DeadIds :
          /\ dead[d] # None /\ dead[d].ticket = t
          /\ dead[d].status = "PENDING" \/ \E o \in Operators : oper[o] # None /\ oper[o].dl = d
    \/ t \in logged

\* A ticket that nobody has triaged yet is still accounted for, whatever stalls,
\* crashes, retries and replays its jobs went through, unless a failure fell
\* between Redis and Postgres or Redis lost its data.
NoSilentLoss ==
    \A t \in Tickets : ticket[t].status = "PENDING" => Accounted(t) \/ t \in exposed

\* Does not hold (README, section 5): "Nothing is ever silently lost", without
\* that exception.
NothingIsLost == \A t \in Tickets : ticket[t].status = "PENDING" => Accounted(t)

\* Does not hold (README, section 5): the transition DEGRADED -> ENRICHED is
\* announced by ticket.enrichment_upgraded.
UpgradeIsAnnounced ==
    [][\A t \in Tickets :
          ticket[t].status = "DEGRADED" /\ ticket'[t].status = "ENRICHED" =>
              [ticket |-> t, event |-> "upgraded"] \in outbox']_vars

\* Does not hold (README, section 5): a run with a DEGRADED outcome leaves an
\* upgrade job behind it that will run, unless the attempts are used up.
UpgradeIsScheduled ==
    [][\A w \in Workers :
          At(w, "schedule") /\ slot[w].upgrade < MaxUpgrades /\ At(w, "settle")' =>
              jobs'[UpgradeJob(slot[w].job.ticket, slot[w].upgrade + 1)].state
                  \in {"queued", "active"}]_vars

\* Does not hold (README, section 5): enqueueReconcile returns false exactly
\* when BullMQ suppressed the add, so the sweep reports what it performed.
SweepCountsItsAdds ==
    [][\A s \in Sweepers :
          sweep[s].pc = "add" /\ sweep'[s].pc # "add" /\ failures' = failures =>
              CountsAsRedriven(s) = ~Held(ReconcileJob(sweep[s].row))]_vars

\* With operators who replay, every ticket is triaged, or the loss of its dead
\* letter was alarmed, or it was hit by one of those two kinds of failure.
EventuallyTriaged ==
    \A t \in Tickets : <>(ticket[t].status # "PENDING" \/ t \in logged \cup exposed)

\* A degraded ticket gets its AI result once the AI is back, whatever became of
\* its upgrade jobs, also when Redis lost them all: the sweep restarts it.
EventuallyUpgraded ==
    \A t \in Tickets : ticket[t].status = "DEGRADED" ~> ticket[t].status = "ENRICHED"
=============================================================================
