--------------------------- MODULE PipelineProofs ----------------------------
(***************************************************************************)
(* The pipeline keeps its types, its tickets agree with its outbox, an AI  *)
(* result is final, replays exclude each other and no untriaged ticket is  *)
(* lost: for any tickets, workers, operators, sweeps and failures.         *)
(***************************************************************************)
EXTENDS Pipeline, TLAPS

\* An active job has stalls to spare: the next one still has the job's type.
StallsInTime ==
    \A j \in JobIds : jobs[j].state = "active" => jobs[j].stalls <= MaxStalled

\* A replay in progress is that of a dead letter.
CallHasLetter == \A o \in Operators : oper[o] # None => dead[oper[o].dl] # None

\* A sweep about to add a job has a ticket for it.
SweepHasRow == \A s \in Sweepers : sweep[s].pc = "add" => sweep[s].row \in Tickets

TypeInv == TypeOK /\ StallsInTime /\ CallHasLetter /\ SweepHasRow

\* What a run has read of a ticket that has left PENDING was true.
PriorSeen ==
    \A w \in Workers :
        slot[w] # None /\ slot[w].prior # "PENDING" =>
            ticket[slot[w].job.ticket].status # "PENDING"

EffectInv == TypeInv /\ EffectsFollowState /\ PriorSeen

ReplayInv == TypeInv /\ OneReplayAtATime

\* A run that has passed its write leaves a triaged ticket.
WriteSeen ==
    \A w \in Workers :
        slot[w] # None /\ slot[w].pc \in {"schedule", "settle"} =>
            ticket[slot[w].job.ticket].status # "PENDING"

\* A job is replayed, and run, under the id of a dead letter that exists.
LetterFirst ==
    \A d \in DeadIds, t \in Tickets :
        dead[d] = None => jobs[ReplayJob(t, d)].state = "absent"

RunHasLetter ==
    \A w \in Workers, d \in DeadIds, t \in Tickets :
        slot[w] # None /\ slot[w].job = ReplayJob(t, d) => dead[d] # None

\* What stands for a ticket by itself.  Of the failures being handled, only a
\* terminal one does; of the dead letters to replay, only one whose replay will
\* not be ignored, as it is while a job of that id is held.
WillRun(t) == \E j \in JobIds : j.ticket = t /\ jobs[j].state \in {"queued", "active"}

WillBeRecorded(t) ==
    \E w \in Workers :
        slot[w] # None /\ slot[w].job.ticket = t /\ slot[w].pc = "failed" /\ slot[w].terminal

Replayable(d) ==
    dead[d].status = "PENDING" \/ \E o \in Operators : oper[o] # None /\ oper[o].dl = d

CanBeReplayed(t) ==
    \E d \in DeadIds :
        /\ dead[d] # None /\ dead[d].ticket = t
        /\ Replayable(d)
        /\ jobs[ReplayJob(t, d)].state = "absent"

Standing(t) == WillRun(t) \/ WillBeRecorded(t) \/ CanBeReplayed(t) \/ t \in logged \cup exposed

Unforgotten == \A t \in Tickets : ticket[t].status = "PENDING" => Standing(t)

LossInv == TypeInv /\ WriteSeen /\ RunHasLetter /\ LetterFirst /\ Unforgotten

-----------------------------------------------------------------------------
(* What the actions are built from.                                          *)

LEMMA JobIdFacts ==
    /\ \A t \in Tickets :
          /\ IngestJob(t) \in JobIds /\ ReconcileJob(t) \in JobIds
          /\ \A n \in 1 .. MaxUpgrades : UpgradeJob(t, n) \in JobIds
          /\ \A d \in DeadIds : ReplayJob(t, d) \in JobIds
    /\ \A j \in JobIds : j.ticket \in Tickets
BY DEF JobIds, IngestJob, ReconcileJob, UpgradeJob, ReplayJob

LEMMA JobFacts ==
    /\ NoJob \in Job /\ NoJob.state = "absent"
    /\ \A u \in 0 .. MaxUpgrades :
          /\ [NoJob EXCEPT !.state = "queued", !.upgrade = u] \in Job
          /\ [NoJob EXCEPT !.state = "queued", !.upgrade = u].state = "queued"
    /\ \A state \in {"queued", "completed", "failed"} :
          [NoJob EXCEPT !.state = state] \in Job /\ [NoJob EXCEPT !.state = state].state = state
    /\ \A state \in {"completed", "failed"} :
          Finished(state) \in Job /\ Finished(state).state = state
<1>1. NoJob \in Job /\ NoJob.state = "absent"
    BY PipelineAssumption DEF NoJob, Job
<1>2. ASSUME NEW u \in 0 .. MaxUpgrades
      PROVE  /\ [NoJob EXCEPT !.state = "queued", !.upgrade = u] \in Job
             /\ [NoJob EXCEPT !.state = "queued", !.upgrade = u].state = "queued"
    BY <1>1 DEF Job
<1>3. ASSUME NEW state \in {"queued", "completed", "failed"}
      PROVE  [NoJob EXCEPT !.state = state] \in Job /\ [NoJob EXCEPT !.state = state].state = state
    BY <1>1 DEF Job
<1> QED BY <1>1, <1>2, <1>3 DEF Finished

\* Adding a job: nothing changes, or an absent job is queued.
LEMMA AddFacts ==
    ASSUME TypeInv, NEW j \in JobIds, NEW u \in 0 .. MaxUpgrades, Add(j, u)
    PROVE  /\ jobs' \in [JobIds -> Job]
           /\ StallsInTime'
           /\ \A i \in JobIds : i # j => jobs'[i] = jobs[i]
           /\ IF jobs[j].state = "absent" THEN jobs'[j].state = "queued" ELSE jobs'[j] = jobs[j]
<1>1. jobs \in [JobIds -> Job]
    BY DEF TypeInv, TypeOK
<1>2. CASE Held(j)
    BY <1>1, <1>2 DEF Add, Held, TypeInv, StallsInTime
<1>3. CASE ~Held(j)
    <2> DEFINE new == [NoJob EXCEPT !.state = "queued", !.upgrade = u]
    <2>1. new \in Job /\ new.state = "queued"
        BY JobFacts
    <2>2. jobs' = [jobs EXCEPT ![j] = new]
        BY <1>3 DEF Add
    <2> HIDE DEF new
    <2> QED BY <1>1, <1>3, <2>1, <2>2 DEF Held, TypeInv, StallsInTime
<1> QED BY <1>2, <1>3

\* One job is replaced by another one of its id.
LEMMA JobReplaced ==
    ASSUME TypeInv, NEW j \in JobIds, NEW new \in Job,
           new.state = "active" => new.stalls <= MaxStalled,
           jobs' = [jobs EXCEPT ![j] = new]
    PROVE  /\ jobs' \in [JobIds -> Job]
           /\ StallsInTime'
           /\ jobs'[j] = new
           /\ \A i \in JobIds : i # j => jobs'[i] = jobs[i]
BY DEF TypeInv, TypeOK, StallsInTime

\* The run of a slot, as far as the type goes.
LEMMA RunFacts ==
    ASSUME TypeInv, NEW w \in Workers, slot[w] # None
    PROVE  /\ slot[w] \in Run
           /\ slot[w].job \in JobIds
           /\ slot[w].job.ticket \in Tickets
           /\ slot[w].upgrade \in 0 .. MaxUpgrades
           /\ jobs[slot[w].job] \in Job
<1>1. slot[w] \in Run
    BY DEF TypeInv, TypeOK
<1>2. slot[w].job \in JobIds /\ slot[w].upgrade \in 0 .. MaxUpgrades
    BY <1>1 DEF Run
<1> QED BY <1>1, <1>2, JobIdFacts DEF TypeInv, TypeOK

\* A slot goes on to another step and forgets what it had read.
LEMMA StepFacts ==
    ASSUME TypeInv, NEW w \in Workers, slot[w] # None,
           NEW pc \in {"write", "schedule", "settle", "throw"}, Step(w, pc)
    PROVE  /\ slot' \in [Workers -> Run \cup {None}]
           /\ slot'[w] # None
           /\ slot'[w].pc = pc /\ slot'[w].prior = "PENDING"
           /\ slot'[w].job = slot[w].job
           /\ \A v \in Workers : v # w => slot'[v] = slot[v]
<1> DEFINE new == [slot[w] EXCEPT !.pc = pc, !.prior = "PENDING", !.outcome = "DEGRADED"]
<1>1. slot \in [Workers -> Run \cup {None}] /\ slot[w] \in Run
    BY RunFacts DEF TypeInv, TypeOK
<1>2. new \in Run /\ new.pc = pc /\ new.prior = "PENDING" /\ new.job = slot[w].job
    BY <1>1 DEF Run, Status, Outcome
<1>3. slot' = [slot EXCEPT ![w] = new]
    BY DEF Step
<1> HIDE DEF new
<1> QED BY <1>1, <1>2, <1>3, PipelineAssumption

\* A slot becomes free.
LEMMA FreedFacts ==
    ASSUME TypeInv, NEW w \in Workers, slot' = [slot EXCEPT ![w] = None]
    PROVE  /\ slot' \in [Workers -> Run \cup {None}]
           /\ slot'[w] = None
           /\ \A v \in Workers : v # w => slot'[v] = slot[v]
BY DEF TypeInv, TypeOK

LEMMA FailureCounted == ASSUME TypeInv, NEW f, Spend(f) PROVE failures' \in 0 .. MaxFailures
BY PipelineAssumption DEF Spend, TypeInv, TypeOK

-----------------------------------------------------------------------------
(* Type correctness.                                                         *)

\* Actions on a slot that leave everything else but the failures alone.
LEMMA SlotOnlyTypes ==
    ASSUME TypeInv, slot' \in [Workers -> Run \cup {None}], failures' \in 0 .. MaxFailures,
           UNCHANGED <<database, jobs, oper, sweep, ai, logged, exposed>>
    PROVE  TypeInv'
BY DEF TypeInv, TypeOK, StallsInTime, CallHasLetter, SweepHasRow, database

\* Actions that also touch the queue.
LEMMA QueueTypes ==
    ASSUME TypeInv, jobs' \in [JobIds -> Job], StallsInTime',
           slot' \in [Workers -> Run \cup {None}], failures' \in 0 .. MaxFailures,
           exposed' \subseteq Tickets,
           UNCHANGED <<database, oper, sweep, ai, logged>>
    PROVE  TypeInv'
BY DEF TypeInv, TypeOK, CallHasLetter, SweepHasRow, database

LEMMA PickFacts ==
    ASSUME TypeInv, NEW w \in Workers, Pick(w)
    PROVE  \E j \in JobIds :
              /\ jobs[j].state = "queued"
              /\ jobs' \in [JobIds -> Job] /\ StallsInTime'
              /\ \A i \in JobIds : i # j => jobs'[i] = jobs[i]
              /\ slot' \in [Workers -> Run \cup {None}]
              /\ slot'[w] # None
              /\ slot'[w].job = j /\ slot'[w].prior = "PENDING"
              /\ \A v \in Workers : v # w => slot'[v] = slot[v]
              /\ \/ jobs'[j].state = "active" /\ slot'[w].pc = "load"
                 \/ slot'[w].pc = "failed" /\ slot'[w].terminal /\ jobs'[j].state = "failed"
<1>1. PICK j \in JobIds :
        /\ jobs[j].state = "queued"
        /\ jobs' = [jobs EXCEPT ![j] = IF Unrecoverable(j) THEN Finished("failed")
                                       ELSE [@ EXCEPT !.state = "active", !.owner = w]]
        /\ slot' = [slot EXCEPT ![w] =
                        [pc |-> IF Unrecoverable(j) THEN "failed" ELSE "load", job |-> j,
                         upgrade |-> jobs[j].upgrade, prior |-> "PENDING",
                         outcome |-> "DEGRADED",
                         terminal |-> Terminal(Unrecoverable(j), FALSE)]]
    BY DEF Pick
<1> DEFINE started == [jobs[j] EXCEPT !.state = "active", !.owner = w]
           run == [pc |-> IF Unrecoverable(j) THEN "failed" ELSE "load", job |-> j,
                   upgrade |-> jobs[j].upgrade, prior |-> "PENDING",
                   outcome |-> "DEGRADED", terminal |-> Terminal(Unrecoverable(j), FALSE)]
<1>2. jobs[j] \in Job /\ slot \in [Workers -> Run \cup {None}]
    BY DEF TypeInv, TypeOK
<1>3. started \in Job /\ started.state = "active" /\ started.stalls = jobs[j].stalls
    BY <1>2 DEF Job
<1>4. Unrecoverable(j) \in BOOLEAN /\ (~Unrecoverable(j) => started.stalls <= MaxStalled)
    BY <1>2, <1>3, PipelineAssumption DEF Unrecoverable, Job
<1>5. run \in Run /\ run # None
    BY <1>2, <1>4, PipelineAssumption DEF Run, Job, Status, Outcome, Terminal
<1>6. /\ run.job = j /\ run.prior = "PENDING"
      /\ IF Unrecoverable(j) THEN run.pc = "failed" /\ run.terminal ELSE run.pc = "load"
    BY <1>4 DEF Terminal
<1>7. slot' = [slot EXCEPT ![w] = run]
    BY <1>1
<1>8. jobs' = [jobs EXCEPT ![j] = IF Unrecoverable(j) THEN Finished("failed") ELSE started]
    BY <1>1, <1>2 DEF TypeInv, TypeOK
<1> HIDE DEF started, run
<1>9. /\ slot' \in [Workers -> Run \cup {None}] /\ slot'[w] = run
      /\ \A v \in Workers : v # w => slot'[v] = slot[v]
    BY <1>2, <1>5, <1>7
<1>10. /\ jobs' \in [JobIds -> Job] /\ StallsInTime'
       /\ \A i \in JobIds : i # j => jobs'[i] = jobs[i]
       /\ jobs'[j] = IF Unrecoverable(j) THEN Finished("failed") ELSE started
    <2>1. CASE Unrecoverable(j)
        BY <1>8, <2>1, JobFacts, JobReplaced
    <2>2. CASE ~Unrecoverable(j)
        BY <1>3, <1>4, <1>8, <2>2, JobReplaced
    <2> QED BY <2>1, <2>2
<1>11. \/ jobs'[j].state = "active" /\ slot'[w].pc = "load"
       \/ slot'[w].pc = "failed" /\ slot'[w].terminal /\ jobs'[j].state = "failed"
    BY <1>3, <1>6, <1>9, <1>10, JobFacts
<1>12. slot'[w] # None /\ slot'[w].job = j /\ slot'[w].prior = "PENDING"
    BY <1>5, <1>6, <1>9
<1> QED BY <1>1, <1>9, <1>10, <1>11, <1>12

\* An attempt failed: the job goes back to the queue, or is failed for good and
\* its slot turns to the handler with a terminal failure; unless it was lost.
LEMMA AttemptFacts ==
    ASSUME TypeInv, NEW w \in Workers, AttemptFailed(w)
    PROVE  /\ slot[w] # None /\ slot[w].pc = "throw"
           /\ jobs' \in [JobIds -> Job] /\ StallsInTime'
           /\ \A i \in JobIds : i # slot[w].job => jobs'[i] = jobs[i]
           /\ slot' \in [Workers -> Run \cup {None}]
           /\ \A v \in Workers : v # w => slot'[v] = slot[v]
           /\ slot'[w] # None =>
                slot'[w].job = slot[w].job /\ slot'[w].pc = "failed" /\ slot'[w].prior = slot[w].prior
           /\ \/ jobs'[slot[w].job] = jobs[slot[w].job]
              \/ jobs'[slot[w].job].state = "queued"
              \/ /\ jobs'[slot[w].job].state = "failed"
                 /\ slot'[w] # None /\ slot'[w].terminal
<1> DEFINE j == slot[w].job
           job == jobs[j]
           last == job.made + 1 >= MaxAttempts
           again == [job EXCEPT !.state = "queued", !.owner = None, !.made = @ + 1]
           run == [slot[w] EXCEPT !.pc = "failed", !.terminal = Terminal(FALSE, last)]
<1>1. slot[w] # None /\ slot[w].pc = "throw"
    BY DEF AttemptFailed, At
<1>2. j \in JobIds /\ job \in Job /\ slot[w] \in Run
    BY <1>1, RunFacts
<1>3. last \in BOOLEAN /\ (~last => again \in Job /\ again.state = "queued")
    <2>1. job.made \in Nat
        BY <1>2 DEF Job
    <2>2. ~last => job.made + 1 \in 0 .. MaxAttempts - 1
        BY <2>1, PipelineAssumption
    <2>3. CASE ~last
        <3>1. again \in Job
            BY <1>2, <2>2, <2>3 DEF Job
        <3> QED BY <1>2, <3>1, <2>3 DEF Job
    <2> QED BY <2>3
<1>4. /\ run \in Run /\ run # None /\ run.job = j /\ run.pc = "failed"
      /\ run.prior = slot[w].prior /\ run.terminal = last
    BY <1>2, <1>3, PipelineAssumption DEF Run, Terminal
<1>5. /\ jobs' = IF Owns(w) THEN [jobs EXCEPT ![j] = IF last THEN Finished("failed") ELSE again]
                 ELSE jobs
      /\ slot' = [slot EXCEPT ![w] = IF Owns(w) THEN run ELSE None]
    BY <1>2 DEF AttemptFailed, Settle, TypeInv, TypeOK
<1> HIDE DEF again, run, last
<1>6. CASE ~Owns(w)
    BY <1>1, <1>2, <1>5, <1>6, FreedFacts DEF TypeInv, TypeOK, StallsInTime
<1>7. CASE Owns(w)
    <2>1. slot' \in [Workers -> Run \cup {None}] /\ slot'[w] = run
          /\ \A v \in Workers : v # w => slot'[v] = slot[v]
        BY <1>4, <1>5, <1>7 DEF TypeInv, TypeOK
    <2>2. /\ jobs' \in [JobIds -> Job] /\ StallsInTime'
          /\ jobs'[j] = IF last THEN Finished("failed") ELSE again
          /\ \A i \in JobIds : i # j => jobs'[i] = jobs[i]
        <3>1. CASE last
            BY <1>2, <1>5, <1>7, <3>1, JobFacts, JobReplaced
        <3>2. CASE ~last
            BY <1>2, <1>3, <1>5, <1>7, <3>2, JobReplaced
        <3> QED BY <3>1, <3>2, <1>3
    <2> QED BY <1>1, <1>3, <1>4, <2>1, <2>2, JobFacts
<1> QED BY <1>6, <1>7

\* The last word of a run that resolved.
LEMMA CompleteFacts ==
    ASSUME TypeInv, NEW w \in Workers, Complete(w)
    PROVE  /\ slot[w] # None /\ slot[w].pc = "settle"
           /\ jobs' \in [JobIds -> Job] /\ StallsInTime'
           /\ \A i \in JobIds : i # slot[w].job => jobs'[i] = jobs[i]
           /\ jobs'[slot[w].job] # jobs[slot[w].job] => jobs'[slot[w].job].state = "completed"
           /\ slot' \in [Workers -> Run \cup {None}]
           /\ slot'[w] = None
           /\ \A v \in Workers : v # w => slot'[v] = slot[v]
<1>1. slot[w] # None /\ slot[w].pc = "settle" /\ slot' = [slot EXCEPT ![w] = None]
    BY DEF Complete, At
<1>2. /\ slot[w].job \in JobIds
      /\ jobs' = IF Owns(w) THEN [jobs EXCEPT ![slot[w].job] = Finished("completed")] ELSE jobs
    BY <1>1, RunFacts DEF Complete, Settle
<1>3. CASE Owns(w)
    BY <1>1, <1>2, <1>3, FreedFacts, JobFacts, JobReplaced
<1>4. CASE ~Owns(w)
    BY <1>1, <1>2, <1>4, FreedFacts DEF TypeInv, TypeOK, StallsInTime
<1> QED BY <1>3, <1>4

\* The stalled check.
LEMMA RequeueFacts ==
    ASSUME TypeInv, NEW j \in JobIds, Requeue(j)
    PROVE  /\ jobs' \in [JobIds -> Job] /\ StallsInTime'
           /\ jobs[j].state = "active" /\ jobs'[j].state = "queued"
           /\ \A i \in JobIds : i # j => jobs'[i] = jobs[i]
<1> DEFINE new == [jobs[j] EXCEPT !.state = "queued", !.owner = None, !.stalls = @ + 1]
<1>1. jobs[j] \in Job /\ jobs[j].state = "active" /\ jobs[j].stalls <= MaxStalled
    BY DEF Requeue, TypeInv, TypeOK, StallsInTime
<1>2. new \in Job /\ new.state = "queued"
    <2>1. jobs[j].stalls \in Nat
        BY <1>1 DEF Job
    <2>2. jobs[j].stalls + 1 \in 0 .. MaxStalled + 1
        BY <1>1, <2>1, PipelineAssumption
    <2> QED BY <1>1, <2>2 DEF Job
<1>3. jobs' = [jobs EXCEPT ![j] = new]
    BY DEF Requeue, TypeInv, TypeOK
<1> HIDE DEF new
<1> QED BY <1>1, <1>2, <1>3, JobReplaced

\* The sweep of one instance goes on to its next row or ends.
LEMMA NextRowFacts ==
    ASSUME TypeInv, NEW s \in Sweepers, NextRow(s)
    PROVE  sweep' \in [Sweepers -> Sweep] /\ SweepHasRow'
<1> DEFINE rest == sweep[s].batch \ {sweep[s].row}
           new == IF rest = {} THEN NoSweep ELSE [NoSweep EXCEPT !.pc = "next", !.batch = rest]
<1>1. sweep[s] \in Sweep /\ sweep \in [Sweepers -> Sweep]
    BY DEF TypeInv, TypeOK
<1>2. rest \subseteq Tickets
    BY <1>1 DEF Sweep
<1>3. new \in Sweep /\ new.pc # "add"
    BY <1>2 DEF Sweep, NoSweep
<1>4. sweep' = [sweep EXCEPT ![s] = new]
    BY DEF NextRow
<1> HIDE DEF new
<1> QED BY <1>1, <1>3, <1>4 DEF TypeInv, SweepHasRow

LEMMA TypeInvInit == Init => TypeInv
<1> SUFFICES ASSUME Init PROVE TypeInv
    OBVIOUS
<1>1. jobs \in [JobIds -> Job] /\ StallsInTime
    <2>1. NoJob \in Job /\ NoJob.state = "absent"
        BY JobFacts
    <2>2. [NoJob EXCEPT !.state = "queued"] \in Job /\ [NoJob EXCEPT !.state = "queued"].state = "queued"
        BY JobFacts
    <2> QED BY <2>1, <2>2 DEF Init, StallsInTime
<1>2. sweep \in [Sweepers -> Sweep] /\ SweepHasRow
    BY DEF Init, NoSweep, Sweep, SweepHasRow
<1>3. ticket \in [Tickets -> [status : Status, old : BOOLEAN]]
    BY DEF Init, Status
<1> QED BY <1>1, <1>2, <1>3, PipelineAssumption DEF Init, TypeInv, TypeOK, CallHasLetter

\* Writing a ticket.
LEMMA WriteFacts ==
    ASSUME TypeInv, NEW w \in Workers, Write(w)
    PROVE  /\ slot[w] # None /\ slot[w].pc = "write"
           /\ slot[w].job.ticket \in Tickets /\ slot[w].outcome \in Outcome
           /\ ticket' \in [Tickets -> [status : Status, old : BOOLEAN]]
           /\ \A t \in Tickets : t # slot[w].job.ticket => ticket'[t] = ticket[t]
           /\ IF Overwrites(ticket[slot[w].job.ticket].status, slot[w].outcome)
              THEN /\ ticket'[slot[w].job.ticket].status = slot[w].outcome
                   /\ outbox' = outbox \cup {[ticket |-> slot[w].job.ticket, event |-> e] :
                                                e \in Emits(slot[w].prior, slot[w].outcome)}
              ELSE ticket' = ticket /\ outbox' = outbox
           /\ outbox' \subseteq Effect
           /\ slot' \in [Workers -> Run \cup {None}]
           /\ slot'[w] # None /\ slot'[w].pc \in {"schedule", "settle", "throw"}
           /\ slot'[w].prior = "PENDING" /\ slot'[w].job = slot[w].job
           /\ \A v \in Workers : v # w => slot'[v] = slot[v]
           /\ failures' \in 0 .. MaxFailures
<1>1. slot[w] # None /\ slot[w].pc = "write"
    BY DEF Write, At
<1>2. slot[w].job.ticket \in Tickets /\ slot[w].outcome \in Outcome /\ slot[w].prior \in Status
    BY <1>1, RunFacts DEF Run
<1>3. Emits(slot[w].prior, slot[w].outcome) \subseteq {"triaged", "upgraded"}
    BY <1>2 DEF Emits
<1>4. /\ ticket' \in [Tickets -> [status : Status, old : BOOLEAN]]
      /\ \A t \in Tickets : t # slot[w].job.ticket => ticket'[t] = ticket[t]
      /\ IF Overwrites(ticket[slot[w].job.ticket].status, slot[w].outcome)
         THEN /\ ticket'[slot[w].job.ticket].status = slot[w].outcome
              /\ outbox' = outbox \cup {[ticket |-> slot[w].job.ticket, event |-> e] :
                                           e \in Emits(slot[w].prior, slot[w].outcome)}
         ELSE ticket' = ticket /\ outbox' = outbox
    <2> DEFINE t == slot[w].job.ticket
               new == [status |-> slot[w].outcome, old |-> FALSE]
    <2>1. new \in [status : Status, old : BOOLEAN] /\ new.status = slot[w].outcome
        BY <1>2 DEF Outcome, Status
    <2>2. CASE Overwrites(ticket[t].status, slot[w].outcome)
        <3>1. ticket' = [ticket EXCEPT ![t] = new]
            BY <2>2 DEF Write
        <3>2. outbox' = outbox \cup {[ticket |-> t, event |-> e] :
                                        e \in Emits(slot[w].prior, slot[w].outcome)}
            BY <2>2 DEF Write
        <3> HIDE DEF new
        <3> QED BY <1>2, <2>1, <2>2, <3>1, <3>2 DEF TypeInv, TypeOK
    <2>3. CASE ~Overwrites(ticket[t].status, slot[w].outcome)
        <3>1. ticket' = ticket /\ outbox' = outbox
            BY <2>3 DEF Write
        <3> QED BY <2>3, <3>1 DEF TypeInv, TypeOK
    <2> QED BY <2>2, <2>3
<1>5. outbox' \subseteq Effect
    BY <1>2, <1>3, <1>4 DEF Effect, TypeInv, TypeOK
<1>6. \/ Step(w, IF slot[w].outcome = "DEGRADED" THEN "schedule" ELSE "settle") /\ UNCHANGED failures
      \/ Step(w, "throw") /\ Spend("fault")
    BY DEF Write, Returns
<1>7. PICK pc \in {"schedule", "settle", "throw"} : Step(w, pc)
    BY <1>6
<1>8. failures' \in 0 .. MaxFailures
    BY <1>6, FailureCounted DEF TypeInv, TypeOK
<1> QED BY <1>1, <1>2, <1>4, <1>5, <1>7, <1>8, StepFacts

\* Scheduling an upgrade: the slot settles or throws, a job may be queued.
LEMMA ScheduleFacts ==
    ASSUME TypeInv, NEW w \in Workers, ScheduleUpgrade(w)
    PROVE  /\ slot[w] # None /\ slot[w].pc = "schedule"
           /\ jobs' \in [JobIds -> Job] /\ StallsInTime'
           /\ \A i \in JobIds : jobs'[i] = jobs[i] \/
                 /\ i.kind = "upgrade"
                 /\ jobs[i].state = "absent" /\ jobs'[i].state = "queued"
           /\ slot' \in [Workers -> Run \cup {None}]
           /\ slot'[w] # None /\ slot'[w].pc \in {"settle", "throw"}
           /\ slot'[w].prior = "PENDING" /\ slot'[w].job = slot[w].job
           /\ \A v \in Workers : v # w => slot'[v] = slot[v]
           /\ failures' \in 0 .. MaxFailures
<1> DEFINE attempt == slot[w].upgrade + 1
           j == UpgradeJob(slot[w].job.ticket, attempt)
<1>1. slot[w] # None /\ slot[w].pc = "schedule"
    BY DEF ScheduleUpgrade, At
<1>2. slot[w].job.ticket \in Tickets /\ slot[w].upgrade \in 0 .. MaxUpgrades
    BY <1>1, RunFacts
<1>3. PICK pc \in {"settle", "throw"} : Step(w, pc)
    BY DEF ScheduleUpgrade, Returns
<1>4. failures' \in 0 .. MaxFailures
    BY FailureCounted DEF ScheduleUpgrade, Returns, TypeInv, TypeOK
<1>5. CASE attempt > MaxUpgrades
    <2>1. jobs' = jobs
        BY <1>5 DEF ScheduleUpgrade
    <2> QED BY <1>1, <1>3, <1>4, <2>1, StepFacts DEF TypeInv, TypeOK, StallsInTime
<1>6. CASE ~(attempt > MaxUpgrades)
    <2>1. attempt \in 1 .. MaxUpgrades /\ attempt \in 0 .. MaxUpgrades
        BY <1>2, <1>6, PipelineAssumption
    <2>2. j \in JobIds /\ j.kind = "upgrade"
        BY <1>2, <2>1, JobIdFacts DEF UpgradeJob
    <2>3. Add(j, attempt)
        BY <1>6 DEF ScheduleUpgrade
    <2> HIDE DEF j, attempt
    <2>4. /\ jobs' \in [JobIds -> Job] /\ StallsInTime'
          /\ \A i \in JobIds : jobs'[i] = jobs[i] \/
                /\ i.kind = "upgrade"
                /\ jobs[i].state = "absent" /\ jobs'[i].state = "queued"
        BY <2>1, <2>2, <2>3, AddFacts
    <2> QED BY <1>1, <1>3, <1>4, <2>4, StepFacts
<1> QED BY <1>5, <1>6

\* A replay call: its dead letter is there and its job is added, or not.
LEMMA ReplayFacts ==
    ASSUME TypeInv, NEW o \in Operators, EnqueueReplay(o)
    PROVE  /\ oper[o] # None /\ oper[o].dl \in DeadIds /\ dead[oper[o].dl] # None
           /\ jobs' \in [JobIds -> Job] /\ StallsInTime'
           /\ ReplayJob(dead[oper[o].dl].ticket, oper[o].dl) \in JobIds
           /\ \A i \in JobIds : i # ReplayJob(dead[oper[o].dl].ticket, oper[o].dl) =>
                jobs'[i] = jobs[i]
           /\ LET i == ReplayJob(dead[oper[o].dl].ticket, oper[o].dl) IN
              \/ jobs'[i] = jobs[i]
              \/ jobs[i].state = "absent" /\ jobs'[i].state = "queued"
           /\ \/ /\ jobs'[ReplayJob(dead[oper[o].dl].ticket, oper[o].dl)].state # "absent"
                 /\ oper' = [oper EXCEPT ![o] = None]
              \/ /\ oper' \in [Operators -> Call \cup {None}]
                 /\ oper'[o] # None /\ oper'[o].dl = oper[o].dl
                 /\ \A p \in Operators : p # o => oper'[p] = oper[p]
           /\ failures' \in 0 .. MaxFailures
<1> DEFINE d == oper[o].dl
           j == ReplayJob(dead[d].ticket, d)
           turned == [oper[o] EXCEPT !.pc = "revert"]
<1>1. oper[o] # None /\ oper[o] \in Call /\ d \in DeadIds
    BY DEF EnqueueReplay, TypeInv, TypeOK, Call
<1>2. dead[d] # None /\ dead[d] \in DeadLetter
    BY <1>1 DEF TypeInv, TypeOK, CallHasLetter
<1>3. dead[d].ticket \in Tickets /\ dead[d].upgrade \in 0 .. MaxUpgrades
    BY <1>2 DEF DeadLetter
<1>4. j \in JobIds
    BY <1>1, <1>3, JobIdFacts
<1>5. turned \in Call /\ turned # None /\ turned.dl = d
    BY <1>1, PipelineAssumption DEF Call
<1>6. \/ /\ Add(j, dead[d].upgrade)
         /\ oper' = [oper EXCEPT ![o] = None]
         /\ UNCHANGED failures
      \/ /\ Add(j, dead[d].upgrade) \/ UNCHANGED jobs
         /\ oper' = [oper EXCEPT ![o] = turned]
         /\ Spend("fault")
    BY DEF EnqueueReplay
<1>7. failures' \in 0 .. MaxFailures
    BY <1>6, FailureCounted DEF TypeInv, TypeOK
<1> HIDE DEF turned
<1>8. CASE Add(j, dead[d].upgrade)
    <2> HIDE DEF j
    <2>1. /\ jobs' \in [JobIds -> Job] /\ StallsInTime'
          /\ \A i \in JobIds : i # j => jobs'[i] = jobs[i]
          /\ IF jobs[j].state = "absent" THEN jobs'[j].state = "queued" ELSE jobs'[j] = jobs[j]
        BY <1>3, <1>4, <1>8, AddFacts
    <2>2. jobs'[j].state # "absent"
        BY <2>1
    <2>3. \/ oper' = [oper EXCEPT ![o] = None]
          \/ /\ oper' \in [Operators -> Call \cup {None}]
             /\ oper'[o] # None /\ oper'[o].dl = d
             /\ \A p \in Operators : p # o => oper'[p] = oper[p]
        BY <1>5, <1>6 DEF TypeInv, TypeOK
    <2> QED BY <1>1, <1>2, <1>4, <1>7, <2>1, <2>2, <2>3 DEF j
<1>9. CASE UNCHANGED jobs /\ oper' = [oper EXCEPT ![o] = turned]
    <2>1. /\ oper' \in [Operators -> Call \cup {None}]
          /\ oper'[o] # None /\ oper'[o].dl = d
          /\ \A p \in Operators : p # o => oper'[p] = oper[p]
        BY <1>5, <1>9 DEF TypeInv, TypeOK
    <2> QED BY <1>1, <1>2, <1>4, <1>7, <1>9, <2>1 DEF TypeInv, TypeOK, StallsInTime
<1> QED BY <1>6, <1>8, <1>9

LEMMA TypeInvNext == TypeInv /\ [Next]_vars => TypeInv'
<1> SUFFICES ASSUME TypeInv, [Next]_vars PROVE TypeInv'
    OBVIOUS
<1>1. ASSUME NEW w \in Workers, Pick(w) PROVE TypeInv'
    BY <1>1, PickFacts, QueueTypes DEF Pick, TypeInv, TypeOK
<1>2. ASSUME NEW w \in Workers, Load(w) PROVE TypeInv'
    <2> DEFINE new == [slot[w] EXCEPT !.pc = "write", !.prior = ticket[slot[w].job.ticket].status,
                                      !.outcome = ai]
    <2>1. slot[w] # None /\ slot[w] \in Run /\ slot[w].job.ticket \in Tickets
        BY <1>2, RunFacts DEF Load, At
    <2>2. new \in Run
        BY <2>1 DEF Run, Outcome, TypeInv, TypeOK
    <2>3. slot' = [slot EXCEPT ![w] = new]
        BY <1>2, ZenonT(60) DEF Load
    <2> HIDE DEF new
    <2> QED BY <1>2, <2>2, <2>3, SlotOnlyTypes DEF Load, TypeInv, TypeOK
<1>3. ASSUME NEW w \in Workers, Write(w) PROVE TypeInv'
    BY <1>3, WriteFacts
    DEF Write, TypeInv, TypeOK, StallsInTime, CallHasLetter, SweepHasRow
<1>4. ASSUME NEW w \in Workers, ScheduleUpgrade(w) PROVE TypeInv'
    BY <1>4, ScheduleFacts, QueueTypes DEF ScheduleUpgrade, TypeInv, TypeOK
<1>5. ASSUME NEW w \in Workers, Throws(w) PROVE TypeInv'
    <2>1. slot[w] # None
        BY <1>5 DEF Throws, At
    <2> QED BY <1>5, <2>1, StepFacts, FailureCounted, SlotOnlyTypes DEF Throws
<1>6. ASSUME NEW w \in Workers, Complete(w) PROVE TypeInv'
    BY <1>6, CompleteFacts, QueueTypes DEF Complete, TypeInv, TypeOK
<1>7. ASSUME NEW w \in Workers, AttemptFailed(w) PROVE TypeInv'
    BY <1>7, AttemptFacts, QueueTypes DEF AttemptFailed, TypeInv, TypeOK
<1>8. ASSUME NEW w \in Workers, DeadLettered(w) PROVE TypeInv'
    <2> DEFINE new == [ticket |-> slot[w].job.ticket, upgrade |-> slot[w].upgrade,
                       status |-> "PENDING"]
    <2>1. PICK d \in DeadIds : dead[d] = None /\ dead' = [dead EXCEPT ![d] = new]
        BY <1>8 DEF DeadLettered
    <2>2. slot[w] # None /\ slot[w].job.ticket \in Tickets /\ slot[w].upgrade \in 0 .. MaxUpgrades
        BY <1>8, RunFacts DEF DeadLettered, At
    <2>3. new \in DeadLetter /\ new # None
        BY <2>2, PipelineAssumption DEF DeadLetter
    <2> HIDE DEF new
    <2>4. dead' \in [DeadIds -> DeadLetter \cup {None}] /\ \A e \in DeadIds : dead[e] # None => dead'[e] # None
        BY <2>1, <2>3 DEF TypeInv, TypeOK
    <2>5. CallHasLetter'
        BY <1>8, <2>4 DEF DeadLettered, CallHasLetter, TypeInv, TypeOK, Call
    <2>6. failures' \in 0 .. MaxFailures
        BY <1>8, FailureCounted DEF DeadLettered, TypeInv, TypeOK
    <2> QED BY <1>8, <2>4, <2>5, <2>6, FreedFacts
            DEF DeadLettered, TypeInv, TypeOK, StallsInTime, SweepHasRow
<1>9. ASSUME NEW w \in Workers, DeadLetterLogged(w) PROVE TypeInv'
    <2>1. slot[w].job.ticket \in Tickets
        BY <1>9, RunFacts DEF DeadLetterLogged, At
    <2> QED BY <1>9, <2>1, FreedFacts, FailureCounted
            DEF DeadLetterLogged, database, TypeInv, TypeOK, StallsInTime, CallHasLetter, SweepHasRow
<1>10. ASSUME NEW w \in Workers, RetryCounted(w) PROVE TypeInv'
    BY <1>10, FreedFacts, SlotOnlyTypes DEF RetryCounted, TypeInv, TypeOK
<1>11. ASSUME NEW w \in Workers, WorkerDies(w) PROVE TypeInv'
    <2> DEFINE j == slot[w].job
               new == [jobs[j] EXCEPT !.owner = None]
    <2>1. j \in JobIds /\ jobs[j] \in Job
        BY <1>11, RunFacts DEF WorkerDies
    <2>2. new \in Job /\ new.state = jobs[j].state /\ new.stalls = jobs[j].stalls
        BY <2>1 DEF Job
    <2>3. jobs' = IF Owns(w) THEN [jobs EXCEPT ![j] = new] ELSE jobs
        BY <1>11 DEF WorkerDies
    <2> HIDE DEF new, j
    <2>4. jobs' \in [JobIds -> Job] /\ StallsInTime'
        BY <2>1, <2>2, <2>3, JobReplaced DEF TypeInv, TypeOK, StallsInTime
    <2> QED BY <1>11, <2>4, FreedFacts, FailureCounted, QueueTypes DEF WorkerDies, TypeInv, TypeOK
<1>12. ASSUME NEW w \in Workers, HandlerDies(w) PROVE TypeInv'
    <2>1. slot[w].job.ticket \in Tickets
        BY <1>12, RunFacts DEF HandlerDies, At
    <2> QED BY <1>12, <2>1, FreedFacts, FailureCounted, QueueTypes
            DEF HandlerDies, TypeInv, TypeOK, StallsInTime
<1>13. ASSUME NEW j \in JobIds, OrphanStalls(j) \/ LiveRunStalls(j) PROVE TypeInv'
    BY <1>13, RequeueFacts, FailureCounted, QueueTypes
    DEF OrphanStalls, LiveRunStalls, Requeue, TypeInv, TypeOK
<1>14. ASSUME NEW j \in JobIds, JobExpires(j) PROVE TypeInv'
    BY <1>14, JobFacts, JobReplaced, QueueTypes DEF JobExpires, TypeInv, TypeOK
<1>15. CASE RedisFlushed
    <2>1. jobs' \in [JobIds -> Job] /\ StallsInTime'
        BY <1>15, JobFacts DEF RedisFlushed, StallsInTime
    <2> QED BY <1>15, <2>1, FailureCounted, QueueTypes DEF RedisFlushed, TypeInv, TypeOK
<1>16. CASE AiGoesDown \/ AiRecovers
    BY <1>16, FailureCounted
    DEF AiGoesDown, AiRecovers, database, TypeInv, TypeOK, StallsInTime, CallHasLetter, SweepHasRow
<1>17. ASSUME NEW o \in Operators, NEW d \in DeadIds, Flip(o, d) PROVE TypeInv'
    <2> DEFINE new == [dead[d] EXCEPT !.status = "REPLAYED"]
               started == [pc |-> "enqueue", dl |-> d]
    <2>1. dead[d] # None /\ dead[d] \in DeadLetter
        BY <1>17 DEF Flip, Flippable, TypeInv, TypeOK
    <2>2. new \in DeadLetter /\ new # None
        BY <2>1, PipelineAssumption DEF DeadLetter
    <2>3. started \in Call /\ started.dl = d
        BY DEF Call
    <2>4. dead' = [dead EXCEPT ![d] = new] /\ oper' = [oper EXCEPT ![o] = started]
        BY <1>17 DEF Flip
    <2> HIDE DEF new, started
    <2>5. /\ dead' \in [DeadIds -> DeadLetter \cup {None}]
          /\ oper' \in [Operators -> Call \cup {None}]
          /\ CallHasLetter'
        BY <2>2, <2>3, <2>4 DEF TypeInv, TypeOK, CallHasLetter, Call
    <2> QED BY <1>17, <2>5 DEF Flip, TypeInv, TypeOK, StallsInTime, SweepHasRow
<1>18. ASSUME NEW o \in Operators, EnqueueReplay(o) PROVE TypeInv'
    <2>1. oper' \in [Operators -> Call \cup {None}] /\ CallHasLetter'
        <3>1. CASE oper' = [oper EXCEPT ![o] = None]
            BY <1>18, <3>1 DEF EnqueueReplay, database, TypeInv, TypeOK, CallHasLetter
        <3>2. CASE /\ oper' \in [Operators -> Call \cup {None}]
                   /\ oper'[o] # None /\ oper'[o].dl = oper[o].dl
                   /\ \A p \in Operators : p # o => oper'[p] = oper[p]
            BY <1>18, <3>2, ReplayFacts DEF EnqueueReplay, database, TypeInv, TypeOK, CallHasLetter
        <3> QED BY <1>18, <3>1, <3>2, ReplayFacts
    <2> QED BY <1>18, <2>1, ReplayFacts DEF EnqueueReplay, database, TypeInv, TypeOK, SweepHasRow
<1>19. ASSUME NEW o \in Operators, Revert(o) PROVE TypeInv'
    <2> DEFINE d == oper[o].dl
               new == [dead[d] EXCEPT !.status = "PENDING"]
    <2>1. d \in DeadIds /\ dead[d] # None /\ dead[d] \in DeadLetter
        BY <1>19 DEF Revert, TypeInv, TypeOK, CallHasLetter, Call
    <2>2. new \in DeadLetter /\ new # None
        BY <2>1, PipelineAssumption DEF DeadLetter
    <2>3. dead' = [dead EXCEPT ![d] = new] /\ oper' = [oper EXCEPT ![o] = None]
        BY <1>19 DEF Revert
    <2> HIDE DEF new
    <2>4. /\ dead' \in [DeadIds -> DeadLetter \cup {None}]
          /\ oper' \in [Operators -> Call \cup {None}]
          /\ CallHasLetter'
        BY <2>1, <2>2, <2>3 DEF TypeInv, TypeOK, CallHasLetter, Call
    <2> QED BY <1>19, <2>4 DEF Revert, TypeInv, TypeOK, StallsInTime, SweepHasRow
<1>20. ASSUME NEW o \in Operators, ReplayDies(o) PROVE TypeInv'
    <2>1. dead[oper[o].dl].ticket \in Tickets
        BY <1>20 DEF ReplayDies, TypeInv, TypeOK, CallHasLetter, Call, DeadLetter
    <2> QED BY <1>20, <2>1, FailureCounted
            DEF ReplayDies, database, TypeInv, TypeOK, StallsInTime, CallHasLetter, SweepHasRow
<1>21. ASSUME NEW t \in Tickets, Ages(t) PROVE TypeInv'
    BY <1>21 DEF Ages, TypeInv, TypeOK, StallsInTime, CallHasLetter, SweepHasRow
<1>22. ASSUME NEW s \in Sweepers, Scan(s) PROVE TypeInv'
    <2>1. PICK batch \in SUBSET Stranded \ {{}} :
            sweep' = [sweep EXCEPT ![s] = [NoSweep EXCEPT !.pc = "next", !.batch = batch]]
        BY <1>22 DEF Scan
    <2> DEFINE new == [NoSweep EXCEPT !.pc = "next", !.batch = batch]
    <2>2. new \in Sweep /\ new.pc # "add"
        BY DEF Sweep, NoSweep, Stranded
    <2>3. sweep' = [sweep EXCEPT ![s] = new]
        BY <2>1
    <2> HIDE DEF new
    <2>4. sweep' \in [Sweepers -> Sweep] /\ SweepHasRow'
        BY <2>2, <2>3 DEF TypeInv, TypeOK, SweepHasRow
    <2> QED BY <1>22, <2>4 DEF Scan, database, TypeInv, TypeOK, StallsInTime, CallHasLetter
<1>23. ASSUME NEW s \in Sweepers, NEW t \in Tickets, Inspect(s, t) PROVE TypeInv'
    <2> DEFINE j == ReconcileJob(t)
               new == [sweep[s] EXCEPT !.pc = "add", !.row = t, !.existing = Held(j)]
    <2>1. j \in JobIds
        BY JobIdFacts
    <2>2. jobs' \in [JobIds -> Job] /\ StallsInTime'
        <3> HIDE DEF j
        <3>1. jobs' = IF jobs[j].state = "failed" THEN [jobs EXCEPT ![j] = NoJob] ELSE jobs
            BY <1>23 DEF Inspect, j
        <3> QED BY <2>1, <3>1, JobFacts, JobReplaced DEF TypeInv, TypeOK, StallsInTime
    <2>3. new \in Sweep /\ new.row = t
        BY DEF TypeInv, TypeOK, Sweep, Held
    <2>4. sweep' = [sweep EXCEPT ![s] = new]
        BY <1>23 DEF Inspect
    <2> HIDE DEF new
    <2>5. sweep' \in [Sweepers -> Sweep] /\ SweepHasRow'
        BY <2>3, <2>4 DEF TypeInv, TypeOK, SweepHasRow
    <2> QED BY <1>23, <2>2, <2>5 DEF Inspect, database, TypeInv, TypeOK, CallHasLetter
<1>24. ASSUME NEW s \in Sweepers, Redrive(s) PROVE TypeInv'
    <2>1. sweep[s].row \in Tickets
        BY <1>24 DEF Redrive, TypeInv, SweepHasRow
    <2>2. ReconcileJob(sweep[s].row) \in JobIds /\ 0 \in 0 .. MaxUpgrades
        BY <2>1, JobIdFacts, PipelineAssumption
    <2>3. jobs' \in [JobIds -> Job] /\ StallsInTime'
        BY <1>24, <2>2, AddFacts DEF Redrive, TypeInv, TypeOK, StallsInTime
    <2>4. sweep' \in [Sweepers -> Sweep] /\ SweepHasRow'
        BY <1>24, NextRowFacts DEF Redrive
    <2>5. failures' \in 0 .. MaxFailures
        BY <1>24, FailureCounted DEF Redrive, TypeInv, TypeOK
    <2> QED BY <1>24, <2>3, <2>4, <2>5 DEF Redrive, database, TypeInv, TypeOK, CallHasLetter
<1>25. ASSUME NEW s \in Sweepers, SweepDies(s) PROVE TypeInv'
    <2>1. sweep' \in [Sweepers -> Sweep] /\ SweepHasRow'
        BY <1>25 DEF SweepDies, NoSweep, Sweep, TypeInv, TypeOK, SweepHasRow
    <2> QED BY <1>25, <2>1, FailureCounted
            DEF SweepDies, database, TypeInv, TypeOK, StallsInTime, CallHasLetter
<1>26. CASE UNCHANGED vars
    BY <1>26 DEF vars, TypeInv, TypeOK, StallsInTime, CallHasLetter, SweepHasRow
<1> QED
    BY <1>1, <1>2, <1>3, <1>4, <1>5, <1>6, <1>7, <1>8, <1>9, <1>10, <1>11, <1>12, <1>13, <1>14,
       <1>15, <1>16, <1>17, <1>18, <1>19, <1>20, <1>21, <1>22, <1>23, <1>24, <1>25, <1>26 DEF Next

\* Tickets, outbox, queue, dead letters, runs, calls and sweeps keep their types.
THEOREM TypeCorrect == Spec => []TypeOK
<1>1. Spec => []TypeInv
    BY TypeInvInit, TypeInvNext, PTL DEF Spec
<1> QED BY <1>1, PTL DEF TypeInv

-----------------------------------------------------------------------------
(* Tickets and their outbox rows.  Two runs of a ticket may hold what they   *)
(* read at different times; what counts is that a run that read another      *)
(* status than PENDING read it of a ticket that will not be PENDING again.   *)

\* Every run is as it was, or has forgotten what it read, or only moved on.
SlotsForget ==
    \A w \in Workers :
        \/ slot'[w] = slot[w]
        \/ slot'[w] = None
        \/ slot'[w].prior = "PENDING"
        \/ slot[w] # None /\ slot'[w].job = slot[w].job /\ slot'[w].prior = slot[w].prior

LEMMA EffectInvInit == Init => EffectInv
BY TypeInvInit DEF Init, EffectInv, EffectsFollowState, Emitted, PriorSeen

LEMMA EffectInvNext == EffectInv /\ [Next]_vars => EffectInv'
<1> SUFFICES ASSUME EffectInv, [Next]_vars PROVE EffectsFollowState' /\ PriorSeen'
    BY TypeInvNext DEF EffectInv
<1>0. TypeInv /\ EffectsFollowState /\ PriorSeen
    BY DEF EffectInv
<1>1. ASSUME UNCHANGED <<ticket, outbox>>, SlotsForget PROVE EffectsFollowState' /\ PriorSeen'
    BY <1>0, <1>1 DEF EffectsFollowState, Emitted, PriorSeen, SlotsForget
<1>2. ASSUME UNCHANGED <<ticket, outbox, slot>> PROVE EffectsFollowState' /\ PriorSeen'
    BY <1>1, <1>2 DEF SlotsForget
<1>3. ASSUME NEW w \in Workers, UNCHANGED <<ticket, outbox>>, slot' = [slot EXCEPT ![w] = None]
      PROVE  EffectsFollowState' /\ PriorSeen'
    BY <1>0, <1>1, <1>3, FreedFacts DEF SlotsForget
<1>4. ASSUME NEW w \in Workers, Pick(w) PROVE EffectsFollowState' /\ PriorSeen'
    <2>1. SlotsForget
        BY <1>0, <1>4, PickFacts DEF SlotsForget
    <2> QED BY <1>1, <1>4, <2>1 DEF Pick, database
<1>5. ASSUME NEW w \in Workers, Load(w) PROVE EffectsFollowState' /\ PriorSeen'
    <2> DEFINE new == [slot[w] EXCEPT !.pc = "write", !.prior = ticket[slot[w].job.ticket].status,
                                      !.outcome = ai]
    <2>1. slot[w] # None /\ slot[w] \in Run
        BY <1>0, <1>5, RunFacts DEF Load, At
    <2>2. new.job = slot[w].job /\ new.prior = ticket[slot[w].job.ticket].status
        BY <2>1 DEF Run
    <2>3. slot' = [slot EXCEPT ![w] = new] /\ UNCHANGED <<ticket, outbox>>
        BY <1>5 DEF Load, database
    <2> HIDE DEF new
    <2>4. slot'[w] = new /\ \A v \in Workers : v # w => slot'[v] = slot[v]
        BY <1>0, <2>3 DEF TypeInv, TypeOK
    <2>5. PriorSeen'
        BY <1>0, <2>2, <2>3, <2>4 DEF PriorSeen
    <2> QED BY <1>0, <2>3, <2>5 DEF EffectsFollowState, Emitted
<1>6. ASSUME NEW w \in Workers, Write(w) PROVE EffectsFollowState' /\ PriorSeen'
    <2>1. PICK t \in Tickets, outcome \in Outcome, prior \in Status :
            /\ t = slot[w].job.ticket /\ outcome = slot[w].outcome /\ prior = slot[w].prior
            /\ slot[w] # None
            /\ \A u \in Tickets : u # t => ticket'[u] = ticket[u]
            /\ slot'[w].prior = "PENDING"
            /\ \A v \in Workers : v # w => slot'[v] = slot[v]
        <3>1. slot[w] # None /\ slot[w].prior \in Status
            BY <1>0, <1>6, WriteFacts, RunFacts DEF Run
        <3> QED BY <1>0, <1>6, <3>1, WriteFacts
    <2>2. ticket[t].status # "PENDING" => ticket'[t].status # "PENDING"
        BY <1>0, <1>6, <2>1, WriteFacts DEF Outcome
    <2>3. PriorSeen'
        BY <1>0, <2>1, <2>2, RunFacts DEF PriorSeen
    <2>4. CASE Overwrites(ticket[t].status, outcome)
        <3>1. /\ ticket'[t].status = outcome
              /\ outbox' = outbox \cup {[ticket |-> t, event |-> e] : e \in Emits(prior, outcome)}
            BY <1>0, <1>6, <2>1, <2>4, WriteFacts
        <3>2. prior \in Status /\ (prior # "PENDING" => ticket[t].status # "PENDING")
            BY <1>0, <2>1, RunFacts DEF PriorSeen, Run
        <3>3. ASSUME NEW u \in Tickets, NEW e \in {"triaged", "upgraded"}
              PROVE  Emitted(u, e)' <=> Emitted(u, e) \/ (u = t /\ e \in Emits(prior, outcome))
            <4>1. PICK S : S = Emits(prior, outcome)
                OBVIOUS
            <4>2. outbox' = outbox \cup {[ticket |-> t, event |-> f] : f \in S}
                BY <3>1, <4>1
            <4>3. \A f : [ticket |-> u, event |-> e] = [ticket |-> t, event |-> f] <=> u = t /\ e = f
                OBVIOUS
            <4>4. Emitted(u, e)' <=> Emitted(u, e) \/ (u = t /\ e \in S)
                BY <4>2, <4>3 DEF Emitted
            <4> QED BY <4>1, <4>4
        <3>4. /\ "triaged" \in Emits(prior, outcome) <=> prior = "PENDING"
              /\ "upgraded" \in Emits(prior, outcome) => outcome = "ENRICHED"
            BY <3>2 DEF Emits, Status
        <3>5. Emitted(t, "triaged")' <=> ticket'[t].status # "PENDING"
            BY <1>0, <2>1, <3>1, <3>2, <3>3, <3>4 DEF EffectsFollowState, Outcome
        <3>6. Emitted(t, "upgraded")' => ticket'[t].status = "ENRICHED"
            <4>1. ticket[t].status = "ENRICHED" => outcome = "ENRICHED"
                BY <2>4 DEF Overwrites
            <4> QED BY <1>0, <2>1, <3>1, <3>3, <3>4, <4>1 DEF EffectsFollowState
        <3>7. EffectsFollowState'
            <4> SUFFICES ASSUME NEW u \in Tickets
                         PROVE  /\ Emitted(u, "triaged")' <=> ticket'[u].status # "PENDING"
                                /\ Emitted(u, "upgraded")' => ticket'[u].status = "ENRICHED"
                BY DEF EffectsFollowState
            <4>1. CASE u = t
                BY <3>5, <3>6, <4>1
            <4>2. CASE u # t
                BY <1>0, <2>1, <3>3, <4>2 DEF EffectsFollowState
            <4> QED BY <4>1, <4>2
        <3> QED BY <2>3, <3>7
    <2>5. CASE ~Overwrites(ticket[t].status, outcome)
        BY <1>0, <1>6, <2>1, <2>3, <2>5, WriteFacts DEF EffectsFollowState, Emitted
    <2> QED BY <2>4, <2>5
<1>7. ASSUME NEW w \in Workers, ScheduleUpgrade(w) \/ Throws(w)
      PROVE  EffectsFollowState' /\ PriorSeen'
    <2>1. slot[w] # None /\ \E pc \in {"settle", "throw"} : Step(w, pc)
        BY <1>7 DEF ScheduleUpgrade, Throws, Returns, At
    <2>2. SlotsForget
        BY <1>0, <2>1, StepFacts DEF SlotsForget
    <2> QED BY <1>1, <1>7, <2>2 DEF ScheduleUpgrade, Throws, database
<1>8. ASSUME NEW w \in Workers, AttemptFailed(w) PROVE EffectsFollowState' /\ PriorSeen'
    <2>1. SlotsForget
        BY <1>0, <1>8, AttemptFacts DEF SlotsForget
    <2> QED BY <1>1, <1>8, <2>1 DEF AttemptFailed, database
<1>9. ASSUME NEW w \in Workers,
             \/ Complete(w) \/ DeadLettered(w) \/ DeadLetterLogged(w) \/ RetryCounted(w)
             \/ WorkerDies(w) \/ HandlerDies(w)
      PROVE  EffectsFollowState' /\ PriorSeen'
    BY <1>3, <1>9
    DEF Complete, DeadLettered, DeadLetterLogged, RetryCounted, WorkerDies, HandlerDies, database
<1>10. ASSUME NEW t \in Tickets, Ages(t) PROVE EffectsFollowState' /\ PriorSeen'
    <2>1. \A u \in Tickets : ticket'[u].status = ticket[u].status
        BY <1>0, <1>10 DEF Ages, TypeInv, TypeOK
    <2>2. UNCHANGED <<outbox, slot>>
        BY <1>10 DEF Ages
    <2> QED BY <1>0, <2>1, <2>2, RunFacts DEF EffectsFollowState, Emitted, PriorSeen
<1>11. ASSUME NEW j \in JobIds, OrphanStalls(j) \/ LiveRunStalls(j) \/ JobExpires(j)
       PROVE  EffectsFollowState' /\ PriorSeen'
    BY <1>2, <1>11 DEF OrphanStalls, LiveRunStalls, Requeue, JobExpires, database
<1>12. CASE AiGoesDown \/ AiRecovers \/ RedisFlushed
    BY <1>2, <1>12 DEF AiGoesDown, AiRecovers, RedisFlushed, database
<1>13. ASSUME NEW o \in Operators,
              \/ \E d \in DeadIds : Flip(o, d)
              \/ EnqueueReplay(o) \/ Revert(o) \/ ReplayDies(o)
       PROVE  EffectsFollowState' /\ PriorSeen'
    BY <1>2, <1>13 DEF Flip, EnqueueReplay, Revert, ReplayDies, database
<1>14. ASSUME NEW s \in Sweepers,
              \/ Scan(s) \/ Redrive(s) \/ SweepDies(s)
              \/ \E t \in Tickets : Inspect(s, t)
       PROVE  EffectsFollowState' /\ PriorSeen'
    BY <1>2, <1>14 DEF Scan, Redrive, SweepDies, Inspect, database
<1>15. CASE UNCHANGED vars
    BY <1>2, <1>15 DEF vars
<1> QED
    BY <1>4, <1>5, <1>6, <1>7, <1>8, <1>9, <1>10, <1>11, <1>12, <1>13, <1>14, <1>15 DEF Next

\* A ticket has left PENDING exactly when its triaged event is in the outbox, and
\* an upgrade is only announced of an ENRICHED ticket, whichever run wrote first.
THEOREM EffectsFollow == Spec => []EffectsFollowState
<1>1. Spec => []EffectInv
    BY EffectInvInit, EffectInvNext, PTL DEF Spec
<1> QED BY <1>1, PTL DEF EffectInv

\* What the pipeline does to a ticket is what TicketLife allows: other runs may
\* have written since a run read the ticket, but a run that read PENDING finds the
\* triaged event there if they have, and adds nothing.
THEOREM LifeImplemented == Spec => RefinesLife
<1> DEFINE status == [t \in Tickets |-> ticket[t].status]
<1>1. Init => Life!Init
    BY DEF Init, Life!Init
<1>2. EffectInv /\ [Next]_vars => [Life!Next]_(Life!vars)
    <2> SUFFICES ASSUME EffectInv, [Next]_vars PROVE Life!Next \/ UNCHANGED <<status, outbox>>
        BY DEF Life!vars
    <2>0. TypeInv /\ EffectsFollowState /\ PriorSeen
        BY DEF EffectInv
    <2>1. ASSUME NEW w \in Workers, Write(w) PROVE Life!Next \/ UNCHANGED <<status, outbox>>
        <3>1. PICK t \in Tickets, outcome \in Outcome, prior \in Status :
                /\ t = slot[w].job.ticket /\ outcome = slot[w].outcome /\ prior = slot[w].prior
                /\ \A u \in Tickets : u # t => ticket'[u] = ticket[u]
                /\ prior # "PENDING" => ticket[t].status # "PENDING"
            <4>1. slot[w] # None /\ slot[w].prior \in Status
                BY <2>0, <2>1, WriteFacts, RunFacts DEF Run
            <4> QED BY <2>0, <2>1, <4>1, WriteFacts DEF PriorSeen
        <3>2. CASE ~Overwrites(ticket[t].status, outcome)
            BY <2>0, <2>1, <3>1, <3>2, WriteFacts
        <3>3. CASE Overwrites(ticket[t].status, outcome)
            <4>1. /\ ticket'[t].status = outcome
                  /\ outbox' = outbox \cup {[ticket |-> t, event |-> e] : e \in Emits(prior, outcome)}
                BY <2>0, <2>1, <3>1, <3>3, WriteFacts
            <4>2. status' = [status EXCEPT ![t] = outcome] /\ status[t] = ticket[t].status
                BY <3>1, <4>1
            <4>3. /\ ticket[t].status \in Status
                  /\ ticket[t].status = outcome => status' = status
                BY <2>0, <4>2 DEF TypeInv, TypeOK
            <4>4. Emitted(t, "triaged") <=> ticket[t].status # "PENDING"
                BY <2>0 DEF EffectsFollowState
            <4>5. ticket[t].status = "PENDING" /\ prior = "PENDING" => Life!Next
                <5> SUFFICES ASSUME ticket[t].status = "PENDING", prior = "PENDING" PROVE Life!Triage(t, outcome)
                    BY DEF Life!Next, Outcome
                <5>1. outbox' = outbox \cup {[ticket |-> t, event |-> "triaged"]}
                    BY <4>1 DEF Emits
                <5> QED BY <4>2, <5>1 DEF Life!Triage, Life!Tell
            <4>6. ASSUME ticket[t].status = "DEGRADED", outcome = "ENRICHED",
                         \/ outbox' = outbox \cup {[ticket |-> t, event |-> "upgraded"]}
                         \/ outbox' = outbox
                  PROVE  Life!Next
                BY <4>2, <4>6 DEF Life!Next, Life!Upgrade, Life!Tell
            <4>7. ASSUME ticket[t].status = "ENRICHED", outcome = "ENRICHED",
                         outbox' = outbox \cup {[ticket |-> t, event |-> "upgraded"]}
                  PROVE  Life!Next
                BY <4>2, <4>3, <4>7 DEF Life!Next, Life!TellUpgrade, Life!Tell
            <4>8. ticket[t].status = outcome \/ outcome = "ENRICHED" \/ ticket[t].status = "PENDING"
                BY <3>3, <4>3 DEF Overwrites, Outcome, Status
            <4> HIDE DEF status
            <4>9. CASE prior = "PENDING"
                <5>1. outbox' = outbox \cup {[ticket |-> t, event |-> "triaged"]}
                    BY <4>1, <4>9 DEF Emits
                <5>2. ticket[t].status # "PENDING" => outbox' = outbox
                    BY <4>4, <5>1 DEF Emitted
                <5> QED BY <4>3, <4>5, <4>6, <4>8, <4>9, <5>2 DEF Status
            <4>10. CASE prior = "DEGRADED" /\ outcome = "ENRICHED"
                <5>1. outbox' = outbox \cup {[ticket |-> t, event |-> "upgraded"]}
                    BY <4>1, <4>10 DEF Emits
                <5> QED BY <3>1, <4>3, <4>6, <4>7, <4>10, <5>1 DEF Status
            <4>11. CASE prior # "PENDING" /\ ~(prior = "DEGRADED" /\ outcome = "ENRICHED")
                <5>1. outbox' = outbox
                    BY <4>1, <4>11 DEF Emits
                <5> QED BY <3>1, <4>3, <4>6, <4>8, <4>11, <5>1 DEF Status
            <4> QED BY <4>9, <4>10, <4>11
        <3> QED BY <3>2, <3>3
    <2>2. ASSUME NEW t \in Tickets, Ages(t) PROVE UNCHANGED <<status, outbox>>
        <3>1. \A u \in Tickets : ticket'[u].status = ticket[u].status
            BY <2>0, <2>2 DEF Ages, TypeInv, TypeOK
        <3>2. UNCHANGED outbox
            BY <2>2 DEF Ages
        <3> QED BY <3>1, <3>2
    <2>3. ASSUME UNCHANGED <<ticket, outbox>> PROVE UNCHANGED <<status, outbox>>
        BY <2>3
    <2> HIDE DEF status
    <2> QED
        BY <2>1, <2>2, <2>3
        DEF Next, vars, Pick, Load, ScheduleUpgrade, Throws, Complete, AttemptFailed, DeadLettered,
            DeadLetterLogged, RetryCounted, WorkerDies, HandlerDies, OrphanStalls, LiveRunStalls,
            Requeue, JobExpires, Flip, EnqueueReplay, Revert, ReplayDies, Scan, Inspect, Redrive,
            SweepDies, AiGoesDown, AiRecovers, RedisFlushed, database
<1>3. Spec => []EffectInv
    BY EffectInvInit, EffectInvNext, PTL DEF Spec
<1> QED BY <1>1, <1>2, <1>3, PTL DEF Spec, RefinesLife, Life!Spec

\* No run, replay or sweep puts a fallback in the place of an AI result.
THEOREM EnrichedStays == Spec => EnrichedIsFinal
<1>1. TypeInv /\ [Next]_vars =>
        [\A t \in Tickets :
            ticket[t].status = "ENRICHED" => ticket'[t].status = "ENRICHED"]_vars
    <2> SUFFICES ASSUME TypeInv, Next,
                        NEW t \in Tickets, ticket[t].status = "ENRICHED"
                 PROVE  ticket'[t].status = "ENRICHED"
        OBVIOUS
    <2>1. ASSUME NEW w \in Workers, Write(w) PROVE ticket'[t].status = "ENRICHED"
        BY <2>1, WriteFacts DEF Overwrites
    <2>2. ASSUME NEW u \in Tickets, Ages(u) PROVE ticket'[t].status = "ENRICHED"
        BY <2>2 DEF Ages, TypeInv, TypeOK
    <2>3. ASSUME UNCHANGED ticket PROVE ticket'[t].status = "ENRICHED"
        BY <2>3
    <2> QED
        BY <2>1, <2>2, <2>3
        DEF Next, Pick, Load, ScheduleUpgrade, Throws, Complete, AttemptFailed, DeadLettered,
            DeadLetterLogged, RetryCounted, WorkerDies, HandlerDies, OrphanStalls, LiveRunStalls,
            Requeue, JobExpires, Flip, EnqueueReplay, Revert, ReplayDies, Scan, Inspect, Redrive,
            SweepDies, AiGoesDown, AiRecovers, RedisFlushed, database
<1>2. Spec => []TypeInv
    BY TypeInvInit, TypeInvNext, PTL DEF Spec
<1> QED BY <1>1, <1>2, PTL DEF Spec, EnrichedIsFinal

-----------------------------------------------------------------------------
(* Replays of dead letters.                                                  *)

LEMMA ReplayInvNext == ReplayInv /\ [Next]_vars => ReplayInv'
<1> SUFFICES ASSUME ReplayInv, [Next]_vars PROVE OneReplayAtATime'
    BY TypeInvNext DEF ReplayInv
<1>0. TypeInv /\ OneReplayAtATime
    BY DEF ReplayInv
<1>1. ASSUME UNCHANGED oper,
             \A d \in DeadIds : dead[d] # None => dead'[d] = dead[d]
      PROVE  OneReplayAtATime'
    BY <1>0, <1>1 DEF OneReplayAtATime, TypeInv, TypeOK, CallHasLetter, Call
<1>2. ASSUME NEW o \in Operators,
             \/ oper'[o] = None
             \/ oper[o] # None /\ oper'[o] # None /\ oper'[o].dl = oper[o].dl,
             \A p \in Operators : p # o => oper'[p] = oper[p],
             \A d \in DeadIds : dead'[d] = dead[d] \/ (oper[o] # None /\ oper[o].dl = d /\ oper'[o] = None)
      PROVE  OneReplayAtATime'
    BY <1>0, <1>2 DEF OneReplayAtATime, TypeInv, TypeOK, Call
<1>3. ASSUME NEW w \in Workers, DeadLettered(w) PROVE OneReplayAtATime'
    BY <1>0, <1>1, <1>3 DEF DeadLettered, TypeInv, TypeOK
<1>4. ASSUME NEW o \in Operators, NEW d \in DeadIds, Flip(o, d) PROVE OneReplayAtATime'
    <2> DEFINE new == [dead[d] EXCEPT !.status = "REPLAYED"]
               started == [pc |-> "enqueue", dl |-> d]
    <2>1. dead[d] # None /\ dead[d].status = "PENDING" /\ dead[d] \in DeadLetter
        BY <1>0, <1>4 DEF Flip, Flippable, TypeInv, TypeOK
    <2>2. new.status = "REPLAYED" /\ started.dl = d /\ oper[o] = None
        BY <1>4, <2>1 DEF DeadLetter, Flip
    <2>3. dead' = [dead EXCEPT ![d] = new] /\ oper' = [oper EXCEPT ![o] = started]
        BY <1>4 DEF Flip
    <2> HIDE DEF new, started
    <2>4. /\ dead'[d] = new /\ oper'[o] = started
          /\ \A e \in DeadIds : e # d => dead'[e] = dead[e]
          /\ \A p \in Operators : p # o => oper'[p] = oper[p]
        BY <1>0, <2>3 DEF TypeInv, TypeOK
    <2>5. \A p \in Operators : oper[p] # None => oper[p].dl \in DeadIds /\ oper[p].dl # d
        BY <1>0, <2>1 DEF OneReplayAtATime, TypeInv, TypeOK, Call
    <2>6. ASSUME NEW p \in Operators, oper'[p] # None
          PROVE  /\ dead'[oper'[p].dl].status = "REPLAYED"
                 /\ \A q \in Operators : oper'[q] # None /\ oper'[q].dl = oper'[p].dl => q = p
        <3>1. CASE p = o
            BY <2>2, <2>4, <2>5, <3>1
        <3>2. CASE p # o
            BY <1>0, <2>2, <2>4, <2>5, <2>6, <3>2 DEF OneReplayAtATime
        <3> QED BY <3>1, <3>2
    <2> QED BY <2>6 DEF OneReplayAtATime
<1>5. ASSUME NEW o \in Operators, EnqueueReplay(o) PROVE OneReplayAtATime'
    <2>1. /\ \/ oper'[o] = None
             \/ oper[o] # None /\ oper'[o] # None /\ oper'[o].dl = oper[o].dl
          /\ \A p \in Operators : p # o => oper'[p] = oper[p]
        <3>1. oper \in [Operators -> Call \cup {None}]
            BY <1>0 DEF TypeInv, TypeOK
        <3>2. CASE oper' = [oper EXCEPT ![o] = None]
            BY <3>1, <3>2
        <3>3. CASE /\ oper'[o] # None /\ oper'[o].dl = oper[o].dl
                   /\ \A p \in Operators : p # o => oper'[p] = oper[p]
            BY <1>0, <1>5, <3>3, ReplayFacts
        <3> QED BY <1>0, <1>5, <3>2, <3>3, ReplayFacts
    <2>2. UNCHANGED dead
        BY <1>5 DEF EnqueueReplay, database
    <2> QED BY <1>2, <2>1, <2>2
<1>6. ASSUME NEW o \in Operators, Revert(o) PROVE OneReplayAtATime'
    <2>1. /\ oper[o] # None /\ oper'[o] = None
          /\ \A p \in Operators : p # o => oper'[p] = oper[p]
        BY <1>0, <1>6 DEF Revert, TypeInv, TypeOK
    <2>2. \A d \in DeadIds : d # oper[o].dl => dead'[d] = dead[d]
        BY <1>0, <1>6 DEF Revert, TypeInv, TypeOK
    <2> QED BY <1>2, <2>1, <2>2
<1>7. ASSUME NEW o \in Operators, ReplayDies(o) PROVE OneReplayAtATime'
    BY <1>0, <1>2, <1>7 DEF ReplayDies, database, TypeInv, TypeOK
<1>8. ASSUME UNCHANGED <<dead, oper>> PROVE OneReplayAtATime'
    BY <1>1, <1>8
<1> QED
    BY <1>3, <1>4, <1>5, <1>6, <1>7, <1>8
    DEF Next, vars, Pick, Load, Write, ScheduleUpgrade, Throws, Complete, AttemptFailed,
        DeadLetterLogged, RetryCounted, WorkerDies, HandlerDies, OrphanStalls, LiveRunStalls,
        Requeue, JobExpires, Ages, Scan, Inspect, Redrive, SweepDies, AiGoesDown, AiRecovers,
        RedisFlushed, database

\* Two replays of a dead letter are never under way together, also when one of
\* them failed and is putting the row back, and while one is it stays REPLAYED.
THEOREM ReplaysExclude == Spec => []OneReplayAtATime
<1>1. Init => ReplayInv
    BY TypeInvInit DEF Init, ReplayInv, OneReplayAtATime
<1>2. Spec => []ReplayInv
    BY <1>1, ReplayInvNext, PTL DEF Spec
<1> QED BY <1>2, PTL DEF ReplayInv

-----------------------------------------------------------------------------
(* Nothing untriaged is forgotten.  A step may take away what stands for a   *)
(* ticket only if it puts something else in its place.                       *)

\* A ticket that was triaged stays so, and a dead letter stays a dead letter.
LEMMA TriagedStays ==
    ASSUME TypeInv, [Next]_vars, NEW t \in Tickets, ticket[t].status # "PENDING"
    PROVE  ticket'[t].status # "PENDING"
<1>1. ASSUME NEW w \in Workers, Write(w) PROVE ticket'[t].status # "PENDING"
    BY <1>1, WriteFacts DEF Outcome
<1>2. ASSUME NEW u \in Tickets, Ages(u) PROVE ticket'[t].status # "PENDING"
    BY <1>2 DEF Ages, TypeInv, TypeOK
<1>3. ASSUME UNCHANGED ticket PROVE ticket'[t].status # "PENDING"
    BY <1>3
<1> QED
    BY <1>1, <1>2, <1>3
    DEF Next, vars, Pick, Load, ScheduleUpgrade, Throws, Complete, AttemptFailed, DeadLettered,
        DeadLetterLogged, RetryCounted, WorkerDies, HandlerDies, OrphanStalls, LiveRunStalls,
        Requeue, JobExpires, Flip, EnqueueReplay, Revert, ReplayDies, Scan, Inspect, Redrive,
        SweepDies, AiGoesDown, AiRecovers, RedisFlushed, database

LEMMA LetterStays ==
    ASSUME TypeInv, [Next]_vars, NEW d \in DeadIds, dead[d] # None
    PROVE  dead'[d] # None
<1>1. TypeInv'
    BY TypeInvNext
<1>2. dead \in [DeadIds -> DeadLetter \cup {None}]
    BY DEF TypeInv, TypeOK
<1>3. ASSUME NEW w \in Workers, DeadLettered(w) PROVE dead'[d] # None
    BY <1>2, <1>3 DEF DeadLettered
<1>4. ASSUME NEW o \in Operators, NEW e \in DeadIds, Flip(o, e) PROVE dead'[d] # None
    <2>1. e # d => dead'[d] = dead[d]
        BY <1>2, <1>4 DEF Flip
    <2>2. oper'[o] # None /\ oper'[o].dl = e
        <3>1. [pc |-> "enqueue", dl |-> e] \in Call
            BY DEF Call
        <3> QED BY <1>4, <3>1, PipelineAssumption DEF Flip, TypeInv, TypeOK
    <2>3. dead'[e] # None
        BY <1>1, <2>2 DEF TypeInv, CallHasLetter
    <2> QED BY <2>1, <2>3
<1>5. ASSUME NEW o \in Operators, Revert(o) PROVE dead'[d] # None
    <2> DEFINE new == [dead[d] EXCEPT !.status = "PENDING"]
    <2>1. new # None
        BY <1>2, PipelineAssumption DEF DeadLetter
    <2>2. dead'[d] = IF oper[o].dl = d THEN new ELSE dead[d]
        BY <1>2, <1>5 DEF Revert
    <2> QED BY <2>1, <2>2
<1>6. ASSUME UNCHANGED dead PROVE dead'[d] # None
    BY <1>6
<1> QED
    BY <1>3, <1>4, <1>5, <1>6
    DEF Next, vars, Pick, Load, Write, ScheduleUpgrade, Throws, Complete, AttemptFailed,
        DeadLetterLogged, RetryCounted, WorkerDies, HandlerDies, OrphanStalls, LiveRunStalls,
        Requeue, JobExpires, Ages, EnqueueReplay, ReplayDies, Scan, Inspect, Redrive, SweepDies,
        AiGoesDown, AiRecovers, RedisFlushed, database

\* A slot goes on with its run, without having come past its write, or is free.
RunGoesOn(w) ==
    \/ slot'[w] = None
    \/ slot'[w] = slot[w]
    \/ /\ slot[w] # None /\ slot'[w].job = slot[w].job
       /\ slot'[w].pc \in {"schedule", "settle"} => slot[w].pc \in {"schedule", "settle"}

LEMMA RunsNext == LossInv /\ [Next]_vars => WriteSeen' /\ RunHasLetter'
<1> SUFFICES ASSUME LossInv, [Next]_vars PROVE WriteSeen' /\ RunHasLetter'
    OBVIOUS
<1>0. TypeInv /\ WriteSeen /\ RunHasLetter /\ LetterFirst
    BY DEF LossInv
<1>1. ASSUME NEW w \in Workers, RunGoesOn(w)
      PROVE  /\ slot'[w] # None /\ slot'[w].pc \in {"schedule", "settle"} =>
                    ticket'[slot'[w].job.ticket].status # "PENDING"
             /\ \A d \in DeadIds, t \in Tickets :
                    slot'[w] # None /\ slot'[w].job = ReplayJob(t, d) => dead'[d] # None
    BY <1>0, <1>1, RunFacts, TriagedStays, LetterStays DEF RunGoesOn, WriteSeen, RunHasLetter
<1>2. ASSUME \A w \in Workers : RunGoesOn(w) PROVE WriteSeen' /\ RunHasLetter'
    BY <1>1, <1>2 DEF WriteSeen, RunHasLetter
<1>3. ASSUME NEW w \in Workers, slot' = [slot EXCEPT ![w] = None]
      PROVE  WriteSeen' /\ RunHasLetter'
    BY <1>0, <1>2, <1>3, FreedFacts DEF RunGoesOn
<1>4. ASSUME UNCHANGED slot PROVE WriteSeen' /\ RunHasLetter'
    BY <1>2, <1>4 DEF RunGoesOn
<1>5. ASSUME NEW w \in Workers, Pick(w) PROVE WriteSeen' /\ RunHasLetter'
    <2>1. PICK j \in JobIds :
            /\ jobs[j].state = "queued"
            /\ slot'[w].job = j /\ slot'[w].pc \in {"load", "failed"}
            /\ \A v \in Workers : v # w => slot'[v] = slot[v]
        BY <1>0, <1>5, PickFacts
    <2>2. \A v \in Workers : v # w => RunGoesOn(v)
        BY <2>1 DEF RunGoesOn
    <2>3. \A d \in DeadIds, t \in Tickets : j = ReplayJob(t, d) => dead'[d] # None
        BY <1>0, <2>1, LetterStays DEF LetterFirst
    <2> QED BY <1>1, <2>1, <2>2, <2>3 DEF WriteSeen, RunHasLetter
<1>6. ASSUME NEW w \in Workers, Load(w) PROVE WriteSeen' /\ RunHasLetter'
    <2> DEFINE new == [slot[w] EXCEPT !.pc = "write", !.prior = ticket[slot[w].job.ticket].status,
                                      !.outcome = ai]
    <2>1. slot[w] # None /\ slot[w] \in Run
        BY <1>0, <1>6, RunFacts DEF Load, At
    <2>2. new.job = slot[w].job /\ new.pc = "write"
        BY <2>1 DEF Run
    <2>3. slot' = [slot EXCEPT ![w] = new]
        BY <1>6, ZenonT(60) DEF Load
    <2> HIDE DEF new
    <2>4. slot'[w] = new /\ \A v \in Workers : v # w => slot'[v] = slot[v]
        BY <1>0, <2>3 DEF TypeInv, TypeOK
    <2> QED BY <1>2, <2>1, <2>2, <2>4 DEF RunGoesOn
<1>7. ASSUME NEW w \in Workers, Write(w) PROVE WriteSeen' /\ RunHasLetter'
    <2>1. \A v \in Workers : v # w => RunGoesOn(v)
        BY <1>0, <1>7, WriteFacts DEF RunGoesOn
    <2>2. slot[w] # None /\ slot'[w].job = slot[w].job
        BY <1>0, <1>7, WriteFacts
    <2>3. ticket'[slot[w].job.ticket].status # "PENDING"
        BY <1>0, <1>7, WriteFacts DEF Overwrites, Outcome
    <2>4. \A d \in DeadIds, t \in Tickets :
            slot'[w] # None /\ slot'[w].job = ReplayJob(t, d) => dead'[d] # None
        BY <1>0, <2>2, LetterStays DEF RunHasLetter
    <2> QED BY <1>1, <2>1, <2>2, <2>3, <2>4 DEF WriteSeen, RunHasLetter
<1>8. ASSUME NEW w \in Workers, ScheduleUpgrade(w) PROVE WriteSeen' /\ RunHasLetter'
    BY <1>0, <1>2, <1>8, ScheduleFacts DEF RunGoesOn
<1>9. ASSUME NEW w \in Workers, Throws(w) PROVE WriteSeen' /\ RunHasLetter'
    BY <1>0, <1>2, <1>9, StepFacts DEF RunGoesOn, Throws, At
<1>10. ASSUME NEW w \in Workers, AttemptFailed(w) PROVE WriteSeen' /\ RunHasLetter'
    BY <1>0, <1>2, <1>10, AttemptFacts DEF RunGoesOn
<1>11. ASSUME NEW w \in Workers,
              \/ Complete(w) \/ DeadLettered(w) \/ DeadLetterLogged(w) \/ RetryCounted(w)
              \/ WorkerDies(w) \/ HandlerDies(w)
       PROVE  WriteSeen' /\ RunHasLetter'
    BY <1>3, <1>11 DEF Complete, DeadLettered, DeadLetterLogged, RetryCounted, WorkerDies, HandlerDies
<1> QED
    BY <1>4, <1>5, <1>6, <1>7, <1>8, <1>9, <1>10, <1>11
    DEF Next, vars, OrphanStalls, LiveRunStalls, Requeue, JobExpires, Ages, Flip, EnqueueReplay,
        Revert, ReplayDies, Scan, Inspect, Redrive, SweepDies, AiGoesDown, AiRecovers, RedisFlushed

LEMMA ReplayJobFacts ==
    \A t \in Tickets, d \in DeadIds :
        /\ ReplayJob(t, d) \in JobIds
        /\ ReplayJob(t, d).ticket = t /\ ReplayJob(t, d).n = d /\ ReplayJob(t, d).kind = "replay"
BY JobIdFacts DEF ReplayJob

LEMMA LetterFirstNext == LossInv /\ [Next]_vars => LetterFirst'
<1> SUFFICES ASSUME LossInv, [Next]_vars,
                    NEW d \in DeadIds, NEW t \in Tickets, dead'[d] = None
             PROVE  jobs'[ReplayJob(t, d)].state = "absent"
    BY DEF LetterFirst
<1> DEFINE r == ReplayJob(t, d)
<1>0. /\ TypeInv /\ RunHasLetter
      /\ dead[d] = None /\ r \in JobIds /\ jobs[r].state = "absent"
    BY LetterStays, ReplayJobFacts DEF LossInv, LetterFirst
<1>1. ASSUME jobs'[r] = jobs[r] PROVE jobs'[r].state = "absent"
    BY <1>0, <1>1
<1>2. \A w \in Workers : slot[w] # None => slot[w].job # r
    BY <1>0 DEF RunHasLetter
<1> HIDE DEF r
<1>3. ASSUME NEW w \in Workers, Pick(w) PROVE jobs'[r].state = "absent"
    BY <1>0, <1>1, <1>3, PickFacts
<1>4. ASSUME NEW w \in Workers, ScheduleUpgrade(w) PROVE jobs'[r].state = "absent"
    BY <1>0, <1>1, <1>4, ScheduleFacts, ReplayJobFacts DEF r
<1>5. ASSUME NEW w \in Workers, Complete(w) PROVE jobs'[r].state = "absent"
    BY <1>0, <1>1, <1>2, <1>5, CompleteFacts
<1>6. ASSUME NEW w \in Workers, AttemptFailed(w) PROVE jobs'[r].state = "absent"
    BY <1>0, <1>1, <1>2, <1>6, AttemptFacts
<1>7. ASSUME NEW w \in Workers, WorkerDies(w) PROVE jobs'[r].state = "absent"
    <2>1. slot[w].job # r
        BY <1>2, <1>7 DEF WorkerDies
    <2> QED BY <1>0, <1>1, <1>7, <2>1 DEF WorkerDies, TypeInv, TypeOK
<1>8. ASSUME NEW j \in JobIds, OrphanStalls(j) \/ LiveRunStalls(j) PROVE jobs'[r].state = "absent"
    BY <1>0, <1>1, <1>8, RequeueFacts DEF OrphanStalls, LiveRunStalls
<1>9. ASSUME NEW j \in JobIds, JobExpires(j) PROVE jobs'[r].state = "absent"
    BY <1>0, <1>1, <1>9 DEF JobExpires, TypeInv, TypeOK
<1>10. ASSUME RedisFlushed PROVE jobs'[r].state = "absent"
    <2>1. NoJob.state = "absent"
        BY JobFacts
    <2>2. jobs' = [j \in JobIds |-> NoJob]
        BY <1>10 DEF RedisFlushed
    <2> QED BY <1>0, <2>1, <2>2
<1>11. ASSUME NEW o \in Operators, EnqueueReplay(o) PROVE jobs'[r].state = "absent"
    <2>1. oper[o].dl \in DeadIds /\ dead[oper[o].dl] # None /\ dead[oper[o].dl].ticket \in Tickets
        BY <1>0, <1>11, ReplayFacts DEF TypeInv, TypeOK, DeadLetter
    <2>2. ReplayJob(dead[oper[o].dl].ticket, oper[o].dl) # r
        BY <1>0, <2>1, ReplayJobFacts DEF r
    <2> QED BY <1>0, <1>1, <1>11, <2>2, ReplayFacts
<1>12. ASSUME NEW s \in Sweepers, NEW u \in Tickets, Inspect(s, u) PROVE jobs'[r].state = "absent"
    <2>1. ReconcileJob(u) # r
        BY ReplayJobFacts DEF r, ReconcileJob
    <2>2. jobs' = jobs \/ jobs' = [jobs EXCEPT ![ReconcileJob(u)] = NoJob]
        BY <1>12 DEF Inspect
    <2> QED BY <1>0, <1>1, <2>1, <2>2 DEF TypeInv, TypeOK
<1>13. ASSUME NEW s \in Sweepers, Redrive(s) PROVE jobs'[r].state = "absent"
    <2>1. sweep[s].row \in Tickets
        BY <1>0, <1>13 DEF Redrive, TypeInv, SweepHasRow
    <2>2. ReconcileJob(sweep[s].row) \in JobIds /\ 0 \in 0 .. MaxUpgrades
        BY <2>1, JobIdFacts, PipelineAssumption
    <2>3. ReconcileJob(sweep[s].row) # r
        BY ReplayJobFacts DEF r, ReconcileJob
    <2> QED BY <1>0, <1>1, <1>13, <2>2, <2>3, AddFacts DEF Redrive
<1>14. ASSUME UNCHANGED jobs PROVE jobs'[r].state = "absent"
    BY <1>1, <1>14
<1> QED
    BY <1>3, <1>4, <1>5, <1>6, <1>7, <1>8, <1>9, <1>10, <1>11, <1>12, <1>13, <1>14
    DEF Next, vars, Load, Write, Throws, DeadLettered, DeadLetterLogged, RetryCounted, HandlerDies,
        Ages, Flip, Revert, ReplayDies, Scan, SweepDies, AiGoesDown, AiRecovers, database, r

\* What a step may do to the jobs, the failures being handled and the letters of
\* a ticket without forgetting it.
KeepsJobs(t) ==
    \A j \in JobIds : j.ticket = t =>
        \/ jobs'[j].state = jobs[j].state
        \/ jobs'[j].state \in {"queued", "active"}
        \/ jobs[j].state \in {"completed", "failed"}
        \/ WillBeRecorded(t)'

KeepsHandlers(t) ==
    \A w \in Workers :
        slot[w] # None /\ slot[w].job.ticket = t /\ slot[w].pc = "failed" /\ slot[w].terminal =>
            slot'[w] = slot[w]

KeepsLetters(t) ==
    \A d \in DeadIds :
        dead[d] # None /\ dead[d].ticket = t /\ Replayable(d) =>
            /\ dead'[d] # None /\ dead'[d].ticket = t
            /\ Replayable(d)' \/ jobs'[ReplayJob(t, d)].state # "absent"

LEMMA StandingKept ==
    ASSUME TypeInv, NEW t \in Tickets, Standing(t),
           KeepsJobs(t), KeepsHandlers(t), KeepsLetters(t),
           logged \subseteq logged', exposed \subseteq exposed'
    PROVE  Standing(t)'
<1>1. ASSUME NEW j \in JobIds, j.ticket = t, jobs'[j].state \in {"queued", "active"}
      PROVE  Standing(t)'
    BY <1>1 DEF Standing, WillRun
<1>2. CASE WillRun(t)
    <2>1. PICK j \in JobIds : j.ticket = t /\ jobs[j].state \in {"queued", "active"}
        BY <1>2 DEF WillRun
    <2> QED BY <1>1, <2>1 DEF KeepsJobs, Standing
<1>3. CASE WillBeRecorded(t)
    <2>1. PICK w \in Workers :
            slot[w] # None /\ slot[w].job.ticket = t /\ slot[w].pc = "failed" /\ slot[w].terminal
        BY <1>3 DEF WillBeRecorded
    <2>2. WillBeRecorded(t)'
        BY <2>1 DEF KeepsHandlers, WillBeRecorded
    <2> QED BY <2>2 DEF Standing
<1>4. CASE CanBeReplayed(t)
    <2>1. PICK d \in DeadIds : /\ dead[d] # None /\ dead[d].ticket = t
                               /\ Replayable(d)
                               /\ jobs[ReplayJob(t, d)].state = "absent"
        BY <1>4 DEF CanBeReplayed
    <2>2. ReplayJob(t, d) \in JobIds /\ ReplayJob(t, d).ticket = t
        BY ReplayJobFacts
    <2>3. \/ jobs'[ReplayJob(t, d)].state = "absent"
          \/ jobs'[ReplayJob(t, d)].state \in {"queued", "active"}
          \/ WillBeRecorded(t)'
        BY <2>1, <2>2 DEF KeepsJobs
    <2>4. /\ dead'[d] # None /\ dead'[d].ticket = t
          /\ Replayable(d)' \/ jobs'[ReplayJob(t, d)].state # "absent"
        BY <2>1 DEF KeepsLetters
    <2>5. CASE jobs'[ReplayJob(t, d)].state = "absent"
        BY <2>4, <2>5 DEF Standing, CanBeReplayed
    <2> QED BY <1>1, <2>2, <2>3, <2>5 DEF Standing
<1>5. CASE t \in logged \cup exposed
    BY <1>5 DEF Standing
<1> QED BY <1>2, <1>3, <1>4, <1>5 DEF Standing

LEMMA UnforgottenNext == LossInv /\ [Next]_vars => Unforgotten'
<1> SUFFICES ASSUME LossInv, [Next]_vars, NEW t \in Tickets, ticket'[t].status = "PENDING"
             PROVE  Standing(t)'
    BY DEF Unforgotten
<1>0. TypeInv /\ WriteSeen /\ LetterFirst
    BY DEF LossInv
<1>1. ticket[t].status = "PENDING" /\ Standing(t)
    BY <1>0, TriagedStays DEF LossInv, Unforgotten
<1>2. ASSUME UNCHANGED <<dead, oper, logged, exposed>>, KeepsJobs(t), KeepsHandlers(t)
      PROVE  Standing(t)'
    BY <1>0, <1>1, <1>2, StandingKept DEF KeepsLetters, Replayable
<1>3. ASSUME UNCHANGED <<slot, dead, oper, logged, exposed>>, KeepsJobs(t)
      PROVE  Standing(t)'
    BY <1>2, <1>3 DEF KeepsHandlers
<1>4. ASSUME UNCHANGED <<jobs, slot, dead, oper, logged, exposed>> PROVE Standing(t)'
    BY <1>3, <1>4 DEF KeepsJobs
<1>5. ASSUME NEW w \in Workers, slot[w] # None => slot[w].pc # "failed" \/ ~slot[w].terminal,
             \A v \in Workers : v # w => slot'[v] = slot[v],
             UNCHANGED <<dead, oper, logged, exposed>>, KeepsJobs(t)
      PROVE  Standing(t)'
    BY <1>2, <1>5 DEF KeepsHandlers
<1>6. ASSUME NEW w \in Workers, Pick(w) PROVE Standing(t)'
    <2>1. PICK j \in JobIds :
            /\ jobs[j].state = "queued"
            /\ \A i \in JobIds : i # j => jobs'[i] = jobs[i]
            /\ slot'[w] # None /\ slot'[w].job = j
            /\ \A v \in Workers : v # w => slot'[v] = slot[v]
            /\ \/ jobs'[j].state = "active"
               \/ slot'[w].pc = "failed" /\ slot'[w].terminal
        BY <1>0, <1>6, PickFacts
    <2>2. KeepsJobs(t)
        BY <2>1 DEF KeepsJobs, WillBeRecorded
    <2> QED BY <1>5, <1>6, <2>1, <2>2 DEF Pick, database
<1>7. ASSUME NEW w \in Workers, Load(w) PROVE Standing(t)'
    <2>1. slot[w].pc # "failed" /\ \A v \in Workers : v # w => slot'[v] = slot[v]
        BY <1>0, <1>7 DEF Load, At, TypeInv, TypeOK
    <2> QED BY <1>5, <1>7, <2>1 DEF Load, database, KeepsJobs
<1>8. ASSUME NEW w \in Workers, Write(w) PROVE Standing(t)'
    <2>1. slot[w].pc # "failed" /\ \A v \in Workers : v # w => slot'[v] = slot[v]
        BY <1>0, <1>8, WriteFacts
    <2> QED BY <1>5, <1>8, <2>1 DEF Write, KeepsJobs
<1>9. ASSUME NEW w \in Workers, ScheduleUpgrade(w) PROVE Standing(t)'
    <2>1. /\ slot[w].pc # "failed"
          /\ \A v \in Workers : v # w => slot'[v] = slot[v]
        BY <1>0, <1>9, ScheduleFacts
    <2>2. KeepsJobs(t)
        BY <1>0, <1>9, ScheduleFacts DEF KeepsJobs
    <2> QED BY <1>5, <1>9, <2>1, <2>2 DEF ScheduleUpgrade, database
<1>10. ASSUME NEW w \in Workers, Throws(w) PROVE Standing(t)'
    <2>1. slot[w].pc # "failed" /\ \A v \in Workers : v # w => slot'[v] = slot[v]
        BY <1>0, <1>10, StepFacts DEF Throws, At
    <2> QED BY <1>5, <1>10, <2>1 DEF Throws, database, KeepsJobs
<1>11. ASSUME NEW w \in Workers, Complete(w) PROVE Standing(t)'
    <2>1. /\ slot[w] # None /\ slot[w].pc = "settle"
          /\ \A i \in JobIds : i # slot[w].job => jobs'[i] = jobs[i]
          /\ \A v \in Workers : v # w => slot'[v] = slot[v]
        BY <1>0, <1>11, CompleteFacts
    <2>2. slot[w].job.ticket # t
        BY <1>0, <1>1, <2>1 DEF WriteSeen
    <2>3. KeepsJobs(t)
        BY <2>1, <2>2 DEF KeepsJobs
    <2> QED BY <1>5, <1>11, <2>1, <2>3 DEF Complete, database
<1>12. ASSUME NEW w \in Workers, AttemptFailed(w) PROVE Standing(t)'
    <2>1. /\ slot[w] # None /\ slot[w].pc = "throw"
          /\ \A v \in Workers : v # w => slot'[v] = slot[v]
          /\ \A i \in JobIds : i # slot[w].job => jobs'[i] = jobs[i]
          /\ slot'[w] # None => slot'[w].job = slot[w].job /\ slot'[w].pc = "failed"
          /\ \/ jobs'[slot[w].job] = jobs[slot[w].job]
             \/ jobs'[slot[w].job].state = "queued"
             \/ slot'[w] # None /\ slot'[w].terminal
        BY <1>0, <1>12, AttemptFacts
    <2>2. KeepsJobs(t)
        BY <2>1 DEF KeepsJobs, WillBeRecorded
    <2> QED BY <1>5, <1>12, <2>1, <2>2 DEF AttemptFailed, database
<1>13. ASSUME NEW w \in Workers, DeadLettered(w) PROVE Standing(t)'
    <2>1. slot[w] # None /\ slot[w] \in Run /\ slot[w].job.ticket \in Tickets
        BY <1>0, <1>13, RunFacts DEF DeadLettered, At
    <2>2. PICK d \in DeadIds :
            /\ dead[d] = None
            /\ dead' = [dead EXCEPT ![d] = [ticket |-> slot[w].job.ticket,
                                             upgrade |-> slot[w].upgrade, status |-> "PENDING"]]
        BY <1>13 DEF DeadLettered
    <2>3. /\ dead'[d] # None
          /\ dead'[d].ticket = slot[w].job.ticket /\ dead'[d].status = "PENDING"
          /\ \A e \in DeadIds : e # d => dead'[e] = dead[e]
        <3> DEFINE new == [ticket |-> slot[w].job.ticket, upgrade |-> slot[w].upgrade,
                           status |-> "PENDING"]
        <3>1. new \in DeadLetter /\ new.ticket = slot[w].job.ticket /\ new.status = "PENDING"
            BY <1>0, <2>1, RunFacts DEF DeadLetter
        <3>2. dead' = [dead EXCEPT ![d] = new]
            BY <2>2
        <3> HIDE DEF new
        <3> QED BY <1>0, <3>1, <3>2, PipelineAssumption DEF TypeInv, TypeOK
    <2>4. /\ \A v \in Workers : v # w => slot'[v] = slot[v]
          /\ UNCHANGED <<jobs, oper, logged, exposed>>
        BY <1>0, <1>13 DEF DeadLettered, TypeInv, TypeOK
    <2>5. CASE slot[w].job.ticket = t
        <3>1. CanBeReplayed(t)'
            BY <1>0, <2>2, <2>3, <2>4, <2>5 DEF CanBeReplayed, Replayable, LetterFirst
        <3> QED BY <3>1 DEF Standing
    <2>6. CASE slot[w].job.ticket # t
        <3>1. KeepsLetters(t)
            BY <2>2, <2>3, <2>4 DEF KeepsLetters, Replayable
        <3>2. KeepsHandlers(t) /\ KeepsJobs(t)
            BY <2>4, <2>6 DEF KeepsHandlers, KeepsJobs
        <3> QED BY <1>0, <1>1, <2>4, <3>1, <3>2, StandingKept
    <2> QED BY <2>5, <2>6
<1>14. ASSUME NEW w \in Workers, DeadLetterLogged(w) PROVE Standing(t)'
    <2>1. /\ slot[w] # None /\ slot[w] \in Run /\ slot[w].job.ticket \in Tickets
          /\ logged' = logged \cup {slot[w].job.ticket}
          /\ \A v \in Workers : v # w => slot'[v] = slot[v]
          /\ UNCHANGED <<jobs, dead, oper, exposed>>
        BY <1>0, <1>14, RunFacts DEF DeadLetterLogged, At, database, TypeInv, TypeOK
    <2>2. CASE slot[w].job.ticket = t
        BY <2>1, <2>2 DEF Standing
    <2>3. CASE slot[w].job.ticket # t
        <3>1. KeepsHandlers(t) /\ KeepsJobs(t) /\ KeepsLetters(t)
            BY <2>1, <2>3 DEF KeepsHandlers, KeepsJobs, KeepsLetters, Replayable
        <3> QED BY <1>0, <1>1, <2>1, <3>1, StandingKept
    <2> QED BY <2>2, <2>3
<1>15. ASSUME NEW w \in Workers, RetryCounted(w) PROVE Standing(t)'
    <2>1. ~slot[w].terminal /\ \A v \in Workers : v # w => slot'[v] = slot[v]
        BY <1>0, <1>15 DEF RetryCounted, TypeInv, TypeOK
    <2> QED BY <1>5, <1>15, <2>1 DEF RetryCounted, database, KeepsJobs
<1>16. ASSUME NEW w \in Workers, WorkerDies(w) PROVE Standing(t)'
    <2>1. slot[w] # None /\ slot[w].pc # "failed"
          /\ \A v \in Workers : v # w => slot'[v] = slot[v]
        BY <1>0, <1>16 DEF WorkerDies, TypeInv, TypeOK
    <2>2. \A i \in JobIds : jobs'[i].state = jobs[i].state
        BY <1>0, <1>16 DEF WorkerDies, TypeInv, TypeOK, Job
    <2> QED BY <1>5, <1>16, <2>1, <2>2 DEF WorkerDies, database, KeepsJobs
<1>17. ASSUME NEW w \in Workers, HandlerDies(w) PROVE Standing(t)'
    <2>1. /\ exposed' = exposed \cup {slot[w].job.ticket}
          /\ \A v \in Workers : v # w => slot'[v] = slot[v]
          /\ UNCHANGED <<jobs, dead, oper, logged>>
        BY <1>0, <1>17 DEF HandlerDies, database, TypeInv, TypeOK
    <2>2. CASE slot[w].job.ticket = t
        BY <2>1, <2>2 DEF Standing
    <2>3. CASE slot[w].job.ticket # t
        <3>1. KeepsHandlers(t) /\ KeepsJobs(t) /\ KeepsLetters(t)
            BY <2>1, <2>3 DEF KeepsHandlers, KeepsJobs, KeepsLetters, Replayable
        <3> QED BY <1>0, <1>1, <2>1, <3>1, StandingKept
    <2> QED BY <2>2, <2>3
<1>18. ASSUME NEW j \in JobIds, OrphanStalls(j) \/ LiveRunStalls(j) PROVE Standing(t)'
    <2>1. KeepsJobs(t)
        BY <1>0, <1>18, RequeueFacts DEF OrphanStalls, LiveRunStalls, KeepsJobs
    <2> QED BY <1>3, <1>18, <2>1 DEF OrphanStalls, LiveRunStalls, Requeue, database
<1>19. ASSUME NEW j \in JobIds, JobExpires(j) PROVE Standing(t)'
    <2>1. KeepsJobs(t)
        BY <1>0, <1>19 DEF JobExpires, KeepsJobs, TypeInv, TypeOK
    <2> QED BY <1>3, <1>19, <2>1 DEF JobExpires, database
<1>20. CASE RedisFlushed
    BY <1>20 DEF RedisFlushed, Standing
<1>21. ASSUME NEW o \in Operators, NEW d \in DeadIds, Flip(o, d) PROVE Standing(t)'
    <2> DEFINE new == [dead[d] EXCEPT !.status = "REPLAYED"]
               started == [pc |-> "enqueue", dl |-> d]
    <2>1. dead[d] # None /\ dead[d] \in DeadLetter /\ oper[o] = None
        BY <1>0, <1>21 DEF Flip, Flippable, TypeInv, TypeOK
    <2>2. new # None /\ new.ticket = dead[d].ticket /\ started.dl = d /\ started # None
        BY <2>1, PipelineAssumption DEF DeadLetter, Call
    <2>3. dead' = [dead EXCEPT ![d] = new] /\ oper' = [oper EXCEPT ![o] = started]
        BY <1>21 DEF Flip
    <2> HIDE DEF new, started
    <2>4. /\ dead'[d] = new /\ oper'[o] = started
          /\ \A e \in DeadIds : e # d => dead'[e] = dead[e]
          /\ \A p \in Operators : p # o => oper'[p] = oper[p]
        BY <1>0, <2>3 DEF TypeInv, TypeOK
    <2>5. KeepsLetters(t)
        BY <2>1, <2>2, <2>4 DEF KeepsLetters, Replayable
    <2>6. KeepsHandlers(t) /\ KeepsJobs(t) /\ UNCHANGED <<logged, exposed>>
        BY <1>21 DEF Flip, KeepsHandlers, KeepsJobs
    <2> QED BY <1>0, <1>1, <2>5, <2>6, StandingKept
<1>22. ASSUME NEW o \in Operators, EnqueueReplay(o) PROVE Standing(t)'
    <2>1. /\ oper[o] # None /\ oper[o].dl \in DeadIds
          /\ \/ /\ jobs'[ReplayJob(dead[oper[o].dl].ticket, oper[o].dl)].state # "absent"
                /\ \A p \in Operators : p # o => oper'[p] = oper[p]
             \/ /\ oper'[o] # None /\ oper'[o].dl = oper[o].dl
                /\ \A p \in Operators : p # o => oper'[p] = oper[p]
        BY <1>0, <1>22, ReplayFacts DEF TypeInv, TypeOK
    <2>2. UNCHANGED <<dead, slot, logged, exposed>>
        BY <1>22 DEF EnqueueReplay, database
    <2>3. KeepsLetters(t)
        BY <2>1, <2>2 DEF KeepsLetters, Replayable
    <2>4. KeepsJobs(t)
        BY <1>0, <1>22, ReplayFacts DEF KeepsJobs
    <2>5. KeepsHandlers(t)
        BY <2>2 DEF KeepsHandlers
    <2> QED BY <1>0, <1>1, <2>2, <2>3, <2>4, <2>5, StandingKept
<1>23. ASSUME NEW o \in Operators, Revert(o) PROVE Standing(t)'
    <2> DEFINE d == oper[o].dl
               new == [dead[d] EXCEPT !.status = "PENDING"]
    <2>1. d \in DeadIds /\ dead[d] # None /\ dead[d] \in DeadLetter
        BY <1>0, <1>23 DEF Revert, TypeInv, TypeOK, CallHasLetter, Call
    <2>2. new # None /\ new.ticket = dead[d].ticket /\ new.status = "PENDING"
        BY <2>1, PipelineAssumption DEF DeadLetter
    <2>3. dead' = [dead EXCEPT ![d] = new]
        BY <1>23 DEF Revert
    <2> HIDE DEF new
    <2>4. /\ dead'[d] = new
          /\ \A e \in DeadIds : e # d => dead'[e] = dead[e]
          /\ \A p \in Operators : p # o => oper'[p] = oper[p]
        BY <1>0, <1>23, <2>1, <2>3 DEF Revert, TypeInv, TypeOK
    <2>5. KeepsLetters(t)
        BY <2>2, <2>4 DEF KeepsLetters, Replayable
    <2>6. KeepsHandlers(t) /\ KeepsJobs(t) /\ UNCHANGED <<logged, exposed>>
        BY <1>23 DEF Revert, KeepsHandlers, KeepsJobs
    <2> QED BY <1>0, <1>1, <2>5, <2>6, StandingKept
<1>24. ASSUME NEW o \in Operators, ReplayDies(o) PROVE Standing(t)'
    <2>1. /\ exposed' = exposed \cup {dead[oper[o].dl].ticket}
          /\ \A p \in Operators : p # o => oper'[p] = oper[p]
          /\ UNCHANGED <<jobs, dead, slot, logged>>
        BY <1>0, <1>24 DEF ReplayDies, database, TypeInv, TypeOK
    <2>2. CASE dead[oper[o].dl].ticket = t
        BY <2>1, <2>2 DEF Standing
    <2>3. CASE dead[oper[o].dl].ticket # t
        <3>1. KeepsHandlers(t) /\ KeepsJobs(t)
            BY <2>1 DEF KeepsHandlers, KeepsJobs
        <3>2. KeepsLetters(t)
            BY <2>1, <2>3 DEF KeepsLetters, Replayable
        <3> QED BY <1>0, <1>1, <2>1, <3>1, <3>2, StandingKept
    <2> QED BY <2>2, <2>3
<1>25. ASSUME NEW s \in Sweepers, NEW u \in Tickets, Inspect(s, u) PROVE Standing(t)'
    <2>1. jobs' = jobs \/ /\ jobs[ReconcileJob(u)].state = "failed"
                          /\ jobs' = [jobs EXCEPT ![ReconcileJob(u)] = NoJob]
        BY <1>25 DEF Inspect
    <2>2. KeepsJobs(t)
        BY <1>0, <2>1 DEF KeepsJobs, TypeInv, TypeOK
    <2> QED BY <1>3, <1>25, <2>2 DEF Inspect, database
<1>26. ASSUME NEW s \in Sweepers, Redrive(s) PROVE Standing(t)'
    <2>1. ReconcileJob(sweep[s].row) \in JobIds /\ 0 \in 0 .. MaxUpgrades
        BY <1>0, <1>26, JobIdFacts, PipelineAssumption DEF Redrive, TypeInv, SweepHasRow
    <2>2. KeepsJobs(t)
        BY <1>0, <1>26, <2>1, AddFacts DEF Redrive, KeepsJobs
    <2> QED BY <1>3, <1>26, <2>2 DEF Redrive, database
<1> QED
    BY <1>4, <1>6, <1>7, <1>8, <1>9, <1>10, <1>11, <1>12, <1>13, <1>14, <1>15, <1>16, <1>17,
       <1>18, <1>19, <1>20, <1>21, <1>22, <1>23, <1>24, <1>25, <1>26
    DEF Next, vars, Ages, Scan, SweepDies, AiGoesDown, AiRecovers, database

\* A ticket nobody has triaged yet is still accounted for, unless a failure fell
\* between Redis and Postgres or Redis lost its data: no order of stalls, crashes,
\* retries, ignored adds and replays loses one.
THEOREM NothingSilent == Spec => []NoSilentLoss
<1>1. Init => LossInv
    <2> SUFFICES ASSUME Init PROVE LossInv
        OBVIOUS
    <2>1. TypeInv
        BY TypeInvInit
    <2>2. \A j \in JobIds : jobs[j].state = IF j.kind = "ingest" THEN "queued" ELSE "absent"
        BY JobFacts DEF Init
    <2>3. WriteSeen /\ RunHasLetter
        BY DEF Init, WriteSeen, RunHasLetter
    <2>4. LetterFirst
        BY <2>2, ReplayJobFacts DEF LetterFirst
    <2>5. \A t \in Tickets : WillRun(t)
        BY <2>2, JobIdFacts DEF WillRun, IngestJob
    <2> QED BY <2>1, <2>3, <2>4, <2>5 DEF LossInv, Unforgotten, Standing
<1>2. LossInv /\ [Next]_vars => LossInv'
    BY TypeInvNext, RunsNext, LetterFirstNext, UnforgottenNext DEF LossInv
<1>3. LossInv => NoSilentLoss
    <2>1. ASSUME NEW t \in Tickets, Standing(t) PROVE Accounted(t) \/ t \in exposed
        BY <2>1 DEF Standing, WillRun, WillBeRecorded, CanBeReplayed, Replayable, Accounted
    <2> QED BY <2>1 DEF LossInv, Unforgotten, NoSilentLoss
<1> QED BY <1>1, <1>2, <1>3, PTL DEF Spec
=============================================================================
