-------------------------- MODULE ReconcileProofs ---------------------------
(***************************************************************************)
(* The reconcile sweep for every instance of it.  Its timing: any          *)
(* interval, threshold and number of instances, as long as a finished job  *)
(* is gone within less than one interval.  Its batches: any number of      *)
(* stranded tickets, any limit, and any order of their updated_at.         *)
(***************************************************************************)
EXTENDS Reconcile, FiniteSetTheorems, TLAPS

-----------------------------------------------------------------------------
(* Timing *)

USE ClockAssumption

\* The job that refused a pass finished before that pass.
RefusedByAnOldJob ==
    \A s \in Sweepers :
        /\ refused[s] <= 1
        /\ job \in {"waiting", "failed"} => refused[s] = 0
        /\ job = "completed" /\ refused[s] = 1 => since[s] <= age

\* A stranded ticket has been so since the last pass, or since the one before
\* if that was refused.
SinceTheLastPass ==
    /\ stranded > 0 => Stranded /\ job # "waiting"
    /\ \A s \in Sweepers :
          \/ stranded <= since[s]
          \/ refused[s] = 1 /\ stranded <= since[s] + Interval + MaxLate

IInv == TypeOK /\ RefusedByAnOldJob /\ SinceTheLastPass

LEMMA TtlIsPositive == JobTtl \in Nat /\ JobTtl >= 5
BY SMT DEF JobTtl

LEMMA InitIInv == Init => IInv
BY TtlIsPositive DEF Init, IInv, TypeOK, RefusedByAnOldJob, SinceTheLastPass

LEMMA SecondKeepsIInv ==
    ASSUME IInv, Second
    PROVE  IInv'
<1> USE TtlIsPositive DEF IInv, Second
<1>1. \A s \in Sweepers : since[s] \in Nat /\ since'[s] = since[s] + 1 /\ refused[s] \in Nat
  BY DEF TypeOK
<1>2. TypeOK'
  BY DEF TypeOK, Finished, Stranded
<1>3. age \in Nat /\ stranded \in Nat /\ (job = "completed" => age' = age + 1)
  BY DEF TypeOK, Finished
<1>4. RefusedByAnOldJob'
  BY <1>1, <1>3 DEF RefusedByAnOldJob
<1>5. SinceTheLastPass'
  BY <1>1, <1>3 DEF SinceTheLastPass, Stranded
<1> QED BY <1>2, <1>4, <1>5

LEMMA PassKeepsIInv ==
    ASSUME JobTtl + Lag < Interval, IInv, NEW s \in Sweepers, Pass(s)
    PROVE  IInv'
<1> USE TtlIsPositive DEF IInv
<1>1. /\ \A r \in Sweepers : /\ since[r] \in Nat /\ refused[r] \in Nat
                             /\ since[r] <= Interval + MaxLate
                             /\ since'[r] = IF r = s THEN 0 ELSE since[r]
      /\ since[s] >= Interval /\ age \in Nat /\ age <= JobTtl + Lag /\ stranded \in Nat
      /\ since' \in [Sweepers -> 0 .. Interval + MaxLate]
      /\ UNCHANGED quiet
  BY DEF TypeOK, Pass
<1>2. CASE /\ Selected /\ Free
           /\ job' = "waiting" /\ age' = 0 /\ stranded' = 0
           /\ refused' = [r \in Sweepers |-> 0]
  BY <1>1, <1>2 DEF TypeOK, RefusedByAnOldJob, SinceTheLastPass, Stranded
<1>3. CASE /\ Selected /\ job = "completed"
           /\ refused' = [refused EXCEPT ![s] = @ + 1]
           /\ UNCHANGED <<job, age, stranded>>
  <2>1. refused[s] = 0
    BY <1>1, <1>3 DEF RefusedByAnOldJob
  <2>2. \A r \in Sweepers : refused'[r] = IF r = s THEN 1 ELSE refused[r]
    BY <1>3, <2>1 DEF TypeOK
  <2>3. TypeOK'
    BY <1>1, <1>3 DEF TypeOK
  <2>4. RefusedByAnOldJob'
    BY <1>1, <1>3, <2>2 DEF RefusedByAnOldJob
  <2>5. SinceTheLastPass'
    BY <1>1, <1>3, <2>1, <2>2 DEF SinceTheLastPass, Stranded
  <2> QED BY <2>3, <2>4, <2>5
<1>4. CASE (Selected => job = "waiting") /\ UNCHANGED <<job, age, stranded, refused>>
  <2>1. stranded = 0
    BY <1>1, <1>4 DEF Selected, SinceTheLastPass
  <2>2. TypeOK'
    BY <1>1, <1>4 DEF TypeOK
  <2>3. RefusedByAnOldJob'
    BY <1>1, <1>4 DEF RefusedByAnOldJob
  <2>4. SinceTheLastPass'
    BY <1>1, <1>4, <2>1 DEF SinceTheLastPass, Stranded
  <2> QED BY <2>2, <2>3, <2>4
<1> QED BY <1>2, <1>3, <1>4 DEF Pass

LEMMA RestKeepsIInv ==
    ASSUME IInv, Degrades \/ Fails \/ Touched \/ Dropped \/ UNCHANGED vars
    PROVE  IInv'
<1> USE TtlIsPositive DEF IInv, TypeOK, RefusedByAnOldJob, SinceTheLastPass
<1>1. CASE Degrades
  BY <1>1 DEF Degrades
<1>2. CASE Fails
  BY <1>2 DEF Fails, Stranded
<1>3. CASE Touched
  BY <1>3 DEF Touched
<1>4. CASE Dropped
  BY <1>4 DEF Dropped, Finished, Stranded
<1>5. CASE UNCHANGED vars
  BY <1>5 DEF vars, Stranded
<1> QED BY <1>1, <1>2, <1>3, <1>4, <1>5

\* The inductive invariant, for an interval longer than a finished job is kept.
THEOREM TimingInvariant == ASSUME JobTtl + Lag < Interval
                           PROVE  Spec => []IInv
<1>1. IInv /\ [Next]_vars => IInv'
  BY SecondKeepsIInv, PassKeepsIInv, RestKeepsIInv DEF Next
<1> QED BY InitIInv, <1>1, PTL DEF Spec

\* A finished job costs a still-degraded ticket at most one pass.
THEOREM EligibleByNextPass == ASSUME JobTtl + Lag < Interval
                              PROVE  Spec => []NextPassRedrives
<1>1. IInv => NextPassRedrives
  BY DEF IInv, RefusedByAnOldJob, NextPassRedrives
<1> QED BY <1>1, TimingInvariant, PTL

\* A stranded ticket waits at most two intervals for its re-drive.
THEOREM StrandedTwoIntervals == ASSUME JobTtl + Lag < Interval
                                PROVE  Spec => []RedrivenInTime
<1>1. IInv => RedrivenInTime
  BY DEF IInv, TypeOK, SinceTheLastPass, RedrivenInTime
<1> QED BY <1>1, TimingInvariant, PTL

\* Half an interval of at least ten seconds leaves room for some lag.
THEOREM HalfAnInterval == ASSUME Interval >= 10, 2 * Lag < Interval
                          PROVE  JobTtl + Lag < Interval
BY SMT DEF JobTtl

HIDE ClockAssumption

-----------------------------------------------------------------------------
(* Batches *)

USE DEF Backlog!Ordered

\* A ticket that is still young is before no stranded one.
YoungLast == \A t \in Backlog!Stranded : ahead[t] \cap young = {}

\* A batch is the stranded tickets with the fewest before them, and those that
\* are being re-driven stay in it: only another job's write moves one back.
RedrivenStayFirst == Backlog!Waiting \ moved \subseteq Backlog!Batch

BatchInv ==
    /\ Backlog!TypeOK
    /\ Backlog!Ordered(degraded)
    /\ YoungLast
    /\ RedrivenStayFirst

\* The operators on finite sets are the same through the instance.
LEMMA SameSets ==
    ASSUME NEW S
    PROVE  /\ Backlog!IsFiniteSet(S) <=> IsFiniteSet(S)
           /\ Backlog!Cardinality(S) = Cardinality(S)
<1>1. Backlog!IsFiniteSet(S) <=> IsFiniteSet(S)
  BY Zenon DEF Backlog!IsFiniteSet, IsFiniteSet
<1>2. Backlog!Cardinality(S) = Cardinality(S)
  BY Zenon DEF Backlog!Cardinality, Cardinality
<1> QED BY <1>1, <1>2

\* How many stranded tickets are before t.
Place(t) == Cardinality(ahead[t] \cap Backlog!Stranded)

LEMMA InBatch ==
    ASSUME NEW t
    PROVE  t \in Backlog!Batch <=> t \in Backlog!Stranded /\ Place(t) < BatchSize
BY SameSets DEF Backlog!Batch, Place

LEMMA Places ==
    ASSUME BatchInv
    PROVE  /\ IsFiniteSet(Backlog!Stranded)
           /\ \A t \in Backlog!Stranded :
                 IsFiniteSet(ahead[t] \cap Backlog!Stranded) /\ Place(t) \in Nat
<1>1. IsFiniteSet(Tickets)
  BY BacklogAssumption, SameSets DEF Backlog!BatchAssumption
<1>2. Backlog!Stranded \subseteq Tickets
  BY DEF BatchInv, Backlog!TypeOK, Backlog!Stranded
<1>3. IsFiniteSet(Backlog!Stranded)
  BY <1>1, <1>2, FS_Subset
<1>4. \A t \in Backlog!Stranded : IsFiniteSet(ahead[t] \cap Backlog!Stranded)
  BY <1>3, FS_Subset
<1> QED BY <1>3, <1>4, FS_CardinalityType DEF Place

\* No two stranded tickets are in the same place.
LEMMA PlacesDiffer ==
    ASSUME BatchInv, NEW t \in Backlog!Stranded, NEW u \in Backlog!Stranded,
           Place(t) = Place(u)
    PROVE  t = u
<1> DEFINE S == Backlog!Stranded
<1>1. S \subseteq degraded
  BY DEF Backlog!Stranded
<1>2. ASSUME NEW x \in S, NEW y \in S, x \in ahead[y]
      PROVE  Place(x) # Place(y)
  <2>1. ahead[x] \cap S \subseteq ahead[y] \cap S /\ x \notin ahead[x]
    BY <1>1, <1>2 DEF BatchInv
  <2>2. IsFiniteSet(ahead[y] \cap S) /\ x \in ahead[y] \cap S
    BY <1>2, Places
  <2>3. ahead[x] \cap S # ahead[y] \cap S
    BY <2>1, <2>2
  <2>4. Cardinality(ahead[x] \cap S) # Cardinality(ahead[y] \cap S)
    BY <2>1, <2>2, <2>3, FS_Subset
  <2> QED BY <2>4 DEF Place
<1>3. t # u => t \in ahead[u] \/ u \in ahead[t]
  BY <1>1 DEF BatchInv
<1> QED BY <1>2, <1>3

\* A batch is no larger than its limit.
LEMMA BatchIsBounded ==
    ASSUME BatchInv
    PROVE  IsFiniteSet(Backlog!Batch) /\ Cardinality(Backlog!Batch) <= BatchSize
<1> DEFINE B == Backlog!Batch
           room == 0 .. BatchSize - 1
           place == [t \in B |-> Place(t)]
<1>1. BatchSize \in Nat \ {0}
  BY BacklogAssumption DEF Backlog!BatchAssumption
<1>2. B \subseteq Backlog!Stranded
  BY DEF Backlog!Batch
<1>3. \A t \in B : Place(t) \in room
  <2> TAKE t \in B
  <2>1. Place(t) \in Nat /\ Place(t) < BatchSize
    BY <1>2, Places, InBatch
  <2> QED BY <1>1, <2>1
<1>4. place \in Injection(B, room)
  BY <1>2, <1>3, PlacesDiffer DEF Injection, IsInjective
<1>5. IsFiniteSet(room) /\ Cardinality(room) = BatchSize
  BY <1>1, FS_Interval
<1> HIDE DEF B, room, place
<1>6. IsFiniteSet(B) /\ Cardinality(B) <= Cardinality(room)
  BY <1>4, <1>5, FS_Injection
<1> QED BY <1>5, <1>6 DEF B

LEMMA BatchInit == Backlog!Init => BatchInv
<1> SUFFICES ASSUME Backlog!Init PROVE BatchInv
  OBVIOUS
<1>1. Backlog!TypeOK /\ Backlog!Ordered(degraded)
  BY BacklogAssumption DEF Backlog!Init, Backlog!TypeOK, Backlog!Waiting,
     Backlog!BatchAssumption
<1>2. YoungLast /\ RedrivenStayFirst
  BY DEF Backlog!Init, YoungLast, RedrivenStayFirst, Backlog!Stranded, Backlog!Waiting
<1> QED BY <1>1, <1>2 DEF BatchInv

\* A re-driven ticket stays in the batch when no other comes before it.
LEMMA StaysInBatch ==
    ASSUME BatchInv, NEW t \in Backlog!Batch, t \in Backlog!Stranded',
           ahead'[t] \cap Backlog!Stranded' \subseteq ahead[t] \cap Backlog!Stranded
    PROVE  t \in Backlog!Batch'
<1>1. t \in Backlog!Stranded /\ Place(t) < BatchSize
  BY InBatch
<1>2. IsFiniteSet(ahead[t] \cap Backlog!Stranded) /\ Place(t) \in Nat
  BY <1>1, Places
<1>3. /\ Cardinality(ahead'[t] \cap Backlog!Stranded') <= Cardinality(ahead[t] \cap Backlog!Stranded)
      /\ Cardinality(ahead'[t] \cap Backlog!Stranded') \in Nat
  BY <1>2, FS_Subset, FS_CardinalityType
<1>4. Cardinality(ahead'[t] \cap Backlog!Stranded') < BatchSize
  BY <1>1, <1>2, <1>3, BacklogAssumption DEF Place, Backlog!BatchAssumption
<1>5. Backlog!Cardinality(ahead'[t] \cap Backlog!Stranded') < BatchSize
  BY <1>4, SameSets
<1> QED BY <1>5 DEF Backlog!Batch

\* A ticket whose threshold passes is the youngest of the stranded.
LEMMA AgesKeeps ==
    ASSUME BatchInv, Backlog!Ages
    PROVE  BatchInv'
<1>1. PICK t \in young : ahead[t] \cap young = {} /\ young' = young \ {t}
  BY DEF Backlog!Ages
<1>2. UNCHANGED <<degraded, ahead, jobs, moved, faults, writes>>
  BY DEF Backlog!Ages
<1>3. Backlog!Stranded' = Backlog!Stranded \cup {t}
  BY <1>1, <1>2 DEF BatchInv, Backlog!TypeOK, Backlog!Stranded
<1>4. Backlog!TypeOK' /\ Backlog!Ordered(degraded)'
  BY <1>1, <1>2 DEF BatchInv, Backlog!TypeOK, Backlog!Waiting
<1>5. YoungLast'
  BY <1>1, <1>2, <1>3 DEF BatchInv, YoungLast
<1>6. RedrivenStayFirst'
  <2> SUFFICES ASSUME NEW u \in Backlog!Waiting \ moved PROVE u \in Backlog!Batch'
    BY <1>2 DEF RedrivenStayFirst, Backlog!Waiting
  <2>1. u \in Backlog!Batch /\ u \in Backlog!Stranded
    BY DEF BatchInv, RedrivenStayFirst, Backlog!Batch
  <2>2. t \notin ahead[u]
    BY <1>1, <2>1 DEF BatchInv, YoungLast
  <2> QED BY <1>2, <1>3, <2>1, <2>2, StaysInBatch
<1> QED BY <1>4, <1>5, <1>6 DEF BatchInv

LEMMA PassKeeps ==
    ASSUME BatchInv, Backlog!Pass
    PROVE  BatchInv'
<1>1. UNCHANGED <<degraded, ahead, young, moved, faults, writes>>
  BY DEF Backlog!Pass, Backlog!times
<1>2. /\ jobs' \in [Tickets -> {"none", "waiting", "completed", "failed"}]
      /\ Backlog!Waiting \subseteq Backlog!Waiting'
      /\ Backlog!Waiting' \subseteq Backlog!Waiting \cup Backlog!Batch
  BY DEF BatchInv, Backlog!TypeOK, Backlog!Pass, Backlog!Waiting
<1>3. Backlog!Stranded' = Backlog!Stranded /\ Backlog!Batch' = Backlog!Batch
  BY <1>1 DEF Backlog!Stranded, Backlog!Batch
<1>4. Backlog!TypeOK' /\ Backlog!Ordered(degraded)'
  BY <1>1, <1>2 DEF BatchInv, Backlog!TypeOK
<1>5. YoungLast' /\ RedrivenStayFirst'
  BY <1>1, <1>2, <1>3 DEF BatchInv, YoungLast, RedrivenStayFirst
<1> QED BY <1>4, <1>5 DEF BatchInv

\* A write, of either kind, keeps the order and moves no other ticket back.
LEMMA WriteKeepsOrder ==
    ASSUME BatchInv, NEW t \in Tickets,
           (t \in degraded /\ Backlog!Written(t)) \/ Backlog!Settled(t)
    PROVE  /\ degraded' \subseteq Tickets /\ young' \subseteq degraded'
           /\ ahead' \in [Tickets -> SUBSET Tickets]
           /\ Backlog!Ordered(degraded)'
           /\ YoungLast'
           /\ \A u \in Backlog!Batch \ {t} : u \in Backlog!Batch'
<1> USE DEF BatchInv, Backlog!TypeOK
<1>1. CASE t \in degraded /\ Backlog!Written(t)
  <2>1. /\ degraded' = degraded /\ young' = young \cup {t}
        /\ ahead' \in [Tickets -> SUBSET Tickets]
        /\ \A u \in Tickets : ahead'[u] = IF u = t THEN degraded \ {t} ELSE ahead[u] \ {t}
    BY <1>1 DEF Backlog!Written
  <2>2. Backlog!Stranded' = Backlog!Stranded \ {t}
    BY <2>1 DEF Backlog!Stranded
  <2>3. Backlog!Ordered(degraded)'
    BY <1>1, <2>1
  <2>4. YoungLast'
    BY <2>1, <2>2 DEF YoungLast, Backlog!Stranded
  <2>5. \A u \in Backlog!Batch \ {t} : u \in Backlog!Batch'
    BY <2>1, <2>2, StaysInBatch DEF Backlog!Batch, Backlog!Stranded
  <2> QED BY <1>1, <2>1, <2>3, <2>4, <2>5
<1>2. CASE Backlog!Settled(t)
  <2>1. /\ degraded' = degraded \ {t} /\ young' = young \ {t}
        /\ ahead' \in [Tickets -> SUBSET Tickets]
        /\ \A u \in Tickets : ahead'[u] = IF u = t THEN {} ELSE ahead[u] \ {t}
    BY <1>2 DEF Backlog!Settled
  <2>2. Backlog!Stranded' = Backlog!Stranded \ {t}
    BY <2>1 DEF Backlog!Stranded
  <2>3. Backlog!Ordered(degraded)'
    BY <2>1
  <2>4. YoungLast'
    BY <2>1, <2>2 DEF YoungLast, Backlog!Stranded
  <2>5. \A u \in Backlog!Batch \ {t} : u \in Backlog!Batch'
    BY <2>1, <2>2, StaysInBatch DEF Backlog!Batch, Backlog!Stranded
  <2> QED BY <2>1, <2>3, <2>4, <2>5
<1> QED BY <1>1, <1>2

\* What a step that writes t has to show about the queue.
LEMMA RedrivenStay ==
    ASSUME BatchInv, NEW t \in Tickets,
           (t \in degraded /\ Backlog!Written(t)) \/ Backlog!Settled(t),
           Backlog!Waiting' \ moved' \subseteq (Backlog!Waiting \ moved) \ {t}
    PROVE  RedrivenStayFirst'
<1>1. \A u \in Backlog!Batch \ {t} : u \in Backlog!Batch'
  BY WriteKeepsOrder
<1> QED BY <1>1 DEF BatchInv, RedrivenStayFirst

\* A step that writes no ticket and puts none in the queue.
LEMMA QuietStepKeeps ==
    ASSUME BatchInv, UNCHANGED Backlog!times,
           Backlog!TypeOK', Backlog!Waiting' \ moved' \subseteq Backlog!Waiting \ moved
    PROVE  BatchInv'
<1>1. UNCHANGED <<degraded, ahead, young>>
  BY DEF Backlog!times
<1>2. Backlog!Stranded' = Backlog!Stranded /\ Backlog!Batch' = Backlog!Batch
  BY <1>1 DEF Backlog!Stranded, Backlog!Batch
<1> QED BY <1>1, <1>2 DEF BatchInv, YoungLast, RedrivenStayFirst

LEMMA RunKeeps ==
    ASSUME BatchInv, NEW t \in Tickets, Backlog!Enriches(t) \/ Backlog!Degrades(t)
    PROVE  BatchInv'
<1>1. /\ jobs' = [jobs EXCEPT ![t] = "completed"] /\ moved' = moved \ {t}
      /\ UNCHANGED <<faults, writes>>
  BY DEF Backlog!Enriches, Backlog!Degrades
<1>2. Backlog!Waiting' = Backlog!Waiting \ {t}
  BY <1>1 DEF BatchInv, Backlog!TypeOK, Backlog!Waiting
<1>3. /\ jobs' \in [Tickets -> {"none", "waiting", "completed", "failed"}]
      /\ moved' \subseteq Backlog!Waiting' /\ faults' \in 0 .. MaxFaults /\ writes' \in 0 .. MaxWrites
  BY <1>1, <1>2 DEF BatchInv, Backlog!TypeOK
<1>4. CASE (t \in degraded /\ Backlog!Written(t)) \/ Backlog!Settled(t)
  <2>1. RedrivenStayFirst'
    BY <1>1, <1>2, <1>4, RedrivenStay
  <2> QED BY <1>3, <1>4, <2>1, WriteKeepsOrder DEF BatchInv, Backlog!TypeOK
<1>5. CASE UNCHANGED Backlog!times
  <2>1. Backlog!TypeOK'
    BY <1>3, <1>5 DEF BatchInv, Backlog!TypeOK, Backlog!times
  <2> QED BY <1>1, <1>2, <1>5, <2>1, QuietStepKeeps
<1> QED BY <1>4, <1>5 DEF Backlog!Enriches, Backlog!Degrades

LEMMA ChainKeeps ==
    ASSUME BatchInv, NEW t \in Tickets, Backlog!ChainWrites(t)
    PROVE  BatchInv'
<1>1. /\ t \in degraded /\ UNCHANGED <<jobs, faults>>
      /\ Backlog!Written(t) \/ Backlog!Settled(t)
      /\ moved' = IF jobs[t] = "waiting" THEN moved \cup {t} ELSE moved
      /\ writes' \in 0 .. MaxWrites
  BY BacklogAssumption DEF BatchInv, Backlog!TypeOK, Backlog!ChainWrites,
     Backlog!BatchAssumption
<1>2. Backlog!Waiting' = Backlog!Waiting
  BY <1>1 DEF Backlog!Waiting
<1>3. moved' \subseteq Backlog!Waiting'
  BY <1>1, <1>2 DEF BatchInv, Backlog!TypeOK, Backlog!Waiting
<1>4. Backlog!Waiting' \ moved' \subseteq (Backlog!Waiting \ moved) \ {t}
  BY <1>1, <1>2 DEF Backlog!Waiting
<1>5. RedrivenStayFirst'
  BY <1>1, <1>4, RedrivenStay
<1> QED BY <1>1, <1>3, <1>5, WriteKeepsOrder DEF BatchInv, Backlog!TypeOK

LEMMA EndKeeps ==
    ASSUME BatchInv, NEW t \in Tickets, Backlog!Fails(t) \/ Backlog!Dropped(t)
    PROVE  BatchInv'
<1>1. /\ UNCHANGED Backlog!times
      /\ jobs' \in [Tickets -> {"none", "waiting", "completed", "failed"}]
      /\ faults' \in 0 .. MaxFaults /\ writes' \in 0 .. MaxWrites
  BY BacklogAssumption DEF BatchInv, Backlog!TypeOK, Backlog!Fails, Backlog!Dropped,
     Backlog!BatchAssumption
<1>2. /\ moved' \subseteq Backlog!Waiting'
      /\ Backlog!Waiting' \ moved' \subseteq Backlog!Waiting \ moved
  BY DEF BatchInv, Backlog!TypeOK, Backlog!Fails, Backlog!Dropped, Backlog!Waiting
<1>3. Backlog!TypeOK'
  BY <1>1, <1>2 DEF BatchInv, Backlog!TypeOK, Backlog!times
<1> QED BY <1>1, <1>2, <1>3, QuietStepKeeps

LEMMA BatchStep == BatchInv /\ [Backlog!Next]_(Backlog!vars) => BatchInv'
<1> SUFFICES ASSUME BatchInv, [Backlog!Next]_(Backlog!vars) PROVE BatchInv'
  OBVIOUS
<1>1. CASE Backlog!Next
  BY <1>1, AgesKeeps, PassKeeps, RunKeeps, ChainKeeps, EndKeeps DEF Backlog!Next
<1>2. CASE UNCHANGED Backlog!vars
  <2>1. UNCHANGED Backlog!times /\ UNCHANGED <<jobs, moved, faults, writes>>
    BY <1>2 DEF Backlog!vars
  <2>2. Backlog!TypeOK' /\ Backlog!Waiting' = Backlog!Waiting
    BY <2>1 DEF BatchInv, Backlog!TypeOK, Backlog!Waiting, Backlog!times
  <2> QED BY <2>1, <2>2, QuietStepKeeps
<1> QED BY <1>1, <1>2

\* The inductive invariant of the batches.
THEOREM BatchInvariant == Backlog!Spec => []BatchInv
BY BatchInit, BatchStep, PTL DEF Backlog!Spec

\* However many passes find the backlog of an outage, and whatever order its
\* tickets are in, no more re-driven tickets than one batch wait for the AI,
\* those not counted that another job has written since.
THEOREM BacklogDrainsInBatches == Backlog!Spec => []NoStampede
<1>1. ASSUME BatchInv PROVE NoStampede
  <2>1. IsFiniteSet(Backlog!Batch) /\ Cardinality(Backlog!Batch) <= BatchSize
    BY <1>1, BatchIsBounded
  <2>2. Backlog!Waiting \ moved \subseteq Backlog!Batch
    BY <1>1 DEF BatchInv, RedrivenStayFirst
  <2>3. /\ IsFiniteSet(Backlog!Waiting \ moved)
        /\ Cardinality(Backlog!Waiting \ moved) <= Cardinality(Backlog!Batch)
    BY <2>1, <2>2, FS_Subset
  <2>4. Cardinality(Backlog!Waiting \ moved) <= BatchSize
    BY <2>1, <2>3, FS_CardinalityType, BacklogAssumption DEF Backlog!BatchAssumption
  <2>5. Backlog!Cardinality(Backlog!Waiting \ moved) <= BatchSize
    BY <2>4, SameSets
  <2> QED BY <2>5 DEF NoStampede, Backlog!NoStampede
<1> QED BY <1>1, BatchInvariant, PTL
=============================================================================
