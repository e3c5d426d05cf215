------------------------- MODULE OutboxRelayProofs ---------------------------
(***************************************************************************)
(* The relay keeps its types, gives up in time, implements Delivery, and   *)
(* repeats a delivery only for a failure: for any number of messages and   *)
(* relays, any batch size and any failures.                                *)
(***************************************************************************)
EXTENDS OutboxRelay, FiniteSetTheorems, TLAPS

(* What is known of a drain: a row still to be dispatched is as it was read, *)
(* and the one being dispatched is a row of the batch.                       *)

Unsent ==
    \A r \in Relays : \A m \in relay[r].rest :
        relay[r].work[m] # None /\ relay[r].work[m].status = "PENDING"

InHand ==
    \A r \in Relays : relay[r].pc \in {"sent", "failed"} =>
        /\ relay[r].current \in Messages
        /\ relay[r].work[relay[r].current] # None
        /\ relay[r].work[relay[r].current].status = "PENDING"
        /\ relay[r].current \notin relay[r].rest

TypeInv == TypeOK /\ Unsent /\ InHand

-----------------------------------------------------------------------------

\* The drains that the actions build, field by field.
LEMMA IdleFacts ==
    /\ Idle \in Drain
    /\ Idle.pc = "idle" /\ Idle.rest = {} /\ Idle.connected
    /\ \A m \in Messages : Idle.work[m] = None
BY DEF Idle, Drain, NoWork

LEMMA AnsweredFacts ==
    ASSUME TypeInv, NEW r \in Relays, NEW m \in relay[r].rest,
           NEW pc \in {"sent", "failed"}, Answered(r, m, pc)
    PROVE  /\ relay' \in [Relays -> Drain]
           /\ \A s \in Relays : s # r => relay'[s] = relay[s]
           /\ relay'[r].pc = pc
           /\ relay'[r].current = m
           /\ relay'[r].rest = relay[r].rest \ {m}
           /\ relay'[r].work = relay[r].work
           /\ relay'[r].connected = relay[r].connected
           /\ m \in Messages
           /\ Unsent' /\ InHand'
<1>1. relay[r] \in Drain /\ m \in Messages
  BY DEF TypeInv, TypeOK, Drain
<1>2. relay' = [relay EXCEPT ![r] = [relay[r] EXCEPT !.pc = pc, !.current = m,
                                                     !.rest = relay[r].rest \ {m}]]
  BY DEF Answered
<1> DEFINE new == [relay[r] EXCEPT !.pc = pc, !.current = m, !.rest = relay[r].rest \ {m}]
<1>3. /\ new \in Drain /\ new.pc = pc /\ new.current = m
      /\ new.rest = relay[r].rest \ {m} /\ new.work = relay[r].work
      /\ new.connected = relay[r].connected
  BY <1>1 DEF Drain
<1> HIDE DEF new
<1>4. relay \in [Relays -> Drain]
  BY DEF TypeInv, TypeOK
<1>5. relay'[r] = new /\ \A s \in Relays : s # r => relay'[s] = relay[s]
  BY <1>2, <1>4 DEF new
<1>6. relay' \in [Relays -> Drain]
  BY <1>2, <1>3, <1>4 DEF new
<1>7. relay[r].work[m] # None /\ relay[r].work[m].status = "PENDING"
  BY DEF TypeInv, Unsent
<1>8. Unsent'
  BY <1>3, <1>5 DEF TypeInv, Unsent
<1>9. InHand'
  BY <1>1, <1>3, <1>5, <1>7 DEF TypeInv, InHand
<1> QED BY <1>1, <1>3, <1>5, <1>6, <1>8, <1>9

\* A statement writes one row of the batch, or ends the drain.
LEMMA WrittenFacts ==
    ASSUME TypeInv, NEW r \in Relays, relay[r].pc \in {"sent", "failed"},
           NEW new \in Row,
           NEW after,
           after = [relay[r] EXCEPT !.pc = "next", !.current = None,
                                    !.work[relay[r].current] = new],
           Statement(r, after)
    PROVE  /\ relay' \in [Relays -> Drain]
           /\ \A s \in Relays : s # r => relay'[s] = relay[s]
           /\ ~relay[r].connected => relay'[r] = Idle
           /\ relay[r].connected =>
                /\ relay'[r].pc = "next"
                /\ relay'[r].rest = relay[r].rest
                /\ relay'[r].connected
                /\ relay'[r].work = [relay[r].work EXCEPT ![relay[r].current] = new]
           /\ Unsent' /\ InHand'
<1>1. relay \in [Relays -> Drain] /\ relay[r] \in Drain
  BY DEF TypeInv, TypeOK
<1>2. relay[r].current \in Messages /\ relay[r].current \notin relay[r].rest
  BY DEF TypeInv, InHand
<1>3. /\ after \in Drain /\ after.pc = "next" /\ after.rest = relay[r].rest
      /\ after.connected = relay[r].connected
      /\ after.work = [relay[r].work EXCEPT ![relay[r].current] = new]
  BY <1>1, <1>2 DEF Drain
<1>4. /\ relay' \in [Relays -> Drain]
      /\ \A s \in Relays : s # r => relay'[s] = relay[s]
      /\ relay'[r] = IF relay[r].connected THEN after ELSE Idle
  BY <1>1, <1>3, IdleFacts DEF Statement, GivenUp
<1>5. \A m \in relay[r].rest : after.work[m] = relay[r].work[m]
  BY <1>1, <1>2, <1>3 DEF Drain
<1>6. \A m \in relay'[r].rest :
        relay'[r].work[m] # None /\ relay'[r].work[m].status = "PENDING"
  <2>1. CASE relay[r].connected
    BY <1>3, <1>4, <1>5, <2>1 DEF TypeInv, Unsent
  <2>2. CASE ~relay[r].connected
    BY <1>4, <2>2, IdleFacts
  <2> QED BY <2>1, <2>2
<1>8. Unsent'
  BY <1>4, <1>6 DEF TypeInv, Unsent
<1>7. InHand'
  <2>1. \A s \in Relays : relay'[s].pc \in {"sent", "failed"} => s # r
    BY <1>3, <1>4, IdleFacts
  <2> QED BY <2>1, <1>4 DEF TypeInv, InHand
<1> QED BY <1>3, <1>4, <1>7, <1>8

\* The two rows a statement may write.
LEMMA SentRow ==
    ASSUME TypeInv, NEW r \in Relays, MarkSent(r)
    PROVE  LET old == relay[r].work[relay[r].current]
               new == [old EXCEPT !.status = "SENT"]
           IN  /\ old \in Row /\ new \in Row
               /\ new.status = "SENT" /\ new.attempts = old.attempts
               /\ Statement(r, [relay[r] EXCEPT !.pc = "next", !.current = None,
                                                !.work[relay[r].current] = new])
<1>1. relay[r] \in Drain /\ relay[r].current \in Messages
      /\ relay[r].work[relay[r].current] # None
  BY DEF TypeInv, TypeOK, InHand, MarkSent
<1>2. relay[r].work[relay[r].current] \in Row
  BY <1>1 DEF Drain
<1> QED BY <1>1, <1>2 DEF MarkSent, Row

LEMMA RescheduledFacts ==
    ASSUME NEW old \in Row, NEW attempts \in Nat
    PROVE  /\ Rescheduled(old, attempts) \in Row
           /\ Rescheduled(old, attempts).attempts = attempts
           /\ attempts >= MaxAttempts => Rescheduled(old, attempts).status = "FAILED"
           /\ ~(attempts >= MaxAttempts) =>
                  Rescheduled(old, attempts).status = old.status
<1>1. CASE attempts >= MaxAttempts
  BY <1>1 DEF Rescheduled, Exhausted, Row
<1>2. CASE ~(attempts >= MaxAttempts)
  BY <1>2 DEF Rescheduled, Exhausted, Row
<1> QED BY <1>1, <1>2

LEMMA FailureRow ==
    ASSUME TypeInv, NEW r \in Relays, MarkFailure(r)
    PROVE  LET old == relay[r].work[relay[r].current]
           IN  /\ old \in Row
               /\ Statement(r, [relay[r] EXCEPT !.pc = "next", !.current = None,
                     !.work[relay[r].current] = Rescheduled(old, old.attempts + 1)])
<1>1. relay[r] \in Drain /\ relay[r].current \in Messages
      /\ relay[r].work[relay[r].current] # None
  BY DEF TypeInv, TypeOK, InHand, MarkFailure
<1>2. relay[r].work[relay[r].current] \in Row
  BY <1>1 DEF Drain
<1> QED BY <1>2 DEF MarkFailure

\* A drain begins with the committed rows of its batch.
LEMMA ClaimFacts ==
    ASSUME TypeInv, NEW r \in Relays, Claim(r)
    PROVE  \E batch \in SUBSET Claimable :
             /\ relay' \in [Relays -> Drain]
             /\ \A s \in Relays : s # r => relay'[s] = relay[s]
             /\ relay'[r].pc = "next" /\ relay'[r].rest = batch
             /\ \A m \in Messages :
                    relay'[r].work[m] = IF m \in batch THEN row[m] ELSE None
             /\ Unsent' /\ InHand'
<1>1. PICK batch \in SUBSET Claimable :
        relay' = [relay EXCEPT ![r] =
           [Idle EXCEPT !.pc = "next", !.rest = batch,
                        !.work = [m \in Messages |-> IF m \in batch THEN row[m] ELSE None]]]
  BY DEF Claim
<1> DEFINE new == [Idle EXCEPT !.pc = "next", !.rest = batch,
                     !.work = [m \in Messages |-> IF m \in batch THEN row[m] ELSE None]]
<1>2. relay \in [Relays -> Drain] /\ row \in [Messages -> Row \cup {None}]
  BY DEF TypeInv, TypeOK
<1>3. batch \subseteq Messages
      /\ \A m \in batch : row[m] # None /\ row[m].status = "PENDING"
  BY DEF Claimable
<1>4. /\ new \in Drain /\ new.pc = "next" /\ new.rest = batch
      /\ \A m \in Messages : new.work[m] = IF m \in batch THEN row[m] ELSE None
  BY <1>2, <1>3 DEF Idle, Drain, NoWork
<1>5. /\ relay' \in [Relays -> Drain]
      /\ relay'[r] = new /\ \A s \in Relays : s # r => relay'[s] = relay[s]
  BY <1>1, <1>2, <1>4
<1> HIDE DEF new
<1>6. Unsent'
  BY <1>3, <1>4, <1>5 DEF TypeInv, Unsent
<1>7. InHand'
  BY <1>4, <1>5 DEF TypeInv, InHand
<1> QED BY <1>4, <1>5, <1>6, <1>7

\* A drain that ends, and one that lost its connection.
LEMMA EndFacts ==
    ASSUME TypeInv, NEW r \in Relays, relay' = [relay EXCEPT ![r] = Idle]
    PROVE  /\ relay' \in [Relays -> Drain]
           /\ relay'[r] = Idle
           /\ \A s \in Relays : s # r => relay'[s] = relay[s]
           /\ Unsent' /\ InHand'
<1>1. /\ relay' \in [Relays -> Drain]
      /\ relay'[r] = Idle /\ \A s \in Relays : s # r => relay'[s] = relay[s]
  BY IdleFacts DEF TypeInv, TypeOK
<1>2. Unsent'
  BY <1>1, IdleFacts DEF TypeInv, Unsent
<1>3. InHand'
  BY <1>1, IdleFacts DEF TypeInv, InHand
<1> QED BY <1>1, <1>2, <1>3

LEMMA LostFacts ==
    ASSUME TypeInv, NEW r \in Relays, relay' = [relay EXCEPT ![r].connected = FALSE]
    PROVE  /\ relay' \in [Relays -> Drain]
           /\ ~relay'[r].connected
           /\ relay'[r].pc = relay[r].pc
           /\ relay'[r].current = relay[r].current
           /\ relay'[r].rest = relay[r].rest
           /\ relay'[r].work = relay[r].work
           /\ \A s \in Relays : s # r => relay'[s] = relay[s]
           /\ Unsent' /\ InHand'
<1>1. relay \in [Relays -> Drain] /\ relay[r] \in Drain
  BY DEF TypeInv, TypeOK
<1>2. /\ relay' \in [Relays -> Drain]
      /\ ~relay'[r].connected
      /\ relay'[r].pc = relay[r].pc
      /\ relay'[r].current = relay[r].current
      /\ relay'[r].rest = relay[r].rest
      /\ relay'[r].work = relay[r].work
      /\ \A s \in Relays : s # r => relay'[s] = relay[s]
  BY <1>1 DEF Drain
<1>3. Unsent'
  BY <1>2 DEF TypeInv, Unsent
<1>4. InHand'
  BY <1>2 DEF TypeInv, InHand
<1> QED BY <1>2, <1>3, <1>4

-----------------------------------------------------------------------------

\* Types, with what a drain knows of its batch, are inductive.
LEMMA TypeInit == Init => TypeInv
<1> SUFFICES ASSUME Init PROVE TypeInv
  OBVIOUS
<1>1. TypeOK
  BY IdleFacts, RelayAssumption DEF Init, TypeOK
<1>2. Unsent /\ InHand
  BY IdleFacts DEF Init, Unsent, InHand
<1> QED BY <1>1, <1>2 DEF TypeInv

LEMMA TypeStep == TypeInv /\ [Next]_vars => TypeInv'
<1> SUFFICES ASSUME TypeInv, [Next]_vars PROVE TypeInv'
  OBVIOUS
<1> USE RelayAssumption
<1>0. TypeOK
  BY DEF TypeInv
<1>1. ASSUME NEW m \in Messages, Emit(m) PROVE TypeInv'
  BY <1>1 DEF Emit, TypeInv, TypeOK, Row, Unsent, InHand
<1>2. ASSUME NEW m \in Messages, BackoffEnds(m) PROVE TypeInv'
  <2>1. row[m] \in Row
    BY <1>0, <1>2 DEF BackoffEnds, TypeOK
  <2>2. [row[m] EXCEPT !.due = TRUE] \in Row
    BY <2>1 DEF Row
  <2>3. row' \in [Messages -> Row \cup {None}]
    BY <1>0, <1>2, <2>2 DEF BackoffEnds, TypeOK
  <2> QED BY <1>2, <2>3 DEF BackoffEnds, TypeInv, TypeOK, Unsent, InHand
<1>3. ASSUME NEW m \in Messages, ArrivesLate(m) PROVE TypeInv'
  BY <1>3 DEF ArrivesLate, TypeInv, TypeOK, Unsent, InHand
<1>4. ASSUME NEW r \in Relays, Claim(r) PROVE TypeInv'
  BY <1>4, ClaimFacts DEF Claim, TypeInv, TypeOK
<1>5. ASSUME NEW r \in Relays, NEW m \in Messages, Delivered(r, m) PROVE TypeInv'
  <2>1. relay' \in [Relays -> Drain] /\ Unsent' /\ InHand'
    BY <1>5, AnsweredFacts DEF Delivered
  <2> QED BY <1>5, <2>1 DEF Delivered, TypeInv, TypeOK
<1>6. ASSUME NEW r \in Relays, NEW m \in Messages, AnswerLost(r, m) PROVE TypeInv'
  <2>1. relay' \in [Relays -> Drain] /\ Unsent' /\ InHand'
    BY <1>6, AnsweredFacts DEF AnswerLost
  <2> QED BY <1>6, <2>1 DEF AnswerLost, Fail, TypeInv, TypeOK
<1>7. ASSUME NEW r \in Relays, NEW m \in Messages, Refused(r, m) PROVE TypeInv'
  <2>1. relay' \in [Relays -> Drain] /\ Unsent' /\ InHand'
    BY <1>7, AnsweredFacts DEF Refused
  <2> QED BY <1>7, <2>1 DEF Refused, Fail, TypeInv, TypeOK
<1>8. ASSUME NEW r \in Relays, NEW m \in Messages, TimedOut(r, m) PROVE TypeInv'
  <2>1. relay' \in [Relays -> Drain] /\ Unsent' /\ InHand'
    BY <1>8, AnsweredFacts DEF TimedOut
  <2> QED BY <1>8, <2>1 DEF TimedOut, Fail, TypeInv, TypeOK
<1>9. ASSUME NEW r \in Relays, MarkSent(r) PROVE TypeInv'
  <2>1. relay' \in [Relays -> Drain] /\ Unsent' /\ InHand'
    BY <1>9, SentRow, WrittenFacts DEF MarkSent
  <2> QED BY <1>9, <2>1 DEF MarkSent, Statement, TypeInv, TypeOK
<1>10. ASSUME NEW r \in Relays, MarkFailure(r) PROVE TypeInv'
  <2> DEFINE old == relay[r].work[relay[r].current]
  <2>1. old \in Row /\ Rescheduled(old, old.attempts + 1) \in Row
    <3>1. old \in Row
      BY <1>10, FailureRow
    <3>2. old.attempts + 1 \in Nat
      BY <3>1 DEF Row
    <3> QED BY <3>1, <3>2, RescheduledFacts
  <2>2. relay' \in [Relays -> Drain] /\ Unsent' /\ InHand'
    BY <1>10, <2>1, FailureRow, WrittenFacts DEF MarkFailure
  <2> QED BY <1>10, <2>2 DEF MarkFailure, Statement, TypeInv, TypeOK
<1>11. ASSUME NEW r \in Relays, Commit(r) PROVE TypeInv'
  <2>1. relay' \in [Relays -> Drain] /\ Unsent' /\ InHand'
    BY <1>11, EndFacts DEF Commit
  <2>2. relay[r].work \in [Messages -> Row \cup {None}]
    BY <1>0 DEF TypeOK, Drain
  <2>3. row' \in [Messages -> Row \cup {None}]
    BY <1>0, <1>11, <2>2 DEF Commit, TypeOK
  <2> QED BY <1>11, <2>1, <2>3 DEF Commit, TypeInv, TypeOK
<1>12. ASSUME NEW r \in Relays, LosesConnection(r) PROVE TypeInv'
  <2>1. relay' \in [Relays -> Drain] /\ Unsent' /\ InHand'
    BY <1>12, LostFacts DEF LosesConnection
  <2> QED BY <1>12, <2>1 DEF LosesConnection, Fail, TypeInv, TypeOK
<1>13. ASSUME NEW r \in Relays, Dies(r) PROVE TypeInv'
  <2>1. relay' \in [Relays -> Drain] /\ Unsent' /\ InHand'
    BY <1>13, EndFacts DEF Dies
  <2> QED BY <1>13, <2>1 DEF Dies, Fail, TypeInv, TypeOK
<1>14. CASE UNCHANGED vars
  BY <1>14 DEF vars, TypeInv, TypeOK, Unsent, InHand
<1> QED
  BY <1>1, <1>2, <1>3, <1>4, <1>5, <1>6, <1>7, <1>8, <1>9, <1>10, <1>11, <1>12, <1>13,
     <1>14 DEF Next, Handle

\* Every variable keeps its type: no drain works on a row that it did not
\* claim, and no count goes below zero or over its bound.
THEOREM TypeCorrect == Spec => []TypeOK
<1>1. Spec => []TypeInv
  BY TypeInit, TypeStep, PTL DEF Spec
<1> QED BY <1>1, PTL DEF TypeInv

-----------------------------------------------------------------------------
(* Giving up in time: what a drain is about to write is counted, too, and a  *)
(* failed dispatch has been charged before its attempt is.                   *)

WorkCounted ==
    \A r \in Relays, m \in Messages :
        relay[r].work[m] # None => Counted(relay[r].work[m], failures)

ChargedFirst ==
    \A r \in Relays :
        relay[r].pc = "failed" => relay[r].work[relay[r].current].attempts + 1 <= failures

CountInv == TypeInv /\ GivesUpInTime /\ WorkCounted /\ ChargedFirst

LEMMA CountedGrows ==
    ASSUME NEW r \in Row, NEW n \in Nat, Counted(r, n)
    PROVE  Counted(r, n + 1)
BY DEF Counted, Row

LEMMA CountedRescheduled ==
    ASSUME NEW old \in Row, NEW n \in Nat, Counted(old, n), old.status = "PENDING",
           old.attempts + 1 <= n
    PROVE  Counted(Rescheduled(old, old.attempts + 1), n)
<1>1. old.attempts \in Nat /\ MaxAttempts \in Nat
  BY RelayAssumption DEF Row
<1>2. old.attempts < MaxAttempts
  BY DEF Counted
<1>0. old.attempts + 1 \in Nat
  BY <1>1
<1>3. Rescheduled(old, old.attempts + 1).attempts = old.attempts + 1
  BY <1>0, RescheduledFacts, Zenon
<1>4. CASE old.attempts + 1 >= MaxAttempts
  <2>1. Rescheduled(old, old.attempts + 1).status = "FAILED"
    BY <1>0, <1>4, RescheduledFacts, Zenon
  <2> QED BY <1>1, <1>2, <1>3, <1>4, <2>1 DEF Counted
<1>5. CASE ~(old.attempts + 1 >= MaxAttempts)
  <2>1. Rescheduled(old, old.attempts + 1).status = "PENDING"
    BY <1>0, <1>5, RescheduledFacts, Zenon
  <2> QED BY <1>1, <1>2, <1>3, <1>5, <2>1 DEF Counted
<1> QED BY <1>4, <1>5

\* An answer moves on to the next row; one that failed has been charged.
LEMMA CountAnswered ==
    ASSUME CountInv, NEW r \in Relays, NEW m \in relay[r].rest,
           NEW pc \in {"sent", "failed"}, Answered(r, m, pc), row' = row,
           failures' = failures \/ failures' = failures + 1,
           pc = "failed" => failures' = failures + 1
    PROVE  GivesUpInTime' /\ WorkCounted' /\ ChargedFirst'
<1>1. TypeInv /\ failures \in Nat /\ row \in [Messages -> Row \cup {None}]
      /\ relay \in [Relays -> Drain]
  BY RelayAssumption DEF CountInv, TypeInv, TypeOK
<1>2. /\ \A s \in Relays : s # r => relay'[s] = relay[s]
      /\ relay'[r].pc = pc /\ relay'[r].current = m
      /\ relay'[r].work = relay[r].work
      /\ m \in Messages
  BY <1>1, AnsweredFacts
<1>3. \A x \in Row : Counted(x, failures) => Counted(x, failures')
  BY <1>1, CountedGrows
<1>4. GivesUpInTime'
  BY <1>1, <1>3 DEF CountInv, GivesUpInTime
<1>5. \A s \in Relays : relay'[s].work = relay[s].work
  BY <1>2
<1>6. \A s \in Relays, k \in Messages : relay[s].work[k] # None => relay[s].work[k] \in Row
  BY <1>1 DEF Drain
<1>7. WorkCounted'
  BY <1>3, <1>5, <1>6 DEF CountInv, WorkCounted
<1>8. ASSUME NEW s \in Relays, relay'[s].pc = "failed"
      PROVE  relay'[s].work[relay'[s].current].attempts + 1 <= failures'
  <2>1. CASE s = r
    <3>1. relay[r].work[m] # None
      BY <1>1 DEF TypeInv, Unsent
    <3>2. relay[r].work[m] \in Row /\ Counted(relay[r].work[m], failures)
      BY <1>2, <1>6, <3>1 DEF CountInv, WorkCounted
    <3>3. relay[r].work[m].attempts \in Nat /\ relay[r].work[m].attempts <= failures
      BY <3>2 DEF Counted, Row
    <3>4. failures' = failures + 1
      BY <1>2, <1>8, <2>1
    <3> QED BY <1>1, <1>2, <2>1, <3>3, <3>4
  <2>2. CASE s # r
    <3>1. relay[s].current \in Messages /\ relay[s].work[relay[s].current] # None
      BY <1>1, <1>2, <1>8, <2>2 DEF TypeInv, InHand
    <3>2. relay[s].work[relay[s].current].attempts \in Nat
      BY <1>6, <3>1 DEF Row
    <3>3. relay[s].work[relay[s].current].attempts + 1 <= failures
      BY <1>2, <1>8, <2>2 DEF CountInv, ChargedFirst
    <3> QED BY <1>1, <1>2, <2>2, <3>2, <3>3
  <2> QED BY <2>1, <2>2
<1>9. ChargedFirst'
  BY <1>8 DEF ChargedFirst
<1> QED BY <1>4, <1>7, <1>9

LEMMA CountStep == CountInv /\ [Next]_vars => CountInv'
<1> SUFFICES ASSUME CountInv, [Next]_vars PROVE CountInv'
  OBVIOUS
<1>a. TypeInv /\ TypeInv' /\ failures \in Nat
  BY TypeStep, RelayAssumption DEF CountInv, TypeInv, TypeOK
<1>b. /\ row \in [Messages -> Row \cup {None}]
      /\ relay \in [Relays -> Drain]
      /\ \A r \in Relays : relay[r].work \in [Messages -> Row \cup {None}]
  BY <1>a DEF TypeInv, TypeOK, Drain
<1>c. \A r \in Relays : relay[r].pc = "failed" =>
         relay[r].work[relay[r].current] \in Row
  BY <1>a, <1>b DEF TypeInv, InHand
<1> SUFFICES GivesUpInTime' /\ WorkCounted' /\ ChargedFirst'
  BY <1>a DEF CountInv
<1>1. ASSUME NEW m \in Messages, Emit(m) PROVE GivesUpInTime' /\ WorkCounted' /\ ChargedFirst'
  BY <1>1, <1>a, <1>b, RelayAssumption
     DEF Emit, CountInv, GivesUpInTime, WorkCounted, ChargedFirst, Counted
<1>2. ASSUME NEW m \in Messages, BackoffEnds(m)
      PROVE GivesUpInTime' /\ WorkCounted' /\ ChargedFirst'
  <2>1. row[m] \in Row /\ row' = [row EXCEPT ![m] = [row[m] EXCEPT !.due = TRUE]]
    BY <1>2, <1>b DEF BackoffEnds
  <2>2. Counted([row[m] EXCEPT !.due = TRUE], failures)
    BY <1>2, <2>1 DEF BackoffEnds, CountInv, GivesUpInTime, Counted, Row
  <2> QED BY <1>2, <1>b, <2>1, <2>2
          DEF BackoffEnds, CountInv, GivesUpInTime, WorkCounted, ChargedFirst
<1>3. ASSUME NEW m \in Messages, ArrivesLate(m)
      PROVE GivesUpInTime' /\ WorkCounted' /\ ChargedFirst'
  BY <1>3 DEF ArrivesLate, CountInv, GivesUpInTime, WorkCounted, ChargedFirst
<1>4. ASSUME NEW r \in Relays, Claim(r)
      PROVE GivesUpInTime' /\ WorkCounted' /\ ChargedFirst'
  <2>1. PICK batch \in SUBSET Claimable :
          /\ \A s \in Relays : s # r => relay'[s] = relay[s]
          /\ relay'[r].pc = "next"
          /\ \A m \in Messages :
                 relay'[r].work[m] = IF m \in batch THEN row[m] ELSE None
    BY <1>4, <1>a, ClaimFacts
  <2>2. row' = row /\ failures' = failures
    BY <1>4 DEF Claim
  <2> QED BY <2>1, <2>2 DEF CountInv, GivesUpInTime, WorkCounted, ChargedFirst
<1>5. ASSUME NEW r \in Relays, NEW m \in Messages, Delivered(r, m)
      PROVE GivesUpInTime' /\ WorkCounted' /\ ChargedFirst'
  BY <1>5, CountAnswered DEF Delivered
<1>6. ASSUME NEW r \in Relays, NEW m \in Messages,
             AnswerLost(r, m) \/ Refused(r, m) \/ TimedOut(r, m)
      PROVE GivesUpInTime' /\ WorkCounted' /\ ChargedFirst'
  BY <1>6, CountAnswered DEF AnswerLost, Refused, TimedOut, Fail
<1>9. ASSUME NEW r \in Relays, MarkSent(r)
      PROVE GivesUpInTime' /\ WorkCounted' /\ ChargedFirst'
  <2> DEFINE old == relay[r].work[relay[r].current]
             new == [old EXCEPT !.status = "SENT"]
  <2>1. /\ old \in Row /\ new \in Row
        /\ new.status = "SENT" /\ new.attempts = old.attempts
    BY <1>9, <1>a, SentRow
  <2>2. /\ \A s \in Relays : s # r => relay'[s] = relay[s]
        /\ ~relay[r].connected => relay'[r] = Idle
        /\ relay[r].connected =>
              /\ relay'[r].pc = "next"
              /\ relay'[r].work = [relay[r].work EXCEPT ![relay[r].current] = new]
    BY <1>9, <1>a, SentRow, WrittenFacts DEF MarkSent
  <2>3. relay[r].current \in Messages /\ old # None /\ old.status = "PENDING"
    BY <1>9, <1>a DEF MarkSent, TypeInv, InHand
  <2>4. Counted(new, failures)
    <3>1. Counted(old, failures)
      BY <2>3 DEF CountInv, WorkCounted
    <3> HIDE DEF old, new
    <3> QED BY <2>1, <2>3, <3>1 DEF Counted
  <2>5. row' = row /\ failures' = failures
    BY <1>9 DEF MarkSent, Statement
  <2> HIDE DEF old, new
  <2>6. WorkCounted'
    BY <1>b, <2>2, <2>3, <2>4, <2>5, IdleFacts DEF CountInv, WorkCounted
  <2>7. ChargedFirst'
    BY <2>2, <2>5, IdleFacts DEF CountInv, ChargedFirst
  <2> QED BY <2>5, <2>6, <2>7 DEF CountInv, GivesUpInTime
<1>10. ASSUME NEW r \in Relays, MarkFailure(r)
       PROVE GivesUpInTime' /\ WorkCounted' /\ ChargedFirst'
  <2> DEFINE old == relay[r].work[relay[r].current]
             new == Rescheduled(old, old.attempts + 1)
  <2>1. old \in Row /\ new \in Row
    <3>1. old \in Row
      BY <1>10, <1>a, FailureRow
    <3>2. old.attempts + 1 \in Nat
      BY <3>1 DEF Row
    <3> QED BY <3>1, <3>2, RescheduledFacts
  <2>2. /\ \A s \in Relays : s # r => relay'[s] = relay[s]
        /\ ~relay[r].connected => relay'[r] = Idle
        /\ relay[r].connected =>
              /\ relay'[r].pc = "next"
              /\ relay'[r].work = [relay[r].work EXCEPT ![relay[r].current] = new]
    BY <1>10, <1>a, <2>1, FailureRow, WrittenFacts DEF MarkFailure
  <2>3. relay[r].current \in Messages /\ old # None /\ old.status = "PENDING"
    BY <1>10, <1>a DEF MarkFailure, TypeInv, InHand
  <2>4. Counted(new, failures)
    <3>1. Counted(old, failures)
      BY <2>3 DEF CountInv, WorkCounted
    <3>2. old.attempts + 1 <= failures
      BY <1>10 DEF MarkFailure, CountInv, ChargedFirst
    <3> QED BY <1>a, <2>1, <2>3, <3>1, <3>2, CountedRescheduled
  <2>5. row' = row /\ failures' = failures
    BY <1>10 DEF MarkFailure, Statement
  <2> HIDE DEF old, new
  <2>6. WorkCounted'
    BY <1>b, <2>2, <2>3, <2>4, <2>5, IdleFacts DEF CountInv, WorkCounted
  <2>7. ChargedFirst'
    BY <2>2, <2>5, IdleFacts DEF CountInv, ChargedFirst
  <2> QED BY <2>5, <2>6, <2>7 DEF CountInv, GivesUpInTime
<1>11. ASSUME NEW r \in Relays, Commit(r)
       PROVE GivesUpInTime' /\ WorkCounted' /\ ChargedFirst'
  <2>1. relay'[r] = Idle /\ \A s \in Relays : s # r => relay'[s] = relay[s]
    BY <1>11, <1>a, EndFacts DEF Commit
  <2>2. \A m \in Messages : row'[m] = row[m] \/ row'[m] = relay[r].work[m]
    BY <1>11 DEF Commit
  <2>3. failures' = failures
    BY <1>11 DEF Commit
  <2>4. GivesUpInTime'
    BY <1>b, <2>2, <2>3 DEF CountInv, GivesUpInTime, WorkCounted
  <2> QED BY <2>1, <2>3, <2>4, IdleFacts DEF CountInv, WorkCounted, ChargedFirst
<1>12. ASSUME NEW r \in Relays, LosesConnection(r) \/ Dies(r)
       PROVE GivesUpInTime' /\ WorkCounted' /\ ChargedFirst'
  <2>1. failures' = failures + 1 /\ row' = row
    BY <1>12 DEF LosesConnection, Dies, Fail
  <2>2. \A s \in Relays : relay'[s] = Idle \/ ( /\ relay'[s].pc = relay[s].pc
                                               /\ relay'[s].current = relay[s].current
                                               /\ relay'[s].work = relay[s].work)
    BY <1>12, <1>a, EndFacts, LostFacts DEF LosesConnection, Dies
  <2>3. \A x \in Row : Counted(x, failures) => Counted(x, failures')
    BY <1>a, <2>1, CountedGrows
  <2>4. GivesUpInTime'
    BY <1>b, <2>1, <2>3 DEF CountInv, GivesUpInTime
  <2>5. WorkCounted'
    BY <1>b, <2>2, <2>3, IdleFacts DEF CountInv, WorkCounted
  <2>6. ChargedFirst'
    BY <1>a, <1>c, <2>1, <2>2, IdleFacts DEF CountInv, ChargedFirst, Row
  <2> QED BY <2>4, <2>5, <2>6
<1>14. CASE UNCHANGED vars
  BY <1>14 DEF vars, CountInv, GivesUpInTime, WorkCounted, ChargedFirst
<1> QED
  BY <1>1, <1>2, <1>3, <1>4, <1>5, <1>6, <1>9, <1>10, <1>11, <1>12, <1>14 DEF Next, Handle

\* A message is abandoned after exactly OUTBOX_MAX_ATTEMPTS failed dispatches,
\* each of which really happened, whatever batches were rolled back.
THEOREM GivesUp == Spec => []GivesUpInTime
<1>1. Init => CountInv
  BY TypeInit, IdleFacts DEF Init, CountInv, GivesUpInTime, WorkCounted, ChargedFirst
<1>2. Spec => []CountInv
  BY <1>1, CountStep, PTL DEF Spec
<1> QED BY <1>2, PTL DEF CountInv

-----------------------------------------------------------------------------
(* The refinement: a lock keeps a claimed row PENDING and to one relay, and  *)
(* a row is written SENT only after the target received the message.         *)

Exclusive ==
    \A r, s \in Relays, m \in Messages : Holds(r, m) /\ Holds(s, m) => r = s

HeldPending ==
    \A r \in Relays, m \in Messages :
        Holds(r, m) => row[m] # None /\ row[m].status = "PENDING"

Known ==
    \A m \in Messages :
        /\ late[m] > 0 => row[m] # None
        /\ \A r \in Relays : relay[r].work[m] # None => row[m] # None

SentWasReceived ==
    \A r \in Relays :
        /\ relay[r].pc = "sent" => received[relay[r].current] > 0
        /\ \A m \in Messages :
              relay[r].work[m] # None /\ relay[r].work[m].status = "SENT" => received[m] > 0

DeliveryInv == TypeInv /\ Exclusive /\ HeldPending /\ Known /\ SentWasReceived

\* Rows are written by a commit only, and only those that the relay holds.
LEMMA DeliveryInit == Init => DeliveryInv
BY TypeInit, IdleFacts
   DEF Init, DeliveryInv, Exclusive, HeldPending, Known, SentWasReceived, Holds

\* An answer changes no lock, and one taken for a success was received.
LEMMA AnsweredKeeps ==
    ASSUME DeliveryInv, NEW r \in Relays, NEW m \in relay[r].rest,
           NEW pc \in {"sent", "failed"}, Answered(r, m, pc), row' = row,
           \A k \in Messages : late'[k] > 0 => late[k] > 0 \/ k = m,
           \A k \in Messages : received[k] > 0 => received'[k] > 0,
           pc = "sent" => received'[m] > 0
    PROVE  Exclusive' /\ HeldPending' /\ Known' /\ SentWasReceived'
<1>1. /\ \A s \in Relays : s # r => relay'[s] = relay[s]
      /\ relay'[r].pc = pc /\ relay'[r].current = m
      /\ relay'[r].work = relay[r].work
      /\ relay'[r].connected = relay[r].connected
      /\ m \in Messages
  BY AnsweredFacts DEF DeliveryInv
<1>2. relay[r].work[m] # None
  BY DEF DeliveryInv, TypeInv, Unsent
<1>3. \A s \in Relays : /\ relay'[s].work = relay[s].work
                         /\ relay'[s].connected = relay[s].connected
  BY <1>1
<1>4. row[m] # None
  BY <1>1, <1>2 DEF DeliveryInv, Known
<1>5. Exclusive' /\ HeldPending'
  BY <1>3 DEF DeliveryInv, Exclusive, HeldPending, Holds
<1>6. Known'
  BY <1>3, <1>4 DEF DeliveryInv, Known
<1>7. \A s \in Relays : s # r /\ relay[s].pc = "sent" => received'[relay[s].current] > 0
  BY DEF DeliveryInv, TypeInv, InHand, SentWasReceived
<1>8. SentWasReceived'
  BY <1>1, <1>3, <1>7 DEF DeliveryInv, SentWasReceived
<1> QED BY <1>5, <1>6, <1>8

LEMMA MarkKeeps ==
    ASSUME DeliveryInv, NEW r \in Relays, relay[r].pc \in {"sent", "failed"},
           NEW new \in Row,
           new.status = "SENT" => relay[r].pc = "sent",
           Statement(r, [relay[r] EXCEPT !.pc = "next", !.current = None,
                                         !.work[relay[r].current] = new])
    PROVE  Exclusive' /\ HeldPending' /\ Known' /\ SentWasReceived'
<1>1. /\ \A s \in Relays : s # r => relay'[s] = relay[s]
      /\ ~relay[r].connected => relay'[r] = Idle
      /\ relay[r].connected =>
           /\ relay'[r].pc = "next"
           /\ relay'[r].work = [relay[r].work EXCEPT ![relay[r].current] = new]
  BY WrittenFacts DEF DeliveryInv
<1>2. row' = row /\ late' = late /\ received' = received
  BY DEF Statement
<1>3. relay[r].current \in Messages /\ relay[r].work[relay[r].current] # None
      /\ relay[r].work \in [Messages -> Row \cup {None}]
  BY DEF DeliveryInv, TypeInv, TypeOK, InHand, Drain
<1>4. new # None
  BY RelayAssumption
<1>5. \A s \in Relays, m \in Messages :
        /\ relay'[s].work[m] # None => relay[s].work[m] # None
        /\ Holds(s, m)' => Holds(s, m)
  BY <1>1, <1>3, <1>4, IdleFacts DEF Holds
<1>6. Exclusive' /\ HeldPending' /\ Known'
  BY <1>2, <1>5 DEF DeliveryInv, Exclusive, HeldPending, Known
<1>7. new.status = "SENT" => received[relay[r].current] > 0
  BY DEF DeliveryInv, SentWasReceived
<1>8. SentWasReceived'
  BY <1>1, <1>2, <1>3, <1>7, IdleFacts DEF DeliveryInv, SentWasReceived
<1> QED BY <1>6, <1>8

LEMMA DeliveryStep == DeliveryInv /\ [Next]_vars => DeliveryInv'
<1> SUFFICES ASSUME DeliveryInv, [Next]_vars
             PROVE Exclusive' /\ HeldPending' /\ Known' /\ SentWasReceived'
  BY TypeStep DEF DeliveryInv
<1>a. TypeInv
  BY DEF DeliveryInv
<1>b. /\ row \in [Messages -> Row \cup {None}]
      /\ received \in [Messages -> Nat] /\ late \in [Messages -> Nat]
      /\ \A r \in Relays : relay[r].work \in [Messages -> Row \cup {None}]
  BY <1>a DEF TypeInv, TypeOK, Drain
<1>1. ASSUME NEW m \in Messages, Emit(m)
      PROVE Exclusive' /\ HeldPending' /\ Known' /\ SentWasReceived'
  BY <1>1, <1>b, RelayAssumption
     DEF Emit, DeliveryInv, Exclusive, HeldPending, Known, SentWasReceived, Holds, Row
<1>2. ASSUME NEW m \in Messages, BackoffEnds(m)
      PROVE Exclusive' /\ HeldPending' /\ Known' /\ SentWasReceived'
  <2>1. \A k \in Messages : /\ row[k] # None => row'[k] # None
                            /\ row[k] # None /\ row[k].status = "PENDING" =>
                                  row'[k].status = "PENDING"
    <3>1. row[m] \in Row /\ row' = [row EXCEPT ![m] = [row[m] EXCEPT !.due = TRUE]]
      BY <1>2, <1>b DEF BackoffEnds
    <3>2. /\ [row[m] EXCEPT !.due = TRUE] \in Row
          /\ [row[m] EXCEPT !.due = TRUE].status = row[m].status
      BY <3>1 DEF Row
    <3> QED BY <1>b, <3>1, <3>2, RelayAssumption
  <2>2. relay' = relay /\ late' = late /\ received' = received
    BY <1>2 DEF BackoffEnds
  <2> QED BY <2>1, <2>2
          DEF DeliveryInv, Exclusive, HeldPending, Known, SentWasReceived, Holds
<1>3. ASSUME NEW m \in Messages, ArrivesLate(m)
      PROVE Exclusive' /\ HeldPending' /\ Known' /\ SentWasReceived'
  <2>1. row' = row /\ relay' = relay
    BY <1>3 DEF ArrivesLate
  <2>2. \A k \in Messages : /\ received[k] > 0 => received'[k] > 0
                            /\ late'[k] > 0 => late[k] > 0
    BY <1>3, <1>b DEF ArrivesLate
  <2>3. \A s \in Relays : relay[s].pc = "sent" => relay[s].current \in Messages
    BY <1>a DEF TypeInv, InHand
  <2> QED BY <2>1, <2>2, <2>3
          DEF DeliveryInv, Exclusive, HeldPending, Known, SentWasReceived, Holds
<1>4. ASSUME NEW r \in Relays, Claim(r)
      PROVE Exclusive' /\ HeldPending' /\ Known' /\ SentWasReceived'
  <2>1. PICK batch \in SUBSET Claimable :
          /\ \A s \in Relays : s # r => relay'[s] = relay[s]
          /\ relay'[r].pc = "next"
          /\ \A m \in Messages :
                 relay'[r].work[m] = IF m \in batch THEN row[m] ELSE None
    BY <1>4, <1>a, ClaimFacts
  <2>2. row' = row /\ late' = late /\ received' = received
    BY <1>4 DEF Claim
  <2>3. \A m \in batch : /\ row[m] # None /\ row[m].status = "PENDING"
                         /\ \A s \in Relays : ~Holds(s, m)
    BY DEF Claimable, Locked
  <2>4. \A m \in Messages : /\ Holds(r, m)' => m \in batch
                            /\ \A s \in Relays : s # r => (Holds(s, m)' <=> Holds(s, m))
    BY <2>1 DEF Holds
  <2>5. Exclusive' /\ HeldPending'
    BY <2>2, <2>3, <2>4 DEF DeliveryInv, Exclusive, HeldPending
  <2>6. Known' /\ SentWasReceived'
    BY <2>1, <2>2, <2>3 DEF DeliveryInv, Known, SentWasReceived
  <2> QED BY <2>5, <2>6
<1>5. ASSUME NEW r \in Relays, NEW m \in Messages, Delivered(r, m)
      PROVE Exclusive' /\ HeldPending' /\ Known' /\ SentWasReceived'
  <2>1. \A k \in Messages : received[k] > 0 => received'[k] > 0
    BY <1>5, <1>b DEF Delivered
  <2>2. received'[m] > 0
    BY <1>5, <1>b DEF Delivered
  <2> QED BY <1>5, <2>1, <2>2, AnsweredKeeps DEF Delivered
<1>6. ASSUME NEW r \in Relays, NEW m \in Messages,
             AnswerLost(r, m) \/ Refused(r, m) \/ TimedOut(r, m)
      PROVE Exclusive' /\ HeldPending' /\ Known' /\ SentWasReceived'
  <2>1. \A k \in Messages : received[k] > 0 => received'[k] > 0
    BY <1>6, <1>b DEF AnswerLost, Refused, TimedOut
  <2>2. \A k \in Messages : late'[k] > 0 => late[k] > 0 \/ k = m
    BY <1>6, <1>b DEF AnswerLost, Refused, TimedOut
  <2>3. m \in relay[r].rest /\ row' = row /\ Answered(r, m, "failed")
    BY <1>6 DEF AnswerLost, Refused, TimedOut
  <2> QED BY <2>1, <2>2, <2>3, AnsweredKeeps
<1>7. ASSUME NEW r \in Relays, MarkSent(r)
      PROVE Exclusive' /\ HeldPending' /\ Known' /\ SentWasReceived'
  BY <1>7, <1>a, SentRow, MarkKeeps DEF MarkSent
<1>8. ASSUME NEW r \in Relays, MarkFailure(r)
      PROVE Exclusive' /\ HeldPending' /\ Known' /\ SentWasReceived'
  <2> DEFINE old == relay[r].work[relay[r].current]
             new == Rescheduled(old, old.attempts + 1)
  <2>1. old \in Row /\ old.status = "PENDING"
    BY <1>8, <1>a, FailureRow DEF MarkFailure, TypeInv, InHand
  <2>2. new \in Row /\ new.status # "SENT"
    <3>1. old.attempts + 1 \in Nat
      BY <2>1 DEF Row
    <3> HIDE DEF old
    <3> QED BY <2>1, <3>1, RescheduledFacts
  <2>3. Statement(r, [relay[r] EXCEPT !.pc = "next", !.current = None,
                                      !.work[relay[r].current] = new])
    BY <1>8, <1>a, FailureRow
  <2> HIDE DEF new
  <2> QED BY <1>8, <2>2, <2>3, MarkKeeps DEF MarkFailure
<1>9. ASSUME NEW r \in Relays, Commit(r)
      PROVE Exclusive' /\ HeldPending' /\ Known' /\ SentWasReceived'
  <2>1. relay'[r] = Idle /\ \A s \in Relays : s # r => relay'[s] = relay[s]
    BY <1>9, <1>a, EndFacts DEF Commit
  <2>2. late' = late /\ received' = received
    BY <1>9 DEF Commit
  <2>3. \A m \in Messages :
          row'[m] = IF Holds(r, m) THEN relay[r].work[m] ELSE row[m]
    BY <1>9 DEF Commit
  <2>4. \A m \in Messages : /\ ~Holds(r, m)'
                            /\ \A s \in Relays : s # r => (Holds(s, m)' <=> Holds(s, m))
    BY <2>1, IdleFacts DEF Holds
  <2>5. Exclusive'
    BY <2>4 DEF DeliveryInv, Exclusive
  <2>6. HeldPending'
    BY <2>3, <2>4 DEF DeliveryInv, Exclusive, HeldPending
  <2>7. \A m \in Messages : row[m] # None => row'[m] # None
    BY <2>3 DEF Holds
  <2>8. Known'
    BY <2>1, <2>2, <2>7, IdleFacts DEF DeliveryInv, Known
  <2>9. SentWasReceived'
    BY <2>1, <2>2, IdleFacts DEF DeliveryInv, SentWasReceived
  <2> QED BY <2>5, <2>6, <2>8, <2>9
<1>10. ASSUME NEW r \in Relays, LosesConnection(r) \/ Dies(r)
       PROVE Exclusive' /\ HeldPending' /\ Known' /\ SentWasReceived'
  <2>1. row' = row /\ late' = late /\ received' = received
    BY <1>10 DEF LosesConnection, Dies
  <2>2. \A s \in Relays :
          \/ relay'[s] = Idle
          \/ relay'[s] = relay[s]
          \/ /\ ~relay'[s].connected
             /\ relay'[s].pc = relay[s].pc
             /\ relay'[s].current = relay[s].current
             /\ relay'[s].work = relay[s].work
    BY <1>10, <1>a, EndFacts, LostFacts DEF LosesConnection, Dies
  <2>3. \A s \in Relays, m \in Messages :
          /\ Holds(s, m)' => Holds(s, m)
          /\ relay'[s].work[m] # None => relay[s].work[m] # None
    BY <2>2, IdleFacts DEF Holds
  <2>4. Exclusive' /\ HeldPending' /\ Known'
    BY <2>1, <2>3 DEF DeliveryInv, Exclusive, HeldPending, Known
  <2>5. SentWasReceived'
    BY <2>1, <2>2, IdleFacts DEF DeliveryInv, SentWasReceived
  <2> QED BY <2>4, <2>5
<1>11. CASE UNCHANGED vars
  BY <1>11 DEF vars, DeliveryInv, Exclusive, HeldPending, Known, SentWasReceived, Holds
<1> QED
  BY <1>1, <1>2, <1>3, <1>4, <1>5, <1>6, <1>7, <1>8, <1>9, <1>10, <1>11 DEF Next, Handle

\* The relays add no row, and the target receives nothing that is not a row.
LEMMA NothingUnbidden ==
    ASSUME DeliveryInv, Handle, NEW m \in Messages
    PROVE  /\ row'[m] # None => row[m] # None
           /\ received'[m] > 0 => received[m] > 0 \/ row[m] # None
<1>1. /\ row \in [Messages -> Row \cup {None}]
      /\ received \in [Messages -> Nat] /\ late \in [Messages -> Nat]
  BY DEF DeliveryInv, TypeInv, TypeOK
<1>2. ASSUME NEW r \in Relays, NEW k \in relay[r].rest PROVE row[k] # None
  BY <1>2 DEF DeliveryInv, TypeInv, TypeOK, Unsent, Known, Drain
<1>3. ASSUME NEW k \in Messages, BackoffEnds(k)
      PROVE  received' = received /\ (row'[m] # None => row[m] # None)
  BY <1>1, <1>3 DEF BackoffEnds
<1>4. ASSUME NEW k \in Messages, row[k] # None, received' = [received EXCEPT ![k] = @ + 1]
      PROVE  received'[m] > 0 => received[m] > 0 \/ row[m] # None
  BY <1>1, <1>4
<1>5. ASSUME NEW k \in Messages, ArrivesLate(k)
      PROVE  row' = row /\ (received'[m] > 0 => received[m] > 0 \/ row[m] # None)
  BY <1>4, <1>5 DEF ArrivesLate, DeliveryInv, Known
<1>6. ASSUME NEW r \in Relays, NEW k \in Messages, Delivered(r, k) \/ AnswerLost(r, k)
      PROVE  row' = row /\ (received'[m] > 0 => received[m] > 0 \/ row[m] # None)
  BY <1>2, <1>4, <1>6 DEF Delivered, AnswerLost
<1>7. ASSUME NEW r \in Relays, Commit(r)
      PROVE  received' = received /\ (row'[m] # None => row[m] # None)
  BY <1>7 DEF Commit, DeliveryInv, HeldPending
<1>8. ASSUME NEW r \in Relays,
             \/ Claim(r) \/ MarkSent(r) \/ MarkFailure(r) \/ LosesConnection(r) \/ Dies(r)
             \/ \E k \in Messages : Refused(r, k) \/ TimedOut(r, k)
      PROVE  row' = row /\ received' = received
  BY <1>8 DEF Claim, MarkSent, MarkFailure, Statement, LosesConnection, Dies, Refused, TimedOut
<1> QED BY <1>3, <1>5, <1>6, <1>7, <1>8 DEF Handle

\* Nor do they take one out.
LEMMA RowsStay ==
    ASSUME DeliveryInv, Handle, NEW m \in Messages, row[m] # None
    PROVE  row'[m] # None
<1>1. row \in [Messages -> Row \cup {None}]
  BY DEF DeliveryInv, TypeInv, TypeOK
<1>2. ASSUME NEW k \in Messages, BackoffEnds(k) PROVE row'[m] # None
  <2> DEFINE new == [row[k] EXCEPT !.due = TRUE]
  <2>1. row' = [row EXCEPT ![k] = new] /\ row[k] \in Row
    BY <1>1, <1>2 DEF BackoffEnds
  <2>2. new \in Row
    BY <2>1 DEF Row
  <2> HIDE DEF new
  <2>3. new # None
    BY <2>2, RelayAssumption
  <2> QED BY <1>1, <2>1, <2>3
<1>3. ASSUME NEW r \in Relays, Commit(r) PROVE row'[m] # None
  BY <1>3 DEF Commit, Holds
<1>4. ASSUME row' = row PROVE row'[m] # None
  BY <1>4
<1> QED
  BY <1>2, <1>3, <1>4
  DEF Handle, ArrivesLate, Claim, Delivered, AnswerLost, Refused, TimedOut, MarkSent,
      MarkFailure, Statement, LosesConnection, Dies

-----------------------------------------------------------------------------
(* The steps of the relay as steps of Delivery. *)

Decisions == [m \in Messages |-> Decision(row[m])]
Arrived == {m \in Messages : received[m] > 0}

\* What the target received, once or again, is one step of Delivery.
LEMMA ReceiveStep ==
    ASSUME NEW m \in Messages, row[m] # None, row' = row,
           received \in [Messages -> Nat], received' = [received EXCEPT ![m] = @ + 1],
           row \in [Messages -> Row \cup {None}]
    PROVE  Delivery!Receive(m)
<1>1. Decisions[m] # "none"
  BY DEF Decisions, Decision
<1>2. Arrived' = Arrived \cup {m}
  BY DEF Arrived
<1>3. Decisions' = Decisions
  BY DEF Decisions
<1> QED BY <1>1, <1>2, <1>3 DEF Delivery!Receive, Decisions, Arrived

LEMMA DeliverySteps ==
    DeliveryInv /\ [Next]_vars => [Delivery!Next]_(Delivery!vars)
<1> SUFFICES ASSUME DeliveryInv, [Next]_vars,
                    ~(Decisions' = Decisions /\ Arrived' = Arrived)
             PROVE  Delivery!Next
  BY DEF Delivery!vars, Decisions, Arrived
<1>a. TypeInv
  BY DEF DeliveryInv
<1>b. /\ row \in [Messages -> Row \cup {None}]
      /\ received \in [Messages -> Nat]
      /\ \A r \in Relays : relay[r].work \in [Messages -> Row \cup {None}]
  BY <1>a DEF TypeInv, TypeOK, Drain
<1>c. ~(row' = row /\ received' = received)
  BY DEF Decisions, Arrived
<1>1. ASSUME NEW m \in Messages, Emit(m) PROVE Delivery!Next
  <2>1. Decisions[m] = "none" /\ Arrived' = Arrived
    BY <1>1 DEF Emit, Decisions, Decision, Arrived
  <2>2. row' = [row EXCEPT ![m] = [status |-> "PENDING", attempts |-> 0, due |-> TRUE]]
    BY <1>1 DEF Emit
  <2>3. [status |-> "PENDING", attempts |-> 0, due |-> TRUE] # None
    <3>1. [status |-> "PENDING", attempts |-> 0, due |-> TRUE] \in Row
      BY DEF Row
    <3>2. None \notin Row
      BY RelayAssumption
    <3> QED BY <3>1, <3>2
  <2>4. Decisions' = [Decisions EXCEPT ![m] = "promised"]
    BY <1>b, <2>2, <2>3 DEF Decisions, Decision
  <2>5. Delivery!Promise(m)
    BY <2>1, <2>4 DEF Delivery!Promise, Decisions, Arrived
  <2> QED BY <2>5 DEF Delivery!Next
<1>2. ASSUME NEW m \in Messages, BackoffEnds(m) PROVE Delivery!Next
  <2>1. row[m] \in Row /\ row' = [row EXCEPT ![m] = [row[m] EXCEPT !.due = TRUE]]
    BY <1>2, <1>b DEF BackoffEnds
  <2>2. /\ [row[m] EXCEPT !.due = TRUE] \in Row
        /\ [row[m] EXCEPT !.due = TRUE].status = row[m].status
    BY <2>1 DEF Row
  <2>3. Decision([row[m] EXCEPT !.due = TRUE]) = Decision(row[m])
    BY <2>1, <2>2, RelayAssumption DEF Decision
  <2>4. \A k \in Messages : Decision(row'[k]) = Decision(row[k])
    BY <1>b, <2>1, <2>3
  <2>5. Decisions' = Decisions /\ Arrived' = Arrived
    BY <1>2, <2>4 DEF Decisions, Arrived, BackoffEnds
  <2> QED BY <2>5
<1>3. ASSUME NEW m \in Messages, ArrivesLate(m) PROVE Delivery!Next
  <2>1. row[m] # None
    BY <1>3 DEF ArrivesLate, DeliveryInv, Known
  <2>2. Delivery!Receive(m)
    BY <1>3, <1>b, <2>1, ReceiveStep DEF ArrivesLate
  <2> QED BY <2>2 DEF Delivery!Next
<1>4. ASSUME NEW r \in Relays, NEW m \in Messages, Delivered(r, m) \/ AnswerLost(r, m)
      PROVE  Delivery!Next
  <2>1. relay[r].work[m] # None
    BY <1>4, <1>a DEF Delivered, AnswerLost, TypeInv, Unsent
  <2>2. row[m] # None
    BY <2>1 DEF DeliveryInv, Known
  <2>3. Delivery!Receive(m)
    BY <1>4, <1>b, <2>2, ReceiveStep DEF Delivered, AnswerLost
  <2> QED BY <2>3 DEF Delivery!Next
<1>5. ASSUME NEW r \in Relays, Commit(r) PROVE Delivery!Next
  <2> DEFINE confirmed == {m \in Messages : Holds(r, m) /\ relay[r].work[m].status = "SENT"}
             abandoned == {m \in Messages : Holds(r, m) /\ relay[r].work[m].status = "FAILED"}
  <2>1. \A m \in confirmed \cup abandoned : Decisions[m] = "promised"
    BY DEF DeliveryInv, HeldPending, Decisions, Decision
  <2>2. confirmed \subseteq Arrived
    BY DEF DeliveryInv, SentWasReceived, Arrived, Holds
  <2>3. ASSUME NEW m \in Messages
        PROVE  Decision(row'[m]) = IF m \in confirmed THEN "confirmed"
                                   ELSE IF m \in abandoned THEN "abandoned"
                                   ELSE Decision(row[m])
    <3>1. row'[m] = IF Holds(r, m) THEN relay[r].work[m] ELSE row[m]
      BY <1>5 DEF Commit
    <3>2. CASE Holds(r, m)
      <4>1. relay[r].work[m] \in Row /\ relay[r].work[m] # None
        BY <1>b, <3>2 DEF Holds
      <4>2. relay[r].work[m].status \in {"PENDING", "SENT", "FAILED"}
        BY <4>1 DEF Row
      <4>3. row[m] # None /\ row[m].status = "PENDING"
        BY <3>2 DEF DeliveryInv, HeldPending
      <4> QED BY <3>1, <3>2, <4>1, <4>2, <4>3 DEF Decision
    <3>3. CASE ~Holds(r, m)
      BY <3>1, <3>3
    <3> QED BY <3>2, <3>3
  <2>4. Decisions' = [m \in Messages |-> IF m \in confirmed THEN "confirmed"
                                         ELSE IF m \in abandoned THEN "abandoned"
                                         ELSE Decisions[m]]
    BY <2>3 DEF Decisions
  <2>5. Arrived' = Arrived
    BY <1>5 DEF Commit, Arrived
  <2>6. confirmed \in SUBSET Messages /\ abandoned \in SUBSET Messages
    OBVIOUS
  <2> HIDE DEF confirmed, abandoned
  <2>7. Delivery!Decide(confirmed, abandoned)
    BY <2>1, <2>2, <2>4, <2>5 DEF Delivery!Decide, Decisions, Arrived
  <2> QED BY <2>6, <2>7 DEF Delivery!Next
<1>6. ASSUME NEW r \in Relays, NEW m \in Messages, Refused(r, m) \/ TimedOut(r, m)
      PROVE  Delivery!Next
  BY <1>6, <1>c DEF Refused, TimedOut
<1>7. ASSUME NEW r \in Relays,
             Claim(r) \/ MarkSent(r) \/ MarkFailure(r) \/ LosesConnection(r) \/ Dies(r)
      PROVE  Delivery!Next
  BY <1>7, <1>c DEF Claim, MarkSent, MarkFailure, Statement, LosesConnection, Dies
<1>8. CASE UNCHANGED vars
  BY <1>8, <1>c DEF vars
<1> QED BY <1>1, <1>2, <1>3, <1>4, <1>5, <1>6, <1>7, <1>8 DEF Next, Handle

\* Relays that share the outbox, crash, lose connections and time out keep its
\* promise: SENT was received, and SENT and FAILED are final.
THEOREM DeliveryImplemented == Spec => ImplementsDelivery
<1>1. Init => Delivery!Init
  BY RelayAssumption DEF Init, Delivery!Init, Decision
<1>2. Spec => []DeliveryInv
  BY DeliveryInit, DeliveryStep, PTL DEF Spec
<1> QED BY <1>1, <1>2, DeliverySteps, PTL DEF Spec, ImplementsDelivery, Delivery!Spec

-----------------------------------------------------------------------------
(* Duplicates: a message is delivered again only by a drain that does not    *)
(* know it lost its lock, or after one that delivered it never committed.    *)
(* Both took a failure, which is charged for the one delivery it allows.     *)

\* The drains that no longer hold m and may still dispatch it.
Strays(m) == {r \in Relays : ~relay[r].connected /\ m \in relay[r].rest}

\* A drain that holds m is done with it, and is sure to say so if it commits.
SpentBy(r, m) ==
    /\ Holds(r, m)
    /\ \/ relay[r].work[m].status # "PENDING"
       \/ relay[r].pc = "sent" /\ relay[r].current = m

Spent(m) ==
    \/ row[m] # None /\ row[m].status # "PENDING"
    \/ \E r \in Relays : SpentBy(r, m)

\* Unless it is spent, some drain may dispatch m once without any failure.
Left(m) == IF Spent(m) THEN 0 ELSE 1

Covered(m) ==
    /\ IsFiniteSet(Strays(m))
    /\ received[m] + late[m] + Cardinality(Strays(m)) + Left(m) <= 1 + failures

\* Nothing is held between two drains.
IdleLetsGo ==
    \A r \in Relays : relay[r].pc = "idle" => \A m \in Messages : ~Holds(r, m)

DuplicateInv == DeliveryInv /\ IdleLetsGo /\ \A m \in Messages : Covered(m)

\* How the number of strays can change.
LEMMA NoMoreThan ==
    ASSUME NEW S, IsFiniteSet(S), NEW T, T \subseteq S
    PROVE  /\ IsFiniteSet(T)
           /\ Cardinality(S) \in Nat /\ Cardinality(T) \in Nat
           /\ Cardinality(T) <= Cardinality(S)
BY FS_Subset, FS_CardinalityType

LEMMA OneLess ==
    ASSUME NEW S, IsFiniteSet(S), NEW x \in S, NEW T, T \subseteq S \ {x}
    PROVE  /\ IsFiniteSet(T)
           /\ Cardinality(S) \in Nat /\ Cardinality(T) \in Nat
           /\ Cardinality(T) + 1 <= Cardinality(S)
<1>1. IsFiniteSet(S \ {x}) /\ Cardinality(S \ {x}) = Cardinality(S) - 1
  BY FS_RemoveElement
<1>2. Cardinality(S) \in Nat /\ Cardinality(S \ {x}) \in Nat
  BY <1>1, FS_CardinalityType
<1>3. IsFiniteSet(T) /\ Cardinality(T) \in Nat /\ Cardinality(T) <= Cardinality(S \ {x})
  BY <1>1, NoMoreThan
<1> QED BY <1>1, <1>2, <1>3

LEMMA OneMore ==
    ASSUME NEW S, IsFiniteSet(S), NEW x, NEW T, T \subseteq S \cup {x}
    PROVE  /\ IsFiniteSet(T)
           /\ Cardinality(S) \in Nat /\ Cardinality(T) \in Nat
           /\ Cardinality(T) <= Cardinality(S) + 1
<1>1. /\ IsFiniteSet(S \cup {x})
      /\ Cardinality(S \cup {x}) = IF x \in S THEN Cardinality(S) ELSE Cardinality(S) + 1
  BY FS_AddElement
<1>2. Cardinality(S) \in Nat
  BY FS_CardinalityType
<1>3. /\ IsFiniteSet(T) /\ Cardinality(T) \in Nat
      /\ Cardinality(T) <= Cardinality(S \cup {x}) /\ Cardinality(S \cup {x}) \in Nat
  BY <1>1, NoMoreThan
<1> QED BY <1>1, <1>2, <1>3

\* No step owes a message more than the failures of the step pay for.
LEMMA LeftFacts ==
    ASSUME NEW m \in Messages
    PROVE  /\ Left(m) \in {0, 1} /\ Left(m)' \in {0, 1}
           /\ Spent(m) => Left(m) = 0
           /\ ~Spent(m) => Left(m) = 1
           /\ Spent(m)' => Left(m)' = 0
BY DEF Left

LEMMA Balanced ==
    ASSUME DuplicateInv, TypeInv', NEW m \in Messages,
           IsFiniteSet(Strays(m)'),
           received'[m] + late'[m] + Cardinality(Strays(m)') + Left(m)' + failures
              <= received[m] + late[m] + Cardinality(Strays(m)) + Left(m) + failures'
    PROVE  Covered(m)'
<1>1. /\ received[m] \in Nat /\ late[m] \in Nat /\ failures \in Nat
      /\ received'[m] \in Nat /\ late'[m] \in Nat /\ failures' \in Nat
  BY DEF DuplicateInv, DeliveryInv, TypeInv, TypeOK
<1>2. /\ Cardinality(Strays(m)) \in Nat /\ Cardinality(Strays(m)') \in Nat
      /\ received[m] + late[m] + Cardinality(Strays(m)) + Left(m) <= 1 + failures
  BY FS_CardinalityType DEF DuplicateInv, Covered
<1>3. Left(m) \in Nat /\ Left(m)' \in Nat
  BY LeftFacts
<1>4. received'[m] + late'[m] + Cardinality(Strays(m)') + Left(m)' <= 1 + failures'
  BY <1>1, <1>2, <1>3
<1> QED BY <1>4 DEF Covered

\* Where no drain becomes a stray, only the other terms count.
LEMMA NoNewStray ==
    ASSUME DuplicateInv, TypeInv', NEW m \in Messages,
           Strays(m)' \subseteq Strays(m),
           received'[m] + late'[m] + Left(m)' + failures
              <= received[m] + late[m] + Left(m) + failures'
    PROVE  Covered(m)'
<1>1. /\ received[m] \in Nat /\ late[m] \in Nat /\ failures \in Nat
      /\ received'[m] \in Nat /\ late'[m] \in Nat /\ failures' \in Nat
  BY DEF DuplicateInv, DeliveryInv, TypeInv, TypeOK
<1>2. /\ IsFiniteSet(Strays(m)')
      /\ Cardinality(Strays(m)) \in Nat /\ Cardinality(Strays(m)') \in Nat
      /\ Cardinality(Strays(m)') <= Cardinality(Strays(m))
  BY NoMoreThan DEF DuplicateInv, Covered
<1>3. Left(m) \in Nat /\ Left(m)' \in Nat
  BY LeftFacts
<1>4. received'[m] + late'[m] + Cardinality(Strays(m)') + Left(m)' + failures
        <= received[m] + late[m] + Cardinality(Strays(m)) + Left(m) + failures'
  BY <1>1, <1>2, <1>3
<1> QED BY <1>2, <1>4, Balanced

\* A step that delivers nothing and leaves no drain more to dispatch.
LEMMA NothingOwed ==
    ASSUME DuplicateInv, TypeInv', NEW m \in Messages,
           Strays(m)' \subseteq Strays(m), Spent(m) => Spent(m)',
           received'[m] + late'[m] = received[m] + late[m],
           failures' = failures
    PROVE  Covered(m)'
<1>1. Left(m)' <= Left(m) /\ Left(m) \in Nat /\ Left(m)' \in Nat
  BY LeftFacts
<1>2. /\ received[m] \in Nat /\ late[m] \in Nat /\ failures \in Nat
      /\ received'[m] \in Nat /\ late'[m] \in Nat
  BY DEF DuplicateInv, DeliveryInv, TypeInv, TypeOK
<1> QED BY <1>1, <1>2, NoNewStray

\* A failure pays for one delivery, or for one that is possible again.
LEMMA PaidFor ==
    ASSUME DuplicateInv, TypeInv', NEW m \in Messages,
           Strays(m)' \subseteq Strays(m), failures' = failures + 1,
           \/ received'[m] + late'[m] = received[m] + late[m]
           \/ received'[m] + late'[m] = received[m] + late[m] + 1 /\ (Spent(m) => Spent(m)')
    PROVE  Covered(m)'
<1>1. /\ Left(m) \in {0, 1} /\ Left(m)' \in {0, 1}
      /\ (Spent(m) => Spent(m)') => Left(m)' <= Left(m)
  BY LeftFacts
<1>2. /\ received[m] \in Nat /\ late[m] \in Nat /\ failures \in Nat
      /\ received'[m] \in Nat /\ late'[m] \in Nat
  BY DEF DuplicateInv, DeliveryInv, TypeInv, TypeOK
<1>3. received'[m] + late'[m] + Left(m)' + failures
        <= received[m] + late[m] + Left(m) + failures'
  BY <1>1, <1>2
<1> QED BY <1>3, NoNewStray

\* Of a message that is held, only its holder can say that it is spent.
LEMMA HolderDecides ==
    ASSUME DeliveryInv, NEW r \in Relays, NEW m \in Messages, Holds(r, m), Spent(m)
    PROVE  SpentBy(r, m)
BY DEF DeliveryInv, HeldPending, Exclusive, Spent, SpentBy

\* The answer to a dispatch concerns the message that was dispatched.
LEMMA AnswerSpends ==
    ASSUME DuplicateInv, NEW r \in Relays, NEW m \in relay[r].rest, relay[r].pc = "next",
           NEW pc \in {"sent", "failed"}, Answered(r, m, pc), row' = row
    PROVE  /\ \A k \in Messages : Strays(k)' \subseteq Strays(k)
           /\ \A k \in Messages : Spent(k) => Spent(k)'
           /\ ~relay[r].connected => r \in Strays(m) /\ Strays(m)' \subseteq Strays(m) \ {r}
           /\ relay[r].connected => ~Spent(m) /\ (pc = "sent" => Spent(m)')
           /\ \A s \in Relays : relay'[s].pc = "idle" => relay'[s] = relay[s]
<1>1. /\ \A s \in Relays : s # r => relay'[s] = relay[s]
      /\ relay'[r].pc = pc /\ relay'[r].current = m
      /\ relay'[r].rest = relay[r].rest \ {m}
      /\ relay'[r].work = relay[r].work
      /\ relay'[r].connected = relay[r].connected
      /\ m \in Messages
  BY AnsweredFacts DEF DuplicateInv, DeliveryInv
<1>2. relay[r].work[m] # None /\ relay[r].work[m].status = "PENDING"
  BY DEF DuplicateInv, DeliveryInv, TypeInv, Unsent
<1>3. \A k \in Messages : Strays(k)' \subseteq Strays(k)
  BY <1>1 DEF Strays
<1>4. \A k \in Messages, s \in Relays : SpentBy(s, k) => SpentBy(s, k)'
  BY <1>1 DEF SpentBy, Holds
<1>5. \A k \in Messages : Spent(k) => Spent(k)'
  BY <1>4 DEF Spent
<1>6. ~relay[r].connected => r \in Strays(m) /\ Strays(m)' \subseteq Strays(m) \ {r}
  BY <1>1 DEF Strays
<1>7. ASSUME relay[r].connected PROVE ~Spent(m) /\ (pc = "sent" => Spent(m)')
  <2>1. Holds(r, m) /\ ~SpentBy(r, m)
    BY <1>2, <1>7 DEF Holds, SpentBy
  <2>2. ~Spent(m)
    BY <1>1, <2>1, HolderDecides DEF DuplicateInv
  <2>3. pc = "sent" => SpentBy(r, m)'
    BY <1>1, <1>2, <1>7 DEF SpentBy, Holds
  <2> QED BY <2>2, <2>3 DEF Spent
<1>8. \A s \in Relays : relay'[s].pc = "idle" => relay'[s] = relay[s]
  BY <1>1
<1> QED BY <1>3, <1>5, <1>6, <1>7, <1>8

\* What a drain writes for a row decides it, or leaves it to be tried again
\* after a failure that has been paid for.
LEMMA MarkSpends ==
    ASSUME DuplicateInv, NEW r \in Relays, relay[r].pc \in {"sent", "failed"},
           NEW new \in Row,
           relay[r].pc = "sent" => new.status # "PENDING",
           Statement(r, [relay[r] EXCEPT !.pc = "next", !.current = None,
                                         !.work[relay[r].current] = new])
    PROVE  /\ \A k \in Messages : Strays(k)' \subseteq Strays(k)
           /\ \A k \in Messages : Spent(k) => Spent(k)'
           /\ \A s \in Relays : relay'[s].pc = "idle" => relay'[s] \in {relay[s], Idle}
<1>1. /\ \A s \in Relays : s # r => relay'[s] = relay[s]
      /\ ~relay[r].connected => relay'[r] = Idle
      /\ relay[r].connected =>
           /\ relay'[r].pc = "next"
           /\ relay'[r].rest = relay[r].rest
           /\ relay'[r].connected
           /\ relay'[r].work = [relay[r].work EXCEPT ![relay[r].current] = new]
  BY WrittenFacts DEF DuplicateInv, DeliveryInv
<1>2. /\ relay[r].current \in Messages
      /\ relay[r].work[relay[r].current].status = "PENDING"
      /\ relay[r].work \in [Messages -> Row \cup {None}]
      /\ row' = row
  BY DEF DuplicateInv, DeliveryInv, TypeInv, TypeOK, InHand, Drain, Statement
<1>3. \A k \in Messages : Strays(k)' \subseteq Strays(k)
  BY <1>1, IdleFacts DEF Strays
<1>4. new # None
  BY RelayAssumption
<1>5. ASSUME NEW k \in Messages, SpentBy(r, k) PROVE SpentBy(r, k)'
  <2>1. relay[r].connected
    BY <1>5 DEF SpentBy, Holds
  <2>2. relay'[r].work[k] = IF k = relay[r].current THEN new ELSE relay[r].work[k]
    BY <1>1, <1>2, <2>1
  <2> QED BY <1>1, <1>2, <1>4, <1>5, <2>1, <2>2 DEF SpentBy, Holds
<1>6. \A k \in Messages, s \in Relays : SpentBy(s, k) => SpentBy(s, k)'
  <2>1. \A k \in Messages, s \in Relays : s # r /\ SpentBy(s, k) => SpentBy(s, k)'
    BY <1>1 DEF SpentBy, Holds
  <2> QED BY <1>5, <2>1
<1>7. \A k \in Messages : Spent(k) => Spent(k)'
  BY <1>2, <1>6 DEF Spent
<1> QED BY <1>1, <1>3, <1>7

\* A drain that ends, and rows that are written by no one or by its commit.
LEMMA EndSpends ==
    ASSUME DuplicateInv, NEW r \in Relays, relay' = [relay EXCEPT ![r] = Idle]
    PROVE  /\ \A k \in Messages : Strays(k)' \subseteq Strays(k)
           /\ \A k \in Messages, s \in Relays : s # r /\ SpentBy(s, k) => SpentBy(s, k)'
           /\ \A s \in Relays : relay'[s].pc = "idle" => relay'[s] \in {relay[s], Idle}
<1>1. relay'[r] = Idle /\ \A s \in Relays : s # r => relay'[s] = relay[s]
  BY EndFacts DEF DuplicateInv, DeliveryInv
<1> QED BY <1>1, IdleFacts DEF Strays, SpentBy, Holds

\* A drain that loses its connection may dispatch the rest of its batch, which
\* others may claim now: one more delivery of each, for one failure.
LEMMA LostIsPaidFor ==
    ASSUME DuplicateInv, TypeInv', NEW r \in Relays, LosesConnection(r), NEW m \in Messages
    PROVE  Covered(m)'
<1>1. /\ \A s \in Relays : s # r => relay'[s] = relay[s]
      /\ ~relay'[r].connected /\ relay'[r].rest = relay[r].rest
  BY LostFacts DEF LosesConnection, DuplicateInv, DeliveryInv
<1>2. /\ received' = received /\ late' = late /\ failures' = failures + 1
      /\ relay[r].connected
  BY DEF LosesConnection, Fail
<1>3. CASE m \notin relay[r].rest
  <2>1. Strays(m)' \subseteq Strays(m)
    BY <1>1, <1>3 DEF Strays
  <2> QED BY <1>2, <2>1, PaidFor
<1>4. CASE m \in relay[r].rest
  <2>1. Holds(r, m) /\ ~SpentBy(r, m)
    BY <1>2, <1>4 DEF DuplicateInv, DeliveryInv, TypeInv, Unsent, InHand, Holds, SpentBy
  <2>2. ~Spent(m)
    BY <2>1, HolderDecides DEF DuplicateInv
  <2>3. Left(m)' <= Left(m) /\ Left(m) \in Nat /\ Left(m)' \in Nat
    BY <2>2, LeftFacts
  <2>4. Strays(m)' \subseteq Strays(m) \cup {r}
    BY <1>1 DEF Strays
  <2>5. /\ IsFiniteSet(Strays(m)')
        /\ Cardinality(Strays(m)) \in Nat /\ Cardinality(Strays(m)') \in Nat
        /\ Cardinality(Strays(m)') <= Cardinality(Strays(m)) + 1
    BY <2>4, OneMore DEF DuplicateInv, Covered
  <2>6. received[m] \in Nat /\ late[m] \in Nat /\ failures \in Nat
    BY DEF DuplicateInv, DeliveryInv, TypeInv, TypeOK
  <2> QED BY <1>2, <2>3, <2>5, <2>6, Balanced
<1> QED BY <1>3, <1>4

LEMMA DuplicateInit == Init => DuplicateInv
<1> SUFFICES ASSUME Init PROVE DuplicateInv
  OBVIOUS
<1>1. IdleLetsGo
  BY IdleFacts DEF Init, IdleLetsGo, Holds
<1>2. ASSUME NEW m \in Messages PROVE Covered(m)
  <2>1. Strays(m) = {}
    BY IdleFacts DEF Init, Strays
  <2>2. Left(m) \in {0, 1}
    BY LeftFacts
  <2> QED BY <2>1, <2>2, FS_EmptySet DEF Init, Covered
<1> QED BY <1>1, <1>2, DeliveryInit DEF DuplicateInv

LEMMA DuplicateStep == DuplicateInv /\ [Next]_vars => DuplicateInv'
<1> SUFFICES ASSUME DuplicateInv, [Next]_vars
             PROVE  IdleLetsGo' /\ \A m \in Messages : Covered(m)'
  BY DeliveryStep DEF DuplicateInv
<1>a. TypeInv /\ TypeInv' /\ DeliveryInv
  BY TypeStep DEF DuplicateInv, DeliveryInv
<1>b. /\ row \in [Messages -> Row \cup {None}]
      /\ received \in [Messages -> Nat] /\ late \in [Messages -> Nat]
      /\ failures \in Nat
  BY <1>a DEF TypeInv, TypeOK
<1>c. ASSUME \A s \in Relays : relay'[s].pc = "idle" => relay'[s] \in {relay[s], Idle}
      PROVE  IdleLetsGo'
  BY <1>c, IdleFacts DEF DuplicateInv, IdleLetsGo, Holds
<1>d. ASSUME UNCHANGED <<relay, late, received, failures>>,
             \A m \in Messages : row[m] # None /\ row[m].status # "PENDING" =>
                                 row'[m] # None /\ row'[m].status # "PENDING"
      PROVE  IdleLetsGo' /\ \A m \in Messages : Covered(m)'
  <2>1. \A m \in Messages : Strays(m)' \subseteq Strays(m) /\ (Spent(m) => Spent(m)')
    BY <1>d DEF Strays, Spent, SpentBy, Holds
  <2> QED BY <1>a, <1>c, <1>d, <2>1, NothingOwed
<1>1. ASSUME NEW k \in Messages, Emit(k) \/ BackoffEnds(k)
      PROVE  IdleLetsGo' /\ \A m \in Messages : Covered(m)'
  <2>1. \A m \in Messages : row[m] # None /\ row[m].status # "PENDING" => row'[m] = row[m]
    BY <1>1, <1>b DEF Emit, BackoffEnds
  <2> QED BY <1>1, <1>d, <2>1 DEF Emit, BackoffEnds
<1>2. ASSUME NEW k \in Messages, ArrivesLate(k)
      PROVE  IdleLetsGo' /\ \A m \in Messages : Covered(m)'
  <2>1. /\ \A m \in Messages : received'[m] + late'[m] = received[m] + late[m]
        /\ row' = row /\ relay' = relay /\ failures' = failures
    BY <1>2, <1>b DEF ArrivesLate
  <2>2. \A m \in Messages : Strays(m)' \subseteq Strays(m) /\ (Spent(m) => Spent(m)')
    BY <2>1 DEF Strays, Spent, SpentBy, Holds
  <2> QED BY <1>a, <1>c, <2>1, <2>2, NothingOwed
<1>3. ASSUME NEW r \in Relays, Claim(r)
      PROVE  IdleLetsGo' /\ \A m \in Messages : Covered(m)'
  <2>1. PICK batch \in SUBSET Claimable :
          relay' = [relay EXCEPT ![r] =
             [Idle EXCEPT !.pc = "next", !.rest = batch,
                          !.work = [m \in Messages |-> IF m \in batch THEN row[m] ELSE None]]]
    BY <1>3 DEF Claim
  <2>2. /\ relay'[r].connected /\ relay'[r].pc = "next"
        /\ \A s \in Relays : s # r => relay'[s] = relay[s]
    BY <1>a, <2>1 DEF TypeInv, TypeOK, Idle
  <2>3. \A m \in Messages : ~SpentBy(r, m)
    BY <1>3 DEF DuplicateInv, IdleLetsGo, Claim, SpentBy
  <2>4. \A m \in Messages : Strays(m)' \subseteq Strays(m)
    BY <2>2 DEF Strays
  <2>5. UNCHANGED <<row, late, received, failures>>
    BY <1>3 DEF Claim
  <2>6. \A m \in Messages, s \in Relays : SpentBy(s, m) => SpentBy(s, m)'
    BY <2>2, <2>3 DEF SpentBy, Holds
  <2>7. \A m \in Messages : Spent(m) => Spent(m)'
    BY <2>5, <2>6 DEF Spent
  <2>8. IdleLetsGo'
    BY <1>c, <2>2
  <2> QED BY <1>a, <2>4, <2>5, <2>7, <2>8, NothingOwed
<1>4. ASSUME NEW r \in Relays, NEW k \in Messages, Delivered(r, k)
      PROVE  IdleLetsGo' /\ \A m \in Messages : Covered(m)'
  <2>1. /\ k \in relay[r].rest /\ relay[r].pc = "next" /\ Answered(r, k, "sent")
        /\ row' = row /\ late' = late /\ failures' = failures
        /\ \A m \in Messages : received'[m] = IF m = k THEN received[m] + 1 ELSE received[m]
    BY <1>4, <1>b DEF Delivered
  <2>2. /\ \A m \in Messages : Strays(m)' \subseteq Strays(m)
        /\ \A m \in Messages : Spent(m) => Spent(m)'
        /\ ~relay[r].connected => r \in Strays(k) /\ Strays(k)' \subseteq Strays(k) \ {r}
        /\ relay[r].connected => ~Spent(k) /\ Spent(k)'
        /\ \A s \in Relays : relay'[s].pc = "idle" => relay'[s] = relay[s]
    BY <2>1, AnswerSpends
  <2>3. ASSUME NEW m \in Messages, m # k PROVE Covered(m)'
    BY <1>a, <2>1, <2>2, <2>3, NothingOwed
  <2>4. CASE relay[r].connected
    <3>1. Left(k)' = 0 /\ Left(k) = 1
      BY <2>2, <2>4, LeftFacts
    <3>2. received'[k] + late'[k] + Left(k)' + failures
            <= received[k] + late[k] + Left(k) + failures'
      BY <1>b, <2>1, <3>1
    <3> QED BY <1>a, <1>c, <2>2, <2>3, <3>2, NoNewStray
  <2>5. CASE ~relay[r].connected
    <3>1. /\ IsFiniteSet(Strays(k)')
          /\ Cardinality(Strays(k)) \in Nat /\ Cardinality(Strays(k)') \in Nat
          /\ Cardinality(Strays(k)') + 1 <= Cardinality(Strays(k))
      BY <2>2, <2>5, OneLess DEF DuplicateInv, Covered
    <3>2. Left(k)' <= Left(k) /\ Left(k) \in Nat /\ Left(k)' \in Nat
      BY <2>2, LeftFacts
    <3>3. received'[k] + late'[k] + Cardinality(Strays(k)') + Left(k)' + failures
            <= received[k] + late[k] + Cardinality(Strays(k)) + Left(k) + failures'
      BY <1>b, <2>1, <3>1, <3>2
    <3> QED BY <1>a, <1>c, <2>2, <2>3, <3>1, <3>3, Balanced
  <2> QED BY <2>4, <2>5
<1>5. ASSUME NEW r \in Relays, NEW k \in Messages,
             AnswerLost(r, k) \/ Refused(r, k) \/ TimedOut(r, k)
      PROVE  IdleLetsGo' /\ \A m \in Messages : Covered(m)'
  <2>1. /\ k \in relay[r].rest /\ relay[r].pc = "next" /\ Answered(r, k, "failed")
        /\ row' = row /\ failures' = failures + 1
    BY <1>5 DEF AnswerLost, Refused, TimedOut, Fail
  <2>2. \A m \in Messages : \/ received'[m] + late'[m] = received[m] + late[m]
                            \/ received'[m] + late'[m] = received[m] + late[m] + 1
    BY <1>5, <1>b DEF AnswerLost, Refused, TimedOut
  <2>3. /\ \A m \in Messages : Strays(m)' \subseteq Strays(m) /\ (Spent(m) => Spent(m)')
        /\ \A s \in Relays : relay'[s].pc = "idle" => relay'[s] = relay[s]
    BY <2>1, AnswerSpends
  <2> QED BY <1>a, <1>c, <2>1, <2>2, <2>3, PaidFor
<1>6. ASSUME NEW r \in Relays, MarkSent(r) \/ MarkFailure(r)
      PROVE  IdleLetsGo' /\ \A m \in Messages : Covered(m)'
  <2>1. /\ \A m \in Messages : Strays(m)' \subseteq Strays(m) /\ (Spent(m) => Spent(m)')
        /\ \A s \in Relays : relay'[s].pc = "idle" => relay'[s] \in {relay[s], Idle}
    <3> DEFINE old == relay[r].work[relay[r].current]
    <3>1. CASE MarkSent(r)
      BY <1>a, <3>1, SentRow, MarkSpends DEF MarkSent
    <3>2. CASE MarkFailure(r)
      <4>1. /\ old \in Row
            /\ Statement(r, [relay[r] EXCEPT !.pc = "next", !.current = None,
                  !.work[relay[r].current] = Rescheduled(old, old.attempts + 1)])
        BY <1>a, <3>2, FailureRow
      <4>2. Rescheduled(old, old.attempts + 1) \in Row
        <5>1. old.attempts + 1 \in Nat
          BY <4>1 DEF Row
        <5> QED BY <4>1, <5>1, RescheduledFacts
      <4> QED BY <3>2, <4>1, <4>2, MarkSpends DEF MarkFailure
    <3> QED BY <1>6, <3>1, <3>2
  <2>2. UNCHANGED <<row, late, received, failures>>
    BY <1>6 DEF MarkSent, MarkFailure, Statement
  <2> QED BY <1>a, <1>c, <2>1, <2>2, NothingOwed
<1>7. ASSUME NEW r \in Relays, Commit(r)
      PROVE  IdleLetsGo' /\ \A m \in Messages : Covered(m)'
  <2>1. /\ relay[r].pc = "next" /\ relay' = [relay EXCEPT ![r] = Idle]
        /\ row' = [m \in Messages |-> IF Holds(r, m) THEN relay[r].work[m] ELSE row[m]]
        /\ UNCHANGED <<late, received, failures>>
    BY <1>7 DEF Commit
  <2>2. /\ \A m \in Messages : Strays(m)' \subseteq Strays(m)
        /\ \A m \in Messages, s \in Relays : s # r /\ SpentBy(s, m) => SpentBy(s, m)'
        /\ \A s \in Relays : relay'[s].pc = "idle" => relay'[s] \in {relay[s], Idle}
    BY <2>1, EndSpends
  <2>3. ASSUME NEW m \in Messages, Spent(m) PROVE Spent(m)'
    <3>1. CASE Holds(r, m)
      <4>1. SpentBy(r, m)
        BY <1>a, <2>3, <3>1, HolderDecides
      <4>2. row'[m] = relay[r].work[m] /\ row'[m] # None /\ row'[m].status # "PENDING"
        BY <2>1, <3>1, <4>1 DEF SpentBy, Holds
      <4> QED BY <4>2 DEF Spent
    <3>2. CASE ~Holds(r, m)
      <4>1. row'[m] = row[m] /\ ~SpentBy(r, m)
        BY <2>1, <3>2 DEF SpentBy
      <4> QED BY <2>2, <2>3, <4>1 DEF Spent
    <3> QED BY <3>1, <3>2
  <2> QED BY <1>a, <1>c, <2>1, <2>2, <2>3, NothingOwed
<1>8. ASSUME NEW r \in Relays, LosesConnection(r)
      PROVE  IdleLetsGo' /\ \A m \in Messages : Covered(m)'
  <2>1. \A s \in Relays : relay'[s].pc = "idle" => relay'[s] = relay[s]
    BY <1>8, <1>a, LostFacts DEF LosesConnection
  <2> QED BY <1>8, <1>a, <1>c, <2>1, LostIsPaidFor
<1>9. ASSUME NEW r \in Relays, Dies(r)
      PROVE  IdleLetsGo' /\ \A m \in Messages : Covered(m)'
  <2>1. relay' = [relay EXCEPT ![r] = Idle] /\ failures' = failures + 1
        /\ UNCHANGED <<late, received>>
    BY <1>9 DEF Dies, Fail
  <2>2. /\ \A m \in Messages : Strays(m)' \subseteq Strays(m)
        /\ \A s \in Relays : relay'[s].pc = "idle" => relay'[s] \in {relay[s], Idle}
    BY <2>1, EndSpends
  <2> QED BY <1>a, <1>c, <2>1, <2>2, PaidFor
<1>10. CASE UNCHANGED vars
  BY <1>10, <1>d DEF vars
<1> QED
  BY <1>1, <1>2, <1>3, <1>4, <1>5, <1>6, <1>7, <1>8, <1>9, <1>10 DEF Next, Handle

\* However many relays drain the outbox, a message reaches the target a second
\* time only because something failed, and never more often than once for each
\* failure.
THEOREM EachDuplicateIsPaidFor == Spec => []DuplicatesNeedFailures
<1>1. DuplicateInv => DuplicatesNeedFailures
  <2> SUFFICES ASSUME DuplicateInv, NEW m \in Messages
               PROVE  received[m] + late[m] <= 1 + failures
    BY DEF DuplicatesNeedFailures
  <2>1. received[m] \in Nat /\ late[m] \in Nat /\ failures \in Nat
    BY DEF DuplicateInv, DeliveryInv, TypeInv, TypeOK
  <2>2. Cardinality(Strays(m)) \in Nat /\ Left(m) \in Nat
    BY LeftFacts, FS_CardinalityType DEF DuplicateInv, Covered
  <2> QED BY <2>1, <2>2 DEF DuplicateInv, Covered
<1> QED BY <1>1, DuplicateInit, DuplicateStep, PTL DEF Spec
=============================================================================
