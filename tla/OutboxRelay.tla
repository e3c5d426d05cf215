---------------------------- MODULE OutboxRelay ------------------------------
(***************************************************************************)
(* The outbox and the relays that drain it.  A drain is one transaction:   *)
(* it claims a batch with FOR UPDATE SKIP LOCKED, POSTs the rows one after *)
(* the other, writes what came of each, and commits everything together.   *)
(* Writes are kept in the relay's "work" until the commit; row locks last  *)
(* as long as the connection does, also when the relay does not know yet   *)
(* that it lost it and goes on dispatching.                                *)
(***************************************************************************)
EXTENDS Naturals, FiniteSets

CONSTANTS
    Messages,      \* side effects, by dedup key
    Relays,        \* one per instance of the process
    None,          \* no message, no row
    BatchSize,     \* OUTBOX_RELAY_BATCH_SIZE
    MaxAttempts,   \* OUTBOX_MAX_ATTEMPTS
    MaxFailures    \* bound: lost replies, refusals, lost connections, crashes

Row == [status : {"PENDING", "SENT", "FAILED"}, attempts : Nat, due : BOOLEAN]

ASSUME RelayAssumption ==
    /\ None \notin Messages
    /\ None \notin Row
    /\ BatchSize \in Nat \ {0}
    /\ MaxAttempts \in Nat \ {0}
    /\ MaxFailures \in Nat

VARIABLES
    row,       \* outbox_messages as committed, by dedup key
    relay,     \* the drain each relay is in
    late,      \* requests that were given up and may still reach the target
    received,  \* how often the target received each message
    failures   \* how many failures have happened

vars == <<row, relay, late, received, failures>>

Drain == [pc : {"idle", "next", "sent", "failed"}, rest : SUBSET Messages,
          current : Messages \cup {None}, work : [Messages -> Row \cup {None}],
          connected : BOOLEAN]

NoWork == [m \in Messages |-> None]

Idle == [pc |-> "idle", rest |-> {}, current |-> None, work |-> NoWork, connected |-> TRUE]

Init ==
    /\ row = [m \in Messages |-> None]
    /\ relay = [r \in Relays |-> Idle]
    /\ late = [m \in Messages |-> 0]
    /\ received = [m \in Messages |-> 0]
    /\ failures = 0

Fail ==
    /\ failures < MaxFailures
    /\ failures' = failures + 1

\* OutboxService.emit, with the commit of the transaction it is part of: a
\* second emit of the same dedup key changes nothing.
Emit(m) ==
    /\ row[m] = None
    /\ row' = [row EXCEPT ![m] = [status |-> "PENDING", attempts |-> 0, due |-> TRUE]]
    /\ UNCHANGED <<relay, late, received, failures>>

\* next_attempt_at has come.
BackoffEnds(m) ==
    /\ row[m] # None
    /\ row[m].status = "PENDING" /\ ~row[m].due
    /\ row' = [row EXCEPT ![m].due = TRUE]
    /\ UNCHANGED <<relay, late, received, failures>>

-----------------------------------------------------------------------------

Holds(r, m) == relay[r].work[m] # None /\ relay[r].connected

Bug_NotLocked(m) == FALSE

Locked(m) == \E r \in Relays : Holds(r, m)

Bug_ClaimsAbandoned ==
    {m \in Messages : row[m] # None /\ row[m].status # "SENT" /\ row[m].due /\ ~Locked(m)}

Claimable ==
    {m \in Messages : row[m] # None /\ row[m].status = "PENDING" /\ row[m].due /\ ~Locked(m)}

\* The SELECT of drainOnce; its order is that of the next attempts, any here.
\* A poll that finds nothing changes nothing.
Claim(r) ==
    /\ relay[r].pc = "idle"
    /\ \E batch \in SUBSET Claimable :
          /\ batch # {}
          /\ Cardinality(batch) <= BatchSize
          /\ Cardinality(batch) < BatchSize => batch = Claimable
          /\ relay' = [relay EXCEPT ![r] =
                [Idle EXCEPT !.pc = "next", !.rest = batch,
                             !.work = [m \in Messages |-> IF m \in batch THEN row[m] ELSE None]]]
    /\ UNCHANGED <<row, late, received, failures>>

\* On to the next row of the batch, its answer being the given one.
Answered(r, m, pc) ==
    relay' = [relay EXCEPT ![r].pc = pc, ![r].current = m, ![r].rest = @ \ {m}]

\* dispatch: the target took the message and its 2xx arrived.
Delivered(r, m) ==
    /\ relay[r].pc = "next" /\ m \in relay[r].rest
    /\ received' = [received EXCEPT ![m] = @ + 1]
    /\ Answered(r, m, "sent")
    /\ UNCHANGED <<row, late, failures>>

\* It took the message, but answered with an error or the answer was lost.
AnswerLost(r, m) ==
    /\ relay[r].pc = "next" /\ m \in relay[r].rest
    /\ Fail
    /\ received' = [received EXCEPT ![m] = @ + 1]
    /\ Answered(r, m, "failed")
    /\ UNCHANGED <<row, late>>

\* It did not take the message.
Refused(r, m) ==
    /\ relay[r].pc = "next" /\ m \in relay[r].rest
    /\ Fail
    /\ Answered(r, m, "failed")
    /\ UNCHANGED <<row, late, received>>

\* WEBHOOK_TIMEOUT_MS passed: the request is aborted but still on its way.
TimedOut(r, m) ==
    /\ relay[r].pc = "next" /\ m \in relay[r].rest
    /\ Fail
    /\ late' = [late EXCEPT ![m] = @ + 1]
    /\ Answered(r, m, "failed")
    /\ UNCHANGED <<row, received>>

ArrivesLate(m) ==
    /\ late[m] > 0
    /\ late' = [late EXCEPT ![m] = @ - 1]
    /\ received' = [received EXCEPT ![m] = @ + 1]
    /\ UNCHANGED <<row, relay, failures>>

Bug_StaysDraining == [Idle EXCEPT !.pc = "stuck"]

\* The finally blocks: release the connection, clear "draining", tick again.
GivenUp == Idle

\* A statement of the transaction: without the connection it throws, out of the
\* loop and of drainOnce, and nothing of the batch is written.
Statement(r, after) ==
    /\ relay' = [relay EXCEPT ![r] = IF relay[r].connected THEN after ELSE GivenUp]
    /\ UNCHANGED <<row, late, received, failures>>

MarkSent(r) ==
    /\ relay[r].pc = "sent"
    /\ Statement(r, [relay[r] EXCEPT !.pc = "next", !.current = None,
                                     !.work[relay[r].current].status = "SENT"])

Bug_RetriesOnceMore(attempts) == attempts > MaxAttempts

Exhausted(attempts) == attempts >= MaxAttempts

\* What handleDispatchFailure writes: the row is given up or put off.
Rescheduled(old, attempts) ==
    IF Exhausted(attempts)
    THEN [old EXCEPT !.status = "FAILED", !.attempts = attempts]
    ELSE [old EXCEPT !.due = FALSE, !.attempts = attempts]

MarkFailure(r) ==
    LET m == relay[r].current
        old == relay[r].work[m]
    IN
    /\ relay[r].pc = "failed"
    /\ Statement(r, [relay[r] EXCEPT !.pc = "next", !.current = None,
                                     !.work[m] = Rescheduled(old, old.attempts + 1)])

\* The end of the batch.  (That the reply to a commit is lost changes nothing.)
Commit(r) ==
    /\ relay[r].pc = "next" /\ relay[r].rest = {}
    /\ row' = [m \in Messages |-> IF Holds(r, m) THEN relay[r].work[m] ELSE row[m]]
    /\ relay' = [relay EXCEPT ![r] = Idle]
    /\ UNCHANGED <<late, received, failures>>

\* Postgres drops the transaction and its locks; also how a failed statement,
\* which aborts the transaction, ends.
LosesConnection(r) ==
    /\ relay[r].pc # "idle" /\ relay[r].connected
    /\ Fail
    /\ relay' = [relay EXCEPT ![r].connected = FALSE]
    /\ UNCHANGED <<row, late, received>>

\* The process dies and is started again.
Dies(r) ==
    /\ relay[r].pc # "idle"
    /\ Fail
    /\ relay' = [relay EXCEPT ![r] = Idle]
    /\ UNCHANGED <<row, late, received>>

Drains(r) ==
    \/ Claim(r) \/ (\E m \in Messages : Delivered(r, m))
    \/ MarkSent(r) \/ MarkFailure(r) \/ Commit(r)

\* What happens to the rows once they are in the outbox.
Handle ==
    \/ \E m \in Messages : BackoffEnds(m) \/ ArrivesLate(m)
    \/ \E r \in Relays :
          \/ Claim(r)
          \/ \E m \in Messages :
                Delivered(r, m) \/ AnswerLost(r, m) \/ Refused(r, m) \/ TimedOut(r, m)
          \/ MarkSent(r) \/ MarkFailure(r) \/ Commit(r)
          \/ LosesConnection(r) \/ Dies(r)

Next == (\E m \in Messages : Emit(m)) \/ Handle

Spec == Init /\ [][Next]_vars

\* The timer of every relay goes on ticking and time passes.
Fairness ==
    /\ \A r \in Relays : WF_vars(Drains(r))
    /\ \A m \in Messages : WF_vars(BackoffEnds(m))

FairSpec == Spec /\ Fairness

-----------------------------------------------------------------------------

TypeOK ==
    /\ row \in [Messages -> Row \cup {None}]
    /\ relay \in [Relays -> Drain]
    /\ late \in [Messages -> Nat]
    /\ received \in [Messages -> Nat]
    /\ failures \in 0 .. MaxFailures

\* "FOR UPDATE SKIP LOCKED ... no double-dispatch from contention": however many
\* relays drain at once, a message is received again only because something
\* failed, and each failure costs each message one more delivery at most.
DuplicatesNeedFailures == \A m \in Messages : received[m] + late[m] <= 1 + failures

\* A side effect is abandoned only after OUTBOX_MAX_ATTEMPTS dispatches of it
\* really failed, and never tried again after that: batches that roll back
\* neither lose a count nor add one.
Counted(r, n) ==
    /\ r.status = "FAILED" => r.attempts = MaxAttempts
    /\ r.status # "FAILED" => r.attempts < MaxAttempts
    /\ r.attempts <= n

GivesUpInTime == \A m \in Messages : row[m] # None => Counted(row[m], failures)

\* What a row says about its message.
Decision(r) ==
    IF r = None THEN "none"
    ELSE IF r.status = "PENDING" THEN "promised"
    ELSE IF r.status = "SENT" THEN "confirmed"
    ELSE "abandoned"

\* The promise of the outbox, kept by relays that crash, lose their
\* connection and dispatch each other's rows: SENT means received, and what was
\* decided of a message is never written over by a relay that read it before.
Delivery == INSTANCE Delivery WITH
    state <- [m \in Messages |-> Decision(row[m])],
    received <- {m \in Messages : received[m] > 0}

ImplementsDelivery == Delivery!Spec

\* Every side effect that was committed is confirmed or given up in the end.
EventuallyDecided == Delivery!EventuallyDecided
=============================================================================
