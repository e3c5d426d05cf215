----------------------------- MODULE Retention -----------------------------
(***************************************************************************)
(* RetentionSweeper.sweep over the five tables, statement by statement in  *)
(* one READ COMMITTED transaction, against the parts that write the same   *)
(* tables meanwhile: ingestion, the workers, dead letters and their        *)
(* replay, the reconcile sweep and the relay.  Those are modelled in full  *)
(* in Ingestion, Pipeline and OutboxRelay; here an operation of theirs is  *)
(* the statements it runs and nothing of how it gets there.                *)
(*                                                                         *)
(* A row that the transaction has deleted is `doomed' until the commit:    *)
(* other sessions still read it, a write to it waits, and an abort brings  *)
(* it back.  The foreign keys are those of the InitialSchema migration.    *)
(***************************************************************************)
EXTENDS Naturals

CONSTANTS
    Keys,      \* idempotency keys, each of one client and one payload
    Tickets,   \* the supply of ticket ids; a ticket's event goes by its id
    Workers,
    DeadIds,   \* the supply of dead-letter ids
    None,      \* no row, SQL null, or nobody at work
    MaxFaults  \* bound: failed jobs, failed requests and aborted sweeps

ASSUME RetentionAssumption ==
    /\ None \notin Tickets
    /\ None \notin [status : {"PENDING", "COMPLETED", "FAILED"},
                    ticket : Tickets \cup {None}, old : BOOLEAN]
    /\ None \notin [status : {"PENDING", "DEGRADED", "ENRICHED"}, old : BOOLEAN]
    /\ None \notin [status : {"PENDING", "SENT", "FAILED"}, old : BOOLEAN]
    /\ None \notin [status : {"PENDING", "REPLAYED"}, ticket : Tickets, old : BOOLEAN]
    /\ None \notin [old : BOOLEAN]
    /\ None \notin [pc : {"enqueue", "revert"}, ticket : Tickets]
    /\ MaxFaults \in Nat

VARIABLES
    key,      \* idempotency_keys; old is created_at < cutoff
    event,    \* events, by the id of their ticket; old is received_at < cutoff
    ticket,   \* tickets; old is updated_at < cutoff
    outbox,   \* outbox_messages: the triaged row of a ticket
    dead,     \* dead_letters
    job,      \* BullMQ: the job whose id is the key, waiting or finished
    extra,    \* BullMQ: tickets with an upgrade, reconcile or replay job waiting
    run,      \* workers: the ticket and the status they loaded it with
    req,      \* ingestion of a key, between two statements
    replay,   \* POST /dlq/:id/replay of a dead letter, between two awaits
    sweep,    \* the transaction: its next statement and the rows it has deleted
    faults

vars == <<key, event, ticket, outbox, dead, job, extra, run, req, replay, sweep, faults>>
rest == <<job, extra, run, req, replay>>

KeyRow == [status : {"PENDING", "COMPLETED", "FAILED"}, ticket : Tickets \cup {None}, old : BOOLEAN]
EventRow == [old : BOOLEAN]
TicketRow == [status : {"PENDING", "DEGRADED", "ENRICHED"}, old : BOOLEAN]
OutboxRow == [status : {"PENDING", "SENT", "FAILED"}, old : BOOLEAN]
DeadRow == [status : {"PENDING", "REPLAYED"}, ticket : Tickets, old : BOOLEAN]

Statements == {"outbox", "dead", "keys", "tickets", "events"}

NoSweep == [pc |-> "idle", outbox |-> {}, dead |-> {}, keys |-> {}, tickets |-> {}, events |-> {}]

Init ==
    /\ key = [k \in Keys |-> None]
    /\ event = [t \in Tickets |-> None]
    /\ ticket = [t \in Tickets |-> None]
    /\ outbox = [t \in Tickets |-> None]
    /\ dead = [d \in DeadIds |-> None]
    /\ job = [k \in Keys |-> None]
    /\ extra = {}
    /\ run = [w \in Workers |-> None]
    /\ req = [k \in Keys |-> "idle"]
    /\ replay = [d \in DeadIds |-> None]
    /\ sweep = NoSweep
    /\ faults = 0

Fault == faults < MaxFaults /\ faults' = faults + 1

-----------------------------------------------------------------------------
(* Ingestion of a key: claim, createTicketIfAbsent, enqueue, markCompleted.  *)
(* A statement that would write a doomed row waits for the transaction.      *)

\* A new key, or one that FAILED or whose lease ran out, is taken on.  A
\* COMPLETED one is replayed, which writes nothing.
Claim(k) ==
    /\ req[k] = "idle"
    /\ k \notin sweep.keys
    /\ \/ /\ key[k] = None
          /\ key' = [key EXCEPT ![k] = [status |-> "PENDING", ticket |-> None, old |-> FALSE]]
       \/ /\ key[k] # None /\ key[k].status # "COMPLETED"
          /\ key' = [key EXCEPT ![k].status = "PENDING"]
    /\ req' = [req EXCEPT ![k] = "create"]
    /\ UNCHANGED <<event, ticket, outbox, dead, job, extra, run, replay, sweep, faults>>

\* An id that no row, job or run refers to any more stands for a new uuid.
Unused(t) ==
    /\ ticket[t] = None /\ event[t] = None /\ outbox[t] = None /\ t \notin extra
    /\ \A d \in DeadIds : dead[d] # None => dead[d].ticket # t
    /\ \A d \in DeadIds : replay[d] # None => replay[d].ticket # t
    /\ \A w \in Workers : run[w] # None => run[w].ticket # t
    /\ \A k \in Keys : job[k] # None => job[k].ticket # t

\* One transaction: reuse the attached ticket, or insert event and ticket and
\* attach it.
Create(k) ==
    /\ req[k] = "create"
    /\ \/ key[k].ticket # None /\ UNCHANGED <<key, event, ticket>>
       \/ /\ key[k].ticket = None
          /\ \E t \in Tickets :
                /\ Unused(t)
                /\ event' = [event EXCEPT ![t] = [old |-> FALSE]]
                /\ ticket' = [ticket EXCEPT ![t] = [status |-> "PENDING", old |-> FALSE]]
                /\ key' = [key EXCEPT ![k].ticket = t]
    /\ req' = [req EXCEPT ![k] = "enqueue"]
    /\ UNCHANGED <<outbox, dead, job, extra, run, replay, sweep, faults>>

\* jobId is the key: the add is ignored while BullMQ holds a job of that id.
Enqueue(k) ==
    /\ req[k] = "enqueue"
    /\ job' = IF job[k] = None
              THEN [job EXCEPT ![k] = [ticket |-> key[k].ticket, state |-> "waiting"]]
              ELSE job
    /\ req' = [req EXCEPT ![k] = "complete"]
    /\ UNCHANGED <<key, event, ticket, outbox, dead, extra, run, replay, sweep, faults>>

MarkCompleted(k) ==
    /\ req[k] = "complete"
    /\ key' = [key EXCEPT ![k].status = "COMPLETED"]
    /\ req' = [req EXCEPT ![k] = "idle"]
    /\ UNCHANGED <<event, ticket, outbox, dead, job, extra, run, replay, sweep, faults>>

\* The request fails (markFailed) or its process dies, after or before any of
\* its statements; the client may send the event again.
RequestFails(k) ==
    /\ req[k] # "idle"
    /\ Fault
    /\ \/ key' = [key EXCEPT ![k].status = "FAILED"]
       \/ UNCHANGED key
    /\ req' = [req EXCEPT ![k] = "idle"]
    /\ UNCHANGED <<event, ticket, outbox, dead, job, extra, run, replay, sweep>>

-----------------------------------------------------------------------------
(* The workers, the dead letters, the reconcile sweep and the relay. *)

DeadLetter(t) ==
    \E d \in DeadIds :
        /\ dead[d] = None /\ replay[d] = None
        /\ dead' = [dead EXCEPT ![d] = [status |-> "PENDING", ticket |-> t, old |-> FALSE]]

\* A job is taken by worker w: the key's own job or another one of a ticket.
Take(t) ==
    \/ /\ \E k \in Keys :
             /\ job[k] # None /\ job[k].ticket = t /\ job[k].state = "waiting"
             /\ job' = [job EXCEPT ![k].state = "finished"]
       /\ UNCHANGED extra
    \/ /\ t \in extra
       /\ extra' = extra \ {t}
       /\ UNCHANGED job

\* findByIdOrThrow: a job of a ticket that is gone fails until it is dead-lettered.
Load(w, t) ==
    /\ run[w] = None
    /\ Take(t)
    /\ \/ /\ ticket[t] # None
          /\ run' = [run EXCEPT ![w] = [ticket |-> t, prior |-> ticket[t].status]]
          /\ UNCHANGED dead
       \/ /\ ticket[t] = None
          /\ DeadLetter(t)
          /\ UNCHANGED run
    /\ UNCHANGED <<key, event, ticket, outbox, req, replay, sweep, faults>>

\* The UPDATE affects a row: the ticket is there, and a fallback never replaces
\* an AI result.
Affects(t, outcome) ==
    /\ ticket[t] # None
    /\ outcome = "ENRICHED" \/ ticket[t].status # "ENRICHED"

Bug_IgnoresAffected(t, prior, outcome) == prior = "PENDING"

Announces(t, prior, outcome) == Affects(t, outcome) /\ prior = "PENDING"

\* persistAndEmit and scheduleUpgrade of a run that ends with this outcome.  The
\* outbox row is inserted ON CONFLICT DO NOTHING.
Write(w, outcome) ==
    LET t == run[w].ticket IN
    /\ run[w] # None
    /\ t \notin sweep.tickets \cup sweep.outbox
    /\ ticket' = IF Affects(t, outcome)
                 THEN [ticket EXCEPT ![t] = [status |-> outcome, old |-> FALSE]]
                 ELSE ticket
    /\ outbox' = IF Announces(t, run[w].prior, outcome) /\ outbox[t] = None
                 THEN [outbox EXCEPT ![t] = [status |-> "PENDING", old |-> FALSE]]
                 ELSE outbox
    /\ extra' = IF outcome = "DEGRADED" THEN extra \cup {t} ELSE extra
    /\ run' = [run EXCEPT ![w] = None]
    /\ UNCHANGED <<key, event, dead, job, req, replay, sweep, faults>>

\* The run throws for the last time.
RunFails(w) ==
    /\ run[w] # None
    /\ Fault
    /\ DeadLetter(run[w].ticket)
    /\ run' = [run EXCEPT ![w] = None]
    /\ UNCHANGED <<key, event, ticket, outbox, job, extra, req, replay, sweep>>

\* DlqService.replay: the conditional UPDATE, which returns the payload, ...
Flip(d) ==
    /\ dead[d] # None /\ dead[d].status = "PENDING" /\ replay[d] = None
    /\ dead' = [dead EXCEPT ![d].status = "REPLAYED"]
    /\ replay' = [replay EXCEPT ![d] = [pc |-> "enqueue", ticket |-> dead[d].ticket]]
    /\ UNCHANGED <<key, event, ticket, outbox, job, extra, run, req, sweep, faults>>

\* ... the add, which may throw before or after it took effect, ...
EnqueueReplay(d) ==
    /\ replay[d] # None /\ replay[d].pc = "enqueue"
    /\ \/ /\ extra' = extra \cup {replay[d].ticket}
          /\ replay' = [replay EXCEPT ![d] = None]
          /\ UNCHANGED faults
       \/ /\ extra' \in {extra, extra \cup {replay[d].ticket}}
          /\ replay' = [replay EXCEPT ![d].pc = "revert"]
          /\ Fault
    /\ UNCHANGED <<key, event, ticket, outbox, dead, job, run, req, sweep>>

\* ... and in the catch block the UPDATE by id that undoes the flip.
Revert(d) ==
    /\ replay[d] # None /\ replay[d].pc = "revert"
    /\ d \notin sweep.dead
    /\ dead' = IF dead[d] = None THEN dead ELSE [dead EXCEPT ![d].status = "PENDING"]
    /\ replay' = [replay EXCEPT ![d] = None]
    /\ UNCHANGED <<key, event, ticket, outbox, job, extra, run, req, sweep, faults>>

\* ReconcileSweeper: a DEGRADED ticket is started again.
Reconcile(t) ==
    /\ ticket[t] # None /\ ticket[t].status = "DEGRADED" /\ t \notin extra
    /\ extra' = extra \cup {t}
    /\ UNCHANGED <<key, event, ticket, outbox, dead, job, run, req, replay, sweep, faults>>

DispatchResults == {"SENT", "FAILED"}

\* OutboxRelay: delivered, or given up after the last attempt.
Dispatch(t) ==
    /\ outbox[t] # None /\ outbox[t].status = "PENDING"
    /\ \E s \in DispatchResults : outbox' = [outbox EXCEPT ![t].status = s]
    /\ UNCHANGED <<key, event, ticket, dead, rest, sweep, faults>>

\* BullMQ drops a finished job.
JobRemoved(k) ==
    /\ job[k] # None /\ job[k].state = "finished"
    /\ job' = [job EXCEPT ![k] = None]
    /\ UNCHANGED <<key, event, ticket, outbox, dead, extra, run, req, replay, sweep, faults>>

-----------------------------------------------------------------------------
(* RETENTION_MAX_AGE_MS have passed since the row's timestamp.  A key is     *)
(* stamped before the event of its ticket, and that before everything else   *)
(* of the ticket.                                                            *)

KeyAges(k) ==
    /\ key[k] # None /\ ~key[k].old
    /\ key' = [key EXCEPT ![k].old = TRUE]
    /\ UNCHANGED <<event, ticket, outbox, dead, rest, sweep, faults>>

EventAges(t) ==
    /\ event[t] # None /\ ~event[t].old
    /\ \A k \in Keys : key[k] # None /\ key[k].ticket = t => key[k].old
    /\ event' = [event EXCEPT ![t].old = TRUE]
    /\ UNCHANGED <<key, ticket, outbox, dead, rest, sweep, faults>>

EventIsOld(t) == event[t] # None => event[t].old

TicketAges(t) ==
    /\ ticket[t] # None /\ ~ticket[t].old /\ EventIsOld(t)
    /\ ticket' = [ticket EXCEPT ![t].old = TRUE]
    /\ UNCHANGED <<key, event, outbox, dead, rest, sweep, faults>>

OutboxAges(t) ==
    /\ outbox[t] # None /\ ~outbox[t].old /\ EventIsOld(t)
    /\ outbox' = [outbox EXCEPT ![t].old = TRUE]
    /\ UNCHANGED <<key, event, ticket, dead, rest, sweep, faults>>

DeadAges(d) ==
    /\ dead[d] # None /\ ~dead[d].old /\ EventIsOld(dead[d].ticket)
    /\ dead' = [dead EXCEPT ![d].old = TRUE]
    /\ UNCHANGED <<key, event, ticket, outbox, rest, sweep, faults>>

-----------------------------------------------------------------------------
(* The transaction.  Each WHERE clause sees what is committed when its       *)
(* statement starts, and what the transaction itself has deleted is gone.    *)

Bug_AnyOldOutbox(t) == outbox[t] # None /\ outbox[t].old

OutboxExpired(t) == outbox[t] # None /\ outbox[t].old /\ outbox[t].status # "PENDING"

DeadExpired(d) == dead[d] # None /\ dead[d].old /\ dead[d].status = "REPLAYED"

Bug_KeepsKeys(k) == key[k] # None /\ key[k].old /\ key[k].status = "FAILED" /\ req[k] = "idle"

KeyExpired(k) == key[k] # None /\ key[k].old /\ key[k].status = "COMPLETED"

\* NOT EXISTS an idempotency row that points at the ticket.
Bug_IgnoresKeys(t) == TRUE

Unclaimed(t) == \A k \in Keys : key[k] # None /\ k \notin sweep.keys => key[k].ticket # t

TicketExpired(t) ==
    /\ ticket[t] # None /\ ticket[t].old /\ ticket[t].status = "ENRICHED"
    /\ Unclaimed(t)

Bug_EventByAge(t) == event[t] # None /\ event[t].old
Bug_SeesDeletedTickets(t) == event[t] # None /\ event[t].old /\ ticket[t] = None

\* NOT EXISTS a ticket of the event.
EventExpired(t) ==
    /\ event[t] # None /\ event[t].old
    /\ ticket[t] = None \/ t \in sweep.tickets

\* ON DELETE RESTRICT on tickets.event_id: the statement is refused.
Referenced(t) == ticket[t] # None /\ t \notin sweep.tickets

Begin ==
    /\ sweep.pc = "idle"
    /\ sweep' = [sweep EXCEPT !.pc = "outbox"]
    /\ UNCHANGED <<key, event, ticket, outbox, dead, rest, faults>>

DeleteOutbox ==
    /\ sweep.pc = "outbox"
    /\ sweep' = [sweep EXCEPT !.pc = "dead", !.outbox = {t \in Tickets : OutboxExpired(t)}]
    /\ UNCHANGED <<key, event, ticket, outbox, dead, rest, faults>>

DeleteDeadLetters ==
    /\ sweep.pc = "dead"
    /\ sweep' = [sweep EXCEPT !.pc = "keys", !.dead = {d \in DeadIds : DeadExpired(d)}]
    /\ UNCHANGED <<key, event, ticket, outbox, dead, rest, faults>>

DeleteKeys ==
    /\ sweep.pc = "keys"
    /\ sweep' = [sweep EXCEPT !.pc = "tickets", !.keys = {k \in Keys : KeyExpired(k)}]
    /\ UNCHANGED <<key, event, ticket, outbox, dead, rest, faults>>

DeleteTickets ==
    /\ sweep.pc = "tickets"
    /\ sweep' = [sweep EXCEPT !.pc = "events", !.tickets = {t \in Tickets : TicketExpired(t)}]
    /\ UNCHANGED <<key, event, ticket, outbox, dead, rest, faults>>

DeleteEvents ==
    LET doomed == {t \in Tickets : EventExpired(t)} IN
    /\ sweep.pc = "events"
    /\ sweep' = IF \E t \in doomed : Referenced(t)
                THEN [sweep EXCEPT !.pc = "refused"]
                ELSE [sweep EXCEPT !.pc = "commit", !.events = doomed]
    /\ UNCHANGED <<key, event, ticket, outbox, dead, rest, faults>>

\* What is left of a table, and ON DELETE SET NULL for the keys that remain.
Without(table, rows) == [x \in DOMAIN table |-> IF x \in rows THEN None ELSE table[x]]

Detached(row) ==
    IF row # None /\ row.ticket \in sweep.tickets THEN [row EXCEPT !.ticket = None] ELSE row

Commit ==
    /\ sweep.pc = "commit"
    /\ outbox' = Without(outbox, sweep.outbox)
    /\ dead' = Without(dead, sweep.dead)
    /\ key' = [k \in Keys |-> IF k \in sweep.keys THEN None ELSE Detached(key[k])]
    /\ ticket' = Without(ticket, sweep.tickets)
    /\ event' = Without(event, sweep.events)
    /\ sweep' = NoSweep
    /\ UNCHANGED <<rest, faults>>

\* A statement fails, or the process dies: Postgres rolls everything back.
Abort ==
    /\ sweep.pc \in Statements \cup {"commit"}
    /\ Fault
    /\ sweep' = NoSweep
    /\ UNCHANGED <<key, event, ticket, outbox, dead, rest>>

Sweep ==
    \/ Begin \/ DeleteOutbox \/ DeleteDeadLetters \/ DeleteKeys \/ DeleteTickets
    \/ DeleteEvents \/ Commit

-----------------------------------------------------------------------------

Next ==
    \/ \E k \in Keys :
          \/ Claim(k) \/ Create(k) \/ Enqueue(k) \/ MarkCompleted(k) \/ RequestFails(k)
          \/ JobRemoved(k) \/ KeyAges(k)
    \/ \E w \in Workers :
          \/ (\E t \in Tickets : Load(w, t))
          \/ (\E outcome \in {"ENRICHED", "DEGRADED"} : Write(w, outcome))
          \/ RunFails(w)
    \/ \E t \in Tickets :
          \/ Reconcile(t) \/ Dispatch(t) \/ EventAges(t) \/ TicketAges(t) \/ OutboxAges(t)
    \/ \E d \in DeadIds : Flip(d) \/ EnqueueReplay(d) \/ Revert(d) \/ DeadAges(d)
    \/ Begin \/ DeleteOutbox \/ DeleteDeadLetters \/ DeleteKeys \/ DeleteTickets
    \/ DeleteEvents \/ Commit \/ Abort

Spec == Init /\ [][Next]_vars

\* The interval timer of the sweep, time, and the relay's poll.
Fairness ==
    /\ WF_vars(Sweep)
    /\ \A k \in Keys : WF_vars(KeyAges(k))
    /\ \A t \in Tickets : WF_vars(EventAges(t)) /\ WF_vars(TicketAges(t))

FairSpec == Spec /\ Fairness

-----------------------------------------------------------------------------

TypeOK ==
    /\ key \in [Keys -> KeyRow \cup {None}]
    /\ event \in [Tickets -> EventRow \cup {None}]
    /\ ticket \in [Tickets -> TicketRow \cup {None}]
    /\ outbox \in [Tickets -> OutboxRow \cup {None}]
    /\ dead \in [DeadIds -> DeadRow \cup {None}]
    /\ job \in [Keys -> [ticket : Tickets, state : {"waiting", "finished"}] \cup {None}]
    /\ extra \subseteq Tickets
    /\ run \in [Workers -> [ticket : Tickets, prior : {"PENDING", "DEGRADED", "ENRICHED"}] \cup {None}]
    /\ req \in [Keys -> {"idle", "create", "enqueue", "complete"}]
    /\ replay \in [DeadIds -> [pc : {"enqueue", "revert"}, ticket : Tickets] \cup {None}]
    /\ sweep \in [pc : Statements \cup {"idle", "commit", "refused"}, outbox : SUBSET Tickets,
                  dead : SUBSET DeadIds, keys : SUBSET Keys, tickets : SUBSET Tickets,
                  events : SUBSET Tickets]
    /\ faults \in 0 .. MaxFaults

\* "A row is never orphaned mid-sweep and ON DELETE RESTRICT on tickets.event_id
\* never fires": whatever commits between the statements of the transaction, its
\* deletions are never refused, and no ticket is without its event and no key
\* without its ticket.
ReferencesHold ==
    /\ sweep.pc # "refused"
    /\ \A t \in Tickets : ticket[t] # None => event[t] # None
    /\ \A k \in Keys :
          key[k] # None /\ key[k].ticket # None => ticket[key[k].ticket] # None

\* ON DELETE SET NULL never takes effect either: a surviving key does not
\* "silently lose its ticket reference".
SurvivingKeyKeepsTicket ==
    [][\A k \in Keys :
          key[k] # None /\ key'[k] # None /\ key[k].ticket # None
              => key'[k].ticket = key[k].ticket]_vars

\* What the transaction removes is settled when it commits, not only when its
\* statement looked: no ticket, notification, dead letter or ingestion that is
\* live work disappears ("live work regardless of age").
LiveWorkSurvives ==
    [][/\ \A t \in Tickets :
            /\ ticket[t] # None /\ ticket[t].status # "ENRICHED" => ticket'[t] # None
            /\ outbox[t] # None /\ outbox[t].status = "PENDING" => outbox'[t] # None
       /\ \A d \in DeadIds :
            dead[d] # None /\ dead[d].status = "PENDING" => dead'[d] # None
       /\ \A k \in Keys :
            key[k] # None /\ (key[k].status # "COMPLETED" \/ req[k] # "idle")
                => key'[k] # None]_vars

\* A ticket is never removed without its event: "a partial prune that removed
\* tickets but not their events would leave the sweep's own join broken".
TicketTakesItsEvent ==
    [][\A t \in Tickets :
          ticket[t] # None /\ ticket'[t] = None => event'[t] = None]_vars

\* A run that loaded a ticket before it was pruned announces nothing of it
\* afterwards.
NoEffectOfAGoneTicket ==
    [][\A t \in Tickets :
          outbox[t] = None /\ outbox'[t] # None => ticket'[t] # None]_vars

\* The disk is bounded: once an event is enriched and its key completed, late
\* runs and replays only postpone the day its key, ticket and event are gone.
SettledLeavesNothing ==
    \A t \in Tickets :
        /\ ticket[t] # None /\ ticket[t].status = "ENRICHED"
        /\ \A k \in Keys : key[k] # None /\ key[k].ticket = t => key[k].status = "COMPLETED"
        ~> /\ ticket[t] = None /\ event[t] = None
           /\ \A k \in Keys : key[k] # None => key[k].ticket # t

\* Does not hold (README, section 5): "A PENDING one is an unresolved failure
\* somebody may still act on, at any age", and the sweep does not take the ticket
\* away that it would start again.
PendingDeadLetterKeepsTicket ==
    [][\A d \in DeadIds :
          /\ dead[d] # None /\ dead[d].status = "PENDING"
          /\ ticket[dead[d].ticket] # None
          => ticket'[dead[d].ticket] # None]_vars

\* Does not hold (README, section 5): "If the enqueue then throws, we revert to
\* PENDING so it can be retried", so a replay that failed leaves its dead letter.
FailedReplayIsKept ==
    [][\A d \in DeadIds :
          replay[d] # None /\ replay[d].pc = "revert" /\ replay'[d] = None
              => dead'[d] # None /\ dead'[d].status = "PENDING"]_vars

Accounted(t) ==
    \/ \E k \in Keys : job[k] # None /\ job[k].ticket = t /\ job[k].state = "waiting"
    \/ t \in extra
    \/ \E w \in Workers : run[w] # None /\ run[w].ticket = t
    \/ \E d \in DeadIds : dead[d] # None /\ dead[d].ticket = t /\ dead[d].status = "PENDING"
    \/ \E d \in DeadIds : replay[d] # None /\ replay[d].ticket = t

\* Does not hold (README, section 5): pruning a key "is only ever a storage
\* decision, never a correctness one", so an event that was accepted and answered
\* is triaged, being triaged or recorded.
AcceptedIsAccounted ==
    \A k \in Keys :
        /\ key[k] # None /\ key[k].status = "COMPLETED"
        /\ ticket[key[k].ticket] # None /\ ticket[key[k].ticket].status = "PENDING"
        => Accounted(key[k].ticket)
=============================================================================
