------------------------------ MODULE Ingestion ------------------------------
(***************************************************************************)
(* POST /events: the idempotency ledger (IdempotencyService) driven by     *)
(* EventsService.  Every HTTP request is a process that runs the handler   *)
(* statement by statement; between two statements (two awaits) any other   *)
(* request, the lease clock, the queue, the retention sweep and a crash of *)
(* the process may run.  A statement of the database is one action: the    *)
(* INSERT ... ON CONFLICT, the SELECT, the conditional UPDATE, and the     *)
(* transaction that holds the ledger row FOR UPDATE.                       *)
(*                                                                         *)
(* A request is made by a client that sends it again when it got an error  *)
(* or an answer that says the event is still being processed.              *)
(***************************************************************************)
EXTENDS Naturals

CONSTANTS
    Requests,    \* HTTP clients, each with one event to hand in
    Keys,        \* idempotency keys that clients may send
    UsableKeys,  \* those that BullMQ accepts as the id of a job
    Hashes,      \* digests of the payloads
    TicketIds,   \* the supply of ticket ids
    NoRow,       \* no row of idempotency_keys
    NoHash,      \* a client that has not sent anything yet
    NoKey,
    NoTicket,    \* SQL null in ticket_id, and no job in the queue
    MaxFaults,   \* bound: crashes, failed statements and lost replies
    MaxPrunes    \* bound: ledger rows removed by the retention sweep

KeyStatus == {"PENDING", "COMPLETED", "FAILED"}

\* locked_at, as the reclaim's WHERE clause distinguishes its values.
Lease == {"null", "fresh", "expired"}

Row == [hash : Hashes, status : KeyStatus, lease : Lease,
        ticket : TicketIds \cup {NoTicket}]

Ticket == [id : TicketIds, key : UsableKeys, hash : Hashes]

Working == {"create", "enqueue", "markFailed", "markCompleted"}
Claiming == {"insert", "read", "reclaim"}
Answers == {"accepted", "replayed", "processing", "conflict", "rejected", "error"}

Request == [pc : {"idle"} \cup Claiming \cup Working \cup Answers,
            key : Keys \cup {NoKey}, hash : Hashes \cup {NoHash},
            ticket : TicketIds \cup {NoTicket}]

ASSUME IngestionAssumption ==
    /\ UsableKeys \subseteq Keys
    /\ NoRow \notin Row
    /\ NoTicket \notin TicketIds
    /\ NoKey \notin Keys
    /\ NoHash \notin Hashes
    /\ MaxFaults \in Nat
    /\ MaxPrunes \in Nat

VARIABLES
    ledger,    \* idempotency_keys: the row of each key, or NoRow
    tickets,   \* tickets, each with the key and the payload it was made from
    jobs,      \* BullMQ: the ticket of the job whose id is the key
    enqueued,  \* history: tickets for which a job was really stored
    retired,   \* history: tickets whose ledger row the retention sweep removed
    req,       \* the requests' control state and local variables
    faults,
    prunes

vars == <<ledger, tickets, jobs, enqueued, retired, req, faults, prunes>>
store == <<ledger, tickets, jobs, enqueued, retired, prunes>>

Init ==
    /\ ledger = [k \in Keys |-> NoRow]
    /\ tickets = {}
    /\ jobs = [k \in Keys |-> NoTicket]
    /\ enqueued = {}
    /\ retired = {}
    /\ req = [r \in Requests |-> [pc |-> "idle", key |-> NoKey, hash |-> NoHash,
                                  ticket |-> NoTicket]]
    /\ faults = 0
    /\ prunes = 0

-----------------------------------------------------------------------------

Goto(r, next) == req' = [req EXCEPT ![r].pc = next]

Answer(r, answer, t) == req' = [req EXCEPT ![r].pc = answer, ![r].ticket = t]

\* One more of the failures that MaxFaults allows.
Fault == faults < MaxFaults /\ faults' = faults + 1

\* A statement inside processNew's try block: it returns, or it took effect and
\* its reply was lost, which the caller sees as an exception.
Returns(r, next, t) ==
    \/ Answer(r, next, t) /\ UNCHANGED faults
    \/ Answer(r, "markFailed", t) /\ Fault

-----------------------------------------------------------------------------
(* What the statements test in a ledger row and what they write to it.  A    *)
(* Bug_ operator is a plausible slip in the definition that follows it.      *)

NewRow(h) == [hash |-> h, status |-> "PENDING", lease |-> "fresh", ticket |-> NoTicket]

Bug_IgnoresPayload(row, h) == TRUE

SamePayload(row, h) == row.hash = h

Bug_ReplaysFailed(row) == row.status # "PENDING"

Replayable(row) == row.status = "COMPLETED"

Bug_OnlyFailed(row) == row # NoRow /\ row.status = "FAILED"

Reclaimable(row) ==
    /\ row # NoRow
    /\ \/ row.status = "FAILED"
       \/ row.status = "PENDING" /\ row.lease \in {"null", "expired"}

Bug_NoSuchStatus(row) == [row EXCEPT !.status = "IN_FLIGHT", !.lease = "fresh"]

ReclaimedRow(row) == [row EXCEPT !.status = "PENDING", !.lease = "fresh"]

Bug_NeverAttached(row) == FALSE

HasTicket(row) == row.ticket # NoTicket

Bug_Detaches(row) == [row EXCEPT !.status = "FAILED", !.lease = "null", !.ticket = NoTicket]

FailedRow(row) == [row EXCEPT !.status = "FAILED", !.lease = "null"]

CompletedRow(row, t) ==
    [row EXCEPT !.status = "COMPLETED", !.lease = "null", !.ticket = t]

\* An UPDATE ... WHERE idempotency_key = k: it affects the row if there is one.
UpdateLedger(k, row) ==
    ledger' = IF ledger[k] = NoRow THEN ledger ELSE [ledger EXCEPT ![k] = row]

-----------------------------------------------------------------------------

\* ingest: derive key and hash; a key BullMQ would refuse as a job id is
\* answered 400 before anything is written.
Ingest(r, k, h) ==
    /\ req[r].pc = "idle"
    /\ req' = [req EXCEPT ![r] = [pc |-> IF k \in UsableKeys THEN "insert" ELSE "rejected",
                                  key |-> k, hash |-> h, ticket |-> NoTicket]]
    /\ UNCHANGED <<store, faults>>

\* claim, step 1: INSERT ... ON CONFLICT DO NOTHING RETURNING id.
ClaimInsert(r) ==
    LET k == req[r].key IN
    /\ req[r].pc = "insert"
    /\ \/ /\ ledger[k] = NoRow
          /\ ledger' = [ledger EXCEPT ![k] = NewRow(req[r].hash)]
          /\ Goto(r, "create")
       \/ /\ ledger[k] # NoRow
          /\ Goto(r, "read")
          /\ UNCHANGED ledger
    /\ UNCHANGED <<tickets, jobs, enqueued, retired, faults, prunes>>

\* claim, step 2: findOneByOrFail, and what the row says: the row may be gone,
\* the payload may differ, the key may be done.  Otherwise keep the ticket that
\* was read for a possible IN_FLIGHT answer and try to reclaim.
ClaimRead(r) ==
    LET row == ledger[req[r].key] IN
    /\ req[r].pc = "read"
    /\ \/ row = NoRow /\ Goto(r, "error")
       \/ row # NoRow /\ ~SamePayload(row, req[r].hash) /\ Goto(r, "conflict")
       \/ /\ row # NoRow /\ SamePayload(row, req[r].hash)
          /\ IF Replayable(row)
             THEN Answer(r, "replayed", row.ticket)
             ELSE Answer(r, "reclaim", row.ticket)
    /\ UNCHANGED <<store, faults>>

\* claim, step 3: the conditional UPDATE, judged on its affected count.
ClaimReclaim(r) ==
    LET k == req[r].key IN
    /\ req[r].pc = "reclaim"
    /\ \/ /\ Reclaimable(ledger[k])
          /\ ledger' = [ledger EXCEPT ![k] = ReclaimedRow(ledger[k])]
          /\ Answer(r, "create", NoTicket)
       \/ /\ ~Reclaimable(ledger[k])
          /\ Goto(r, "processing")
          /\ UNCHANGED ledger
    /\ UNCHANGED <<tickets, jobs, enqueued, retired, faults, prunes>>

\* createTicketIfAbsent: one transaction under the ledger row's lock.  A row
\* that is gone throws; an attached ticket is used again; otherwise the event
\* and the ticket are inserted and attached.
CreateTicketIfAbsent(r) ==
    LET k == req[r].key IN
    /\ req[r].pc = "create"
    /\ \/ /\ ledger[k] = NoRow
          /\ Goto(r, "markFailed")
          /\ UNCHANGED <<ledger, tickets, faults>>
       \/ /\ ledger[k] # NoRow
          /\ HasTicket(ledger[k])
          /\ Returns(r, "enqueue", ledger[k].ticket)
          /\ UNCHANGED <<ledger, tickets>>
       \/ /\ ledger[k] # NoRow
          /\ ~HasTicket(ledger[k])
          /\ \E id \in TicketIds \ {t.id : t \in tickets} :
                /\ tickets' = tickets \cup {[id |-> id, key |-> k, hash |-> req[r].hash]}
                /\ ledger' = [ledger EXCEPT ![k].ticket = id]
                /\ Returns(r, "enqueue", id)
    /\ UNCHANGED <<jobs, enqueued, retired, prunes>>

\* PipelineProducer.enqueue with jobId = key: BullMQ ignores the add when it
\* still holds a job of that id, whatever the job's state.
Enqueue(r) ==
    LET k == req[r].key IN
    /\ req[r].pc = "enqueue"
    /\ IF jobs[k] = NoTicket
       THEN /\ jobs' = [jobs EXCEPT ![k] = req[r].ticket]
            /\ enqueued' = enqueued \cup {req[r].ticket}
       ELSE UNCHANGED <<jobs, enqueued>>
    /\ Returns(r, "markCompleted", req[r].ticket)
    /\ UNCHANGED <<ledger, tickets, retired, prunes>>

Bug_SwallowsError(r) ==
    /\ req[r].pc = "enqueue"
    /\ Fault
    /\ Goto(r, "markCompleted")
    /\ UNCHANGED store

\* A statement of the try block fails without taking effect.
TryFails(r) ==
    /\ req[r].pc \in {"create", "enqueue"}
    /\ Fault
    /\ Goto(r, "markFailed")
    /\ UNCHANGED store

\* The catch block: markFailed updates the row by key alone, then rethrows.
MarkFailed(r) ==
    LET k == req[r].key IN
    /\ req[r].pc = "markFailed"
    /\ UpdateLedger(k, FailedRow(ledger[k]))
    /\ Goto(r, "error")
    /\ UNCHANGED <<tickets, jobs, enqueued, retired, faults, prunes>>

\* markCompleted updates the row by key alone and stores the answer to replay.
MarkCompleted(r) ==
    LET k == req[r].key IN
    /\ req[r].pc = "markCompleted"
    /\ UpdateLedger(k, CompletedRow(ledger[k], req[r].ticket))
    /\ Goto(r, "accepted")
    /\ UNCHANGED <<tickets, jobs, enqueued, retired, faults, prunes>>

-----------------------------------------------------------------------------

\* The process dies, or a statement outside the try block fails: nothing more
\* is written for this request and its client sees an error.
Crash(r) ==
    /\ req[r].pc \in Claiming \cup Working
    /\ Fault
    /\ Goto(r, "error")
    /\ UNCHANGED store

\* At-least-once client: the same event is sent again.
Retry(r) ==
    /\ req[r].pc \in {"error", "processing"}
    /\ Answer(r, "insert", NoTicket)
    /\ UNCHANGED <<store, faults>>

\* IDEMPOTENCY_LEASE_MS has passed since locked_at, whether or not the holder
\* of the lease is still at work.
LeaseExpires(k) ==
    /\ ledger[k] # NoRow
    /\ ledger[k].lease = "fresh"
    /\ ledger' = [ledger EXCEPT ![k].lease = "expired"]
    /\ UNCHANGED <<tickets, jobs, enqueued, retired, req, faults, prunes>>

\* BullMQ drops a finished job (removeOnComplete, removeOnFail).
JobRemoved(k) ==
    /\ jobs[k] # NoTicket
    /\ jobs' = [jobs EXCEPT ![k] = NoTicket]
    /\ UNCHANGED <<ledger, tickets, enqueued, retired, req, faults, prunes>>

\* RetentionSweeper deletes an old COMPLETED row.  Jobs are kept a day at most
\* and rows a week, so the job of the key is gone by then.
Prune(k) ==
    /\ prunes < MaxPrunes
    /\ ledger[k] # NoRow
    /\ ledger[k].status = "COMPLETED"
    /\ jobs[k] = NoTicket
    /\ ledger' = [ledger EXCEPT ![k] = NoRow]
    /\ retired' = retired \cup {t.id : t \in {u \in tickets : u.key = k}}
    /\ prunes' = prunes + 1
    /\ UNCHANGED <<tickets, jobs, enqueued, req, faults>>

Handle(r) ==
    \/ ClaimInsert(r) \/ ClaimRead(r) \/ ClaimReclaim(r)
    \/ CreateTicketIfAbsent(r) \/ Enqueue(r)
    \/ MarkFailed(r) \/ MarkCompleted(r)

Next ==
    \/ \E r \in Requests :
          \/ \E k \in Keys, h \in Hashes : Ingest(r, k, h)
          \/ ClaimInsert(r) \/ ClaimRead(r) \/ ClaimReclaim(r)
          \/ CreateTicketIfAbsent(r) \/ Enqueue(r) \/ TryFails(r)
          \/ MarkFailed(r) \/ MarkCompleted(r)
          \/ Crash(r) \/ Retry(r)
    \/ \E k \in Keys : LeaseExpires(k) \/ JobRemoved(k) \/ Prune(k)

Spec == Init /\ [][Next]_vars

\* Node runs the handler's continuations, the lease clock advances, and the
\* upstream resends.  Nothing obliges faults, queue cleaning or pruning.
Fairness ==
    /\ \A r \in Requests : WF_vars(Handle(r)) /\ WF_vars(Retry(r))
    /\ \A k \in Keys : WF_vars(LeaseExpires(k))

FairSpec == Spec /\ Fairness

-----------------------------------------------------------------------------

TypeOK ==
    /\ ledger \in [Keys -> Row \cup {NoRow}]
    /\ tickets \subseteq Ticket
    /\ jobs \in [Keys -> TicketIds \cup {NoTicket}]
    /\ enqueued \subseteq TicketIds
    /\ retired \subseteq TicketIds
    /\ req \in [Requests -> Request]
    /\ faults \in 0 .. MaxFaults
    /\ prunes \in 0 .. MaxPrunes

\* However many requests, reclaims, crashes and lost replies a key sees, it has
\* one ticket for as long as its ledger row lives (createTicketIfAbsent: "the
\* second run sees the already-attached ticket and reuses it").
OneTicketPerKey ==
    \A t, u \in tickets :
        t.key = u.key /\ t.id \notin retired /\ u.id \notin retired => t = u

\* A key that is COMPLETED, hence replayed to its clients, has a ticket made for
\* it whose job reached the queue, whoever of several drivers finished first
\* (processNew: "a replay always returns a result that is fully wired up").
ReplayIsWired ==
    \A k \in Keys :
        ledger[k] # NoRow /\ ledger[k].status = "COMPLETED" =>
            /\ ledger[k].ticket \in enqueued
            /\ \E t \in tickets : t.id = ledger[k].ticket /\ t.key = k

Served(r) == req[r].pc \in {"accepted", "replayed", "processing"}

\* Clients of one key that are given a ticket are given the same ticket, be it
\* as the accepting, the replayed or the still-processing answer, and it was
\* made from the payload each of them sent.
SameAnswer ==
    \A r \in Requests :
        Served(r) /\ req[r].ticket # NoTicket =>
            /\ \E t \in tickets : t = [id |-> req[r].ticket, key |-> req[r].key,
                                       hash |-> req[r].hash]
            /\ \A s \in Requests :
                  Served(s) /\ req[s].ticket # NoTicket /\ req[s].key = req[r].key
                     => req[s].ticket = req[r].ticket

\* The ticket of a ledger row is never exchanged or taken off while the row
\* lives: late writers of markCompleted and markFailed repeat what is there.
AttachedForGood ==
    [][\A k \in Keys :
          /\ ledger[k] # NoRow /\ ledger'[k] # NoRow
          /\ ledger[k].ticket # NoTicket
          => ledger'[k].ticket = ledger[k].ticket]_vars

\* Does not hold (README, section 5): ARCHITECTURE.md draws COMPLETED as
\* terminal, so that only the retention sweep ends it.
CompletedIsTerminal ==
    [][\A k \in Keys :
          /\ ledger[k] # NoRow /\ ledger'[k] # NoRow
          /\ ledger[k].status = "COMPLETED"
          => ledger'[k].status = "COMPLETED"]_vars

\* A client that keeps sending is told in the end: no crash, failed statement
\* or abandoned lease keeps a key closed for ever.
EventuallyAnswered ==
    \A r \in Requests :
        req[r].pc = "insert" ~> req[r].pc \in {"accepted", "replayed", "conflict"}

\* When clients keep sending, a key with a ledger row ends up COMPLETED and
\* stays so, until the retention sweep removes the row.
EventuallyCompleted ==
    \A k \in Keys :
        ledger[k] # NoRow ~> [](ledger[k] = NoRow \/ ledger[k].status = "COMPLETED")
=============================================================================
