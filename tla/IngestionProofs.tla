--------------------------- MODULE IngestionProofs ---------------------------
(***************************************************************************)
(* What holds of Ingestion for any number of clients, keys, payloads,      *)
(* failures and (where it is not said otherwise) retention sweeps.         *)
(***************************************************************************)
EXTENDS Ingestion, TLAPS

PC == {"idle"} \cup Claiming \cup Working \cup Answers

\* Goto moves one request and keeps what it knows.
LEMMA GotoFacts ==
    ASSUME req \in [Requests -> Request], NEW r \in Requests, NEW next, Goto(r, next)
    PROVE  /\ next \in PC => req' \in [Requests -> Request]
           /\ req'[r].pc = next
           /\ req'[r].key = req[r].key
           /\ req'[r].hash = req[r].hash
           /\ req'[r].ticket = req[r].ticket
           /\ \A s \in Requests : s # r => req'[s] = req[s]
BY DEF Goto, Request, PC

\* Answer moves one request and gives it a ticket.
LEMMA AnswerFacts ==
    ASSUME req \in [Requests -> Request], NEW r \in Requests, NEW next, NEW t, Answer(r, next, t)
    PROVE  /\ next \in PC /\ t \in TicketIds \cup {NoTicket} => req' \in [Requests -> Request]
           /\ req'[r].pc = next
           /\ req'[r].key = req[r].key
           /\ req'[r].hash = req[r].hash
           /\ req'[r].ticket = t
           /\ \A s \in Requests : s # r => req'[s] = req[s]
BY DEF Answer, Request, PC

\* What a statement writes to a ledger row is a ledger row.
LEMMA RowTypes ==
    ASSUME NEW row \in Row, NEW t \in TicketIds \cup {NoTicket}
    PROVE  /\ ReclaimedRow(row) \in Row
           /\ FailedRow(row) \in Row
           /\ CompletedRow(row, t) \in Row
           /\ [row EXCEPT !.lease = "expired"] \in Row
           /\ [row EXCEPT !.ticket = t] \in Row
BY DEF Row, ReclaimedRow, FailedRow, CompletedRow, KeyStatus, Lease

LEMMA NewRowType == ASSUME NEW h \in Hashes PROVE NewRow(h) \in Row
BY DEF Row, NewRow, KeyStatus, Lease

\* A request past its first statement has a usable key and a payload.
InTheDoor ==
    \A r \in Requests :
        req[r].pc \in Claiming \cup Working \cup {"error", "processing"} =>
            req[r].key \in UsableKeys /\ req[r].hash \in Hashes

\* A request past createTicketIfAbsent knows its ticket.
HoldsTicket ==
    \A r \in Requests :
        req[r].pc \in {"enqueue", "markCompleted"} => req[r].ticket \in TicketIds

TypeInv == TypeOK /\ InTheDoor /\ HoldsTicket

LEMMA TypeInvInit == Init => TypeInv
BY IngestionAssumption DEF Init, TypeInv, TypeOK, InTheDoor, HoldsTicket, Request, Claiming, Working

LEMMA TypeInvNext == TypeInv /\ [Next]_vars => TypeInv'
<1> SUFFICES ASSUME TypeInv, [Next]_vars PROVE TypeInv'
    OBVIOUS
<1> USE IngestionAssumption DEF TypeInv
<1>0. /\ req \in [Requests -> Request]
      /\ ledger \in [Keys -> Row \cup {NoRow}]
      /\ faults \in 0 .. MaxFaults
      /\ MaxFaults \in Nat
    BY DEF TypeOK
<1>1. ASSUME NEW r \in Requests, NEW k \in Keys, NEW h \in Hashes, Ingest(r, k, h)
      PROVE  TypeInv'
    BY <1>1 DEF TypeOK, InTheDoor, HoldsTicket, Ingest, store, Request, Claiming, Working, Answers
<1>2. ASSUME NEW r \in Requests, ClaimInsert(r) PROVE TypeInv'
    <2>1. req[r].key \in UsableKeys /\ req[r].hash \in Hashes
        BY <1>2 DEF InTheDoor, ClaimInsert, Claiming
    <2>2. req' \in [Requests -> Request] /\ InTheDoor' /\ HoldsTicket'
        BY <1>0, <1>2, <2>1, GotoFacts
        DEF ClaimInsert, InTheDoor, HoldsTicket, PC, Claiming, Working
    <2>3. ledger' \in [Keys -> Row \cup {NoRow}]
        BY <1>0, <1>2, <2>1, NewRowType DEF ClaimInsert
    <2> QED BY <1>2, <2>2, <2>3 DEF TypeOK, ClaimInsert
<1>3. ASSUME NEW r \in Requests, ClaimRead(r) PROVE TypeInv'
    <2>1. req[r].key \in UsableKeys /\ req[r].hash \in Hashes
        BY <1>3 DEF InTheDoor, ClaimRead, Claiming
    <2>2. ledger[req[r].key] # NoRow => ledger[req[r].key].ticket \in TicketIds \cup {NoTicket}
        BY <1>0, <2>1 DEF Row
    <2>3. req' \in [Requests -> Request] /\ InTheDoor' /\ HoldsTicket'
        BY <1>0, <1>3, <2>1, <2>2, GotoFacts, AnswerFacts
        DEF ClaimRead, InTheDoor, HoldsTicket, PC, Claiming, Working, Answers
    <2> QED BY <1>3, <2>3 DEF TypeOK, ClaimRead, store
<1>4. ASSUME NEW r \in Requests, ClaimReclaim(r) PROVE TypeInv'
    <2>1. req[r].key \in UsableKeys /\ req[r].hash \in Hashes
        BY <1>4 DEF InTheDoor, ClaimReclaim, Claiming
    <2>2. req' \in [Requests -> Request] /\ InTheDoor' /\ HoldsTicket'
        BY <1>0, <1>4, <2>1, GotoFacts, AnswerFacts
        DEF ClaimReclaim, InTheDoor, HoldsTicket, PC, Claiming, Working, Answers
    <2>3. ledger' \in [Keys -> Row \cup {NoRow}]
        <3>1. CASE ledger[req[r].key] \in Row
            BY <1>0, <1>4, <2>1, <3>1, RowTypes DEF ClaimReclaim
        <3>2. CASE ledger[req[r].key] = NoRow
            BY <1>0, <1>4, <3>2 DEF ClaimReclaim, Reclaimable
        <3> QED BY <1>0, <2>1, <3>1, <3>2
    <2> QED BY <1>4, <2>2, <2>3 DEF TypeOK, ClaimReclaim
<1>5. ASSUME NEW r \in Requests, CreateTicketIfAbsent(r) PROVE TypeInv'
    <2>1. req[r].key \in UsableKeys /\ req[r].hash \in Hashes
        BY <1>5 DEF InTheDoor, CreateTicketIfAbsent, Working
    <2>2. ledger[req[r].key] # NoRow => ledger[req[r].key] \in Row
        BY <1>0, <2>1
    <2>3. CASE ledger[req[r].key] = NoRow
        BY <1>0, <1>5, <2>1, <2>3, GotoFacts
        DEF CreateTicketIfAbsent, InTheDoor, HoldsTicket, TypeOK, PC, Claiming, Working
    <2>4. CASE ledger[req[r].key] # NoRow /\ HasTicket(ledger[req[r].key])
        <3>1. ledger[req[r].key].ticket \in TicketIds
            BY <2>2, <2>4 DEF Row, HasTicket
        <3>2. Returns(r, "enqueue", ledger[req[r].key].ticket)
            BY <1>5, <2>4 DEF CreateTicketIfAbsent
        <3>3. req' \in [Requests -> Request] /\ InTheDoor' /\ HoldsTicket' /\ faults' \in 0 .. MaxFaults
            BY <1>0, <2>1, <3>1, <3>2, AnswerFacts
            DEF Returns, Fault, InTheDoor, HoldsTicket, PC, Claiming, Working
        <3> QED BY <1>5, <2>4, <3>3 DEF CreateTicketIfAbsent, TypeOK
    <2>5. CASE ledger[req[r].key] # NoRow /\ ~HasTicket(ledger[req[r].key])
        <3>1. PICK id \in TicketIds :
                /\ tickets' = tickets \cup
                        {[id |-> id, key |-> req[r].key, hash |-> req[r].hash]}
                /\ ledger' = [ledger EXCEPT ![req[r].key].ticket = id]
                /\ Returns(r, "enqueue", id)
            BY <1>5, <2>5 DEF CreateTicketIfAbsent
        <3>2. req' \in [Requests -> Request] /\ InTheDoor' /\ HoldsTicket' /\ faults' \in 0 .. MaxFaults
            BY <1>0, <2>1, <3>1, AnswerFacts
            DEF Returns, Fault, InTheDoor, HoldsTicket, PC, Claiming, Working
        <3>3. tickets' \subseteq Ticket
            BY <2>1, <3>1 DEF TypeOK, Ticket
        <3>4. ledger' \in [Keys -> Row \cup {NoRow}]
            BY <1>0, <2>1, <2>2, <2>5, <3>1, RowTypes
        <3> QED BY <1>5, <3>2, <3>3, <3>4 DEF CreateTicketIfAbsent, TypeOK
    <2> QED BY <2>3, <2>4, <2>5
<1>6. ASSUME NEW r \in Requests, Enqueue(r) PROVE TypeInv'
    <2>1. req[r].key \in UsableKeys /\ req[r].hash \in Hashes
        BY <1>6 DEF InTheDoor, Enqueue, Working
    <2>2. req[r].ticket \in TicketIds
        BY <1>6 DEF Enqueue, HoldsTicket
    <2>3. req' \in [Requests -> Request] /\ InTheDoor' /\ HoldsTicket' /\ faults' \in 0 .. MaxFaults
        BY <1>0, <1>6, <2>1, <2>2, AnswerFacts
        DEF Enqueue, Returns, Fault, InTheDoor, HoldsTicket, PC, Claiming, Working
    <2>4. jobs' \in [Keys -> TicketIds \cup {NoTicket}] /\ enqueued' \subseteq TicketIds
        BY <1>6, <2>2 DEF Enqueue, TypeOK
    <2> QED BY <1>6, <2>3, <2>4 DEF Enqueue, TypeOK
<1>7. ASSUME NEW r \in Requests, TryFails(r) \/ Crash(r) \/ Retry(r) PROVE TypeInv'
    BY <1>0, <1>7, GotoFacts, AnswerFacts
    DEF TryFails, Crash, Retry, Fault, store, InTheDoor, HoldsTicket, TypeOK, PC, Claiming, Working, Answers
<1>8. ASSUME NEW r \in Requests, MarkFailed(r) PROVE TypeInv'
    <2>1. req[r].key \in UsableKeys
        BY <1>8 DEF InTheDoor, MarkFailed, Working
    <2>2. ledger' \in [Keys -> Row \cup {NoRow}]
        BY <1>0, <1>8, <2>1, RowTypes DEF MarkFailed, UpdateLedger
    <2> QED BY <1>0, <1>8, <2>2, GotoFacts
            DEF MarkFailed, InTheDoor, HoldsTicket, TypeOK, PC, Claiming, Working, Answers
<1>9. ASSUME NEW r \in Requests, MarkCompleted(r) PROVE TypeInv'
    <2>1. req[r].key \in UsableKeys /\ req[r].ticket \in TicketIds \cup {NoTicket}
        BY <1>0, <1>9 DEF InTheDoor, MarkCompleted, Working, Request
    <2>2. ledger' \in [Keys -> Row \cup {NoRow}]
        BY <1>0, <1>9, <2>1, RowTypes DEF MarkCompleted, UpdateLedger
    <2> QED BY <1>0, <1>9, <2>2, GotoFacts
            DEF MarkCompleted, InTheDoor, HoldsTicket, TypeOK, PC, Claiming, Working, Answers
<1>10. ASSUME NEW k \in Keys, LeaseExpires(k) PROVE TypeInv'
    BY <1>0, <1>10, RowTypes DEF LeaseExpires, InTheDoor, HoldsTicket, TypeOK
<1>11. ASSUME NEW k \in Keys, JobRemoved(k) PROVE TypeInv'
    BY <1>11 DEF JobRemoved, InTheDoor, HoldsTicket, TypeOK
<1>12. ASSUME NEW k \in Keys, Prune(k) PROVE TypeInv'
    BY <1>0, <1>12 DEF Prune, InTheDoor, HoldsTicket, TypeOK, Ticket
<1>13. CASE UNCHANGED vars
    BY <1>13 DEF vars, InTheDoor, HoldsTicket, TypeOK
<1> QED BY <1>1, <1>2, <1>3, <1>4, <1>5, <1>6, <1>7, <1>8, <1>9, <1>10, <1>11, <1>12, <1>13 DEF Next

\* The state is always well formed (TypeOK), and no request gets past the door
\* with a key that BullMQ would refuse.
THEOREM TypeCorrect == Spec => []TypeOK
<1>1. Spec => []TypeInv
    BY TypeInvInit, TypeInvNext, PTL DEF Spec
<1> QED BY <1>1, PTL DEF TypeInv

-----------------------------------------------------------------------------
(* One ticket per key.  OneTicketPerKey is not inductive: it needs that a    *)
(* row without a ticket has no live ticket.                                  *)

Attached(k) == ledger[k] # NoRow /\ ledger[k].ticket # NoTicket

LiveTicketsAttached ==
    \A t \in tickets : t.id \notin retired => Attached(t.key)

OneInv == TypeInv /\ LiveTicketsAttached /\ OneTicketPerKey

\* A step that creates no ticket and takes none off a row keeps the invariant.
LEMMA AttachmentKept ==
    ASSUME TypeInv, LiveTicketsAttached, OneTicketPerKey,
           UNCHANGED <<tickets, retired>>,
           \A k \in Keys : Attached(k) => Attached(k)'
    PROVE  LiveTicketsAttached' /\ OneTicketPerKey'
BY IngestionAssumption
DEF LiveTicketsAttached, OneTicketPerKey, TypeInv, TypeOK, Ticket

LEMMA OneInvNext == OneInv /\ [Next]_vars => OneInv'
<1> SUFFICES ASSUME OneInv, [Next]_vars PROVE OneInv'
    OBVIOUS
<1>0. /\ TypeInv' /\ TypeInv /\ LiveTicketsAttached /\ OneTicketPerKey
      /\ ledger \in [Keys -> Row \cup {NoRow}]
      /\ req \in [Requests -> Request]
      /\ UsableKeys \subseteq Keys /\ NoRow \notin Row /\ NoTicket \notin TicketIds
    BY TypeInvNext, IngestionAssumption DEF OneInv, TypeInv, TypeOK
<1> SUFFICES LiveTicketsAttached' /\ OneTicketPerKey'
    BY <1>0 DEF OneInv
<1>1. ASSUME NEW r \in Requests,
             \/ \E k \in Keys, h \in Hashes : Ingest(r, k, h)
             \/ ClaimRead(r) \/ Enqueue(r) \/ TryFails(r) \/ Crash(r) \/ Retry(r)
      PROVE  LiveTicketsAttached' /\ OneTicketPerKey'
    <2>1. UNCHANGED <<tickets, retired, ledger>>
        BY <1>1 DEF Ingest, ClaimRead, Enqueue, TryFails, Crash, Retry, store
    <2> QED BY <1>0, <2>1, AttachmentKept DEF Attached
<1>2. ASSUME NEW r \in Requests,
             ClaimInsert(r) \/ ClaimReclaim(r) \/ MarkFailed(r) \/ MarkCompleted(r)
      PROVE  LiveTicketsAttached' /\ OneTicketPerKey'
    <2>1. UNCHANGED <<tickets, retired>>
        BY <1>2 DEF ClaimInsert, ClaimReclaim, MarkFailed, MarkCompleted
    <2>2. req[r].key \in Keys
        BY <1>0, <1>2
        DEF TypeInv, InTheDoor, ClaimInsert, ClaimReclaim, MarkFailed, MarkCompleted,
            Claiming, Working
    <2>3. CASE ClaimInsert(r)
        <3>1. \A k \in Keys : ledger[k] # NoRow => ledger'[k] = ledger[k]
            BY <1>0, <2>2, <2>3 DEF ClaimInsert
        <3> QED BY <1>0, <2>1, <3>1, AttachmentKept DEF Attached
    <2>4. ASSUME NEW row,
                 ledger[req[r].key] \in Row =>
                    /\ row \in Row
                    /\ row.ticket # NoTicket \/ row.ticket = ledger[req[r].key].ticket,
                 UpdateLedger(req[r].key, row)
          PROVE  \A k \in Keys : Attached(k) => Attached(k)'
        BY <1>0, <2>2, <2>4 DEF UpdateLedger, Attached
    <2>5. CASE ClaimReclaim(r)
        <3>1. UpdateLedger(req[r].key, ReclaimedRow(ledger[req[r].key])) \/ UNCHANGED ledger
            BY <2>5 DEF ClaimReclaim, UpdateLedger, Reclaimable
        <3>2. ledger[req[r].key] \in Row =>
                 /\ ReclaimedRow(ledger[req[r].key]) \in Row
                 /\ ReclaimedRow(ledger[req[r].key]).ticket = ledger[req[r].key].ticket
            BY RowTypes DEF ReclaimedRow, Row
        <3>3. \A k \in Keys : Attached(k) => Attached(k)'
            BY <2>4, <3>1, <3>2 DEF Attached
        <3> QED BY <1>0, <2>1, <3>3, AttachmentKept
    <2>6. CASE MarkFailed(r)
        <3>1. ledger[req[r].key] \in Row =>
                 /\ FailedRow(ledger[req[r].key]) \in Row
                 /\ FailedRow(ledger[req[r].key]).ticket = ledger[req[r].key].ticket
            BY RowTypes DEF FailedRow, Row
        <3>2. \A k \in Keys : Attached(k) => Attached(k)'
            BY <2>4, <2>6, <3>1 DEF MarkFailed
        <3> QED BY <1>0, <2>1, <3>2, AttachmentKept
    <2>7. CASE MarkCompleted(r)
        <3>1. req[r].ticket \in TicketIds
            BY <1>0, <2>7 DEF MarkCompleted, TypeInv, HoldsTicket
        <3>2. ledger[req[r].key] \in Row =>
                 /\ CompletedRow(ledger[req[r].key], req[r].ticket) \in Row
                 /\ CompletedRow(ledger[req[r].key], req[r].ticket).ticket # NoTicket
            BY <1>0, <3>1, RowTypes DEF CompletedRow, Row
        <3>3. \A k \in Keys : Attached(k) => Attached(k)'
            BY <2>4, <2>7, <3>2 DEF MarkCompleted
        <3> QED BY <1>0, <2>1, <3>3, AttachmentKept
    <2> QED BY <1>2, <2>3, <2>5, <2>6, <2>7
<1>3. ASSUME NEW r \in Requests, CreateTicketIfAbsent(r)
      PROVE  LiveTicketsAttached' /\ OneTicketPerKey'
    <2>1. UNCHANGED retired /\ req[r].key \in Keys
        BY <1>0, <1>3 DEF CreateTicketIfAbsent, TypeInv, InTheDoor, Working
    <2>2. CASE UNCHANGED <<ledger, tickets>>
        BY <1>0, <2>1, <2>2, AttachmentKept DEF Attached
    <2>3. CASE ~UNCHANGED <<ledger, tickets>>
        <3>1. PICK id \in TicketIds \ {t.id : t \in tickets} :
                /\ ledger[req[r].key] # NoRow /\ ~HasTicket(ledger[req[r].key])
                /\ tickets' = tickets \cup
                        {[id |-> id, key |-> req[r].key, hash |-> req[r].hash]}
                /\ ledger' = [ledger EXCEPT ![req[r].key].ticket = id]
            BY <1>3, <2>3 DEF CreateTicketIfAbsent
        <3>2. ledger[req[r].key] \in Row
            BY <1>0, <2>1, <3>1
        <3>3. /\ ~Attached(req[r].key)
              /\ \A k \in Keys : k = req[r].key => Attached(k)'
            BY <1>0, <2>1, <3>1, <3>2, RowTypes DEF Attached, HasTicket, Row
        <3>4. \A k \in Keys : Attached(k) => Attached(k)'
            BY <1>0, <2>1, <3>1, <3>3 DEF Attached
        <3>5. \A t \in tickets : t.key = req[r].key => t.id \in retired
            BY <1>0, <3>3 DEF LiveTicketsAttached
        <3>6. LiveTicketsAttached'
            BY <1>0, <2>1, <3>1, <3>3, <3>4
            DEF LiveTicketsAttached, TypeInv, TypeOK, Ticket
        <3>7. OneTicketPerKey'
            BY <1>0, <2>1, <3>1, <3>5 DEF OneTicketPerKey
        <3> QED BY <3>6, <3>7
    <2> QED BY <2>2, <2>3
<1>4. ASSUME NEW k \in Keys, LeaseExpires(k) PROVE LiveTicketsAttached' /\ OneTicketPerKey'
    <2>1. \A j \in Keys : Attached(j) => Attached(j)'
        BY <1>0, <1>4, RowTypes DEF LeaseExpires, Attached, Row
    <2> QED BY <1>0, <1>4, <2>1, AttachmentKept DEF LeaseExpires
<1>5. ASSUME NEW k \in Keys, JobRemoved(k) PROVE LiveTicketsAttached' /\ OneTicketPerKey'
    BY <1>0, <1>5, AttachmentKept DEF JobRemoved, Attached
<1>6. ASSUME NEW k \in Keys, Prune(k) PROVE LiveTicketsAttached' /\ OneTicketPerKey'
    BY <1>0, <1>6
    DEF Prune, Attached, LiveTicketsAttached, OneTicketPerKey, TypeInv, TypeOK, Ticket
<1>7. CASE UNCHANGED vars
    BY <1>0, <1>7, AttachmentKept DEF vars, Attached
<1> QED BY <1>1, <1>2, <1>3, <1>4, <1>5, <1>6, <1>7 DEF Next

\* Whatever fails, expires or is retried, and however often retention removes
\* ledger rows, the rows' locks and the attached ticket_id keep a key from
\* having a second ticket while its row lives.
THEOREM OneTicket == Spec => []OneTicketPerKey
<1>1. Init => OneInv
    BY TypeInvInit DEF Init, OneInv, LiveTicketsAttached, OneTicketPerKey
<1>2. Spec => []OneInv
    BY <1>1, OneInvNext, PTL DEF Spec
<1> QED BY <1>2, PTL DEF OneInv

-----------------------------------------------------------------------------
(* While the retention sweep removes no row, what a request was told, what   *)
(* the row says, what the queue got and what the ticket was made from agree. *)

InvolvedPC == {"reclaim", "create", "enqueue", "markCompleted",
               "accepted", "replayed", "processing"}

\* A request that has seen its row agrees with it.
KnowsRow ==
    \A r \in Requests :
        req[r].pc \in InvolvedPC =>
            /\ req[r].key \in Keys
            /\ ledger[req[r].key] # NoRow
            /\ ledger[req[r].key].hash = req[r].hash
            /\ req[r].pc # "create" /\ req[r].ticket # NoTicket
                  => ledger[req[r].key].ticket = req[r].ticket

\* Only processNew, after a successful enqueue, is about to complete the key.
EnqueuedFirst ==
    \A r \in Requests : req[r].pc = "markCompleted" => req[r].ticket \in enqueued

RowsWired ==
    \A k \in Keys : ledger[k] # NoRow =>
        /\ ledger[k].ticket # NoTicket =>
              [id |-> ledger[k].ticket, key |-> k, hash |-> ledger[k].hash] \in tickets
        /\ ledger[k].status = "COMPLETED" => ledger[k].ticket \in enqueued

JobsWired ==
    \A k \in Keys : jobs[k] # NoTicket =>
        ledger[k] # NoRow /\ jobs[k] = ledger[k].ticket /\ jobs[k] \in enqueued

WiredInv == TypeInv /\ KnowsRow /\ EnqueuedFirst /\ RowsWired /\ JobsWired

\* Rows stay, with their payload and, once they have one, their ticket.
RowsStable ==
    \A k \in Keys : ledger[k] # NoRow =>
        /\ ledger'[k] # NoRow
        /\ ledger'[k].hash = ledger[k].hash
        /\ ledger[k].ticket # NoTicket => ledger'[k].ticket = ledger[k].ticket

\* A step on one request r that keeps the rows, and leaves r agreeing with them.
LEMMA KnowsRowKept ==
    ASSUME KnowsRow, RowsStable, NEW r \in Requests,
           \A s \in Requests : s # r => req'[s] = req[s],
           req'[r].pc \in InvolvedPC =>
              /\ req'[r].key \in Keys
              /\ ledger'[req'[r].key] # NoRow
              /\ ledger'[req'[r].key].hash = req'[r].hash
              /\ req'[r].pc # "create" /\ req'[r].ticket # NoTicket
                    => ledger'[req'[r].key].ticket = req'[r].ticket
    PROVE  KnowsRow'
<1> SUFFICES ASSUME NEW s \in Requests, req'[s].pc \in InvolvedPC
             PROVE  /\ req'[s].key \in Keys
                    /\ ledger'[req'[s].key] # NoRow
                    /\ ledger'[req'[s].key].hash = req'[s].hash
                    /\ req'[s].pc # "create" /\ req'[s].ticket # NoTicket
                          => ledger'[req'[s].key].ticket = req'[s].ticket
    BY DEF KnowsRow, InvolvedPC
<1>1. CASE s = r
    BY <1>1
<1>2. CASE s # r
    BY <1>2 DEF KnowsRow, RowsStable
<1> QED BY <1>1, <1>2

LEMMA WiredInvNext ==
    ASSUME MaxPrunes = 0
    PROVE  WiredInv /\ [Next]_vars => WiredInv' /\ RowsStable
<1> SUFFICES ASSUME WiredInv, [Next]_vars PROVE WiredInv' /\ RowsStable
    OBVIOUS
<1>0. /\ TypeInv' /\ TypeInv /\ KnowsRow /\ EnqueuedFirst /\ RowsWired /\ JobsWired
      /\ ledger \in [Keys -> Row \cup {NoRow}]
      /\ req \in [Requests -> Request]
      /\ jobs \in [Keys -> TicketIds \cup {NoTicket}]
      /\ UsableKeys \subseteq Keys /\ NoRow \notin Row /\ NoTicket \notin TicketIds
    BY TypeInvNext, IngestionAssumption DEF WiredInv, TypeInv, TypeOK
<1> DEFINE Rest == KnowsRow' /\ EnqueuedFirst' /\ RowsWired' /\ JobsWired' /\ RowsStable
<1> SUFFICES Rest
    BY <1>0 DEF WiredInv
<1>1. ASSUME NEW r \in Requests, NEW k \in Keys, NEW h \in Hashes, Ingest(r, k, h) PROVE Rest
    <2>1. RowsStable /\ RowsWired' /\ JobsWired'
        BY <1>0, <1>1 DEF Ingest, store, RowsStable, RowsWired, JobsWired
    <2>2. KnowsRow' /\ EnqueuedFirst'
        BY <1>0, <1>1, <2>1, KnowsRowKept DEF Ingest, store, EnqueuedFirst, InvolvedPC
    <2> QED BY <2>1, <2>2
<1>2. ASSUME NEW r \in Requests, ClaimInsert(r) PROVE Rest
    <2>1. req[r].key \in Keys /\ req[r].hash \in Hashes
        BY <1>0, <1>2 DEF TypeInv, InTheDoor, ClaimInsert, Claiming
    <2>2. RowsStable /\ RowsWired' /\ JobsWired'
        BY <1>0, <1>2, <2>1 DEF ClaimInsert, NewRow, RowsStable, RowsWired, JobsWired
    <2>3. KnowsRow' /\ EnqueuedFirst'
        BY <1>0, <1>2, <2>1, <2>2, NewRowType, KnowsRowKept, GotoFacts
        DEF ClaimInsert, NewRow, EnqueuedFirst, InvolvedPC
    <2> QED BY <2>2, <2>3
<1>3. ASSUME NEW r \in Requests, ClaimRead(r) PROVE Rest
    <2>1. req[r].key \in Keys
        BY <1>0, <1>3 DEF TypeInv, InTheDoor, ClaimRead, Claiming
    <2>2. RowsStable /\ RowsWired' /\ JobsWired'
        BY <1>0, <1>3 DEF ClaimRead, store, RowsStable, RowsWired, JobsWired
    <2>3. KnowsRow' /\ EnqueuedFirst'
        <3>1. UNCHANGED <<ledger, enqueued>>
            BY <1>3 DEF ClaimRead, store
        <3>2. CASE Goto(r, "error") \/ Goto(r, "conflict")
            BY <1>0, <2>1, <2>2, <3>1, <3>2, KnowsRowKept, GotoFacts
            DEF EnqueuedFirst, InvolvedPC
        <3>3. CASE /\ ledger[req[r].key] # NoRow
                   /\ SamePayload(ledger[req[r].key], req[r].hash)
                   /\ \/ Answer(r, "replayed", ledger[req[r].key].ticket)
                      \/ Answer(r, "reclaim", ledger[req[r].key].ticket)
            BY <1>0, <2>1, <2>2, <3>1, <3>3, KnowsRowKept, AnswerFacts
            DEF SamePayload, EnqueuedFirst, InvolvedPC
        <3> QED BY <1>3, <3>2, <3>3 DEF ClaimRead
    <2> QED BY <2>2, <2>3
<1>4. ASSUME NEW r \in Requests, ClaimReclaim(r) PROVE Rest
    <2>1. /\ req[r].key \in Keys
          /\ ledger[req[r].key] # NoRow
          /\ ledger[req[r].key].hash = req[r].hash
          /\ req[r].ticket # NoTicket => ledger[req[r].key].ticket = req[r].ticket
        BY <1>0, <1>4 DEF KnowsRow, ClaimReclaim, InvolvedPC
    <2>2. /\ ReclaimedRow(ledger[req[r].key]).hash = ledger[req[r].key].hash
          /\ ReclaimedRow(ledger[req[r].key]).ticket = ledger[req[r].key].ticket
          /\ ReclaimedRow(ledger[req[r].key]).status # "COMPLETED"
          /\ ReclaimedRow(ledger[req[r].key]) # NoRow
        BY <1>0, <2>1, RowTypes DEF ReclaimedRow, Row
    <2>3. RowsStable /\ RowsWired' /\ JobsWired'
        BY <1>0, <1>4, <2>1, <2>2 DEF ClaimReclaim, RowsStable, RowsWired, JobsWired
    <2>4. KnowsRow' /\ EnqueuedFirst'
        BY <1>0, <1>4, <2>1, <2>3, KnowsRowKept, GotoFacts, AnswerFacts
        DEF ClaimReclaim, EnqueuedFirst, InvolvedPC, RowsStable
    <2> QED BY <2>3, <2>4
<1>5. ASSUME NEW r \in Requests, CreateTicketIfAbsent(r) PROVE Rest
    <2>1. /\ req[r].key \in Keys
          /\ ledger[req[r].key] # NoRow
          /\ ledger[req[r].key].hash = req[r].hash
        BY <1>0, <1>5 DEF KnowsRow, CreateTicketIfAbsent, InvolvedPC
    <2>2. UNCHANGED <<jobs, enqueued>>
        BY <1>5 DEF CreateTicketIfAbsent
    <2>3. CASE HasTicket(ledger[req[r].key])
        <3>1. RowsStable /\ RowsWired' /\ JobsWired'
            BY <1>0, <1>5, <2>1, <2>3
            DEF CreateTicketIfAbsent, RowsStable, RowsWired, JobsWired
        <3>2. Returns(r, "enqueue", ledger[req[r].key].ticket) /\ UNCHANGED ledger
            BY <1>5, <2>1, <2>3 DEF CreateTicketIfAbsent
        <3>3. KnowsRow' /\ EnqueuedFirst'
            BY <1>0, <2>1, <2>2, <3>1, <3>2, KnowsRowKept, AnswerFacts
            DEF Returns, EnqueuedFirst, InvolvedPC
        <3> QED BY <3>1, <3>3
    <2>4. CASE ~HasTicket(ledger[req[r].key])
        <3>1. PICK id \in TicketIds :
                /\ tickets' = tickets \cup
                        {[id |-> id, key |-> req[r].key, hash |-> req[r].hash]}
                /\ ledger' = [ledger EXCEPT ![req[r].key].ticket = id]
                /\ Returns(r, "enqueue", id)
            BY <1>5, <2>1, <2>4 DEF CreateTicketIfAbsent
        <3> DEFINE row == [ledger[req[r].key] EXCEPT !.ticket = id]
        <3>2. row \in Row /\ row.ticket = id /\ row.hash = req[r].hash
              /\ row.status = ledger[req[r].key].status
            BY <1>0, <2>1, RowTypes DEF Row
        <3>3. ledger' = [ledger EXCEPT ![req[r].key] = row]
            BY <3>1
        <3> HIDE DEF row
        <3>4. ledger[req[r].key].status # "COMPLETED" /\ jobs[req[r].key] = NoTicket
            <4>1. ledger[req[r].key].ticket = NoTicket
                BY <2>4 DEF HasTicket
            <4>2. NoTicket \notin enqueued
                BY <1>0 DEF TypeInv, TypeOK
            <4> QED BY <1>0, <2>1, <4>1, <4>2 DEF RowsWired, JobsWired
        <3>5. RowsStable
            BY <1>0, <2>1, <2>4, <3>2, <3>3 DEF RowsStable, HasTicket
        <3>6. RowsWired' /\ JobsWired'
            BY <1>0, <2>1, <2>2, <3>1, <3>2, <3>3, <3>4 DEF RowsWired, JobsWired
        <3>7. KnowsRow' /\ EnqueuedFirst'
            BY <1>0, <2>1, <2>2, <3>1, <3>2, <3>3, <3>5, KnowsRowKept, AnswerFacts
            DEF Returns, EnqueuedFirst, InvolvedPC
        <3> QED BY <3>5, <3>6, <3>7
    <2> QED BY <2>3, <2>4
<1>6. ASSUME NEW r \in Requests, Enqueue(r) PROVE Rest
    <2>1. /\ req[r].key \in Keys
          /\ ledger[req[r].key] # NoRow
          /\ ledger[req[r].key].hash = req[r].hash
          /\ req[r].ticket \in TicketIds
          /\ ledger[req[r].key].ticket = req[r].ticket
        BY <1>0, <1>6 DEF KnowsRow, Enqueue, InvolvedPC, TypeInv, HoldsTicket
    <2>2. /\ UNCHANGED <<ledger, tickets>>
          /\ enqueued \subseteq enqueued'
          /\ req[r].ticket \in enqueued'
          /\ jobs' = jobs \/ jobs' = [jobs EXCEPT ![req[r].key] = req[r].ticket]
        BY <1>0, <1>6, <2>1 DEF Enqueue, JobsWired
    <2>3. RowsStable /\ RowsWired' /\ JobsWired'
        BY <1>0, <2>1, <2>2 DEF RowsStable, RowsWired, JobsWired
    <2>4. Returns(r, "markCompleted", req[r].ticket)
        BY <1>6 DEF Enqueue
    <2>5. KnowsRow' /\ EnqueuedFirst'
        BY <1>0, <2>1, <2>2, <2>3, <2>4, KnowsRowKept, AnswerFacts
        DEF Returns, EnqueuedFirst, InvolvedPC
    <2> QED BY <2>3, <2>5
<1>7. ASSUME NEW r \in Requests, TryFails(r) \/ Crash(r) \/ Retry(r) PROVE Rest
    <2>1. RowsStable /\ RowsWired' /\ JobsWired'
        BY <1>0, <1>7 DEF TryFails, Crash, Retry, store, RowsStable, RowsWired, JobsWired
    <2>2. KnowsRow' /\ EnqueuedFirst'
        BY <1>0, <1>7, <2>1, KnowsRowKept, GotoFacts, AnswerFacts
        DEF TryFails, Crash, Retry, store, EnqueuedFirst, InvolvedPC
    <2> QED BY <2>1, <2>2
<1>8. ASSUME NEW r \in Requests, MarkFailed(r) PROVE Rest
    <2>1. req[r].key \in Keys
        BY <1>0, <1>8 DEF TypeInv, InTheDoor, MarkFailed, Working
    <2>2. ledger[req[r].key] # NoRow =>
            /\ FailedRow(ledger[req[r].key]).hash = ledger[req[r].key].hash
            /\ FailedRow(ledger[req[r].key]).ticket = ledger[req[r].key].ticket
            /\ FailedRow(ledger[req[r].key]).status # "COMPLETED"
            /\ FailedRow(ledger[req[r].key]) # NoRow
        <3>1. ASSUME NEW row \in Row
              PROVE  /\ FailedRow(row).hash = row.hash
                     /\ FailedRow(row).ticket = row.ticket
                     /\ FailedRow(row).status # "COMPLETED"
            BY DEF FailedRow, Row
        <3>2. ASSUME NEW row \in Row PROVE FailedRow(row) # NoRow
            BY IngestionAssumption, RowTypes
        <3>3. ledger[req[r].key] # NoRow => ledger[req[r].key] \in Row
            BY <1>0, <2>1
        <3> QED BY <3>1, <3>2, <3>3
    <2>3. RowsStable /\ RowsWired' /\ JobsWired'
        BY <1>0, <1>8, <2>1, <2>2
        DEF MarkFailed, UpdateLedger, RowsStable, RowsWired, JobsWired
    <2>4. KnowsRow' /\ EnqueuedFirst'
        BY <1>0, <1>8, <2>3, KnowsRowKept, GotoFacts DEF MarkFailed, EnqueuedFirst, InvolvedPC
    <2> QED BY <2>3, <2>4
<1>9. ASSUME NEW r \in Requests, MarkCompleted(r) PROVE Rest
    <2>1. /\ req[r].key \in Keys
          /\ ledger[req[r].key] # NoRow
          /\ ledger[req[r].key].hash = req[r].hash
          /\ req[r].ticket \in TicketIds /\ req[r].ticket \in enqueued
          /\ ledger[req[r].key].ticket = req[r].ticket
        BY <1>0, <1>9
        DEF KnowsRow, MarkCompleted, InvolvedPC, TypeInv, HoldsTicket, EnqueuedFirst
    <2>2. /\ CompletedRow(ledger[req[r].key], req[r].ticket).hash = ledger[req[r].key].hash
          /\ CompletedRow(ledger[req[r].key], req[r].ticket).ticket = req[r].ticket
          /\ CompletedRow(ledger[req[r].key], req[r].ticket) # NoRow
        BY <1>0, <2>1, RowTypes DEF CompletedRow, Row
    <2>3. RowsStable /\ RowsWired' /\ JobsWired'
        BY <1>0, <1>9, <2>1, <2>2
        DEF MarkCompleted, UpdateLedger, RowsStable, RowsWired, JobsWired
    <2>4. KnowsRow' /\ EnqueuedFirst'
        BY <1>0, <1>9, <2>1, <2>3, KnowsRowKept, GotoFacts
        DEF MarkCompleted, EnqueuedFirst, InvolvedPC, RowsStable
    <2> QED BY <2>3, <2>4
<1>10. ASSUME NEW k \in Keys, LeaseExpires(k) PROVE Rest
    <2>1. /\ [ledger[k] EXCEPT !.lease = "expired"] # NoRow
          /\ ledger[k] # NoRow /\ ledger[k] \in Row
        BY <1>0, <1>10, RowTypes DEF LeaseExpires
    <2>2. RowsStable /\ RowsWired' /\ JobsWired'
        BY <1>0, <1>10, <2>1 DEF LeaseExpires, Row, RowsStable, RowsWired, JobsWired
    <2>3. KnowsRow' /\ EnqueuedFirst'
        BY <1>0, <1>10, <2>2 DEF LeaseExpires, KnowsRow, EnqueuedFirst, RowsStable
    <2> QED BY <2>2, <2>3
<1>11. ASSUME NEW k \in Keys, JobRemoved(k) PROVE Rest
    BY <1>0, <1>11
    DEF JobRemoved, KnowsRow, EnqueuedFirst, RowsWired, JobsWired, RowsStable
<1>12. ASSUME NEW k \in Keys, Prune(k) PROVE Rest
    BY <1>0, <1>12 DEF Prune, TypeInv, TypeOK
<1>13. CASE UNCHANGED vars
    BY <1>0, <1>13 DEF vars, KnowsRow, EnqueuedFirst, RowsWired, JobsWired, RowsStable
<1> QED BY <1>1, <1>2, <1>3, <1>4, <1>5, <1>6, <1>7, <1>8, <1>9, <1>10, <1>11, <1>12, <1>13 DEF Next

LEMMA WiredInvInit == Init => WiredInv
BY TypeInvInit
DEF Init, WiredInv, KnowsRow, EnqueuedFirst, RowsWired, JobsWired, InvolvedPC

\* A COMPLETED key has its ticket, and the ticket's job was stored, whoever of
\* the drivers of the key got there first.
THEOREM CompletedIsWired ==
    ASSUME MaxPrunes = 0
    PROVE  Spec => []ReplayIsWired
<1>1. WiredInv => ReplayIsWired
    BY IngestionAssumption DEF WiredInv, RowsWired, ReplayIsWired, TypeInv, TypeOK
<1>2. WiredInv /\ [Next]_vars => WiredInv'
    BY WiredInvNext
<1> QED BY <1>1, <1>2, WiredInvInit, PTL DEF Spec

\* All clients of a key that are given a ticket are given the one made from
\* the payload that each of them sent.
THEOREM OneAnswer ==
    ASSUME MaxPrunes = 0
    PROVE  Spec => []SameAnswer
<1>1. WiredInv => SameAnswer
    BY DEF WiredInv, KnowsRow, RowsWired, SameAnswer, Served, InvolvedPC
<1>2. WiredInv /\ [Next]_vars => WiredInv'
    BY WiredInvNext
<1> QED BY <1>1, <1>2, WiredInvInit, PTL DEF Spec

\* No late writer exchanges or removes the ticket of a row.
THEOREM TicketStays ==
    ASSUME MaxPrunes = 0
    PROVE  Spec => AttachedForGood
<1>1. WiredInv /\ [Next]_vars => [\A k \in Keys :
          /\ ledger[k] # NoRow /\ ledger'[k] # NoRow
          /\ ledger[k].ticket # NoTicket
          => ledger'[k].ticket = ledger[k].ticket]_vars
    BY WiredInvNext DEF RowsStable
<1>2. WiredInv /\ [Next]_vars => WiredInv'
    BY WiredInvNext
<1> QED BY <1>1, <1>2, WiredInvInit, PTL DEF Spec, AttachedForGood
=============================================================================
