-------------------------- MODULE RetentionProofs --------------------------
(***************************************************************************)
(* The retention transaction leaves every reference whole and takes only   *)
(* settled rows, for any number of keys, tickets, workers and dead         *)
(* letters, whatever commits between its statements.                       *)
(***************************************************************************)
EXTENDS Retention, TLAPS

\* A request at work has its ledger row, PENDING, and a ticket once created.
Ingesting ==
    \A k \in Keys : req[k] # "idle" =>
        /\ key[k] # None /\ key[k].status = "PENDING"
        /\ req[k] \in {"enqueue", "complete"} => key[k].ticket # None

\* The event of a ticket is there, and it is the older of the two.
HasEvent ==
    \A t \in Tickets : ticket[t] # None =>
        event[t] # None /\ (ticket[t].old => event[t].old)

HasTicket ==
    \A k \in Keys :
        key[k] # None /\ key[k].ticket # None => ticket[key[k].ticket] # None

\* What the transaction has deleted is still what its WHERE clause saw: the row
\* locks keep everyone else from changing it.
DoomedRows ==
    /\ \A t \in sweep.outbox : outbox[t] # None /\ outbox[t].status # "PENDING"
    /\ \A d \in sweep.dead : dead[d] # None /\ dead[d].status = "REPLAYED"
    /\ \A k \in sweep.keys : key[k] # None /\ key[k].status = "COMPLETED"

DoomedTickets ==
    \A t \in sweep.tickets :
        /\ ticket[t] # None /\ ticket[t].status = "ENRICHED" /\ ticket[t].old
        /\ \A k \in Keys : key[k] # None /\ k \notin sweep.keys => key[k].ticket # t

\* The events go with their tickets.
DoomedEvents ==
    /\ \A t \in sweep.events :
          event[t] # None /\ (ticket[t] = None \/ t \in sweep.tickets)
    /\ sweep.pc = "commit" => sweep.tickets \subseteq sweep.events

\* The statements come one after the other, and none is refused.
Phases ==
    /\ sweep.pc # "refused"
    /\ sweep.pc \in {"idle", "outbox"} => sweep = [NoSweep EXCEPT !.pc = sweep.pc]
    /\ sweep.pc = "dead" => sweep.dead = {}
    /\ sweep.pc \in {"dead", "keys"} => sweep.keys = {}
    /\ sweep.pc \in {"dead", "keys", "tickets"} => sweep.tickets = {}
    /\ sweep.pc # "commit" => sweep.events = {}

IInv ==
    /\ TypeOK /\ Ingesting /\ HasEvent /\ HasTicket
    /\ DoomedRows /\ DoomedTickets /\ DoomedEvents /\ Phases

USE RetentionAssumption

-----------------------------------------------------------------------------
LEMMA ClaimKeepsIInv ==
    ASSUME IInv, NEW k \in Keys, Claim(k)
    PROVE  IInv'
<1> USE DEF IInv, Claim
<1>11. TypeOK'
  <2>1. CASE key[k] = None
    <3> DEFINE new == [status |-> "PENDING", ticket |-> None, old |-> FALSE]
    <3>1. key' = [key EXCEPT ![k] = new]
      BY <2>1
    <3>2. new \in KeyRow
      BY DEF KeyRow
    <3> HIDE DEF new
    <3> QED BY <3>1, <3>2 DEF TypeOK
  <2>2. CASE key[k] # None
    <3>1. key' = [key EXCEPT ![k].status = "PENDING"]
      BY <2>2
    <3> QED BY <3>1, <2>2 DEF Ingesting, TypeOK, KeyRow
  <2> QED BY <2>1, <2>2
<1>12. Ingesting'
  <2>1. CASE key[k] = None
    <3> DEFINE new == [status |-> "PENDING", ticket |-> None, old |-> FALSE]
    <3>1. key' = [key EXCEPT ![k] = new]
      BY <2>1
    <3>2. new \in KeyRow /\ new # None /\ new.status = "PENDING"
      <4>1. new \in KeyRow /\ new.status = "PENDING"
        BY DEF KeyRow
      <4> HIDE DEF new
      <4> QED BY <4>1 DEF KeyRow
    <3>3. req' = [req EXCEPT ![k] = "create"] /\ k \in DOMAIN key /\ k \in DOMAIN req
      BY DEF TypeOK
    <3> HIDE DEF new
    <3> QED BY <3>1, <3>2, <3>3 DEF Ingesting
  <2>2. CASE key[k] # None
    <3>1. key' = [key EXCEPT ![k].status = "PENDING"]
      BY <2>2
    <3> QED BY <3>1, <2>2 DEF Ingesting, TypeOK, KeyRow
  <2> QED BY <2>1, <2>2
<1>13. HasTicket'
  BY DEF HasTicket, TypeOK, KeyRow
<1>14. DoomedRows'
  BY DEF DoomedRows, Ingesting, TypeOK, KeyRow
<1>15. DoomedTickets'
  BY DEF DoomedTickets, DoomedRows, Ingesting, TypeOK, KeyRow
<1>16. HasEvent' /\ DoomedEvents' /\ Phases'
  BY DEF HasEvent, DoomedEvents, Phases
<1> QED BY <1>11, <1>12, <1>13, <1>14, <1>15, <1>16

LEMMA CreateKeepsIInv ==
    ASSUME IInv, NEW k \in Keys, Create(k)
    PROVE  IInv'
<1> USE DEF IInv
<1>1. /\ key[k] \in KeyRow /\ key[k] # None /\ key[k].status = "PENDING"
      /\ k \in DOMAIN key /\ k \in DOMAIN req
      /\ req' = [req EXCEPT ![k] = "enqueue"]
  BY DEF Create, Ingesting, TypeOK
<1>2. UNCHANGED <<outbox, dead, job, extra, run, replay, sweep, faults>>
  BY DEF Create
<1>3. CASE key[k].ticket # None /\ UNCHANGED <<key, event, ticket>>
  <2>1. TypeOK' /\ Ingesting'
    BY <1>1, <1>2, <1>3 DEF TypeOK, Ingesting
  <2>2. HasEvent' /\ HasTicket' /\ DoomedRows' /\ DoomedTickets' /\ DoomedEvents' /\ Phases'
    BY <1>2, <1>3 DEF HasEvent, HasTicket, DoomedRows, DoomedTickets, DoomedEvents, Phases
  <2> QED BY <2>1, <2>2
<1>4. ASSUME key[k].ticket = None,
             NEW t \in Tickets,
             Unused(t),
             event' = [event EXCEPT ![t] = [old |-> FALSE]],
             ticket' = [ticket EXCEPT ![t] = [status |-> "PENDING", old |-> FALSE]],
             key' = [key EXCEPT ![k].ticket = t]
      PROVE  IInv'
  <2> DEFINE row == [key[k] EXCEPT !.ticket = t]
             newEvent == [old |-> FALSE]
             newTicket == [status |-> "PENDING", old |-> FALSE]
  <2>1. /\ row \in KeyRow /\ row # None /\ row.status = key[k].status
        /\ row.ticket = t /\ row.ticket # None
    <3>1. row \in KeyRow /\ row.status = key[k].status /\ row.ticket = t /\ t # None
      BY <1>1 DEF KeyRow
    <3> QED BY <3>1 DEF KeyRow
  <2>2. newEvent \in EventRow /\ newEvent # None /\ ~newEvent.old
    <3>1. newEvent \in EventRow /\ ~newEvent.old
      BY DEF EventRow
    <3> QED BY <3>1 DEF EventRow
  <2>3. newTicket \in TicketRow /\ newTicket # None /\ ~newTicket.old
    <3>1. newTicket \in TicketRow /\ ~newTicket.old
      BY DEF TicketRow
    <3> QED BY <3>1 DEF TicketRow
  <2>4. /\ key' = [key EXCEPT ![k] = row]
        /\ event' = [event EXCEPT ![t] = newEvent]
        /\ ticket' = [ticket EXCEPT ![t] = newTicket]
        /\ t \in DOMAIN event /\ t \in DOMAIN ticket
        /\ event[t] = None /\ ticket[t] = None
    BY <1>4 DEF TypeOK, Unused
  <2> HIDE DEF row, newEvent, newTicket
  <2>5. TypeOK'
    <3>1. key' \in [Keys -> KeyRow \cup {None}]
      BY <2>1, <2>4 DEF TypeOK
    <3>2. event' \in [Tickets -> EventRow \cup {None}]
      BY <2>2, <2>4 DEF TypeOK
    <3>3. ticket' \in [Tickets -> TicketRow \cup {None}]
      BY <2>3, <2>4 DEF TypeOK
    <3>4. req' \in [Keys -> {"idle", "create", "enqueue", "complete"}]
      BY <1>1 DEF TypeOK
    <3> QED BY <3>1, <3>2, <3>3, <3>4, <1>2 DEF TypeOK
  <2>6. Ingesting'
    BY <1>1, <2>1, <2>4 DEF Ingesting
  <2>7. HasEvent'
    <3> SUFFICES ASSUME NEW u \in Tickets, ticket'[u] # None
                 PROVE  event'[u] # None /\ (ticket'[u].old => event'[u].old)
      BY DEF HasEvent
    <3>1. CASE u = t
      BY <3>1, <2>2, <2>3, <2>4
    <3>2. CASE u # t
      BY <3>2, <2>4 DEF HasEvent
    <3> QED BY <3>1, <3>2
  <2>8. HasTicket'
    <3> SUFFICES ASSUME NEW j \in Keys, key'[j] # None, key'[j].ticket # None
                 PROVE  ticket'[key'[j].ticket] # None
      BY DEF HasTicket
    <3>1. CASE j = k
      BY <3>1, <1>1, <2>1, <2>3, <2>4
    <3>2. CASE j # k
      <4>1. key'[j] = key[j]
        BY <3>2, <2>4
      <4>2. key[j].ticket \in Tickets
        BY <4>1 DEF TypeOK, KeyRow
      <4>3. ticket[key[j].ticket] # None
        BY <4>1 DEF HasTicket
      <4> QED BY <4>1, <4>2, <4>3, <2>4, <2>3
    <3> QED BY <3>1, <3>2
  <2>9. DoomedRows'
    BY <1>1, <1>2, <2>1, <2>4 DEF DoomedRows
  <2>10. DoomedTickets'
    <3>1. t \notin sweep.tickets
      BY <2>4 DEF DoomedTickets
    <3>2. \A u \in sweep.tickets : u \in Tickets /\ ticket'[u] = ticket[u]
      BY <3>1, <2>4 DEF TypeOK
    <3> QED BY <3>1, <3>2, <1>1, <1>2, <2>1, <2>4 DEF DoomedTickets
  <2>11. DoomedEvents'
    <3>1. t \notin sweep.events
      BY <2>4 DEF DoomedEvents
    <3>2. \A u \in sweep.events : u \in Tickets /\ ticket'[u] = ticket[u] /\ event'[u] = event[u]
      BY <3>1, <2>4 DEF TypeOK
    <3> QED BY <3>1, <3>2, <1>2 DEF DoomedEvents
  <2>12. Phases'
    BY <1>2 DEF Phases
  <2> QED BY <2>5, <2>6, <2>7, <2>8, <2>9, <2>10, <2>11, <2>12
<1> QED BY <1>3, <1>4 DEF Create

LEMMA EnqueueKeepsIInv ==
    ASSUME IInv, NEW k \in Keys, Enqueue(k)
    PROVE  IInv'
<1> USE DEF IInv, Enqueue
<1>11. TypeOK'
  <2>1. key[k].ticket \in Tickets
    BY DEF TypeOK, Ingesting, KeyRow
  <2>2. job' \in [Keys -> [ticket : Tickets, state : {"waiting", "finished"}] \cup {None}]
    BY <2>1 DEF TypeOK
  <2>3. req' \in [Keys -> {"idle", "create", "enqueue", "complete"}]
    BY DEF TypeOK
  <2> QED BY <2>2, <2>3 DEF TypeOK
<1>12. Ingesting'
  BY DEF Ingesting, TypeOK
<1>13. HasEvent' /\ HasTicket' /\ DoomedRows' /\ DoomedTickets' /\ DoomedEvents' /\ Phases'
  BY DEF HasEvent, HasTicket, DoomedRows, DoomedTickets, DoomedEvents, Phases
<1> QED BY <1>11, <1>12, <1>13

LEMMA MarkCompletedKeepsIInv ==
    ASSUME IInv, NEW k \in Keys, MarkCompleted(k)
    PROVE  IInv'
<1> USE DEF IInv, MarkCompleted
<1> DEFINE new == [key[k] EXCEPT !.status = "COMPLETED"]
<1>0. key[k] \in KeyRow /\ key[k].status = "PENDING"
  BY DEF TypeOK, Ingesting
<1>1. new \in KeyRow /\ new # None /\ new.ticket = key[k].ticket /\ key[k].status = "PENDING"
  <2>1. new \in KeyRow /\ new.ticket = key[k].ticket /\ key[k].status = "PENDING"
    BY <1>0 DEF KeyRow
  <2> QED BY <2>1 DEF KeyRow
<1>2. key' = [key EXCEPT ![k] = new] /\ key[k] # None /\ k \in DOMAIN key
  BY DEF TypeOK, Ingesting
<1> HIDE DEF new
<1>11. TypeOK'
  BY <1>1, <1>2 DEF TypeOK, Ingesting, KeyRow
<1>12. Ingesting'
  BY <1>1, <1>2 DEF Ingesting, TypeOK, KeyRow
<1>13. HasTicket'
  BY <1>1, <1>2 DEF HasTicket, TypeOK, KeyRow
<1>14. DoomedRows'
  BY <1>1, <1>2 DEF DoomedRows, Ingesting, TypeOK, KeyRow
<1>15. DoomedTickets'
  BY <1>1, <1>2 DEF DoomedTickets, DoomedRows, Ingesting, TypeOK, KeyRow
<1>16. HasEvent' /\ DoomedEvents' /\ Phases'
  BY DEF HasEvent, DoomedEvents, Phases
<1> QED BY <1>11, <1>12, <1>13, <1>14, <1>15, <1>16

LEMMA RequestFailsKeepsIInv ==
    ASSUME IInv, NEW k \in Keys, RequestFails(k)
    PROVE  IInv'
<1> USE DEF IInv, RequestFails, Fault
<1> DEFINE new == [key[k] EXCEPT !.status = "FAILED"]
<1>1. new \in KeyRow /\ new # None /\ new.ticket = key[k].ticket /\ key[k].status = "PENDING"
  BY DEF TypeOK, KeyRow, Ingesting
<1>2. /\ key' = [key EXCEPT ![k] = new] \/ key' = key
      /\ key[k] # None /\ k \in DOMAIN key
  BY DEF TypeOK, Ingesting
<1> HIDE DEF new
<1>11. TypeOK'
  BY <1>1, <1>2 DEF TypeOK, Ingesting, KeyRow
<1>12. Ingesting'
  BY <1>1, <1>2 DEF Ingesting, TypeOK, KeyRow
<1>13. HasTicket'
  BY <1>1, <1>2 DEF HasTicket, TypeOK, KeyRow
<1>14. DoomedRows'
  BY <1>1, <1>2 DEF DoomedRows, Ingesting, TypeOK, KeyRow
<1>15. DoomedTickets'
  BY <1>1, <1>2 DEF DoomedTickets, DoomedRows, Ingesting, TypeOK, KeyRow
<1>16. HasEvent' /\ DoomedEvents' /\ Phases'
  BY DEF HasEvent, DoomedEvents, Phases
<1> QED BY <1>11, <1>12, <1>13, <1>14, <1>15, <1>16

LEMMA JobRemovedKeepsIInv ==
    ASSUME IInv, NEW k \in Keys, JobRemoved(k)
    PROVE  IInv'
<1> USE DEF IInv, JobRemoved
<1>11. TypeOK'
  BY DEF TypeOK, Ingesting
<1>12. Ingesting' /\ HasEvent' /\ HasTicket' /\ DoomedRows' /\ DoomedTickets' /\ DoomedEvents' /\ Phases'
  BY DEF Ingesting, HasEvent, HasTicket, DoomedRows, DoomedTickets, DoomedEvents, Phases
<1> QED BY <1>11, <1>12

LEMMA KeyAgesKeepsIInv ==
    ASSUME IInv, NEW k \in Keys, KeyAges(k)
    PROVE  IInv'
<1> USE DEF IInv, KeyAges, rest
<1> DEFINE new == [key[k] EXCEPT !.old = TRUE]
<1>0. key[k] \in KeyRow
  BY DEF TypeOK
<1>1. new \in KeyRow /\ new # None /\ new.status = key[k].status /\ new.ticket = key[k].ticket
  <2>1. new \in KeyRow /\ new.status = key[k].status /\ new.ticket = key[k].ticket
    BY <1>0 DEF KeyRow
  <2> QED BY <2>1 DEF KeyRow
<1>2. key' = [key EXCEPT ![k] = new] /\ key[k] # None /\ k \in DOMAIN key
  BY DEF TypeOK
<1> HIDE DEF new
<1>11. TypeOK'
  <2>1. key' \in [Keys -> KeyRow \cup {None}]
    BY <1>1, <1>2 DEF TypeOK
  <2> QED BY <2>1 DEF TypeOK
<1>3. key'[k] = new /\ \A j \in Keys : j # k => key'[j] = key[j]
  BY <1>2 DEF TypeOK
<1>12. Ingesting'
  <2>1. UNCHANGED req
    OBVIOUS
  <2>2. ASSUME NEW j \in Keys, req[j] # "idle"
        PROVE  /\ key'[j] # None /\ key'[j].status = "PENDING"
               /\ req[j] \in {"enqueue", "complete"} => key'[j].ticket # None
    <3>1. /\ key[j] # None /\ key[j].status = "PENDING"
          /\ req[j] \in {"enqueue", "complete"} => key[j].ticket # None
      BY <2>2 DEF Ingesting
    <3> QED BY <3>1, <1>1, <1>3
  <2> QED BY <2>1, <2>2 DEF Ingesting
<1>13. HasTicket'
  BY <1>1, <1>2 DEF HasTicket, TypeOK, KeyRow
<1>14. DoomedRows'
  <2>1. UNCHANGED <<sweep, outbox, dead>>
    OBVIOUS
  <2>2. ASSUME NEW j \in sweep.keys PROVE key'[j] # None /\ key'[j].status = "COMPLETED"
    <3>1. j \in Keys /\ key[j] # None /\ key[j].status = "COMPLETED"
      BY <2>2 DEF DoomedRows, TypeOK
    <3> QED BY <3>1, <1>1, <1>3
  <2> QED BY <2>1, <2>2 DEF DoomedRows
<1>15. DoomedTickets'
  BY <1>1, <1>2 DEF DoomedTickets, DoomedRows, Ingesting, TypeOK, KeyRow
<1>16. HasEvent' /\ DoomedEvents' /\ Phases'
  BY DEF HasEvent, DoomedEvents, Phases
<1> QED BY <1>11, <1>12, <1>13, <1>14, <1>15, <1>16

LEMMA LoadKeepsIInv ==
    ASSUME IInv, NEW w \in Workers, NEW t \in Tickets, Load(w, t)
    PROVE  IInv'
<1> USE DEF IInv, Load, Take, DeadLetter
<1>11. TypeOK'
  <2>1. /\ job' \in [Keys -> [ticket : Tickets, state : {"waiting", "finished"}] \cup {None}]
        /\ extra' \subseteq Tickets
    BY DEF TypeOK
  <2>2. run' \in [Workers -> [ticket : Tickets, prior : {"PENDING", "DEGRADED", "ENRICHED"}] \cup {None}]
    BY DEF TypeOK, TicketRow
  <2>3. dead' \in [DeadIds -> DeadRow \cup {None}]
    <3>1. [status |-> "PENDING", ticket |-> t, old |-> FALSE] \in DeadRow
      BY DEF DeadRow
    <3> QED BY <3>1 DEF TypeOK
  <2> QED BY <2>1, <2>2, <2>3 DEF TypeOK
<1>12. DoomedRows'
  BY DEF DoomedRows, Ingesting, TypeOK, DeadRow
<1>13. Ingesting' /\ HasEvent' /\ HasTicket' /\ DoomedTickets' /\ DoomedEvents' /\ Phases'
  BY DEF Ingesting, HasEvent, HasTicket, DoomedTickets, DoomedEvents, Phases
<1> QED BY <1>11, <1>12, <1>13

LEMMA WriteKeepsIInv ==
    ASSUME IInv, NEW w \in Workers, NEW outcome \in {"ENRICHED", "DEGRADED"}, Write(w, outcome)
    PROVE  IInv'
<1> USE DEF IInv, Write, Affects, Announces
<1>11. TypeOK'
  BY DEF TypeOK, Ingesting, TicketRow, OutboxRow
<1>12. HasEvent'
  BY DEF HasEvent, TypeOK, TicketRow
<1>13. HasTicket'
  <2>1. \A t \in Tickets : ticket[t] # None => ticket'[t] # None
    <3> DEFINE new == [status |-> outcome, old |-> FALSE]
    <3>1. new # None
      <4>1. new \in TicketRow
        BY DEF TicketRow
      <4> HIDE DEF new
      <4> QED BY <4>1 DEF TicketRow
    <3> HIDE DEF new
    <3>2. ticket' = ticket \/ ticket' = [ticket EXCEPT ![run[w].ticket] = new]
      BY DEF new
    <3> QED BY <3>1, <3>2 DEF TypeOK
  <2>2. \A k \in Keys : key[k] # None /\ key[k].ticket # None => key[k].ticket \in Tickets
    BY DEF TypeOK, KeyRow
  <2> QED BY <2>1, <2>2 DEF HasTicket
<1>14. DoomedRows'
  BY DEF DoomedRows, Ingesting, TypeOK, OutboxRow
<1>15. DoomedTickets'
  BY DEF DoomedTickets, DoomedRows, Ingesting, TypeOK, TicketRow
<1>16. DoomedEvents'
  BY DEF DoomedEvents, TypeOK, TicketRow
<1>17. Ingesting' /\ Phases'
  BY DEF Ingesting, Phases
<1> QED BY <1>11, <1>12, <1>13, <1>14, <1>15, <1>16, <1>17

LEMMA RunFailsKeepsIInv ==
    ASSUME IInv, NEW w \in Workers, RunFails(w)
    PROVE  IInv'
<1> USE DEF IInv, RunFails, Fault, DeadLetter
<1>11. TypeOK'
  BY DEF TypeOK, Ingesting, DeadRow
<1>12. DoomedRows'
  BY DEF DoomedRows, Ingesting, TypeOK, DeadRow
<1>13. Ingesting' /\ HasEvent' /\ HasTicket' /\ DoomedTickets' /\ DoomedEvents' /\ Phases'
  BY DEF Ingesting, HasEvent, HasTicket, DoomedTickets, DoomedEvents, Phases
<1> QED BY <1>11, <1>12, <1>13

LEMMA FlipKeepsIInv ==
    ASSUME IInv, NEW d \in DeadIds, Flip(d)
    PROVE  IInv'
<1> USE DEF IInv, Flip
<1>11. TypeOK'
  BY DEF TypeOK, Ingesting, DeadRow
<1>12. DoomedRows'
  BY DEF DoomedRows, Ingesting, TypeOK, DeadRow
<1>13. Ingesting' /\ HasEvent' /\ HasTicket' /\ DoomedTickets' /\ DoomedEvents' /\ Phases'
  BY DEF Ingesting, HasEvent, HasTicket, DoomedTickets, DoomedEvents, Phases
<1> QED BY <1>11, <1>12, <1>13

LEMMA EnqueueReplayKeepsIInv ==
    ASSUME IInv, NEW d \in DeadIds, EnqueueReplay(d)
    PROVE  IInv'
<1> USE DEF IInv, EnqueueReplay, Fault
<1>11. TypeOK'
  BY DEF TypeOK, Ingesting
<1>12. Ingesting' /\ HasEvent' /\ HasTicket' /\ DoomedRows' /\ DoomedTickets' /\ DoomedEvents' /\ Phases'
  BY DEF Ingesting, HasEvent, HasTicket, DoomedRows, DoomedTickets, DoomedEvents, Phases
<1> QED BY <1>11, <1>12

LEMMA RevertKeepsIInv ==
    ASSUME IInv, NEW d \in DeadIds, Revert(d)
    PROVE  IInv'
<1> USE DEF IInv, Revert
<1>11. TypeOK'
  BY DEF TypeOK, Ingesting, DeadRow
<1>12. DoomedRows'
  BY DEF DoomedRows, Ingesting, TypeOK, DeadRow
<1>13. Ingesting' /\ HasEvent' /\ HasTicket' /\ DoomedTickets' /\ DoomedEvents' /\ Phases'
  BY DEF Ingesting, HasEvent, HasTicket, DoomedTickets, DoomedEvents, Phases
<1> QED BY <1>11, <1>12, <1>13

LEMMA ReconcileKeepsIInv ==
    ASSUME IInv, NEW t \in Tickets, Reconcile(t)
    PROVE  IInv'
<1> USE DEF IInv, Reconcile
<1>11. TypeOK'
  BY DEF TypeOK, Ingesting
<1>12. Ingesting' /\ HasEvent' /\ HasTicket' /\ DoomedRows' /\ DoomedTickets' /\ DoomedEvents' /\ Phases'
  BY DEF Ingesting, HasEvent, HasTicket, DoomedRows, DoomedTickets, DoomedEvents, Phases
<1> QED BY <1>11, <1>12

LEMMA DispatchKeepsIInv ==
    ASSUME IInv, NEW t \in Tickets, Dispatch(t)
    PROVE  IInv'
<1> USE DEF IInv, Dispatch, DispatchResults, rest
<1>11. TypeOK'
  BY DEF TypeOK, Ingesting, OutboxRow
<1>12. DoomedRows'
  BY DEF DoomedRows, Ingesting, TypeOK, OutboxRow
<1>13. Ingesting' /\ HasEvent' /\ HasTicket' /\ DoomedTickets' /\ DoomedEvents' /\ Phases'
  BY DEF Ingesting, HasEvent, HasTicket, DoomedTickets, DoomedEvents, Phases
<1> QED BY <1>11, <1>12, <1>13

LEMMA EventAgesKeepsIInv ==
    ASSUME IInv, NEW t \in Tickets, EventAges(t)
    PROVE  IInv'
<1> USE DEF IInv
<1> DEFINE new == [event[t] EXCEPT !.old = TRUE]
<1>0. event[t] # None /\ event[t] \in EventRow
  BY DEF TypeOK, EventAges, rest
<1>1. new \in EventRow /\ new # None /\ new.old
  <2>1. new \in EventRow /\ new.old
    BY <1>0 DEF EventRow
  <2> QED BY <2>1 DEF EventRow
<1>2. event' = [event EXCEPT ![t] = new] /\ t \in DOMAIN event
  BY DEF TypeOK, EventAges, rest
<1>3. UNCHANGED <<key, ticket, outbox, dead, job, extra, run, req, replay, sweep, faults>>
  BY DEF EventAges, rest
<1> HIDE DEF new
<1>11. TypeOK'
  <2>1. event' \in [Tickets -> EventRow \cup {None}]
    BY <1>0, <1>1, <1>2, <1>3 DEF TypeOK
  <2> QED BY <2>1, <1>3 DEF TypeOK
<1>12. HasEvent'
  BY <1>0, <1>1, <1>2, <1>3 DEF HasEvent, TypeOK, EventRow
<1>13. DoomedEvents'
  BY <1>0, <1>1, <1>2, <1>3 DEF DoomedEvents, TypeOK, EventRow
<1>14. Ingesting' /\ HasTicket' /\ DoomedRows' /\ DoomedTickets' /\ Phases'
  BY <1>3 DEF Ingesting, HasTicket, DoomedRows, DoomedTickets, Phases
<1> QED BY <1>11, <1>12, <1>13, <1>14

LEMMA TicketAgesKeepsIInv ==
    ASSUME IInv, NEW t \in Tickets, TicketAges(t)
    PROVE  IInv'
<1> USE DEF IInv
<1> DEFINE new == [ticket[t] EXCEPT !.old = TRUE]
<1>0. ticket[t] # None /\ ticket[t] \in TicketRow
  BY DEF TypeOK, TicketAges, EventIsOld, rest
<1>1. new \in TicketRow /\ new # None /\ new.status = ticket[t].status
  <2>1. new \in TicketRow /\ new.status = ticket[t].status
    BY <1>0 DEF TicketRow
  <2> QED BY <2>1 DEF TicketRow
<1>2. ticket' = [ticket EXCEPT ![t] = new] /\ t \in DOMAIN ticket
  BY DEF TypeOK, TicketAges, EventIsOld, rest
<1>4. event[t] # None => event[t].old
  BY DEF TicketAges, EventIsOld
<1>3. UNCHANGED <<key, event, outbox, dead, job, extra, run, req, replay, sweep, faults>>
  BY DEF TicketAges, EventIsOld, rest
<1> HIDE DEF new
<1>11. TypeOK'
  <2>1. ticket' \in [Tickets -> TicketRow \cup {None}]
    BY <1>0, <1>1, <1>2, <1>3 DEF TypeOK
  <2> QED BY <2>1, <1>3 DEF TypeOK
<1>12. HasEvent'
  BY <1>0, <1>1, <1>2, <1>3, <1>4 DEF HasEvent, TypeOK, TicketRow
<1>13. HasTicket'
  <2>1. \A u \in Tickets : ticket[u] # None => ticket'[u] # None
    BY <1>0, <1>1, <1>2, <1>3 DEF TypeOK
  <2>2. \A k \in Keys : key[k] # None /\ key[k].ticket # None => key[k].ticket \in Tickets
    BY DEF TypeOK, KeyRow
  <2> QED BY <2>1, <2>2, <1>3 DEF HasTicket
<1>14. DoomedTickets'
  <2>1. t \notin sweep.tickets
    BY DEF DoomedTickets, TicketAges
  <2>2. \A u \in sweep.tickets : ticket'[u] = ticket[u]
    BY <1>2, <2>1 DEF TypeOK
  <2> QED BY <2>2, <1>3 DEF DoomedTickets
<1>15. DoomedEvents'
  BY <1>0, <1>1, <1>2, <1>3 DEF DoomedEvents, TypeOK, TicketRow
<1>16. Ingesting' /\ DoomedRows' /\ Phases'
  BY <1>3 DEF Ingesting, DoomedRows, Phases
<1> QED BY <1>11, <1>12, <1>13, <1>14, <1>15, <1>16

LEMMA OutboxAgesKeepsIInv ==
    ASSUME IInv, NEW t \in Tickets, OutboxAges(t)
    PROVE  IInv'
<1> USE DEF IInv
<1> DEFINE new == [outbox[t] EXCEPT !.old = TRUE]
<1>0. outbox[t] # None /\ outbox[t] \in OutboxRow
  BY DEF TypeOK, OutboxAges, rest
<1>1. new \in OutboxRow /\ new # None /\ new.status = outbox[t].status
  <2>1. new \in OutboxRow /\ new.status = outbox[t].status
    BY <1>0 DEF OutboxRow
  <2> QED BY <2>1 DEF OutboxRow
<1>2. outbox' = [outbox EXCEPT ![t] = new] /\ t \in DOMAIN outbox
  BY DEF TypeOK, OutboxAges, rest
<1>3. UNCHANGED <<key, event, ticket, dead, job, extra, run, req, replay, sweep, faults>>
  BY DEF OutboxAges, rest
<1> HIDE DEF new
<1>11. TypeOK'
  <2>1. outbox' \in [Tickets -> OutboxRow \cup {None}]
    BY <1>0, <1>1, <1>2, <1>3 DEF TypeOK
  <2> QED BY <2>1, <1>3 DEF TypeOK
<1>12. DoomedRows'
  BY <1>0, <1>1, <1>2, <1>3 DEF DoomedRows
<1>13. Ingesting' /\ HasEvent' /\ HasTicket' /\ DoomedTickets' /\ DoomedEvents' /\ Phases'
  BY <1>3 DEF Ingesting, HasEvent, HasTicket, DoomedTickets, DoomedEvents, Phases
<1> QED BY <1>11, <1>12, <1>13

LEMMA DeadAgesKeepsIInv ==
    ASSUME IInv, NEW d \in DeadIds, DeadAges(d)
    PROVE  IInv'
<1> USE DEF IInv, DeadAges, rest
<1> DEFINE new == [dead[d] EXCEPT !.old = TRUE]
<1>0. dead[d] \in DeadRow
  BY DEF TypeOK
<1>1. new \in DeadRow /\ new # None /\ new.status = dead[d].status
  <2>1. new \in DeadRow /\ new.status = dead[d].status
    BY <1>0 DEF DeadRow
  <2> QED BY <2>1 DEF DeadRow
<1>2. dead' = [dead EXCEPT ![d] = new] /\ dead[d] # None /\ d \in DOMAIN dead
  BY DEF TypeOK
<1> HIDE DEF new
<1>11. TypeOK'
  <2>1. dead' \in [DeadIds -> DeadRow \cup {None}]
    BY <1>1, <1>2 DEF TypeOK
  <2> QED BY <2>1 DEF TypeOK
<1>3. dead'[d] = new /\ \A e \in DeadIds : e # d => dead'[e] = dead[e]
  BY <1>2 DEF TypeOK
<1>12. DoomedRows'
  <2>1. UNCHANGED <<sweep, outbox, key>>
    OBVIOUS
  <2>2. ASSUME NEW e \in sweep.dead PROVE dead'[e] # None /\ dead'[e].status = "REPLAYED"
    <3>1. e \in DeadIds /\ dead[e] # None /\ dead[e].status = "REPLAYED"
      BY <2>2 DEF DoomedRows, TypeOK
    <3> QED BY <3>1, <1>1, <1>3
  <2> QED BY <2>1, <2>2 DEF DoomedRows
<1>13. Ingesting' /\ HasEvent' /\ HasTicket' /\ DoomedTickets' /\ DoomedEvents' /\ Phases'
  BY DEF Ingesting, HasEvent, HasTicket, DoomedTickets, DoomedEvents, Phases
<1> QED BY <1>11, <1>12, <1>13

LEMMA BeginKeepsIInv ==
    ASSUME IInv, Begin
    PROVE  IInv'
<1> USE DEF IInv, Begin, NoSweep, rest
<1>11. TypeOK'
  BY DEF TypeOK, Ingesting, Statements
<1>12. DoomedRows'
  BY DEF DoomedRows, Ingesting, TypeOK
<1>13. DoomedTickets'
  BY DEF DoomedTickets, DoomedRows, Ingesting, TypeOK
<1>14. DoomedEvents'
  BY DEF DoomedEvents, TypeOK
<1>15. Phases'
  BY DEF Phases, TypeOK
<1>16. Ingesting' /\ HasEvent' /\ HasTicket'
  BY DEF Ingesting, HasEvent, HasTicket
<1> QED BY <1>11, <1>12, <1>13, <1>14, <1>15, <1>16

LEMMA DeleteOutboxKeepsIInv ==
    ASSUME IInv, DeleteOutbox
    PROVE  IInv'
<1> USE DEF IInv, DeleteOutbox, OutboxExpired, NoSweep, Statements, rest
<1>11. TypeOK'
  BY DEF TypeOK, Ingesting
<1>12. DoomedRows'
  BY DEF DoomedRows, Ingesting, TypeOK
<1>13. DoomedTickets'
  BY DEF DoomedTickets, DoomedRows, Ingesting, TypeOK
<1>14. DoomedEvents'
  BY DEF DoomedEvents, TypeOK
<1>15. Phases'
  BY DEF Phases, TypeOK
<1>16. Ingesting' /\ HasEvent' /\ HasTicket'
  BY DEF Ingesting, HasEvent, HasTicket
<1> QED BY <1>11, <1>12, <1>13, <1>14, <1>15, <1>16

LEMMA DeleteDeadLettersKeepsIInv ==
    ASSUME IInv, DeleteDeadLetters
    PROVE  IInv'
<1> USE DEF IInv, DeleteDeadLetters, DeadExpired, NoSweep, Statements, rest
<1>11. TypeOK'
  BY DEF TypeOK, Ingesting
<1>12. DoomedRows'
  BY DEF DoomedRows, Ingesting, TypeOK
<1>13. DoomedTickets'
  BY DEF DoomedTickets, DoomedRows, Ingesting, TypeOK
<1>14. DoomedEvents'
  BY DEF DoomedEvents, TypeOK
<1>15. Phases'
  BY DEF Phases, TypeOK
<1>16. Ingesting' /\ HasEvent' /\ HasTicket'
  BY DEF Ingesting, HasEvent, HasTicket
<1> QED BY <1>11, <1>12, <1>13, <1>14, <1>15, <1>16

LEMMA DeleteKeysKeepsIInv ==
    ASSUME IInv, DeleteKeys
    PROVE  IInv'
<1> USE DEF IInv, DeleteKeys, KeyExpired, NoSweep, Statements, rest
<1>11. TypeOK'
  BY DEF TypeOK, Ingesting
<1>12. DoomedRows'
  BY DEF DoomedRows, Ingesting, TypeOK
<1>13. DoomedTickets'
  <2>1. sweep.tickets = {} /\ sweep'.tickets = sweep.tickets
    BY DEF Phases, TypeOK
  <2> QED BY <2>1 DEF DoomedTickets
<1>14. DoomedEvents'
  BY DEF DoomedEvents, TypeOK
<1>15. Phases'
  BY DEF Phases, TypeOK
<1>16. Ingesting' /\ HasEvent' /\ HasTicket'
  BY DEF Ingesting, HasEvent, HasTicket
<1> QED BY <1>11, <1>12, <1>13, <1>14, <1>15, <1>16

LEMMA DeleteTicketsKeepsIInv ==
    ASSUME IInv, DeleteTickets
    PROVE  IInv'
<1> USE DEF IInv, DeleteTickets, TicketExpired, Unclaimed, NoSweep, Statements, rest
<1>11. TypeOK'
  BY DEF TypeOK, Ingesting
<1>12. DoomedRows'
  BY DEF DoomedRows, Ingesting, TypeOK
<1>13. DoomedTickets'
  BY DEF DoomedTickets, DoomedRows, Ingesting, TypeOK
<1>14. DoomedEvents'
  <2>1. sweep.events = {} /\ sweep'.events = {} /\ sweep'.pc = "events"
    BY DEF Phases, TypeOK
  <2> QED BY <2>1 DEF DoomedEvents
<1>15. Phases'
  BY DEF Phases, TypeOK
<1>16. Ingesting' /\ HasEvent' /\ HasTicket'
  BY DEF Ingesting, HasEvent, HasTicket
<1> QED BY <1>11, <1>12, <1>13, <1>14, <1>15, <1>16

LEMMA DeleteEventsKeepsIInv ==
    ASSUME IInv, DeleteEvents
    PROVE  IInv'
<1> USE DEF IInv, DeleteEvents, EventExpired, Referenced, NoSweep, Statements, rest
<1>11. TypeOK'
  BY DEF TypeOK, Ingesting
<1>12. DoomedRows'
  BY DEF DoomedRows, Ingesting, TypeOK
<1>13. DoomedTickets'
  BY DEF DoomedTickets, DoomedRows, Ingesting, TypeOK
<1>14. DoomedEvents'
  <2>1. sweep'.tickets = sweep.tickets /\ sweep.tickets \subseteq Tickets
    BY DEF TypeOK
  <2>2. sweep'.pc = "commit" => sweep'.events = {t \in Tickets : EventExpired(t)}
    BY DEF TypeOK
  <2>3. sweep'.pc # "commit" => sweep'.events = {}
    BY DEF TypeOK, Phases
  <2>4. \A t \in sweep.tickets : EventExpired(t)
    BY DEF DoomedTickets, HasEvent, TypeOK
  <2>5. CASE sweep'.pc = "commit"
    BY <2>1, <2>2, <2>4, <2>5 DEF DoomedEvents
  <2>6. CASE sweep'.pc # "commit"
    BY <2>1, <2>3, <2>6 DEF DoomedEvents
  <2> QED BY <2>5, <2>6
<1>15. Phases'
  BY DEF Phases, TypeOK
<1>16. Ingesting' /\ HasEvent' /\ HasTicket'
  BY DEF Ingesting, HasEvent, HasTicket
<1> QED BY <1>11, <1>12, <1>13, <1>14, <1>15, <1>16

LEMMA CommitKeepsIInv ==
    ASSUME IInv, Commit
    PROVE  IInv'
<1> USE DEF IInv, Commit, Without, Detached, NoSweep, rest
<1>11. TypeOK'
  BY DEF TypeOK, Ingesting, KeyRow, EventRow, TicketRow, OutboxRow, DeadRow, Statements
<1>12. Ingesting'
  <2> SUFFICES ASSUME NEW k \in Keys, req'[k] # "idle"
               PROVE  /\ key'[k] # None /\ key'[k].status = "PENDING"
                      /\ req'[k] \in {"enqueue", "complete"} => key'[k].ticket # None
    BY DEF Ingesting
  <2>1. /\ key[k] # None /\ key[k].status = "PENDING" /\ key[k] \in KeyRow
        /\ req[k] \in {"enqueue", "complete"} => key[k].ticket # None
    BY DEF Ingesting, TypeOK
  <2>2. k \notin sweep.keys
    BY <2>1 DEF DoomedRows
  <2>3. key[k].ticket \notin sweep.tickets
    BY <2>1, <2>2 DEF DoomedTickets
  <2>4. key'[k] = key[k]
    BY <2>2, <2>3
  <2> QED BY <2>1, <2>4
<1>13. HasEvent'
  <2> SUFFICES ASSUME NEW t \in Tickets, ticket'[t] # None
               PROVE  event'[t] # None /\ (ticket'[t].old => event'[t].old)
    BY DEF HasEvent
  <2>1. t \notin sweep.tickets /\ ticket'[t] = ticket[t]
    BY DEF TypeOK
  <2>2. t \notin sweep.events
    BY <2>1 DEF DoomedEvents
  <2>3. event'[t] = event[t]
    BY <2>2 DEF TypeOK
  <2> QED BY <2>1, <2>3 DEF HasEvent
<1>14. HasTicket'
  BY DEF HasTicket, TypeOK, KeyRow, TicketRow
<1>15. DoomedRows'
  BY DEF DoomedRows, Ingesting, TypeOK, KeyRow, OutboxRow, DeadRow
<1>16. DoomedTickets'
  BY DEF DoomedTickets, DoomedRows, Ingesting, TypeOK, KeyRow, TicketRow
<1>17. DoomedEvents'
  BY DEF DoomedEvents, TypeOK, EventRow, TicketRow
<1>18. Phases'
  BY DEF Phases, TypeOK
<1> QED BY <1>11, <1>12, <1>13, <1>14, <1>15, <1>16, <1>17, <1>18

LEMMA AbortKeepsIInv ==
    ASSUME IInv, Abort
    PROVE  IInv'
<1> USE DEF IInv, Abort, Fault, NoSweep, Statements, rest
<1>11. TypeOK'
  BY DEF TypeOK, Ingesting
<1>12. DoomedRows'
  BY DEF DoomedRows, Ingesting, TypeOK
<1>13. DoomedTickets'
  BY DEF DoomedTickets, DoomedRows, Ingesting, TypeOK
<1>14. DoomedEvents'
  BY DEF DoomedEvents, TypeOK
<1>15. Phases'
  BY DEF Phases, TypeOK
<1>16. Ingesting' /\ HasEvent' /\ HasTicket'
  BY DEF Ingesting, HasEvent, HasTicket
<1> QED BY <1>11, <1>12, <1>13, <1>14, <1>15, <1>16

-----------------------------------------------------------------------------
LEMMA InitIInv == Init => IInv
<1> SUFFICES ASSUME Init PROVE IInv
  OBVIOUS
<1> USE DEF Init, NoSweep
<1>1. TypeOK
  BY DEF TypeOK, Statements
<1>2. Ingesting /\ HasEvent /\ HasTicket
  BY DEF Ingesting, HasEvent, HasTicket
<1>3. DoomedRows /\ DoomedTickets /\ DoomedEvents /\ Phases
  BY DEF DoomedRows, DoomedTickets, DoomedEvents, Phases
<1> QED BY <1>1, <1>2, <1>3 DEF IInv

LEMMA StepKeepsIInv == IInv /\ [Next]_vars => IInv'
<1> SUFFICES ASSUME IInv, [Next]_vars PROVE IInv'
  OBVIOUS
<1>1. ASSUME NEW k \in Keys,
             \/ Claim(k) \/ Create(k) \/ Enqueue(k) \/ MarkCompleted(k) \/ RequestFails(k)
             \/ JobRemoved(k) \/ KeyAges(k)
      PROVE  IInv'
  BY <1>1, ClaimKeepsIInv, CreateKeepsIInv, EnqueueKeepsIInv, MarkCompletedKeepsIInv,
     RequestFailsKeepsIInv, JobRemovedKeepsIInv, KeyAgesKeepsIInv
<1>2. ASSUME NEW w \in Workers,
             \/ (\E t \in Tickets : Load(w, t))
             \/ (\E outcome \in {"ENRICHED", "DEGRADED"} : Write(w, outcome))
             \/ RunFails(w)
      PROVE  IInv'
  BY <1>2, LoadKeepsIInv, WriteKeepsIInv, RunFailsKeepsIInv
<1>3. ASSUME NEW t \in Tickets,
             Reconcile(t) \/ Dispatch(t) \/ EventAges(t) \/ TicketAges(t) \/ OutboxAges(t)
      PROVE  IInv'
  BY <1>3, ReconcileKeepsIInv, DispatchKeepsIInv, EventAgesKeepsIInv, TicketAgesKeepsIInv,
     OutboxAgesKeepsIInv
<1>4. ASSUME NEW d \in DeadIds, Flip(d) \/ EnqueueReplay(d) \/ Revert(d) \/ DeadAges(d)
      PROVE  IInv'
  BY <1>4, FlipKeepsIInv, EnqueueReplayKeepsIInv, RevertKeepsIInv, DeadAgesKeepsIInv
<1>5. ASSUME \/ Begin \/ DeleteOutbox \/ DeleteDeadLetters \/ DeleteKeys \/ DeleteTickets
             \/ DeleteEvents \/ Commit \/ Abort
      PROVE  IInv'
  BY <1>5, BeginKeepsIInv, DeleteOutboxKeepsIInv, DeleteDeadLettersKeepsIInv,
     DeleteKeysKeepsIInv, DeleteTicketsKeepsIInv, DeleteEventsKeepsIInv, CommitKeepsIInv,
     AbortKeepsIInv
<1>6. ASSUME UNCHANGED vars PROVE IInv'
  <2>1. TypeOK' /\ Ingesting' /\ HasEvent' /\ HasTicket'
    BY <1>6 DEF vars, IInv, TypeOK, Ingesting, HasEvent, HasTicket
  <2>2. DoomedRows' /\ DoomedTickets' /\ DoomedEvents' /\ Phases'
    BY <1>6 DEF vars, IInv, DoomedRows, DoomedTickets, DoomedEvents, Phases
  <2> QED BY <2>1, <2>2 DEF IInv
<1> QED BY <1>1, <1>2, <1>3, <1>4, <1>5, <1>6 DEF Next

\* The inductive invariant: besides the types, what the locks of the transaction
\* and the guards of ingestion keep true from one statement to the next.
THEOREM SweepInvariant == Spec => []IInv
BY InitIInv, StepKeepsIInv, PTL DEF Spec

\* Every variable keeps its type.
THEOREM TypeCorrect == Spec => []TypeOK
<1>1. IInv => TypeOK
  BY DEF IInv
<1> QED BY <1>1, SweepInvariant, PTL

\* The transaction is never refused by ON DELETE RESTRICT, whatever commits
\* between its statements, and no ticket loses its event, no key its ticket.
THEOREM EveryReferenceHolds == Spec => []ReferencesHold
<1>1. IInv => ReferencesHold
  BY DEF IInv, Phases, HasEvent, HasTicket, ReferencesHold
<1> QED BY <1>1, SweepInvariant, PTL

-----------------------------------------------------------------------------
(* Only Commit removes a row; every other step leaves the rows where they    *)
(* are and the keys with their tickets.                                      *)

LEMMA KeysStay ==
    ASSUME IInv, [Next]_vars, ~Commit, NEW k \in Keys, key[k] # None
    PROVE  key'[k] # None /\ (key[k].ticket # None => key'[k].ticket = key[k].ticket)
<1>1. key[k] \in KeyRow /\ k \in DOMAIN key
  BY DEF IInv, TypeOK
<1>2. \A s \in {"PENDING", "COMPLETED", "FAILED"} :
         LET row == [key[k] EXCEPT !.status = s] IN row # None /\ row.ticket = key[k].ticket
  <2> TAKE s \in {"PENDING", "COMPLETED", "FAILED"}
  <2> DEFINE row == [key[k] EXCEPT !.status = s]
  <2>1. row \in KeyRow /\ row.ticket = key[k].ticket
    BY <1>1 DEF KeyRow
  <2> HIDE DEF row
  <2>2. row # None
    BY <2>1 DEF KeyRow
  <2> QED BY <2>1, <2>2 DEF row
<1>3. LET row == [key[k] EXCEPT !.old = TRUE] IN row # None /\ row.ticket = key[k].ticket
  <2> DEFINE row == [key[k] EXCEPT !.old = TRUE]
  <2>1. row \in KeyRow /\ row.ticket = key[k].ticket
    BY <1>1 DEF KeyRow
  <2> HIDE DEF row
  <2>2. row # None
    BY <2>1 DEF KeyRow
  <2> QED BY <2>1, <2>2 DEF row
<1>4. \A t \in Tickets : [key[k] EXCEPT !.ticket = t] # None
  <2> TAKE t \in Tickets
  <2> DEFINE row == [key[k] EXCEPT !.ticket = t]
  <2>1. row \in KeyRow
    BY <1>1 DEF KeyRow
  <2> HIDE DEF row
  <2>2. row # None
    BY <2>1 DEF KeyRow
  <2> QED BY <2>2 DEF row
<1>5. \/ UNCHANGED key
      \/ \E j \in Keys : \/ Claim(j) \/ Create(j) \/ MarkCompleted(j)
                        \/ RequestFails(j) \/ KeyAges(j)
  BY DEF Next, vars, rest, Enqueue, JobRemoved, Load, Write, RunFails, Reconcile, Dispatch,
         EventAges, TicketAges, OutboxAges, Flip, EnqueueReplay, Revert, DeadAges, Begin,
         DeleteOutbox, DeleteDeadLetters, DeleteKeys, DeleteTickets, DeleteEvents, Abort
<1>6. ASSUME NEW j \in Keys, Claim(j)
      PROVE  key'[k] # None /\ (key[k].ticket # None => key'[k].ticket = key[k].ticket)
  BY <1>1, <1>2, <1>6 DEF Claim
<1>7. ASSUME NEW j \in Keys, Create(j)
      PROVE  key'[k] # None /\ (key[k].ticket # None => key'[k].ticket = key[k].ticket)
  BY <1>1, <1>4, <1>7 DEF Create
<1>8. ASSUME NEW j \in Keys, MarkCompleted(j) \/ RequestFails(j)
      PROVE  key'[k] # None /\ (key[k].ticket # None => key'[k].ticket = key[k].ticket)
  BY <1>1, <1>2, <1>8 DEF MarkCompleted, RequestFails
<1>9. ASSUME NEW j \in Keys, KeyAges(j)
      PROVE  key'[k] # None /\ (key[k].ticket # None => key'[k].ticket = key[k].ticket)
  BY <1>1, <1>3, <1>9 DEF KeyAges
<1> QED BY <1>5, <1>6, <1>7, <1>8, <1>9

LEMMA TicketsStay ==
    ASSUME IInv, [Next]_vars, ~Commit, NEW t \in Tickets, ticket[t] # None
    PROVE  ticket'[t] # None
<1>1. ticket[t] \in TicketRow /\ t \in DOMAIN ticket
  BY DEF IInv, TypeOK
<1>2. \A s \in {"PENDING", "ENRICHED", "DEGRADED"} : [status |-> s, old |-> FALSE] # None
  <2> TAKE s \in {"PENDING", "ENRICHED", "DEGRADED"}
  <2> DEFINE row == [status |-> s, old |-> FALSE]
  <2>1. row \in TicketRow
    BY DEF TicketRow
  <2> HIDE DEF row
  <2>2. row # None
    BY <2>1 DEF TicketRow
  <2> QED BY <2>2 DEF row
<1>3. [ticket[t] EXCEPT !.old = TRUE] # None
  <2> DEFINE row == [ticket[t] EXCEPT !.old = TRUE]
  <2>1. row \in TicketRow
    BY <1>1 DEF TicketRow
  <2> HIDE DEF row
  <2>2. row # None
    BY <2>1 DEF TicketRow
  <2> QED BY <2>2 DEF row
<1>4. \/ UNCHANGED ticket
      \/ \E k \in Keys : Create(k)
      \/ \E w \in Workers, outcome \in {"ENRICHED", "DEGRADED"} : Write(w, outcome)
      \/ \E u \in Tickets : TicketAges(u)
  BY DEF Next, vars, rest, Claim, Enqueue, MarkCompleted, RequestFails, JobRemoved, KeyAges,
         Load, RunFails, Reconcile, Dispatch, EventAges, OutboxAges, Flip, EnqueueReplay,
         Revert, DeadAges, Begin, DeleteOutbox, DeleteDeadLetters, DeleteKeys, DeleteTickets,
         DeleteEvents, Abort
<1>5. ASSUME NEW k \in Keys, Create(k)
      PROVE  ticket'[t] # None
  BY <1>1, <1>2, <1>5 DEF Create
<1>6. ASSUME NEW w \in Workers, NEW outcome \in {"ENRICHED", "DEGRADED"}, Write(w, outcome)
      PROVE  ticket'[t] # None
  BY <1>1, <1>2, <1>6 DEF Write
<1>7. ASSUME NEW u \in Tickets, TicketAges(u)
      PROVE  ticket'[t] # None
  BY <1>1, <1>3, <1>7 DEF TicketAges
<1> QED BY <1>4, <1>5, <1>6, <1>7

LEMMA OutboxStays ==
    ASSUME IInv, [Next]_vars, ~Commit, NEW t \in Tickets, outbox[t] # None
    PROVE  outbox'[t] # None
<1>1. outbox[t] \in OutboxRow /\ t \in DOMAIN outbox
  BY DEF IInv, TypeOK
<1>2. \A s \in {"SENT", "FAILED"} : [outbox[t] EXCEPT !.status = s] # None
  <2> TAKE s \in {"SENT", "FAILED"}
  <2> DEFINE row == [outbox[t] EXCEPT !.status = s]
  <2>1. row \in OutboxRow
    BY <1>1 DEF OutboxRow
  <2> HIDE DEF row
  <2>2. row # None
    BY <2>1 DEF OutboxRow
  <2> QED BY <2>2 DEF row
<1>3. [outbox[t] EXCEPT !.old = TRUE] # None
  <2> DEFINE row == [outbox[t] EXCEPT !.old = TRUE]
  <2>1. row \in OutboxRow
    BY <1>1 DEF OutboxRow
  <2> HIDE DEF row
  <2>2. row # None
    BY <2>1 DEF OutboxRow
  <2> QED BY <2>2 DEF row
<1>4. \/ UNCHANGED outbox
      \/ \E w \in Workers, outcome \in {"ENRICHED", "DEGRADED"} : Write(w, outcome)
      \/ \E u \in Tickets : Dispatch(u) \/ OutboxAges(u)
  BY DEF Next, vars, rest, Claim, Create, Enqueue, MarkCompleted, RequestFails, JobRemoved,
         KeyAges, Load, RunFails, Reconcile, EventAges, TicketAges, Flip, EnqueueReplay,
         Revert, DeadAges, Begin, DeleteOutbox, DeleteDeadLetters, DeleteKeys, DeleteTickets,
         DeleteEvents, Abort
<1>5. ASSUME NEW w \in Workers, NEW outcome \in {"ENRICHED", "DEGRADED"}, Write(w, outcome)
      PROVE  outbox'[t] # None
  BY <1>1, <1>5 DEF Write
<1>6. ASSUME NEW u \in Tickets, Dispatch(u)
      PROVE  outbox'[t] # None
  BY <1>1, <1>2, <1>6 DEF Dispatch, DispatchResults
<1>7. ASSUME NEW u \in Tickets, OutboxAges(u)
      PROVE  outbox'[t] # None
  BY <1>1, <1>3, <1>7 DEF OutboxAges
<1> QED BY <1>4, <1>5, <1>6, <1>7

LEMMA DeadLettersStay ==
    ASSUME IInv, [Next]_vars, ~Commit, NEW d \in DeadIds, dead[d] # None
    PROVE  dead'[d] # None
<1>1. dead[d] \in DeadRow /\ d \in DOMAIN dead
  BY DEF IInv, TypeOK
<1>2. \A s \in {"PENDING", "REPLAYED"} : [dead[d] EXCEPT !.status = s] # None
  <2> TAKE s \in {"PENDING", "REPLAYED"}
  <2> DEFINE row == [dead[d] EXCEPT !.status = s]
  <2>1. row \in DeadRow
    BY <1>1 DEF DeadRow
  <2> HIDE DEF row
  <2>2. row # None
    BY <2>1 DEF DeadRow
  <2> QED BY <2>2 DEF row
<1>3. [dead[d] EXCEPT !.old = TRUE] # None
  <2> DEFINE row == [dead[d] EXCEPT !.old = TRUE]
  <2>1. row \in DeadRow
    BY <1>1 DEF DeadRow
  <2> HIDE DEF row
  <2>2. row # None
    BY <2>1 DEF DeadRow
  <2> QED BY <2>2 DEF row
<1>4. \/ UNCHANGED dead
      \/ \E t \in Tickets : DeadLetter(t)
      \/ \E c \in DeadIds : Flip(c) \/ Revert(c) \/ DeadAges(c)
  <2>1. ASSUME NEW w \in Workers, RunFails(w)
        PROVE  \E t \in Tickets : DeadLetter(t)
    BY <2>1 DEF RunFails, IInv, TypeOK
  <2>2. ASSUME NEW w \in Workers, NEW t \in Tickets, Load(w, t)
        PROVE  UNCHANGED dead \/ DeadLetter(t)
    BY <2>2 DEF Load
  <2> QED BY <2>1, <2>2 DEF Next, vars, rest, Claim, Create, Enqueue, MarkCompleted, RequestFails, JobRemoved,
             KeyAges, Write, Reconcile, Dispatch, EventAges, TicketAges, OutboxAges,
             EnqueueReplay, Begin, DeleteOutbox, DeleteDeadLetters, DeleteKeys, DeleteTickets,
             DeleteEvents, Abort
<1>5. ASSUME NEW t \in Tickets, DeadLetter(t)
      PROVE  dead'[d] # None
  BY <1>1, <1>5 DEF DeadLetter
<1>6. ASSUME NEW c \in DeadIds, Flip(c) \/ Revert(c)
      PROVE  dead'[d] # None
  BY <1>1, <1>2, <1>6 DEF Flip, Revert
<1>7. ASSUME NEW c \in DeadIds, DeadAges(c)
      PROVE  dead'[d] # None
  BY <1>1, <1>3, <1>7 DEF DeadAges
<1> QED BY <1>4, <1>5, <1>6, <1>7

-----------------------------------------------------------------------------
(* What a commit removes, and the four action properties.                    *)

\* No ledger row outlives the ticket it points at.
THEOREM KeysKeepTheirTickets == Spec => SurvivingKeyKeepsTicket
<1>1. ASSUME IInv, [Next]_vars,
             NEW k \in Keys, key[k] # None, key'[k] # None, key[k].ticket # None
      PROVE  key'[k].ticket = key[k].ticket
  <2>1. CASE ~Commit
    BY <1>1, <2>1, KeysStay
  <2>2. CASE Commit
    <3>1. k \notin sweep.keys
      BY <1>1, <2>2 DEF Commit
    <3>2. key[k].ticket \notin sweep.tickets
      BY <1>1, <3>1 DEF IInv, DoomedTickets
    <3>3. key'[k] = key[k]
      BY <2>2, <3>1, <3>2 DEF Commit, Detached
    <3> QED BY <3>3
  <2> QED BY <2>1, <2>2
<1>2. IInv /\ [Next]_vars =>
        \A k \in Keys : key[k] # None /\ key'[k] # None /\ key[k].ticket # None
            => key'[k].ticket = key[k].ticket
  BY <1>1
<1> QED BY <1>2, SweepInvariant, PTL DEF Spec, SurvivingKeyKeepsTicket

\* The sweep's deletions are decided by statements and take effect at the commit;
\* no row has become live work in between, however the two are interleaved.
THEOREM NoLiveWorkIsPruned == Spec => LiveWorkSurvives
<1> DEFINE Survives ==
       /\ \A t \in Tickets :
            /\ ticket[t] # None /\ ticket[t].status # "ENRICHED" => ticket'[t] # None
            /\ outbox[t] # None /\ outbox[t].status = "PENDING" => outbox'[t] # None
       /\ \A d \in DeadIds :
            dead[d] # None /\ dead[d].status = "PENDING" => dead'[d] # None
       /\ \A k \in Keys :
            key[k] # None /\ (key[k].status # "COMPLETED" \/ req[k] # "idle")
                => key'[k] # None
<1>1. ASSUME IInv, [Next]_vars PROVE Survives
  <2>1. CASE ~Commit
    BY <1>1, <2>1, KeysStay, TicketsStay, OutboxStays, DeadLettersStay
  <2>2. CASE Commit
    <3>1. ASSUME NEW t \in Tickets, ticket[t] # None, ticket[t].status # "ENRICHED"
          PROVE  ticket'[t] # None
      BY <1>1, <2>2, <3>1 DEF Commit, Without, IInv, DoomedTickets, TypeOK
    <3>2. ASSUME NEW t \in Tickets, outbox[t] # None, outbox[t].status = "PENDING"
          PROVE  outbox'[t] # None
      BY <1>1, <2>2, <3>2 DEF Commit, Without, IInv, DoomedRows, TypeOK
    <3>3. ASSUME NEW d \in DeadIds, dead[d] # None, dead[d].status = "PENDING"
          PROVE  dead'[d] # None
      BY <1>1, <2>2, <3>3 DEF Commit, Without, IInv, DoomedRows, TypeOK
    <3>4. ASSUME NEW k \in Keys, key[k] # None, key[k].status # "COMPLETED" \/ req[k] # "idle"
          PROVE  key'[k] # None
      <4>1. key[k].status # "COMPLETED"
        BY <1>1, <3>4 DEF IInv, Ingesting
      <4>2. k \notin sweep.keys
        BY <1>1, <4>1 DEF IInv, DoomedRows
      <4>3. key[k].ticket \notin sweep.tickets
        BY <1>1, <3>4, <4>2 DEF IInv, DoomedTickets
      <4>4. key'[k] = key[k]
        BY <2>2, <4>2, <4>3 DEF Commit, Detached
      <4> QED BY <3>4, <4>4
    <3> QED BY <3>1, <3>2, <3>3, <3>4
  <2> QED BY <2>1, <2>2
<1>2. IInv /\ [Next]_vars => Survives
  BY <1>1
<1> QED BY <1>2, SweepInvariant, PTL DEF Spec, LiveWorkSurvives

\* A ticket is never removed without its event.
THEOREM TicketAndEventGoTogether == Spec => TicketTakesItsEvent
<1>1. ASSUME IInv, [Next]_vars, NEW t \in Tickets, ticket[t] # None, ticket'[t] = None
      PROVE  event'[t] = None
  <2>1. Commit
    BY <1>1, TicketsStay
  <2>2. t \in sweep.tickets
    BY <1>1, <2>1 DEF Commit, Without, IInv, TypeOK
  <2>3. t \in sweep.events
    BY <1>1, <2>1, <2>2 DEF Commit, IInv, DoomedEvents
  <2> QED BY <1>1, <2>1, <2>3 DEF Commit, Without, IInv, TypeOK
<1>2. IInv /\ [Next]_vars =>
        \A t \in Tickets : ticket[t] # None /\ ticket'[t] = None => event'[t] = None
  BY <1>1
<1> QED BY <1>2, SweepInvariant, PTL DEF Spec, TicketTakesItsEvent

\* A run that loaded a ticket before it was pruned writes no outbox row for it.
THEOREM GoneTicketsStaySilent == Spec => NoEffectOfAGoneTicket
<1>1. ASSUME IInv, [Next]_vars, NEW t \in Tickets, outbox[t] = None, outbox'[t] # None
      PROVE  ticket'[t] # None
  <2>1. ~Commit
    BY <1>1 DEF Commit, Without, IInv, TypeOK
  <2>2. t \in DOMAIN outbox
    BY <1>1 DEF IInv, TypeOK
  <2>3. PICK w \in Workers, outcome \in {"ENRICHED", "DEGRADED"} :
           Write(w, outcome) /\ run[w].ticket = t /\ Affects(t, outcome)
    <3>1. \E w \in Workers, outcome \in {"ENRICHED", "DEGRADED"} : Write(w, outcome)
      <4>1. \/ outbox' = outbox
            \/ \E u \in Tickets : outbox[u] # None /\ \E r : outbox' = [outbox EXCEPT ![u] = r]
            \/ \E w \in Workers, outcome \in {"ENRICHED", "DEGRADED"} : Write(w, outcome)
        BY <1>1, <2>1 DEF Next, vars, rest, Claim, Create, Enqueue, MarkCompleted, RequestFails, JobRemoved,
         KeyAges, Load, RunFails, Reconcile, Dispatch, EventAges, TicketAges, OutboxAges,
         Flip, EnqueueReplay, Revert, DeadAges, Begin, DeleteOutbox, DeleteDeadLetters,
         DeleteKeys, DeleteTickets, DeleteEvents, Abort
      <4> QED BY <1>1, <2>2, <4>1
    <3>2. PICK w \in Workers, outcome \in {"ENRICHED", "DEGRADED"} : Write(w, outcome)
      BY <3>1
    <3>3. run[w].ticket = t /\ Affects(t, outcome)
      BY <1>1, <2>2, <3>2 DEF Write, Announces
    <3> QED BY <3>2, <3>3
  <2>4. ticket[t] # None
    BY <2>3 DEF Affects
  <2> QED BY <1>1, <2>1, <2>4, TicketsStay
<1>2. IInv /\ [Next]_vars =>
        \A t \in Tickets : outbox[t] = None /\ outbox'[t] # None => ticket'[t] # None
  BY <1>1
<1> QED BY <1>2, SweepInvariant, PTL DEF Spec, NoEffectOfAGoneTicket
=============================================================================
