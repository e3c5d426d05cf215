---------------------------- MODULE MCReconcile -----------------------------
(***************************************************************************)
(* The two views of the reconcile sweep for TLC: a behaviour is one of the *)
(* timing or one of the backlog, and the other view stays at a state in    *)
(* which nothing is to be done.                                            *)
(***************************************************************************)
EXTENDS Reconcile

VARIABLES view

NoBacklog ==
    /\ degraded = {} /\ young = {} /\ ahead = [t \in Tickets |-> {}]
    /\ jobs = [t \in Tickets |-> "none"]
    /\ moved = {} /\ faults = 0 /\ writes = 0

NoTicket ==
    /\ job = "none" /\ age = 0 /\ quiet = 0 /\ stranded = 0
    /\ since = [s \in Sweepers |-> 0] /\ refused = [s \in Sweepers |-> 0]

MCInit ==
    \/ view = "timing" /\ Init /\ NoBacklog
    \/ view = "backlog" /\ Backlog!Init /\ NoTicket

MCNext ==
    /\ UNCHANGED view
    /\ \/ view = "timing" /\ Next /\ UNCHANGED backlogVars
       \/ view = "backlog" /\ Backlog!Next /\ UNCHANGED vars

MCSpec == MCInit /\ [][MCNext]_<<view, vars, backlogVars>> /\ Backlog!Fairness
=============================================================================
