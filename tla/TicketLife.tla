------------------------------ MODULE TicketLife -------------------------------
(***************************************************************************)
(* What the pipeline promises of each ticket, however often and in however *)
(* many runs at once it is processed: it is triaged once, with or without  *)
(* the AI, and said so at once; a ticket triaged without is upgraded once; *)
(* an upgrade is only ever announced of a ticket that has its AI result,   *)
(* and nothing is taken back.                                              *)
(***************************************************************************)
CONSTANT Tickets

VARIABLES
    status,   \* what GET /tickets/:id shows
    told      \* the events promised to the webhook

vars == <<status, told>>

TypeOK ==
    /\ status \in [Tickets -> {"PENDING", "DEGRADED", "ENRICHED"}]
    /\ told \subseteq [ticket : Tickets, event : {"triaged", "upgraded"}]

Tell(t, event) == told' = told \cup {[ticket |-> t, event |-> event]}

Init ==
    /\ status = [t \in Tickets |-> "PENDING"]
    /\ told = {}

Triage(t, outcome) ==
    /\ status[t] = "PENDING"
    /\ status' = [status EXCEPT ![t] = outcome]
    /\ Tell(t, "triaged")

\* With its event, unless the run that upgrades the ticket had read it PENDING.
Upgrade(t) ==
    /\ status[t] = "DEGRADED"
    /\ status' = [status EXCEPT ![t] = "ENRICHED"]
    /\ Tell(t, "upgraded") \/ UNCHANGED told

\* A run that had read DEGRADED comes second and announces the upgrade as well.
TellUpgrade(t) ==
    /\ status[t] = "ENRICHED"
    /\ Tell(t, "upgraded")
    /\ UNCHANGED status

Next ==
    \E t \in Tickets :
        \/ \E outcome \in {"DEGRADED", "ENRICHED"} : Triage(t, outcome)
        \/ Upgrade(t)
        \/ TellUpgrade(t)

Spec == Init /\ [][Next]_vars
=============================================================================
