------------------------------ MODULE Delivery -------------------------------
(***************************************************************************)
(* What the outbox promises of each side effect, whatever the relay does:  *)
(* once promised it is either confirmed, and then the target did receive   *)
(* it, or abandoned, and neither is ever taken back.  It may be received   *)
(* more than once, and also though it was abandoned, but never unpromised. *)
(***************************************************************************)
CONSTANT Messages

VARIABLES
    state,     \* what has been decided about each message
    received   \* the messages that the target has received

vars == <<state, received>>

State == {"none", "promised", "confirmed", "abandoned"}

TypeOK ==
    /\ state \in [Messages -> State]
    /\ received \subseteq Messages

Init ==
    /\ state = [m \in Messages |-> "none"]
    /\ received = {}

\* The state change that warrants the side effect is committed with it.
Promise(m) ==
    /\ state[m] = "none"
    /\ state' = [state EXCEPT ![m] = "promised"]
    /\ UNCHANGED received

Receive(m) ==
    /\ state[m] # "none"
    /\ received' = received \cup {m}
    /\ UNCHANGED state

\* One decision about several messages at once.
Decide(confirmed, abandoned) ==
    /\ \A m \in confirmed \cup abandoned : state[m] = "promised"
    /\ confirmed \subseteq received
    /\ state' = [m \in Messages |-> IF m \in confirmed THEN "confirmed"
                                    ELSE IF m \in abandoned THEN "abandoned"
                                    ELSE state[m]]
    /\ UNCHANGED received

Next ==
    \/ \E m \in Messages : Promise(m) \/ Receive(m)
    \/ \E confirmed, abandoned \in SUBSET Messages : Decide(confirmed, abandoned)

Spec == Init /\ [][Next]_vars

\* No message stays promised for ever.
EventuallyDecided ==
    \A m \in Messages : state[m] = "promised" ~> state[m] \in {"confirmed", "abandoned"}
=============================================================================
