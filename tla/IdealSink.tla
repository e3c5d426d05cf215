----------------------------- MODULE IdealSink -----------------------------
(***************************************************************************)
(* What the at-least-once outbox relies on the consumer having: a receiver *)
(* that remembers every key and answers, of each delivery, whether it is a *)
(* repeat.  A restart forgets everything.                                  *)
(***************************************************************************)
CONSTANTS
    DedupKeys,
    NoAnswer

VARIABLES
    known,  \* the keys received
    reply   \* the last answer

Init == known = {} /\ reply = NoAnswer

Receive(k) ==
    /\ reply' = [key |-> k, duplicate |-> k \in known]
    /\ known' = known \cup {k}

Restart == known' = {} /\ reply' = NoAnswer

Next == (\E k \in DedupKeys : Receive(k)) \/ Restart

Spec == Init /\ [][Next]_<<known, reply>>
=============================================================================
