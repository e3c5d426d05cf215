------------------------------- MODULE MCDemo -------------------------------
(***************************************************************************)
(* The demo for TLC: the sink, and the page that asks it for a ticket's    *)
(* notification.  What the page needs of the sink is one answer, which     *)
(* DemoClient has as its own; so the two share no state, and a behaviour   *)
(* is one of the sink or one of the page while the other is not used.      *)
(***************************************************************************)
EXTENDS Sink

CONSTANTS
    k1, k2, k3, k4, long1, long2,
    MaxSubmits, MaxTries, MaxChecks, Overlap, Patient, MaxFaults

\* Two headers that differ only beyond MAX_KEY_LENGTH are one key.
FourKeys == {k1, k2, k3, k4}
FiveHeaders == {k1, k2, k4, long1, long2}
Slice == [h \in FiveHeaders |-> IF h \in {long1, long2} THEN k3 ELSE h]

VARIABLES
    part, sent, posting, current, pollTimer, intervals, tries, gets, checks, classified,
    notified, server, faults

pageVars == <<sent, posting, current, pollTimer, intervals, tries, gets, checks, classified,
              notified, server, faults>>

Page == INSTANCE DemoClient

ASSUME PageAssumption == Page!DemoAssumption

MCInit == part \in {"sink", "page"} /\ Init /\ Page!Init

MCNext ==
    /\ UNCHANGED part
    /\ \/ part = "sink" /\ Next /\ UNCHANGED pageVars
       \/ part = "page" /\ Page!Next /\ UNCHANGED vars

MCSpec == MCInit /\ [][MCNext]_<<part, vars, pageVars>> /\ Page!Fairness

\* See DemoClient: once a ticket was sent the page comes to rest, whether or not
\* the worker and the sink ever get to it.
ComesToRest == Page!ComesToRest
=============================================================================
