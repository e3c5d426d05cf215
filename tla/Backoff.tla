------------------------------ MODULE Backoff -------------------------------
(***************************************************************************)
(* backoffWithJitter, and one client of it that keeps failing: a pipeline  *)
(* job, an outbox row, an upgrade chain or a call of the model.  Times are *)
(* in milliseconds.                                                        *)
(***************************************************************************)
EXTENDS Naturals

CONSTANTS
    Uses,   \* the options of each caller and how many retries it makes
    Draws   \* what Math.random() returns, in hundredths

\* What the constants stand for.
BackoffAssumption ==
    /\ Uses \subseteq [base : Nat, cap : Nat, retries : Nat]
    /\ Draws \subseteq 0 .. 99

VARIABLES
    use,      \* who calls
    attempt,  \* retries scheduled so far
    delay     \* the last one's delay

vars == <<use, attempt, delay>>

\* 2 ** n
TwoTo[n \in Nat] == IF n = 0 THEN 1 ELSE 2 * TwoTo[n - 1]

\* min(cap, base * 2 ** max(0, attempt - 1))
Exp(u, n) ==
    LET term == u.base * TwoTo[IF n > 0 THEN n - 1 ELSE 0] IN
    IF term < u.cap THEN term ELSE u.cap

\* "Full jitter" from the base up.
Bug_FullJitter(u, n, draw) ==
    LET least == IF u.base < Exp(u, n) THEN u.base ELSE Exp(u, n) IN
    least + ((Exp(u, n) - least) * draw) \div 100

\* floor(half + random * half), where half may be no integer.
Delay(u, n, draw) == (Exp(u, n) * (100 + draw)) \div 200

Init ==
    /\ use \in Uses
    /\ attempt = 0
    /\ delay = 0

Retry ==
    /\ attempt < use.retries
    /\ attempt' = attempt + 1
    /\ \E draw \in Draws : delay' = Delay(use, attempt', draw)
    /\ UNCHANGED use

Spec == Init /\ [][Retry]_vars

-----------------------------------------------------------------------------

\* "The exponential term spreads retries out as failures persist": below the cap
\* every delay is longer than the last, however the jitter of the two fell, from
\* a base of 1 on; and from the cap on none is shorter than half of it.
SpreadsOut ==
    [][IF use.base * TwoTo[attempt'] <= 2 * use.cap
       THEN use.base > 0 => attempt = 0 \/ delay' > delay
       ELSE delay' >= use.cap \div 2]_vars
=============================================================================
