-------------------------- MODULE EnrichmentProofs ---------------------------
(***************************************************************************)
(* What the worker does to get a ticket enriched, for any number of slots, *)
(* retries and outages: the breaker's probe.  And the pure functions, for  *)
(* all their inputs: the delays of any options of the backoff, the rules   *)
(* over any keywords, the identity of any two JSON values.                 *)
(*                                                                         *)
(* The last needs recursion over values of any depth.  What a recursive    *)
(* definition defines is derived here from the least member of a set of    *)
(* naturals (Recursion), and used by induction on the height of a value.   *)
(***************************************************************************)
EXTENDS Enrichment, PureFunctions, Sequences, SequenceTheorems, FiniteSetTheorems,
        WellFoundedInduction, TLAPS

-----------------------------------------------------------------------------
(* The breaker *)

PC == {"idle", "fire", "out", "sleep"} \cup Outcome

\* A slot sleeps only before an attempt that it has.
RetriesLeft ==
    \A c \in Calls : call[c].pc = "sleep" => ~LastAttempt(call[c].attempt)

IInv == TypeOK /\ RetriesLeft /\ ProbeIsOut

Slots == [Calls -> [pc : PC, attempt : 0 .. MaxRetries + 1]]

LEMMA InitIInv == Init => IInv
<1> SUFFICES ASSUME Init PROVE IInv
  OBVIOUS
<1>1. 0 \in 0 .. MaxRetries + 1 /\ 0 \in 0 .. MaxOutages
  BY EnrichmentAssumption
<1>2. call \in Slots /\ \A c \in Calls : call[c].pc = "idle"
  BY <1>1 DEF Init, Idle, Slots, PC
<1>3. breaker = "closed" /\ probing = FALSE /\ healthy = TRUE /\ outages = 0
  BY DEF Init
<1>4. TypeOK
  BY <1>1, <1>2, <1>3 DEF TypeOK, Slots, PC
<1> QED BY <1>2, <1>3, <1>4 DEF IInv, RetriesLeft, ProbeIsOut

\* A slot goes on with its attempt, the others stay where they are.
LEMMA GoesOn ==
    ASSUME IInv, NEW c \in Calls, NEW pc \in PC, Goto(c, pc),
           pc = "sleep" => ~LastAttempt(call[c].attempt)
    PROVE  /\ call' \in Slots /\ RetriesLeft'
           /\ call'[c].pc = pc
           /\ \A d \in Calls \ {c} : call'[d] = call[d]
<1>1. /\ call \in Slots
      /\ call' = [call EXCEPT ![c] = [call[c] EXCEPT !.pc = pc]]
  BY DEF IInv, TypeOK, Goto, Slots, PC
<1>2. [call[c] EXCEPT !.pc = pc] \in [pc : PC, attempt : 0 .. MaxRetries + 1]
  BY <1>1 DEF Slots
<1>3. /\ call' \in Slots
      /\ call'[c].pc = pc /\ call'[c].attempt = call[c].attempt
      /\ \A d \in Calls \ {c} : call'[d] = call[d]
  BY <1>1, <1>2 DEF Slots
<1> QED BY <1>3 DEF IInv, RetriesLeft, LastAttempt

LEMMA CaughtGoesOn ==
    ASSUME NEW c, NEW state, Caught(c, state)
    PROVE  \E pc \in PC \ {"out"} :
              Goto(c, pc) /\ (pc = "sleep" => ~LastAttempt(call[c].attempt))
BY DEF Caught, PC, Outcome

LEMMA EnrichKeepsIInv ==
    ASSUME IInv, NEW c \in Calls, Enrich(c)
    PROVE  IInv'
<1>1. PICK step \in [pc : {"DEGRADED", "fire"}, attempt : 0 .. MaxRetries + 1] :
         call' = [call EXCEPT ![c] = step]
  <2>1. 0 \in 0 .. MaxRetries + 1 /\ 1 \in 0 .. MaxRetries + 1
    BY EnrichmentAssumption
  <2>2. \E step \in {[pc |-> "DEGRADED", attempt |-> 0], [pc |-> "fire", attempt |-> 1]} :
           call' = [call EXCEPT ![c] = step]
    BY DEF Enrich
  <2> QED BY <2>1, <2>2
<1>2. call[c].pc = "idle" /\ UNCHANGED <<breaker, probing, healthy, outages>>
  BY DEF Enrich
<1>3. /\ call' \in Slots
      /\ call'[c] = step /\ \A d \in Calls \ {c} : call'[d] = call[d]
  BY <1>1 DEF IInv, TypeOK, Slots, PC, Outcome
<1>4. RetriesLeft'
  BY <1>3 DEF IInv, RetriesLeft, LastAttempt
<1>5. ProbeIsOut'
  BY <1>2, <1>3 DEF IInv, ProbeIsOut
<1> QED BY <1>2, <1>3, <1>4, <1>5 DEF IInv, TypeOK, Slots, PC

LEMMA FireKeepsIInv ==
    ASSUME IInv, NEW c \in Calls, Fire(c)
    PROVE  IInv'
<1>1. call[c].pc = "fire" /\ UNCHANGED <<breaker, healthy, outages>>
  BY DEF Fire
<1>2. CASE Goto(c, "out") /\ probing' = (breaker = "halfOpen")
  <2>1. call' \in Slots /\ RetriesLeft' /\ call'[c].pc = "out"
    BY <1>2, GoesOn DEF PC
  <2>2. ProbeIsOut'
    BY <1>1, <1>2, <2>1 DEF ProbeIsOut
  <2>3. probing' \in BOOLEAN
    BY <1>2
  <2> QED BY <1>1, <2>1, <2>2, <2>3 DEF IInv, TypeOK, Slots, PC
<1>3. CASE Caught(c, breaker) /\ UNCHANGED probing
  <2>1. /\ call' \in Slots /\ RetriesLeft'
        /\ \A d \in Calls \ {c} : call'[d] = call[d]
    BY <1>3, CaughtGoesOn, GoesOn
  <2>2. ProbeIsOut'
    BY <1>1, <1>3, <2>1 DEF IInv, ProbeIsOut
  <2> QED BY <1>1, <1>3, <2>1, <2>2 DEF IInv, TypeOK, Slots, PC
<1> QED BY <1>2, <1>3 DEF Fire

\* An answer, the probe's or a late one, leaves no probe behind.
LEMMA AnswerKeepsIInv ==
    ASSUME IInv, NEW c \in Calls, Succeeds(c) \/ Fails(c)
    PROVE  IInv'
<1>1. PICK pc \in PC : Goto(c, pc) /\ (pc = "sleep" => ~LastAttempt(call[c].attempt))
  BY CaughtGoesOn DEF Succeeds, Fails, PC, Outcome
<1>2. call' \in Slots /\ RetriesLeft'
  BY <1>1, GoesOn
<1>3. /\ probing' = FALSE /\ UNCHANGED <<healthy, outages>>
      /\ breaker' \in {"closed", "open", "halfOpen"}
  BY DEF IInv, TypeOK, Succeeds, Fails, ProbeIsOver
<1> QED BY <1>2, <1>3 DEF IInv, TypeOK, ProbeIsOut, Slots, PC

LEMMA WakesKeepsIInv ==
    ASSUME IInv, NEW c \in Calls, Wakes(c)
    PROVE  IInv'
<1>1. /\ call[c].pc = "sleep" /\ UNCHANGED <<breaker, probing, healthy, outages>>
      /\ call' = [call EXCEPT ![c] = [pc |-> "fire", attempt |-> call[c].attempt + 1]]
  BY DEF IInv, TypeOK, Wakes, Following
<1>2. call[c].attempt + 1 \in 0 .. MaxRetries + 1
  BY <1>1, EnrichmentAssumption DEF IInv, TypeOK, RetriesLeft, LastAttempt
<1>3. /\ call' \in Slots
      /\ call'[c].pc = "fire" /\ \A d \in Calls \ {c} : call'[d] = call[d]
  BY <1>1, <1>2 DEF IInv, TypeOK, Slots, PC
<1>4. RetriesLeft' /\ ProbeIsOut'
  BY <1>1, <1>3 DEF IInv, RetriesLeft, ProbeIsOut
<1> QED BY <1>1, <1>3, <1>4 DEF IInv, TypeOK, Slots, PC

LEMMA ReturnedKeepsIInv ==
    ASSUME IInv, NEW c \in Calls, Returned(c)
    PROVE  IInv'
<1>1. /\ call[c].pc # "out" /\ UNCHANGED <<breaker, probing, healthy, outages>>
      /\ call' = [call EXCEPT ![c] = [pc |-> "idle", attempt |-> 0]]
  BY DEF Returned, Idle
<1>2. /\ call' \in Slots
      /\ call'[c].pc = "idle" /\ \A d \in Calls \ {c} : call'[d] = call[d]
  BY <1>1, EnrichmentAssumption DEF IInv, TypeOK, Slots, PC
<1>3. RetriesLeft' /\ ProbeIsOut'
  BY <1>1, <1>2 DEF IInv, RetriesLeft, ProbeIsOut
<1> QED BY <1>1, <1>2, <1>3 DEF IInv, TypeOK, Slots, PC

LEMMA RestKeepsIInv ==
    ASSUME IInv, ResetTimeout \/ GoesDown \/ ComesUp \/ UNCHANGED vars
    PROVE  IInv'
<1> USE DEF IInv, TypeOK, RetriesLeft, LastAttempt, ProbeIsOut
<1>1. CASE ResetTimeout
  BY <1>1 DEF ResetTimeout
<1>2. CASE GoesDown
  <2>1. outages' \in 0 .. MaxOutages
    BY <1>2, EnrichmentAssumption DEF GoesDown
  <2>2. UNCHANGED <<call, breaker, probing>> /\ healthy' = FALSE
    BY <1>2 DEF GoesDown
  <2> QED BY <2>1, <2>2
<1>3. CASE ComesUp
  BY <1>3 DEF ComesUp
<1>4. CASE UNCHANGED vars
  BY <1>4 DEF vars
<1> QED BY <1>1, <1>2, <1>3, <1>4

THEOREM Invariant == Spec => []IInv
<1>1. IInv /\ [Next]_vars => IInv'
  BY EnrichKeepsIInv, FireKeepsIInv, AnswerKeepsIInv, WakesKeepsIInv, ReturnedKeepsIInv,
     RestKeepsIInv DEF Next
<1> QED BY InitIInv, <1>1, PTL DEF Spec

\* Slots stay where enrich() can be, within the attempts configured, and the
\* breaker in one of its three states.
THEOREM TypeCorrect == Spec => []TypeOK
BY Invariant, PTL DEF IInv

\* However many slots share the breaker, and whichever of them answers it late, it
\* never rejects them all for a probe that nobody is making.
THEOREM ProbeIsNeverLost == Spec => []ProbeIsOut
BY Invariant, PTL DEF IInv

-----------------------------------------------------------------------------
(* Induction and recursion *)

\* Induction over the naturals, about sets of them instead of formulas.
LEMMA LeastMember ==
    ASSUME NEW S \in SUBSET Nat, S # {}
    PROVE  \E n \in S : \A m \in S : n <= m
<1>1. PICK less : less = OpToRel(<, Nat)
  OBVIOUS
<1>2. IsWellFoundedOn(less, Nat)
  BY <1>1, NatLessThanWellFounded
<1>3. \A m, n \in Nat : m < n => <<m, n>> \in less
  BY <1>1 DEF OpToRel
<1>4. PICK n \in S : \A m \in S : <<m, n>> \notin less
  BY <1>2, WFMin
<1>5. \A m \in S : ~(m < n)
  BY <1>3, <1>4
<1>6. S \subseteq Int
  BY SMT
<1> QED BY <1>5, <1>6

LEMMA SetInduction ==
    ASSUME NEW S, 0 \in S, \A n \in Nat : n \in S => n + 1 \in S
    PROVE  Nat \subseteq S
<1> SUFFICES ASSUME Nat \ S # {} PROVE FALSE
  OBVIOUS
<1>1. PICK n \in Nat \ S : \A m \in Nat \ S : n <= m
  <2>1. Nat \ S \in SUBSET Nat
    OBVIOUS
  <2> QED BY <2>1, LeastMember
<1>2. n # 0 /\ n - 1 \in Nat
  BY SMT
<1>3. n - 1 \in S
  BY <1>1, <1>2
<1> QED BY <1>2, <1>3

\* Induction over whatever has a height.
LEMMA HeightInduction ==
    ASSUME NEW D, NEW h \in [D -> Nat], NEW S,
           \A v \in D : (\A u \in D : h[u] < h[v] => u \in S) => v \in S
    PROVE  D \subseteq S
<1> DEFINE H == {h[v] : v \in D \ S}
<1> SUFFICES ASSUME D \ S # {} PROVE FALSE
  OBVIOUS
<1>1. H \in SUBSET Nat /\ H # {}
  OBVIOUS
<1>2. PICK n \in H : \A m \in H : n <= m
  BY <1>1, LeastMember
<1>3. PICK v \in D \ S : h[v] = n
  OBVIOUS
<1>4. ASSUME NEW u \in D, h[u] < h[v] PROVE u \in S
  <2> SUFFICES ASSUME u \notin S PROVE FALSE
    OBVIOUS
  <2>1. h[u] \in H
    OBVIOUS
  <2>2. n <= h[u]
    BY <1>2, <2>1
  <2>3. h[u] \in Nat /\ n \in Nat
    BY <1>1, <2>1
  <2> HIDE DEF H
  <2> QED BY <1>3, <1>4, <2>2, <2>3
<1> QED BY <1>3, <1>4

\* The value at v asks only for values at lower places.
LooksDown(D, C, h, G) ==
    \A v \in D : \A f, g \in [D -> C] :
        (\A u \in D : h[u] < h[v] => f[u] = g[u]) => G[v][f] = G[v][g]

Solutions(D, C, G) == {f \in [D -> C] : \A v \in D : f[v] = G[v][f]}

\* A recursive definition over whatever has a height defines a function.
LEMMA Recursion ==
    ASSUME NEW D, NEW h \in [D -> Nat], NEW C, C # {},
           NEW G \in [D -> [[D -> C] -> C]], LooksDown(D, C, h, G)
    PROVE  Solutions(D, C, G) # {}
<1>0. \A v \in D : \A f, g \in [D -> C] :
         (\A u \in D : h[u] < h[v] => f[u] = g[u]) => G[v][f] = G[v][g]
  BY DEF LooksDown
<1> DEFINE Up(n) == {f \in [D -> C] : \A v \in D : h[v] < n => f[v] = G[v][f]}
           S == {n \in Nat : Up(n) # {}}
<1>1. 0 \in S
  <2>1. PICK c \in C : TRUE
    OBVIOUS
  <2>2. [v \in D |-> c] \in Up(0)
    BY SMT
  <2> QED BY <2>2
<1>2. ASSUME NEW n \in Nat, n \in S PROVE n + 1 \in S
  <2>1. PICK f \in Up(n) : TRUE
    BY <1>2
  <2> DEFINE g == [v \in D |-> G[v][f]]
  <2>2. g \in [D -> C]
    OBVIOUS
  <2>3. ASSUME NEW v \in D, h[v] < n + 1 PROVE g[v] = G[v][g]
    <3>1. ASSUME NEW u \in D, h[u] < h[v] PROVE f[u] = g[u]
      <4>1. h[u] < n
        BY <2>3, <3>1
      <4> QED BY <4>1
    <3> QED BY <1>0, <2>2, <3>1
  <2>4. g \in Up(n + 1)
    BY <2>2, <2>3
  <2> HIDE DEF Up
  <2>5. Up(n + 1) # {} /\ n + 1 \in Nat
    BY <2>4
  <2> QED BY <2>5
<1>3. \A n \in Nat : Up(n) # {}
  <2> HIDE DEF S
  <2>1. Nat \subseteq S
    BY <1>1, <1>2, SetInduction
  <2> QED BY <2>1 DEF S
<1>4. ASSUME NEW m \in Nat, NEW n \in Nat, NEW f \in Up(m), NEW g \in Up(n)
      PROVE  \A v \in D : h[v] < m /\ h[v] < n => f[v] = g[v]
  <2> DEFINE A == {v \in D : h[v] < m /\ h[v] < n => f[v] = g[v]}
  <2>1. ASSUME NEW v \in D, \A u \in D : h[u] < h[v] => u \in A PROVE v \in A
    <3> SUFFICES ASSUME h[v] < m, h[v] < n PROVE f[v] = g[v]
      OBVIOUS
    <3>1. \A u \in D : h[u] < h[v] => f[u] = g[u]
      BY <2>1
    <3>2. G[v][f] = G[v][g]
      BY <1>0, <3>1
    <3> QED BY <3>2
  <2> HIDE DEF A
  <2>2. D \subseteq A
    BY <2>1, HeightInduction
  <2> QED BY <2>2 DEF A
<1> DEFINE some == [n \in Nat |-> CHOOSE f \in Up(n) : TRUE]
           F == [v \in D |-> some[h[v] + 1][v]]
<1>5. \A n \in Nat : some[n] \in Up(n)
  BY <1>3
<1> HIDE DEF some
<1>6. ASSUME NEW v \in D PROVE some[h[v] + 1] \in Up(h[v] + 1)
  BY <1>5
<1>7. F \in [D -> C]
  BY <1>6
<1>8. ASSUME NEW v \in D PROVE F[v] = G[v][F]
  <2>1. ASSUME NEW u \in D, h[u] < h[v] PROVE F[u] = some[h[v] + 1][u]
    <3> DEFINE m == h[u] + 1
               n == h[v] + 1
    <3>1. m \in Nat /\ n \in Nat /\ h[u] < m /\ h[u] < n
      BY <2>1
    <3>2. some[m] \in Up(m) /\ some[n] \in Up(n)
      BY <3>1, <1>5
    <3> HIDE DEF Up, m, n
    <3>3. some[m][u] = some[n][u]
      BY <1>4, <3>1, <3>2
    <3> QED BY <3>3 DEF m, n
  <2>2. some[h[v] + 1] \in [D -> C] /\ some[h[v] + 1][v] = G[v][some[h[v] + 1]]
    BY <1>6
  <2>3. G[v][some[h[v] + 1]] = G[v][F]
    BY <1>0, <1>7, <2>1, <2>2
  <2> QED BY <2>2, <2>3
<1> QED BY <1>7, <1>8 DEF Solutions

-----------------------------------------------------------------------------
(* The delays *)

\* The recursive definition defines 2 ** n.
LEMMA TwoToIsDefined ==
    Retries!TwoTo = [n \in Nat |-> IF n = 0 THEN 1 ELSE 2 * Retries!TwoTo[n - 1]]
<1> DEFINE h == [n \in Nat |-> n]
           Step(n, f) == IF n = 0 THEN 1 ELSE 2 * f[n - 1]
           G == [n \in Nat |-> [f \in [Nat -> Nat] |-> Step(n, f)]]
<1>1. ASSUME NEW n \in Nat PROVE n = 0 \/ (n - 1 \in Nat /\ h[n - 1] < h[n])
  OBVIOUS
<1>2. ASSUME NEW n \in Nat, NEW f \in [Nat -> Nat] PROVE Step(n, f) \in Nat
  BY <1>1
<1>3. ASSUME NEW n \in Nat, NEW f, NEW g, \A u \in Nat : h[u] < h[n] => f[u] = g[u]
      PROVE  Step(n, f) = Step(n, g)
  <2> HIDE DEF h
  <2> QED BY <1>1, <1>3
<1> HIDE DEF Step
<1>4. \E f : f = [n \in Nat |-> Step(n, f)]
  <2>1. G \in [Nat -> [[Nat -> Nat] -> Nat]]
    BY <1>2
  <2>2. LooksDown(Nat, Nat, h, G)
    <3> HIDE DEF h
    <3> QED BY <1>3 DEF LooksDown
  <2>3. \A n \in Nat : \A f \in [Nat -> Nat] : G[n][f] = Step(n, f)
    OBVIOUS
  <2>4. h \in [Nat -> Nat] /\ Nat # {}
    OBVIOUS
  <2> HIDE DEF G, h
  <2>5. Solutions(Nat, Nat, G) # {}
    BY <2>1, <2>2, <2>4, Recursion
  <2>6. PICK f \in [Nat -> Nat] : \A n \in Nat : f[n] = G[n][f]
    BY <2>5 DEF Solutions
  <2>7. f = [n \in Nat |-> Step(n, f)]
    BY <2>3, <2>6
  <2> QED BY <2>7
<1> DEFINE power == CHOOSE f : f = [n \in Nat |-> Step(n, f)]
<1>5. power = [n \in Nat |-> Step(n, power)]
  BY <1>4
<1>6. Retries!TwoTo = power
  BY DEF Retries!TwoTo, Step
<1> HIDE DEF power
<1> QED BY <1>5, <1>6 DEF Step

LEMMA TwoToFacts ==
    /\ \A n \in Nat : Retries!TwoTo[n] \in Nat \ {0}
    /\ \A n \in Nat : Retries!TwoTo[n + 1] = 2 * Retries!TwoTo[n]
<1> DEFINE power == Retries!TwoTo
           S == {n \in Nat : power[n] \in Nat \ {0}}
<1>1. \A n \in Nat : power[n] = IF n = 0 THEN 1 ELSE 2 * power[n - 1]
  BY TwoToIsDefined
<1> HIDE DEF power
<1>2. \A n \in Nat : power[n + 1] = 2 * power[n]
  <2> TAKE n \in Nat
  <2>1. n + 1 \in Nat /\ n + 1 # 0 /\ (n + 1) - 1 = n
    OBVIOUS
  <2> QED BY <1>1, <2>1
<1>3. 0 \in S
  BY <1>1
<1>4. \A n \in Nat : n \in S => n + 1 \in S
  BY <1>2
<1> HIDE DEF S
<1>5. Nat \subseteq S
  BY <1>3, <1>4, SetInduction
<1> QED BY <1>2, <1>5 DEF S, power

\* What the jitter can make of a term.
LEMMA Jitter ==
    ASSUME NEW e \in Nat, NEW draw \in 0 .. 99
    PROVE  /\ (e * (100 + draw)) \div 200 \in Nat
           /\ (e * (100 + draw)) \div 200 >= e \div 2
           /\ e > 0 => (e * (100 + draw)) \div 200 < e
           /\ (2 * e * (100 + draw)) \div 200 >= e
<1>1. e * draw \in Nat /\ e * draw <= 99 * e
  BY SMT
<1>2. e * (100 + draw) = 100 * e + e * draw
      /\ 2 * e * (100 + draw) = 200 * e + 2 * (e * draw)
  BY SMT
<1>3. PICK d \in Nat : d = e * draw
  BY <1>1
<1> QED BY <1>1, <1>2, <1>3, SMT

\* The term doubles up to the cap, and is the cap from there on.
LEMMA Terms ==
    ASSUME NEW u \in [base : Nat, cap : Nat, retries : Nat], NEW n \in Nat \ {0}
    PROVE  /\ Retries!Exp(u, n) \in Nat
           /\ u.base * Retries!TwoTo[n] > 2 * u.cap => Retries!Exp(u, n) = u.cap
           /\ u.base * Retries!TwoTo[n] <= 2 * u.cap =>
                 /\ u.base > 0 => Retries!Exp(u, n) > 0
                 /\ n > 1 => Retries!Exp(u, n) = 2 * Retries!Exp(u, n - 1)
<1> DEFINE power == Retries!TwoTo
           b == u.base
           c == u.cap
           T == b * power[n - 1]
<1>1. b \in Nat /\ c \in Nat /\ n - 1 \in Nat
  OBVIOUS
<1>2. power[n - 1] \in Nat \ {0} /\ power[n] = 2 * power[n - 1]
  <2>1. (n - 1) + 1 = n
    OBVIOUS
  <2> QED BY <1>1, <2>1, TwoToFacts
<1>3. Retries!Exp(u, n) = IF T < c THEN T ELSE c
  BY DEF Retries!Exp
<1>4. n > 1 => /\ power[n - 2] \in Nat /\ power[n - 1] = 2 * power[n - 2]
               /\ Retries!Exp(u, n - 1) = IF b * power[n - 2] < c THEN b * power[n - 2] ELSE c
  <2> SUFFICES ASSUME n > 1
               PROVE  /\ power[n - 2] \in Nat /\ power[n - 1] = 2 * power[n - 2]
                      /\ Retries!Exp(u, n - 1) = IF b * power[n - 2] < c
                                THEN b * power[n - 2] ELSE c
    OBVIOUS
  <2>1. n - 2 \in Nat /\ (n - 2) + 1 = n - 1 /\ (n - 1) - 1 = n - 2 /\ n - 1 > 0
    OBVIOUS
  <2>2. Retries!Exp(u, n - 1) = IF b * power[n - 2] < c THEN b * power[n - 2] ELSE c
    BY <2>1 DEF Retries!Exp
  <2> QED BY <2>1, <2>2, TwoToFacts
<1> HIDE DEF power, b, c
<1>5. T \in Nat /\ b * power[n] = 2 * T /\ (b > 0 => T > 0)
  BY <1>1, <1>2, SMT
<1>6. n > 1 => b * power[n - 2] \in Nat /\ T = 2 * (b * power[n - 2])
  BY <1>1, <1>4, SMT
<1> HIDE DEF T
<1> QED BY <1>1, <1>3, <1>4, <1>5, <1>6 DEF power, b, c

DelayInv ==
    /\ use \in Uses /\ attempt \in Nat
    /\ attempt > 0 => \E draw \in Draws : delay = Retries!Delay(use, attempt, draw)

LEMMA RetryGrows ==
    ASSUME DelayInv, Retries!Retry
    PROVE  /\ DelayInv'
           /\ IF use.base * Retries!TwoTo[attempt'] <= 2 * use.cap
              THEN use.base > 0 => attempt = 0 \/ delay' > delay
              ELSE delay' >= use.cap \div 2
<1>1. /\ use \in [base : Nat, cap : Nat, retries : Nat] /\ use' = use
      /\ attempt \in Nat /\ attempt' = attempt + 1
  BY InputsAssumption DEF Retries!BackoffAssumption, DelayInv, Retries!Retry
<1>2. PICK draw \in Draws : delay' = Retries!Delay(use, attempt', draw)
  BY DEF Retries!Retry
<1>3. draw \in 0 .. 99 /\ delay' = (Retries!Exp(use, attempt') * (100 + draw)) \div 200
  BY <1>2, InputsAssumption DEF Retries!BackoffAssumption, Retries!Delay
<1>4. DelayInv'
  BY <1>1, <1>2 DEF DelayInv
<1> DEFINE e == Retries!Exp(use, attempt)
           f == Retries!Exp(use, attempt')
<1>5. CASE use.base * Retries!TwoTo[attempt'] > 2 * use.cap
  <2>1. f = use.cap /\ f \in Nat
    BY <1>1, <1>5, Terms
  <2>2. delay' >= use.cap \div 2
    BY <1>3, <2>1, Jitter
  <2>3. ~(use.base * Retries!TwoTo[attempt'] <= 2 * use.cap)
    BY <1>1, <1>5, TwoToFacts
  <2> QED BY <1>4, <2>2, <2>3
<1>6. CASE use.base * Retries!TwoTo[attempt'] <= 2 * use.cap
  <2> SUFFICES ASSUME use.base > 0, attempt # 0 PROVE delay' > delay
    BY <1>4, <1>6
  <2>1. PICK last \in Draws : delay = Retries!Delay(use, attempt, last)
    BY <1>1 DEF DelayInv
  <2>2. last \in 0 .. 99 /\ delay = (e * (100 + last)) \div 200
    BY <2>1, InputsAssumption DEF Retries!BackoffAssumption, Retries!Delay
  <2>3. e \in Nat /\ f \in Nat
    BY <1>1, Terms
  <2>4. f > 0 /\ f = 2 * e
    <3>1. attempt' \in Nat \ {0} /\ attempt' > 1 /\ attempt' - 1 = attempt
      BY <1>1
    <3> QED BY <1>1, <1>6, <3>1, Terms
  <2> HIDE DEF e, f
  <2>5. (e * (100 + last)) \div 200 < e /\ (e * (100 + last)) \div 200 \in Nat
    BY <2>2, <2>3, <2>4, Jitter
  <2>6. (2 * e * (100 + draw)) \div 200 >= e /\ (f * (100 + draw)) \div 200 \in Nat
    BY <1>3, <2>3, Jitter
  <2> QED BY <1>3, <2>2, <2>3, <2>4, <2>5, <2>6 DEF f
<1>7. use.base * Retries!TwoTo[attempt'] \in Nat /\ 2 * use.cap \in Nat
  BY <1>1, TwoToFacts
<1> QED BY <1>5, <1>6, <1>7

\* Whatever the base, the cap and the jitter, a client that keeps failing waits
\* longer and longer up to the cap, and at least half the cap from there on.
THEOREM RetriesSpreadOut == Retries!Spec => SpreadsOut
<1>1. Retries!Init => DelayInv
  BY DEF Retries!Init, DelayInv
<1>2. DelayInv /\ [Retries!Retry]_(Retries!vars) => DelayInv'
  <2> SUFFICES ASSUME DelayInv, UNCHANGED Retries!vars PROVE DelayInv'
    BY RetryGrows
  <2> QED BY DEF Retries!vars, DelayInv
<1>3. DelayInv /\ [Retries!Retry]_(Retries!vars) =>
        [IF use.base * Retries!TwoTo[attempt'] <= 2 * use.cap
         THEN use.base > 0 => attempt = 0 \/ delay' > delay
         ELSE delay' >= use.cap \div 2]_(Retries!vars)
  BY RetryGrows
<1> QED BY <1>1, <1>2, <1>3, PTL DEF Retries!Spec, SpreadsOut, Retries!SpreadsOut

-----------------------------------------------------------------------------
(* The rules *)

LEMMA RuleList ==
    /\ DOMAIN Rules!CategoryKeywords = 1 .. 5 /\ Len(Rules!CategoryKeywords) = 5
    /\ \A i \in 1 .. 5 : Rules!RuleOf(Rules!CategoryKeywords[i].category) = i
    /\ Rules!RuleOf("OTHER") = 6
<1> DEFINE rule == Rules!CategoryKeywords
<1>1. DOMAIN rule = 1 .. 5 /\ Len(rule) = 5
  BY DEF Rules!CategoryKeywords
<1>2. /\ rule[1].category = "BILLING"
      /\ rule[2].category = "ACCOUNT"
      /\ rule[3].category = "TECHNICAL"
      /\ rule[4].category = "FEATURE_REQUEST"
      /\ rule[5].category = "COMPLAINT"
  BY DEF Rules!CategoryKeywords
<1> HIDE DEF rule
<1>3. Rules!RuleOf("OTHER") = 6
  BY <1>1 DEF Rules!RuleOf, rule
<1>4. ASSUME NEW i \in 1 .. 5 PROVE Rules!RuleOf(rule[i].category) = i
  <2>1. rule[i].category # "OTHER"
    BY <1>2
  <2>2. \A j \in DOMAIN rule : rule[j].category = rule[i].category <=> j = i
    BY <1>1, <1>2
  <2>3. Rules!RuleOf(rule[i].category) =
          CHOOSE j \in DOMAIN rule : rule[j].category = rule[i].category
    BY <2>1 DEF Rules!RuleOf, rule
  <2> QED BY <1>1, <2>2, <2>3
<1> QED BY <1>1, <1>3, <1>4 DEF rule

\* The rule a ticket's category comes from is the first that matches.
LEMMA FirstRule ==
    ASSUME NEW matching \in SUBSET (1 .. 5), matching # {}
    PROVE  /\ Rules!Min(matching) \in matching
           /\ \A i \in matching : Rules!Min(matching) <= i
<1>1. PICK n \in matching : \A m \in matching : n <= m
  BY LeastMember
<1> QED BY <1>1 DEF Rules!Min

LEMMA RuleOfCategory ==
    ASSUME NEW matching \in SUBSET (1 .. 5), NEW category,
           category = IF matching = {} THEN "OTHER"
                      ELSE Rules!CategoryKeywords[Rules!Min(matching)].category
    PROVE  /\ matching = {} => Rules!RuleOf(category) = 6
           /\ matching # {} => Rules!RuleOf(category) = Rules!Min(matching)
BY RuleList, FirstRule

LEMMA MoreWordsMatchMore ==
    ASSUME text \subseteq text'
    PROVE  /\ \A keywords : Rules!Includes(keywords) => keywords \cap text' # {}
           /\ Rules!Matching \subseteq 1 .. 5 /\ Rules!Matching' \subseteq 1 .. 5
           /\ Rules!Matching \subseteq Rules!Matching'
<1>1. \A keywords : Rules!Includes(keywords) => keywords \cap text' # {}
  BY DEF Rules!Includes
<1>2. Rules!Matching \subseteq 1 .. 5 /\ Rules!Matching' \subseteq 1 .. 5
  BY RuleList DEF Rules!Matching
<1>3. ASSUME NEW i \in Rules!Matching PROVE i \in Rules!Matching'
  BY <1>1 DEF Rules!Matching, Rules!Includes
<1> QED BY <1>1, <1>2, <1>3

LEMMA CategoryMovesForward ==
    ASSUME text \subseteq text'
    PROVE  Rules!RuleOf(Rules!Categorize') <= Rules!RuleOf(Rules!Categorize)
<1> DEFINE before == Rules!Matching
           after == Rules!Matching'
<1>1. before \subseteq 1 .. 5 /\ after \subseteq 1 .. 5 /\ before \subseteq after
  BY MoreWordsMatchMore
<1>2. /\ before = {} => Rules!RuleOf(Rules!Categorize) = 6
      /\ before # {} => Rules!RuleOf(Rules!Categorize) = Rules!Min(before)
  BY <1>1, RuleOfCategory DEF Rules!Categorize
<1>3. /\ after = {} => Rules!RuleOf(Rules!Categorize') = 6
      /\ after # {} => Rules!RuleOf(Rules!Categorize') = Rules!Min(after)
  BY <1>1, RuleOfCategory DEF Rules!Categorize
<1> HIDE DEF before, after
<1>4. /\ before # {} => Rules!Min(before) \in before
      /\ after # {} => Rules!Min(after) \in after /\ \A i \in after : Rules!Min(after) <= i
  BY <1>1, FirstRule
<1>5. CASE after = {}
  BY <1>1, <1>2, <1>3, <1>5
<1>6. CASE after # {} /\ before = {}
  <2>1. Rules!Min(after) \in 1 .. 5
    BY <1>1, <1>4, <1>6
  <2> QED BY <1>2, <1>3, <1>6, <2>1
<1>7. CASE before # {}
  <2>1. Rules!Min(before) \in after /\ after # {}
    BY <1>1, <1>4, <1>7
  <2> QED BY <1>2, <1>3, <1>4, <1>7, <2>1
<1> QED BY <1>5, <1>6, <1>7

LEMMA PriorityEscalates ==
    ASSUME text \subseteq text'
    PROVE  Rules!Prioritize' \in Rules!Escalates(Rules!Prioritize)
<1>1. PICK u, h, l \in BOOLEAN :
         /\ u = Rules!Includes(Rules!URGENT)
         /\ h = Rules!Includes(Rules!HIGH)
         /\ l = Rules!Includes(Rules!LOW)
  BY DEF Rules!Includes
<1>2. PICK v, i, m \in BOOLEAN :
         /\ v = Rules!Includes(Rules!URGENT)'
         /\ i = Rules!Includes(Rules!HIGH)'
         /\ m = Rules!Includes(Rules!LOW)'
  BY DEF Rules!Includes
<1>3. (u => v) /\ (h => i) /\ (l => m)
  BY <1>1, <1>2 DEF Rules!Includes
<1>4. Rules!Prioritize = IF u THEN "URGENT" ELSE IF h THEN "HIGH"
      ELSE IF l THEN "LOW" ELSE "MEDIUM"
  BY <1>1 DEF Rules!Prioritize
<1>5. Rules!Prioritize' = IF v THEN "URGENT" ELSE IF i THEN "HIGH"
      ELSE IF m THEN "LOW" ELSE "MEDIUM"
  BY <1>2 DEF Rules!Prioritize
<1> QED BY <1>3, <1>4, <1>5 DEF Rules!Escalates

\* Over the whole of the word lists: a text that says more than another is
\* never less pressing, and its category comes from the same rule or an earlier.
THEOREM SayingMoreNeverCalms == Rules!Spec => SayingMoreEscalates
<1>1. [Rules!Next]_text =>
        [/\ Rules!RuleOf(Rules!Categorize') <= Rules!RuleOf(Rules!Categorize)
         /\ Rules!Prioritize' \in Rules!Escalates(Rules!Prioritize)]_text
  <2> SUFFICES ASSUME Rules!Next
               PROVE  /\ Rules!RuleOf(Rules!Categorize') <= Rules!RuleOf(Rules!Categorize)
                      /\ Rules!Prioritize' \in Rules!Escalates(Rules!Prioritize)
    OBVIOUS
  <2>1. text \subseteq text'
    BY DEF Rules!Next, Rules!Mentions
  <2> QED BY <2>1, CategoryMovesForward, PriorityEscalates
<1> QED BY <1>1, PTL DEF Rules!Spec, SayingMoreEscalates, Rules!SayingMoreEscalates

-----------------------------------------------------------------------------
(* The identity of a payload *)

\* Any finite set of keys can be sorted.
LEMMA SortedExists ==
    ASSUME NEW keys \in SUBSET Nat, IsFiniteSet(keys)
    PROVE  /\ Hash!Sorted(keys) \in [1 .. Cardinality(keys) -> keys]
           /\ \A k \in keys : \E i \in DOMAIN Hash!Sorted(keys) : Hash!Sorted(keys)[i] = k
<1> DEFINE Order(K) == {s \in [1 .. Cardinality(K) -> K] :
                          /\ \A i, j \in DOMAIN s : i < j => s[i] < s[j]
                          /\ \A k \in K : \E i \in DOMAIN s : s[i] = k}
           S == {n \in Nat : \A K \in SUBSET Nat :
                    IsFiniteSet(K) /\ Cardinality(K) = n => Order(K) # {}}
<1>1. 0 \in S
  <2> SUFFICES ASSUME NEW K \in SUBSET Nat, IsFiniteSet(K), Cardinality(K) = 0
               PROVE  Order(K) # {}
    OBVIOUS
  <2>1. K = {}
    BY FS_EmptySet
  <2>2. [i \in 1 .. 0 |-> 0] \in Order(K)
    BY <2>1
  <2> QED BY <2>2
<1>2. ASSUME NEW n \in Nat, n \in S PROVE n + 1 \in S
  <2> SUFFICES ASSUME NEW K \in SUBSET Nat, IsFiniteSet(K), Cardinality(K) = n + 1
               PROVE  Order(K) # {}
    OBVIOUS
  <2>1. K # {}
    BY FS_EmptySet
  <2>2. PICK least \in K : \A k \in K : least <= k
    BY <2>1, LeastMember
  <2> DEFINE L == K \ {least}
  <2>3. L \in SUBSET Nat /\ IsFiniteSet(L) /\ Cardinality(L) = n
    <3>1. IsFiniteSet(L) /\ Cardinality(L) = Cardinality(K) - 1
      BY FS_RemoveElement
    <3> QED BY <3>1
  <2>4. PICK s \in Order(L) : TRUE
    BY <1>2, <2>3
  <2> DEFINE t == [i \in 1 .. n + 1 |-> IF i = 1 THEN least ELSE s[i - 1]]
  <2>5. /\ s \in [1 .. n -> L] /\ DOMAIN s = 1 .. n
        /\ \A i, j \in 1 .. n : i < j => s[i] < s[j]
        /\ \A k \in L : \E i \in 1 .. n : s[i] = k
    <3>1. s \in [1 .. n -> L]
      BY <2>3, <2>4
    <3>2. DOMAIN s = 1 .. n
      BY <3>1
    <3> QED BY <2>4, <3>1, <3>2
  <2>6. \A i \in 1 .. n + 1 : i # 1 => i - 1 \in 1 .. n /\ s[i - 1] \in L
    <3>1. \A i \in 1 .. n + 1 : i # 1 => i - 1 \in 1 .. n
      OBVIOUS
    <3> HIDE DEF L
    <3> QED BY <2>5, <3>1
  <2>7. t \in [1 .. n + 1 -> K] /\ DOMAIN t = 1 .. n + 1
    BY <2>6
  <2>8. ASSUME NEW i \in 1 .. n + 1, NEW j \in 1 .. n + 1, i < j PROVE t[i] < t[j]
    <3>1. j # 1 /\ j - 1 \in 1 .. n /\ t[j] = s[j - 1] /\ s[j - 1] \in L
      <4>1. j # 1
        BY <2>8
      <4> HIDE DEF L
      <4> QED BY <2>6, <4>1
    <3>2. CASE i = 1
      <4>1. t[i] = least /\ t[j] \in K /\ t[j] # least
        BY <3>1, <3>2
      <4>2. least \in Nat /\ t[j] \in Nat /\ least <= t[j]
        BY <2>2, <4>1
      <4> QED BY <4>1, <4>2
    <3>3. CASE i # 1
      <4>1. i - 1 \in 1 .. n /\ t[i] = s[i - 1] /\ i - 1 < j - 1
        BY <2>6, <2>8, <3>3
      <4> QED BY <2>5, <3>1, <4>1
    <3> QED BY <3>2, <3>3
  <2>9. ASSUME NEW k \in K PROVE \E i \in 1 .. n + 1 : t[i] = k
    <3>1. CASE k = least
      <4>1. 1 \in 1 .. n + 1 /\ t[1] = least
        OBVIOUS
      <4> QED BY <3>1, <4>1
    <3>2. CASE k # least
      <4>1. PICK i \in 1 .. n : s[i] = k
        BY <2>5, <3>2
      <4>2. i + 1 \in 1 .. n + 1 /\ i + 1 # 1 /\ (i + 1) - 1 = i
        OBVIOUS
      <4> QED BY <4>1, <4>2
    <3> QED BY <3>1, <3>2
  <2> HIDE DEF t, L
  <2>10. t \in Order(K)
    BY <2>7, <2>8, <2>9
  <2> QED BY <2>10
<1> HIDE DEF S
<1>3. Cardinality(keys) \in S
  BY <1>1, <1>2, SetInduction, FS_CardinalityType
<1>4. Order(keys) # {}
  BY <1>3 DEF S
<1> DEFINE sorted == CHOOSE s \in [1 .. Cardinality(keys) -> keys] :
                       /\ \A i, j \in DOMAIN s : i < j => s[i] < s[j]
                       /\ \A k \in keys : \E i \in DOMAIN s : s[i] = k
<1>5. sorted \in Order(keys)
  BY <1>4
<1>6. Hash!Sorted(keys) = sorted
  BY DEF Hash!Sorted, Hash!Cardinality, Cardinality
<1> HIDE DEF sorted
<1> QED BY <1>5, <1>6

-----------------------------------------------------------------------------
(* Texts, as sequences of tokens *)

Kinds == {"atom", "array", "object"}
Token == {"open", "close", "key", "item", "atom"}
         \X (Kinds \cup {"node", "next"} \cup Atoms \cup Nat)
Tokens == Seq(Token)
Entry == [key : Nat, value : Json]

\* The operators of sequences, where only the laws below are needed of them.
One(x) == <<x>>
Cat(s, t) == s \o t
Close == <<"close", "node">>
Open(kind) == <<"open", kind>>

\* The brackets around the parts, from the last part to the first.
LEMMA BracketedFacts ==
    ASSUME NEW kind \in Kinds, NEW parts \in Seq(Tokens)
    PROVE  \E rest \in [0 .. Len(parts) -> Tokens] :
              /\ rest[Len(parts)] = One(Close)
              /\ \A i \in 0 .. Len(parts) : i # Len(parts) =>
                    rest[i] = Cat(parts[i + 1], rest[i + 1])
              /\ Hash!Bracketed(kind, parts) = Cat(One(Open(kind)), rest[0])
              /\ Hash!Bracketed(kind, parts) \in Tokens
<1> DEFINE n == Len(parts)
           D == 0 .. n
           h == [i \in D |-> n - i]
           Step(i, f) == IF i = n THEN << <<"close", "node">> >>
                           ELSE parts[i + 1] \o f[i + 1]
           G == [i \in D |-> [f \in [D -> Tokens] |-> Step(i, f)]]
<1>1. /\ n \in Nat /\ 0 \in D /\ n \in D
      /\ \A i \in D : i # n => i + 1 \in D /\ parts[i + 1] \in Tokens /\ h[i + 1] < h[i]
      /\ h \in [D -> Nat]
  <2>1. n \in Nat
    OBVIOUS
  <2>2. \A i \in D : i # n => i + 1 \in D /\ i + 1 \in 1 .. n /\ n - (i + 1) < n - i
    BY <2>1
  <2> QED BY <2>1, <2>2
<1>2. /\ << <<"close", "node">> >> \in Tokens /\ << <<"open", kind>> >> \in Tokens
      /\ \A s, t \in Tokens : s \o t \in Tokens
  <2>1. <<"close", "node">> \in Token /\ <<"open", kind>> \in Token
    BY DEF Token, Kinds
  <2>2. \A x \in Token : <<x>> \in Tokens
    BY DEF Tokens
  <2>3. \A s, t \in Tokens : s \o t \in Tokens
    BY ConcatProperties DEF Tokens
  <2> QED BY <2>1, <2>2, <2>3
<1> HIDE DEF D, h, n
<1>3. ASSUME NEW i \in D, NEW f, \A u \in D : h[u] < h[i] => f[u] \in Tokens
      PROVE  Step(i, f) \in Tokens
  <2>1. CASE i = n
    BY <1>2, <2>1
  <2>2. CASE i # n
    <3>1. f[i + 1] \in Tokens /\ parts[i + 1] \in Tokens
      BY <1>1, <1>3, <2>2
    <3> QED BY <1>2, <2>2, <3>1
  <2> QED BY <2>1, <2>2
<1>4. ASSUME NEW i \in D, NEW f, NEW g, \A u \in D : h[u] < h[i] => f[u] = g[u]
      PROVE  Step(i, f) = Step(i, g)
  <2>1. CASE i = n
    BY <2>1
  <2>2. CASE i # n
    <3>1. f[i + 1] = g[i + 1]
      BY <1>1, <1>4, <2>2
    <3> QED BY <2>2, <3>1
  <2> QED BY <2>1, <2>2
<1>5. \E f : f = [i \in D |-> Step(i, f)]
  <2> HIDE DEF Step
  <2>1. G \in [D -> [[D -> Tokens] -> Tokens]]
    BY <1>3
  <2>2. LooksDown(D, Tokens, h, G)
    BY <1>4 DEF LooksDown
  <2>3. \A i \in D : \A f \in [D -> Tokens] : G[i][f] = Step(i, f)
    OBVIOUS
  <2> HIDE DEF G
  <2>4. PICK f \in [D -> Tokens] : \A i \in D : f[i] = G[i][f]
    <3>1. h \in [D -> Nat] /\ Tokens # {}
      BY <1>1, <1>2
    <3>2. Solutions(D, Tokens, G) # {}
      BY <2>1, <2>2, <3>1, Recursion
    <3> QED BY <3>2 DEF Solutions
  <2>5. f = [i \in D |-> Step(i, f)]
    BY <2>3, <2>4
  <2> QED BY <2>5
<1> DEFINE rest == CHOOSE f : f = [i \in D |-> Step(i, f)]
<1>6. rest = [i \in D |-> Step(i, rest)]
  <2> HIDE DEF Step
  <2> QED BY <1>5
<1>7. Hash!Bracketed(kind, parts) = << <<"open", kind>> >> \o rest[0]
  BY DEF Hash!Bracketed, D, n
<1> HIDE DEF rest
<1>8. \A i \in D : rest[i] = Step(i, rest)
  <2> HIDE DEF Step
  <2> QED BY <1>6
<1>9. \A i \in D : rest[i] \in Tokens
  <2> DEFINE S == {i \in D : rest[i] \in Tokens}
  <2>1. ASSUME NEW i \in D, \A u \in D : h[u] < h[i] => u \in S PROVE i \in S
    <3>1. Step(i, rest) \in Tokens
      BY <1>3, <2>1
    <3> QED BY <1>8, <3>1
  <2> HIDE DEF S
  <2>2. D \subseteq S
    <3>1. h \in [D -> Nat]
      BY <1>1
    <3>2. \A v \in D : (\A u \in D : h[u] < h[v] => u \in S) => v \in S
      BY <2>1
    <3> QED BY <3>1, <3>2, HeightInduction
  <2> QED BY <2>2 DEF S
<1>10. rest \in [D -> Tokens]
  <2> HIDE DEF Step
  <2> QED BY <1>6, <1>9
<1>11. Hash!Bracketed(kind, parts) \in Tokens
  BY <1>1, <1>2, <1>7, <1>9
<1>12. rest[n] = << <<"close", "node">> >>
       /\ \A i \in D : i # n => rest[i] = parts[i + 1] \o rest[i + 1]
  BY <1>1, <1>8
<1>13. /\ rest[n] = One(Close)
          /\ \A i \in D : i # n => rest[i] = Cat(parts[i + 1], rest[i + 1])
       /\ Hash!Bracketed(kind, parts) = Cat(One(Open(kind)), rest[0])
  BY <1>7, <1>12, Zenon DEF One, Cat, Close, Open
<1> QED BY <1>10, <1>11, <1>13, Zenon DEF D, n
-----------------------------------------------------------------------------
(* A value and its canonical form *)

LEMMA JsonFacts ==
    ASSUME NEW v \in Json
    PROVE  /\ v.kind \in Kinds /\ v.atom \in Atoms /\ v.entries \in Seq(Entry)
           /\ v \in [kind : Kinds, atom : Atoms, entries : Seq(Entry)]
           /\ Len(v.entries) \in Nat /\ DOMAIN v.entries = 1 .. Len(v.entries)
           /\ \A i \in DOMAIN v.entries :
                 /\ v.entries[i].key \in Nat /\ v.entries[i].value \in Json
                 /\ Height[v.entries[i].value] < Height[v]
                 /\ Hash!ValueAt(v, v.entries[i].key) = v.entries[i].value
           /\ Hash!KeysOf(v) \in SUBSET Nat /\ IsFiniteSet(Hash!KeysOf(v))
<1>1. v \in [kind : Kinds, atom : Atoms, entries : Seq(Entry)]
  BY InputsAssumption DEF Kinds, Entry, Hash!JsonAssumption
<1>2. v.kind \in Kinds /\ v.atom \in Atoms /\ v.entries \in Seq(Entry)
  BY <1>1
<1>3. Len(v.entries) \in Nat /\ DOMAIN v.entries = 1 .. Len(v.entries)
  BY <1>2, LenProperties
<1>4. ASSUME NEW i \in DOMAIN v.entries
      PROVE  v.entries[i].key \in Nat /\ v.entries[i].value \in Json
  <2>1. v.entries[i] \in Entry
    BY <1>2, <1>3, ElementOfSeq
  <2> QED BY <2>1 DEF Entry
<1>5. ASSUME NEW i \in DOMAIN v.entries
      PROVE  /\ Height[v.entries[i].value] < Height[v]
             /\ Hash!ValueAt(v, v.entries[i].key) = v.entries[i].value
  <2>1. /\ Height[v.entries[i].value] < Height[v]
        /\ \A j \in DOMAIN v.entries : v.entries[j].key = v.entries[i].key => i = j
    BY InputsAssumption DEF Hash!JsonAssumption
  <2> QED BY <2>1 DEF Hash!ValueAt
<1>6. Hash!KeysOf(v) \in SUBSET Nat /\ IsFiniteSet(Hash!KeysOf(v))
  <2>1. Hash!KeysOf(v) \in SUBSET Nat
    BY <1>4 DEF Hash!KeysOf
  <2>2. IsFiniteSet(1 .. Len(v.entries))
    BY <1>3, FS_Interval
  <2> DEFINE key == [i \in 1 .. Len(v.entries) |-> v.entries[i].key]
  <2>3. key \in Surjection(1 .. Len(v.entries), Hash!KeysOf(v))
    BY <1>3 DEF Hash!KeysOf, Surjection
  <2>4. IsFiniteSet(Hash!KeysOf(v))
    BY <2>2, <2>3, FS_Surjection
  <2> QED BY <2>1, <2>4
<1> QED BY <1>1, <1>2, <1>3, <1>4, <1>5, <1>6

\* A node of the canonical form says what the value says.
LEMMA RebuiltFacts ==
    ASSUME NEW v \in Json
    PROVE  LET node == Hash!Rebuilt(v)
           IN  /\ node.kind = v.kind /\ node.atom = v.atom
               /\ node.entries \in Seq(Entry)
               /\ Len(node.entries) \in Nat /\ DOMAIN node.entries = 1 .. Len(node.entries)
               /\ Hash!KeysOf(v) = {node.entries[i].key : i \in DOMAIN node.entries}
               /\ \A i \in DOMAIN node.entries :
                     /\ node.entries[i].key \in Nat /\ node.entries[i].value \in Json
                     /\ Height[node.entries[i].value] < Height[v]
                     /\ node.entries[i].value = Hash!ValueAt(v, node.entries[i].key)
<1> DEFINE node == Hash!Rebuilt(v)
           sorted == Hash!Sorted(Hash!KeysOf(v))
           n == Cardinality(Hash!KeysOf(v))
<1>1. CASE v.kind = "object"
  <2>1. node = [v EXCEPT !.entries = Hash!SortedEntries(v)]
    BY <1>1 DEF Hash!Rebuilt
  <2>2. /\ node.kind = v.kind /\ node.atom = v.atom
        /\ node.entries = Hash!SortedEntries(v)
    <3> HIDE DEF node
    <3> QED BY <2>1, JsonFacts
  <2>3. /\ n \in Nat /\ sorted \in [1 .. n -> Hash!KeysOf(v)]
        /\ \A k \in Hash!KeysOf(v) : \E i \in 1 .. n : sorted[i] = k
    <3>1. n \in Nat /\ sorted \in [1 .. n -> Hash!KeysOf(v)]
      BY JsonFacts, SortedExists, FS_CardinalityType
    <3>2. DOMAIN sorted = 1 .. n
      BY <3>1
    <3> QED BY <3>1, <3>2, JsonFacts, SortedExists
  <2> HIDE DEF sorted, n
  <2>4. node.entries = [i \in 1 .. n |->
          [key |-> sorted[i], value |-> Hash!ValueAt(v, sorted[i])]]
    <3>1. DOMAIN sorted = 1 .. n
      BY <2>3
    <3> QED BY <2>2, <3>1 DEF Hash!SortedEntries, sorted
  <2>5. ASSUME NEW k \in Hash!KeysOf(v)
        PROVE  /\ k \in Nat /\ Hash!ValueAt(v, k) \in Json
               /\ Height[Hash!ValueAt(v, k)] < Height[v]
    <3>1. PICK i \in DOMAIN v.entries : v.entries[i].key = k
      BY DEF Hash!KeysOf
    <3> QED BY <3>1, JsonFacts
  <2>6. \A i \in 1 .. n : sorted[i] \in Hash!KeysOf(v)
    BY <2>3
  <2> DEFINE listed == node.entries
  <2> HIDE DEF node
  <2>7. listed \in [1 .. n -> Entry]
    BY <2>4, <2>5, <2>6 DEF Entry
  <2>8. listed \in Seq(Entry) /\ Len(listed) = n /\ DOMAIN listed = 1 .. n
    <3> HIDE DEF listed
    <3> QED BY <2>3, <2>7
  <2>9. \A i \in 1 .. n : listed[i].key = sorted[i]
        /\ listed[i].value = Hash!ValueAt(v, sorted[i])
    BY <2>4
  <2> HIDE DEF listed
  <2>10. Hash!KeysOf(v) = {listed[i].key : i \in 1 .. n}
    BY <2>3, <2>6, <2>9
  <2>11. \A i \in 1 .. n : /\ listed[i].key \in Nat /\ listed[i].value \in Json
                           /\ Height[listed[i].value] < Height[v]
                           /\ listed[i].value = Hash!ValueAt(v, listed[i].key)
    BY <2>5, <2>6, <2>9
  <2> QED BY <2>2, <2>3, <2>8, <2>10, <2>11 DEF listed, node
<1>2. CASE v.kind # "object"
  <2>1. node = v
    BY <1>2 DEF Hash!Rebuilt
  <2> QED BY <2>1, JsonFacts DEF Hash!KeysOf
<1> QED BY <1>1, <1>2

\* The canonical form lists the keys the same way whoever sent them.
LEMMA CanonicalOrder ==
    ASSUME NEW v \in Json, NEW w \in Json, v.kind = w.kind, Hash!KeysOf(v) = Hash!KeysOf(w)
    PROVE  LET s == Hash!Rebuilt(v).entries
               t == Hash!Rebuilt(w).entries
           IN  /\ Len(s) = Len(t)
               /\ \A i \in 1 .. Len(s) : s[i].key = t[i].key
<1> DEFINE s == Hash!Rebuilt(v).entries
           t == Hash!Rebuilt(w).entries
<1>1. CASE v.kind = "object"
  <2>1. ASSUME NEW u \in Json, u.kind = "object", Hash!KeysOf(u) = Hash!KeysOf(v)
        PROVE  LET sorted == Hash!Sorted(Hash!KeysOf(v))
               IN  /\ Len(Hash!Rebuilt(u).entries) = Cardinality(Hash!KeysOf(v))
                   /\ \A i \in 1 .. Cardinality(Hash!KeysOf(v)) :
                         Hash!Rebuilt(u).entries[i].key = sorted[i]
    <3> DEFINE sorted == Hash!Sorted(Hash!KeysOf(v))
               n == Cardinality(Hash!KeysOf(v))
    <3>1. Hash!Rebuilt(u).entries = Hash!SortedEntries(u)
      BY <2>1, JsonFacts DEF Hash!Rebuilt
    <3>2. n \in Nat /\ sorted \in [1 .. n -> Hash!KeysOf(v)]
      BY JsonFacts, SortedExists, FS_CardinalityType
    <3>3. DOMAIN sorted = 1 .. n
      BY <3>2
    <3> HIDE DEF n
    <3>4. Hash!Rebuilt(u).entries =
              [i \in 1 .. n |-> [key |-> sorted[i], value |-> Hash!ValueAt(u, sorted[i])]]
      BY <2>1, <3>1, <3>3 DEF Hash!SortedEntries
    <3> HIDE DEF sorted
    <3> QED BY <3>2, <3>4 DEF sorted, n
  <2> QED BY <1>1, <2>1
<1>2. CASE v.kind = "array"
  <2>1. ASSUME NEW u \in Json, u.kind = "array"
        PROVE  /\ Hash!Rebuilt(u) = u
               /\ \A i \in 1 .. Len(u.entries) : u.entries[i].key = i - 1
               /\ Hash!KeysOf(u) = 0 .. Len(u.entries) - 1
    <3>1. Hash!Rebuilt(u) = u
      BY <2>1 DEF Hash!Rebuilt
    <3>2. DOMAIN u.entries = 1 .. Len(u.entries) /\ Len(u.entries) \in Nat
      BY JsonFacts
    <3>3. \A i \in 1 .. Len(u.entries) : u.entries[i].key = i - 1
      BY <2>1, <3>2, InputsAssumption DEF Hash!JsonAssumption
    <3>4. Hash!KeysOf(u) = {i - 1 : i \in 1 .. Len(u.entries)}
      BY <3>2, <3>3 DEF Hash!KeysOf
    <3>5. ASSUME NEW n \in Nat PROVE {i - 1 : i \in 1 .. n} = 0 .. n - 1
      <4>1. \A k \in 0 .. n - 1 : k + 1 \in 1 .. n /\ (k + 1) - 1 = k
        OBVIOUS
      <4>2. \A i \in 1 .. n : i - 1 \in 0 .. n - 1
        OBVIOUS
      <4> QED BY <4>1, <4>2
    <3> QED BY <3>1, <3>2, <3>3, <3>4, <3>5
  <2>2. Len(v.entries) \in Nat /\ Len(w.entries) \in Nat
    BY JsonFacts
  <2>3. 0 .. Len(v.entries) - 1 = 0 .. Len(w.entries) - 1
    BY <1>2, <2>1
  <2>4. Len(v.entries) = Len(w.entries)
    BY <2>2, <2>3
  <2> QED BY <1>2, <2>1, <2>4
<1>3. CASE v.kind = "atom"
  <2>1. Hash!Rebuilt(v) = v /\ Hash!Rebuilt(w) = w
    BY <1>3 DEF Hash!Rebuilt
  <2>2. v.entries = <<>> /\ w.entries = <<>>
    BY <1>3, InputsAssumption DEF Hash!JsonAssumption
  <2> QED BY <2>1, <2>2
<1> QED BY <1>1, <1>2, <1>3, JsonFacts DEF Kinds

-----------------------------------------------------------------------------
(* The text of a value *)

\* What the text of a value makes of the texts f of its parts.
Parts(v, f) == [i \in DOMAIN Hash!Rebuilt(v).entries |->
                  <<Hash!Label(Hash!Rebuilt(v), i)>> \o f[Hash!Rebuilt(v).entries[i].value]]

Written(v, f) == IF Hash!Rebuilt(v).kind = "atom"
                 THEN << <<"atom", Hash!Rebuilt(v).atom>> >>
                 ELSE Hash!Bracketed(Hash!Rebuilt(v).kind, Parts(v, f))

LEMMA LabelType ==
    ASSUME NEW v \in Json, NEW i \in DOMAIN Hash!Rebuilt(v).entries
    PROVE  Hash!Label(Hash!Rebuilt(v), i) \in Token
BY RebuiltFacts DEF Hash!Label, Token

LEMMA WrittenType ==
    ASSUME NEW v \in Json, NEW f,
           \A u \in Json : Height[u] < Height[v] => f[u] \in Tokens
    PROVE  Parts(v, f) \in Seq(Tokens) /\ Written(v, f) \in Tokens
<1>1. \A i \in DOMAIN Hash!Rebuilt(v).entries : Parts(v, f)[i] \in Tokens
  <2> TAKE i \in DOMAIN Hash!Rebuilt(v).entries
  <2>1. f[Hash!Rebuilt(v).entries[i].value] \in Tokens
    BY RebuiltFacts
  <2>2. <<Hash!Label(Hash!Rebuilt(v), i)>> \in Tokens
    BY LabelType DEF Tokens
  <2>3. Parts(v, f)[i] = <<Hash!Label(Hash!Rebuilt(v), i)>>
                              \o f[Hash!Rebuilt(v).entries[i].value]
    BY DEF Parts
  <2> QED BY <2>1, <2>2, <2>3, ConcatProperties DEF Tokens
<1>2. Parts(v, f) \in Seq(Tokens)
  <2>1. /\ Len(Hash!Rebuilt(v).entries) \in Nat
        /\ DOMAIN Hash!Rebuilt(v).entries = 1 .. Len(Hash!Rebuilt(v).entries)
    BY RebuiltFacts
  <2>2. Parts(v, f) \in [1 .. Len(Hash!Rebuilt(v).entries) -> Tokens]
    BY <1>1, <2>1 DEF Parts
  <2> QED BY <2>1, <2>2
<1>3. CASE v.kind = "atom"
  <2>1. <<"atom", v.atom>> \in Token
    BY JsonFacts DEF Token
  <2>2. << <<"atom", v.atom>> >> \in Tokens
    BY <2>1 DEF Tokens
  <2> QED BY <1>2, <1>3, <2>2, RebuiltFacts DEF Written
<1>4. CASE v.kind # "atom"
  <2>1. Hash!Bracketed(v.kind, Parts(v, f)) \in Tokens
    BY <1>2, JsonFacts, BracketedFacts
  <2> QED BY <1>2, <1>4, <2>1, RebuiltFacts DEF Written
<1> QED BY <1>3, <1>4

\* The text of a value asks for the texts of lower values only: it is defined.
LEMMA WrittenLooksDown ==
    ASSUME NEW v \in Json, NEW f, NEW g,
           \A u \in Json : Height[u] < Height[v] => f[u] = g[u]
    PROVE  Written(v, f) = Written(v, g)
<1>1. \A i \in DOMAIN Hash!Rebuilt(v).entries :
         f[Hash!Rebuilt(v).entries[i].value] = g[Hash!Rebuilt(v).entries[i].value]
  BY RebuiltFacts
<1>2. Parts(v, f) = Parts(v, g)
  BY <1>1 DEF Parts
<1> QED BY <1>2 DEF Written

LEMMA TextFacts ==
    \A v \in Json : Hash!Text[v] \in Tokens /\ Hash!Text[v] = Written(v, Hash!Text)
<1> DEFINE G == [v \in Json |-> [f \in [Json -> Tokens] |-> Written(v, f)]]
<1>1. \E f : f = [v \in Json |-> Written(v, f)]
  <2>1. G \in [Json -> [[Json -> Tokens] -> Tokens]]
    BY WrittenType
  <2>2. LooksDown(Json, Tokens, Height, G)
    BY WrittenLooksDown DEF LooksDown
  <2>3. \A v \in Json : \A f \in [Json -> Tokens] : G[v][f] = Written(v, f)
    OBVIOUS
  <2> HIDE DEF G
  <2>4. Height \in [Json -> Nat] /\ Tokens # {}
    BY InputsAssumption, EmptySeq DEF Tokens, Hash!JsonAssumption
  <2>5. Solutions(Json, Tokens, G) # {}
    BY <2>1, <2>2, <2>4, Recursion
  <2>6. PICK f \in [Json -> Tokens] : \A v \in Json : f[v] = G[v][f]
    BY <2>5 DEF Solutions
  <2>7. f = [v \in Json |-> Written(v, f)]
    BY <2>3, <2>6
  <2> QED BY <2>7
<1> DEFINE written == CHOOSE f : f = [v \in Json |-> Written(v, f)]
<1>2. written = [v \in Json |-> Written(v, written)]
  BY <1>1
<1>3. Hash!Text = written
  BY DEF Hash!Text, Written, Parts
<1> HIDE DEF written
<1>4. \A v \in Json : Hash!Text[v] = Written(v, Hash!Text)
  BY <1>2, <1>3
<1> DEFINE S == {v \in Json : Hash!Text[v] \in Tokens}
<1>5. \A v \in Json : (\A u \in Json : Height[u] < Height[v] => u \in S) => v \in S
  <2> SUFFICES ASSUME NEW v \in Json, \A u \in Json : Height[u] < Height[v] => u \in S
               PROVE  v \in S
    OBVIOUS
  <2>1. Written(v, Hash!Text) \in Tokens
    BY WrittenType
  <2> QED BY <1>4, <2>1
<1> HIDE DEF S
<1>6. Json \subseteq S
  BY <1>5, InputsAssumption, HeightInduction DEF Hash!JsonAssumption
<1> QED BY <1>4, <1>6 DEF S
-----------------------------------------------------------------------------
(* The content of a value *)

AlikeBy(p, f) ==
    /\ p[1].kind = p[2].kind
    /\ p[1].atom = p[2].atom
    /\ Hash!KeysOf(p[1]) = Hash!KeysOf(p[2])
    /\ \A k \in Hash!KeysOf(p[1]) : f[<<Hash!ValueAt(p[1], k), Hash!ValueAt(p[2], k)>>]

Pairs == Json \X Json

LEMMA PartAt ==
    ASSUME NEW v \in Json, NEW k \in Hash!KeysOf(v)
    PROVE  Hash!ValueAt(v, k) \in Json /\ Height[Hash!ValueAt(v, k)] < Height[v]
<1>1. PICK i \in DOMAIN v.entries : v.entries[i].key = k
  BY DEF Hash!KeysOf
<1> QED BY <1>1, JsonFacts

LEMMA SameContentFacts ==
    \A v, w \in Json :
       Hash!SameContent[<<v, w>>] <=>
          /\ v.kind = w.kind /\ v.atom = w.atom
          /\ Hash!KeysOf(v) = Hash!KeysOf(w)
          /\ \A k \in Hash!KeysOf(v) :
                Hash!SameContent[<<Hash!ValueAt(v, k), Hash!ValueAt(w, k)>>]
<1> DEFINE h == [p \in Pairs |-> Height[p[1]]]
           G == [p \in Pairs |-> [f \in [Pairs -> BOOLEAN] |-> AlikeBy(p, f)]]
<1>1. h \in [Pairs -> Nat]
  BY InputsAssumption DEF Pairs, Hash!JsonAssumption
<1>2. ASSUME NEW p \in Pairs, NEW f, NEW g,
             \A u \in Pairs : h[u] < h[p] => f[u] = g[u]
      PROVE  AlikeBy(p, f) = AlikeBy(p, g)
  <2>1. CASE Hash!KeysOf(p[1]) = Hash!KeysOf(p[2])
    <3>1. ASSUME NEW k \in Hash!KeysOf(p[1])
          PROVE  f[<<Hash!ValueAt(p[1], k), Hash!ValueAt(p[2], k)>>]
                   = g[<<Hash!ValueAt(p[1], k), Hash!ValueAt(p[2], k)>>]
      <4>1. p[1] \in Json /\ p[2] \in Json
        BY DEF Pairs
      <4>2. /\ Hash!ValueAt(p[1], k) \in Json
            /\ Height[Hash!ValueAt(p[1], k)] < Height[p[1]]
            /\ Hash!ValueAt(p[2], k) \in Json
        BY <2>1, <4>1, PartAt
      <4> DEFINE q == <<Hash!ValueAt(p[1], k), Hash!ValueAt(p[2], k)>>
      <4>3. q \in Pairs /\ q[1] = Hash!ValueAt(p[1], k)
        BY <4>2 DEF Pairs
      <4> HIDE DEF q
      <4>4. h[q] < h[p]
        BY <4>2, <4>3
      <4>5. f[q] = g[q]
        BY <1>2, <4>3, <4>4
      <4> QED BY <4>5 DEF q
    <3> QED BY <3>1 DEF AlikeBy
  <2>2. CASE Hash!KeysOf(p[1]) # Hash!KeysOf(p[2])
    BY <2>2 DEF AlikeBy
  <2> QED BY <2>1, <2>2
<1>3. \E f : f = [p \in Pairs |-> AlikeBy(p, f)]
  <2>1. \A p \in Pairs : \A f \in [Pairs -> BOOLEAN] : AlikeBy(p, f) \in BOOLEAN
    BY Zenon DEF AlikeBy
  <2>2. G \in [Pairs -> [[Pairs -> BOOLEAN] -> BOOLEAN]]
    BY <2>1
  <2>3. \A p \in Pairs : \A f \in [Pairs -> BOOLEAN] : G[p][f] = AlikeBy(p, f)
    OBVIOUS
  <2>4. LooksDown(Pairs, BOOLEAN, h, G)
    <3> HIDE DEF G, h
    <3> QED BY <1>2, <2>3 DEF LooksDown
  <2> HIDE DEF G, h
  <2>5. Solutions(Pairs, BOOLEAN, G) # {}
    BY <1>1, <2>2, <2>4, Recursion
  <2>6. PICK f \in [Pairs -> BOOLEAN] : \A p \in Pairs : f[p] = G[p][f]
    BY <2>5 DEF Solutions
  <2>7. f = [p \in Pairs |-> AlikeBy(p, f)]
    BY <2>3, <2>6
  <2> QED BY <2>7
<1> DEFINE alike == CHOOSE f : f = [p \in Pairs |-> AlikeBy(p, f)]
<1>4. alike = [p \in Pairs |-> AlikeBy(p, alike)]
  BY <1>3
<1>5. Hash!SameContent = alike
  BY DEF Hash!SameContent, AlikeBy, Pairs
<1> HIDE DEF alike
<1>6. \A p \in Pairs : Hash!SameContent[p] = AlikeBy(p, Hash!SameContent)
  BY <1>4, <1>5
<1> SUFFICES ASSUME NEW v \in Json, NEW w \in Json
             PROVE  Hash!SameContent[<<v, w>>] <=>
                      /\ v.kind = w.kind /\ v.atom = w.atom
                      /\ Hash!KeysOf(v) = Hash!KeysOf(w)
                      /\ \A k \in Hash!KeysOf(v) :
                            Hash!SameContent[<<Hash!ValueAt(v, k), Hash!ValueAt(w, k)>>]
  OBVIOUS
<1>7. <<v, w>> \in Pairs /\ <<v, w>>[1] = v /\ <<v, w>>[2] = w
  BY DEF Pairs
<1>8. Hash!SameContent[<<v, w>>] = AlikeBy(<<v, w>>, Hash!SameContent)
  BY <1>6, <1>7
<1> QED BY <1>7, <1>8, Zenon DEF AlikeBy

-----------------------------------------------------------------------------
(* Reading a text back *)

LEMMA Laws ==
    /\ \A x \in Token : One(x) \in Tokens
    /\ \A s, t \in Tokens : Cat(s, t) \in Tokens
    /\ \A r, s, t \in Tokens : Cat(Cat(r, s), t) = Cat(r, Cat(s, t))
    /\ \A x, y \in Token : \A s, t \in Tokens :
        Cat(One(x), s) = Cat(One(y), t) => x = y /\ s = t
    /\ \A s \in Tokens : Cat(s, <<>>) = s
    /\ <<>> \in Tokens
<1>1. \A x \in Token : <<x>> \in Tokens
  BY DEF Tokens
<1>2. \A s, t \in Tokens : s \o t \in Tokens
  BY ConcatProperties DEF Tokens
<1>3. \A r, s, t \in Tokens : (r \o s) \o t = r \o (s \o t)
  BY ConcatAssociative DEF Tokens
<1>4. ASSUME NEW x \in Token, NEW y \in Token, NEW s \in Tokens, NEW t \in Tokens,
             <<x>> \o s = <<y>> \o t
      PROVE  x = y /\ s = t
  <2>1. (<<x>> \o s)[1] = x /\ (<<y>> \o t)[1] = y
    <3>1. Len(s) \in Nat /\ Len(t) \in Nat
      BY DEF Tokens
    <3>2. Len(<<x>>) = 1 /\ Len(<<y>>) = 1 /\ <<x>> \in Seq(Token) /\ <<y>> \in Seq(Token)
      OBVIOUS
    <3>3. 1 \in 1 .. 1 + Len(s) /\ 1 \in 1 .. 1 + Len(t) /\ 1 <= 1
      BY <3>1
    <3> QED BY <3>2, <3>3, ConcatProperties DEF Tokens
  <2>2. x = y
    BY <1>4, <2>1
  <2>3. s = t
    <3>1. \A a, b, c \in Tokens : a \o b = a \o c => b = c
      BY ConcatSimplifications DEF Tokens
    <3> QED BY <1>1, <1>4, <2>2, <3>1
  <2> QED BY <2>2, <2>3
<1>5. (\A s \in Tokens : s \o <<>> = s) /\ <<>> \in Tokens
  BY ConcatEmptySeq, EmptySeq DEF Tokens
<1> QED BY <1>1, <1>2, <1>3, <1>4, <1>5, Zenon DEF One, Cat

LEMMA TokensClosed ==
    /\ \A x \in Token : One(x) \in Tokens
    /\ \A s, t \in Tokens : Cat(s, t) \in Tokens
    /\ <<>> \in Tokens
BY Laws

LEMMA Associative ==
    ASSUME NEW r \in Tokens, NEW s \in Tokens, NEW t \in Tokens
    PROVE  Cat(Cat(r, s), t) = Cat(r, Cat(s, t))
BY Laws

LEMMA FirstToken ==
    ASSUME NEW x \in Token, NEW y \in Token, NEW s \in Tokens, NEW t \in Tokens,
           Cat(One(x), s) = Cat(One(y), t)
    PROVE  x = y /\ s = t
BY Laws

LEMMA NothingMore == \A s \in Tokens : Cat(s, <<>>) = s
BY Laws

\* Every entry begins with a label, and no label closes a node.
Labelled(p) == \A i \in 1 .. Len(p) : \E x \in Token, s \in Tokens :
                  x # Close /\ p[i] = Cat(One(x), s)

\* Lists of entries of which none can be mistaken for another are read in one way.
LEMMA ListsReadOneWay ==
    ASSUME NEW kind \in Kinds, NEW other \in Kinds,
           NEW p \in Seq(Tokens), NEW q \in Seq(Tokens), Labelled(p), Labelled(q),
           \A i \in 1 .. Len(p) : i <= Len(q) =>
              \A a, b \in Tokens : Cat(p[i], a) = Cat(q[i], b) => p[i] = q[i] /\ a = b,
           NEW s \in Tokens, NEW t \in Tokens,
           Cat(Hash!Bracketed(kind, p), s) = Cat(Hash!Bracketed(other, q), t)
    PROVE  kind = other /\ p = q /\ s = t
<1> DEFINE m == Len(p)
           n == Len(q)
<1>1. /\ m \in Nat /\ n \in Nat
      /\ \A i \in 1 .. m : p[i] \in Tokens
      /\ \A i \in 1 .. n : q[i] \in Tokens
  OBVIOUS
<1>2. Close \in Token /\ Open(kind) \in Token /\ Open(other) \in Token
  BY DEF Token, Kinds, Open, Close
<1>3. PICK r \in [0 .. m -> Tokens] :
         /\ r[m] = One(Close)
         /\ \A i \in 0 .. m : i # m => r[i] = Cat(p[i + 1], r[i + 1])
         /\ Hash!Bracketed(kind, p) = Cat(One(Open(kind)), r[0])
  BY BracketedFacts
<1>4. PICK u \in [0 .. n -> Tokens] :
         /\ u[n] = One(Close)
         /\ \A i \in 0 .. n : i # n => u[i] = Cat(q[i + 1], u[i + 1])
         /\ Hash!Bracketed(other, q) = Cat(One(Open(other)), u[0])
  BY BracketedFacts
<1> HIDE DEF m, n
<1>5. kind = other /\ Cat(r[0], s) = Cat(u[0], t)
  <2>1. r[0] \in Tokens /\ u[0] \in Tokens
    BY <1>1, <1>3, <1>4
  <2>2. /\ Cat(r[0], s) \in Tokens /\ Cat(u[0], t) \in Tokens
        /\ One(Open(kind)) \in Tokens /\ One(Open(other)) \in Tokens
    BY <1>2, <2>1, TokensClosed
  <2>3. Cat(One(Open(kind)), Cat(r[0], s)) = Cat(One(Open(other)), Cat(u[0], t))
    <3>1. /\ Cat(Cat(One(Open(kind)), r[0]), s) = Cat(One(Open(kind)), Cat(r[0], s))
          /\ Cat(Cat(One(Open(other)), u[0]), t) = Cat(One(Open(other)), Cat(u[0], t))
      <4>1. Cat(Cat(One(Open(kind)), r[0]), s) = Cat(One(Open(kind)), Cat(r[0], s))
        BY <2>1, <2>2, Associative
      <4>2. Cat(Cat(One(Open(other)), u[0]), t) = Cat(One(Open(other)), Cat(u[0], t))
        BY <2>1, <2>2, Associative
      <4> QED BY <4>1, <4>2
    <3>2. Cat(Cat(One(Open(kind)), r[0]), s) = Cat(Cat(One(Open(other)), u[0]), t)
      BY <1>3, <1>4
    <3> QED BY <3>1, <3>2, Zenon
  <2>4. Open(kind) = Open(other) /\ Cat(r[0], s) = Cat(u[0], t)
    BY <1>2, <2>2, <2>3, FirstToken
  <2>5. kind = other
    BY <2>4 DEF Open
  <2> QED BY <2>4, <2>5
<1>6. ASSUME NEW part \in Tokens, NEW x \in Token, NEW y \in Tokens, x # Close,
             part = Cat(One(x), y),
             NEW a \in Tokens, NEW b \in Tokens, NEW c \in Tokens
      PROVE  Cat(Cat(part, a), b) # Cat(One(Close), c)
  <2>1. Cat(a, b) \in Tokens /\ Cat(y, Cat(a, b)) \in Tokens /\ One(x) \in Tokens
    BY TokensClosed
  <2>2. Cat(Cat(part, a), b) = Cat(One(x), Cat(y, Cat(a, b)))
    BY <1>6, <2>1, Associative
  <2> QED BY <1>2, <1>6, <2>1, <2>2, FirstToken
<1> DEFINE S == {i \in Nat : i <= m => /\ i <= n /\ Cat(r[i], s) = Cat(u[i], t)
                                      /\ \A j \in 1 .. i : p[j] = q[j]}
<1>7. 0 \in S
  BY <1>1, <1>5
<1>8. ASSUME NEW i \in Nat, i \in S PROVE i + 1 \in S
  <2> SUFFICES ASSUME i + 1 <= m
               PROVE  /\ i + 1 <= n /\ Cat(r[i + 1], s) = Cat(u[i + 1], t)
                      /\ \A j \in 1 .. i + 1 : p[j] = q[j]
    OBVIOUS
  <2>1. i <= n /\ Cat(r[i], s) = Cat(u[i], t) /\ \A j \in 1 .. i : p[j] = q[j]
    BY <1>1, <1>8
  <2>2. r[i] = Cat(p[i + 1], r[i + 1]) /\ p[i + 1] \in Tokens /\ r[i + 1] \in Tokens
    BY <1>1, <1>3
  <2>3. i # n
    <3> SUFFICES ASSUME i = n PROVE FALSE
      OBVIOUS
    <3>1. u[i] = One(Close)
      BY <1>4
    <3>2. PICK x \in Token, y \in Tokens : x # Close /\ p[i + 1] = Cat(One(x), y)
      BY <1>1 DEF Labelled, m
    <3>3. Cat(Cat(p[i + 1], r[i + 1]), s) = Cat(One(Close), t)
      BY <2>1, <2>2, <3>1
    <3> QED BY <1>6, <2>2, <3>2, <3>3
  <2>4. u[i] = Cat(q[i + 1], u[i + 1]) /\ q[i + 1] \in Tokens /\ u[i + 1] \in Tokens
    BY <1>1, <1>4, <2>1, <2>3
  <2>5. Cat(p[i + 1], Cat(r[i + 1], s)) = Cat(q[i + 1], Cat(u[i + 1], t))
    <3>1. /\ Cat(Cat(p[i + 1], r[i + 1]), s) = Cat(p[i + 1], Cat(r[i + 1], s))
          /\ Cat(Cat(q[i + 1], u[i + 1]), t) = Cat(q[i + 1], Cat(u[i + 1], t))
      BY <2>2, <2>4, Associative
    <3>2. Cat(Cat(p[i + 1], r[i + 1]), s) = Cat(Cat(q[i + 1], u[i + 1]), t)
      BY <2>1, <2>2, <2>4, Zenon
    <3> QED BY <3>1, <3>2, Zenon
  <2>6. Cat(r[i + 1], s) \in Tokens /\ Cat(u[i + 1], t) \in Tokens
    BY <2>2, <2>4, TokensClosed
  <2>7. i + 1 \in 1 .. m /\ i + 1 <= n
    BY <1>1, <2>1, <2>3
  <2>8. p[i + 1] = q[i + 1] /\ Cat(r[i + 1], s) = Cat(u[i + 1], t)
    BY <2>5, <2>6, <2>7 DEF m, n
  <2> QED BY <2>1, <2>7, <2>8
<1> HIDE DEF S
<1>9. m \in S
  BY <1>1, <1>7, <1>8, SetInduction
<1>10. m <= n /\ Cat(One(Close), s) = Cat(u[m], t) /\ \A j \in 1 .. m : p[j] = q[j]
  BY <1>1, <1>3, <1>9 DEF S
<1>11. m = n
  <2> SUFFICES ASSUME m # n PROVE FALSE
    OBVIOUS
  <2>1. u[m] = Cat(q[m + 1], u[m + 1]) /\ q[m + 1] \in Tokens /\ u[m + 1] \in Tokens
    BY <1>1, <1>4, <1>10
  <2>2. m + 1 \in 1 .. n
    BY <1>1, <1>10
  <2>3. PICK x \in Token, y \in Tokens : x # Close /\ q[m + 1] = Cat(One(x), y)
    BY <2>2 DEF Labelled, n
  <2> QED BY <1>6, <1>10, <2>1, <2>3
<1>12. s = t
  <2>1. Cat(One(Close), s) = Cat(One(Close), t)
    BY <1>4, <1>10, <1>11, Zenon
  <2> QED BY <1>2, <2>1, FirstToken
<1>13. p = q
  BY <1>10, <1>11, SeqEqual DEF m, n
<1> QED BY <1>5, <1>12, <1>13

LEMMA PartsLabelled ==
    ASSUME NEW v \in Json
    PROVE  /\ Labelled(Parts(v, Hash!Text))
           /\ Parts(v, Hash!Text) \in Seq(Tokens)
           /\ Len(Parts(v, Hash!Text)) = Len(Hash!Rebuilt(v).entries)
<1>1. Len(Parts(v, Hash!Text)) = Len(Hash!Rebuilt(v).entries)
  BY RebuiltFacts DEF Parts
<1>2. ASSUME NEW i \in 1 .. Len(Hash!Rebuilt(v).entries)
      PROVE  \E x \in Token, s \in Tokens :
                x # Close /\ Parts(v, Hash!Text)[i] = Cat(One(x), s)
  <2>1. i \in DOMAIN Hash!Rebuilt(v).entries
    BY RebuiltFacts
  <2>2. Parts(v, Hash!Text)[i] = Cat(One(Hash!Label(Hash!Rebuilt(v), i)),
                                 Hash!Text[Hash!Rebuilt(v).entries[i].value])
    BY <2>1 DEF Parts, Cat, One
  <2>3. Hash!Label(Hash!Rebuilt(v), i) \in Token
        /\ Hash!Text[Hash!Rebuilt(v).entries[i].value] \in Tokens
    BY <2>1, LabelType, TextFacts, RebuiltFacts
  <2>4. Hash!Label(Hash!Rebuilt(v), i) # Close
    BY DEF Hash!Label, Close
  <2> QED BY <2>2, <2>3, <2>4
<1>3. Parts(v, Hash!Text) \in Seq(Tokens)
  BY TextFacts, WrittenType
<1> QED BY <1>1, <1>2, <1>3 DEF Labelled

\* A text is read in one way, and what is read is what was written.
LEMMA TextsReadOneWay ==
    \A v, w \in Json : \A s, t \in Tokens :
       Cat(Hash!Text[v], s) = Cat(Hash!Text[w], t) =>
          Hash!SameContent[<<v, w>>] /\ Hash!Text[v] = Hash!Text[w] /\ s = t
<1> DEFINE S == {v \in Json : \A w \in Json : \A s, t \in Tokens :
                    Cat(Hash!Text[v], s) = Cat(Hash!Text[w], t) =>
                       Hash!SameContent[<<v, w>>] /\ Hash!Text[v] = Hash!Text[w] /\ s = t}
<1>1. ASSUME NEW v \in Json, \A u \in Json : Height[u] < Height[v] => u \in S
      PROVE  v \in S
  <2> SUFFICES ASSUME NEW w \in Json, NEW s \in Tokens, NEW t \in Tokens,
                      Cat(Hash!Text[v], s) = Cat(Hash!Text[w], t)
               PROVE  Hash!SameContent[<<v, w>>] /\ Hash!Text[v] = Hash!Text[w] /\ s = t
    OBVIOUS
  <2> DEFINE p == Parts(v, Hash!Text)
             q == Parts(w, Hash!Text)
             a == Hash!Rebuilt(v).entries
             b == Hash!Rebuilt(w).entries
             lv(i) == Hash!Label(Hash!Rebuilt(v), i)
             lw(i) == Hash!Label(Hash!Rebuilt(w), i)
  <2>1. \A u \in Json : Hash!Text[u] = IF u.kind = "atom" THEN One(<<"atom", u.atom>>)
                                  ELSE Hash!Bracketed(u.kind, Parts(u, Hash!Text))
    BY TextFacts, RebuiltFacts DEF Written, One
  <2>2. ASSUME NEW u \in Json
        PROVE  /\ <<"atom", u.atom>> \in Token /\ Open(u.kind) \in Token
               /\ u.kind \in Kinds
               /\ u.kind = "atom" => Hash!KeysOf(u) = {}
               /\ u.kind # "atom" => u.atom = "none"
               /\ <<"atom", u.atom>> # Open(u.kind)
    <3>1. <<"atom", u.atom>> \in Token /\ Open(u.kind) \in Token /\ u.kind \in Kinds
      BY JsonFacts DEF Token, Open
    <3>2. u.kind = "atom" => Hash!KeysOf(u) = {}
      BY InputsAssumption DEF Hash!KeysOf, Hash!JsonAssumption
    <3>3. u.kind # "atom" => u.atom = "none"
      BY InputsAssumption DEF Hash!JsonAssumption
    <3>4. <<"atom", u.atom>> # Open(u.kind)
      BY DEF Open
    <3> QED BY <3>1, <3>2, <3>3, <3>4
  <2>3. ASSUME NEW u \in Json, u.kind # "atom", NEW x \in Tokens
        PROVE  \E y \in Tokens : Cat(Hash!Text[u], x) = Cat(One(Open(u.kind)), y)
    <3>1. PICK rest \in [0 .. Len(Parts(u, Hash!Text)) -> Tokens] :
             Hash!Bracketed(u.kind, Parts(u, Hash!Text)) = Cat(One(Open(u.kind)), rest[0])
      <4>1. u.kind \in Kinds /\ Parts(u, Hash!Text) \in Seq(Tokens)
        BY <2>2, PartsLabelled
      <4> QED BY <4>1, BracketedFacts
    <3>2. rest[0] \in Tokens
      BY PartsLabelled, RebuiltFacts
    <3>3. Hash!Text[u] = Cat(One(Open(u.kind)), rest[0])
      BY <2>1, <2>3, <3>1
    <3>4. Cat(rest[0], x) \in Tokens /\ One(Open(u.kind)) \in Tokens
      BY <2>2, <3>2, TokensClosed
    <3>5. Cat(Cat(One(Open(u.kind)), rest[0]), x) = Cat(One(Open(u.kind)), Cat(rest[0], x))
      BY <3>2, <3>4, Associative
    <3> QED BY <3>3, <3>4, <3>5
  <2>4. CASE v.kind = "atom" /\ w.kind = "atom"
    <3>1. Cat(One(<<"atom", v.atom>>), s) = Cat(One(<<"atom", w.atom>>), t)
      BY <2>1, <2>4
    <3>2. <<"atom", v.atom>> = <<"atom", w.atom>> /\ s = t
      BY <2>2, <3>1, FirstToken
    <3>3. v.atom = w.atom /\ Hash!KeysOf(v) = {} /\ Hash!KeysOf(w) = {}
      <4>1. v.atom = w.atom
        BY <3>2
      <4>2. Hash!KeysOf(v) = {} /\ Hash!KeysOf(w) = {}
        BY <2>2, <2>4
      <4> QED BY <4>1, <4>2
    <3>4. Hash!SameContent[<<v, w>>]
      BY <2>4, <3>3, SameContentFacts
    <3>5. Hash!Text[v] = Hash!Text[w]
      BY <2>1, <2>4, <3>3
    <3> QED BY <3>2, <3>4, <3>5
  <2>5. CASE v.kind = "atom" /\ w.kind # "atom"
    <3>1. PICK y \in Tokens : Cat(Hash!Text[w], t) = Cat(One(Open(w.kind)), y)
      BY <2>3, <2>5
    <3>2. Cat(One(<<"atom", v.atom>>), s) = Cat(One(Open(w.kind)), y)
      BY <2>1, <2>5, <3>1
    <3>3. <<"atom", v.atom>> = Open(w.kind)
      <4>1. <<"atom", v.atom>> \in Token /\ Open(w.kind) \in Token
        BY <2>2
      <4> QED BY <3>2, <4>1, FirstToken
    <3> QED BY <3>3 DEF Open
  <2>6. CASE v.kind # "atom" /\ w.kind = "atom"
    <3>1. PICK y \in Tokens : Cat(Hash!Text[v], s) = Cat(One(Open(v.kind)), y)
      BY <2>3, <2>6
    <3>2. Cat(One(<<"atom", w.atom>>), t) = Cat(One(Open(v.kind)), y)
      BY <2>1, <2>6, <3>1
    <3>3. <<"atom", w.atom>> = Open(v.kind)
      <4>1. <<"atom", w.atom>> \in Token /\ Open(v.kind) \in Token
        BY <2>2
      <4> QED BY <3>2, <4>1, FirstToken
    <3> QED BY <3>3 DEF Open
  <2>7. CASE v.kind # "atom" /\ w.kind # "atom"
    <3>1. /\ Labelled(p) /\ p \in Seq(Tokens) /\ Len(p) = Len(a)
          /\ Labelled(q) /\ q \in Seq(Tokens) /\ Len(q) = Len(b)
      BY PartsLabelled
    <3>2. /\ Len(a) \in Nat /\ DOMAIN a = 1 .. Len(a)
          /\ Len(b) \in Nat /\ DOMAIN b = 1 .. Len(b)
          /\ Hash!Rebuilt(v).kind = v.kind /\ Hash!Rebuilt(w).kind = w.kind
          /\ Hash!KeysOf(v) = {a[i].key : i \in 1 .. Len(a)}
          /\ Hash!KeysOf(w) = {b[i].key : i \in 1 .. Len(b)}
      BY RebuiltFacts
    <3>3. \A i \in 1 .. Len(a) :
             /\ a[i].value \in Json /\ a[i].value \in S /\ Hash!Text[a[i].value] \in Tokens
             /\ a[i].value = Hash!ValueAt(v, a[i].key) /\ lv(i) \in Token
             /\ p[i] = Cat(One(lv(i)), Hash!Text[a[i].value])
      <4> TAKE i \in 1 .. Len(a)
      <4>1. i \in DOMAIN a
        BY <3>2
      <4>2. /\ a[i].value \in Json /\ Height[a[i].value] < Height[v]
            /\ a[i].value = Hash!ValueAt(v, a[i].key)
        BY <4>1, RebuiltFacts
      <4>3. p[i] = Cat(One(lv(i)), Hash!Text[a[i].value])
        BY <4>1 DEF Parts, Cat, One
      <4> QED BY <1>1, <4>1, <4>2, <4>3, LabelType, TextFacts
    <3>4. \A i \in 1 .. Len(b) :
             /\ b[i].value \in Json /\ Hash!Text[b[i].value] \in Tokens
             /\ b[i].value = Hash!ValueAt(w, b[i].key) /\ lw(i) \in Token
             /\ q[i] = Cat(One(lw(i)), Hash!Text[b[i].value])
      <4> TAKE i \in 1 .. Len(b)
      <4>1. i \in DOMAIN b
        BY <3>2
      <4>2. b[i].value \in Json /\ b[i].value = Hash!ValueAt(w, b[i].key)
        BY <4>1, RebuiltFacts
      <4>3. q[i] = Cat(One(lw(i)), Hash!Text[b[i].value])
        BY <4>1 DEF Parts, Cat, One
      <4> QED BY <4>1, <4>2, <4>3, LabelType, TextFacts
    <3> HIDE DEF p, q, a, b, S
    <3>5. ASSUME NEW i \in 1 .. Len(a), i \in 1 .. Len(b),
                 NEW x \in Tokens, NEW y \in Tokens,
                 Cat(p[i], x) = Cat(q[i], y)
          PROVE  /\ lv(i) = lw(i)
                 /\ Hash!SameContent[<<a[i].value, b[i].value>>]
                 /\ p[i] = q[i] /\ x = y
      <4>1. /\ Cat(Hash!Text[a[i].value], x) \in Tokens
            /\ Cat(Hash!Text[b[i].value], y) \in Tokens
            /\ Cat(p[i], x) = Cat(One(lv(i)), Cat(Hash!Text[a[i].value], x))
            /\ Cat(q[i], y) = Cat(One(lw(i)), Cat(Hash!Text[b[i].value], y))
        <5>1. /\ One(lv(i)) \in Tokens /\ Hash!Text[a[i].value] \in Tokens
              /\ One(lw(i)) \in Tokens /\ Hash!Text[b[i].value] \in Tokens
          BY <3>3, <3>4, <3>5, TokensClosed
        <5>2. /\ p[i] = Cat(One(lv(i)), Hash!Text[a[i].value])
              /\ q[i] = Cat(One(lw(i)), Hash!Text[b[i].value])
          BY <3>3, <3>4, <3>5
        <5>3. Cat(Hash!Text[a[i].value], x) \in Tokens
              /\ Cat(Hash!Text[b[i].value], y) \in Tokens
          BY <5>1, TokensClosed, Zenon
        <5>4. Cat(Cat(One(lv(i)), Hash!Text[a[i].value]), x)
                = Cat(One(lv(i)), Cat(Hash!Text[a[i].value], x))
          BY <5>1, Associative
        <5>5. Cat(Cat(One(lw(i)), Hash!Text[b[i].value]), y)
                = Cat(One(lw(i)), Cat(Hash!Text[b[i].value], y))
          BY <5>1, Associative
        <5> QED BY <5>2, <5>3, <5>4, <5>5, Zenon
      <4>2. /\ lv(i) = lw(i)
            /\ Cat(Hash!Text[a[i].value], x) = Cat(Hash!Text[b[i].value], y)
        <5>1. lv(i) \in Token /\ lw(i) \in Token
          BY <3>3, <3>4, <3>5
        <5>2. Cat(One(lv(i)), Cat(Hash!Text[a[i].value], x))
                = Cat(One(lw(i)), Cat(Hash!Text[b[i].value], y))
          BY <3>5, <4>1, Zenon
        <5> QED BY <4>1, <5>1, <5>2, FirstToken
      <4>3. /\ Hash!SameContent[<<a[i].value, b[i].value>>]
            /\ Hash!Text[a[i].value] = Hash!Text[b[i].value] /\ x = y
        BY <3>3, <3>4, <3>5, <4>2 DEF S
      <4> QED BY <3>3, <3>4, <3>5, <4>2, <4>3
    <3>6. Cat(Hash!Bracketed(v.kind, p), s) = Cat(Hash!Bracketed(w.kind, q), t)
      BY <2>1, <2>7 DEF p, q
    <3>7. \A i \in 1 .. Len(p) : i <= Len(q) =>
              \A x, y \in Tokens : Cat(p[i], x) = Cat(q[i], y) => p[i] = q[i] /\ x = y
      <4>1. \A i \in 1 .. Len(a) : i <= Len(b) => i \in 1 .. Len(b)
        BY <3>2
      <4> QED BY <3>1, <3>5, <4>1
    <3>8. v.kind = w.kind /\ p = q /\ s = t
      <4>1. v.kind \in Kinds /\ w.kind \in Kinds
        BY <2>2
      <4>2. \A i \in 1 .. Len(p) : i <= Len(q) =>
              \A a1, b1 \in Tokens : Cat(p[i], a1) = Cat(q[i], b1) => p[i] = q[i] /\ a1 = b1
        BY <3>7
      <4> QED BY <3>1, <3>6, <4>1, <4>2, ListsReadOneWay
    <3>9. Len(a) = Len(b) /\ \A i \in 1 .. Len(a) : p[i] \in Tokens /\ p[i] = q[i]
      BY <3>1, <3>8
    <3>10. \A i \in 1 .. Len(a) : /\ lv(i) = lw(i)
                                  /\ Hash!SameContent[<<a[i].value, b[i].value>>]
      <4> TAKE i \in 1 .. Len(a)
      <4>1. Cat(p[i], <<>>) = Cat(q[i], <<>>) /\ <<>> \in Tokens /\ i \in 1 .. Len(b)
        BY <3>9, TokensClosed
      <4> QED BY <3>5, <4>1
    <3>11. \A i \in 1 .. Len(a) : a[i].key = b[i].key
      <4>1. CASE v.kind = "object"
        BY <3>2, <3>8, <3>10, <4>1 DEF Hash!Label, a, b
      <4>2. CASE v.kind = "array"
        <5>1. Hash!Rebuilt(v) = v /\ Hash!Rebuilt(w) = w
          BY <3>8, <4>2 DEF Hash!Rebuilt
        <5>2. DOMAIN v.entries = 1 .. Len(a) /\ DOMAIN w.entries = 1 .. Len(a)
          BY <3>2, <3>9, <5>1 DEF a, b
        <5>3. /\ \A i \in 1 .. Len(a) : v.entries[i].key = i - 1
              /\ \A i \in 1 .. Len(a) : w.entries[i].key = i - 1
          BY <3>8, <4>2, <5>2, InputsAssumption DEF Hash!JsonAssumption
        <5> QED BY <5>1, <5>3 DEF a, b
      <4>3. v.kind \in Kinds
        BY <2>2
      <4> QED BY <2>7, <4>1, <4>2, <4>3 DEF Kinds
    <3>12. Hash!KeysOf(v) = Hash!KeysOf(w)
      BY <3>2, <3>9, <3>11
    <3>13. \A k \in Hash!KeysOf(v) :
          Hash!SameContent[<<Hash!ValueAt(v, k), Hash!ValueAt(w, k)>>]
      BY <3>2, <3>3, <3>4, <3>9, <3>10, <3>11
    <3>14. v.atom = w.atom
      BY <2>2, <2>7
    <3>15. Hash!SameContent[<<v, w>>]
      BY <3>8, <3>12, <3>13, <3>14, SameContentFacts
    <3>16. Hash!Text[v] = Hash!Text[w]
      BY <2>1, <2>7, <3>8 DEF p, q
    <3> QED BY <3>8, <3>15, <3>16
  <2> QED BY <2>4, <2>5, <2>6, <2>7
<1> HIDE DEF S
<1>2. Json \subseteq S
  BY <1>1, InputsAssumption, HeightInduction DEF Hash!JsonAssumption
<1> QED BY <1>2 DEF S

\* The same content is written the same way.
LEMMA SameContentSameText ==
    \A v, w \in Json : Hash!SameContent[<<v, w>>] => Hash!Text[v] = Hash!Text[w]
<1> DEFINE S == {v \in Json : \A w \in Json :
                    Hash!SameContent[<<v, w>>] => Hash!Text[v] = Hash!Text[w]}
<1>1. ASSUME NEW v \in Json, \A u \in Json : Height[u] < Height[v] => u \in S
      PROVE  v \in S
  <2> SUFFICES ASSUME NEW w \in Json, Hash!SameContent[<<v, w>>]
               PROVE  Hash!Text[v] = Hash!Text[w]
    OBVIOUS
  <2> DEFINE a == Hash!Rebuilt(v).entries
             b == Hash!Rebuilt(w).entries
  <2>1. /\ v.kind = w.kind /\ v.atom = w.atom /\ Hash!KeysOf(v) = Hash!KeysOf(w)
        /\ \A k \in Hash!KeysOf(v) :
              Hash!SameContent[<<Hash!ValueAt(v, k), Hash!ValueAt(w, k)>>]
    BY SameContentFacts
  <2>2. Len(a) = Len(b) /\ \A i \in 1 .. Len(a) : a[i].key = b[i].key
    BY <2>1, CanonicalOrder
  <2>3. /\ Hash!Rebuilt(v).kind = v.kind /\ Hash!Rebuilt(w).kind = w.kind
        /\ Hash!Rebuilt(v).atom = v.atom /\ Hash!Rebuilt(w).atom = w.atom
        /\ DOMAIN a = 1 .. Len(a) /\ DOMAIN b = 1 .. Len(b)
    BY RebuiltFacts
  <2>4. ASSUME NEW i \in DOMAIN a PROVE Parts(v, Hash!Text)[i] = Parts(w, Hash!Text)[i]
    <3>1. i \in DOMAIN b /\ i \in 1 .. Len(a) /\ a[i].key = b[i].key
      BY <2>2, <2>3
    <3>2. /\ a[i].value \in Json /\ Height[a[i].value] < Height[v]
          /\ a[i].value = Hash!ValueAt(v, a[i].key) /\ a[i].key \in Hash!KeysOf(v)
      BY RebuiltFacts
    <3>3. b[i].value \in Json /\ b[i].value = Hash!ValueAt(w, b[i].key)
      BY <3>1, RebuiltFacts
    <3>4. Hash!SameContent[<<a[i].value, b[i].value>>]
      BY <2>1, <3>1, <3>2, <3>3
    <3>5. Hash!Text[a[i].value] = Hash!Text[b[i].value]
      BY <1>1, <3>2, <3>3, <3>4
    <3>6. Hash!Label(Hash!Rebuilt(v), i) = Hash!Label(Hash!Rebuilt(w), i)
      BY <2>1, <2>3, <3>1 DEF Hash!Label
    <3>7. /\ Parts(v, Hash!Text)[i] = <<Hash!Label(Hash!Rebuilt(v), i)>>
                                 \o Hash!Text[a[i].value]
          /\ Parts(w, Hash!Text)[i] = <<Hash!Label(Hash!Rebuilt(w), i)>>
                                 \o Hash!Text[b[i].value]
      BY <3>1 DEF Parts
    <3> QED BY <3>5, <3>6, <3>7
  <2>5. Parts(v, Hash!Text) = Parts(w, Hash!Text)
    <3>1. DOMAIN Parts(v, Hash!Text) = DOMAIN a /\ DOMAIN Parts(w, Hash!Text) = DOMAIN a
      BY <2>2, <2>3 DEF Parts
    <3> HIDE DEF a
    <3>2. /\ Parts(v, Hash!Text) = [i \in DOMAIN a |-> Parts(v, Hash!Text)[i]]
          /\ Parts(w, Hash!Text) = [i \in DOMAIN a |-> Parts(w, Hash!Text)[i]]
      BY <3>1 DEF Parts
    <3> QED BY <2>4, <3>2
  <2>6. Written(v, Hash!Text) = Written(w, Hash!Text)
    BY <2>1, <2>3, <2>5 DEF Written
  <2> QED BY <2>6, TextFacts
<1> HIDE DEF S
<1>2. Json \subseteq S
  BY <1>1, InputsAssumption, HeightInduction DEF Hash!JsonAssumption
<1> QED BY <1>2 DEF S

\* Whatever JSON values the requests bring, they are taken for the same payload
\* exactly when their content is the same.
THEOREM HashIdentifies == Hash!Spec => []HashIsContent
<1> DEFINE Inv == sent \in Json /\ resent \in Json
<1>1. Hash!Init => Inv
  BY InputsAssumption DEF Hash!Init, Hash!JsonAssumption
<1>2. Inv /\ [Hash!Next]_(Hash!vars) => Inv'
  BY InputsAssumption DEF Hash!Next, Hash!Resend, Hash!vars, Hash!JsonAssumption
<1>3. Inv => HashIsContent
  <2> SUFFICES ASSUME Inv PROVE HashIsContent
    OBVIOUS
  <2>1. Hash!Text[sent] = Hash!Text[resent] => Hash!SameContent[<<sent, resent>>]
    BY TextFacts, TokensClosed, TextsReadOneWay
  <2>2. Hash!SameContent[<<sent, resent>>] => Hash!Text[sent] = Hash!Text[resent]
    BY SameContentSameText
  <2> QED BY <2>1, <2>2 DEF HashIsContent, Hash!HashIsContent, Hash!HashPayload
<1> QED BY <1>1, <1>2, <1>3, PTL DEF Hash!Spec
=============================================================================
