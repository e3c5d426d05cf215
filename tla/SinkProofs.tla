---------------------------- MODULE SinkProofs ----------------------------
(***************************************************************************)
(* For any keys, headers and capacity: the Map stays bounded and exact, it *)
(* remembers the last MaxTracked insertions, and it is the consumer the    *)
(* outbox relies on as long as there are no more keys than it can hold.    *)
(***************************************************************************)
EXTENDS Sink, FiniteSetTheorems, TLAPS

\* The Map is the window of the last insertions: its i-th key was inserted
\* Len(order) - i insertions ago, and it is full once anything fell out of it.
Window ==
    /\ Len(order) <= inserted
    /\ Len(order) < MaxTracked => inserted = Len(order)
    /\ \A i \in 1 .. Len(order) : serial[order[i]] = (inserted - Len(order)) + i
    /\ \A k \in DedupKeys :
          serial[k] # 0 /\ ~Held(k) =>
              Len(order) = MaxTracked /\ serial[k] + MaxTracked <= inserted

IInv == TypeOK /\ MapIsBounded /\ Window

-----------------------------------------------------------------------------

\* Appending and dropping the first, position by position.
LEMMA AppendFacts ==
    ASSUME NEW S, NEW s \in Seq(S), NEW k \in S
    PROVE  /\ Append(s, k) \in Seq(S) /\ Len(Append(s, k)) = Len(s) + 1
           /\ \A i \in 1 .. Len(s) : Append(s, k)[i] = s[i]
           /\ Append(s, k)[Len(s) + 1] = k
OBVIOUS

LEMMA TailFacts ==
    ASSUME NEW S, NEW s \in Seq(S), Len(s) > 0
    PROVE  /\ Tail(s) \in Seq(S) /\ Len(Tail(s)) = Len(s) - 1
           /\ \A i \in 1 .. Len(s) - 1 : Tail(s)[i] = s[i + 1]
           /\ Head(s) = s[1] /\ Head(s) \in S
OBVIOUS

\* What an insertion makes of the Map, with or without an eviction.
LEMMA InsertFacts ==
    ASSUME IInv, NEW k \in DedupKeys, Insert(k)
    PROVE  /\ order' \in Seq(DedupKeys)
           /\ Len(order) < MaxTracked =>
                 /\ Len(order') = Len(order) + 1
                 /\ \A i \in 1 .. Len(order) : order'[i] = order[i]
                 /\ order'[Len(order) + 1] = k
                 /\ count' = [count EXCEPT ![k] = 1]
           /\ Len(order) = MaxTracked =>
                 /\ Len(order') = Len(order)
                 /\ \A i \in 1 .. Len(order) - 1 : order'[i] = order[i + 1]
                 /\ order'[Len(order)] = k
                 /\ order[1] \in DedupKeys
                 /\ count' = [count EXCEPT ![k] = 1, ![order[1]] = 0]
<1> DEFINE keys == Append(order, k)
<1>1. /\ order \in Seq(DedupKeys) /\ Len(order) \in Nat /\ Len(order) <= MaxTracked
      /\ MaxTracked \in Nat \ {0}
  BY SinkAssumption DEF IInv, TypeOK, MapIsBounded
<1>2. /\ keys \in Seq(DedupKeys) /\ Len(keys) = Len(order) + 1
      /\ \A i \in 1 .. Len(order) : keys[i] = order[i]
      /\ keys[Len(order) + 1] = k
  BY <1>1, AppendFacts
<1>3. /\ Tail(keys) \in Seq(DedupKeys) /\ Len(Tail(keys)) = Len(order)
      /\ \A i \in 1 .. Len(order) : Tail(keys)[i] = keys[i + 1]
      /\ Head(keys) = keys[1] /\ Head(keys) \in DedupKeys
  <2>1. Len(keys) > 0 /\ Len(keys) - 1 = Len(order)
    BY <1>1, <1>2
  <2> HIDE DEF keys
  <2> QED BY <2>1, <1>2, TailFacts
<1>4. IF Len(keys) > MaxTracked
      THEN order' = Tail(keys) /\ count' = [count EXCEPT ![k] = 1, ![Head(keys)] = 0]
      ELSE order' = keys /\ count' = [count EXCEPT ![k] = 1]
  BY DEF Insert, OverLimit
<1> HIDE DEF keys
<1>5. CASE Len(order) < MaxTracked
  <2>1. order' = keys /\ count' = [count EXCEPT ![k] = 1]
    BY <1>1, <1>2, <1>4, <1>5
  <2> QED BY <2>1, <1>1, <1>2, <1>5
<1>6. CASE Len(order) = MaxTracked
  <2>1. order' = Tail(keys) /\ count' = [count EXCEPT ![k] = 1, ![Head(keys)] = 0]
    BY <1>1, <1>2, <1>4, <1>6
  <2>2. Head(keys) = order[1]
    BY <1>1, <1>2, <1>3, <1>6
  <2>3. \A i \in 1 .. Len(order) - 1 : order'[i] = order[i + 1]
    BY <2>1, <1>1, <1>2, <1>3
  <2>4. order'[Len(order)] = k
    BY <2>1, <1>1, <1>2, <1>3, <1>6
  <2>5. order' \in Seq(DedupKeys) /\ Len(order') = Len(order)
    BY <2>1, <1>3
  <2>6. order[1] \in DedupKeys /\ count' = [count EXCEPT ![k] = 1, ![order[1]] = 0]
    BY <2>1, <2>2, <1>3
  <2>7. ~(Len(order) < MaxTracked)
    BY <1>1, <1>6
  <2> QED BY <2>3, <2>4, <2>5, <2>6, <2>7
<1> QED BY <1>1, <1>5, <1>6

LEMMA InsertKeepsIInv ==
    ASSUME IInv, NEW k \in DedupKeys, Insert(k),
           answer' \in [key : DedupKeys, duplicate : BOOLEAN] \cup {NoAnswer}
    PROVE  IInv'
<1> USE SinkAssumption
<1>1. /\ order \in Seq(DedupKeys) /\ Len(order) \in Nat /\ Len(order) <= MaxTracked
      /\ count \in [DedupKeys -> 0 .. MaxCount] /\ inserted \in 0 .. MaxInserts
      /\ serial \in [DedupKeys -> 0 .. MaxInserts]
      /\ \A i \in 1 .. Len(order) : order[i] \in DedupKeys
  BY DEF IInv, TypeOK, MapIsBounded
<1>2. /\ count[k] = 0 /\ inserted < MaxInserts /\ inserted' = inserted + 1
      /\ serial' = [serial EXCEPT ![k] = inserted + 1]
  BY DEF Insert
<1>3. ~Held(k) /\ \A i \in 1 .. Len(order) : order[i] # k
  BY <1>1, <1>2 DEF IInv, MapIsBounded, Held
<1>4. /\ order' \in Seq(DedupKeys) /\ Len(order') \in Nat
      /\ Len(order') = IF Len(order) < MaxTracked THEN Len(order) + 1 ELSE MaxTracked
  BY <1>1, InsertFacts
<1>5. TypeOK'
  <2>1. 0 \in 0 .. MaxCount /\ 1 \in 0 .. MaxCount
    OBVIOUS
  <2>2. \/ count' = [count EXCEPT ![k] = 1]
        \/ order[1] \in DedupKeys /\ count' = [count EXCEPT ![k] = 1, ![order[1]] = 0]
    BY <1>1, InsertFacts
  <2>3. count' \in [DedupKeys -> 0 .. MaxCount]
    BY <2>1, <2>2, <1>1
  <2> QED BY <2>3, <1>1, <1>2, <1>4 DEF TypeOK
<1>6. CASE Len(order) < MaxTracked
  <2>1. /\ Len(order') = Len(order) + 1
        /\ \A i \in 1 .. Len(order) : order'[i] = order[i]
        /\ order'[Len(order) + 1] = k
        /\ count' = [count EXCEPT ![k] = 1]
    BY <1>6, InsertFacts
  <2>2. \A i \in 1 .. Len(order') : i \in 1 .. Len(order) \/ i = Len(order')
    BY <2>1, <1>1
  <2>3. \A l \in DedupKeys : Held(l)' <=> (Held(l) \/ l = k)
    <3> TAKE l \in DedupKeys
    <3>1. ASSUME Held(l)' PROVE Held(l) \/ l = k
      <4>1. PICK i \in 1 .. Len(order') : order'[i] = l
        BY <3>1 DEF Held
      <4> QED BY <4>1, <2>1, <2>2 DEF Held
    <3>2. ASSUME Held(l) PROVE Held(l)'
      <4>1. PICK i \in 1 .. Len(order) : order[i] = l
        BY <3>2 DEF Held
      <4>2. i \in 1 .. Len(order') /\ order'[i] = l
        BY <4>1, <2>1, <1>1
      <4> QED BY <4>2 DEF Held
    <3>3. ASSUME l = k PROVE Held(l)'
      <4>1. Len(order) + 1 \in 1 .. Len(order') /\ order'[Len(order) + 1] = l
        BY <3>3, <2>1, <1>1
      <4> QED BY <4>1 DEF Held
    <3> QED BY <3>1, <3>2, <3>3
  <2>4. MapIsBounded'
    <3>1. \A l \in DedupKeys : count'[l] # 0 <=> Held(l)'
      BY <2>1, <2>3, <1>1 DEF IInv, MapIsBounded
    <3>2. \A i, j \in 1 .. Len(order') : order'[i] = order'[j] => i = j
      <4>1. \A i, j \in 1 .. Len(order) : order[i] = order[j] => i = j
        BY DEF IInv, MapIsBounded
      <4> QED BY <4>1, <2>1, <2>2, <1>1, <1>3
    <3> QED BY <3>1, <3>2, <2>1, <1>1, <1>6 DEF MapIsBounded
  <2>5. Window'
    <3>1. inserted = Len(order)
      BY <1>6 DEF IInv, Window
    <3>2. \A i \in 1 .. Len(order') : serial'[order'[i]] = (inserted' - Len(order')) + i
      <4> TAKE i \in 1 .. Len(order')
      <4>1. CASE i \in 1 .. Len(order)
        BY <4>1, <2>1, <1>1, <1>2, <1>3, <3>1 DEF IInv, Window
      <4>2. CASE i = Len(order')
        BY <4>2, <2>1, <1>1, <1>2, <3>1
      <4> QED BY <4>1, <4>2, <2>2
    <3>3. ASSUME NEW l \in DedupKeys, serial'[l] # 0, ~Held(l)' PROVE FALSE
      <4>1. l # k /\ ~Held(l) /\ serial[l] # 0
        BY <3>3, <2>3, <1>1, <1>2
      <4> QED BY <4>1, <1>6 DEF IInv, Window
    <3> QED BY <3>1, <3>2, <3>3, <2>1, <1>1, <1>2 DEF Window
  <2> QED BY <1>5, <2>4, <2>5 DEF IInv
<1>7. CASE Len(order) = MaxTracked
  <2>1. /\ Len(order') = Len(order)
        /\ \A i \in 1 .. Len(order) - 1 : order'[i] = order[i + 1]
        /\ order'[Len(order)] = k
        /\ order[1] \in DedupKeys
        /\ count' = [count EXCEPT ![k] = 1, ![order[1]] = 0]
    BY <1>7, InsertFacts
  <2>2. \A i \in 1 .. Len(order') : i \in 1 .. Len(order) - 1 \/ i = Len(order')
    BY <2>1, <1>1
  <2>3. order[1] # k /\ Held(order[1])
    BY <1>1, <1>3, <1>7 DEF Held
  <2>4. \A l \in DedupKeys : Held(l)' <=> (Held(l) /\ l # order[1]) \/ l = k
    <3> TAKE l \in DedupKeys
    <3>1. ASSUME Held(l)' PROVE (Held(l) /\ l # order[1]) \/ l = k
      <4>1. PICK i \in 1 .. Len(order') : order'[i] = l
        BY <3>1 DEF Held
      <4>2. CASE i \in 1 .. Len(order) - 1
        <5>0. i + 1 \in 1 .. Len(order) /\ 1 \in 1 .. Len(order) /\ i + 1 # 1
          BY <4>2, <1>1
        <5>1. order[i + 1] = l /\ i + 1 \in 1 .. Len(order) /\ 1 \in 1 .. Len(order) /\ i + 1 # 1
          BY <5>0, <4>1, <4>2, <2>1
        <5>2. order[i + 1] # order[1]
          BY <5>1 DEF IInv, MapIsBounded
        <5> QED BY <5>1, <5>2 DEF Held
      <4> QED BY <4>1, <4>2, <2>1, <2>2
    <3>2. ASSUME Held(l), l # order[1] PROVE Held(l)'
      <4>1. PICK i \in 1 .. Len(order) : order[i] = l
        BY <3>2 DEF Held
      <4>2. i - 1 \in 1 .. Len(order) - 1 /\ order'[i - 1] = order[(i - 1) + 1] /\ (i - 1) + 1 = i
        BY <4>1, <3>2, <2>1, <1>1
      <4> QED BY <4>1, <4>2, <2>1, <1>1 DEF Held
    <3>3. ASSUME l = k PROVE Held(l)'
      BY <3>3, <2>1, <1>1, <1>7 DEF Held
    <3> QED BY <3>1, <3>2, <3>3
  <2>5. MapIsBounded'
    <3>1. \A l \in DedupKeys : count'[l] # 0 <=> Held(l)'
      BY <2>1, <2>3, <2>4, <1>1 DEF IInv, MapIsBounded
    <3>2. ASSUME NEW i \in 1 .. Len(order'), NEW j \in 1 .. Len(order'), order'[i] = order'[j]
          PROVE  i = j
      <4>1. CASE i \in 1 .. Len(order) - 1 /\ j \in 1 .. Len(order) - 1
        <5>1. order[i + 1] = order[j + 1] /\ i + 1 \in 1 .. Len(order) /\ j + 1 \in 1 .. Len(order)
          BY <4>1, <3>2, <2>1, <1>1
        <5>2. i + 1 = j + 1
          BY <5>1 DEF IInv, MapIsBounded
        <5> QED BY <5>2
      <4>2. CASE i \in 1 .. Len(order) - 1 /\ j = Len(order')
        <5>1. order[i + 1] = k /\ i + 1 \in 1 .. Len(order)
          BY <4>2, <3>2, <2>1, <1>1
        <5> QED BY <5>1, <1>3
      <4>3. CASE j \in 1 .. Len(order) - 1 /\ i = Len(order')
        <5>1. order[j + 1] = k /\ j + 1 \in 1 .. Len(order)
          BY <4>3, <3>2, <2>1, <1>1
        <5> QED BY <5>1, <1>3
      <4> QED BY <4>1, <4>2, <4>3, <2>2
    <3> QED BY <3>1, <3>2, <2>1, <1>1 DEF MapIsBounded
  <2>6. Window'
    <3>1. \A i \in 1 .. Len(order') : serial'[order'[i]] = (inserted' - Len(order')) + i
      <4> TAKE i \in 1 .. Len(order')
      <4>1. CASE i \in 1 .. Len(order) - 1
        <5>1. i + 1 \in 1 .. Len(order)
          BY <4>1, <1>1
        <5>2. order'[i] = order[i + 1]
          BY <4>1, <2>1
        <5>3. order[i + 1] # k
          BY <5>1, <1>3
        <5>4. serial[order[i + 1]] = (inserted - Len(order)) + (i + 1)
          BY <5>1 DEF IInv, Window
        <5> QED BY <5>1, <5>2, <5>3, <5>4, <2>1, <1>1, <1>2
      <4>2. CASE i = Len(order')
        BY <4>2, <2>1, <1>1, <1>2
      <4> QED BY <4>1, <4>2, <2>2
    <3>2. ASSUME NEW l \in DedupKeys, serial'[l] # 0, ~Held(l)'
          PROVE  serial'[l] + MaxTracked <= inserted'
      <4>1. l # k /\ serial[l] # 0 /\ serial'[l] = serial[l] /\ (~Held(l) \/ l = order[1])
        BY <3>2, <2>4, <1>1, <1>2
      <4>2. CASE ~Held(l)
        <5>1. serial[l] + MaxTracked <= inserted
          BY <4>1, <4>2 DEF IInv, Window
        <5> QED BY <5>1, <4>1, <1>1, <1>2
      <4>3. CASE l = order[1]
        <5>1. serial[order[1]] = (inserted - Len(order)) + 1
          BY <1>1, <1>7 DEF IInv, Window
        <5> QED BY <5>1, <4>1, <4>3, <1>1, <1>2, <1>7
      <4> QED BY <4>1, <4>2, <4>3
    <3>3. Len(order) <= inserted
      BY DEF IInv, Window
    <3> QED BY <3>1, <3>2, <3>3, <2>1, <1>1, <1>2, <1>7 DEF Window
  <2> QED BY <1>5, <2>5, <2>6 DEF IInv
<1> QED BY <1>1, <1>6, <1>7

LEMMA RepeatKeepsIInv ==
    ASSUME IInv, NEW k \in DedupKeys, Repeat(k),
           answer' \in [key : DedupKeys, duplicate : BOOLEAN] \cup {NoAnswer}
    PROVE  IInv'
<1> USE SinkAssumption
<1>1. /\ count \in [DedupKeys -> 0 .. MaxCount] /\ count[k] # 0 /\ count[k] < MaxCount
      /\ count' = [count EXCEPT ![k] = count[k] + 1]
      /\ order' = order /\ inserted' = inserted /\ serial' = serial
  BY DEF IInv, TypeOK, Repeat
<1>2. count' \in [DedupKeys -> 0 .. MaxCount]
  BY <1>1
<1>3. \A l \in DedupKeys : count'[l] # 0 <=> count[l] # 0
  BY <1>1
<1>4. \A l \in DedupKeys : Held(l)' <=> Held(l)
  BY <1>1 DEF Held
<1>5. TypeOK'
  BY <1>1, <1>2 DEF IInv, TypeOK
<1>6. MapIsBounded'
  BY <1>1, <1>3, <1>4 DEF IInv, MapIsBounded
<1>7. Window'
  BY <1>1, <1>4 DEF IInv, Window
<1> QED BY <1>5, <1>6, <1>7 DEF IInv

LEMMA EmptyMap ==
    ASSUME order = << >>, count = [k \in DedupKeys |-> 0], answer = NoAnswer,
           inserted = 0, serial = [k \in DedupKeys |-> 0]
    PROVE  IInv
BY SinkAssumption DEF IInv, TypeOK, MapIsBounded, Window, Held

LEMMA RestartKeepsIInv == Restart => IInv'
BY SinkAssumption DEF Restart, IInv, TypeOK, MapIsBounded, Window, Held

LEMMA SameAnswer ==
    ASSUME NEW k, NEW l, NEW c, NEW d,
           [key |-> k, duplicate |-> c] = [key |-> l, duplicate |-> d]
    PROVE  k = l /\ c = d
BY [key |-> k, duplicate |-> c].key = k, [key |-> k, duplicate |-> c].duplicate = c,
   [key |-> l, duplicate |-> d].key = l, [key |-> l, duplicate |-> d].duplicate = d

\* The answer of a delivery is well formed.
LEMMA AnswerType ==
    ASSUME NEW h \in Headers, Receive(h)
    PROVE  /\ KeyOf[h] \in DedupKeys
           /\ answer' \in [key : DedupKeys, duplicate : BOOLEAN] \cup {NoAnswer}
BY SinkAssumption DEF Receive, IsDuplicate

LEMMA StepKeepsIInv == IInv /\ [Next]_vars => IInv'
<1> SUFFICES ASSUME IInv, [Next]_vars PROVE IInv'
  OBVIOUS
<1>1. ASSUME NEW h \in Headers, Receive(h) PROVE IInv'
  BY <1>1, AnswerType, RepeatKeepsIInv, InsertKeepsIInv DEF Receive
<1>2. CASE Restart
  BY <1>2, RestartKeepsIInv
<1>3. CASE UNCHANGED vars
  BY <1>3 DEF vars, IInv, TypeOK, MapIsBounded, Window, Held
<1> QED BY <1>1, <1>2, <1>3 DEF Next

\* The inductive invariant of the Map: typed, bounded, and a window.
THEOREM MapIsAWindow == Spec => []IInv
<1>1. Init => IInv
  BY EmptyMap DEF Init
<1> QED BY <1>1, StepKeepsIInv, PTL DEF Spec

\* MapIsBounded for every capacity, whatever arrives.
THEOREM BoundedMap == Spec => []MapIsBounded
<1>1. IInv => MapIsBounded
  BY DEF IInv
<1> QED BY <1>1, MapIsAWindow, PTL

\* RecentIsRemembered: a repeat with fewer than MaxTracked new keys in between
\* is collapsed.
THEOREM RecentKept == Spec => []RecentIsRemembered
<1>1. IInv => RecentIsRemembered
  <2> SUFFICES ASSUME IInv, NEW k \in DedupKeys, serial[k] # 0,
                      inserted < serial[k] + MaxTracked
               PROVE  count[k] # 0
    BY DEF RecentIsRemembered, Listed
  <2>1. serial[k] \in Nat /\ inserted \in Nat /\ MaxTracked \in Nat
    BY SinkAssumption DEF IInv, TypeOK
  <2>2. Held(k)
    BY <2>1 DEF IInv, Window
  <2> QED BY <2>2 DEF IInv, MapIsBounded
<1> QED BY <1>1, MapIsAWindow, PTL

\* FirstArrivalIsNew: what is called a duplicate came in before.
THEOREM NothingSwallowed == Spec => FirstArrivalIsNew
<1>1. ASSUME IInv, [Next]_vars
      PROVE  [\A k \in DedupKeys :
                answer' = [key |-> k, duplicate |-> TRUE] => serial[k] # 0]_vars
  <2> SUFFICES ASSUME ~UNCHANGED vars, NEW k \in DedupKeys,
                      answer' = [key |-> k, duplicate |-> TRUE]
               PROVE  serial[k] # 0
    OBVIOUS
  <2>0. answer' = [key |-> k, duplicate |-> TRUE]
    OBVIOUS
  <2>1. CASE \E h \in Headers : Receive(h)
    <3>1. PICK h \in Headers : Receive(h)
      BY <2>1
    <3>2. answer' = [key |-> KeyOf[h], duplicate |-> IsDuplicate(count[KeyOf[h]] + 1)]
      BY <3>1 DEF Receive
    <3>3. KeyOf[h] = k /\ IsDuplicate(count[k] + 1) = TRUE
      BY <2>0, <3>2, SameAnswer
    <3>4. /\ count[k] \in Nat /\ inserted \in Nat /\ Len(order) \in Nat
          /\ count[k] # 0 => Held(k)
          /\ Len(order) <= inserted
          /\ \A i \in 1 .. Len(order) : serial[order[i]] = (inserted - Len(order)) + i
      <4>1. MaxCount \in Nat /\ MaxInserts \in Nat
        BY SinkAssumption
      <4>2. /\ count[k] \in 0 .. MaxCount /\ inserted \in 0 .. MaxInserts
            /\ order \in Seq(DedupKeys)
        BY <1>1 DEF IInv, TypeOK
      <4>3. count[k] # 0 => Held(k)
        BY <1>1 DEF IInv, MapIsBounded
      <4> QED BY <1>1, <4>1, <4>2, <4>3 DEF IInv, Window
    <3>5. count[k] # 0
      BY <3>3, <3>4 DEF IsDuplicate
    <3>6. PICK i \in 1 .. Len(order) : order[i] = k
      BY <3>4, <3>5 DEF Held
    <3>7. serial[k] = (inserted - Len(order)) + i
      BY <3>4, <3>6
    <3> QED BY <3>4, <3>6, <3>7
  <2>2. CASE Restart
    <3>1. [key |-> k, duplicate |-> TRUE] \in [key : DedupKeys, duplicate : BOOLEAN]
      OBVIOUS
    <3>2. answer' = NoAnswer
      BY <2>2 DEF Restart
    <3>3. answer' \in [key : DedupKeys, duplicate : BOOLEAN]
      BY <3>1, <2>0
    <3>4. NoAnswer \in [key : DedupKeys, duplicate : BOOLEAN]
      BY <3>2, <3>3
    <3>5. NoAnswer \notin [key : DedupKeys, duplicate : BOOLEAN]
      BY SinkAssumption
    <3> QED BY <3>4, <3>5
  <2> QED BY <1>1, <2>1, <2>2 DEF Next
<1> QED BY <1>1, MapIsAWindow, PTL DEF Spec, FirstArrivalIsNew

-----------------------------------------------------------------------------
(* The refinement. *)

IdealKnown == {k \in DedupKeys : count[k] # 0}

\* With room for every key, nothing is ever evicted.
LEMMA RoomForAll ==
    ASSUME IInv, IsFiniteSet(DedupKeys), Cardinality(DedupKeys) <= MaxTracked,
           NEW k \in DedupKeys, Insert(k)
    PROVE  Len(order) < MaxTracked
<1>1. /\ order \in Seq(DedupKeys) /\ Len(order) \in Nat /\ Len(order) <= MaxTracked
      /\ MaxTracked \in Nat /\ Cardinality(DedupKeys) \in Nat
  BY SinkAssumption, FS_CardinalityType DEF IInv, TypeOK, MapIsBounded
<1>2. ~Held(k)
  BY DEF Insert, IInv, MapIsBounded
<1>3. SUFFICES ASSUME Len(order) = MaxTracked PROVE FALSE
  BY <1>1
<1> DEFINE T == DedupKeys \ {k}
           f == [i \in 1 .. Len(order) |-> order[i]]
<1>4. IsFiniteSet(T) /\ Cardinality(T) = Cardinality(DedupKeys) - 1
  BY FS_RemoveElement
<1>5. IsFiniteSet(1 .. Len(order)) /\ Cardinality(1 .. Len(order)) = Len(order)
  <2>1. IsFiniteSet(1 .. Len(order))
        /\ Cardinality(1 .. Len(order)) = IF 1 > Len(order) THEN 0 ELSE (Len(order) - 1) + 1
    <3>1. \A a, b \in Int : /\ IsFiniteSet(a .. b)
                            /\ Cardinality(a .. b) = IF a > b THEN 0 ELSE (b - a) + 1
      BY FS_Interval
    <3>2. 1 \in Int /\ Len(order) \in Int
      BY <1>1
    <3> QED BY <3>1, <3>2, Zenon
  <2> QED BY <2>1, <1>1
<1>6. f \in [1 .. Len(order) -> T]
  BY <1>1, <1>2 DEF Held
<1>7. Cardinality(T) < Cardinality(1 .. Len(order))
  BY <1>1, <1>3, <1>4, <1>5
<1> HIDE DEF T, f
<1>8. \E i, j \in 1 .. Len(order) : i # j /\ f[i] = f[j]
  BY <1>4, <1>5, <1>6, <1>7, FS_PigeonHole
<1> QED BY <1>8 DEF f, IInv, MapIsBounded

\* A step of the Map is a step of the ideal receiver.
LEMMA StepRefines ==
    ASSUME IInv, IsFiniteSet(DedupKeys), Cardinality(DedupKeys) <= MaxTracked, [Next]_vars
    PROVE  [Ideal!Next]_<<IdealKnown, answer>>
<1>1. /\ count \in [DedupKeys -> 0 .. MaxCount] /\ MaxCount \in Nat
      /\ \A k \in DedupKeys : count[k] \in Nat
  BY SinkAssumption DEF IInv, TypeOK
<1>2. ASSUME NEW h \in Headers, Receive(h) PROVE Ideal!Receive(KeyOf[h])
  <2> DEFINE k == KeyOf[h]
  <2>1. k \in DedupKeys
    BY <1>2, AnswerType
  <2>2. answer' = [key |-> k, duplicate |-> k \in IdealKnown]
    <3>1. IsDuplicate(count[k] + 1) = (k \in IdealKnown)
      BY <2>1, <1>1 DEF IsDuplicate, IdealKnown
    <3> QED BY <1>2, <3>1 DEF Receive
  <2>3. \A l \in DedupKeys : count'[l] # 0 <=> (count[l] # 0 \/ l = k)
    <3>1. CASE Repeat(k)
      <4>1. count' = [count EXCEPT ![k] = count[k] + 1] /\ count[k] # 0
        BY <3>1 DEF Repeat
      <4> QED BY <4>1, <2>1, <1>1
    <3>2. CASE Insert(k)
      <4>1. count' = [count EXCEPT ![k] = 1]
        BY <3>2, <2>1, RoomForAll, InsertFacts
      <4> QED BY <4>1, <2>1, <1>1
    <3> QED BY <1>2, <3>1, <3>2 DEF Receive
  <2>4. IdealKnown' = IdealKnown \cup {k}
    BY <2>1, <2>3 DEF IdealKnown
  <2> QED BY <2>2, <2>4 DEF Ideal!Receive, IdealKnown
<1>3. ASSUME Restart PROVE Ideal!Restart
  BY <1>3 DEF Restart, Ideal!Restart
<1>4. ASSUME UNCHANGED vars PROVE UNCHANGED <<IdealKnown, answer>>
  BY <1>4 DEF vars, IdealKnown
<1>5. ASSUME NEW h \in Headers, Receive(h) PROVE Ideal!Next
  BY <1>5, <1>2, AnswerType DEF Ideal!Next
<1>6. ASSUME Restart PROVE Ideal!Next
  BY <1>6, <1>3 DEF Ideal!Next
<1> QED BY <1>4, <1>5, <1>6 DEF Next

\* RefinesIdeal, for any number of keys that fits the Map.
THEOREM SinkIsIdeal ==
    ASSUME IsFiniteSet(DedupKeys), Cardinality(DedupKeys) <= MaxTracked
    PROVE  Spec => RefinesIdeal
<1>1. Init => Ideal!Init
  BY DEF Init, Ideal!Init
<1>2. IInv /\ [Next]_vars => [Ideal!Next]_<<IdealKnown, answer>>
  BY StepRefines
<1>3. <<IdealKnown, answer>> = <<{k \in DedupKeys : count[k] # 0}, answer>>
  BY DEF IdealKnown
<1> QED BY <1>1, <1>2, <1>3, MapIsAWindow, PTL DEF Spec, RefinesIdeal, Ideal!Spec, IdealKnown
=============================================================================
