------------------------------- MODULE Sink -------------------------------
(***************************************************************************)
(* SinkController: the bundled consumer of the webhook.  It collapses      *)
(* repeated deliveries by their Idempotency-Key, in a Map that keeps the   *)
(* MaxTracked keys inserted last; a repeat raises a key's count and leaves *)
(* its place in the Map.  Deliveries come from the relay, which repeats    *)
(* them, and from anybody else: the endpoint is public.                    *)
(***************************************************************************)
EXTENDS Naturals, Sequences

CONSTANTS
    Headers,     \* the Idempotency-Key headers that arrive, or their absence
    DedupKeys,   \* their first MAX_KEY_LENGTH characters; "none" when absent
    KeyOf,       \* which is which
    NoAnswer,    \* nothing was answered since the process started
    MaxTracked,  \* MAX_TRACKED_DELIVERIES
    MaxCount,    \* bound: deliveries of a key that the Map counts
    MaxInserts   \* bound: insertions between two starts of the process

ASSUME SinkAssumption ==
    /\ KeyOf \in [Headers -> DedupKeys]
    /\ NoAnswer \notin [key : DedupKeys, duplicate : BOOLEAN]
    /\ MaxTracked \in Nat \ {0}
    /\ MaxCount \in Nat \ {0}
    /\ MaxInserts \in Nat

VARIABLES
    order,     \* deliveries: its keys in insertion order, ...
    count,     \* ... and its values, 0 for a key it does not hold
    answer,    \* the answer to the last delivery
    inserted,  \* history: insertions since the process started
    serial     \* history: which of them was a key's last one, 0 if none

vars == <<order, count, answer, inserted, serial>>

Init ==
    /\ order = << >>
    /\ count = [k \in DedupKeys |-> 0]
    /\ answer = NoAnswer
    /\ inserted = 0
    /\ serial = [k \in DedupKeys |-> 0]

\* list: GET /_sink/deliveries?dedupKey=, for a key the caller already holds.
Listed(k) == count[k]

Bug_LateEviction(keys) == Len(keys) > MaxTracked + 1
Bug_EarlyEviction(keys) == Len(keys) >= MaxTracked

OverLimit(keys) == Len(keys) > MaxTracked

IsDuplicate(seen) == seen > 1

\* A repeat: deliveries.set on a key it holds.
Repeat(k) ==
    /\ count[k] # 0 /\ count[k] < MaxCount
    /\ count' = [count EXCEPT ![k] = @ + 1]
    /\ UNCHANGED <<order, inserted, serial>>

\* A key the Map does not hold goes to its end, and the oldest goes when there
\* is one too many.
Insert(k) ==
    LET keys == Append(order, k) IN
    /\ count[k] = 0 /\ inserted < MaxInserts
    /\ IF OverLimit(keys)
       THEN /\ order' = Tail(keys)
            /\ count' = [count EXCEPT ![k] = 1, ![Head(keys)] = 0]
       ELSE /\ order' = keys
            /\ count' = [count EXCEPT ![k] = 1]
    /\ inserted' = inserted + 1
    /\ serial' = [serial EXCEPT ![k] = inserted + 1]

\* receive: POST /_sink/webhook.
Receive(h) ==
    LET k == KeyOf[h] IN
    /\ Repeat(k) \/ Insert(k)
    /\ answer' = [key |-> k, duplicate |-> IsDuplicate(count[k] + 1)]

\* The Map lives in the process.
Restart ==
    /\ order' = << >>
    /\ count' = [k \in DedupKeys |-> 0]
    /\ answer' = NoAnswer
    /\ inserted' = 0
    /\ serial' = [k \in DedupKeys |-> 0]

Next == (\E h \in Headers : Receive(h)) \/ Restart

Spec == Init /\ [][Next]_vars

-----------------------------------------------------------------------------

TypeOK ==
    /\ order \in Seq(DedupKeys)
    /\ count \in [DedupKeys -> 0 .. MaxCount]
    /\ answer \in [key : DedupKeys, duplicate : BOOLEAN] \cup {NoAnswer}
    /\ inserted \in 0 .. MaxInserts
    /\ serial \in [DedupKeys -> 0 .. MaxInserts]

Held(k) == \E i \in 1 .. Len(order) : order[i] = k

\* Whoever posts however many keys, the Map is bounded, and it counts exactly
\* the keys it holds, each once ("an unbounded map is a way to grow the process
\* until the host runs out of memory").
MapIsBounded ==
    /\ Len(order) <= MaxTracked
    /\ \A k \in DedupKeys : count[k] # 0 <=> Held(k)
    /\ \A i, j \in 1 .. Len(order) : order[i] = order[j] => i = j

\* A key is remembered until MaxTracked further keys came in after it, so a
\* repeat within that distance is collapsed ("oldest entries are evicted first").
RecentIsRemembered ==
    \A k \in DedupKeys :
        serial[k] # 0 /\ inserted < serial[k] + MaxTracked => Listed(k) # 0

\* A delivery that is answered as a duplicate was received before: no
\* notification is swallowed at its first arrival.
FirstArrivalIsNew ==
    [][\A k \in DedupKeys :
          answer' = [key |-> k, duplicate |-> TRUE] => serial[k] # 0]_vars

Ideal == INSTANCE IdealSink WITH
    known <- {k \in DedupKeys : count[k] # 0}, reply <- answer

\* The consumer the outbox relies on, as long as no more keys than MaxTracked
\* are about.
RefinesIdeal == Ideal!Spec
=============================================================================
