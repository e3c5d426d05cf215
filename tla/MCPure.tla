------------------------------- MODULE MCPure -------------------------------
(***************************************************************************)
(* The program's pure functions for TLC, each over bounded inputs: the     *)
(* delays of every caller of backoffWithJitter, the identity of payloads,  *)
(* the classification of texts.  A behaviour is about one of them.         *)
(***************************************************************************)
EXTENDS PureFunctions, Naturals, Sequences

VARIABLE function

vars == <<function, use, attempt, delay, sent, resent, text>>

\* The pipeline's defaults, the relay's, the upgrade chain's, the calls of the
\* model, and the values the configuration allows at its edges.  NoCap stands for
\* Number.MAX_SAFE_INTEGER, beyond every term of these.
NoCap == 2000000
AllUses ==
    { [base |-> 2000, cap |-> 60000, retries |-> 8],
      [base |-> 2000, cap |-> NoCap, retries |-> 9],
      [base |-> 30000, cap |-> NoCap, retries |-> 5],
      [base |-> 500, cap |-> 5000, retries |-> 5],
      [base |-> 0, cap |-> NoCap, retries |-> 9],
      [base |-> 1, cap |-> NoCap, retries |-> 9],
      [base |-> 3, cap |-> 7, retries |-> 5],
      [base |-> 5, cap |-> 0, retries |-> 5] }

\* Payloads two levels deep with two entries a node.  Key 0 is the name "0",
\* which is an index too; an object lists it before any other.
Node(kind, entries) == [kind |-> kind, atom |-> "none", entries |-> entries]
AllAtoms == {"text", "null", "none"}
Leaf == {[kind |-> "atom", atom |-> a, entries |-> <<>>] : a \in AllAtoms \ {"none"}}
Objects(keys, values) ==
    {Node("object", [i \in DOMAIN keys |-> [key |-> keys[i], value |-> f[i]]])
        : f \in [DOMAIN keys -> values]}
Arrays(n, values) ==
    {Node("array", [i \in 1 .. n |-> [key |-> i - 1, value |-> f[i]]])
        : f \in [1 .. n -> values]}
Nested == Leaf \cup Objects(<<>>, Leaf) \cup Objects(<<0>>, Leaf) \cup Objects(<<1>>, Leaf)
          \cup Objects(<<1, 2>>, Leaf) \cup Objects(<<2, 1>>, Leaf)
          \cup Arrays(0, Leaf) \cup Arrays(1, Leaf) \cup Arrays(2, Leaf)
Bodies == Objects(<<1>>, Nested) \cup Objects(<<0>>, Nested) \cup Arrays(1, Nested)
          \cup {Node("object", <<[key |-> k, value |-> v], [key |-> 3 - k, value |-> w]>>)
                   : k \in {1, 2}, v \in Nested, w \in Leaf}

AllJson == Nested \cup Bodies
Depth == [v \in AllJson |-> IF v \in Leaf THEN 0 ELSE IF v \in Nested THEN 1 ELSE 2]

MCInit ==
    /\ function \in {"backoff", "hash", "classify"}
    /\ IF function = "backoff" THEN Retries!Init
       ELSE use = (CHOOSE u \in Uses : TRUE) /\ attempt = 0 /\ delay = 0
    /\ IF function = "hash" THEN Hash!Init
       ELSE sent = (CHOOSE v \in Leaf : TRUE) /\ resent = sent
    /\ Rules!Init

MCNext ==
    \/ function = "backoff" /\ Retries!Retry /\ UNCHANGED <<function, sent, resent, text>>
    \/ function = "hash" /\ Hash!Next /\ UNCHANGED <<function, use, attempt, delay, text>>
    \/ function = "classify" /\ Rules!Next /\ UNCHANGED <<function, use, attempt, delay, sent, resent>>

MCSpec == MCInit /\ [][MCNext]_vars
=============================================================================
