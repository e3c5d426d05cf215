---------------------------- MODULE CanonicalHash -----------------------------
(***************************************************************************)
(* The identity of a payload: hashPayload sorts the keys of every object,  *)
(* at any depth, and hashes the JSON text.  Its answer decides whether a   *)
(* request with a known key is a retry or a conflict, and it is the key of *)
(* an event that has none.                                                 *)
(*                                                                         *)
(* A JSON value is a node with a kind and its entries in the order of      *)
(* insertion; a key is its rank in the sorting order.  A text is a         *)
(* sequence of tokens; SHA-256 is taken to tell any two texts apart, so    *)
(* the text stands for its hash.                                           *)
(***************************************************************************)
EXTENDS Naturals, Sequences, FiniteSets

CONSTANTS
    Atoms,      \* strings, numbers, booleans and null
    Json,       \* what JSON.parse returns
    Height,     \* how deep a value is nested
    Payloads    \* bound: the payloads a client may send

KeysOf(v) == {v.entries[i].key : i \in DOMAIN v.entries}
ValueAt(v, k) == v.entries[CHOOSE i \in DOMAIN v.entries : v.entries[i].key = k].value

\* A value has all its parts in Json.  An object has a key once, the keys of an
\* array are its indices, and an atom has none.
JsonAssumption ==
    /\ Payloads \subseteq Json
    /\ Height \in [Json -> Nat]
    /\ Json \subseteq [kind : {"atom", "array", "object"}, atom : Atoms,
                       entries : Seq([key : Nat, value : Json])]
    /\ \A v \in Json :
          /\ v.kind = "atom" => v.entries = <<>>
          /\ v.kind # "atom" => v.atom = "none"
          /\ \A i \in DOMAIN v.entries :
                /\ Height[v.entries[i].value] < Height[v]
                /\ v.kind = "array" => v.entries[i].key = i - 1
                /\ \A j \in DOMAIN v.entries : v.entries[i].key = v.entries[j].key => i = j

VARIABLES sent, resent   \* the payload the key was claimed with, and a later one

vars == <<sent, resent>>

Sorted(keys) ==
    CHOOSE s \in [1 .. Cardinality(keys) -> keys] :
        /\ \A i, j \in DOMAIN s : i < j => s[i] < s[j]
        /\ \A k \in keys : \E i \in DOMAIN s : s[i] = k

SortedEntries(v) ==
    LET keys == Sorted(KeysOf(v))
    IN  [i \in DOMAIN keys |-> [key |-> keys[i], value |-> ValueAt(v, keys[i])]]

Bug_ArraysAreObjects(v) ==
    IF v.kind = "atom" THEN v ELSE [v EXCEPT !.kind = "object", !.entries = SortedEntries(v)]

\* One node of the canonical form: an array keeps its order.
Rebuilt(v) == IF v.kind = "object" THEN [v EXCEPT !.entries = SortedEntries(v)] ELSE v

\* JSON.stringify: an entry begins with its name or, in an array, without one.
Label(node, i) ==
    IF node.kind = "object" THEN <<"key", node.entries[i].key>> ELSE <<"item", "next">>

Bracketed(kind, parts) ==
    LET rest[i \in 0 .. Len(parts)] ==
            IF i = Len(parts) THEN << <<"close", "node">> >> ELSE parts[i + 1] \o rest[i + 1]
    IN  << <<"open", kind>> >> \o rest[0]

\* The canonical form, written: both walk the value in the same order.
Text[v \in Json] ==
    LET node == Rebuilt(v)
    IN  IF node.kind = "atom" THEN << <<"atom", node.atom>> >>
        ELSE Bracketed(node.kind, [i \in DOMAIN node.entries |->
                 <<Label(node, i)>> \o Text[node.entries[i].value]])

HashPayload(v) == Text[v]

Init == sent \in Payloads /\ resent = sent

\* Another request comes with the same key.
Resend(v) == resent' = v /\ UNCHANGED sent

Next == \E v \in Payloads : Resend(v)

Spec == Init /\ [][Next]_vars

-----------------------------------------------------------------------------

\* What two payloads must agree on, without a serialization.
SameContent[p \in Json \X Json] ==
    LET v == p[1]
        w == p[2]
    IN  /\ v.kind = w.kind
        /\ v.atom = w.atom
        /\ KeysOf(v) = KeysOf(w)
        /\ \A k \in KeysOf(v) : SameContent[<<ValueAt(v, k), ValueAt(w, k)>>]

\* A client that serializes the same content in another order is recognised: its
\* retry is a replay and never a conflict.  And a key is never answered for
\* another payload: content that differs, in a nested value, in the order of an
\* array or in an array for an object, hashes otherwise.
HashIsContent == HashPayload(sent) = HashPayload(resent) <=> SameContent[<<sent, resent>>]
=============================================================================
