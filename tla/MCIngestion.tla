----------------------------- MODULE MCIngestion -----------------------------
(* Small instances of Ingestion: a few clients that all use one key.  No     *)
(* definition tells clients, payloads or ticket ids apart.                   *)
EXTENDS Ingestion, TLC

Symmetry == Permutations(Requests) \cup Permutations(Hashes) \cup Permutations(TicketIds)
=============================================================================
