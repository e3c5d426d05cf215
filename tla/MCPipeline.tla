----------------------------- MODULE MCPipeline ------------------------------
(* Small instances of Pipeline: one ticket and everything that may run it.   *)
EXTENDS Pipeline, TLC

Symmetry == Permutations(Workers) \cup Permutations(Operators) \cup Permutations(DeadIds)
=============================================================================
