---------------------------- MODULE MCEnrichment -----------------------------
(* Three slots: a probe, a call rejected beside it, and a late answer.        *)
EXTENDS Enrichment
=============================================================================
