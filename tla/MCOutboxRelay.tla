--------------------------- MODULE MCOutboxRelay -----------------------------
(* Two relays that may claim the same rows, and batches of several rows.      *)
EXTENDS OutboxRelay
=============================================================================
