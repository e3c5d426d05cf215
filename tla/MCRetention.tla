---------------------------- MODULE MCRetention ----------------------------
(* One key and its ticket, two workers, a dead letter and the sweep.       *)
EXTENDS Retention
=============================================================================
