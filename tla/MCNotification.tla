--------------------------- MODULE MCNotification ----------------------------
(* One ticket, overlapping runs of it and the relays that deliver its rows. *)
EXTENDS Notification
=============================================================================
