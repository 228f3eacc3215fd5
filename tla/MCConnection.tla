---------------------------- MODULE MCConnection ----------------------------
(* Connection for TLC; the configuration gives the bounds. *)
EXTENDS Connection
=============================================================================
