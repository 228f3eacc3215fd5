--------------------------- MODULE MCVoiceSession ---------------------------
(* VoiceSession for TLC; the configurations give the bounds. *)
EXTENDS VoiceSession
=============================================================================
