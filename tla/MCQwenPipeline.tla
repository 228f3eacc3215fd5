--------------------------- MODULE MCQwenPipeline ---------------------------
(* QwenPipeline for TLC; the configurations give the bounds. *)
EXTENDS QwenPipeline
=============================================================================
