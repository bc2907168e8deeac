--------------------------- MODULE MCPromptServer ---------------------------
(* PromptServer with the code's ratio of intervals and the largest Delay   *)
(* the assumption allows.                                                  *)
EXTENDS PromptServer
=============================================================================
