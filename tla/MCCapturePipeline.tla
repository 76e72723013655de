--------------------------- MODULE MCCapturePipeline ---------------------------
(* One place that commands come from, whose commands and the expiries of    *)
(* its pauses overlap.                                                      *)
EXTENDS CapturePipeline
=============================================================================
