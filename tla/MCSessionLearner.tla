--------------------------- MODULE MCSessionLearner ---------------------------
(* A thread with two messages and one with one. *)
EXTENDS SessionLearner

CONSTANTS long, short

Threads == {long, short}
MCMaxMessages == [th \in Threads |-> IF th = long THEN 2 ELSE 1]
=============================================================================
