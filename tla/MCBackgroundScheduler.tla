------------------------ MODULE MCBackgroundScheduler ------------------------
(* Two runs of one workflow, which a cancel may hit together, and a memory  *)
(* task, which has no cancellation key.                                     *)
EXTENDS BackgroundScheduler

CONSTANTS a1, a2, m1, a

MCTask  == {a1, a2, m1}
MCKey   == {a}
MCKeyOf == [t \in MCTask |-> IF t = m1 THEN NoKey ELSE a]
=============================================================================
