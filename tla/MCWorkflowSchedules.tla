-------------------------- MODULE MCWorkflowSchedules --------------------------
(* One workflow under two concurrent commands for safety, two workflows     *)
(* under one for liveness, over a few hours of two-hour days in a zone      *)
(* without clock changes.                                                   *)
EXTENDS WorkflowSchedules, TLC

MCOffset == [u \in 0..Horizon |-> 0]
Both     == {Interval(1), Once(2)}
Nightly  == {Daily(0)}
Symmetry == Permutations(Client)
=============================================================================
