---------------------------- MODULE MCWorkflowRuns ----------------------------
(* Two runs of one workflow, which only its claim keeps apart, or one of    *)
(* them and a memory task ahead of it or behind it, started by the ticker   *)
(* and a "run now" caller while a user cancels.                             *)
EXTENDS WorkflowRuns

CONSTANTS a1, a2, m1, a

Runs    == {a1, a2, m1}
MCKey   == {a}
MCKeyOf == [t \in Runs |-> IF t = m1 THEN NoKey ELSE a]
=============================================================================
