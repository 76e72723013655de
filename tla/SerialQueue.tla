----------------------------- MODULE SerialQueue -----------------------------
(* What the background scheduler promises, without its retries, wake-ups,   *)
(* cancellation map and runner: tasks stand in one line, each at most once; *)
(* the head of the line is served when no other task is being served; a     *)
(* task may leave the line unserved; and neither the line nor the service   *)
(* gets stuck.                                                              *)
EXTENDS Integers, FiniteSets, Sequences, QueueOps

CONSTANTS Task, NoTask

VARIABLES joined,   \* tasks that have ever stood in line
          line,     \* tasks not yet served, first in first out
          serving   \* the task being served

vars == <<joined, line, serving>>

Init == /\ joined = {}
        /\ line = <<>>
        /\ serving = NoTask

Join(t) == /\ t \notin joined
           /\ joined' = joined \cup {t}
           /\ line' = Append(line, t)
           /\ UNCHANGED serving

Serve == /\ serving = NoTask
         /\ line # <<>>
         /\ serving' = Head(line)
         /\ line' = Tail(line)
         /\ UNCHANGED joined

Finish == /\ serving # NoTask
          /\ serving' = NoTask
          /\ UNCHANGED <<joined, line>>

Withdraw(Out) == /\ Out # {}
                 /\ line' \in Retained(line, Out)
                 /\ UNCHANGED <<joined, serving>>

DropHead == line # <<>> /\ serving = NoTask /\ Withdraw({Head(line)})

Next == \/ \E t \in Task : Join(t)
        \/ Serve
        \/ Finish
        \/ \E Out \in SUBSET ToSet(line) : Withdraw(Out)

Spec == Init /\ [][Next]_vars /\ WF_vars(Serve \/ DropHead) /\ WF_vars(Finish)
=============================================================================
