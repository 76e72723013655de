------------------------------ MODULE QueueOps ------------------------------
(* The one operation of Rust's VecDeque that the standard sequence modules  *)
(* give only in a recursive form.  It is stated here by what it returns, so *)
(* that it can be used in modules with proofs.                              *)
EXTENDS Integers, FiniteSets, Sequences, SequencesExt

(* VecDeque::retain.  The set that holds the one sequence left of q when    *)
(* the elements of Out are taken out and the others keep their order: f     *)
(* lists, in increasing order, the positions that are kept.                 *)
Retained(q, Out) ==
  LET kept == {i \in DOMAIN q : q[i] \notin Out}
      n    == Cardinality(kept)
  IN  {[k \in 1..n |-> q[f[k]]] :
         f \in {g \in [1..n -> kept] : \A i, j \in 1..n : i < j => g[i] < g[j]}}
=============================================================================
