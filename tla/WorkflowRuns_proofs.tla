------------------------- MODULE WorkflowRuns_proofs -------------------------
(* Safety of the background scheduler, for every set of tasks, keys and     *)
(* callers and every retry limit, and of the workflow runs it carries, for  *)
(* every set of runs, slugs and starters.  The scheduler's invariant holds  *)
(* of the runs too, because every step of WorkflowRuns is a step of the     *)
(* scheduler or leaves it alone.                                            *)
EXTENDS WorkflowRuns, FiniteSetTheorems, TLAPS

-----------------------------------------------------------------------------
(* What queue operations leave of a queue *)

(* The positions kept of a sequence are finitely many. *)
LEMMA KeptIsFinite ==
  ASSUME NEW S, NEW q \in Seq(S), NEW Out
  PROVE  LET kept == {i \in DOMAIN q : q[i] \notin Out}
         IN  IsFiniteSet(kept) /\ Cardinality(kept) \in Nat
<1>. DEFINE kept == {i \in DOMAIN q : q[i] \notin Out}
<1>1. IsFiniteSet(1..Len(q))
  BY FS_Interval
<1>2. kept \subseteq 1..Len(q)
  OBVIOUS
<1>3. IsFiniteSet(kept)
  BY <1>1, <1>2, FS_Subset
<1>. QED
  BY <1>3, FS_CardinalityType

(* A strictly increasing list of as many elements as a finite set has is a  *)
(* list of all of them.                                                     *)
LEMMA IncreasingListIsOnto ==
  ASSUME NEW K \in SUBSET Nat, IsFiniteSet(K),
         NEW n \in Nat, n = Cardinality(K),
         NEW f \in [1..n -> K],
         \A i, j \in 1..n : i < j => f[i] < f[j]
  PROVE  \A k \in K : \E i \in 1..n : f[i] = k
<1>1. Cardinality(1..n) = n
  BY FS_Interval
<1>2. \A i, j \in 1..n : f[i] = f[j] => i = j
  <2>. SUFFICES ASSUME NEW i \in 1..n, NEW j \in 1..n, f[i] = f[j]
                PROVE  i = j
    OBVIOUS
  <2>1. f[i] \in Nat /\ f[j] \in Nat
    OBVIOUS
  <2>2. ~(i < j) /\ ~(j < i)
    BY <2>1
  <2>. QED
    BY <2>2
<1>3. f \in Injection(1..n, K)
  BY <1>2 DEF Injection, IsInjective
<1>4. f \in Surjection(1..n, K)
  BY <1>1, <1>3, FS_Injection
<1>. QED
  BY <1>4 DEF Surjection

(* retain takes out exactly what it is asked to, and repeats nothing that   *)
(* was not repeated.                                                        *)
LEMMA RetainedIsSubQueue ==
  ASSUME NEW S, NEW q \in Seq(S), NEW Out, NEW r \in Retained(q, Out)
  PROVE  /\ r \in Seq(S)
         /\ ToSet(r) = ToSet(q) \ Out
         /\ IsInjective(q) => IsInjective(r)
<1>. DEFINE kept == {i \in DOMAIN q : q[i] \notin Out}
            n    == Cardinality(kept)
<1>1. n \in Nat /\ IsFiniteSet(kept)
  BY KeptIsFinite
<1>2. PICK f \in [1..n -> kept] : /\ \A i, j \in 1..n : i < j => f[i] < f[j]
                                  /\ r = [k \in 1..n |-> q[f[k]]]
  BY DEF Retained
<1>7. \A p \in kept : \E i \in 1..n : f[i] = p
  <2>1. kept \in SUBSET Nat
    OBVIOUS
  <2>2. n = Cardinality(kept)
    OBVIOUS
  <2>3. \A i, j \in 1..n : i < j => f[i] < f[j]
    BY <1>2
  <2>4. f \in [1..n -> kept] /\ n \in Nat /\ IsFiniteSet(kept)
    BY <1>1
  <2>. HIDE DEF n, kept
  <2>. QED
    BY <2>1, <2>2, <2>3, <2>4, IncreasingListIsOnto
<1>. HIDE DEF n
<1>3. \A k \in 1..n : /\ f[k] \in 1..Len(q) /\ q[f[k]] \notin Out
                      /\ q[f[k]] \in S
  BY <1>2
<1>4. r \in Seq(S) /\ DOMAIN r = 1..n
  <2>1. r \in [1..n -> S]
    BY <1>2, <1>3
  <2>. QED
    BY <1>1, <2>1
<1>5. ToSet(r) = ToSet(q) \ Out
  <2>1. ToSet(r) \subseteq ToSet(q) \ Out
    BY <1>2, <1>3, <1>4 DEF ToSet
  <2>2. ASSUME NEW t \in ToSet(q) \ Out
        PROVE  t \in ToSet(r)
    <3>1. PICK p \in kept : q[p] = t
      BY DEF ToSet
    <3>2. PICK i \in 1..n : f[i] = p
      BY <1>7
    <3>. QED
      BY <1>2, <1>4, <3>1, <3>2 DEF ToSet
  <2>. QED
    BY <2>1, <2>2
<1>6. ASSUME IsInjective(q)
      PROVE  IsInjective(r)
  <2>. SUFFICES ASSUME NEW i \in DOMAIN r, NEW j \in DOMAIN r, r[i] = r[j]
                PROVE  i = j
    BY DEF IsInjective
  <2>1. f[i] = f[j]
    BY <1>2, <1>3, <1>4, <1>6 DEF IsInjective
  <2>2. i \in Nat /\ j \in Nat /\ f[i] \in Nat /\ f[j] \in Nat
    BY <1>1, <1>3, <1>4
  <2>. QED
    BY <1>2, <1>4, <2>1, <2>2
<1>. QED
  BY <1>4, <1>5, <1>6

(* The other three queue operations, seen as sets without repetition. *)

LEMMA AppendAsSet ==
  ASSUME NEW S, NEW q \in Seq(S), NEW t \in S
  PROVE  /\ Append(q, t) \in Seq(S)
         /\ ToSet(Append(q, t)) = ToSet(q) \cup {t}
         /\ IsInjective(q) /\ t \notin ToSet(q) => IsInjective(Append(q, t))
<1>. DEFINE r == Append(q, t)
<1>1. /\ r \in Seq(S) /\ DOMAIN r = 1..(Len(q) + 1) /\ DOMAIN q = 1..Len(q)
      /\ Len(q) \in Nat
      /\ r[Len(q) + 1] = t
      /\ \A i \in 1..Len(q) : r[i] = q[i]
  OBVIOUS
<1>. HIDE DEF r
<1>2. ToSet(r) = ToSet(q) \cup {t}
  <2>1. \A i \in DOMAIN r : r[i] \in ToSet(q) \cup {t}
    BY <1>1 DEF ToSet
  <2>2. \A i \in DOMAIN q : q[i] \in ToSet(r)
    BY <1>1 DEF ToSet
  <2>3. t \in ToSet(r)
    BY <1>1 DEF ToSet
  <2>. QED
    BY <2>1, <2>2, <2>3 DEF ToSet
<1>3. ASSUME IsInjective(q), t \notin ToSet(q)
      PROVE  IsInjective(r)
  BY <1>1, <1>3 DEF IsInjective, ToSet
<1>. QED
  BY <1>1, <1>2, <1>3 DEF r

LEMMA PushFrontAsSet ==
  ASSUME NEW S, NEW q \in Seq(S), NEW t \in S
  PROVE  /\ <<t>> \o q \in Seq(S)
         /\ ToSet(<<t>> \o q) = ToSet(q) \cup {t}
         /\ IsInjective(q) /\ t \notin ToSet(q) => IsInjective(<<t>> \o q)
<1>. DEFINE r == <<t>> \o q
<1>1. /\ r \in Seq(S) /\ DOMAIN r = 1..(Len(q) + 1) /\ DOMAIN q = 1..Len(q)
      /\ Len(q) \in Nat
      /\ r[1] = t
      /\ \A i \in 2..(Len(q) + 1) : r[i] = q[i - 1]
  OBVIOUS
<1>. HIDE DEF r
<1>4. \A i \in 1..Len(q) : i + 1 \in DOMAIN r /\ r[i + 1] = q[i]
  BY <1>1
<1>5. \A i \in DOMAIN r : i = 1 \/ (i - 1 \in DOMAIN q /\ r[i] = q[i - 1])
  BY <1>1
<1>2. ToSet(r) = ToSet(q) \cup {t}
  <2>1. \A i \in DOMAIN r : r[i] \in ToSet(q) \cup {t}
    BY <1>1, <1>5 DEF ToSet
  <2>2. \A i \in DOMAIN q : q[i] \in ToSet(r)
    BY <1>1, <1>4 DEF ToSet
  <2>3. t \in ToSet(r)
    BY <1>1 DEF ToSet
  <2>. QED
    BY <2>1, <2>2, <2>3 DEF ToSet
<1>3. ASSUME IsInjective(q), t \notin ToSet(q)
      PROVE  IsInjective(r)
  BY <1>1, <1>3, <1>5 DEF IsInjective, ToSet
<1>. QED
  BY <1>1, <1>2, <1>3 DEF r

LEMMA PopFrontAsSet ==
  ASSUME NEW S, NEW q \in Seq(S), q # <<>>
  PROVE  /\ Head(q) \in S /\ Tail(q) \in Seq(S)
         /\ ToSet(q) = {Head(q)} \cup ToSet(Tail(q))
         /\ IsInjective(q) => IsInjective(Tail(q)) /\ Head(q) \notin ToSet(Tail(q))
<1>. DEFINE h == Head(q)
            r == Tail(q)
<1>1. /\ h \in S /\ r \in Seq(S) /\ DOMAIN q = 1..Len(q) /\ DOMAIN r = 1..(Len(q) - 1)
      /\ Len(q) \in Nat \ {0}
      /\ h = q[1]
      /\ \A i \in 1..(Len(q) - 1) : r[i] = q[i + 1]
  OBVIOUS
<1>. HIDE DEF h, r
<1>4. \A i \in DOMAIN r : i + 1 \in DOMAIN q /\ r[i] = q[i + 1]
  BY <1>1
<1>5. \A i \in DOMAIN q : i = 1 \/ (i - 1 \in DOMAIN r /\ q[i] = r[i - 1])
  BY <1>1
<1>2. ToSet(q) = {h} \cup ToSet(r)
  <2>1. \A i \in DOMAIN r : r[i] \in ToSet(q)
    BY <1>1, <1>4 DEF ToSet
  <2>2. \A i \in DOMAIN q : q[i] \in {h} \cup ToSet(r)
    BY <1>1, <1>5 DEF ToSet
  <2>3. h \in ToSet(q)
    BY <1>1 DEF ToSet
  <2>. QED
    BY <2>1, <2>2, <2>3 DEF ToSet
<1>3. ASSUME IsInjective(q)
      PROVE  IsInjective(r) /\ h \notin ToSet(r)
  <2>1. IsInjective(r)
    BY <1>1, <1>3, <1>4 DEF IsInjective
  <2>2. \A i \in DOMAIN r : r[i] # h
    BY <1>1, <1>3, <1>4 DEF IsInjective
  <2>. QED
    BY <2>1, <2>2 DEF ToSet
<1>. QED
  BY <1>1, <1>2, <1>3 DEF h, r

-----------------------------------------------------------------------------
(* The scheduler *)

(* What the worker holds at each point of its loop. *)
WorkerState ==
  /\ cur = NoTask <=> pc \in {"pop", "parked", "sleep"}
  /\ outcome # "none" <=> pc \in {"unregister", "settle"}
  /\ pc \in {"finalize", "consume"} \/ outcome = "ok" => turnResult # "none"

IInv == /\ TypeOK
        /\ WorkerState
        /\ OnePlace
        /\ NoLostWakeup
        /\ SignalsCurrentRun
        /\ OrphansAreCancelled
        /\ RetriesBounded

(* The state the worker, the enqueue futures and the callers start from. *)
LEMMA InitInv == Init => IInv
<1>. SUFFICES ASSUME Init PROVE IInv
  OBVIOUS
<1>. USE SchedulerAssumption DEF Init
<1>1. TypeOK
  <2>1. permit \in BOOLEAN /\ appState \in BOOLEAN /\ signalled \in BOOLEAN
    BY Zenon
  <2>2. queue \in Seq(Task)
    OBVIOUS
  <2>3. attempts \in [Task -> 0..MaxDepsRetries]
    OBVIOUS
  <2>. QED
    BY <2>1, <2>2, <2>3 DEF TypeOK, Fates, WorkerAt, InRun
<1>2. OnePlace
  BY DEF OnePlace, QueuedTasks, ToSet, IsInjective
<1>. QED
  BY <1>1, <1>2 DEF IInv, WorkerState, NoLostWakeup, SignalsCurrentRun,
                    OrphansAreCancelled, RetriesBounded

(* The elements of a sequence, as a set. *)
LEMMA SeqAsSet ==
  ASSUME NEW S, NEW q \in Seq(S)
  PROVE  ToSet(q) \subseteq S /\ (ToSet(q) = {} => q = <<>>)
<1>1. ToSet(q) \subseteq S
  BY DEF ToSet
<1>2. ASSUME q # <<>>
      PROVE  q[1] \in ToSet(q)
  BY <1>2 DEF ToSet
<1>. QED
  BY <1>1, <1>2

LEMMA EnqueueInv ==
  ASSUME IInv, NEW t \in Task, Enqueue(t)
  PROVE  IInv'
<1>. USE SchedulerAssumption DEF IInv, Enqueue, workerVars, cancelVars
<1>1. TypeOK'
  BY DEF TypeOK, Fates
<1>2. OnePlace'
  <2>1. t \notin spawned \cup QueuedTasks \cup {cur}
    BY DEF OnePlace
  <2>2. \A u \in Task : fate'[u] = IF u = t THEN "pending" ELSE fate[u]
    BY DEF TypeOK
  <2>3. QueuedTasks' = QueuedTasks
    BY DEF QueuedTasks
  <2>. QED
    BY <2>1, <2>2, <2>3 DEF OnePlace
<1>3. OrphansAreCancelled' /\ RetriesBounded'
  BY DEF OrphansAreCancelled, RetriesBounded, TypeOK
<1>. QED
  BY <1>1, <1>2, <1>3 DEF WorkerState, NoLostWakeup, SignalsCurrentRun

LEMMA PushInv ==
  ASSUME IInv, NEW t \in Task, Push(t)
  PROVE  IInv'
<1>. USE SchedulerAssumption DEF IInv, Push, workerVars, cancelVars
<1>1. /\ queue' \in Seq(Task)
      /\ QueuedTasks' = QueuedTasks \cup {t}
      /\ IsInjective(queue')
  BY AppendAsSet DEF TypeOK, OnePlace, QueuedTasks
<1>2. TypeOK'
  BY <1>1 DEF TypeOK
<1>3. OnePlace'
  BY <1>1 DEF OnePlace
<1>4. RetriesBounded'
  BY DEF RetriesBounded, TypeOK
<1>5. OrphansAreCancelled'
  BY DEF OrphansAreCancelled
<1>. QED
  BY <1>2, <1>3, <1>4, <1>5 DEF WorkerState, NoLostWakeup, SignalsCurrentRun

(* The steps of the worker that move no task and touch neither the map nor  *)
(* the turns.                                                               *)
LEMMA IdleStepsInv ==
  ASSUME IInv, ManageAppState \/ Park \/ Unpark \/ SleepOver
  PROVE  IInv'
<1>. USE SchedulerAssumption DEF IInv, workerVars, queueVars, cancelVars
<1>1. OnePlace'
  BY DEF OnePlace, QueuedTasks, ManageAppState, Park, Unpark, SleepOver
<1>2. TypeOK'
  BY DEF TypeOK, WorkerAt, ManageAppState, Park, Unpark, SleepOver
<1>3. SignalsCurrentRun'
  BY DEF SignalsCurrentRun, InRun, ManageAppState, Park, Unpark, SleepOver
<1>4. OrphansAreCancelled'
  BY DEF OrphansAreCancelled, WorkerState, TypeOK, ManageAppState, Park, Unpark, SleepOver
<1>5. RetriesBounded'
  BY DEF RetriesBounded, ManageAppState, Park, Unpark, SleepOver
<1>6. WorkerState' /\ NoLostWakeup'
  BY DEF WorkerState, NoLostWakeup, ManageAppState, Park, Unpark, SleepOver
<1>. QED
  BY <1>1, <1>2, <1>3, <1>4, <1>5, <1>6

LEMMA PopInv ==
  ASSUME IInv, Pop
  PROVE  IInv'
<1>. USE SchedulerAssumption DEF IInv, Pop, cancelVars
<1>1. /\ cur' \in Task /\ queue' \in Seq(Task) /\ cur = NoTask
      /\ QueuedTasks = {cur'} \cup QueuedTasks'
      /\ IsInjective(queue') /\ cur' \notin QueuedTasks'
  BY PopFrontAsSet DEF TypeOK, OnePlace, QueuedTasks, WorkerState
<1>2. TypeOK'
  BY <1>1 DEF TypeOK, WorkerAt
<1>3. OnePlace'
  BY <1>1 DEF OnePlace
<1>4. WorkerState' /\ NoLostWakeup'
  BY <1>1 DEF WorkerState, NoLostWakeup
<1>5. SignalsCurrentRun'
  BY DEF SignalsCurrentRun, InRun
<1>6. OrphansAreCancelled'
  BY <1>1 DEF OrphansAreCancelled, WorkerState
<1>7. RetriesBounded'
  BY DEF RetriesBounded
<1>. QED
  BY <1>2, <1>3, <1>4, <1>5, <1>6, <1>7

LEMMA PushFrontInv ==
  ASSUME IInv, PushFront
  PROVE  IInv'
<1>. USE SchedulerAssumption DEF IInv, PushFront, cancelVars
<1>1. /\ cur \in Task /\ queue' \in Seq(Task)
      /\ QueuedTasks' = QueuedTasks \cup {cur}
      /\ IsInjective(queue')
  BY PushFrontAsSet DEF TypeOK, OnePlace, QueuedTasks, WorkerState
<1>2. TypeOK'
  BY <1>1 DEF TypeOK, WorkerAt
<1>3. OnePlace'
  <2>1. QueuedTasks \subseteq Task /\ spawned \subseteq Task
    BY SeqAsSet DEF QueuedTasks, TypeOK
  <2>2. NoTask \notin spawned \cup QueuedTasks'
    BY <1>1, <2>1
  <2>. QED
    BY <1>1, <2>1, <2>2 DEF OnePlace
<1>4. WorkerState' /\ NoLostWakeup'
  BY <1>1 DEF WorkerState, NoLostWakeup
<1>5. SignalsCurrentRun'
  BY DEF SignalsCurrentRun, InRun
<1>6. OrphansAreCancelled'
  BY <1>1 DEF OrphansAreCancelled, WorkerState
<1>7. RetriesBounded'
  BY DEF RetriesBounded
<1>. QED
  BY <1>2, <1>3, <1>4, <1>5, <1>6, <1>7

(* The steps with which the worker lets go of its task. *)
LEMMA LetGoInv ==
  ASSUME IInv, SkipNoAppState \/ DepsAbandon \/ SettleDone \/ SettleAborted
  PROVE  IInv'
<1>. USE SchedulerAssumption DEF IInv, queueVars, cancelVars
<1>. USE DEF SkipNoAppState, DepsAbandon, SettleDone, SettleAborted, NextTask
<1>1. /\ cur \in Task /\ cur' = NoTask /\ pc' = "pop" /\ outcome' = "none"
      /\ turnResult' = "none"
      /\ pc \in {"deps", "settle"}
      /\ UNCHANGED <<spawned, queue, permit, appState, sidecar, cancellable, signalled, cancelling>>
  BY DEF WorkerState, TypeOK
<1>2. \E x \in {"done", "aborted", "dropped"} : fate' = [fate EXCEPT ![cur] = x]
  OBVIOUS
<1>3. attempts' \in [Task -> 0..MaxDepsRetries]
  <2>1. CASE attempts' = attempts
    BY <2>1 DEF TypeOK
  <2>2. CASE DepsAbandon
    <3>1. attempts[cur] \in 0..MaxDepsRetries
      BY <1>1 DEF TypeOK
    <3>2. fate[cur] = "pending"
      BY <1>1 DEF OnePlace
    <3>3. attempts[cur] # MaxDepsRetries
      BY <1>1, <3>2 DEF RetriesBounded
    <3>4. attempts[cur] + 1 \in 0..MaxDepsRetries
      BY <3>1, <3>3
    <3>. QED
      BY <2>2, <3>4 DEF TypeOK
  <2>. QED
    BY <2>1, <2>2
<1>4. TypeOK'
  BY <1>1, <1>2, <1>3 DEF TypeOK, Fates, WorkerAt
<1>5. OnePlace'
  <2>1. QueuedTasks \subseteq Task /\ spawned \subseteq Task
    BY SeqAsSet DEF QueuedTasks, TypeOK
  <2>2. NoTask \notin spawned \cup QueuedTasks
    BY <2>1
  <2>3. UNCHANGED <<queue, QueuedTasks>>
    BY DEF QueuedTasks
  <2>4. \A t \in Task : /\ t = cur => fate'[t] # "pending"
                        /\ t # cur => fate'[t] = fate[t]
    BY <1>1, <1>2 DEF TypeOK
  <2>5. fate[cur] = "pending" /\ cur \notin spawned \cup QueuedTasks
    BY <1>1 DEF OnePlace
  <2>. QED
    BY <1>1, <2>2, <2>3, <2>4, <2>5 DEF OnePlace
<1>6. WorkerState' /\ NoLostWakeup'
  BY <1>1 DEF WorkerState, NoLostWakeup
<1>7. SignalsCurrentRun'
  BY <1>1 DEF SignalsCurrentRun, InRun
<1>8. OrphansAreCancelled'
  <2>1. CASE SettleAborted
    BY <1>1, <2>1 DEF OrphansAreCancelled, TypeOK
  <2>2. CASE ~SettleAborted
    <3>1. outcome # "cancelled"
      BY <2>2 DEF WorkerState
    <3>2. sidecar[cur] = "running" => fate[cur] = "aborted"
      BY <1>1, <3>1 DEF OrphansAreCancelled
    <3>3. fate[cur] = "pending"
      BY <1>1 DEF OnePlace
    <3>. QED
      BY <1>1, <1>2, <3>2, <3>3 DEF OrphansAreCancelled, TypeOK
  <2>. QED
    BY <2>1, <2>2
<1>9. RetriesBounded'
  <2>1. fate[cur] = "pending"
    BY <1>1 DEF OnePlace
  <2>2. CASE DepsAbandon
    BY <1>1, <2>2 DEF RetriesBounded, TypeOK
  <2>3. CASE attempts' = attempts
    BY <1>1, <1>2, <2>1, <2>3 DEF RetriesBounded, TypeOK
  <2>. QED
    BY <2>2, <2>3
<1>. QED
  BY <1>4, <1>5, <1>6, <1>7, <1>8, <1>9

LEMMA DepsRetryInv ==
  ASSUME IInv, DepsRetry
  PROVE  IInv'
<1>. USE SchedulerAssumption DEF IInv, DepsRetry, cancelVars
<1>1. cur \in Task /\ attempts[cur] \in 0..MaxDepsRetries
  BY DEF WorkerState, TypeOK
<1>2. attempts[cur] + 1 \in 0..MaxDepsRetries /\ attempts[cur] + 1 # MaxDepsRetries
  BY <1>1
<1>3. TypeOK'
  BY <1>1, <1>2 DEF TypeOK, WorkerAt
<1>4. OnePlace'
  BY DEF OnePlace, QueuedTasks
<1>5. WorkerState' /\ NoLostWakeup'
  BY DEF WorkerState, NoLostWakeup
<1>6. SignalsCurrentRun'
  BY DEF SignalsCurrentRun, InRun
<1>7. OrphansAreCancelled'
  BY DEF OrphansAreCancelled, WorkerState
<1>8. RetriesBounded'
  BY <1>1, <1>2 DEF RetriesBounded, TypeOK
<1>. QED
  BY <1>3, <1>4, <1>5, <1>6, <1>7, <1>8

(* Registering and forgetting the cancellation key. *)
LEMMA RegisterInv ==
  ASSUME IInv, DepsReady \/ Unregister
  PROVE  IInv'
<1>. USE SchedulerAssumption DEF IInv, DepsReady, Unregister, queueVars
<1>1. cur \in Task
  BY DEF WorkerState, TypeOK
<1>2. TypeOK'
  <2>1. signalled' \in BOOLEAN
    BY Zenon DEF TypeOK
  <2>2. cancellable' \in [Key -> Task \cup {NoTask}]
    BY <1>1 DEF TypeOK
  <2>. QED
    BY <2>1, <2>2 DEF TypeOK, WorkerAt, InRun
<1>3. OnePlace'
  BY DEF OnePlace, QueuedTasks
<1>4. WorkerState' /\ NoLostWakeup'
  BY DEF WorkerState, NoLostWakeup
<1>5. SignalsCurrentRun'
  BY <1>1 DEF SignalsCurrentRun, TypeOK, InRun
<1>6. OrphansAreCancelled'
  BY DEF OrphansAreCancelled, WorkerState
<1>7. RetriesBounded'
  BY DEF RetriesBounded
<1>. QED
  BY <1>2, <1>3, <1>4, <1>5, <1>6, <1>7

(* The steps inside runner::run, and the way out of it. *)
LEMMA RunInv ==
  ASSUME IInv,
         \/ PreludeFails \/ SpawnRunner \/ Watchdog
         \/ \E v \in {"success", "failure"} : TurnJoined(v)
         \/ Finalize \/ Consume \/ CancelArm
  PROVE  IInv'
<1>. USE SchedulerAssumption DEF IInv, queueVars, cancelVars, LeaveRun
<1>. USE DEF PreludeFails, SpawnRunner, Watchdog, TurnJoined, Finalize, Consume, CancelArm
<1>1. /\ cur \in Task
      /\ pc \in InRun /\ pc' \in InRun \cup {"unregister"}
      /\ UNCHANGED <<fate, appState, cur, queueVars, cancelVars>>
  BY DEF WorkerState, TypeOK, InRun
<1>2. /\ \/ pc' = "unregister" /\ outcome' \in {"ok", "err", "cancelled"}
         \/ pc' # "unregister" /\ outcome' = outcome
      /\ turnResult' \in {"none", "success", "failure"}
  BY DEF TypeOK
<1>3. TypeOK'
  <2>1. sidecar' \in [Task -> {"none", "running", "ended"}]
    BY <1>1 DEF TypeOK
  <2>. QED
    BY <1>1, <1>2, <2>1 DEF TypeOK, WorkerAt
<1>4. OnePlace'
  BY <1>1 DEF OnePlace, QueuedTasks
<1>5. WorkerState' /\ NoLostWakeup'
  BY <1>1, <1>2 DEF WorkerState, NoLostWakeup, InRun
<1>6. SignalsCurrentRun'
  BY <1>1 DEF SignalsCurrentRun
<1>7. OrphansAreCancelled'
  BY <1>1 DEF OrphansAreCancelled, TypeOK, WorkerState, InRun
<1>8. RetriesBounded'
  BY <1>1 DEF RetriesBounded
<1>. QED
  BY <1>3, <1>4, <1>5, <1>6, <1>7, <1>8

LEMMA SidecarEndsInv ==
  ASSUME IInv, NEW t \in Task, SidecarEnds(t)
  PROVE  IInv'
<1>. USE SchedulerAssumption DEF IInv, SidecarEnds, workerVars, queueVars, cancelVars
<1>1. TypeOK' /\ OrphansAreCancelled'
  BY DEF TypeOK, OrphansAreCancelled
<1>2. OnePlace'
  BY DEF OnePlace, QueuedTasks
<1>. QED
  BY <1>1, <1>2 DEF WorkerState, NoLostWakeup, SignalsCurrentRun, RetriesBounded

(* The first look of cancel. *)
LEMMA CancelMapInv ==
  ASSUME IInv, NEW c \in Caller, NEW k \in Key,
         CancelRunning(c, k) \/ CancelNotRunning(c, k)
  PROVE  IInv'
<1>. USE SchedulerAssumption DEF IInv, CancelRunning, CancelNotRunning, workerVars, queueVars
<1>1. TypeOK'
  <2>1. signalled' \in BOOLEAN
    BY Zenon DEF TypeOK
  <2>. QED
    BY <2>1 DEF TypeOK
<1>2. OnePlace'
  BY DEF OnePlace, QueuedTasks
<1>3. SignalsCurrentRun'
  BY DEF SignalsCurrentRun, TypeOK
<1>. QED
  BY <1>1, <1>2, <1>3 DEF WorkerState, NoLostWakeup, OrphansAreCancelled, RetriesBounded

(* Its second look. *)
LEMMA CancelQueuedInv ==
  ASSUME IInv, NEW c \in Caller, CancelQueued(c)
  PROVE  IInv'
<1>. DEFINE out == QueuedWith(cancelling[c])
<1>. USE SchedulerAssumption DEF IInv, CancelQueued, workerVars
<1>1. /\ queue' \in Seq(Task)
      /\ QueuedTasks' = QueuedTasks \ out
      /\ IsInjective(queue')
  BY RetainedIsSubQueue DEF TypeOK, OnePlace, QueuedTasks
<1>2. out \subseteq QueuedTasks /\ QueuedTasks \subseteq Task
  BY DEF QueuedWith, QueuedTasks, ToSet, TypeOK
<1>. HIDE DEF out
<1>3. \A t \in Task : fate'[t] = IF t \in out THEN "aborted" ELSE fate[t]
  BY DEF out
<1>4. TypeOK'
  <2>1. fate' \in [Task -> Fates]
    BY DEF TypeOK, Fates
  <2>. QED
    BY <1>1, <2>1 DEF TypeOK
<1>5. OnePlace'
  BY <1>1, <1>2, <1>3 DEF OnePlace
<1>6. NoLostWakeup'
  <2>1. queue = <<>> => QueuedTasks = {}
    BY DEF QueuedTasks, ToSet
  <2>2. QueuedTasks' = {} => queue' = <<>>
    BY <1>1, SeqAsSet DEF QueuedTasks
  <2>. QED
    BY <1>1, <2>1, <2>2 DEF NoLostWakeup
<1>7. OrphansAreCancelled' /\ RetriesBounded'
  BY <1>3 DEF OrphansAreCancelled, RetriesBounded
<1>. QED
  BY <1>4, <1>5, <1>6, <1>7 DEF WorkerState, SignalsCurrentRun

-----------------------------------------------------------------------------
(* Every step keeps the invariant. *)
LEMMA NextInv == IInv /\ [Next]_vars => IInv'
<1>. SUFFICES ASSUME IInv, [Next]_vars PROVE IInv'
  OBVIOUS
<1>1. CASE \E t \in Task : Enqueue(t) \/ Push(t) \/ SidecarEnds(t)
  BY <1>1, EnqueueInv, PushInv, SidecarEndsInv
<1>2. CASE ManageAppState
  BY <1>2, IdleStepsInv
<1>3. CASE Dispatch
  BY <1>3, IdleStepsInv, PopInv, LetGoInv, DepsRetryInv, PushFrontInv, RegisterInv
     DEF Dispatch
<1>4. CASE Run \/ Watchdog
  BY <1>4, RunInv, RegisterInv, LetGoInv DEF Run
<1>5. CASE Cancel
  BY <1>5, CancelMapInv, CancelQueuedInv DEF Cancel
<1>6. CASE UNCHANGED vars
  BY <1>6 DEF vars, workerVars, queueVars, cancelVars, IInv, TypeOK, WorkerState,
              OnePlace, QueuedTasks, NoLostWakeup, SignalsCurrentRun,
              OrphansAreCancelled, RetriesBounded
<1>. QED
  BY <1>1, <1>2, <1>3, <1>4, <1>5, <1>6 DEF Next

THEOREM Inductive == Spec => []IInv
<1>. QED
  BY InitInv, NextInv, PTL DEF Spec

(* The scheduler's state has its type. *)
THEOREM TypeCorrect == Spec => []TypeOK
<1>. QED
  BY Inductive, PTL DEF IInv

(* No task is lost or duplicated on its way through the spawned pushes, the *)
(* queue, the retries and the cancellations.                                *)
THEOREM NothingLost == Spec => []OnePlace
<1>. QED
  BY Inductive, PTL DEF IInv

(* The worker never sleeps on a queue that holds a task. *)
THEOREM WakeupsArrive == Spec => []NoLostWakeup
<1>. QED
  BY Inductive, PTL DEF IInv

(* A cancel reaches the run it names, or no run. *)
THEOREM CancelHitsItsRun == Spec => []SignalsCurrentRun
<1>. QED
  BY Inductive, PTL DEF IInv

(* Only a cancelled dispatch leaves its turn running. *)
THEOREM OnlyCancelsOrphan == Spec => []OrphansAreCancelled
<1>. QED
  BY Inductive, PTL DEF IInv

(* Retries stop at MAX_DEPS_RETRIES. *)
THEOREM RetriesStop == Spec => []RetriesBounded
<1>. QED
  BY Inductive, PTL DEF IInv

-----------------------------------------------------------------------------
(* The scheduler as a serial queue *)

(* A strictly increasing list of all the positions that are kept tells what *)
(* retain leaves.                                                           *)
LEMMA RetainedBy ==
  ASSUME NEW S, NEW q \in Seq(S), NEW Out, NEW m \in Nat,
         NEW f \in [1..m -> {i \in DOMAIN q : q[i] \notin Out}],
         \A i, j \in 1..m : i < j => f[i] < f[j],
         \A p \in DOMAIN q : q[p] \notin Out => \E i \in 1..m : f[i] = p
  PROVE  [k \in 1..m |-> q[f[k]]] \in Retained(q, Out)
<1>. DEFINE kept == {i \in DOMAIN q : q[i] \notin Out}
<1>1. \A i, j \in 1..m : f[i] = f[j] => i = j
  <2>. SUFFICES ASSUME NEW i \in 1..m, NEW j \in 1..m, f[i] = f[j]
                PROVE  i = j
    OBVIOUS
  <2>1. f[i] \in Nat /\ f[j] \in Nat
    OBVIOUS
  <2>2. ~(i < j) /\ ~(j < i)
    BY <2>1
  <2>. QED
    BY <2>2
<1>2. f \in Bijection(1..m, kept)
  BY <1>1 DEF Bijection, Injection, Surjection, IsInjective
<1>3. Cardinality(kept) = m
  <2>1. IsFiniteSet(1..m) /\ Cardinality(1..m) = m
    BY FS_Interval
  <2>2. ExistsBijection(1..m, kept)
    BY <1>2 DEF ExistsBijection
  <2>. QED
    BY <2>1, <2>2, FS_Bijection
<1>. QED
  BY <1>3 DEF Retained

(* A strictly increasing list of n numbers up to n lists them in order.     *)
LEMMA IncreasingListIsIdentity ==
  ASSUME NEW n \in Nat, NEW f \in [1..n -> 1..n],
         \A i, j \in 1..n : i < j => f[i] < f[j]
  PROVE  \A i \in 1..n : f[i] = i
<1>. SUFFICES ASSUME NEW i \in 1..n PROVE f[i] = i
  OBVIOUS
<1>1. f[i] \in 1..n /\ \A j \in 1..n : f[j] \in 1..n
  OBVIOUS
<1>2. \A j, k \in 1..n : f[j] = f[k] => j = k
  <2>. SUFFICES ASSUME NEW j \in 1..n, NEW k \in 1..n, f[j] = f[k]
                PROVE  j = k
    OBVIOUS
  <2>1. f[j] \in Nat /\ f[k] \in Nat
    OBVIOUS
  <2>2. ~(j < k) /\ ~(k < j)
    BY <2>1
  <2>. QED
    BY <2>2
<1>3. i <= f[i]
  <2>. DEFINE g == [j \in 1..i |-> f[j]]
  <2>1. \A j \in 1..i : j \in 1..n /\ f[j] \in 1..f[i]
    <3>. SUFFICES ASSUME NEW j \in 1..i PROVE j \in 1..n /\ f[j] \in 1..f[i]
      OBVIOUS
    <3>1. j \in 1..n /\ (j = i \/ j < i)
      OBVIOUS
    <3>2. f[j] \in 1..n /\ (f[j] = f[i] \/ f[j] < f[i])
      BY <1>1, <3>1
    <3>. QED
      BY <1>1, <3>1, <3>2, SMTT(30)
  <2>2. g \in Injection(1..i, 1..f[i])
    BY <1>2, <2>1 DEF Injection, IsInjective
  <2>3. IsFiniteSet(1..f[i]) /\ Cardinality(1..f[i]) = f[i] /\ Cardinality(1..i) = i
    BY <1>1, FS_Interval
  <2>. QED
    BY <2>2, <2>3, FS_Injection
<1>4. f[i] <= i
  <2>. DEFINE g == [j \in i..n |-> f[j]]
  <2>1. \A j \in i..n : j \in 1..n /\ f[j] \in f[i]..n
    <3>. SUFFICES ASSUME NEW j \in i..n PROVE j \in 1..n /\ f[j] \in f[i]..n
      OBVIOUS
    <3>1. j \in 1..n /\ (j = i \/ i < j)
      OBVIOUS
    <3>2. f[j] \in 1..n /\ (f[j] = f[i] \/ f[i] < f[j])
      BY <1>1, <3>1
    <3>. QED
      BY <1>1, <3>1, <3>2, SMTT(30)
  <2>2. g \in Injection(i..n, f[i]..n)
    BY <1>2, <2>1 DEF Injection, IsInjective
  <2>3. /\ IsFiniteSet(f[i]..n) /\ Cardinality(f[i]..n) = n - f[i] + 1
        /\ Cardinality(i..n) = n - i + 1
    BY <1>1, FS_Interval
  <2>4. n - i + 1 <= n - f[i] + 1
    BY <2>2, <2>3, FS_Injection
  <2>. QED
    BY <1>1, <2>4
<1>. QED
  BY <1>1, <1>3, <1>4

(* retain that takes nothing out leaves the queue as it is. *)
LEMMA RetainAll ==
  ASSUME NEW S, NEW q \in Seq(S), NEW Out, ToSet(q) \cap Out = {}, NEW r \in Retained(q, Out)
  PROVE  r = q
<1>. DEFINE n == Len(q)
<1>1. {i \in DOMAIN q : q[i] \notin Out} = 1..n
  BY DEF ToSet
<1>2. n \in Nat /\ Cardinality(1..n) = n
  <2>1. n \in Nat
    OBVIOUS
  <2>. HIDE DEF n
  <2>. QED
    BY <2>1, FS_Interval
<1>3. PICK f \in [1..n -> 1..n] : /\ \A i, j \in 1..n : i < j => f[i] < f[j]
                                  /\ r = [k \in 1..n |-> q[f[k]]]
  BY <1>1, <1>2 DEF Retained
<1>4. \A i \in 1..n : f[i] = i
  BY <1>2, <1>3, IncreasingListIsIdentity
<1>5. r = [k \in 1..n |-> q[k]]
  BY <1>3, <1>4
<1>. QED
  BY <1>5

(* What stands before a queue and is not taken out stays before it. *)
LEMMA RetainBehind ==
  ASSUME NEW S, NEW q \in Seq(S), NEW Out, NEW r \in Retained(q, Out), NEW c \in S \ Out
  PROVE  <<c>> \o r \in Retained(<<c>> \o q, Out)
<1>. DEFINE kept == {i \in DOMAIN q : q[i] \notin Out}
            n    == Cardinality(kept)
            Q    == <<c>> \o q
<1>1. n \in Nat
  BY KeptIsFinite
<1>2. PICK f \in [1..n -> kept] : /\ \A i, j \in 1..n : i < j => f[i] < f[j]
                                  /\ r = [k \in 1..n |-> q[f[k]]]
  BY DEF Retained
<1>3. \A p \in kept : \E i \in 1..n : f[i] = p
  <2>0. IsFiniteSet(kept)
    BY KeptIsFinite
  <2>1. kept \in SUBSET Nat /\ IsFiniteSet(kept) /\ n = Cardinality(kept)
    BY <2>0
  <2>2. f \in [1..n -> kept] /\ \A i, j \in 1..n : i < j => f[i] < f[j]
    BY <1>2
  <2>. HIDE DEF n, kept
  <2>. QED
    BY <1>1, <2>1, <2>2, IncreasingListIsOnto
<1>4. \A k \in 1..n : f[k] \in 1..Len(q) /\ q[f[k]] \notin Out /\ q[f[k]] \in S
  BY <1>2
<1>5. \A p \in 1..Len(q) : q[p] \notin Out => \E i \in 1..n : f[i] = p
  BY <1>3
<1>. HIDE DEF n
<1>6. /\ Q \in Seq(S) /\ DOMAIN Q = 1..(Len(q) + 1) /\ Len(q) \in Nat
      /\ Q[1] = c /\ \A i \in 1..Len(q) : Q[i + 1] = q[i]
  OBVIOUS
<1>. HIDE DEF Q
<1>. DEFINE g == [k \in 1..(n + 1) |-> IF k = 1 THEN 1 ELSE f[k - 1] + 1]
<1>7. g \in [1..(n + 1) -> {i \in DOMAIN Q : Q[i] \notin Out}]
  <2>. SUFFICES ASSUME NEW k \in 1..(n + 1) PROVE g[k] \in DOMAIN Q /\ Q[g[k]] \notin Out
    BY <1>1
  <2>1. CASE k = 1
    BY <1>6, <2>1
  <2>2. CASE k # 1
    <3>1. k - 1 \in 1..n
      BY <1>1, <2>2
    <3>2. f[k - 1] \in 1..Len(q) /\ g[k] = f[k - 1] + 1
      BY <1>4, <2>2, <3>1
    <3>. QED
      BY <1>4, <1>6, <3>1, <3>2
  <2>. QED
    BY <2>1, <2>2
<1>8. \A i, j \in 1..(n + 1) : i < j => g[i] < g[j]
  <2>. SUFFICES ASSUME NEW i \in 1..(n + 1), NEW j \in 1..(n + 1), i < j
                PROVE  g[i] < g[j]
    OBVIOUS
  <2>1. j - 1 \in 1..n /\ g[j] = f[j - 1] + 1 /\ f[j - 1] \in 1..Len(q)
    <3>1. j - 1 \in 1..n /\ j # 1
      BY <1>1
    <3>. QED
      BY <1>4, <3>1
  <2>2. CASE i = 1
    BY <1>6, <2>1, <2>2
  <2>3. CASE i # 1
    <3>1. i - 1 \in 1..n /\ i - 1 < j - 1
      BY <1>1, <2>3
    <3>2. g[i] = f[i - 1] + 1 /\ f[i - 1] \in 1..Len(q)
      BY <1>4, <2>3, <3>1
    <3>3. f[i - 1] < f[j - 1]
      BY <1>2, <2>1, <3>1
    <3>. QED
      BY <1>6, <2>1, <3>2, <3>3
  <2>. QED
    BY <2>2, <2>3
<1>9. \A p \in DOMAIN Q : Q[p] \notin Out => \E i \in 1..(n + 1) : g[i] = p
  <2>. SUFFICES ASSUME NEW p \in DOMAIN Q, Q[p] \notin Out
                PROVE  \E i \in 1..(n + 1) : g[i] = p
    OBVIOUS
  <2>1. CASE p = 1
    BY <1>1, <2>1
  <2>2. CASE p # 1
    <3>1. p - 1 \in 1..Len(q) /\ Q[(p - 1) + 1] = q[p - 1] /\ (p - 1) + 1 = p
      BY <1>6, <2>2
    <3>2. PICK i \in 1..n : f[i] = p - 1
      BY <1>5, <3>1
    <3>3. i + 1 \in 1..(n + 1) /\ i + 1 # 1 /\ (i + 1) - 1 = i
      BY <1>1
    <3>4. g[i + 1] = p
      BY <3>1, <3>2, <3>3
    <3>. QED
      BY <3>3, <3>4
  <2>. QED
    BY <2>1, <2>2
<1>10. [k \in 1..(n + 1) |-> Q[g[k]]] = <<c>> \o r
  <2>1. r \in Seq(S) /\ Len(r) = n
    <3>1. r \in [1..n -> S]
      BY <1>2, <1>4
    <3>. QED
      BY <1>1, <3>1
  <2>. DEFINE R == <<c>> \o r
  <2>2. /\ R = [k \in 1..(n + 1) |-> R[k]]
        /\ R[1] = c /\ \A k \in 2..(n + 1) : R[k] = r[k - 1]
    BY <1>1, <2>1
  <2>. HIDE DEF R
  <2>3. ASSUME NEW k \in 1..(n + 1) PROVE Q[g[k]] = R[k]
    <3>1. CASE k = 1
      BY <1>6, <2>2, <3>1
    <3>2. CASE k # 1
      <4>1. k - 1 \in 1..n /\ k \in 2..(n + 1)
        BY <1>1, <3>2
      <4>2. g[k] = f[k - 1] + 1 /\ f[k - 1] \in 1..Len(q)
        BY <1>4, <3>2, <4>1
      <4>. QED
        BY <1>2, <1>6, <2>2, <4>1, <4>2
    <3>. QED
      BY <3>1, <3>2
  <2>. QED
    BY <2>2, <2>3 DEF R
<1>. HIDE DEF g
<1>11. n + 1 \in Nat
  BY <1>1
<1>12. [k \in 1..(n + 1) |-> Q[g[k]]] \in Retained(Q, Out)
  BY <1>6, <1>7, <1>8, <1>9, <1>11, RetainedBy
<1>. QED
  BY <1>10, <1>12 DEF Q

(* What stands before a queue is all that goes when it is taken out. *)
LEMMA RetainHead ==
  ASSUME NEW S, NEW q \in Seq(S), NEW c \in S \ ToSet(q)
  PROVE  q \in Retained(<<c>> \o q, {c})
<1>. DEFINE n == Len(q)
            Q == <<c>> \o q
            f == [k \in 1..n |-> k + 1]
<1>1. /\ Q \in Seq(S) /\ DOMAIN Q = 1..(n + 1) /\ n \in Nat
      /\ Q[1] = c /\ \A i \in 1..n : Q[i + 1] = q[i]
  OBVIOUS
<1>2. \A i \in 1..n : q[i] # c
  BY DEF ToSet
<1>3. q = [k \in 1..n |-> q[k]]
  OBVIOUS
<1>. HIDE DEF Q, n
<1>4. f \in [1..n -> {i \in DOMAIN Q : Q[i] \notin {c}}]
  <2>. SUFFICES ASSUME NEW k \in 1..n PROVE k + 1 \in DOMAIN Q /\ Q[k + 1] # c
    OBVIOUS
  <2>1. k + 1 \in 1..(n + 1) /\ Q[k + 1] = q[k]
    BY <1>1
  <2>. QED
    BY <1>1, <1>2, <2>1
<1>5. \A i, j \in 1..n : i < j => f[i] < f[j]
  BY <1>1
<1>6. \A p \in DOMAIN Q : Q[p] \notin {c} => \E i \in 1..n : f[i] = p
  <2>. SUFFICES ASSUME NEW p \in DOMAIN Q, Q[p] \notin {c}
                PROVE  \E i \in 1..n : f[i] = p
    OBVIOUS
  <2>1. p - 1 \in 1..n /\ f[p - 1] = p
    BY <1>1
  <2>. QED
    BY <2>1
<1>7. [k \in 1..n |-> Q[f[k]]] = q
  BY <1>1, <1>3
<1>. HIDE DEF f
<1>8. [k \in 1..n |-> Q[f[k]]] \in Retained(Q, {c})
  BY <1>1, <1>4, <1>5, <1>6, RetainedBy, ZenonT(40)
<1>. QED
  BY <1>7, <1>8 DEF Q

(* What SerialQueue sees of the scheduler. *)
Joined  == {t \in Task \ spawned : fate[t] # "new"}
Line    == IF pc \in {"deps", "requeue"} THEN <<cur>> \o queue ELSE queue
Serving == IF pc \in InRun \cup {"unregister", "settle"} THEN cur ELSE NoTask

LEMMA QueueInit == Init => Queue!Init
<1>. SUFFICES ASSUME Init PROVE Queue!Init
  OBVIOUS
<1>. QED
  BY DEF Init, Queue!Init, InRun

LEMMA QueueJoins ==
  ASSUME NEW t \in Task, t \notin Joined, Joined' = Joined \cup {t},
         Line' = Append(Line, t), Serving' = Serving
  PROVE  Queue!Next
BY DEF Queue!Next, Queue!Join, Joined, Line, Serving

LEMMA QueueServes ==
  ASSUME Serving = NoTask, Line # <<>>, Serving' = Head(Line), Line' = Tail(Line),
         Joined' = Joined
  PROVE  Queue!Next
BY DEF Queue!Next, Queue!Serve, Joined, Line, Serving

LEMMA QueueFinishes ==
  ASSUME Serving # NoTask, Serving' = NoTask, Joined' = Joined, Line' = Line
  PROVE  Queue!Next
BY DEF Queue!Next, Queue!Finish, Joined, Line, Serving

LEMMA SameOperators ==
  ASSUME NEW q, NEW Out
  PROVE  Queue!ToSet(q) = ToSet(q) /\ Queue!Retained(q, Out) = Retained(q, Out)
<1>1. \A K : Queue!Cardinality(K) = Cardinality(K)
  BY DEF Queue!Cardinality, Cardinality
<1>. QED
  BY <1>1 DEF Queue!ToSet, ToSet, Queue!Retained, Retained

LEMMA QueueLosesSome ==
  ASSUME NEW Out \in SUBSET ToSet(Line), Out # {}, Line' \in Retained(Line, Out),
         Joined' = Joined, Serving' = Serving
  PROVE  Queue!Next
BY SameOperators DEF Queue!Next, Queue!Withdraw, Joined, Line, Serving

LEMMA QueueStutters ==
  ASSUME UNCHANGED <<Joined, Line, Serving>>
  PROVE  UNCHANGED Queue!vars
BY DEF Queue!vars, Joined, Line, Serving

(* Enqueue waits outside the line; the push joins it. *)
LEMMA EnqueueMaps ==
  ASSUME IInv, NEW t \in Task, Enqueue(t) \/ Push(t)
  PROVE  [Queue!Next]_(Queue!vars)
<1>1. CASE Enqueue(t)
  <2>1. Joined' = Joined
    BY <1>1 DEF Enqueue, Joined, IInv, TypeOK
  <2>2. Line' = Line /\ Serving' = Serving
    BY <1>1 DEF Enqueue, workerVars, Line, Serving
  <2>. QED
    BY <2>1, <2>2, QueueStutters
<1>2. CASE Push(t)
  <2>1. t \in spawned /\ fate[t] # "new" /\ t \notin Joined
    BY <1>2 DEF Push, IInv, OnePlace, Joined
  <2>2. Joined' = Joined \cup {t}
    BY <1>2, <2>1 DEF Push, Joined
  <2>3. Line' = Append(Line, t)
    <3>1. queue' = Append(queue, t) /\ pc' = pc /\ cur' = cur /\ queue \in Seq(Task)
      BY <1>2 DEF Push, workerVars, IInv, TypeOK
    <3>2. CASE pc \in {"deps", "requeue"}
      <4>1. cur \in Task
        BY <3>2 DEF IInv, TypeOK, WorkerState
      <4>2. <<cur>> \o Append(queue, t) = Append(<<cur>> \o queue, t)
        BY <3>1, <4>1
      <4>. QED
        BY <3>1, <3>2, <4>2 DEF Line
    <3>3. CASE pc \notin {"deps", "requeue"}
      BY <3>1, <3>3 DEF Line
    <3>. QED
      BY <3>2, <3>3
  <2>4. Serving' = Serving
    BY <1>2 DEF Push, workerVars, Serving
  <2>. QED
    BY <2>1, <2>2, <2>3, <2>4, QueueJoins
<1>. QED
  BY <1>1, <1>2

(* To pop a task and to put it back at the front leaves the line as it is.  *)
LEMMA HeadStays ==
  ASSUME IInv, Park \/ Unpark \/ Pop \/ DepsRetry \/ PushFront \/ SleepOver
  PROVE  UNCHANGED <<Joined, Line, Serving>>
<1>1. spawned' = spawned /\ fate' = fate
  BY DEF Park, Unpark, Pop, DepsRetry, PushFront, SleepOver, queueVars
<1>2. /\ pc \notin InRun \cup {"unregister", "settle"}
      /\ pc' \notin InRun \cup {"unregister", "settle"}
  BY DEF Park, Unpark, Pop, DepsRetry, PushFront, SleepOver, InRun
<1>3. CASE Pop
  <2>1. queue \in Seq(Task) /\ queue # <<>> /\ Line = queue
    BY <1>3 DEF Pop, IInv, TypeOK, Line
  <2>2. <<Head(queue)>> \o Tail(queue) = queue
    BY <2>1
  <2>3. Line' = <<Head(queue)>> \o Tail(queue)
    BY <1>3 DEF Pop, Line
  <2>. QED
    BY <1>1, <1>2, <2>1, <2>2, <2>3 DEF Joined, Serving
<1>4. CASE Park \/ Unpark \/ DepsRetry \/ PushFront \/ SleepOver
  <2>1. Line' = Line
    BY <1>4 DEF Park, Unpark, DepsRetry, PushFront, SleepOver, queueVars, Line
  <2>. QED
    BY <1>1, <1>2, <2>1 DEF Joined, Serving
<1>. QED
  BY <1>3, <1>4

(* A head that is dropped or given up leaves the line unserved. *)
LEMMA HeadGivenUp ==
  ASSUME IInv, SkipNoAppState \/ DepsAbandon
  PROVE  Queue!Next
<1>1. /\ pc = "deps" /\ pc' = "pop" /\ queue' = queue /\ spawned' = spawned
      /\ fate' \in {[fate EXCEPT ![cur] = "dropped"], [fate EXCEPT ![cur] = "aborted"]}
  BY DEF SkipNoAppState, DepsAbandon, NextTask, queueVars
<1>2. cur \in Task \ ToSet(queue) /\ queue \in Seq(Task) /\ fate \in [Task -> Fates]
      /\ fate[cur] = "pending"
  BY <1>1 DEF IInv, TypeOK, WorkerState, OnePlace, QueuedTasks
<1>3. Joined' = Joined
  <2>1. \A t \in Task : fate'[t] # "new" <=> fate[t] # "new"
    BY <1>1, <1>2
  <2>. QED
    BY <1>1, <2>1 DEF Joined
<1>4. Serving' = Serving
  BY <1>1 DEF Serving, InRun
<1>5. Line = <<cur>> \o queue /\ Line' = queue
  BY <1>1 DEF Line
<1>6. Line' \in Retained(Line, {cur})
  BY <1>2, <1>5, RetainHead
<1>7. {cur} \in SUBSET ToSet(Line)
  BY <1>2, <1>5, PushFrontAsSet
<1>. QED
  BY <1>3, <1>4, <1>6, <1>7, QueueLosesSome

(* A dispatch serves the head of the line. *)
LEMMA DispatchServes ==
  ASSUME IInv, DepsReady
  PROVE  Queue!Next
<1>1. /\ pc = "deps" /\ pc' = "prelude"
      /\ UNCHANGED <<fate, cur, queue, spawned>>
  BY DEF DepsReady, queueVars
<1>2. cur \in Task /\ queue \in Seq(Task)
  BY <1>1 DEF IInv, TypeOK, WorkerState
<1>3. Serving = NoTask /\ Serving' = cur
  BY <1>1 DEF Serving, InRun
<1>4. Line = <<cur>> \o queue /\ Line' = queue
  BY <1>1 DEF Line
<1>5. Line # <<>> /\ Head(Line) = cur /\ Tail(Line) = queue
  BY <1>2, <1>4
<1>6. Joined' = Joined
  BY <1>1 DEF Joined
<1>. QED
  BY <1>3, <1>4, <1>5, <1>6, QueueServes

(* What runner::run does is one service; the match on its result ends it.   *)
LEMMA RunServes ==
  ASSUME IInv, Run \/ Watchdog
  PROVE  [Queue!Next]_(Queue!vars)
<1>1. UNCHANGED <<queue, spawned>>
  BY DEF Run, Watchdog, PreludeFails, SpawnRunner, TurnJoined, Finalize, Consume, CancelArm,
         LeaveRun, Unregister, SettleDone, SettleAborted, queueVars
<1>2. CASE SettleDone \/ SettleAborted
  <2>1. /\ pc = "settle" /\ pc' = "pop"
        /\ fate' \in {[fate EXCEPT ![cur] = "done"], [fate EXCEPT ![cur] = "aborted"]}
    BY <1>2 DEF SettleDone, SettleAborted, NextTask
  <2>2. cur \in Task /\ fate \in [Task -> Fates] /\ fate[cur] = "pending"
    BY <2>1 DEF IInv, TypeOK, WorkerState, OnePlace
  <2>3. Joined' = Joined
    <3>1. \A t \in Task : fate'[t] # "new" <=> fate[t] # "new"
      BY <2>1, <2>2
    <3>. QED
      BY <1>1, <3>1 DEF Joined
  <2>4. Serving = cur /\ Serving' = NoTask /\ cur # NoTask
    BY <2>1, <2>2, SchedulerAssumption DEF Serving, InRun
  <2>5. Line' = Line
    BY <1>1, <2>1 DEF Line
  <2>. QED
    BY <2>3, <2>4, <2>5, QueueFinishes
<1>3. CASE ~(SettleDone \/ SettleAborted)
  <2>1. /\ pc \in InRun \cup {"unregister"} /\ pc' \in InRun \cup {"unregister", "settle"}
        /\ UNCHANGED <<cur, fate>>
    BY <1>3 DEF Run, Watchdog, PreludeFails, SpawnRunner, TurnJoined, Finalize, Consume,
                CancelArm, LeaveRun, Unregister, InRun
  <2>2. pc \notin {"deps", "requeue"} /\ pc' \notin {"deps", "requeue"}
    BY <2>1 DEF InRun
  <2>. QED
    BY <1>1, <2>1, <2>2, QueueStutters DEF Joined, Line, Serving
<1>. QED
  BY <1>2, <1>3

(* A cancel takes tasks out of the line, or none; never the head that is    *)
(* about to be served.                                                      *)
LEMMA CancelWithdraws ==
  ASSUME IInv, NEW c \in Caller, CancelQueued(c)
  PROVE  [Queue!Next]_(Queue!vars)
<1>. DEFINE Out == QueuedWith(cancelling[c])
<1>1. /\ queue' \in Retained(queue, Out) /\ UNCHANGED <<pc, cur, spawned>>
      /\ fate' = [t \in Task |-> IF t \in Out THEN "aborted" ELSE fate[t]]
  BY DEF CancelQueued, workerVars
<1>2. /\ queue \in Seq(Task) /\ fate \in [Task -> Fates] /\ Out \subseteq ToSet(queue)
      /\ \A t \in Out : t \in Task /\ fate[t] = "pending"
      /\ cur \notin Out
  BY DEF IInv, TypeOK, OnePlace, QueuedWith, QueuedTasks, ToSet
<1>. HIDE DEF Out
<1>3. Joined' = Joined
  <2>1. \A t \in Task : fate'[t] # "new" <=> fate[t] # "new"
    BY <1>1, <1>2
  <2>. QED
    BY <1>1, <2>1 DEF Joined
<1>4. Serving' = Serving
  BY <1>1 DEF Serving
<1>5. CASE Out = {}
  <2>1. queue' = queue
    BY <1>1, <1>2, <1>5, RetainAll
  <2>2. Line' = Line
    BY <1>1, <2>1 DEF Line
  <2>. QED
    BY <1>3, <1>4, <2>2, QueueStutters
<1>6. CASE Out # {}
  <2>1. CASE pc \in {"deps", "requeue"}
    <3>1. Line = <<cur>> \o queue /\ Line' = <<cur>> \o queue'
      BY <1>1, <2>1 DEF Line
    <3>2. cur \in Task \ Out
      BY <1>2, <2>1 DEF IInv, TypeOK, WorkerState
    <3>3. Line' \in Retained(Line, Out)
      BY <1>1, <1>2, <3>1, <3>2, RetainBehind
    <3>4. ToSet(Line) = ToSet(queue) \cup {cur}
      BY <1>2, <3>1, <3>2, PushFrontAsSet
    <3>5. Out \in SUBSET ToSet(Line)
      BY <1>2, <3>4
    <3>. QED
      BY <1>3, <1>4, <1>6, <3>3, <3>5, QueueLosesSome
  <2>2. CASE pc \notin {"deps", "requeue"}
    <3>1. Line = queue /\ Line' = queue'
      BY <1>1, <2>2 DEF Line
    <3>. QED
      BY <1>1, <1>2, <1>3, <1>4, <1>6, <3>1, QueueLosesSome
  <2>. QED
    BY <2>1, <2>2
<1>. QED
  BY <1>5, <1>6

LEMMA StepMaps == IInv /\ [Next]_vars => [Queue!Next]_(Queue!vars)
<1>. SUFFICES ASSUME IInv, [Next]_vars PROVE [Queue!Next]_(Queue!vars)
  OBVIOUS
<1>1. CASE \E t \in Task : Enqueue(t) \/ Push(t)
  BY <1>1, EnqueueMaps
<1>2. CASE \/ \E t \in Task : SidecarEnds(t)
           \/ ManageAppState
           \/ \E c \in Caller, k \in Key : CancelRunning(c, k) \/ CancelNotRunning(c, k)
           \/ UNCHANGED vars
  <2>1. UNCHANGED <<fate, workerVars, queueVars>>
    BY <1>2 DEF SidecarEnds, ManageAppState, CancelRunning, CancelNotRunning, vars
  <2>2. UNCHANGED <<Joined, Line, Serving>>
    BY <2>1 DEF workerVars, queueVars, Joined, Line, Serving
  <2>. QED
    BY <2>2, QueueStutters
<1>3. CASE Dispatch
  BY <1>3, HeadStays, QueueStutters, HeadGivenUp, DispatchServes DEF Dispatch
<1>4. CASE Run \/ Watchdog
  BY <1>4, RunServes
<1>5. CASE \E c \in Caller : CancelQueued(c)
  BY <1>5, CancelWithdraws
<1>. QED
  BY <1>1, <1>2, <1>3, <1>4, <1>5 DEF Next, Cancel

(* scheduler.rs: tasks are served one at a time in the order in which their *)
(* pushes got the queue lock; retries overtake nobody, and a cancel takes   *)
(* out only tasks that are still in line.                                   *)
THEOREM ServesInOrder == Spec => Queue!Init /\ [][Queue!Next]_(Queue!vars)
<1>. QED
  BY QueueInit, StepMaps, Inductive, PTL DEF Spec

-----------------------------------------------------------------------------
(* The runs *)

(* Who may still write the row of a run and tell of it: its own             *)
(* consume_output while it is the current run, the spawned reporter once it *)
(* has been aborted, and nobody when it is done.                            *)
ReportsOf(t) ==
  /\ reporting[t] # "none" => fate[t] = "aborted"
  /\ recording[t] # "none" => t \in Workflow
  /\ fate[t] = "pending" /\ recording[t] \in Status =>
       /\ t = cur /\ recording[t] = turnResult
       /\ pc = "consume" \/ outcome = "cancelled"
  /\ fate[t] = "pending" /\ row[t] # "none" =>
       /\ t = cur /\ row[t] = turnResult
       /\ pc = "consume" \/ outcome \in {"ok", "cancelled"}
  /\ fate[t] = "new" => recording[t] = "none" /\ row[t] = "none"
  /\ fate[t] = "done" => recording[t] \notin Status
  /\ told[t] # <<>> =>
       \/ Len(told[t]) = 1 /\ reporting[t] = "over"
       \/ /\ Len(told[t]) = 1 /\ reporting[t] = "none"
          /\ row[t] \in {"none", told[t][1]}
          /\ \/ fate[t] = "done"
             \/ t = cur /\ outcome = "ok" /\ fate[t] = "pending" /\ told[t][1] = turnResult
  /\ t = cur /\ outcome = "ok" => recording[t] \notin Status

Reports == \A t \in Task : ReportsOf(t)

RInv == /\ IInv
        /\ RunsTypeOK
        /\ OneRunPerWorkflow
        /\ ClaimsAreOwned
        /\ Reports

LEMMA RunsInitInv == RunsInit => RInv
<1>. SUFFICES ASSUME RunsInit PROVE RInv
  OBVIOUS
<1>1. IInv
  BY InitInv DEF RunsInit
<1>2. RunsTypeOK
  BY <1>1 DEF RunsTypeOK, RunsInit, IInv, Status
<1>3. OneRunPerWorkflow /\ ClaimsAreOwned /\ Reports
  BY DEF RunsInit, Init, OneRunPerWorkflow, ClaimsAreOwned, Reports, ReportsOf, Live, Status
<1>. QED
  BY <1>1, <1>2, <1>3 DEF RInv

-----------------------------------------------------------------------------
(* A step of the composition is a step of the scheduler, or a stutter. *)
LEMMA StepsOfScheduler == [RunsNext]_allVars => [Next]_vars
<1>1. ASSUME SchedulerStep PROVE Next
  BY <1>1 DEF SchedulerStep, Next, Dispatch, Run, Cancel, Status
<1>2. ASSUME AbandonRun \/ AbortRun \/ FinishRun PROVE Next
  BY <1>2 DEF AbandonRun, AbortRun, FinishRun, Next, Dispatch, Run
<1>3. ASSUME NEW c \in Caller, CancelRun(c) PROVE Next
  BY <1>3 DEF CancelRun, Next, Cancel
<1>4. ASSUME NEW t \in Task, EnqueueMemoryTask(t) PROVE Next
  BY <1>4 DEF EnqueueMemoryTask, Next
<1>5. ASSUME NEW s \in Starter, NEW t \in Task, DispatchRun(s, t) PROVE Next
  BY <1>5 DEF DispatchRun, Next
<1>6. ASSUME NEW s \in Starter, (\E k \in Key : Claim(s, k)) \/ DefinitionMissing(s)
      PROVE  UNCHANGED vars
  BY <1>6 DEF Claim, DefinitionMissing
<1>7. ASSUME NEW t \in Task, ReportRow(t) \/ ReportEvent(t) \/ CommitRecord(t)
      PROVE  UNCHANGED vars
  BY <1>7 DEF ReportRow, ReportEvent, CommitRecord
<1>8. ASSUME BeginRecord PROVE UNCHANGED vars
  BY <1>8 DEF BeginRecord
<1>9. ASSUME UNCHANGED allVars PROVE UNCHANGED vars
  BY <1>9 DEF allVars
<1>. QED
  BY <1>1, <1>2, <1>3, <1>4, <1>5, <1>6, <1>7, <1>8, <1>9 DEF RunsNext

-----------------------------------------------------------------------------
LEMMA ClaimInv ==
  ASSUME RInv, IInv', NEW s \in Starter, NEW k \in Key, Claim(s, k)
  PROVE  RInv'
<1>. USE SchedulerAssumption DEF RInv, Claim, vars, workerVars
<1>1. \A t \in Task : Live(t)' <=> Live(t)
  BY DEF Live, Workflow
<1>2. RunsTypeOK'
  BY DEF RunsTypeOK, IInv
<1>3. OneRunPerWorkflow'
  BY <1>1 DEF OneRunPerWorkflow, RunsTypeOK
<1>4. ClaimsAreOwned'
  BY <1>1 DEF ClaimsAreOwned, RunsTypeOK
<1>5. Reports'
  BY DEF Reports, ReportsOf
<1>. QED
  BY <1>2, <1>3, <1>4, <1>5

LEMMA DefinitionMissingInv ==
  ASSUME RInv, IInv', NEW s \in Starter, DefinitionMissing(s)
  PROVE  RInv'
<1>. USE SchedulerAssumption DEF RInv, DefinitionMissing, vars, workerVars
<1>1. \A t \in Task : Live(t)' <=> Live(t)
  BY DEF Live, Workflow
<1>2. RunsTypeOK'
  BY DEF RunsTypeOK, IInv
<1>3. OneRunPerWorkflow'
  BY <1>1 DEF OneRunPerWorkflow, RunsTypeOK
<1>4. ClaimsAreOwned'
  BY <1>1 DEF ClaimsAreOwned, RunsTypeOK
<1>5. Reports'
  BY DEF Reports, ReportsOf
<1>. QED
  BY <1>2, <1>3, <1>4, <1>5

LEMMA DispatchRunInv ==
  ASSUME RInv, IInv', NEW s \in Starter, NEW t \in Task, DispatchRun(s, t)
  PROVE  RInv'
<1>. USE SchedulerAssumption DEF RInv, DispatchRun, Enqueue, workerVars
<1>1. /\ \A u \in Task : u # t => fate'[u] = fate[u] /\ (Live(u)' <=> Live(u))
      /\ fate[t] = "new" /\ fate'[t] = "pending"
      /\ ~Live(t) /\ KeyOf[t] = starting[s] /\ starting[s] # NoKey
      /\ t # cur
  BY DEF Live, Workflow, IInv, TypeOK, OnePlace
<1>2. RunsTypeOK'
  BY DEF RunsTypeOK, IInv
<1>3. OneRunPerWorkflow'
  BY <1>1 DEF OneRunPerWorkflow, RunsTypeOK
<1>4. ClaimsAreOwned'
  <2>. SUFFICES ASSUME NEW k \in claims
                PROVE  \/ \E r \in Starter : starting'[r] = k
                       \/ \E u \in Task : KeyOf[u] = k /\ (Live(u)' \/ fate'[u] = "dropped")
    BY DEF ClaimsAreOwned
  <2>1. CASE k = starting[s]
    <3>1. Live(t)'
      BY <1>1 DEF Live, Workflow
    <3>. QED
      BY <1>1, <2>1, <3>1
  <2>2. CASE k # starting[s]
    <3>1. ASSUME NEW r \in Starter, starting[r] = k
          PROVE  starting'[r] = k
      BY <2>2, <3>1 DEF RunsTypeOK
    <3>2. ASSUME NEW u \in Task, KeyOf[u] = k, Live(u) \/ fate[u] = "dropped"
          PROVE  Live(u)' \/ fate'[u] = "dropped"
      BY <1>1, <3>2
    <3>. QED
      BY <3>1, <3>2 DEF ClaimsAreOwned
  <2>. QED
    BY <2>1, <2>2
<1>5. Reports'
  BY <1>1 DEF Reports, ReportsOf, Status
<1>. QED
  BY <1>2, <1>3, <1>4, <1>5

LEMMA EnqueueMemoryTaskInv ==
  ASSUME RInv, IInv', NEW t \in Task, EnqueueMemoryTask(t)
  PROVE  RInv'
<1>. USE SchedulerAssumption DEF RInv, EnqueueMemoryTask, Enqueue, workerVars, runVars
<1>1. /\ \A u \in Task : u # t => fate'[u] = fate[u]
      /\ fate[t] = "new" /\ fate'[t] = "pending"
      /\ \A u \in Task : Live(u)' <=> Live(u)
      /\ t # cur
  BY DEF Live, Workflow, IInv, TypeOK, OnePlace
<1>2. RunsTypeOK'
  BY DEF RunsTypeOK, IInv
<1>3. OneRunPerWorkflow' /\ ClaimsAreOwned'
  BY <1>1 DEF OneRunPerWorkflow, ClaimsAreOwned
<1>4. Reports'
  BY <1>1 DEF Reports, ReportsOf, Status
<1>. QED
  BY <1>2, <1>3, <1>4

-----------------------------------------------------------------------------
(* The three places from which on_dispatch_aborted is called: A holds live  *)
(* runs, whose fate is now sealed.                                          *)
LEMMA AbortHookInv ==
  ASSUME RInv, IInv', NEW A \in SUBSET Task, AbortHook(A),
         \A t \in A : fate[t] = "pending" /\ ~(t = cur /\ outcome = "ok"),
         \A t \in Task : fate'[t] = IF t \in A THEN "aborted" ELSE fate[t],
         \/ UNCHANGED <<pc, cur, outcome, turnResult>>
         \/ cur \in A /\ cur' = NoTask /\ outcome' = "none" /\ turnResult' = "none"
  PROVE  RInv'
<1>. USE SchedulerAssumption DEF RInv, AbortHook
<1>1. \A t \in Task : Live(t)' <=> Live(t) /\ t \notin A
  BY DEF Live, Workflow
<1>2. \A t \in A : t \in Workflow => Live(t)
  BY DEF Live
<1>3. RunsTypeOK'
  BY DEF RunsTypeOK, IInv
<1>4. OneRunPerWorkflow'
  <2>. DEFINE freed == {KeyOf[t] : t \in A}
  <2>1. ASSUME NEW t \in Task, Live(t), t \notin A
        PROVE  KeyOf[t] \in claims \ freed
    <3>1. \A u \in A : u \in Workflow => KeyOf[u] # KeyOf[t]
      BY <1>2, <2>1 DEF OneRunPerWorkflow
    <3>2. \A u \in A : u \notin Workflow => KeyOf[u] # KeyOf[t]
      BY <2>1 DEF Live, Workflow
    <3>3. KeyOf[t] \in claims
      BY <2>1 DEF OneRunPerWorkflow
    <3>. QED
      BY <3>1, <3>2, <3>3
  <2>2. ASSUME NEW s \in Starter, starting[s] # NoKey
        PROVE  starting[s] \in claims \ freed
    <3>1. \A u \in A : u \in Workflow => KeyOf[u] # starting[s]
      BY <1>2, <2>2 DEF OneRunPerWorkflow
    <3>2. \A u \in A : u \notin Workflow => KeyOf[u] # starting[s]
      BY <2>2 DEF Workflow
    <3>. QED
      BY <2>2, <3>1, <3>2 DEF OneRunPerWorkflow
  <2>. QED
    BY <1>1, <2>1, <2>2 DEF OneRunPerWorkflow
<1>5. ClaimsAreOwned'
  <2>. SUFFICES ASSUME NEW k \in claims'
                PROVE  \/ \E r \in Starter : starting'[r] = k
                       \/ \E u \in Task : KeyOf[u] = k /\ (Live(u)' \/ fate'[u] = "dropped")
    BY DEF ClaimsAreOwned
  <2>1. k \in claims /\ \A u \in A : KeyOf[u] # k
    OBVIOUS
  <2>. QED
    BY <1>1, <2>1 DEF ClaimsAreOwned
<1>6. Reports'
  <2>1. \A t \in Task : told[t] # <<>> => t \notin A
    BY DEF Reports, ReportsOf
  <2>2. ASSUME NEW t \in A
        PROVE  fate'[t] = "aborted" /\ told'[t] = <<>> /\ ~(t = cur' /\ outcome' = "ok")
    BY <2>1
  <2>3. ASSUME NEW t \in Task \ A
        PROVE  /\ fate'[t] = fate[t] /\ reporting'[t] = reporting[t]
               /\ \/ UNCHANGED <<pc, cur, outcome, turnResult>>
                  \/ t # cur /\ t # cur'
    OBVIOUS
  <2>4. UNCHANGED <<recording, row, told>>
    OBVIOUS
  <2>. QED
    BY <2>2, <2>3, <2>4 DEF Reports, ReportsOf
<1>. QED
  BY <1>3, <1>4, <1>5, <1>6

LEMMA AbortInv ==
  ASSUME RInv, IInv', AbandonRun \/ AbortRun
  PROVE  RInv'
<1>. USE SchedulerAssumption DEF RInv, AbandonRun, AbortRun, DepsAbandon, SettleAborted, NextTask
<1>1. /\ cur \in Task /\ AbortHook({cur})
      /\ fate[cur] = "pending" /\ outcome # "ok"
      /\ cur' = NoTask /\ outcome' = "none" /\ turnResult' = "none"
  BY DEF IInv, TypeOK, WorkerState, OnePlace
<1>2. \A t \in Task : fate'[t] = IF t \in {cur} THEN "aborted" ELSE fate[t]
  BY <1>1 DEF IInv, TypeOK
<1>. HIDE DEF RInv, AbandonRun, AbortRun, DepsAbandon, SettleAborted, NextTask
<1>. QED
  BY <1>1, <1>2, AbortHookInv

LEMMA CancelRunInv ==
  ASSUME RInv, IInv', NEW c \in Caller, CancelRun(c)
  PROVE  RInv'
<1>. DEFINE A == QueuedWith(cancelling[c])
<1>. USE SchedulerAssumption DEF RInv, CancelRun, CancelQueued, workerVars
<1>1. A \subseteq Task /\ cur \notin A
  BY SeqAsSet DEF QueuedWith, QueuedTasks, IInv, TypeOK, OnePlace
<1>2. \A t \in A : fate[t] = "pending" /\ ~(t = cur /\ outcome = "ok")
  BY <1>1 DEF QueuedWith, IInv, OnePlace
<1>3. \A t \in Task : fate'[t] = IF t \in A THEN "aborted" ELSE fate[t]
  OBVIOUS
<1>4. AbortHook(A) /\ UNCHANGED <<pc, cur, outcome, turnResult>>
  OBVIOUS
<1>. HIDE DEF A, RInv, CancelRun, CancelQueued, workerVars
<1>. QED
  BY <1>1, <1>2, <1>3, <1>4, AbortHookInv

-----------------------------------------------------------------------------
(* The futures and threads that write rows and tell the user. *)
LEMMA ReportInv ==
  ASSUME RInv, IInv', NEW t \in Task, ReportRow(t) \/ ReportEvent(t)
  PROVE  RInv'
<1>. USE SchedulerAssumption DEF RInv, ReportRow, ReportEvent, RecordRun, vars, workerVars
<1>1. \A u \in Task : Live(u)' <=> Live(u)
  BY DEF Live, Workflow
<1>2. fate[t] = "aborted" /\ told[t] = <<>>
  BY DEF Reports, ReportsOf
<1>3. /\ told' \in [Task -> Seq(Status)]
      /\ \A u \in Task : u # t => told'[u] = told[u]
      /\ told'[t] # <<>> => Len(told'[t]) = 1 /\ reporting'[t] = "over"
  <2>1. CASE told' = told
    BY <1>2, <2>1 DEF RunsTypeOK
  <2>2. CASE ReportEvent(t)
    <3>1. Append(<<>>, "failure") = <<"failure">> /\ <<"failure">> \in Seq(Status)
      BY DEF Status
    <3>. QED
      BY <1>2, <2>2, <3>1 DEF RunsTypeOK
  <2>. QED
    BY <2>1, <2>2
<1>4. /\ row' \in [Task -> {"none"} \cup Status]
      /\ \A u \in Task : u # t => row'[u] = row[u]
  BY DEF RunsTypeOK, Status
<1>5. /\ reporting' \in [Task -> {"none", "row", "event", "over"}]
      /\ \A u \in Task : u # t => reporting'[u] = reporting[u]
  BY DEF RunsTypeOK
<1>6. RunsTypeOK'
  BY <1>3, <1>4, <1>5 DEF RunsTypeOK, IInv
<1>7. OneRunPerWorkflow' /\ ClaimsAreOwned'
  BY <1>1 DEF OneRunPerWorkflow, ClaimsAreOwned
<1>8. Reports'
  <2>1. fate' = fate /\ recording' = recording /\ UNCHANGED <<cur, pc, outcome, turnResult>>
    OBVIOUS
  <2>. QED
    BY <1>2, <1>3, <1>4, <1>5, <2>1 DEF Reports, ReportsOf
<1>. QED
  BY <1>6, <1>7, <1>8

LEMMA RecordInv ==
  ASSUME RInv, IInv', NEW t \in Task, CommitRecord(t) \/ (BeginRecord /\ t = cur)
  PROVE  RInv'
<1>. USE SchedulerAssumption DEF RInv, CommitRecord, BeginRecord, RecordRun, vars, workerVars
<1>1. \A u \in Task : Live(u)' <=> Live(u)
  BY DEF Live, Workflow
<1>2. /\ row' \in [Task -> {"none"} \cup Status]
      /\ \A u \in Task : u # t => row'[u] = row[u] /\ recording'[u] = recording[u]
      /\ row'[t] = row[t] \/ (row'[t] = recording[t] /\ recording[t] \in Status)
  <2>1. \A u \in Task : u # t => recording'[u] = recording[u]
    BY DEF RunsTypeOK
  <2>0. row \in [Task -> {"none"} \cup Status]
    BY DEF RunsTypeOK
  <2>2. CASE row' = row
    <3>. HIDE DEF RInv, CommitRecord, BeginRecord
    <3>. QED
      BY <2>0, <2>1, <2>2
  <2>3. CASE row' # row
    <3>1. recording[t] \in Status /\ row' = [row EXCEPT ![t] = recording[t]]
      BY <2>3
    <3>. HIDE DEF RInv, CommitRecord, BeginRecord
    <3>. QED
      BY <2>0, <2>1, <3>1
  <2>. QED
    BY <2>2, <2>3
<1>3. recording' \in [Task -> {"none", "over"} \cup Status]
  <2>1. CASE CommitRecord(t)
    BY <2>1 DEF RunsTypeOK
  <2>2. CASE BeginRecord
    <3>1. turnResult \in Status
      BY <2>2 DEF IInv, TypeOK, WorkerState, Status
    <3>. QED
      BY <2>2, <3>1 DEF RunsTypeOK
  <2>. QED
    BY <2>1, <2>2
<1>4. RunsTypeOK'
  BY <1>2, <1>3 DEF RunsTypeOK, IInv
<1>5. OneRunPerWorkflow' /\ ClaimsAreOwned'
  BY <1>1 DEF OneRunPerWorkflow, ClaimsAreOwned
<1>6. Reports'
  <2>1. UNCHANGED <<fate, cur, pc, outcome, turnResult, reporting, told>>
    OBVIOUS
  <2>2. CASE CommitRecord(t)
    <3>1. recording[t] \in Status /\ recording'[t] = "over"
      BY <2>2 DEF RunsTypeOK
    <3>2. fate[t] # "new" /\ fate[t] # "done" /\ ~(t = cur /\ outcome = "ok")
      BY <3>1 DEF Reports, ReportsOf, Status
    <3>3. told'[t] # <<>> => reporting'[t] = "over" /\ Len(told'[t]) = 1
      BY <2>1, <3>2 DEF Reports, ReportsOf
    <3>4. "over" \notin Status /\ t \in Workflow /\ Workflow' = Workflow
      BY <3>1 DEF Status, Reports, ReportsOf, Workflow
    <3>5. fate[t] = "pending" => /\ t = cur /\ recording[t] = turnResult
                                 /\ pc = "consume" \/ outcome = "cancelled"
      BY <3>1 DEF Reports, ReportsOf
    <3>6. reporting[t] # "none" => fate[t] = "aborted"
      BY DEF Reports, ReportsOf
    <3>7. fate[t] = "pending" /\ row'[t] # "none" =>
            /\ t = cur /\ row'[t] = turnResult
            /\ pc = "consume" \/ outcome \in {"ok", "cancelled"}
      BY <1>2, <3>5 DEF Reports, ReportsOf
    <3>8. Reports
      OBVIOUS
    <3>. HIDE DEF RInv, CommitRecord, BeginRecord
    <3>. QED
      BY <1>2, <2>1, <3>1, <3>2, <3>3, <3>4, <3>6, <3>7, <3>8 DEF Reports, ReportsOf
  <2>3. CASE BeginRecord /\ t = cur
    <3>1. /\ fate[t] = "pending" /\ outcome = "none" /\ pc = "consume"
          /\ recording'[t] = turnResult /\ row' = row
      BY <2>3 DEF IInv, OnePlace, WorkerState, RunsTypeOK
    <3>. QED
      BY <1>2, <2>1, <2>3, <3>1 DEF Reports, ReportsOf
  <2>. QED
    BY <2>2, <2>3
<1>. QED
  BY <1>4, <1>5, <1>6

LEMMA FinishRunInv ==
  ASSUME RInv, IInv', FinishRun
  PROVE  RInv'
<1>. USE SchedulerAssumption DEF RInv, FinishRun, Consume, LeaveRun
<1>1. /\ cur \in Task /\ fate[cur] = "pending" /\ outcome = "none" /\ outcome' = "ok"
      /\ pc = "consume" /\ pc' = "unregister"
      /\ UNCHANGED <<fate, cur, turnResult, starting, recording, reporting, row>>
  BY DEF IInv, TypeOK, WorkerState, OnePlace, InRun
<1>2. \A t \in Task : Live(t)' <=> Live(t) /\ t # cur
  BY <1>1 DEF Live, Workflow
<1>3. turnResult \in Status
  BY <1>1 DEF IInv, TypeOK, WorkerState, Status
<1>4. told[cur] = <<>>
  BY <1>1 DEF Reports, ReportsOf
<1>5. /\ told' \in [Task -> Seq(Status)]
      /\ \A t \in Task : t # cur => told'[t] = told[t]
      /\ told'[cur] # <<>> => Len(told'[cur]) = 1 /\ told'[cur][1] = turnResult
  <2>1. Append(<<>>, turnResult) = <<turnResult>> /\ <<turnResult>> \in Seq(Status)
    BY <1>3
  <2>. QED
    BY <1>1, <1>4, <2>1 DEF RunsTypeOK
<1>6. RunsTypeOK'
  BY <1>1, <1>5 DEF RunsTypeOK, IInv
<1>7. OneRunPerWorkflow'
  <2>1. ASSUME NEW t \in Task, Live(t), t # cur
        PROVE  KeyOf[t] \in claims'
    <3>1. KeyOf[t] # KeyOf[cur]
      <4>1. CASE cur \in Workflow
        BY <1>1, <2>1, <4>1 DEF OneRunPerWorkflow, Live
      <4>2. CASE cur \notin Workflow
        BY <1>1, <2>1, <4>2 DEF Live, Workflow
      <4>. QED
        BY <4>1, <4>2
    <3>. QED
      BY <2>1, <3>1 DEF OneRunPerWorkflow
  <2>2. ASSUME NEW s \in Starter, starting[s] # NoKey
        PROVE  starting[s] \in claims'
    <3>1. KeyOf[cur] # starting[s]
      BY <1>1, <2>2 DEF OneRunPerWorkflow, Live, Workflow
    <3>. QED
      BY <2>2, <3>1 DEF OneRunPerWorkflow
  <2>. QED
    BY <1>1, <1>2, <2>1, <2>2 DEF OneRunPerWorkflow
<1>8. ClaimsAreOwned'
  BY <1>1, <1>2 DEF ClaimsAreOwned
<1>9. Reports'
  <2>1. /\ recording[cur] \notin Status
        /\ row[cur] \in {"none", turnResult} /\ reporting[cur] = "none"
    <3>1. CASE cur \in Workflow
      BY <1>1, <3>1 DEF Reports, ReportsOf, Status, RunsTypeOK
    <3>2. CASE cur \notin Workflow
      BY <1>1, <3>2 DEF Reports, ReportsOf, Status, RunsTypeOK
    <3>. QED
      BY <3>1, <3>2
  <2>. QED
    BY <1>1, <1>5, <2>1 DEF Reports, ReportsOf, Status
<1>. QED
  BY <1>6, <1>7, <1>8, <1>9

-----------------------------------------------------------------------------
(* The steps of the scheduler that call no hook. *)
LEMMA SchedulerStepFrame ==
  ASSUME IInv, SchedulerStep
  PROVE  \A t \in Task :
           /\ Live(t)' => Live(t)
           /\ Live(t) => Live(t)' \/ fate'[t] = "dropped"
           /\ fate'[t] # fate[t] => t = cur /\ cur' = NoTask /\ fate'[t] \in {"done", "dropped"}
<1>. USE SchedulerAssumption DEF Live
<1>1. CASE SkipNoAppState
  BY <1>1 DEF SkipNoAppState, NextTask, IInv, TypeOK, WorkerState
<1>2. CASE SettleDone
  BY <1>2 DEF SettleDone, NextTask, IInv, TypeOK, WorkerState
<1>3. CASE \/ \E t \in Task : Push(t) \/ SidecarEnds(t)
          \/ ManageAppState
          \/ \E c \in Caller, k \in Key : CancelRunning(c, k) \/ CancelNotRunning(c, k)
  BY <1>3 DEF Push, SidecarEnds, ManageAppState, CancelRunning, CancelNotRunning, workerVars
<1>4. CASE Park \/ Unpark \/ Pop \/ DepsRetry \/ PushFront \/ SleepOver \/ DepsReady \/ Unregister
  BY <1>4 DEF Park, Unpark, Pop, DepsRetry, PushFront, SleepOver, DepsReady, Unregister,
              IInv, WorkerState
<1>5. CASE PreludeFails \/ SpawnRunner \/ Watchdog \/ Finalize \/ CancelArm
          \/ \E v \in Status : TurnJoined(v)
  BY <1>5 DEF PreludeFails, SpawnRunner, Watchdog, Finalize, CancelArm, TurnJoined, LeaveRun,
              IInv, WorkerState, InRun
<1>. QED
  BY <1>1, <1>2, <1>3, <1>4, <1>5 DEF SchedulerStep

LEMMA SchedulerStepReports ==
  ASSUME RInv, SchedulerStep
  PROVE  Reports'
<1>. USE SchedulerAssumption DEF RInv, runVars
<1>0. UNCHANGED <<recording, reporting, row, told>>
  BY DEF SchedulerStep
<1>f. Reports /\ Workflow' = Workflow
  BY DEF Workflow
<1>1. CASE SkipNoAppState
  <2>1. /\ cur \in Task /\ fate[cur] = "pending" /\ outcome = "none" /\ cur' = NoTask
        /\ \A t \in Task : t # cur => fate'[t] = fate[t]
        /\ fate'[cur] = "dropped"
    BY <1>1 DEF SkipNoAppState, NextTask, IInv, TypeOK, WorkerState, OnePlace
  <2>2. told[cur] = <<>> /\ reporting[cur] = "none"
    BY <2>1 DEF Reports, ReportsOf
  <2>. HIDE DEF RInv
  <2>. QED
    BY <1>0, <1>f, <2>1, <2>2 DEF Reports, ReportsOf
<1>2. CASE SettleDone
  <2>1. /\ cur \in Task /\ fate[cur] = "pending" /\ outcome = "ok" /\ cur' = NoTask
        /\ \A t \in Task : t # cur => fate'[t] = fate[t]
        /\ fate'[cur] = "done"
    BY <1>2 DEF SettleDone, NextTask, IInv, TypeOK, WorkerState, OnePlace
  <2>2. recording[cur] \notin Status /\ reporting[cur] = "none"
    BY <2>1 DEF Reports, ReportsOf, RunsTypeOK
  <2>3. told[cur] # <<>> => Len(told[cur]) = 1 /\ row[cur] \in {"none", told[cur][1]}
    BY <2>1 DEF Reports, ReportsOf
  <2>. HIDE DEF RInv
  <2>. QED
    BY <1>0, <1>f, <2>1, <2>2, <2>3 DEF Reports, ReportsOf
<1>3. CASE \/ \E t \in Task : Push(t) \/ SidecarEnds(t)
          \/ ManageAppState
          \/ \E c \in Caller, k \in Key : CancelRunning(c, k) \/ CancelNotRunning(c, k)
  <2>1. UNCHANGED <<fate, cur, pc, outcome, turnResult>>
    BY <1>3 DEF Push, SidecarEnds, ManageAppState, CancelRunning, CancelNotRunning, workerVars
  <2>. HIDE DEF RInv
  <2>. QED
    BY <1>0, <1>f, <2>1 DEF Reports, ReportsOf
<1>4. CASE Park \/ Unpark \/ Pop \/ DepsRetry \/ PushFront \/ SleepOver \/ DepsReady
  <2>1. /\ UNCHANGED <<fate, turnResult, outcome>> /\ outcome = "none"
        /\ pc # "consume" /\ pc' # "consume"
    BY <1>4 DEF Park, Unpark, Pop, DepsRetry, PushFront, SleepOver, DepsReady, IInv, WorkerState
  <2>2. \A t \in Task :
          told[t] # <<>> => /\ Len(told[t]) = 1
                            /\ \/ reporting[t] = "over"
                               \/ /\ reporting[t] = "none" /\ fate[t] = "done"
                                  /\ row[t] \in {"none", told[t][1]}
    BY <1>f, <2>1 DEF Reports, ReportsOf
  <2>3. outcome' # "ok" /\ "none" \notin Status
    BY <2>1 DEF Status
  <2>4. \A t \in Task : fate[t] = "pending" => recording[t] \notin Status /\ row[t] = "none"
    BY <1>f, <2>1 DEF Reports, ReportsOf
  <2>. HIDE DEF RInv
  <2>. QED
    BY <1>0, <1>f, <2>1, <2>2, <2>3, <2>4 DEF Reports, ReportsOf
<1>5. CASE \/ PreludeFails \/ SpawnRunner \/ Watchdog \/ Finalize
          \/ \E v \in Status : TurnJoined(v)
  <2>1. /\ UNCHANGED <<fate, cur>> /\ outcome = "none" /\ pc # "consume"
        /\ outcome' # "ok"
    BY <1>5 DEF PreludeFails, SpawnRunner, Watchdog, Finalize, TurnJoined, LeaveRun,
                IInv, WorkerState, InRun
  <2>. HIDE DEF RInv
  <2>. QED
    BY <1>0, <1>f, <2>1 DEF Reports, ReportsOf
<1>6. CASE CancelArm
  <2>1. /\ UNCHANGED <<fate, cur, turnResult>> /\ outcome = "none" /\ outcome' = "cancelled"
    BY <1>6 DEF CancelArm, LeaveRun, IInv, WorkerState, InRun
  <2>2. \A t \in Task :
          told[t] # <<>> => /\ Len(told[t]) = 1
                            /\ \/ reporting[t] = "over"
                               \/ /\ reporting[t] = "none" /\ fate[t] = "done"
                                  /\ row[t] \in {"none", told[t][1]}
    BY <1>f, <2>1 DEF Reports, ReportsOf
  <2>3. outcome' # "ok" /\ "none" \notin Status
    BY <2>1 DEF Status
  <2>. HIDE DEF RInv
  <2>. QED
    BY <1>0, <1>f, <2>1, <2>2, <2>3 DEF Reports, ReportsOf
<1>7. CASE Unregister
  <2>1. /\ UNCHANGED <<fate, cur, turnResult, outcome>> /\ pc # "consume"
    BY <1>7 DEF Unregister
  <2>. HIDE DEF RInv
  <2>. QED
    BY <1>0, <1>f, <2>1 DEF Reports, ReportsOf
<1>. QED
  BY <1>1, <1>2, <1>3, <1>4, <1>5, <1>6, <1>7 DEF SchedulerStep

LEMMA SchedulerStepInv ==
  ASSUME RInv, IInv', SchedulerStep
  PROVE  RInv'
<1>1. UNCHANGED runVars
  BY DEF SchedulerStep
<1>2. RunsTypeOK'
  BY <1>1 DEF RInv, RunsTypeOK, IInv, runVars
<1>3. \A t \in Task : /\ Live(t)' => Live(t)
                      /\ Live(t) => Live(t)' \/ fate'[t] = "dropped"
                      /\ fate[t] = "dropped" => fate'[t] = "dropped"
  BY SchedulerStepFrame DEF RInv, IInv, OnePlace
<1>4. OneRunPerWorkflow'
  BY <1>1, <1>3 DEF RInv, OneRunPerWorkflow, runVars
<1>5. ClaimsAreOwned'
  BY <1>1, <1>3 DEF RInv, ClaimsAreOwned, runVars
<1>. QED
  BY <1>2, <1>4, <1>5, SchedulerStepReports DEF RInv

-----------------------------------------------------------------------------
LEMMA RunsNextInv == RInv /\ [RunsNext]_allVars => RInv'
<1>. SUFFICES ASSUME RInv, [RunsNext]_allVars PROVE RInv'
  OBVIOUS
<1>0. IInv'
  BY StepsOfScheduler, NextInv DEF RInv
<1>1. CASE \E s \in Starter : \/ \E k \in Key : Claim(s, k)
                             \/ DefinitionMissing(s)
                             \/ \E t \in Task : DispatchRun(s, t)
  BY <1>0, <1>1, ClaimInv, DefinitionMissingInv, DispatchRunInv
<1>2. CASE \E t \in Task : \/ EnqueueMemoryTask(t)
                          \/ ReportRow(t) \/ ReportEvent(t) \/ CommitRecord(t)
  BY <1>0, <1>2, EnqueueMemoryTaskInv, ReportInv, RecordInv
<1>3. CASE AbandonRun \/ AbortRun \/ FinishRun
  BY <1>0, <1>3, AbortInv, FinishRunInv
<1>4. CASE BeginRecord
  <2>1. cur \in Task
    BY <1>4 DEF BeginRecord, Workflow
  <2>. QED
    BY <1>0, <1>4, <2>1, RecordInv
<1>5. CASE \E c \in Caller : CancelRun(c)
  BY <1>0, <1>5, CancelRunInv
<1>6. CASE SchedulerStep
  BY <1>0, <1>6, SchedulerStepInv
<1>7. CASE UNCHANGED allVars
  BY <1>0, <1>7 DEF allVars, runVars, vars, workerVars, RInv, RunsTypeOK, IInv,
                    OneRunPerWorkflow, ClaimsAreOwned, Reports, ReportsOf, Live
<1>. QED
  BY <1>1, <1>2, <1>3, <1>4, <1>5, <1>6, <1>7 DEF RunsNext

THEOREM RunsInductive == RunsSpec => []RInv
<1>. QED
  BY RunsInitInv, RunsNextInv, PTL DEF RunsSpec

(* Workflow runs are scheduler tasks: every behaviour of this module is a   *)
(* behaviour of the scheduler.                                              *)
THEOREM RunsUseScheduler == RunsSpec => Spec
<1>1. RunsInit => Init
  BY DEF RunsInit
<1>. QED
  BY <1>1, StepsOfScheduler, PTL DEF RunsSpec, Spec

(* The state of runs and claims has its type. *)
THEOREM RunsTypeCorrect == RunsSpec => []RunsTypeOK
<1>. QED
  BY RunsInductive, PTL DEF RInv

(* At most one run of a workflow is queued or running. *)
THEOREM OneRunEach == RunsSpec => []OneRunPerWorkflow
<1>. QED
  BY RunsInductive, PTL DEF RInv

(* No claim is leaked. *)
THEOREM ClaimsNotLeaked == RunsSpec => []ClaimsAreOwned
<1>. QED
  BY RunsInductive, PTL DEF RInv

(* The user is told at most once, and only of a run that is over. *)
THEOREM ToldAtMostOnce == RunsSpec => []ToldOnce
<1>1. RInv => ToldOnce
  <2>. SUFFICES ASSUME RInv, NEW t \in Task
                PROVE  Len(told[t]) <= 1 /\ (told[t] # <<>> => ~Live(t))
    BY DEF ToldOnce
  <2>1. CASE told[t] = <<>>
    BY <2>1
  <2>2. CASE told[t] # <<>>
    <3>1. Len(told[t]) = 1
      BY <2>2 DEF RInv, Reports, ReportsOf
    <3>2. ~Live(t)
      BY <2>2 DEF RInv, Reports, ReportsOf, Live
    <3>. QED
      BY <3>1, <3>2
  <2>. QED
    BY <2>1, <2>2
<1>. QED
  BY <1>1, RunsInductive, PTL

(* A completed run's notice and its history row agree. *)
THEOREM NoticeIsHistory == RunsSpec => []NoticeMatchesHistory
<1>1. RInv => NoticeMatchesHistory
  BY DEF RInv, Reports, ReportsOf, NoticeMatchesHistory
<1>. QED
  BY <1>1, RunsInductive, PTL
=============================================================================
