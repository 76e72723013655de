------------------------- MODULE BackgroundScheduler -------------------------
(* The process-wide worker that runs background agent tasks one at a time:  *)
(* services/background_agent_task/scheduler.rs (queue, worker loop, cancel) *)
(* and runner.rs (one dispatched run).  A task is a run the application     *)
(* submits once: a scheduled workflow, whose cancellation key is its slug,  *)
(* or a memory task, which has no key.                                      *)
(*                                                                          *)
(* Processes: the future each enqueue spawns, the worker loop, the runner   *)
(* task (and its sidecar process) each dispatch spawns, and the callers of  *)
(* cancel.  A step is what runs between two points where another process    *)
(* may run: an await, or the release of a lock.                             *)
EXTENDS Integers, Sequences, FiniteSets, QueueOps

CONSTANTS
  Task,            \* the tasks ever submitted
  NoTask,
  Key,             \* cancellation keys (workflow slugs)
  NoKey,
  KeyOf,           \* cancellation_key() of each task
  Caller,          \* concurrent callers of cancel
  MaxDepsRetries   \* MAX_DEPS_RETRIES, 5 in the code

ASSUME SchedulerAssumption ==
  /\ NoTask \notin Task
  /\ NoKey \notin Key
  /\ KeyOf \in [Task -> Key \cup {NoKey}]
  /\ MaxDepsRetries \in Nat \ {0}

VARIABLES
  fate,        \* how each task has left the scheduler, if it has
  spawned,     \* tasks whose enqueue future has not yet locked the queue
  queue,       \* SchedulerInner.queue
  attempts,    \* QueuedTask.deps_attempts
  permit,      \* the permit notify_one leaves in SchedulerInner.notify
  appState,    \* app.manage(AppState) has run
  pc,          \* where the worker loop is
  cur,         \* the task the worker loop holds
  cancellable, \* SchedulerInner.cancellable: whose sender each key maps to
  signalled,   \* the current dispatch's oneshot has received its value
  outcome,     \* what select! returned for the current dispatch
  turnResult,     \* TaskOutcome.success of the current dispatch, once known
  sidecar,     \* the runner task each dispatch spawned
  cancelling   \* the key whose queued entries each caller is about to remove

workerVars == <<pc, cur, outcome, turnResult>>
queueVars  == <<spawned, queue, attempts, permit>>
cancelVars == <<cancellable, signalled, cancelling>>
vars == <<fate, appState, sidecar, workerVars, queueVars, cancelVars>>

Fates    == {"new", "pending", "done", "aborted", "dropped"}
InRun    == {"prelude", "turn", "finalize", "consume"}    \* inside runner::run
WorkerAt == {"pop", "parked", "deps", "requeue", "sleep", "unregister", "settle"}
              \cup InRun

TypeOK ==
  /\ fate \in [Task -> Fates]
  /\ spawned \subseteq Task
  /\ queue \in Seq(Task)
  /\ attempts \in [Task -> 0..MaxDepsRetries]
  /\ permit \in BOOLEAN
  /\ appState \in BOOLEAN
  /\ pc \in WorkerAt
  /\ cur \in Task \cup {NoTask}
  /\ cancellable \in [Key -> Task \cup {NoTask}]
  /\ signalled \in BOOLEAN
  /\ outcome \in {"none", "ok", "err", "cancelled"}
  /\ turnResult \in {"none", "success", "failure"}
  /\ sidecar \in [Task -> {"none", "running", "ended"}]
  /\ cancelling \in [Caller -> Key \cup {NoKey}]

Init ==
  /\ fate = [t \in Task |-> "new"]
  /\ spawned = {}
  /\ queue = <<>>
  /\ attempts = [t \in Task |-> 0]
  /\ permit = FALSE
  /\ appState = FALSE
  /\ pc = "pop"
  /\ cur = NoTask
  /\ cancellable = [k \in Key |-> NoTask]
  /\ signalled = FALSE
  /\ outcome = "none"
  /\ turnResult = "none"
  /\ sidecar = [t \in Task |-> "none"]
  /\ cancelling = [c \in Caller |-> NoKey]

-----------------------------------------------------------------------------
(* Enqueue and boot *)

(* enqueue(task): spawn a future that will push it. *)
Enqueue(t) ==
  /\ fate[t] = "new"
  /\ fate' = [fate EXCEPT ![t] = "pending"]
  /\ spawned' = spawned \cup {t}
  /\ UNCHANGED <<queue, attempts, permit, appState, sidecar, workerVars, cancelVars>>

(* Fault: the push does not call notify_one. *)
FaultPushSilently(t) ==
  /\ t \in spawned
  /\ spawned' = spawned \ {t}
  /\ queue' = Append(queue, t)
  /\ attempts' = [attempts EXCEPT ![t] = 0]
  /\ UNCHANGED <<fate, permit, appState, sidecar, workerVars, cancelVars>>

(* The spawned future: push_back under the queue lock, then notify_one. *)
Push(t) ==
  /\ t \in spawned
  /\ spawned' = spawned \ {t}
  /\ queue' = Append(queue, t)
  /\ attempts' = [attempts EXCEPT ![t] = 0]
  /\ permit' = TRUE
  /\ UNCHANGED <<fate, appState, sidecar, workerVars, cancelVars>>

(* The worker is started before setup calls app.manage(AppState). *)
ManageAppState ==
  /\ ~appState
  /\ appState' = TRUE
  /\ UNCHANGED <<fate, sidecar, workerVars, queueVars, cancelVars>>

-----------------------------------------------------------------------------
(* The worker loop, outside runner::run *)

(* Leave the current task and go round the loop again. *)
NextTask == /\ cur' = NoTask
            /\ pc' = "pop"
            /\ outcome' = "none"
            /\ turnResult' = "none"

Park ==
  /\ pc = "pop" /\ queue = <<>>
  /\ pc' = "parked"
  /\ UNCHANGED <<fate, appState, sidecar, cur, outcome, turnResult, queueVars, cancelVars>>

Unpark ==
  /\ pc = "parked" /\ permit
  /\ permit' = FALSE
  /\ pc' = "pop"
  /\ UNCHANGED <<fate, appState, sidecar, cur, outcome, turnResult,
                 spawned, queue, attempts, cancelVars>>

Pop ==
  /\ pc = "pop" /\ queue # <<>>
  /\ cur' = Head(queue)
  /\ queue' = Tail(queue)
  /\ pc' = "deps"
  /\ UNCHANGED <<fate, appState, sidecar, outcome, turnResult,
                 spawned, attempts, permit, cancelVars>>

(* No AppState yet: the task is dropped and its hook is not called. *)
SkipNoAppState ==
  /\ pc = "deps" /\ ~appState
  /\ fate' = [fate EXCEPT ![cur] = "dropped"]
  /\ NextTask
  /\ UNCHANGED <<appState, sidecar, queueVars, cancelVars>>

(* TaskDeps::try_from_state fails for the last time it may. *)
DepsAbandon ==
  /\ pc = "deps" /\ appState
  /\ attempts[cur] + 1 >= MaxDepsRetries
  /\ attempts' = [attempts EXCEPT ![cur] = @ + 1]
  /\ fate' = [fate EXCEPT ![cur] = "aborted"]
  /\ NextTask
  /\ UNCHANGED <<appState, sidecar, spawned, queue, permit, cancelVars>>

(* It fails and will be tried again, once the queue lock is taken ... *)
DepsRetry ==
  /\ pc = "deps" /\ appState
  /\ attempts[cur] + 1 < MaxDepsRetries
  /\ attempts' = [attempts EXCEPT ![cur] = @ + 1]
  /\ pc' = "requeue"
  /\ UNCHANGED <<fate, appState, sidecar, cur, outcome, turnResult,
                 spawned, queue, permit, cancelVars>>

(* Fault: the task is put back at the end of the queue. *)
FaultPushBack ==
  /\ pc = "requeue"
  /\ queue' = Append(queue, cur)
  /\ cur' = NoTask
  /\ pc' = "sleep"
  /\ UNCHANGED <<fate, appState, sidecar, outcome, turnResult,
                 spawned, attempts, permit, cancelVars>>

(* ... to put the task back at the front, ... *)
PushFront ==
  /\ pc = "requeue"
  /\ queue' = <<cur>> \o queue
  /\ cur' = NoTask
  /\ pc' = "sleep"
  /\ UNCHANGED <<fate, appState, sidecar, outcome, turnResult,
                 spawned, attempts, permit, cancelVars>>

(* ... and the 60 s sleep is over. *)
SleepOver ==
  /\ pc = "sleep"
  /\ pc' = "pop"
  /\ UNCHANGED <<fate, appState, sidecar, cur, outcome, turnResult, queueVars, cancelVars>>

(* Dependencies are there: a task with a key registers its oneshot, and     *)
(* runner::run starts.                                                      *)
DepsReady ==
  /\ pc = "deps" /\ appState
  /\ cancellable' = [k \in Key |-> IF k = KeyOf[cur] THEN cur ELSE cancellable[k]]
  /\ signalled' = FALSE
  /\ pc' = "prelude"
  /\ UNCHANGED <<fate, appState, sidecar, cur, outcome, turnResult, queueVars, cancelling>>

(* Fault: the key stays registered. *)
FaultStayRegistered ==
  /\ pc = "unregister"
  /\ pc' = "settle"
  /\ UNCHANGED <<fate, appState, sidecar, cur, outcome, turnResult, queueVars, cancelVars>>

(* After select!: forget the key, whoever's sender it maps to. *)
Unregister ==
  /\ pc = "unregister"
  /\ cancellable' = [k \in Key |-> IF k = KeyOf[cur] THEN NoTask ELSE cancellable[k]]
  /\ pc' = "settle"
  /\ UNCHANGED <<fate, appState, sidecar, cur, outcome, turnResult, queueVars,
                 signalled, cancelling>>

(* The match on the result: a run that returned Ok has cleaned up after     *)
(* itself, any other one is told through on_dispatch_aborted.               *)
SettleDone ==
  /\ pc = "settle" /\ outcome = "ok"
  /\ fate' = [fate EXCEPT ![cur] = "done"]
  /\ NextTask
  /\ UNCHANGED <<appState, sidecar, queueVars, cancelVars>>

SettleAborted ==
  /\ pc = "settle" /\ outcome \in {"err", "cancelled"}
  /\ fate' = [fate EXCEPT ![cur] = "aborted"]
  /\ NextTask
  /\ UNCHANGED <<appState, sidecar, queueVars, cancelVars>>

-----------------------------------------------------------------------------
(* runner::run, and the task it spawns *)

(* The dispatch leaves runner::run and select! with the result r. *)
LeaveRun(r) == /\ outcome' = r
               /\ pc' = "unregister"
               /\ UNCHANGED <<fate, appState, cur, queueVars, cancelVars>>

(* Creating the thread or its first two messages fails. *)
PreludeFails ==
  /\ pc = "prelude"
  /\ LeaveRun("err")
  /\ UNCHANGED <<sidecar, turnResult>>

(* They are there: the turn is spawned as a runtime task of its own. *)
SpawnRunner ==
  /\ pc = "prelude"
  /\ sidecar' = [sidecar EXCEPT ![cur] = "running"]
  /\ pc' = "turn"
  /\ UNCHANGED <<fate, appState, cur, outcome, turnResult, queueVars, cancelVars>>

(* A turn comes to its end, whether or not anyone still waits for it. *)
SidecarEnds(t) ==
  /\ sidecar[t] = "running"
  /\ sidecar' = [sidecar EXCEPT ![t] = "ended"]
  /\ UNCHANGED <<fate, appState, workerVars, queueVars, cancelVars>>

(* Its JoinHandle is ready: the turn succeeded, failed, or was cut off. *)
TurnJoined(v) ==
  /\ pc = "turn" /\ sidecar[cur] = "ended"
  /\ turnResult' = v
  /\ pc' = "finalize"
  /\ UNCHANGED <<fate, appState, sidecar, cur, outcome, queueVars, cancelVars>>

(* Fault: the watchdog gives up on the turn but does not abort it. *)
FaultWatchdogDetaches ==
  /\ pc = "turn" /\ sidecar[cur] = "running"
  /\ turnResult' = "failure"
  /\ pc' = "finalize"
  /\ UNCHANGED <<fate, appState, sidecar, cur, outcome, queueVars, cancelVars>>

(* BACKGROUND_TASK_TIMEOUT: abort the turn and wait until it is dead. *)
Watchdog ==
  /\ pc = "turn" /\ sidecar[cur] = "running"
  /\ sidecar' = [sidecar EXCEPT ![cur] = "ended"]
  /\ turnResult' = "failure"
  /\ pc' = "finalize"
  /\ UNCHANGED <<fate, appState, cur, outcome, queueVars, cancelVars>>

(* finalize_assistant_message: its result is ignored. *)
Finalize ==
  /\ pc = "finalize"
  /\ pc' = "consume"
  /\ UNCHANGED <<fate, appState, sidecar, cur, outcome, turnResult, queueVars, cancelVars>>

(* consume_output returns; its error is only logged. *)
Consume ==
  /\ pc = "consume"
  /\ LeaveRun("ok")
  /\ UNCHANGED <<sidecar, turnResult>>

(* The other arm of select!: runner::run is dropped at the await it is in.  *)
(* Dropping a JoinHandle detaches the turn, so sidecar keeps its value.     *)
CancelArm ==
  /\ pc \in InRun /\ KeyOf[cur] # NoKey /\ signalled
  /\ LeaveRun("cancelled")
  /\ UNCHANGED <<sidecar, turnResult>>

-----------------------------------------------------------------------------
(* cancel(key) *)

(* First look: a sender in the map is taken out and used; cancel is over. *)
CancelRunning(c, k) ==
  /\ cancelling[c] = NoKey
  /\ cancellable[k] # NoTask
  /\ cancellable' = [cancellable EXCEPT ![k] = NoTask]
  /\ signalled' = TRUE
  /\ UNCHANGED <<fate, appState, sidecar, workerVars, queueVars, cancelling>>

CancelNotRunning(c, k) ==
  /\ cancelling[c] = NoKey
  /\ cancellable[k] = NoTask
  /\ cancelling' = [cancelling EXCEPT ![c] = k]
  /\ UNCHANGED <<fate, appState, sidecar, workerVars, queueVars, cancellable, signalled>>

QueuedTasks    == ToSet(queue)
QueuedWith(k)  == {t \in QueuedTasks : KeyOf[t] = k}

(* Fault: the matching tasks are told they are cancelled but stay queued. *)
FaultCancelKeepsQueued(c) ==
  /\ cancelling[c] # NoKey
  /\ fate' = [t \in Task |-> IF t \in QueuedWith(cancelling[c]) THEN "aborted" ELSE fate[t]]
  /\ cancelling' = [cancelling EXCEPT ![c] = NoKey]
  /\ UNCHANGED <<appState, sidecar, workerVars, queueVars, cancellable, signalled>>

(* Second look, once the queue lock is free: take the queued tasks with the *)
(* key out and call their hooks, or answer false when there is none.        *)
CancelQueued(c) ==
  /\ cancelling[c] # NoKey
  /\ queue' \in Retained(queue, QueuedWith(cancelling[c]))
  /\ fate' = [t \in Task |-> IF t \in QueuedWith(cancelling[c]) THEN "aborted" ELSE fate[t]]
  /\ cancelling' = [cancelling EXCEPT ![c] = NoKey]
  /\ UNCHANGED <<appState, sidecar, workerVars, spawned, attempts, permit,
                 cancellable, signalled>>

-----------------------------------------------------------------------------
Dispatch == Park \/ Unpark \/ Pop \/ SkipNoAppState \/ DepsAbandon \/ DepsRetry
              \/ PushFront \/ SleepOver \/ DepsReady

Run == \/ PreludeFails \/ SpawnRunner
       \/ \E v \in {"success", "failure"} : TurnJoined(v)
       \/ Finalize \/ Consume \/ CancelArm
       \/ Unregister \/ SettleDone \/ SettleAborted

Cancel == \E c \in Caller : \/ \E k \in Key : CancelRunning(c, k) \/ CancelNotRunning(c, k)
                            \/ CancelQueued(c)

Next == \/ \E t \in Task : Enqueue(t) \/ Push(t) \/ SidecarEnds(t)
        \/ ManageAppState
        \/ Dispatch \/ Run \/ Watchdog
        \/ Cancel

(* The runtime polls every ready future: the spawned pushes and the worker  *)
(* loop.  The watchdog is a timer.  Nothing makes a sidecar end, a caller   *)
(* cancel or a task arrive.                                                 *)
Fairness == /\ \A t \in Task : WF_vars(Push(t))
            /\ WF_vars(Dispatch) /\ WF_vars(Run) /\ WF_vars(Watchdog)
            /\ WF_vars(ManageAppState)

Spec     == Init /\ [][Next]_vars
FairSpec == Spec /\ Fairness

-----------------------------------------------------------------------------
(* Properties *)

(* No task is lost, duplicated or left behind: a pending task is in exactly *)
(* one of the spawned pushes, the queue (once) and the worker's hands, and  *)
(* a task that has left is in none of them.                                 *)
OnePlace ==
  /\ IsInjective(queue)
  /\ spawned \cap QueuedTasks = {}
  /\ cur \notin spawned \cup QueuedTasks
  /\ \A t \in Task : fate[t] = "pending" <=> t \in spawned \cup QueuedTasks \cup {cur}

(* The worker never sleeps on a queue that holds a task: each push leaves a *)
(* permit, also one made between the worker's empty pop and its notified(). *)
NoLostWakeup == pc = "parked" /\ queue # <<>> => permit

(* A sender in the map belongs to the dispatch in progress, so that a       *)
(* cancel never kills the run of another task.                              *)
SignalsCurrentRun ==
  \A k \in Key : cancellable[k] # NoTask =>
    /\ cancellable[k] = cur /\ KeyOf[cur] = k
    /\ pc \in InRun \cup {"unregister"}

(* A turn outlives its dispatch only when the dispatch was cancelled: the   *)
(* watchdog and the error paths leave nothing running.                      *)
OrphansAreCancelled ==
  \A t \in Task : sidecar[t] = "running" =>
    \/ t = cur /\ (pc = "turn" \/ outcome = "cancelled")
    \/ fate[t] = "aborted"

(* A task bounced off unready dependencies is tried at most                 *)
(* MAX_DEPS_RETRIES times, and one that is still queued may be tried again. *)
RetriesBounded ==
  \A t \in Task : attempts[t] = MaxDepsRetries => fate[t] = "aborted"

(* What the rest of the application sees.  A task whose dependencies are    *)
(* being resolved, or that waits to be put back, still heads the line: a    *)
(* retry never lets a later task overtake it.                               *)
Queue == INSTANCE SerialQueue WITH
           joined  <- {t \in Task \ spawned : fate[t] # "new"},
           line    <- IF pc \in {"deps", "requeue"} THEN <<cur>> \o queue ELSE queue,
           serving <- IF pc \in InRun \cup {"unregister", "settle"} THEN cur ELSE NoTask

(* The scheduler is a serial queue: tasks are served in the order in which  *)
(* their pushes got the lock, one at a time, and none blocks the others for *)
(* ever: an unready head is given up after its retries, a silent turn is    *)
(* cut off by the watchdog.                                                 *)
IsSerialQueue == Queue!Spec
=============================================================================
