---------------------------- MODULE WorkflowRuns ----------------------------
(* Runs of scheduled workflows on top of the background scheduler:          *)
(* services/scheduled_workflows/{ticker,task,notify}.rs and the claims and  *)
(* run rows of store.rs.  A run is a scheduler task whose cancellation key  *)
(* is the workflow's slug.  The slug is claimed before the run is enqueued, *)
(* by the ticker or by a "run now" command, and released by the run's own   *)
(* hooks, which also write its history row and tell the user how it ended.  *)
EXTENDS BackgroundScheduler

CONSTANTS
  Starter,   \* the ticker and the concurrent callers of run_now
  MaxTasks   \* bound on how many of the tasks are enqueued

VARIABLES
  claims,    \* WorkflowStore.pending_slugs
  starting,  \* the slug each starter has claimed and not yet enqueued
  recording, \* consume_output's record_run: not begun, the row on its way, or over
  reporting, \* the future on_dispatch_aborted spawns: its next step
  row,       \* the status in workflow_runs of each run
  told       \* the workflow:completed events of each run, success or failure

runVars == <<claims, starting, recording, reporting, row, told>>
allVars == <<vars, runVars>>

Status     == {"success", "failure"}
Workflow   == {t \in Task : KeyOf[t] # NoKey}

RunsTypeOK ==
  /\ TypeOK
  /\ claims \subseteq Key
  /\ starting \in [Starter -> Key \cup {NoKey}]
  /\ recording \in [Task -> {"none", "over"} \cup Status]
  /\ reporting \in [Task -> {"none", "row", "event", "over"}]
  /\ row \in [Task -> {"none"} \cup Status]
  /\ told \in [Task -> Seq(Status)]

RunsInit ==
  /\ Init
  /\ claims = {}
  /\ starting = [s \in Starter |-> NoKey]
  /\ recording = [t \in Task |-> "none"]
  /\ reporting = [t \in Task |-> "none"]
  /\ row = [t \in Task |-> "none"]
  /\ told = [t \in Task |-> <<>>]

-----------------------------------------------------------------------------
(* Starting a run *)

(* Fault: the result of inserting the slug is not looked at. *)
FaultClaimUnchecked(s, k) ==
  /\ starting[s] = NoKey
  /\ claims' = claims \cup {k}
  /\ starting' = [starting EXCEPT ![s] = k]
  /\ UNCHANGED <<vars, recording, reporting, row, told>>

(* try_claim_slug succeeds.  A starter that finds the slug claimed changes  *)
(* nothing: the ticker skips the entry, run_now answers already-inflight.   *)
Claim(s, k) ==
  /\ starting[s] = NoKey
  /\ k \notin claims
  /\ claims' = claims \cup {k}
  /\ starting' = [starting EXCEPT ![s] = k]
  /\ UNCHANGED <<vars, recording, reporting, row, told>>

(* The definition has disappeared since: give the claim back. *)
DefinitionMissing(s) ==
  /\ starting[s] # NoKey
  /\ claims' = claims \ {starting[s]}
  /\ starting' = [starting EXCEPT ![s] = NoKey]
  /\ UNCHANGED <<vars, recording, reporting, row, told>>

Room == Cardinality({t \in Task : fate[t] # "new"}) < MaxTasks

(* The definition is loaded: enqueue a new run. *)
DispatchRun(s, t) ==
  /\ t \in Workflow /\ starting[s] = KeyOf[t] /\ Room
  /\ Enqueue(t)
  /\ starting' = [starting EXCEPT ![s] = NoKey]
  /\ UNCHANGED <<claims, recording, reporting, row, told>>

(* A memory task needs no claim. *)
EnqueueMemoryTask(t) ==
  /\ t \notin Workflow /\ Room
  /\ Enqueue(t)
  /\ UNCHANGED runVars

-----------------------------------------------------------------------------
(* on_dispatch_aborted *)

(* Fault: only the slug is released. *)
FaultAbortSilently(A) ==
  /\ claims' = claims \ {KeyOf[t] : t \in A}
  /\ UNCHANGED <<starting, recording, reporting, row, told>>

(* Called for the tasks of A: release the slug at once, and spawn a future  *)
(* that records a failure and then tells the user.                          *)
AbortHook(A) ==
  /\ claims' = claims \ {KeyOf[t] : t \in A}
  /\ reporting' = [t \in Task |-> IF t \in A \cap Workflow THEN "row" ELSE reporting[t]]
  /\ UNCHANGED <<starting, recording, row, told>>

(* Fault: the hook is also called after a run that returned Ok. *)
FaultAbortAlways == (SettleDone \/ SettleAborted) /\ AbortHook({cur})

AbandonRun == DepsAbandon /\ AbortHook({cur})
AbortRun   == SettleAborted /\ AbortHook({cur})
CancelRun(c) == CancelQueued(c) /\ AbortHook(QueuedWith(cancelling[c]))

(* record_run inserts the row of a run with status v, unless the run has    *)
(* one (the run id is the primary key) or the database fails.               *)
RecordRun(t, v) ==
  \/ row[t] = "none" /\ row' = [row EXCEPT ![t] = v]
  \/ UNCHANGED row

ReportRow(t) ==
  /\ reporting[t] = "row"
  /\ RecordRun(t, "failure")
  /\ reporting' = [reporting EXCEPT ![t] = "event"]
  /\ UNCHANGED <<vars, claims, starting, recording, told>>

ReportEvent(t) ==
  /\ reporting[t] = "event"
  /\ told' = [told EXCEPT ![t] = Append(@, "failure")]
  /\ reporting' = [reporting EXCEPT ![t] = "over"]
  /\ UNCHANGED <<vars, claims, starting, recording, row>>

-----------------------------------------------------------------------------
(* consume_output *)

(* record_run is handed to a blocking thread, and awaited there. *)
BeginRecord ==
  /\ pc = "consume" /\ cur \in Workflow
  /\ recording[cur] = "none"
  /\ recording' = [recording EXCEPT ![cur] = turnResult]
  /\ UNCHANGED <<vars, claims, starting, reporting, row, told>>

(* The blocking thread runs to its end also when nobody awaits it any more. *)
CommitRecord(t) ==
  /\ recording[t] \in Status
  /\ RecordRun(t, recording[t])
  /\ recording' = [recording EXCEPT ![t] = "over"]
  /\ UNCHANGED <<vars, claims, starting, reporting, told>>

(* Faults: a row that could not be written ends consume_output early; the   *)
(* run is always announced as a success; the worker's own result is told    *)
(* instead of the run's.                                                    *)
FaultFinishNeedsRow ==
  /\ Consume
  /\ cur \in Workflow => recording[cur] = "over"
  /\ row[cur] # "none" => claims' = claims \ {KeyOf[cur]}
  /\ row[cur] = "none" => UNCHANGED claims
  /\ told' = [t \in Task |-> IF t = cur /\ t \in Workflow THEN Append(told[t], turnResult)
                             ELSE told[t]]
  /\ UNCHANGED <<starting, recording, reporting, row>>

FaultTellSuccess ==
  /\ Consume
  /\ cur \in Workflow => recording[cur] = "over"
  /\ claims' = claims \ {KeyOf[cur]}
  /\ told' = [t \in Task |-> IF t = cur /\ t \in Workflow THEN Append(told[t], "success")
                             ELSE told[t]]
  /\ UNCHANGED <<starting, recording, reporting, row>>

(* Back in consume_output: release the slug and tell the user, whatever     *)
(* became of the row.                                                       *)
FinishRun ==
  /\ Consume
  /\ cur \in Workflow => recording[cur] = "over"
  /\ claims' = claims \ {KeyOf[cur]}
  /\ told' = [t \in Task |-> IF t = cur /\ t \in Workflow THEN Append(told[t], turnResult)
                             ELSE told[t]]
  /\ UNCHANGED <<starting, recording, reporting, row>>

-----------------------------------------------------------------------------
(* Every other step of the scheduler leaves the workflows alone. *)
SchedulerStep ==
  /\ \/ \E t \in Task : Push(t) \/ SidecarEnds(t)
     \/ ManageAppState
     \/ Park \/ Unpark \/ Pop \/ SkipNoAppState \/ DepsRetry \/ PushFront
     \/ SleepOver \/ DepsReady
     \/ PreludeFails \/ SpawnRunner
     \/ \E v \in Status : TurnJoined(v)
     \/ Watchdog \/ Finalize \/ CancelArm \/ Unregister \/ SettleDone
     \/ \E c \in Caller, k \in Key : CancelRunning(c, k) \/ CancelNotRunning(c, k)
  /\ UNCHANGED runVars

RunsNext ==
  \/ \E s \in Starter : \/ \E k \in Key : Claim(s, k)
                        \/ DefinitionMissing(s)
                        \/ \E t \in Task : DispatchRun(s, t)
  \/ \E t \in Task : \/ EnqueueMemoryTask(t)
                     \/ ReportRow(t) \/ ReportEvent(t) \/ CommitRecord(t)
  \/ AbandonRun \/ AbortRun \/ BeginRecord \/ FinishRun
  \/ \E c \in Caller : CancelRun(c)
  \/ SchedulerStep

(* The runtime polls the worker and the spawned futures, blocking threads   *)
(* come to their end, and a starter between claim and enqueue has nothing   *)
(* to wait for.  A sidecar need not end.                                    *)
RunsFairness ==
  /\ \A t \in Task : /\ WF_allVars(Push(t) /\ UNCHANGED runVars)
                     /\ WF_allVars(CommitRecord(t))
                     /\ WF_allVars(ReportRow(t)) /\ WF_allVars(ReportEvent(t))
  /\ \A s \in Starter :
       WF_allVars(DefinitionMissing(s) \/ \E t \in Task : DispatchRun(s, t))
  /\ WF_allVars(ManageAppState /\ UNCHANGED runVars)
  /\ WF_allVars(Watchdog /\ UNCHANGED runVars)
  /\ WF_allVars(\/ Dispatch /\ AbandonRun
                \/ (Dispatch \/ Run) /\ SchedulerStep
                \/ AbortRun \/ BeginRecord \/ FinishRun)

RunsSpec     == RunsInit /\ [][RunsNext]_allVars
RunsFairSpec == RunsSpec /\ RunsFairness

-----------------------------------------------------------------------------
(* Properties *)

(* A run that still counts against its slug: enqueued, and its hooks have   *)
(* not released the slug.                                                   *)
Live(t) == t \in Workflow /\ fate[t] = "pending" /\ ~(t = cur /\ outcome = "ok")

(* At most one run per workflow is queued or running, and nobody starts     *)
(* another one meanwhile, although claims are released from four places     *)
(* (two hooks, the cancel of a queued run, a vanished definition) and       *)
(* cancels, timeouts and retries may come in any order.                     *)
OneRunPerWorkflow ==
  /\ \A t \in Task : Live(t) => KeyOf[t] \in claims
  /\ \A t, u \in Task : Live(t) /\ Live(u) /\ KeyOf[t] = KeyOf[u] => t = u
  /\ \A s \in Starter : starting[s] # NoKey =>
       /\ starting[s] \in claims
       /\ \A t \in Task : Live(t) => KeyOf[t] # starting[s]
       /\ \A r \in Starter : starting[r] = starting[s] => r = s

(* A claim is not leaked: while a slug is claimed somebody will release it. *)
(* The one exception is a run dropped because AppState was not there yet.   *)
ClaimsAreOwned ==
  \A k \in claims : \/ \E s \in Starter : starting[s] = k
                    \/ \E t \in Task : KeyOf[t] = k /\ (Live(t) \/ fate[t] = "dropped")

(* The user is told at most once how a run ended, and never before the run  *)
(* is over.                                                                 *)
ToldOnce ==
  \A t \in Task : /\ Len(told[t]) <= 1
                  /\ told[t] # <<>> => ~Live(t)

(* What the user is told of a run that was not cut short is what its        *)
(* history row, if it could be written, says.                               *)
NoticeMatchesHistory ==
  \A t \in Task : fate[t] = "done" /\ told[t] # <<>> => row[t] \in {"none", told[t][1]}

(* Every run that is enqueued comes to an end its user hears of: no path    *)
(* through retries, timeouts, errors and cancels leaves the spinner on.     *)
EveryRunIsReported ==
  \A t \in Task : Live(t) ~> told[t] # <<>> \/ fate[t] = "dropped"
=============================================================================
