# Corivo Desktop: TLA+ specifications

Corivo Desktop records what is on the user's screen, keeps it in a local
database, and runs agents over it: in a chat, on a schedule, and in the
background to learn from conversations. Its core is a Rust (Tauri) process that
drives two kinds of children: a native capture helper and agent sidecars. The
specifications here are about the parts of that process whose correctness
depends on the order of events: the background scheduler, the runs and schedules
of workflows, the session learner, a user's turns with the agent, the capture
pipeline from a change on the screen to the frame that is stored and later
removed, the client of the capture helper, and the accounts and tokens that the
configuration keeps.

Paths below are relative to `src/apps/desktop/src-tauri/src/` unless they begin
with `src/`.

Contents: 1 the system, 2 the modules, 3 the runs, 4 the proofs, 5 what was met
on the way, 6 what is left out, 7 plan.

## 1. The system

### Components

| Component | Code | State | Operations | What makes it correct |
|---|---|---|---|---|
| Background scheduler and runner | `services/background_agent_task/` | queue, `notify` permit, `cancellable` map of oneshot senders; the worker's current task; detached turns | `enqueue`, `cancel`, worker loop, `runner::run`, watchdog | no task is lost or run twice, order of arrival, one run at a time, a cancel hits the right run, every task leaves |
| Workflow runs | `services/scheduled_workflows/{task,store,ticker,notify}.rs`, `commands/workflows.rs` | `pending_slugs` (claims), rows of `workflow_runs`, events | claim, enqueue, `consume_output`, `on_dispatch_aborted`, cancel | one run per workflow, no leaked claim, one notice that agrees with the history, every run reported |
| Triggers (partly) | `services/scheduled_workflows/trigger.rs` | none | `validate`, `next_after` | the next firing is the calendar's next occurrence, strictly later, across clock changes |
| Schedules and ticker | `services/scheduled_workflows/{store,ticker}.rs`, `commands/workflows.rs`, `services/exec_agent/schedule_task_handler.rs` | rows of `workflow_schedules`, `WORKFLOW.md` files, claims | save, update, toggle, delete, `tick_once` | `next_run_at` belongs to the row's trigger, one catch-up run after a downtime, no due row forgotten |
| Session learner | `services/session_learner/` | `in_flight` marks, checkpoints | idle tick, learner run, rerun by hand | no thread queued twice, no message passed by without a reason |
| Capture pipeline | `services/capture_pipeline/{mod,coordinator}.rs`, `commands/capture.rs` | `running`, session, bus, sink, observer, workers, pause flag, pause state, pause timer, the pause's record | start, stop, pause, resume, timer, boot | stopped or paused means nothing is left running; running means everything is; a pause ends, and survives a restart |
| Capture event sources, debouncing | `services/capture_pipeline/{coordinator,debouncer,event_bus}.rs`, `event_sources/`, `services/foreground_monitor/` | the monitor's last application, the observer's target, bus, pending job, job queue | publish, merge, fire, run; subscribe and unsubscribe at the helper | a change leads to a snapshot, a burst to one; the observer is on the application in front |
| Capture client | `services/capture_client/` | writer's queue, `in_flight` router, helper process | start, call with deadline, reader, writer, crash | each call ends once, with its own answer or an error |
| Snapshot tick, storage (partly) | `services/capture_pipeline/mod.rs`, `dedup.rs`, `services/capture_store.rs`, `db/repos/frames.rs` | session index in memory and on disk, directories, files, rows | tick, save, start and end of a session | each screenshot is listed and is one frame's |
| Quick ask (partly) | `services/capture_pipeline/mod.rs`, `services/quick_ask_window.rs` | a cached session | phase A, phase B | its frames do not collide with the tick's |
| Retention, data removal (partly) | `services/retention/`, `commands/settings.rs` | none of their own | daily round; delete a range, screenshots, everything | what is removed is gone, what is written to is not removed |
| Turns of the exec agent (partly) | `commands/exec_agent.rs`, `services/exec_agent/`, the two windows' streaming store | `pending_turns`, sidecar, the message row, a window's buffer | send, start, pump, cancel, finish, sweep at boot | a stop reaches the turn it was meant for and ends it; the row gets its final state |
| Permission prompts, MCP bridge (partly) | `services/exec_agent/mcp_bridge.rs` | pending prompts | ask, reply, drop | a prompt holds its turn and is gone with it |
| Connectors (partly) | `services/connector/`, `commands/connectors.rs` | accounts, bindings, a lock per account | connect, bind, disconnect, access token | a binding has an account; a disconnected account stays away |
| Credentials of a turn (partly) | `services/exec_agent/runtime.rs`, `services/chatgpt_auth/` | the ChatGPT session | login, logout, refresh | a stored token is one the provider takes |
| Configuration (partly) | `services/config_service.rs` | the record in memory and its file | `get`, `update` | no update is lost, memory and file agree |
| Boot (partly) | `lib.rs` | | restore the pause, start capture, `manage`, sweep | what a restart finds is put in order |
| Persona, privacy filter, database, memory and recall, cloud, models, billing, skills, windows, user interface, agent sidecar, MCP server, helpers (not modelled) | see `PROJECT.json` | | | |

`PROJECT.json` lists every component with its sources, its status and the reason
where one is not modelled or only partly, and the hazards of the code with the
line where each bites and the properties that watch it.

### How they interact

- `lib.rs` starts the worker of the background scheduler before it calls
  `app.manage(AppState)`, then starts the ticker, the idle hook, the persona loop
  and, unless a persisted pause is in force, the capture pipeline.
- The ticker, `run_now`, the idle hook, memory commands and the persona loop all
  enqueue tasks into the one scheduler. A task calls back into its component
  through `consume_output` (the run returned) and `on_dispatch_aborted` (it did
  not).
- `cancel(slug)` comes from the user interface, looks first at the run in
  progress, then at the queue.
- Workflows share three kinds of state: rows in SQLite, manifest files, and claims
  in memory; each has its own lock and none covers two of them.
- The capture client spawns the helper, writes requests to its stdin and reads
  answers and events from its stdout. Events go out on broadcast channels, of
  which the foreground monitor and the accessibility observer have a receiver
  each; the observer calls back through the client (`ax.subscribe`).
- The capture pipeline's sources (foreground monitor, observer,
  `request_snapshot`) publish on a bus that a coordinator turns into jobs for a
  runner, which takes the snapshots; a pause stops the pipeline and spawns a timer
  that resumes it. A tick and a quick ask write frames into sessions of their own
  in one store; retention and the commands of the settings take them out.
- A turn goes from a window (which keeps the text that streams in) to a command
  (which owns the sidecar) and back as events to every window; a prompt of the
  sidecar comes over a socket and waits for the user.
- Accounts, the ChatGPT session and the end of a pause are in one configuration
  record, which each writer reads, changes and replaces as a whole.

### What is hard

Futures are dropped at any await by a cancel, while a turn or a blocking thread
they started goes on. Locks are held for one statement at a time, so a command
is a list of steps that another command may interleave. State read before an
await (a checkpoint, `was_running`, a row's trigger, the configuration) is used
after it. Events come from another process, whose idea of what is in front is
not this one's. A crash between two steps leaves the persisted one. Clock
changes skip or repeat the hour a trigger names.

## 2. The modules

| Module | Models | Extends |
|---|---|---|
| `QueueOps` | `VecDeque::retain`, by what it returns | |
| `SerialQueue` | the abstract promise of the scheduler | `QueueOps` |
| `BackgroundScheduler` | `scheduler.rs`, `runner.rs` | `QueueOps`; implements `SerialQueue` |
| `WorkflowRuns` | runs on top of the scheduler | `BackgroundScheduler` |
| `Triggers` | `trigger.rs` | |
| `TriggerFirings` | the chain of firings of a trigger | `Triggers` |
| `WorkflowSchedules` | rows, manifests, ticker, commands | `Triggers` |
| `SessionLearner` | `idle.rs`, `task.rs` of the learner | |
| `CapturePipeline` | the commands, the pause, the boot, the workers of each start | |
| `SnapshotEvents` | from a change on the screen to the start of a snapshot | |
| `RpcCalls` | the abstract promise of the capture client | |
| `CaptureClient` | router, writer, reader, calls, the helper and the pipes | implements `RpcCalls` |
| `CaptureStorage` | sessions, screenshots and rows, what writes and what removes them | |
| `AgentTurns` | a user's turns, from window to row | |
| `Accounts` | the configuration, the connectors' accounts, the ChatGPT session | |
| `WorkflowRuns_proofs` | theorems about `WorkflowRuns`, `BackgroundScheduler` and its refinement of `SerialQueue` | `WorkflowRuns` |
| `WorkflowSchedules_proofs` | theorems about `WorkflowSchedules`, `Triggers`, `TriggerFirings` | these |
| `ChatThreads_proofs` | theorems about `AgentTurns` and `SessionLearner`, the two that write to a chat thread | these |
| `CapturePipeline_proofs`, `SnapshotEvents_proofs`, `CaptureClient_proofs`, `CaptureStorage_proofs`, `Accounts_proofs` | theorems | the module they are named after |
| `MC...` | instances for TLC | the module they are named after |

A definition named `Fault...` is a plausible mistake in the definition that
follows it (a guard dropped, an off-by-one, a forgotten reset). No specification
uses it; it is there so that each property can be shown to fail when the code is
wrong in that way. `PROJECT.json` pairs each property with one.

### BackgroundScheduler

A step is what runs between two awaits or lock releases. The worker loop is
`pc`: `pop` (lock, `pop_front`), `parked` (in `notified().await`), `deps`
(`TaskDeps::try_from_state`), `requeue` and `sleep` (a retry), `prelude`, `turn`,
`finalize`, `consume` (inside `runner::run`), `unregister` and `settle` (after
`select!`). `permit` is the one permit `Notify` keeps. `sidecar[t]` is the turn
that a dispatch spawns as a runtime task of its own: `CancelArm` drops
`runner::run` and leaves it running, `Watchdog` aborts it and waits. `cancel` is
two steps, because the map and the queue have a lock each. A task that is bounced
off unready dependencies goes back to the front, after 60 seconds that are one
step, at most `MaxDepsRetries` times. What a run writes into the chat is left
out; that finalizing and consuming may fail changes nothing in the scheduler, as
their errors are only logged.

`SerialQueue` is what the other components rely on: one line, at most one task
served at a time, the head is served or dropped, nobody is blocked for ever.
`IsSerialQueue` is the refinement: the line is the queue, with the task in the
worker's hands in front while it waits for its dependencies, and the task being
served is the one inside `runner::run` or being settled. A retry is then a
stutter, which is what "a retry lets nobody overtake" means.

### WorkflowRuns

`claims` is `pending_slugs`; `starting` is the gap between a starter's claim and
its enqueue, where the definition may turn out to be missing. `consume_output`
is `BeginRecord`, `CommitRecord`, `FinishRun`: the insert runs on a blocking
thread, so that a cancel in between leaves it running (`recording`).
`on_dispatch_aborted` is `AbortHook`, in the same step as the scheduler's own
transition, and a spawned future of two steps (`reporting`). `RecordRun` may
fail, and finds the run's row already there at most once, the run id being the
primary key. Every other step of the scheduler is taken over unchanged by
`SchedulerStep`.

### Triggers, TriggerFirings

An hour stands for the code's minute, and a day has `DayLen` of them. The zone is
a UTC offset for each instant: where it rises, local hours are skipped, where it
falls, they are repeated; `LocalToUtc` takes the earlier of two, as
`local_hm_to_utc` does. `NextDaily` scans three days, `NextWeekly` eight. Cron
expressions are the `cron` crate's. `TriggerFirings` follows one trigger from
firing to firing (`last`) and compares it with the calendar itself, the set of all
instants at which its hour is shown on a day it is due.

### WorkflowSchedules

One step per file operation and per transaction. `fs::write` is two steps
(truncated, filled), each command carries what it has read so far, an upsert
carries the instant it was called at, as `upsert_schedule` reads the clock before
its transaction. A pass of the ticker is `Pull` (one transaction that selects the
due rows, re-arms them and disables the one-shot ones), then one entry at a time:
claimed already, dispatched, or without a manifest, which disables the schedule
by the same read and write as the command. `Crash` keeps rows and manifests and
forgets claims, commands and the pass. Runs appear by their effect on the row and
on the claim, which is all the schedule sees of `WorkflowRuns`.

### SessionLearner

Messages of a thread are numbered. The hook's tick is one step per query: the
newest message, then the checkpoint, then the mark and the enqueue; then the
cleanup of the marks, again in two queries. A run reads its thread during the
turn, stores what it learned (`Store`), asks for the newest message once more and
writes that as the checkpoint. Where a note or the summary cannot be written the
error is logged and the checkpoint advances all the same; `unsaved` (history) are the
messages of such runs. A failing query for a checkpoint reads like no checkpoint,
which is what `.ok().flatten()` makes of it (`task.rs:283`). The scheduler appears
as the line and the one run that `SerialQueue` promises, with a head that may be
given up. A turn is assumed to read its thread before it answers; an agent that
answers without reading is not modelled.

### CapturePipeline

A command is a list of steps, each between two awaits or on one lock; `todo` is
what each party (a caller, the boot, or the timer task of a pause) still has to
do. `start` asks for the pause once, takes `running` by a swap, then sets up
session, bus, sink, observer and tasks, in that order; `stop` takes them down, in
its order; `pause_until` runs a stop inside, then replaces the timer, and the
command records the pause's end in the configuration; `resume_internal` takes the
pause state, lifts the flag, clears the timer and may start. Errors of
`create_session` and `end_session` end the command where the code's `?` does. A
timer task that is aborted while it resumes dies at its next await (`Die`).
`runner` distinguishes a runner that has asked `running` from one that is
capturing, so that a stop may come in between. `Crash` keeps `kept`, the recorded
pause; the boot after it drops a pause that is over or restores it, and otherwise
starts capture.

### SnapshotEvents

`front` is the process in front, `reported` and `watch` are the helper's side,
`activations` and `notices` what it has sent. The monitor (`Dispatch`) passes over
Corivo itself, aims the observer at any other process (`target`), and publishes
unless the application is the one it saw last. Each aim is a call of its own task,
so that calls may overtake each other (`calls`, `Answer`, `CallFails`). The forwarder
(`Forward`) drops notices of a process that is not the target. A full bus drops
what it is offered. `Coordinate` hands an event to the debouncer: some become a
job at once (`senders` are the spawned sends that wait for room in the queue),
others replace the one delayed job (`timer`). `runner` goes from waiting to
having taken a job, which looks at the screen, to the tick's rest. `op` goes
through start (`OpenBus`, `Seed`, `Subscribe`) and stop (`Detach`, `SendShutdown`,
`AbortWorkers`). Two history variables serve the properties: `owed`, a change was
accepted since a snapshot last began, and `missed`, why the observer may be
elsewhere.

### CaptureClient, RpcCalls

`caller[c]` is where a call is, `rx[c]` its oneshot channel, `inFlight` and
`closed` the router, `queue` and `writing` what the writer has, `stdin` and
`stdout` the pipes, `accepted` what the helper works on. A call registers, sends
through the bounded queue (without a deadline, as in `client.rs:199`), waits until
its deadline, and takes its entry back if it expires or fails to send; a caller
may be dropped at any await, which leaves its entry. The reader dispatches
answers, ignores those without an entry, and at end of file or at a line it cannot
decode closes the router, which frees everyone. The helper is external: it answers
in any order, late, writes a line that cannot be decoded, or exits.

`RpcCalls` is the promise: a call ends once, as answered, timed out, failed or
abandoned; it is answered or times out only while the link stands, is reported as
crashed only after the link was closed, and is refused only before there is a link
or once it is damaged. In `ImplementsRpcCalls` a call counts as answered from the
dispatch of its answer on, since no deadline takes it back.

### AgentTurns

`at[t]` is where a turn is, `row[t]` its assistant message, `bucket` the windows'
streaming buffers, `heard[t]` what the turn's own window has heard of errors and of
the reason of the finish, `reason[t]` the runner's `finish_reason`, `failed` the turns whose `run_turn` returned an error, `pending` the table
of handles by thread, `permit` the signals not yet heard, `child[t]` the sidecar,
`prompts` the turns that wait for the user, `sweep` whether this boot still has to
clear streaming rows, and `wanted` (history) the turns a user meant to stop. `Stop`
looks the thread up and signals the handle it finds. `AgentEnd`, `AuthFailed`,
`EndOfOutput`, `ReadFails` and `Cancelled` are the ends of the pump; a pump with a
signal hears it before anything else. `Finish` follows once the sidecar has exited,
`Deregister` takes whatever handle the thread has out of the table, and the window
then writes the row from what it has heard, which may fail. The reason of an
`agent_end` is one that says the turn ended well or one that says it did not, with or
without an error event before it; the window stores it and decides the row's status by
the events (`Status`). Preparing a turn
(context, redaction, tools, model) is one stretch that ends well or in an error.

### CaptureStorage

`index` is the session index in memory, `saved` what the last finished save has
written to `sessions.json`, and `file` what the file is like: whole, empty between the
two halves of a save, or mixed once two saves have written over each other. `dirs` and
`files` are the disk, `rows` the table. Five processes move step by step: the job
runner's tick, a quick ask, the pipeline's session (`capture`), retention and a
user's command; `step` and `job` are where each is and with what. A writer takes
its time with the probe of the screen. If the adapters find no text it takes a
picture: `Shoot` counts it in the index, `Write` writes the file, `Flush` saves the
index with every `SaveEvery`th, and `Insert` adds the row without asking whether the
session is still there. A save holds the index for reading (`Unlocked`) and is two
steps: `Open` truncates the file, the step after it fills it (`Fill`). A tick that is
aborted while a thread inserts its row, writes its file or saves the index leaves that
in `adrift`, and it lands later (`Land`), a save without the lock. `Crash` keeps disk
and rows and, if `sessions.json` is whole, marks active sessions as aborted and saves,
as `CaptureStore::new` does; if it is not, or if the app dies in that save, `load_index`
refuses the file at the next boot and the app does not come up (`Down`). Time is
counted in captures: what is older than the last one less `KeepFor` goes.

### Accounts

`config` and `disk` are the record in memory and in its file. A writer's `get`,
its change, the save and the takeover into memory are steps of their own; where a
second writer has read the record before the first one has replaced it, the
mishap `"race"` is noted and the behaviour stops there, because what is lost then
depends on who comes last and no property is left to state (hazard
`config_service.rs:153`). A refresh of a connector's account asks the provider
under the account's lock and stores what came back; that of the ChatGPT session
has no lock. `issued` and `valid` are the provider's side: a refresh may rotate
the token and invalidates the old one, and a user may withdraw it there. `out`
(history) are the accounts the user has disconnected.

## 3. The runs

| Run | Instance | What it shows |
|---|---|---|
| `scheduler` | two runs of one workflow, a memory task, one canceller, retry limit 2 | `OnePlace`, `NoLostWakeup`, `SignalsCurrentRun`, `OrphansAreCancelled`, and the refinement `IsSerialQueue`, with its liveness |
| `workflow_runs` | two of: two runs of one workflow and a memory task; two starters, one canceller, retry limit 1 | `OneRunPerWorkflow`, `ClaimsAreOwned`, `ToldOnce`, `NoticeMatchesHistory`, `EveryRunIsReported` |
| `trigger_firings` | fifteen daily and weekly triggers from every instant of five weeks, one gap, one fold | `FiresAtFirstOccurrence`, `DailyNeverStops` |
| `schedules` | one workflow, two concurrent commands, an interval and a one-shot trigger, one restart | `NoStaleFiring`, `CatchUpOnce` |
| `schedules_live` | two workflows, one command at a time, a daily trigger, one restart | `DueIsPulled`, `PulledIsHandled` |
| `learner` | two threads with two messages and one, one trouble (failing query, rerun by hand or restart) | `NoDoubleQueue`, `SkipsAreExplained` |
| `capture` | one caller, two starts, two pauses, one overlap with a timer, failures, one restart | `StoppedIsQuiet`, `RunningIsCapturing`, `PauseIsWhole`, `PauseEnds` |
| `snapshot_events` | two processes of one application and Corivo, three changes, two starts; a bus of two, a queue of one | `AcceptedIsCarried`, `AxFollowsFront` |
| `capture_client` | three calls, a writer's queue of one, a pipe of one | `WaiterIsReachable`, `DeadHelperFreesAll`, and the refinement `ImplementsRpcCalls` |
| `storage` | two screens, one of them excluded, two sessions, two frames, one removal, one crash | `ShotsAreListed`, `ShotsAreOwn`, `RowsHaveShots`, `WritersKeepTheirSession` |
| `turns` | two turns on one thread, from the main window and from Quick Ask, one crash | `RowsSettle`, `FinishedOnce`, `HandlesAreLive`, `CancelledOnPurpose`, `StopEndsTheTurn` |
| `accounts` | two processes, two connectors of one account, the ChatGPT session, one mishap | `BoundAccountsAreKept`, `DisconnectSticks`, `StoredTokenWorks`, `DiskIsConfig` |

Type invariants are proved where a module has proofs, and are not checked by
runs of their own.

### Bounds, and why they are enough

- *Scheduler.* Two tasks with one key are needed for a cancel that hits one
  running and one queued task, or two queued ones; a third without a key shows
  that a cancel leaves others alone and that the line keeps its order. Retry limit
  2 gives a first failure that is retried and a last that is not. A cancel is two
  steps and the worker may move between them, so that one canceller interleaves
  with the worker in every way; a second would only share the map with the first.
- *Workflow runs.* `MaxTasks` = 2 bounds how many of the three tasks are enqueued:
  two runs of one workflow compete for its claim, or one run and a memory task for
  the worker. Two starters claim at once. Retry limit 1 means that a task whose
  dependencies are not there is given up at once; retries are in `scheduler`, and
  the theorems below hold of every limit. Two workflows with different slugs
  share only the worker.
- *Triggers.* Five weeks hold a whole horizon of eight days before, across and
  after each of the two clock changes; four hours a day have one hour that is
  skipped or repeated and others that are not. `Horizon` is larger than `Span` so
  that no occurrence is missing for want of instants.
- *Schedules.* Two commands and the ticker on one row make every pair of a read
  and a write interleave. The clock goes to 2, so that a firing may be missed
  before a pull. Liveness needs two due rows, so that a pass has a second entry;
  `LastHour` is 3 with days of two hours, so that a daily trigger is due more than
  once.
- *Learner.* Two messages in one thread allow one to arrive during a run on the
  other; a second thread keeps the hook and the line busy. Troubles are bounded
  because each allows another run in line, as `NoDoubleQueue` counts.
- *Capture.* Two starts are a session and its successor after a stop, a pause or
  a restart; two pauses are one that replaces another. With one caller the only
  overlap is with a timer. One restart finds every recorded pause there can be.
- *Snapshot events.* Two processes of one application are what the helper cannot
  tell apart, and Corivo in front is what the monitor skips. The bus holds two
  (128 in the code), so that it is full after two events, and the theorem holds
  of every size from two. Three changes are one before, one during and one after a
  snapshot or a call; two starts let the calls of the first reach into the second.
- *Capture client.* With three calls one may hold the writer, one the queue's only
  place, and one wait for it; the pipe's one place makes the writer wait for a
  helper that does not read.
- *Storage.* Two frames are one of each writer or two of one, `SaveEvery` = 2
  leaves a count unsaved that a crash forgets (5 in the code). Two sessions are two
  saves that may overlap, one of them of an aborted tick. `KeepFor` = 0 makes
  retention take everything but the newest capture.
- *Turns.* Two turns on one thread, one per window, share the entry of the table;
  a turn on another thread would share nothing with them.
- *Accounts.* Two processes are enough for a race on a record or on a token, two
  connectors to have one bound while the other leaves. Three tokens are a first
  one and two rotations.

### Deadlock

Six runs turn the check off, because their behaviours do end:
`trigger_firings` at `Span`; `capture_client`, `turns`, `storage` and
`snapshot_events` once their bounds are used up (a dead helper, say, is not
restarted); and `accounts` also where two writers overlap. In every other run a
state without a successor would be reported as an error.

### Fairness

The runtime polls every future it has woken, so that the worker loop, the spawned
pushes and reporters, the steps of a command and the timers are weakly fair; so is
the watchdog, which is a timer. Blocking threads come to their end. The ticker's
loop never returns. Nothing is assumed of sidecars, callers, or arrivals: a turn
may hang, a user need not cancel. `FairSpec` of `WorkflowSchedules` has a fair
clock: time goes by. `TasksRun` of `CaptureClient` has the writer, the reader and
the calls' own steps; deadlines need not fire and the helper owes nothing, so that
`DeadHelperFreesAll` rests on the broken pipes alone. `Fairness` of `AgentTurns`
has the command and the windows; a sidecar exits once it has ended its turn or is
killed, and owes nothing before. `SessionLearner`, `SnapshotEvents`,
`CaptureStorage` and `Accounts` state none, as their properties are invariants.

The liveness of `IsSerialQueue` (every task is served or dropped) holds although
`SidecarEnds` is not fair, through the watchdog alone; `EveryRunIsReported`
although `RecordRun` may always fail.

### In turn and overlapping

The capture commands take no common lock. `StoppedIsQuiet`, `RunningIsCapturing`
and `PauseIsWhole` therefore speak of states at rest before any command has begun
while another was under way (`InTurn`): they are the contract of commands given in
turn, and section 5 says what overlapping ones may leave. The run goes through one
such overlap so that all steps are exercised. `SnapshotEvents` takes starts and
stops in turn.

## 4. The proofs

All of it is checked for every value of the constants, under the named
assumptions of the modules. `SchedulerAssumption`, `TriggersAssumption`,
`FiringsAssumption`, `SchedulesAssumption`, `LearnerAssumption`,
`PipelineAssumption`, `SlotsAssumption`, `EventsAssumption`, `TurnsAssumption`,
`StorageAssumption` and `AccountsAssumption` say what the constants are and nothing
of the code. `ZoneAssumption` is one about the world: a clock that is put back
across midnight shows only hours it has shown before, that is, no zone skips an hour
and then falls back into the gap. It is what makes "the first day whose instant is
later" and "the first instant" the same, as `trigger.rs` takes for granted.

Every safety invariant and every action property that a run checks has a theorem,
and so have the refinement of `RpcCalls` and the safety part of that of
`SerialQueue`.

- **Queue and scheduler** (`WorkflowRuns_proofs`, first half). The lemmas say what
  `push_back`, `push_front`, `pop_front` and `retain` do to the elements of a queue
  without duplicates; `RetainedIsSubQueue` is the longer one: a sequence that
  `Retained` offers has exactly the elements that are kept, once each. `IInv` joins
  the four safety invariants of the run with the bound on retries, the type invariant
  and `WorkerState`, which says at which points the worker holds a task and has an
  outcome. None of the parts is inductive by itself: that a cancel leaves another
  task's run alone (`SignalsCurrentRun`) rests on the worker holding the task it
  registered, which is `WorkerState`; that a task has one place (`OnePlace`) at a
  push-back rests on the worker holding it and nobody else. `NextInv` goes action
  by action, with one lemma for each group that disturbs the same conjuncts.
  Theorems: `TypeCorrect`, `NothingLost`, `WakeupsArrive`, `CancelHitsItsRun`,
  `OnlyCancelsOrphan`, `RetriesStop`.
- **Refinement of the queue** (`WorkflowRuns_proofs`). `ServesInOrder`: the
  scheduler's initial states are those of `SerialQueue`, and each of its steps is a
  step of `SerialQueue` or a stutter, by the refinement mapping of `IsSerialQueue`.
  The worker's pop is a stutter while the dependencies are asked for, as the task
  stays in front of the line; starting the prelude is the abstract `Serve`. What
  takes tasks out of the line is the longer part, as it is about their order and not only
  about which there are: a cancel that finds none leaves the queue (`RetainAll`), the task
  in front that the worker has in its hands stays in front of what is left
  (`RetainBehind`), and giving it up takes nothing else (`RetainHead`). All three come
  down to increasing lists of positions (`RetainedBy`, `IncreasingListIsIdentity`).
- **Workflow runs** (`WorkflowRuns_proofs`, second half). `StepsOfScheduler` shows that
  every step of the composition is a step of the scheduler or leaves it alone, so that
  `RunsUseScheduler` (`RunsSpec => Spec`) brings `IInv` along. `RInv` adds the
  claims, and `Reports`, which says for each run who may still write its row and
  tell of it: its own `consume_output` while it is current, the spawned reporter
  once it is aborted, and nobody when it is done. Theorems: `RunsTypeCorrect`,
  `OneRunEach`, `ClaimsNotLeaked`, `ToldAtMostOnce`, `NoticeIsHistory`. A user's
  cancel that lands between the commit of a success row and the notice is the case
  that makes `Reports` long; `NoticeMatchesHistory` speaks of completed runs only.
- **Triggers** (`WorkflowSchedules_proofs`). `NextAfterIsLater`: the next firing of
  every valid trigger in every zone is strictly later than the instant it is asked
  for. `NoOccurrenceSkipped` (`FiresAtFirstOccurrence`): it is also the first
  occurrence of the calendar after that instant. The scan goes by days and the claim
  is about instants, so the proof is about their orders: a later day's instant is
  later (`DaysInOrder`), a day before the current one has nothing left
  (`PastDaysArePast`), and hence the first day found is the first instant
  (`FirstLaterIsFirst`); the first two rest on `ZoneAssumption`. `DailyGoesOn`
  (`DailyNeverStops`) has two further hypotheses, `MidnightPassesOnce` and
  `GapsAreRare`: midnight is not passed twice, and no hour is skipped on two days in
  a row. They are hypotheses of this theorem only, and `MCTriggerFirings` has TLC
  evaluate them for its zone.
- **Schedules** (`WorkflowSchedules_proofs`). `SchedInv` types rows with firing
  times of their own triggers, and says that the instant an upsert carries is not
  after the clock. Theorems: `FiringTimesFresh` (`NoStaleFiring`) and, with
  `NextAfterIsLater`, `DowntimeCaughtUpOnce` (`CatchUpOnce`): after a pull no
  pulled row is due, whatever was missed. `OnceIsOver` is the lemma for one-shot
  triggers.
- **Turns** (`ChatThreads_proofs`, first half). `IInv` joins the invariants of the run
  with types, `Told` (at each point of a turn, whether its finish is still owed, and by
  whom, and what of the end its window has heard) and `MeantFor` (a signal that has not
  been heard yet was meant for the turn that has it, and a turn that the runner ended
  for one was). `FinishedOnce` lets a row read complete only after an `agent_end` and
  without an error event; it cannot say that the reason was a good one (section 5).
  Theorems: `NoRowSpins`, `ToldOfTheEndOnce`, `NoDeadHandle`,
  `StopHitsItsTurn`.
- **Learner** (`ChatThreads_proofs`, second half). `SkipsAreExplained` says that a
  message the checkpoint has passed by was learned from, came late, or was read by a run
  that could not store all it had learned. It needs `Windows`: a task begins where some
  checkpoint was, what its turn has not read came late, and what it is about to write as
  the checkpoint is settled. `NoDoubleQueue` is
  a bound on tasks in line, and a mark that is cleaned up makes room for one more; the
  inductive form (`Balanced`) therefore counts, for each thread, the tasks in line, the
  one being run, one if the thread is not marked, and one if its mark may be about to
  go, and says that this sum (`Load`) never exceeds what queries that failed and reruns
  by hand allow. The places of a thread in the line are counted as a set, with lemmas
  for what an enqueue and a pop do to it. Theorems: `HookQueuesOnce`,
  `NothingElseIsSkipped`.
- **Capture pipeline** (`CapturePipeline_proofs`). A command is a list of steps, so the
  first thing to know is which lists there are: `Orderly` says that each step is
  followed by the one that `Then` names, up to the list's last. From that, `Stage` says
  what holds at the head of each list: how much of a start has been set up, what a stop
  has taken down, which of the pause's parts are there, what a boot has found. Around
  it: what is running belongs to one session (`Belongs`), at rest it is complete or
  nothing (`Settled`), pause, state and timer go together (`Together`), and the pause in
  force is the one that a restart would restore (`Promise`). All of that under
  `overlaps = 0`, as section 3 explains; `Numbers` and the types hold without. TLC
  checked the conjunction on two callers, two starts, two pauses and a restart
  (431,874 states) before it was proved. Theorems: `StopLeavesNothing`,
  `RunningHoldsOneSession`, `PauseStaysWhole`.
- **Capture client** (`CaptureClient_proofs`). `IInv` is about the router
  (`RouterInv`: what an entry says of its channel, that a channel is gone only after
  the close, which is the reader's, and `WaiterIsReachable`) and the wire (`WireInv`:
  what is in the queue, the pipes or the helper's hands was handed over by its
  caller). `WaitersReachable` follows. `ClientImplementsRpcCalls` is the whole
  refinement: `StepMaps` shows for each action which step of `RpcCalls` it is, or
  that it is none. `RpcCalls` states no fairness, so there is nothing of liveness in
  it.
- **Snapshot events** (`SnapshotEvents_proofs`). `AcceptedIsCarried` is not
  inductive by itself. An event dropped by a full bus counts as carried only if
  something on the bus will make a job. That is `BusOK`: at most one event in it is
  without an application, the first focus, so that a bus of two or more places that
  is full holds another. And `CrewOK` says who is at work at each point of start and
  stop. `AxFollowsFront` is about the helper's front, the monitor's target and the
  calls between them: `Aiming` joins `FrontIsKnown` (what the monitor has not heard of
  the front is on its way) and `TargetIsKnown` (the observer is on the target, or the
  call that takes it there is under way, or `missed` says why not). Theorems:
  `TypeCorrect`, `AcceptedChangesAreCarried`, `FrontIsFollowed`.
- **Storage** (`CaptureStorage_proofs`). Nine parts, each needed by the next: what is
  numbered so far (`Numbered`); at which steps a writer holds a shot, and of which
  session (`Shots`); what an app that did not come up leaves alone (`Off`); a session that
  frames may yet be written to keeps its entry as long as it keeps its directory, and
  `sessions.json`, when it is whole, has every entry that others than its creator know,
  but for those a late save has overtaken (`Listed`); it has counted all its shots (`Counted`), so that
  the number a writer takes next is nobody's (`Distinct`), also across a crash that
  forgets unsaved counts, as no session goes on after one; what a row points to is on
  disk (`Backed`); and the sessions of the capture and of quick asks are active, and
  therefore on no list of retention (`Kept`). Theorems: `NoShotIsOrphaned`,
  `NumbersAreOwn`, `RowsKeepTheirFile`, `RetentionSparesWriters`.
- **Accounts** (`Accounts_proofs`). `IInv` holds as long as no writers overlap:
  `Alone` (one process at most holds a copy of the configuration), `Planned` (what it
  is about to save, compared with what is there), `Whole` (bindings have accounts, in
  memory and on disk), `Gone` and `Synced`. `TInv` adds the tokens: which were given
  out and to whom (`Given`, `Owned`), and that those in memory, in a writer's copy or
  in a request under way are still taken (`RowsWork`, `CopiesWork`, `RequestsWork`).
  Theorems: `NoBindingDangles`, `GoneStaysGone`, `MemoryIsOnDisk`,
  `TokensKeepWorking`.

Only model-checked is what needs fairness or `ENABLED`, which the prover does not
reach: `EveryRunIsReported`, `DueIsPulled`, `PulledIsHandled`, `PauseEnds`,
`StopEndsTheTurn`, `DeadHelperFreesAll`, and the liveness half of `IsSerialQueue`.
That calls end in `DeadHelperFreesAll` does not follow from the refinement of
`RpcCalls`, which states no fairness.

## 5. What was met on the way

Modelled as the code does it, and kept out of the properties; none of them is a
run of its own.

- *Scheduler.* A cancelled run's sidecar goes on: `select!` drops `runner::run`,
  which detaches the turn, where `scheduler.rs:98-99` says the process is killed.
- *Triggers.* A weekly trigger whose only candidate of eight days lies in a gap has
  no next firing (`trigger.rs:133`) and stays enabled. Daily triggers go on
  (`DailyNeverStops`), as three days hold two candidates, wherever no hour is skipped
  on two days in a row. A zone that skips an hour and falls back into the gap would
  have the scan by days pass over an earlier instant; there is none that we know of
  (`ZoneAssumption`).
- *Schedules.* A tick that reads a manifest while `fs::write` has truncated it
  disables the schedule.
- *Learner.* A failed run is not retried, its thread stays marked until a restart
  (`idle.rs:141`; `src/apps/desktop/docs/memory-system-spec.md:193` promises the
  retry). Messages that arrive while their thread is being learned from are passed
  over by the checkpoint. So are those of a run whose note or summary could not be
  written: `task.rs:122-124` and `149-151` only log it, as `task.rs:8-11` says
  ("either way"), where a run that fails as a whole leaves the checkpoint
  (`task.rs:87-104`). `SkipsAreExplained` says that it is no others.
- *Pause.* A start may slip into a pause, as `start` asks once (`mod.rs:318`). A pause
  that is renewed (`mod.rs:492`) or restored at boot (`lib.rs:1471`) takes
  `was_running` from a pipeline that is stopped already, so that its end starts
  nothing (`mod.rs:479-480` expects that it does).
- *Client.* The deadline of a call does not cover the send (`client.rs:199`).
- *Events.* Both helpers leave out an activation of the application they reported
  last, so that the case of `foreground_monitor/helper.rs:144-149` (a relaunch, with
  another process) never comes about and the observer stays on the old one. The
  comment at `debouncer.rs:82` calls a send non-blocking that waits in a task.
- *Storage.* A frame under way while its range is deleted gets its row afterwards
  (`commands/settings.rs:167`; the comment at 145-146 rules it out): a tick takes its
  time before the extraction. `save_index` truncates `sessions.json` before it fills it
  (`capture_store.rs:340`): a crash in between leaves a file that `load_index` refuses
  (322-324), no later boot repairs it, and the app does not come up
  (`lib.rs:1066-1071`), so that no screenshot is listed. A save that a tick had begun
  when `stop` aborted it (`capture_pipeline/mod.rs:468`) goes on without the lock, and
  may put back an older list or mix with a newer one. `ShotsAreListed` names both.
  Retention takes rows by their own time and sessions by their start: of a session that
  began before the cutoff and ended after it the later rows stay and lose their files,
  the rows without screenshots that `retention/mod.rs:109-111` means to avoid.
  `RowsHaveShots` leaves out the rows of a session whose directory is gone.
- *Turns.* A row may read complete although its turn ended in an error: an `agent_end` of
  `Refusal`, or of `Error` without an error event (`src/packages/agent/src/agent-runner.ts:702`
  sends one only if it captured an upstream error), ends as `finish(Error)`, of which
  `src/apps/desktop/src/hooks/use-chat.ts:803-805` keeps the reason and `498-504` decides
  by error events alone, where its comment (495) says that the status reflects the actual
  outcome. The live window shows an error meanwhile (654-663).
- *Accounts.* Two writers of the configuration may undo each other
  (`config_service.rs:153`, met in `commands/privacy.rs:43`). Two turns may refresh the
  ChatGPT session with one token, and a logout in between is undone. A late refusal
  marks an account that has been connected again since. Connecting a connector to
  another account leaves the old one's row.

Read, and not modelled: a model file of full length with a wrong checksum is never
removed before the privacy filter resumes its download, its spans found empty while
the model is absent stay cached, and a shorter span that overlaps a longer one in
part loses its tail; the persona loop skips every second day
(`persona/scheduler.rs:47`), as the file is not yet a day old.

## 6. What is left out

- Data: texts of messages, notes, prompts, frames; SQL; contents of files.
- *Triggers.* Cron expressions (a library's), minutes within an hour.
- *Schedules.* First-boot presets: the same writes as `Save`, before the ticker runs.
- *Events.* The probe of what is in front is one step, which may have no answer; the
  monitor handles one activation in one step; a lagging receiver loses its oldest
  event; a tick that finds the user idle counts as having looked. A steady burst of
  title changes postpones its snapshot for ever, by design, so no liveness is stated.
- *Client.* `shutdown` and `uninstall`, which only tests call; heartbeats.
  `close_with_crash` drops the senders after it has released the lock; they go in the
  same step.
- *Turns.* Cancelling in the window is one step; the row mirrors the window's buffer
  at once; sidecars of a crashed app; prompts of outside MCP clients; requests of the
  sidecar other than the prompt. An `agent_end` of `Cancelled` does not come: a sidecar
  gives it only when told to over its control stream, where nothing is written.
- *Storage.* The removal of the files of a range is one step; one command of the user at a
  time; a file system that refuses, so that saves fail; `save_session_meta`, whose file no
  one reads back; the save on an ordinary quit (`lib.rs:386-401`). The entry and the first
  half of the save are one step in `end_session` and `delete_session`, as nobody reads
  the file in between and a crash between them is one before both.
- *Workflow runs.* A cancelled run whose detached turn goes on (section 5) is over for
  `OneRunPerWorkflow`, as it is for `pending_slugs`.
- *Accounts.* One provider, one consent in the browser at a time; access tokens, scopes
  and profiles; connectors that are MCP servers or command lines; a save is atomic,
  though one that fails may have reached the disk.
- Platform code, user interface, cloud clients, native helpers, the model: outside
  services and views, seen by what they may answer.

## 7. Plan

Done, in this order: the scheduler; the runs and schedules of workflows; the learner;
the commands of the capture pipeline; the capture client; the turns; storage;
accounts; the events that lead to snapshots.

Model next: the privacy filter's download, cache and span arithmetic; the persona
loop; the double-tap hotkey; the requests of a turn to the RPC server; the history of
a workflow with the order of its rows, so that a late row of an aborted run may come
after that of the next one; that a change is looked at in the end, for
`SnapshotEvents`.

Proved: every invariant and action property of the runs (section 4). Prove next: what
overlapping commands of the capture pipeline may still be relied on for (that at most
one start holds `running`, and that the bound on sessions left open is the number of
overlaps), once a run states it; the liveness properties stay with TLC.
