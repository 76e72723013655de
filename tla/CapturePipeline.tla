---------------------------- MODULE CapturePipeline ----------------------------
(* Starting, stopping, pausing and resuming screen capture                  *)
(* (capture_pipeline/mod.rs), and the coordinator and the job runner of     *)
(* each start (coordinator.rs).  A command holds no lock from its first     *)
(* step to its last: it is a list of steps, and another command, or the     *)
(* expiry of a pause, may come in between any two.  The expiry is kept in   *)
(* the configuration, from which a boot restores the pause (lib.rs); how    *)
(* the configuration is written is in Accounts.  Where jobs come from is in *)
(* SnapshotEvents; what a tick captures, and quick asks, in CaptureStorage. *)
EXTENDS Integers, Sequences

CONSTANTS
  Client,      \* where commands come from: the window, the tray, the boot
  MaxStarts,   \* bound on the sessions: a start beyond it gets none and fails
  MaxPauses,   \* bound on the pauses
  MaxOverlaps, \* bound on the commands and expiries that begin while another is under way
  MaxCrashes   \* bound on the restarts of the application

ASSUME PipelineAssumption ==
  /\ {MaxStarts, MaxPauses, MaxOverlaps, MaxCrashes} \subseteq Nat
  /\ Client \cap (1..MaxPauses) = {}

VARIABLES
  todo,      \* the steps each party still has to do
  was,       \* was_running, as a pause or a resume under way has read it
  mine,      \* the number of the start or the timer a party is working on
  aborted,   \* timers aborted while they were resuming
  pipe,      \* running, session, bus, sink, observer, workers, and the sessions still open
  pause,     \* whether one is active, its state (whether capture was running), its timer
  coord,     \* the coordinator task of each start
  runner,    \* the job runner task of each start
  shut,      \* starts whose bus holds Shutdown
  kept,      \* app.capture_paused_until: the pause the configuration holds, or 0
  over,      \* pauses whose expiry is past
  starts, pauses, overlaps, crashes,
  failed     \* history: a session could not be created or ended, or a write failed

crew  == <<coord, runner, shut>>
file  == <<kept, over>>
tally == <<starts, pauses, overlaps, crashes, failed, file>>
vars  == <<todo, was, mine, aborted, pipe, pause, crew, tally>>

Gen   == 1..MaxStarts   \* sessions, buses and workers go by their start's number
Timer == 1..MaxPauses   \* the task a pause spawns
Party == Client \cup Timer

StartSteps  == <<"admit", "claim", "create", "bus", "subscribe", "observe", "spawn", "push">>
StopSteps   == <<"halt", "detach", "blind", "close", "drain", "end">>
PauseSteps  == <<"disarm", "note", "freeze", "arm", "keep">>
ResumeSteps == <<"take", "lift", "clear", "restart">>
Sleep       == <<"sleep">>
BootSteps   == <<"restore", "launch">>

Init ==
  /\ todo = [p \in Party |-> <<>>] /\ was = [p \in Party |-> FALSE] /\ mine = [p \in Party |-> 0]
  /\ aborted = {}
  /\ pipe = [running |-> FALSE, session |-> 0, bus |-> 0, sink |-> 0, observer |-> 0,
             workers |-> {}, open |-> {}]
  /\ pause = [active |-> FALSE, state |-> <<>>, timer |-> 0]
  /\ coord = [g \in Gen |-> "none"] /\ runner = [g \in Gen |-> "none"] /\ shut = {}
  /\ kept = 0 /\ over = {}
  /\ starts = 0 /\ pauses = 0 /\ overlaps = 0 /\ crashes = 0 /\ failed = FALSE

Busy   == {p \in Party : todo[p] \notin {<<>>, Sleep}}
AtRest == Busy = {}

At(p, s) == todo[p] # <<>> /\ Head(todo[p]) = s
Rest(p)  == [todo EXCEPT ![p] = Tail(@)]
Go(p)    == todo' = Rest(p)
Quit(p)  == todo' = [todo EXCEPT ![p] = <<>>]

(* The step s of p, when all it does is to change pipe, or pause. *)
OnPipe(p, s, next) ==
  At(p, s) /\ Go(p) /\ pipe' = next /\ UNCHANGED <<was, mine, aborted, pause, crew, tally>>
OnPause(p, s, next) ==
  At(p, s) /\ Go(p) /\ pause' = next /\ UNCHANGED <<was, mine, aborted, pipe, crew, tally>>

-----------------------------------------------------------------------------
(* Commands                                                                 *)

Begin(p, steps) ==
  /\ todo' = [todo EXCEPT ![p] = steps]
  /\ IF AtRest THEN UNCHANGED overlaps ELSE overlaps < MaxOverlaps /\ overlaps' = overlaps + 1
  /\ UNCHANGED <<was, aborted, pipe, pause, crew, kept, starts, crashes, failed>>

(* Setup restores a pause before the event loop takes the first command. *)
Booting == \E q \in Client : Len(todo[q]) > 1 /\ todo[q][Len(todo[q])] = "launch"
Free(p) == p \in Client /\ todo[p] = <<>> /\ ~Booting

CallStart(p) ==
  /\ Free(p) /\ Begin(p, StartSteps)
  /\ UNCHANGED <<mine, pauses, over>>

CallStop(p) ==
  /\ Free(p) /\ Begin(p, StopSteps)
  /\ UNCHANGED <<mine, pauses, over>>

(* capture_pause and the tray's pause: pause_until, and what they keep. *)
CallPause(p) ==
  /\ Free(p) /\ pauses < MaxPauses /\ Begin(p, <<"ask", "save">>)
  /\ pauses' = pauses + 1
  /\ mine' = [mine EXCEPT ![p] = pauses + 1]
  /\ UNCHANGED over

CallResume(p) ==
  Free(p) /\ Begin(p, Append(ResumeSteps, "forget")) /\ UNCHANGED <<mine, pauses, over>>

(* The sleep of a pause's task is over: the expiry stays in the configuration. *)
Expire(p) ==
  /\ todo[p] = Sleep /\ Begin(p, ResumeSteps)
  /\ over' = over \cup {p}
  /\ UNCHANGED <<mine, pauses>>

-----------------------------------------------------------------------------
(* start                                                                    *)

Admit(p) ==
  /\ At(p, "admit")
  /\ IF pause.active THEN Quit(p) ELSE Go(p)
  /\ UNCHANGED <<was, mine, aborted, pipe, pause, crew, tally>>

Claim(p) ==
  /\ At(p, "claim")
  /\ IF pipe.running THEN Quit(p) ELSE Go(p)
  /\ pipe' = [pipe EXCEPT !.running = TRUE]
  /\ UNCHANGED <<was, mine, aborted, pause, crew, tally>>

Create(p) ==
  /\ At(p, "create") /\ p \notin aborted /\ starts < MaxStarts
  /\ Go(p)
  /\ starts' = starts + 1
  /\ mine' = [mine EXCEPT ![p] = starts + 1]
  /\ pipe' = [pipe EXCEPT !.session = starts + 1, !.open = @ \cup {starts + 1}]
  /\ UNCHANGED <<was, aborted, pause, crew, file, pauses, overlaps, crashes, failed>>

(* The error leaves running as it is. *)
CreateFails(p) ==
  /\ At(p, "create") /\ p \notin aborted /\ (starts = MaxStarts \/ ~failed)
  /\ Quit(p)
  /\ failed' = TRUE
  /\ UNCHANGED <<was, mine, aborted, pipe, pause, crew, file, starts, pauses, overlaps, crashes>>

OpenBus(p)   == OnPipe(p, "bus", [pipe EXCEPT !.bus = mine[p]])
Subscribe(p) == OnPipe(p, "subscribe", [pipe EXCEPT !.sink = mine[p]])
Observe(p)   == OnPipe(p, "observe", [pipe EXCEPT !.observer = mine[p]])

(* The coordinator, the job runner, and the event of the initial focus. *)
Spawn(p) ==
  /\ At(p, "spawn")
  /\ Go(p)
  /\ coord' = [coord EXCEPT ![mine[p]] = "run"]
  /\ runner' = [runner EXCEPT ![mine[p]] = "check"]
  /\ UNCHANGED <<was, mine, aborted, pipe, pause, shut, tally>>

PushWorkers(p) == OnPipe(p, "push", [pipe EXCEPT !.workers = @ \cup {mine[p]}])

Start(p) ==
  \/ Admit(p) \/ Claim(p) \/ Create(p) \/ CreateFails(p) \/ OpenBus(p)
  \/ Subscribe(p) \/ Observe(p) \/ Spawn(p) \/ PushWorkers(p)

-----------------------------------------------------------------------------
(* stop                                                                     *)

(* Fault: the sink stays with the foreground monitor. *)
FaultStaysSubscribed(p) == OnPipe(p, "detach", pipe)

Halt(p)   == OnPipe(p, "halt", [pipe EXCEPT !.running = FALSE])
Detach(p) == OnPipe(p, "detach", [pipe EXCEPT !.sink = 0])
Blind(p)  == OnPipe(p, "blind", [pipe EXCEPT !.observer = 0])

CloseBus(p) ==
  /\ At(p, "close")
  /\ Go(p)
  /\ pipe' = [pipe EXCEPT !.bus = 0]
  /\ shut' = shut \cup ({pipe.bus} \ {0})
  /\ UNCHANGED <<was, mine, aborted, pause, coord, runner, tally>>

(* An aborted task at most finishes its poll, which is left out. *)
Drain(p) ==
  /\ At(p, "drain")
  /\ Go(p)
  /\ pipe' = [pipe EXCEPT !.workers = {}]
  /\ coord' = [g \in Gen |-> IF g \in pipe.workers THEN "gone" ELSE coord[g]]
  /\ runner' = [g \in Gen |-> IF g \in pipe.workers THEN "gone" ELSE runner[g]]
  /\ UNCHANGED <<was, mine, aborted, pause, shut, tally>>

(* Fault: the session is taken and not ended. *)
FaultForgetsSession(p) == OnPipe(p, "end", [pipe EXCEPT !.session = 0])

EndSession(p) == OnPipe(p, "end", [pipe EXCEPT !.session = 0, !.open = @ \ {pipe.session}])

(* The error also ends the pause that stop was part of. *)
EndFails(p) ==
  /\ At(p, "end") /\ pipe.session # 0 /\ ~failed
  /\ Quit(p)
  /\ pipe' = [pipe EXCEPT !.session = 0]
  /\ failed' = TRUE
  /\ UNCHANGED <<was, mine, aborted, pause, crew, file, starts, pauses, overlaps, crashes>>

Stop(p) ==
  Halt(p) \/ Detach(p) \/ Blind(p) \/ CloseBus(p) \/ Drain(p) \/ EndSession(p) \/ EndFails(p)

-----------------------------------------------------------------------------
(* pause_until and resume_internal                                          *)

Ask(p) ==
  /\ At(p, "ask")
  /\ was' = [was EXCEPT ![p] = pipe.running]
  /\ todo' = [todo EXCEPT ![p] = (IF pipe.running THEN StopSteps ELSE <<>>) \o PauseSteps \o Tail(@)]
  /\ UNCHANGED <<mine, aborted, pipe, pause, crew, tally>>

(* The step s of p takes pause's timer and aborts it: at once if it sleeps, *)
(* at its next await if it is resuming.                                     *)
AbortTimer(p, s) ==
  /\ At(p, s)
  /\ pause' = [pause EXCEPT !.timer = 0]
  /\ LET t == pause.timer
     IN  IF t # 0 /\ todo[t] = Sleep
         THEN todo' = [Rest(p) EXCEPT ![t] = <<>>] /\ UNCHANGED aborted
         ELSE Go(p) /\ aborted' = aborted \cup ({t} \ {0})
  /\ UNCHANGED <<was, mine, pipe, crew, tally>>

Die(p) ==
  /\ p \in aborted /\ \E s \in {"take", "clear", "create", "bus", "subscribe", "observe", "push"} : At(p, s)
  /\ Quit(p)
  /\ UNCHANGED <<was, mine, aborted, pipe, pause, crew, tally>>

Disarm(p) == AbortTimer(p, "disarm")
Note(p)   == OnPause(p, "note", [pause EXCEPT !.state = <<was[p]>>])
Freeze(p) == OnPause(p, "freeze", [pause EXCEPT !.active = TRUE])

Arm(p) ==
  /\ At(p, "arm")
  /\ todo' = [Rest(p) EXCEPT ![mine[p]] = Sleep]
  /\ UNCHANGED <<was, mine, aborted, pipe, pause, crew, tally>>

(* A handle that is overwritten leaves its timer going. *)
Keep(p) == OnPause(p, "keep", [pause EXCEPT !.timer = mine[p]])

Pause(p) == Ask(p) \/ Disarm(p) \/ Note(p) \/ Freeze(p) \/ Arm(p) \/ Keep(p)

Take(p) ==
  /\ At(p, "take")
  /\ Go(p)
  /\ was' = [was EXCEPT ![p] = pause.state = <<TRUE>>]
  /\ pause' = [pause EXCEPT !.state = <<>>]
  /\ UNCHANGED <<mine, aborted, pipe, crew, tally>>

(* Fault: a pause with nothing to restart is not lifted. *)
FaultLiftsToRestart(p) == OnPause(p, "lift", [pause EXCEPT !.active = @ /\ ~was[p]])

Lift(p) == OnPause(p, "lift", [pause EXCEPT !.active = FALSE])

Clear(p) ==
  IF p \in Timer THEN OnPause(p, "clear", [pause EXCEPT !.timer = 0]) ELSE AbortTimer(p, "clear")

Restart(p) ==
  /\ At(p, "restart")
  /\ todo' = [todo EXCEPT ![p] = (IF was[p] /\ ~pipe.running THEN StartSteps ELSE <<>>) \o Tail(@)]
  /\ UNCHANGED <<was, mine, aborted, pipe, pause, crew, tally>>

Resume(p) == Take(p) \/ Lift(p) \/ Clear(p) \/ Restart(p)

-----------------------------------------------------------------------------
(* The expiry in the configuration, and the boot                            *)

Keeps(p, s, k) ==
  At(p, s) /\ Go(p) /\ kept' = k
  /\ UNCHANGED <<was, mine, aborted, pipe, pause, crew, over, starts, pauses, overlaps, crashes, failed>>

(* Fault: the expiry is written for the first pause and not for its renewal. *)
FaultSavesOnce(p) == Keeps(p, "save", IF kept = 0 THEN mine[p] ELSE kept)

Save(p) == Keeps(p, "save", mine[p])
Forget(p) == Keeps(p, "forget", 0)

(* The command reports an error, the boot and the tray a warning. *)
SaveFails(p) ==
  /\ At(p, "save") \/ At(p, "forget")
  /\ ~failed /\ failed' = TRUE
  /\ Go(p)
  /\ UNCHANGED <<was, mine, aborted, pipe, pause, crew, file, starts, pauses, overlaps, crashes>>

(* An expiry to come is a pause again, with a timer of its own; one that is *)
(* past is wiped.                                                           *)
Restore(p) ==
  /\ At(p, "restore")
  /\ todo' = [todo EXCEPT ![p] =
       (IF kept = 0 THEN <<>> ELSE IF kept \in over THEN <<"forget">> ELSE <<"ask">>) \o Tail(@)]
  /\ mine' = [mine EXCEPT ![p] = kept]
  /\ UNCHANGED <<was, aborted, pipe, pause, crew, tally>>

(* start_capture_on_launch is on or off. *)
Launch(p) ==
  /\ At(p, "launch")
  /\ \/ Quit(p)
     \/ ~pipe.running /\ ~pause.active /\ todo' = [todo EXCEPT ![p] = StartSteps]
  /\ UNCHANGED <<was, mine, aborted, pipe, pause, crew, tally>>

Boot(p) == Save(p) \/ Forget(p) \/ SaveFails(p) \/ Restore(p) \/ Launch(p)

(* The application quits or dies, at any point, and boots.  The sessions    *)
(* that were open are closed when the store is read (CaptureStore::new).    *)
(* Meanwhile the pause may have ended.                                      *)
Crash ==
  /\ crashes < MaxCrashes /\ crashes' = crashes + 1
  /\ \E p \in Client : todo' = [q \in Party |-> IF q = p THEN BootSteps ELSE <<>>]
  /\ was' = [p \in Party |-> FALSE] /\ mine' = [p \in Party |-> 0] /\ aborted' = {}
  /\ pipe' = [running |-> FALSE, session |-> 0, bus |-> 0, sink |-> 0, observer |-> 0,
              workers |-> {}, open |-> {}]
  /\ pause' = [active |-> FALSE, state |-> <<>>, timer |-> 0]
  /\ coord' = [g \in Gen |-> "none"] /\ runner' = [g \in Gen |-> "none"] /\ shut' = {}
  /\ over' \in {over, over \cup ({kept} \ {0})}
  /\ UNCHANGED <<kept, starts, pauses, overlaps, failed>>

-----------------------------------------------------------------------------
(* The coordinator and the job runner                                       *)

(* Shutdown, or a bus that nothing can send on. *)
CoordinatorExits(g) ==
  /\ coord[g] = "run"
  /\ \/ g \in shut
     \/ /\ g \notin {pipe.sink, pipe.observer, pipe.bus}
        /\ \A p \in Busy : mine[p] = g => ~At(p, "push")
  /\ coord' = [coord EXCEPT ![g] = "gone"]
  /\ UNCHANGED <<runner, shut>>

RunnerStep(g, from, to) ==
  runner[g] = from /\ runner' = [runner EXCEPT ![g] = to] /\ UNCHANGED <<coord, shut>>

RunnerChecks(g) == RunnerStep(g, "check", IF pipe.running THEN "wait" ELSE "gone")

(* A job: of an event from the foreground monitor, the observer or          *)
(* request_snapshot, at once or after its debounce, which may have been in  *)
(* the channel since before the coordinator ended.                          *)
RunnerReceives(g) == RunnerStep(g, "wait", "tick")
RunnerExits(g)    == coord[g] = "gone" /\ RunnerStep(g, "wait", "gone")
Tick(g)           == RunnerStep(g, "tick", "check")

Crew(g) ==
  /\ CoordinatorExits(g) \/ RunnerChecks(g) \/ RunnerReceives(g) \/ RunnerExits(g) \/ Tick(g)
  /\ UNCHANGED <<todo, was, mine, aborted, pipe, pause, tally>>

-----------------------------------------------------------------------------
Carry(p) == Start(p) \/ Stop(p) \/ Pause(p) \/ Resume(p) \/ Boot(p) \/ Expire(p) \/ Die(p)

Next ==
  \/ \E p \in Party : CallStart(p) \/ CallStop(p) \/ CallPause(p) \/ CallResume(p) \/ Carry(p)
  \/ \E g \in Gen : Crew(g)
  \/ Crash

Spec == Init /\ [][Next]_vars

(* The runtime polls every task it has woken, and its timers fire. *)
FairSpec == Spec /\ \A p \in Party : WF_vars(Carry(p))

-----------------------------------------------------------------------------
(* Properties                                                               *)

InTurn  == AtRest /\ overlaps = 0
Live(g) == runner[g] \in {"check", "wait", "tick"}

(* While capture is stopped or paused nothing of it is left: no bus that a  *)
(* source publishes on, no task that has not been told to end, and no       *)
(* session a later stop would close (start and stop undo each other).       *)
StoppedIsQuiet ==
  InTurn /\ (pause.active \/ ~pipe.running) =>
    /\ {pipe.session, pipe.bus, pipe.sink, pipe.observer} = {0} /\ pipe.workers = {}
    /\ \A g \in Gen : coord[g] # "run" /\ ~Live(g)

(* While capture is running its sources publish on the bus of the current   *)
(* session, that session's coordinator and runner are the ones at work, and *)
(* every earlier session has been ended.                                    *)
RunningIsCapturing ==
  InTurn /\ pipe.running /\ ~failed =>
    /\ pipe.session # 0 /\ {pipe.bus, pipe.sink, pipe.observer} = {pipe.session}
    /\ pipe.workers = {pipe.session} /\ pipe.open = {pipe.session}
    /\ coord[pipe.session] = "run" /\ {g \in Gen : Live(g)} = {pipe.session}

(* A pause has its state and its timer, the only one asleep, and without a  *)
(* pause there is none: a timer left over would lift a later pause too soon *)
(* (pause_until replaces the timer, a resume takes it away).  As long as no *)
(* write failed, the pause in force is the one that a restart would bring   *)
(* back, and a restart does (commands/capture.rs:88-91).                    *)
PauseIsWhole ==
  InTurn =>
    /\ pause.active <=> pause.state # <<>>
    /\ pause.active <=> pause.timer # 0
    /\ {t \in Timer : todo[t] = Sleep} = {pause.timer} \ {0}
    /\ ~failed => pause.timer = IF kept \in over THEN 0 ELSE kept

(* No pause lasts forever, however often it is renewed (pause_until's timer *)
(* lifts it).                                                               *)
PauseEnds == pause.active /\ overlaps = 0 ~> ~pause.active \/ overlaps > 0
=============================================================================
