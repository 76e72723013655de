---------------------------- MODULE SnapshotEvents ----------------------------
(* From a change on the screen to the snapshot of it: the helper's events,  *)
(* the foreground monitor (foreground_monitor/helper.rs) and the observer   *)
(* of the front application (ax_observer.rs) that put them on the bus, the  *)
(* coordinator and its debouncer that make jobs of them (coordinator.rs,    *)
(* debouncer.rs), and the runner that takes the snapshots.  The commands    *)
(* that start and stop all this come one at a time here; CapturePipeline    *)
(* lets them overlap.  What a tick does is in CaptureStorage.               *)
EXTENDS Integers, Sequences

CONSTANTS
  Process,        \* what may be in front
  Bundle,         \* the application each process runs
  Us,             \* Corivo's own process
  None,
  LineCapacity,   \* helper events kept for one receiver
  BusCapacity,    \* EVENT_BUS_CAPACITY
  QueueCapacity,  \* JOB_QUEUE_CAPACITY
  MaxSenders,     \* bound on the jobs that wait for room in the queue
  MaxEvents,      \* bound on switches, changes of a window or a title, manual snapshots
  MaxStarts       \* bound on the starts

ASSUME EventsAssumption ==
  /\ Us \in Process /\ None \notin Process
  /\ {LineCapacity, QueueCapacity, MaxSenders} \subseteq Nat \ {0}
  /\ BusCapacity \in Nat \ {0, 1}
  /\ {MaxEvents, MaxStarts} \subseteq Nat

VARIABLES
  front,        \* the process in front
  reported,     \* the helper: the application it reported last
  watch,        \* the helper: the process whose windows it watches
  activations,  \* its events on their way to the monitor
  notices,      \* and to the observer
  calls,        \* ax.subscribe and ax.unsubscribe calls under way, in no order
  lastBundle,   \* the monitor: the application it saw last
  subscriber,   \* whether capture is subscribed to it
  observer,     \* whether the observer forwards
  target,       \* its current_pid
  op,           \* how far the start or stop is, "running" or "stopped" between them
  focusing,     \* whether the first focus is still being asked for
  asking,       \* whether request_snapshot holds event_tx
  bus,
  coordinator,
  timer,        \* the debouncer's one delayed job: none, asleep, or in line for the queue
  senders,      \* jobs without delay in line for the queue
  jobs,         \* jobs in the queue
  runner,
  owed,         \* history: the bus was offered an event since a snapshot last began
  missed,       \* history of this start: why the observer may not follow, see AxFollowsFront
  events, starts \* how many of each there were

world   == <<front, reported, watch, activations, notices>>
aim     == <<calls, lastBundle, subscriber, observer, target, missed>>
flow    == <<bus, coordinator, timer, senders, jobs, runner, owed>>
control == <<op, focusing, asking>>
tally   == <<events, starts>>
vars    == <<world, aim, flow, control, tally>>

Init ==
  /\ front \in Process /\ reported = None /\ watch = None
  /\ activations = <<>> /\ notices = <<>> /\ calls = {}
  /\ lastBundle = None /\ subscriber = FALSE /\ observer = FALSE /\ target = None
  /\ op = "stopped" /\ focusing = FALSE /\ asking = FALSE
  /\ bus = <<>> /\ coordinator = FALSE /\ timer = "none" /\ senders = 0 /\ jobs = 0
  /\ runner = "off" /\ owed = FALSE /\ missed = FALSE
  /\ events = 0 /\ starts = 0

-----------------------------------------------------------------------------
(* The helper.  A receiver that lags loses the oldest event.                *)

Offer(line, e) == IF Len(line) < LineCapacity THEN Append(line, e) ELSE Append(Tail(line), e)

(* Another process comes to the front.  The helper leaves out one of the    *)
(* application it reported last.                                            *)
Switch(p) ==
  /\ p # front /\ events < MaxEvents
  /\ events' = events + 1
  /\ front' = p
  /\ IF Bundle[p] = reported
     THEN missed' = TRUE /\ UNCHANGED <<reported, activations>>
     ELSE /\ reported' = Bundle[p]
          /\ activations' = Offer(activations, p)
          /\ missed' = (missed \/ Len(activations) = LineCapacity)
  /\ UNCHANGED <<watch, notices, calls, lastBundle, subscriber, observer, target>>
  /\ UNCHANGED <<flow, control, starts>>

(* The focused window of the watched process changes, or its title.         *)
Change(kind) ==
  /\ watch # None /\ observer /\ events < MaxEvents
  /\ events' = events + 1
  /\ notices' = Offer(notices, [kind |-> kind, pid |-> watch])
  /\ UNCHANGED <<front, reported, watch, activations, aim, flow, control, starts>>

(* The observer thread does what a call asks for. *)
Answer(c) ==
  /\ calls' = calls \ {c}
  /\ watch' = CASE c.do = "subscribe" -> c.pid
                [] c.do = "unsubscribe" -> IF watch = c.pid THEN None ELSE watch
  /\ UNCHANGED <<front, reported, activations, notices, lastBundle, subscriber, observer, target, missed>>
  /\ UNCHANGED <<flow, control, tally>>

(* A call that fails is not made again. *)
CallFails(c) ==
  /\ calls' = calls \ {c}
  /\ missed' = TRUE
  /\ watch' \in {watch, None}
  /\ UNCHANGED <<front, reported, activations, notices, lastBundle, subscriber, observer, target>>
  /\ UNCHANGED <<flow, control, tally>>

-----------------------------------------------------------------------------
(* The event sources                                                        *)

Closed == op = "signalled" /\ ~coordinator

(* try_send: a full bus drops the event, and so does one nobody reads. *)
Publish(e) ==
  /\ bus' = IF Len(bus) < BusCapacity /\ ~Closed THEN Append(bus, e) ELSE bus
  /\ owed' = (owed \/ e # "nowhere")
  /\ UNCHANGED <<coordinator, timer, senders, jobs, runner>>

(* set_target_pid and pid_setter.  Each call is spawned by itself: two that *)
(* are under way together may overtake one another.                         *)
Aim(p) ==
  /\ target' = p
  /\ calls' = IF p = target THEN calls ELSE calls \cup {[do |-> "subscribe", pid |-> p]}
  /\ missed' = (missed \/ (p # target /\ calls # {}))

(* The monitor: an application it has seen last is aimed at without an      *)
(* event, and Corivo itself is passed over.                                 *)
Dispatch ==
  /\ activations # <<>>
  /\ activations' = Tail(activations)
  /\ LET p == Head(activations)
     IN  /\ lastBundle' = Bundle[p]
         /\ IF subscriber /\ (Bundle[p] = lastBundle \/ p # Us)
            THEN Aim(p)
            ELSE /\ missed' = (missed \/ (op = "seeded" /\ p # target))
                 /\ UNCHANGED <<calls, target>>
         /\ IF subscriber /\ Bundle[p] # lastBundle /\ p # Us
            THEN Publish("activated")
            ELSE UNCHANGED flow
  /\ UNCHANGED <<front, reported, watch, notices, subscriber, observer, control, tally>>

(* The observer: events of a process it no longer aims at are dropped. *)
Forward ==
  /\ observer /\ notices # <<>>
  /\ notices' = Tail(notices)
  /\ IF Head(notices).pid = target THEN Publish(Head(notices).kind) ELSE UNCHANGED flow
  /\ UNCHANGED <<front, reported, watch, activations, aim, control, tally>>

(* emit_initial_focus: the application in front, or none if the call fails. *)
FirstFocus ==
  /\ focusing
  /\ focusing' = FALSE
  /\ Publish("activated") \/ Publish("nowhere")
  /\ UNCHANGED <<world, aim, op, asking, tally>>

(* request_snapshot keeps event_tx locked until the bus takes the event. *)
Ask ==
  /\ ~asking /\ op \notin {"stopped", "signalled"} /\ events < MaxEvents
  /\ asking' = TRUE
  /\ events' = events + 1
  /\ UNCHANGED <<world, aim, flow, op, focusing, starts>>

AskSend ==
  /\ asking
  /\ Len(bus) < BusCapacity
  /\ asking' = FALSE
  /\ Publish("manual")
  /\ UNCHANGED <<world, aim, op, focusing, tally>>

-----------------------------------------------------------------------------
(* The coordinator and its debouncer                                        *)

Takes(e) ==
  /\ coordinator /\ bus # <<>> /\ Head(bus) = e
  /\ bus' = Tail(bus)
  /\ UNCHANGED <<world, aim, control, tally, jobs, runner, owed>>

Ignore == Takes("nowhere") /\ UNCHANGED <<coordinator, timer, senders>>

(* Fault: an event that comes while a snapshot is being taken is left to it. *)
FaultFireAtOnce(e) ==
  /\ senders < MaxSenders
  /\ Takes(e)
  /\ senders' = IF runner = "tick" THEN senders ELSE senders + 1
  /\ timer' = IF e = "window" THEN "none" ELSE timer
  /\ UNCHANGED coordinator

(* A job without delay is sent by a task of its own, which waits for room.  *)
(* That of a window has the key of the delayed job and ends it.             *)
FireAtOnce(e) ==
  /\ senders < MaxSenders
  /\ Takes(e)
  /\ senders' = senders + 1
  /\ timer' = IF e = "window" THEN "none" ELSE timer
  /\ UNCHANGED coordinator

(* A title starts the delay anew, also when its job already waits for room. *)
FireLater ==
  /\ Takes("title")
  /\ timer' = "asleep"
  /\ UNCHANGED <<coordinator, senders>>

(* Shutdown: drain. *)
ShutDown ==
  /\ coordinator /\ bus # <<>> /\ Head(bus) = "shutdown"
  /\ coordinator' = FALSE
  /\ timer' = "none"
  /\ bus' = <<>>
  /\ UNCHANGED <<world, aim, control, tally, senders, jobs, runner, owed>>

Coordinate == Ignore \/ FireLater \/ ShutDown \/ \E e \in {"activated", "window", "manual"} : FireAtOnce(e)

Room == jobs < QueueCapacity \/ runner = "off"
Queued == IF runner = "off" THEN jobs ELSE jobs + 1

(* The delay is over: the job goes into the queue, or waits for room. *)
Elapse ==
  /\ timer = "asleep"
  /\ IF Room THEN timer' = "none" /\ jobs' = Queued ELSE timer' = "due" /\ UNCHANGED jobs
  /\ UNCHANGED <<world, aim, control, tally, bus, coordinator, senders, runner, owed>>

TimerSends ==
  /\ timer = "due" /\ Room
  /\ timer' = "none" /\ jobs' = Queued
  /\ UNCHANGED <<world, aim, control, tally, bus, coordinator, senders, runner, owed>>

SenderSends ==
  /\ senders > 0 /\ Room
  /\ senders' = senders - 1 /\ jobs' = Queued
  /\ UNCHANGED <<world, aim, control, tally, bus, coordinator, timer, runner, owed>>

-----------------------------------------------------------------------------
(* The runner                                                               *)

Running == op \in {"bus", "seeded", "running"}

Runs(from, to) ==
  /\ runner = from /\ runner' = to
  /\ UNCHANGED <<world, aim, control, tally, bus, coordinator, timer, senders>>

Take  == jobs > 0 /\ Runs("wait", "taken") /\ jobs' = jobs - 1 /\ UNCHANGED owed

(* The tick looks at the screen, or at how long the user has been idle.     *)
Look  == Runs("taken", "tick") /\ owed' = FALSE /\ UNCHANGED jobs
(* After a tick the loop asks whether capture is still running. *)
Tick  == Runs("tick", IF Running THEN "wait" ELSE "off") /\ UNCHANGED <<jobs, owed>>

RunJobs == Take \/ Look \/ Tick

-----------------------------------------------------------------------------
(* start and stop                                                           *)

OpenBus ==
  /\ op = "stopped" /\ starts < MaxStarts
  /\ op' = "bus"
  /\ starts' = starts + 1
  /\ observer' = TRUE /\ target' = None
  /\ missed' = (calls # {} \/ activations # <<>>)
  /\ UNCHANGED <<world, calls, lastBundle, subscriber, flow, focusing, asking, events>>

(* Fault: the observer is left to the next switch. *)
FaultSeed ==
  /\ op = "bus" /\ op' = "seeded"
  /\ UNCHANGED <<world, aim, flow, focusing, asking, tally>>

(* Aim at what is in front, if the probe can say. *)
Seed ==
  /\ op = "bus" /\ op' = "seeded"
  /\ Aim(front) \/ (missed' = TRUE /\ UNCHANGED <<calls, target>>)
  /\ UNCHANGED <<world, lastBundle, subscriber, observer, flow, focusing, asking, tally>>

Subscribe ==
  /\ op = "seeded" /\ op' = "running"
  /\ subscriber' = TRUE /\ focusing' = TRUE
  /\ coordinator' = TRUE /\ runner' = "wait"
  /\ UNCHANGED <<world, calls, lastBundle, observer, target, missed, asking, tally>>
  /\ UNCHANGED <<bus, timer, senders, jobs, owed>>

(* stop: unsubscribe, shut the observer down ... *)
Detach ==
  /\ op = "running" /\ op' = "detached"
  /\ subscriber' = FALSE /\ observer' = FALSE /\ notices' = <<>>
  /\ calls' = IF target = None THEN calls ELSE calls \cup {[do |-> "unsubscribe", pid |-> target]}
  /\ UNCHANGED <<front, reported, watch, activations, lastBundle, target, missed>>
  /\ UNCHANGED <<flow, focusing, asking, tally>>

(* ... take event_tx and send Shutdown ... *)
SendShutdown ==
  /\ op = "detached" /\ ~asking
  /\ Len(bus) < BusCapacity
  /\ op' = "signalled"
  /\ bus' = Append(bus, "shutdown")
  /\ UNCHANGED <<world, aim, coordinator, timer, senders, jobs, runner, owed, focusing, asking, tally>>

(* ... and abort both tasks, which takes the bus and the queue with them.   *)
AbortWorkers ==
  /\ op = "signalled" /\ op' = "stopped"
  /\ coordinator' = FALSE /\ timer' = "none" /\ runner' = "off"
  /\ bus' = <<>> /\ jobs' = 0 /\ senders' = 0
  /\ focusing' = FALSE /\ owed' = FALSE
  /\ UNCHANGED <<world, aim, asking, tally>>

Start == OpenBus \/ Seed \/ Subscribe
Stop  == SendShutdown \/ AbortWorkers

Next ==
  \/ \E p \in Process : Switch(p)
  \/ \E kind \in {"window", "title"} : Change(kind)
  \/ \E c \in calls : Answer(c) \/ CallFails(c)
  \/ Dispatch \/ Forward \/ FirstFocus \/ Ask \/ AskSend
  \/ Coordinate \/ Elapse \/ TimerSends \/ SenderSends \/ RunJobs
  \/ Start \/ Detach \/ Stop

Spec == Init /\ [][Next]_vars

-----------------------------------------------------------------------------
(* Properties                                                               *)

Applications == {None} \cup {Bundle[p] : p \in Process}

ScreenTypes ==
  /\ front \in Process /\ reported \in Applications /\ lastBundle \in Applications
  /\ activations \in Seq(Process)

AimTypes ==
  /\ watch \in Process \cup {None} /\ target \in Process \cup {None}
  /\ calls \subseteq [do : {"subscribe", "unsubscribe"}, pid : Process]
  /\ notices \in Seq([kind : {"window", "title"}, pid : Process])

FlowTypes ==
  /\ bus \in Seq({"activated", "nowhere", "window", "title", "manual", "shutdown"})
  /\ timer \in {"none", "asleep", "due"} /\ senders \in Nat /\ jobs \in Nat
  /\ runner \in {"off", "wait", "taken", "tick"}
  /\ op \in {"stopped", "bus", "seeded", "running", "detached", "signalled"}
  /\ events \in Nat /\ starts \in Nat

FlagTypes ==
  /\ subscriber \in BOOLEAN /\ observer \in BOOLEAN /\ missed \in BOOLEAN
  /\ focusing \in BOOLEAN /\ asking \in BOOLEAN
  /\ coordinator \in BOOLEAN /\ owed \in BOOLEAN

EventsTypeOK == ScreenTypes /\ AimTypes /\ FlowTypes /\ FlagTypes

Carried ==
  \/ \E i \in DOMAIN bus : bus[i] \notin {"nowhere", "shutdown"}
  \/ timer # "none" \/ senders > 0 \/ jobs > 0 \/ runner = "taken"

(* While capture runs, a change that was offered to the bus after the last  *)
(* snapshot began will still be looked at: an event, a delay, a job or the  *)
(* runner stands for it.  Events are dropped when the bus is full           *)
(* (event_bus.rs, try_send), jobs are aborted to be replaced (fire), and a  *)
(* snapshot under way does not count, for it looked before the change.      *)
AcceptedIsCarried == Running /\ owed => Carried

(* Once calls and events have come to rest, the observer aims at the        *)
(* process in front and the helper watches it, so that changes of its       *)
(* windows reach the bus (pid_setter, set_target_pid, the check of the pid  *)
(* in the forwarder).  `missed` is what the code does not mend: a call that *)
(* failed or that another overtook; a probe without an answer; a switch    *)
(* handled between the seed and the subscription; a start that finds calls  *)
(* or activations of the last one under way; an event lost to a lag; and a  *)
(* switch to another process of the application reported last, which the    *)
(* helper leaves out.                                                       *)
AxFollowsFront ==
  op = "running" /\ ~missed /\ calls = {} /\ activations = <<>> /\ front # Us
    => target = front /\ watch = front
=============================================================================
