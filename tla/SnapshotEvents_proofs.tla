-------------------------- MODULE SnapshotEvents_proofs --------------------------
(* A change offered to the bus is carried to a snapshot, for every number   *)
(* of processes and every capacity of the bus and the queue.                *)
EXTENDS SnapshotEvents, TLAPS

Kinds == {"activated", "nowhere", "window", "title", "manual", "shutdown"}

(* A full bus holds something a job is made of: only one event in it can be *)
(* without an application, the first focus, and Shutdown comes last.        *)
BusOK ==
  /\ \A i, j \in DOMAIN bus : bus[i] = "nowhere" /\ bus[j] = "nowhere" => i = j
  /\ focusing \/ op \in {"stopped", "bus", "seeded"} =>
       \A i \in DOMAIN bus : bus[i] # "nowhere"
  /\ op # "signalled" => \A i \in DOMAIN bus : bus[i] # "shutdown"

(* Who is at work at each point of a start or a stop.                       *)
CrewOK ==
  /\ op # "running" => ~subscriber
  /\ op \in {"stopped", "detached", "signalled"} => ~observer
  /\ op \in {"stopped", "signalled"} => ~asking
  /\ op = "running" => runner # "off"
  /\ op \in {"stopped", "bus", "seeded"} =>
       /\ ~coordinator /\ ~focusing /\ runner = "off"
       /\ timer = "none" /\ senders = 0 /\ jobs = 0
  /\ op = "stopped" => bus = <<>> /\ ~owed

IInv == EventsTypeOK /\ BusOK /\ CrewOK /\ AcceptedIsCarried

LEMMA HeadAndTail ==
  ASSUME NEW S, NEW q \in Seq(S), q # <<>>
  PROVE  Head(q) \in S /\ Tail(q) \in Seq(S)
OBVIOUS

LEMMA TailIsShifted ==
  ASSUME NEW S, NEW q \in Seq(S), q # <<>>
  PROVE  /\ Len(q) \in Nat \ {0} /\ DOMAIN q = 1 .. Len(q) /\ q[1] = Head(q)
         /\ DOMAIN Tail(q) = 1 .. (Len(q) - 1)
         /\ \A i \in 1 .. (Len(q) - 1) : Tail(q)[i] = q[i + 1]
OBVIOUS

LEMMA OfferType ==
  ASSUME NEW S, NEW q \in Seq(S), NEW e \in S
  PROVE  Offer(q, e) \in Seq(S)
<1>1. CASE Len(q) < LineCapacity
  BY <1>1 DEF Offer
<1>2. CASE ~(Len(q) < LineCapacity)
  <2>1. q # <<>>
    BY <1>2, EventsAssumption
  <2>2. Tail(q) \in Seq(S)
    BY <2>1, HeadAndTail
  <2>. QED
    BY <1>2, <2>2 DEF Offer
<1>. QED
  BY <1>1, <1>2

LEMMA InitInv == Init => IInv
<1>. SUFFICES ASSUME Init PROVE IInv
  OBVIOUS
<1>. USE DEF Init
<1>1. ScreenTypes /\ AimTypes /\ FlowTypes
  BY DEF ScreenTypes, AimTypes, FlowTypes, Applications
<1>2. FlagTypes
  BY DEF FlagTypes
<1>3. bus = <<>> /\ DOMAIN bus = {}
  OBVIOUS
<1>4. BusOK /\ CrewOK /\ AcceptedIsCarried
  BY <1>3 DEF BusOK, CrewOK, AcceptedIsCarried
<1>. QED
  BY <1>1, <1>2, <1>4 DEF IInv, EventsTypeOK

(* The bus takes an event, or is full and holds one already.                *)
LEMMA PublishInv ==
  ASSUME IInv, EventsTypeOK', NEW e \in Kinds \ {"shutdown"}, Publish(e),
         op # "stopped", UNCHANGED <<op, subscriber, observer>>,
         asking' => asking, focusing' => focusing,
         e = "nowhere" => focusing /\ ~focusing'
  PROVE  IInv'
<1>. USE DEF IInv
<1>2. BusOK'
  <2>1. CASE bus' = bus
    BY <2>1 DEF BusOK
  <2>2. CASE bus' = Append(bus, e)
    <3>1. /\ Len(bus') = Len(bus) + 1 /\ DOMAIN bus' = 1 .. (Len(bus) + 1) /\ DOMAIN bus = 1 .. Len(bus)
          /\ bus'[Len(bus) + 1] = e /\ \A i \in 1 .. Len(bus) : bus'[i] = bus[i]
      BY <2>2 DEF EventsTypeOK, FlowTypes
    <3>. QED
      <4>1. e = "nowhere" => focusing /\ op \notin {"stopped", "bus", "seeded"}
        BY DEF CrewOK
      <4>2. \A i, j \in DOMAIN bus' : bus'[i] = "nowhere" /\ bus'[j] = "nowhere" => i = j
        BY <3>1, <4>1 DEF BusOK
      <4>3. focusing' \/ op' \in {"stopped", "bus", "seeded"} =>
              \A i \in DOMAIN bus' : bus'[i] # "nowhere"
        BY <3>1, <4>1 DEF BusOK
      <4>4. op' # "signalled" => \A i \in DOMAIN bus' : bus'[i] # "shutdown"
        BY <3>1 DEF BusOK
      <4>. QED
        BY <4>2, <4>3, <4>4 DEF BusOK
  <2>. QED
    BY <2>1, <2>2 DEF Publish
<1>3. CrewOK'
  BY DEF CrewOK, Publish
<1>4. AcceptedIsCarried'
  <2>. SUFFICES ASSUME Running, owed' PROVE Carried'
    BY DEF AcceptedIsCarried, Running
  <2>1. CASE bus' = Append(bus, e)
    <3>1. /\ DOMAIN bus' = 1 .. (Len(bus) + 1) /\ DOMAIN bus = 1 .. Len(bus)
          /\ bus'[Len(bus) + 1] = e /\ \A i \in 1 .. Len(bus) : bus'[i] = bus[i]
      BY <2>1 DEF EventsTypeOK, FlowTypes
    <3>2. CASE e # "nowhere"
      BY <3>1, <3>2 DEF Carried, EventsTypeOK, FlowTypes
    <3>3. CASE e = "nowhere"
      <4>1. Carried
        BY <3>3 DEF AcceptedIsCarried, Publish
      <4>. QED
        BY <4>1, <3>1 DEF Carried, Publish
    <3>. QED
      BY <3>2, <3>3
  <2>2. CASE bus' = bus
    <3>1. ~(Len(bus) < BusCapacity)
      <4>1. bus # Append(bus, e)
        BY DEF EventsTypeOK, FlowTypes
      <4>. QED
        BY <2>2, <4>1 DEF Publish, Closed, Running
    <3>2. Len(bus) >= 2 /\ DOMAIN bus = 1 .. Len(bus) /\ Len(bus) \in Nat
      BY <3>1, EventsAssumption DEF EventsTypeOK, FlowTypes
    <3>3. bus[1] # "nowhere" \/ bus[2] # "nowhere"
      BY <3>2 DEF BusOK
    <3>4. bus[1] # "shutdown" /\ bus[2] # "shutdown"
      BY <3>2 DEF BusOK, Running
    <3>. QED
      BY <2>2, <3>2, <3>3, <3>4 DEF Carried
  <2>. QED
    BY <2>1, <2>2 DEF Publish
<1>. QED
  BY <1>2, <1>3, <1>4

(* The coordinator takes the first event and makes a job of it, unless it   *)
(* names no application.                                                    *)
LEMMA TakesInv ==
  ASSUME IInv, EventsTypeOK', NEW e \in Kinds \ {"shutdown"}, Takes(e), coordinator',
         \/ e = "nowhere" /\ UNCHANGED <<senders, timer>>
         \/ senders' > 0
         \/ timer' # "none" /\ UNCHANGED senders
  PROVE  IInv'
<1>. USE DEF IInv, Takes, control, flow, world, aim, tally
<1>1. /\ DOMAIN bus' = 1 .. (Len(bus) - 1) /\ DOMAIN bus = 1 .. Len(bus) /\ Len(bus) \in Nat \ {0}
      /\ \A i \in 1 .. (Len(bus) - 1) : bus'[i] = bus[i + 1]
      /\ bus[1] = e
  <2>1. bus \in Seq(Kinds) /\ bus # <<>> /\ Head(bus) = e /\ bus' = Tail(bus)
    BY DEF EventsTypeOK, FlowTypes, Kinds
  <2>. QED
    BY <2>1, TailIsShifted
<1>3. BusOK'
  BY <1>1 DEF BusOK
<1>4. CrewOK'
  BY DEF CrewOK
<1>5. AcceptedIsCarried'
  <2>. SUFFICES ASSUME Running, owed PROVE Carried'
    BY DEF AcceptedIsCarried, Running
  <2>1. CASE e = "nowhere" /\ UNCHANGED <<senders, timer>>
    <3>1. Carried
      BY DEF AcceptedIsCarried
    <3>2. ASSUME NEW i \in DOMAIN bus, bus[i] \notin {"nowhere", "shutdown"}
          PROVE  Carried'
      <4>1. i - 1 \in DOMAIN bus' /\ bus'[i - 1] = bus[i]
        BY <1>1, <2>1, <3>2
      <4>. QED
        BY <4>1, <3>2 DEF Carried
    <3>. QED
      BY <2>1, <3>1, <3>2 DEF Carried
  <2>2. CASE senders' > 0 \/ timer' # "none"
    BY <2>2 DEF Carried
  <2>. QED
    BY <2>1, <2>2
<1>. QED
  BY <1>3, <1>4, <1>5

LEMMA StepInv == EventsTypeOK' /\ IInv /\ [Next]_vars => IInv'
<1>. SUFFICES ASSUME EventsTypeOK', IInv, [Next]_vars PROVE IInv'
  OBVIOUS
<1>. USE DEF IInv
<1>a. ASSUME UNCHANGED <<flow, control, subscriber, observer>> PROVE IInv'
  BY <1>a DEF flow, control, BusOK, CrewOK, AcceptedIsCarried, Running, Carried
<1>1. ASSUME NEW p \in Process, Switch(p) PROVE IInv'
  BY <1>1, <1>a DEF Switch
<1>2. ASSUME NEW kind \in {"window", "title"}, Change(kind) PROVE IInv'
  BY <1>2, <1>a DEF Change, aim
<1>3. ASSUME NEW c \in calls, Answer(c) \/ CallFails(c) PROVE IInv'
  BY <1>3, <1>a DEF Answer, CallFails
<1>4. ASSUME Dispatch PROVE IInv'
  <2>1. CASE UNCHANGED flow
    BY <1>4, <2>1, <1>a DEF Dispatch
  <2>2. CASE subscriber /\ Publish("activated")
    BY <1>4, <2>2, PublishInv DEF Kinds, Dispatch, control, CrewOK
  <2>. QED
    BY <1>4, <2>1, <2>2 DEF Dispatch
<1>5. ASSUME Forward PROVE IInv'
  <2>1. CASE UNCHANGED flow
    BY <1>5, <2>1, <1>a DEF Forward, aim
  <2>2. CASE Publish(Head(notices).kind)
    <3>1. Head(notices).kind \in {"window", "title"}
      <4>1. Head(notices) \in [kind : {"window", "title"}, pid : Process]
        BY <1>5, HeadAndTail DEF Forward, EventsTypeOK, AimTypes
      <4>. QED
        BY <4>1
    <3>2. observer /\ UNCHANGED <<control, aim>>
      BY <1>5 DEF Forward
    <3>3. op # "stopped"
      BY <3>2 DEF CrewOK
    <3>. QED
      BY <2>2, <3>1, <3>2, <3>3, PublishInv DEF Kinds, control, aim
  <2>. QED
    BY <1>5, <2>1, <2>2 DEF Forward
<1>6. ASSUME FirstFocus PROVE IInv'
  BY <1>6, PublishInv DEF FirstFocus, Kinds, CrewOK, aim
<1>7. ASSUME Ask \/ AskSend PROVE IInv'
  <2>1. CASE Ask
    BY <2>1 DEF Ask, flow, aim, BusOK, CrewOK, AcceptedIsCarried, Running, Carried
  <2>2. CASE AskSend
    BY <2>2, PublishInv DEF AskSend, Kinds, CrewOK, aim
  <2>. QED
    BY <1>7, <2>1, <2>2
<1>8. ASSUME Coordinate PROVE IInv'
  <2>1. CASE Ignore
    BY <2>1, TakesInv DEF Ignore, Kinds, Takes, EventsTypeOK, FlowTypes
  <2>2. CASE FireLater
    BY <2>2, TakesInv DEF FireLater, Kinds, Takes, EventsTypeOK, FlowTypes
  <2>3. CASE ShutDown
    <3>1. op = "signalled" /\ bus' = <<>> /\ DOMAIN bus' = {}
      BY <2>3 DEF ShutDown, EventsTypeOK, FlowTypes, BusOK
    <3>. QED
      BY <2>3, <3>1 DEF ShutDown, BusOK, CrewOK, AcceptedIsCarried, Running, aim, control
  <2>4. ASSUME NEW e \in {"activated", "window", "manual"}, FireAtOnce(e) PROVE IInv'
    BY <2>4, TakesInv DEF FireAtOnce, Kinds, Takes, EventsTypeOK, FlowTypes
  <2>. QED
    BY <1>8, <2>1, <2>2, <2>3, <2>4 DEF Coordinate
<1>9. ASSUME Elapse \/ TimerSends \/ SenderSends PROVE IInv'
  <2>. USE DEF Elapse, TimerSends, SenderSends, aim, control, Queued, Room
  <2>1. BusOK'
    BY <1>9 DEF BusOK
  <2>2. CrewOK'
    BY <1>9 DEF CrewOK, EventsTypeOK, FlowTypes
  <2>3. AcceptedIsCarried'
    <3>. SUFFICES ASSUME Running PROVE Carried'
      BY <1>9 DEF AcceptedIsCarried, Running
    <3>1. runner # "off"
      BY <1>9 DEF Running, CrewOK, EventsTypeOK, FlowTypes
    <3>. QED
      BY <1>9, <3>1 DEF Carried, EventsTypeOK, FlowTypes
  <2>. QED
    BY <2>1, <2>2, <2>3
<1>10. ASSUME RunJobs PROVE IInv'
  <2>. USE DEF RunJobs, Take, Look, Tick, Runs, aim, control
  <2>1. BusOK'
    BY <1>10 DEF BusOK
  <2>2. CrewOK'
    BY <1>10 DEF CrewOK, EventsTypeOK, FlowTypes, Running
  <2>3. AcceptedIsCarried'
    BY <1>10 DEF AcceptedIsCarried, Running, Carried, EventsTypeOK, FlowTypes
  <2>. QED
    BY <2>1, <2>2, <2>3
<1>11. ASSUME Start PROVE IInv'
  <2>. USE DEF Start, OpenBus, Seed, Subscribe, flow
  <2>1. BusOK'
    <3>1. bus' = bus
      BY <1>11
    <3>2. CASE focusing' = focusing
      BY <1>11, <3>1, <3>2 DEF BusOK
    <3>3. CASE Subscribe
      BY <1>11, <3>1, <3>3 DEF BusOK
    <3>. QED
      BY <1>11, <3>2, <3>3
  <2>2. CrewOK'
    BY <1>11 DEF CrewOK, EventsTypeOK, FlowTypes
  <2>3. AcceptedIsCarried'
    BY <1>11 DEF AcceptedIsCarried, Running, Carried, CrewOK
  <2>. QED
    BY <2>1, <2>2, <2>3
<1>12. ASSUME Detach PROVE IInv'
  BY <1>12 DEF Detach, flow, BusOK, CrewOK, AcceptedIsCarried, Running
<1>13. ASSUME SendShutdown PROVE IInv'
  <2>1. /\ Len(bus') = Len(bus) + 1 /\ DOMAIN bus' = 1 .. (Len(bus) + 1) /\ DOMAIN bus = 1 .. Len(bus)
        /\ bus'[Len(bus) + 1] = "shutdown" /\ \A i \in 1 .. Len(bus) : bus'[i] = bus[i]
    BY <1>13 DEF SendShutdown, EventsTypeOK, FlowTypes
  <2>2. BusOK'
    BY <1>13, <2>1 DEF SendShutdown, BusOK, EventsTypeOK, FlowTypes
  <2>. QED
    BY <1>13, <2>2 DEF SendShutdown, CrewOK, AcceptedIsCarried, Running, aim
<1>14. ASSUME AbortWorkers PROVE IInv'
  <2>1. bus' = <<>> /\ DOMAIN bus' = {}
    BY <1>14 DEF AbortWorkers
  <2>. QED
    BY <1>14, <2>1 DEF AbortWorkers, BusOK, CrewOK, AcceptedIsCarried, Running, aim
<1>. QED
  BY <1>1, <1>2, <1>3, <1>4, <1>5, <1>6, <1>7, <1>8, <1>9, <1>10, <1>11, <1>12, <1>13, <1>14, <1>a
  DEF Next, Stop, vars, aim

LEMMA FlagStep == FlagTypes /\ [Next]_vars => FlagTypes'
<1>. SUFFICES ASSUME FlagTypes, [Next]_vars PROVE FlagTypes'
  OBVIOUS
<1>. USE DEF FlagTypes, aim, flow, control
<1>p. ASSUME NEW e, Publish(e) PROVE owed' \in BOOLEAN /\ coordinator' \in BOOLEAN
  BY <1>p DEF Publish
<1>m. ASSUME NEW p, Aim(p) PROVE missed' \in BOOLEAN
  BY <1>m DEF Aim
<1>1. ASSUME NEW p \in Process, Switch(p) PROVE FlagTypes'
  BY <1>1 DEF Switch
<1>2. ASSUME NEW kind, Change(kind) PROVE FlagTypes'
  BY <1>2 DEF Change
<1>3. ASSUME NEW c \in calls, Answer(c) \/ CallFails(c) PROVE FlagTypes'
  BY <1>3 DEF Answer, CallFails
<1>4. ASSUME Dispatch PROVE FlagTypes'
  <2>1. missed' \in BOOLEAN
    BY <1>4, <1>m DEF Dispatch
  <2>. QED
    BY <1>4, <2>1, <1>p DEF Dispatch
<1>5. ASSUME Forward PROVE FlagTypes'
  BY <1>5, <1>p DEF Forward
<1>6. ASSUME FirstFocus \/ Ask \/ AskSend PROVE FlagTypes'
  BY <1>6, <1>p DEF FirstFocus, Ask, AskSend
<1>7. ASSUME Coordinate PROVE FlagTypes'
  BY <1>7 DEF Coordinate, Ignore, FireLater, ShutDown, FireAtOnce, Takes
<1>8. ASSUME Elapse \/ TimerSends \/ SenderSends \/ RunJobs PROVE FlagTypes'
  BY <1>8 DEF Elapse, TimerSends, SenderSends, RunJobs, Take, Look, Tick, Runs
<1>9. ASSUME Start PROVE FlagTypes'
  BY <1>9, <1>m DEF Start, OpenBus, Seed, Subscribe
<1>10. ASSUME Detach \/ Stop PROVE FlagTypes'
  BY <1>10 DEF Detach, Stop, SendShutdown, AbortWorkers
<1>. QED
  BY <1>1, <1>2, <1>3, <1>4, <1>5, <1>6, <1>7, <1>8, <1>9, <1>10 DEF Next, vars

LEMMA TypeStep == EventsTypeOK /\ [Next]_vars => EventsTypeOK'
<1>. SUFFICES ASSUME EventsTypeOK, [Next]_vars PROVE EventsTypeOK'
  OBVIOUS
<1>f. FlagTypes'
  BY FlagStep DEF EventsTypeOK
<1>. USE DEF EventsTypeOK
<1>a. ASSUME UNCHANGED <<flow, control, tally>>, ScreenTypes', AimTypes' PROVE EventsTypeOK'
  BY <1>a, <1>f DEF flow, control, tally, FlowTypes
<1>b. ASSUME UNCHANGED <<world, aim>>, FlowTypes' PROVE EventsTypeOK'
  BY <1>b, <1>f DEF world, aim, ScreenTypes, AimTypes, Applications
<1>p. ASSUME NEW e \in Kinds, Publish(e), UNCHANGED <<op, tally>> PROVE FlowTypes'
  BY <1>p DEF Publish, FlowTypes, Kinds, tally
<1>m. ASSUME NEW p \in Process, Aim(p), UNCHANGED <<watch, notices>> PROVE AimTypes'
  BY <1>m DEF Aim, AimTypes
<1>1. ASSUME NEW p \in Process, Switch(p) PROVE EventsTypeOK'
  <2>1. Offer(activations, p) \in Seq(Process)
    BY OfferType DEF ScreenTypes
  <2>2. ScreenTypes'
    BY <1>1, <2>1 DEF Switch, ScreenTypes, Applications
  <2>3. AimTypes'
    BY <1>1 DEF Switch, AimTypes
  <2>4. FlowTypes'
    BY <1>1 DEF Switch, flow, control, FlowTypes
  <2>. QED
    BY <2>2, <2>3, <2>4, <1>f
<1>2. ASSUME NEW kind \in {"window", "title"}, Change(kind) PROVE EventsTypeOK'
  <2>. DEFINE S == [kind : {"window", "title"}, pid : Process]
  <2>1. [kind |-> kind, pid |-> watch] \in S
    BY <1>2 DEF Change, AimTypes
  <2>2. ASSUME NEW n \in S PROVE Offer(notices, n) \in Seq(S)
    <3>1. notices \in Seq(S)
      BY DEF AimTypes
    <3>. HIDE DEF S
    <3>. QED
      BY <3>1, <2>2, OfferType
  <2>3. notices' \in Seq(S)
    BY <1>2, <2>1, <2>2 DEF Change
  <2>4. AimTypes'
    BY <1>2, <2>3 DEF Change, AimTypes, aim
  <2>5. ScreenTypes' /\ FlowTypes'
    BY <1>2 DEF Change, aim, flow, control, ScreenTypes, Applications, FlowTypes
  <2>. QED
    BY <2>4, <2>5, <1>f
<1>3. ASSUME NEW c \in calls, Answer(c) \/ CallFails(c) PROVE EventsTypeOK'
  <2>1. AimTypes'
    BY <1>3 DEF Answer, CallFails, AimTypes
  <2>2. ScreenTypes'
    BY <1>3 DEF Answer, CallFails, ScreenTypes, Applications
  <2>. QED
    BY <1>3, <2>1, <2>2, <1>a DEF Answer, CallFails
<1>4. ASSUME Dispatch PROVE EventsTypeOK'
  <2>1. Head(activations) \in Process /\ Tail(activations) \in Seq(Process)
    BY <1>4 DEF Dispatch, ScreenTypes
  <2>2. ScreenTypes'
    BY <1>4, <2>1 DEF Dispatch, ScreenTypes, Applications
  <2>3. AimTypes'
    <3>1. CASE Aim(Head(activations))
      BY <1>4, <3>1, <2>1, <1>m DEF Dispatch
    <3>2. CASE UNCHANGED <<calls, target>>
      BY <1>4, <3>2 DEF Dispatch, AimTypes
    <3>. QED
      BY <1>4, <3>1, <3>2 DEF Dispatch
  <2>4. FlowTypes'
    <3>1. CASE Publish("activated")
      BY <1>4, <3>1, <1>p DEF Dispatch, Kinds, control
    <3>2. CASE UNCHANGED flow
      BY <1>4, <3>2 DEF Dispatch, flow, control, tally, FlowTypes
    <3>. QED
      BY <1>4, <3>1, <3>2 DEF Dispatch
  <2>. QED
    BY <2>2, <2>3, <2>4, <1>f
<1>5. ASSUME Forward PROVE EventsTypeOK'
  <2>. DEFINE S == [kind : {"window", "title"}, pid : Process]
  <2>1. Head(notices) \in S /\ Tail(notices) \in Seq(S)
    BY <1>5, HeadAndTail DEF Forward, AimTypes
  <2>2. Head(notices).kind \in Kinds
    BY <2>1 DEF Kinds
  <2>3. FlowTypes'
    <3>1. CASE Publish(Head(notices).kind)
      BY <1>5, <3>1, <2>2, <1>p DEF Forward, control
    <3>2. CASE UNCHANGED flow
      BY <1>5, <3>2 DEF Forward, flow, control, tally, FlowTypes
    <3>. QED
      BY <1>5, <3>1, <3>2 DEF Forward
  <2>4. AimTypes'
    BY <1>5, <2>1 DEF Forward, aim, AimTypes
  <2>5. ScreenTypes'
    BY <1>5 DEF Forward, aim, ScreenTypes, Applications
  <2>. QED
    BY <2>3, <2>4, <2>5, <1>f
<1>6. ASSUME FirstFocus \/ Ask \/ AskSend PROVE EventsTypeOK'
  <2>1. FlowTypes'
    <3>1. CASE Ask
      BY <3>1 DEF Ask, flow, FlowTypes
    <3>2. CASE FirstFocus \/ AskSend
      BY <3>2, <1>p DEF FirstFocus, AskSend, Kinds
    <3>. QED
      BY <1>6, <3>1, <3>2
  <2>. QED
    BY <1>6, <2>1, <1>b DEF FirstFocus, Ask, AskSend
<1>7. ASSUME Coordinate PROVE EventsTypeOK'
  <2>1. UNCHANGED <<world, aim, control, tally, jobs, runner>>
    BY <1>7 DEF Coordinate, Ignore, FireLater, ShutDown, FireAtOnce, Takes
  <2>2. bus' \in Seq(Kinds)
    <3>1. bus \in Seq(Kinds) /\ bus # <<>>
      BY <1>7 DEF Coordinate, Ignore, FireLater, ShutDown, FireAtOnce, Takes, FlowTypes, Kinds
    <3>2. Tail(bus) \in Seq(Kinds) /\ <<>> \in Seq(Kinds)
      BY <3>1, HeadAndTail
    <3>3. bus' = Tail(bus) \/ bus' = <<>>
      BY <1>7 DEF Coordinate, Ignore, FireLater, ShutDown, FireAtOnce, Takes
    <3>. QED
      BY <3>2, <3>3
  <2>3. timer' \in {"none", "asleep", "due"} /\ senders' \in Nat
    BY <1>7 DEF Coordinate, Ignore, FireLater, ShutDown, FireAtOnce, FlowTypes
  <2>4. FlowTypes'
    BY <2>1, <2>2, <2>3 DEF FlowTypes, Kinds, control, tally
  <2>. QED
    BY <2>1, <2>4, <1>b
<1>8. ASSUME Elapse \/ TimerSends \/ SenderSends \/ RunJobs PROVE EventsTypeOK'
  <2>. USE DEF Elapse, TimerSends, SenderSends, RunJobs, Take, Look, Tick, Runs
  <2>1. UNCHANGED <<world, aim, control, tally, bus>>
    BY <1>8
  <2>2. timer' \in {"none", "asleep", "due"} /\ senders' \in Nat /\ jobs' \in Nat
    BY <1>8 DEF Queued, FlowTypes
  <2>3. runner' \in {"off", "wait", "taken", "tick"}
    BY <1>8 DEF FlowTypes
  <2>4. FlowTypes'
    BY <2>1, <2>2, <2>3 DEF FlowTypes, control, tally
  <2>. QED
    BY <2>1, <2>4, <1>b
<1>9. ASSUME Start PROVE EventsTypeOK'
  <2>. USE DEF Start, OpenBus, Seed, Subscribe
  <2>1. ScreenTypes'
    BY <1>9 DEF world, ScreenTypes, Applications
  <2>2. AimTypes'
    <3>1. CASE OpenBus \/ Subscribe
      BY <3>1 DEF world, AimTypes
    <3>2. CASE Seed /\ Aim(front)
      BY <3>2, <1>m DEF world, ScreenTypes
    <3>3. CASE Seed /\ UNCHANGED <<calls, target>>
      BY <3>3 DEF world, AimTypes
    <3>. QED
      BY <1>9, <3>1, <3>2, <3>3
  <2>3. FlowTypes'
    BY <1>9 DEF flow, tally, FlowTypes
  <2>. QED
    BY <2>1, <2>2, <2>3, <1>f
<1>10. ASSUME Detach PROVE EventsTypeOK'
  <2>1. ScreenTypes'
    BY <1>10 DEF Detach, ScreenTypes, Applications
  <2>2. calls' \subseteq [do : {"subscribe", "unsubscribe"}, pid : Process]
    BY <1>10 DEF Detach, AimTypes
  <2>3. AimTypes'
    BY <1>10, <2>2 DEF Detach, AimTypes
  <2>4. FlowTypes'
    BY <1>10 DEF Detach, flow, tally, FlowTypes
  <2>. QED
    BY <2>1, <2>3, <2>4, <1>f
<1>11. ASSUME Stop PROVE EventsTypeOK'
  <2>1. FlowTypes'
    <3>1. CASE SendShutdown
      <4>1. bus \in Seq(Kinds) /\ "shutdown" \in Kinds
        BY DEF FlowTypes, Kinds
      <4>2. bus' \in Seq(Kinds)
        BY <3>1, <4>1 DEF SendShutdown
      <4>. QED
        BY <3>1, <4>2 DEF SendShutdown, tally, FlowTypes, Kinds
    <3>2. CASE AbortWorkers
      BY <3>2 DEF AbortWorkers, tally, FlowTypes
    <3>. QED
      BY <1>11, <3>1, <3>2 DEF Stop
  <2>. QED
    BY <1>11, <2>1, <1>b DEF Stop, SendShutdown, AbortWorkers
<1>12. CASE UNCHANGED vars
  BY <1>12, <1>a DEF vars, world, aim, ScreenTypes, Applications, AimTypes
<1>. QED
  BY <1>1, <1>2, <1>3, <1>4, <1>5, <1>6, <1>7, <1>8, <1>9, <1>10, <1>11, <1>12 DEF Next

(* Every variable keeps to its type, whatever the commands, the helper and  *)
(* the workers do.                                                          *)
THEOREM TypeCorrect == Spec => []EventsTypeOK
<1>1. Init => EventsTypeOK
  BY InitInv DEF IInv
<1>. QED
  BY <1>1, TypeStep, PTL DEF Spec

(* While capture runs, a change that was offered to the bus is on its way   *)
(* to a snapshot that has not looked yet.                                   *)
THEOREM AcceptedChangesAreCarried == Spec => []AcceptedIsCarried
<1>1. IInv /\ [Next]_vars => IInv'
  BY TypeStep, StepInv DEF IInv
<1>2. IInv => AcceptedIsCarried
  BY DEF IInv
<1>. QED
  BY InitInv, <1>1, <1>2, PTL DEF Spec
-----------------------------------------------------------------------------
(* The observer follows the front *)

(* What is in front stands last in line, or the observer aims at it, or it  *)
(* is Corivo.                                                               *)
FrontIsKnown ==
  IF activations = <<>> THEN op = "bus" \/ target = front \/ front = Us
                        ELSE activations[Len(activations)] = front

(* The helper watches what the observer aims at, or is being asked to.      *)
TargetIsKnown ==
  /\ op = "bus" => calls = {} /\ target = None
  /\ op # "bus" => IF calls = {} THEN watch = target
                                 ELSE calls = {[do |-> "subscribe", pid |-> target]}

(* Nothing of this has to hold once something went missing.                 *)
Aiming ==
  /\ op = "running" => subscriber
  /\ ~missed /\ Running => FrontIsKnown /\ TargetIsKnown

(* The newest event is the last of the line, also when it pushed one out.   *)
LEMMA OfferLast ==
  ASSUME NEW S, NEW q \in Seq(S), NEW e \in S
  PROVE  Offer(q, e) # <<>> /\ Offer(q, e)[Len(Offer(q, e))] = e
<1>1. ASSUME NEW r \in Seq(S)
      PROVE  Append(r, e) # <<>> /\ Append(r, e)[Len(Append(r, e))] = e
  OBVIOUS
<1>2. CASE Len(q) < LineCapacity
  BY <1>1, <1>2 DEF Offer
<1>3. CASE ~(Len(q) < LineCapacity)
  <2>1. q # <<>>
    BY <1>3, EventsAssumption
  <2>2. Tail(q) \in Seq(S)
    BY <2>1, HeadAndTail
  <2>. QED
    BY <1>1, <1>3, <2>2 DEF Offer
<1>. QED
  BY <1>2, <1>3

LEMMA TailLast ==
  ASSUME NEW S, NEW q \in Seq(S), q # <<>>
  PROVE  /\ Tail(q) = <<>> => Head(q) = q[Len(q)]
         /\ Tail(q) # <<>> => Tail(q)[Len(Tail(q))] = q[Len(q)]
<1>. DEFINE r == Tail(q)
<1>1. /\ r \in Seq(S) /\ Len(r) = Len(q) - 1 /\ Len(q) \in Nat \ {0} /\ q[1] = Head(q)
      /\ \A i \in 1 .. (Len(q) - 1) : r[i] = q[i + 1]
  BY HeadAndTail, TailIsShifted
<1>. HIDE DEF r
<1>2. r = <<>> <=> Len(r) = 0
  BY <1>1
<1>3. CASE r = <<>>
  BY <1>1, <1>2, <1>3 DEF r
<1>4. CASE r # <<>>
  <2>1. Len(r) \in 1 .. (Len(q) - 1) /\ Len(r) + 1 = Len(q)
    BY <1>1, <1>2, <1>4
  <2>. QED
    BY <1>1, <1>4, <2>1 DEF r
<1>. QED
  BY <1>3, <1>4

(* Aiming anew with no other call under way makes one call; with another it *)
(* counts as missed.                                                        *)
LEMMA AimStep ==
  ASSUME NEW p, Aim(p), ~missed', UNCHANGED watch,
         IF calls = {} THEN watch = target \/ (target = None /\ p # None)
                       ELSE calls = {[do |-> "subscribe", pid |-> target]}
  PROVE  /\ target' = p
         /\ IF calls' = {} THEN watch' = target'
                           ELSE calls' = {[do |-> "subscribe", pid |-> target']}
<1>1. target' = p /\ (p # target => calls = {})
  BY DEF Aim
<1>2. CASE p = target
  BY <1>1, <1>2 DEF Aim
<1>3. CASE p # target
  <2>1. calls' = {[do |-> "subscribe", pid |-> p]}
    BY <1>1, <1>3 DEF Aim
  <2>. QED
    BY <1>1, <2>1
<1>. QED
  BY <1>2, <1>3

LEMMA AimingInit == Init => Aiming
BY DEF Init, Aiming, Running

LEMMA AimingStep == EventsTypeOK /\ CrewOK /\ Aiming /\ [Next]_vars => Aiming'
<1>. SUFFICES ASSUME EventsTypeOK, CrewOK, Aiming, [Next]_vars PROVE Aiming'
  OBVIOUS
<1>. USE DEF Running
<1>t. front \in Process /\ activations \in Seq(Process) /\ None \notin Process
  BY EventsAssumption DEF EventsTypeOK, ScreenTypes
<1>1. ASSUME NEW p \in Process, Switch(p) PROVE Aiming'
  <2>1. UNCHANGED <<op, subscriber, calls, watch, target>>
    BY <1>1 DEF Switch, control
  <2>2. ~missed' => ~missed /\ front' = p /\ activations' = Offer(activations, p)
    BY <1>1 DEF Switch
  <2>3. ASSUME ~missed', Running' PROVE FrontIsKnown'
    <3>1. activations' # <<>> /\ activations'[Len(activations')] = p
      BY <1>t, <2>2, <2>3, OfferLast
    <3>. QED
      BY <2>2, <2>3, <3>1 DEF FrontIsKnown
  <2>4. ASSUME ~missed', Running' PROVE TargetIsKnown'
    BY <2>1, <2>2, <2>4 DEF Aiming, TargetIsKnown
  <2>. QED
    BY <2>1, <2>3, <2>4 DEF Aiming
<1>2. ASSUME NEW c \in calls, Answer(c) PROVE Aiming'
  <2>1. UNCHANGED <<op, subscriber, target, activations, front, missed>>
    BY <1>2 DEF Answer, control
  <2>2. ASSUME ~missed, Running PROVE TargetIsKnown'
    <3>1. TargetIsKnown
      BY <2>2 DEF Aiming
    <3>2. op # "bus" /\ c = [do |-> "subscribe", pid |-> target]
          /\ calls = {[do |-> "subscribe", pid |-> target]}
      BY <3>1 DEF TargetIsKnown
    <3>3. calls' = {}
      BY <1>2, <3>2 DEF Answer
    <3>4. watch' = target
      <4>1. c.do = "subscribe" /\ c.pid = target
        BY <3>2
      <4>. QED
        BY <1>2, <4>1 DEF Answer
    <3>. QED
      BY <2>1, <3>2, <3>3, <3>4 DEF TargetIsKnown
  <2>. QED
    BY <2>1, <2>2 DEF Aiming, FrontIsKnown
<1>3. ASSUME NEW c \in calls, CallFails(c) PROVE Aiming'
  <2>1. missed' /\ UNCHANGED <<op, subscriber>>
    BY <1>3 DEF CallFails, control
  <2>. QED
    BY <2>1 DEF Aiming
<1>4. ASSUME Dispatch PROVE Aiming'
  <2>. DEFINE p == Head(activations)
  <2>1. UNCHANGED <<op, subscriber, watch, front>>
        /\ activations # <<>> /\ activations' = Tail(activations) /\ p \in Process
    BY <1>4, <1>t, HeadAndTail DEF Dispatch, control
  <2>2. \/ subscriber /\ Aim(p)
        \/ /\ missed' = (missed \/ (op = "seeded" /\ p # target))
           /\ UNCHANGED <<calls, target>>
           /\ ~subscriber \/ p = Us
    BY <1>4 DEF Dispatch
  <2>. SUFFICES ASSUME ~missed', Running' PROVE FrontIsKnown' /\ TargetIsKnown'
    BY <2>1 DEF Aiming
  <2>3. ~missed /\ Running /\ FrontIsKnown /\ TargetIsKnown
        /\ (op = "running" <=> subscriber)
    BY <2>1, <2>2 DEF Aim, Aiming, CrewOK
  <2>4. /\ activations' = <<>> => p = front
        /\ activations' # <<>> => activations'[Len(activations')] = front
    BY <1>t, <2>1, <2>3, TailLast DEF FrontIsKnown
  <2>. HIDE DEF p
  <2>5. CASE subscriber /\ Aim(p)
    <3>1. op = "running"
      BY <2>3, <2>5
    <3>2. IF calls = {} THEN watch = target \/ (target = None /\ p # None)
                        ELSE calls = {[do |-> "subscribe", pid |-> target]}
      BY <2>3, <3>1 DEF TargetIsKnown
    <3>3. /\ target' = p
          /\ IF calls' = {} THEN watch' = target'
                            ELSE calls' = {[do |-> "subscribe", pid |-> target']}
      BY <2>1, <2>5, <3>2, AimStep
    <3>. QED
      BY <2>1, <2>4, <3>1, <3>3 DEF FrontIsKnown, TargetIsKnown
  <2>6. CASE /\ missed' = (missed \/ (op = "seeded" /\ p # target))
             /\ UNCHANGED <<calls, target>>
             /\ ~subscriber \/ p = Us
    <3>1. TargetIsKnown'
      BY <2>1, <2>3, <2>6 DEF TargetIsKnown
    <3>2. op = "bus" \/ p = target \/ p = Us
      BY <2>3, <2>6
    <3>3. FrontIsKnown'
      BY <2>1, <2>4, <2>6, <3>2 DEF FrontIsKnown
    <3>. QED
      BY <3>1, <3>3
  <2>. QED
    BY <2>2, <2>5, <2>6
<1>5. CASE OpenBus
  <2>1. op' = "bus" /\ target' = None /\ UNCHANGED <<activations, calls>>
        /\ missed' = (calls # {} \/ activations # <<>>)
    BY <1>5 DEF OpenBus, world
  <2>. QED
    BY <2>1 DEF Aiming, FrontIsKnown, TargetIsKnown
<1>6. CASE Seed
  <2>1. op = "bus" /\ op' = "seeded" /\ UNCHANGED <<watch, front, activations, subscriber>>
        /\ (Aim(front) \/ missed')
    BY <1>6 DEF Seed, world
  <2>. SUFFICES ASSUME ~missed' PROVE FrontIsKnown' /\ TargetIsKnown'
    BY <2>1 DEF Aiming
  <2>2. Aim(front)
    BY <2>1
  <2>3. ~missed /\ FrontIsKnown /\ TargetIsKnown
    BY <2>1, <2>2 DEF Aim, Aiming
  <2>4. calls = {} /\ target = None
    BY <2>1, <2>3 DEF TargetIsKnown
  <2>5. IF calls = {} THEN watch = target \/ (target = None /\ front # None)
                      ELSE calls = {[do |-> "subscribe", pid |-> target]}
    BY <1>t, <2>4
  <2>6. /\ target' = front
        /\ IF calls' = {} THEN watch' = target'
                          ELSE calls' = {[do |-> "subscribe", pid |-> target']}
    BY <2>1, <2>2, <2>5, AimStep
  <2>. QED
    BY <2>1, <2>3, <2>6 DEF FrontIsKnown, TargetIsKnown
<1>7. CASE Subscribe
  <2>1. op = "seeded" /\ op' = "running" /\ subscriber'
        /\ UNCHANGED <<watch, front, activations, calls, target, missed>>
    BY <1>7 DEF Subscribe, world
  <2>. QED
    BY <2>1 DEF Aiming, FrontIsKnown, TargetIsKnown
<1>8. CASE Detach \/ Stop
  BY <1>8 DEF Detach, Stop, SendShutdown, AbortWorkers, Aiming
<1>9. ASSUME UNCHANGED <<op, subscriber, missed, front, activations, calls, target, watch>>
      PROVE  Aiming'
  BY <1>9 DEF Aiming, FrontIsKnown, TargetIsKnown
<1>10. CASE \E kind \in {"window", "title"} : Change(kind)
  BY <1>9, <1>10 DEF Change, aim, control
<1>11. CASE Forward \/ FirstFocus \/ Ask \/ AskSend
  BY <1>9, <1>11 DEF Forward, FirstFocus, Ask, AskSend, world, aim, control
<1>12. CASE Coordinate
  BY <1>9, <1>12 DEF Coordinate, Ignore, FireLater, ShutDown, FireAtOnce, Takes, world, aim, control
<1>13. CASE Elapse \/ TimerSends \/ SenderSends \/ RunJobs
  BY <1>9, <1>13 DEF Elapse, TimerSends, SenderSends, RunJobs, Take, Look, Tick, Runs, world, aim, control
<1>14. CASE UNCHANGED vars
  BY <1>9, <1>14 DEF vars, world, aim, control
<1>. QED
  BY <1>1, <1>2, <1>3, <1>4, <1>5, <1>6, <1>7, <1>8, <1>10, <1>11, <1>12, <1>13, <1>14
  DEF Next, Start

(* While capture runs and nothing went missing on the way, the observer     *)
(* aims at the process in front and the helper watches it once its events   *)
(* and calls have come to rest (ax_observer.rs set_target_pid, the monitor  *)
(* of foreground_monitor/helper.rs).                                        *)
THEOREM FrontIsFollowed == Spec => []AxFollowsFront
<1>1. IInv /\ Aiming /\ [Next]_vars => IInv' /\ Aiming'
  BY TypeStep, StepInv, AimingStep DEF IInv
<1>2. Aiming => AxFollowsFront
  BY DEF Aiming, Running, FrontIsKnown, TargetIsKnown, AxFollowsFront
<1>. QED
  BY InitInv, AimingInit, <1>1, <1>2, PTL DEF Spec

=============================================================================
