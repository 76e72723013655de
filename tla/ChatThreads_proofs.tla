------------------------ MODULE ChatThreads_proofs ------------------------
(* The two parts that write to a chat thread.  AgentTurns: a turn settles   *)
(* its row, tells the window of its end once and is stopped only on         *)
(* purpose.  SessionLearner: a message is not passed by without a reason,   *)
(* and the idle hook queues a thread once.                                  *)
EXTENDS AgentTurns, SessionLearner, FiniteSetTheorems, FunctionTheorems, TLAPS

-----------------------------------------------------------------------------
(* AgentTurns: how a turn ends, for every set of turns, threads and windows *)
(* and every number of crashes.                                             *)

(* Before the turn's end is decided on.                                     *)
Early == {"idle", "asked", "preparing", "starting", "pumping", "ended", "reaping"}

Reason == {"EndTurn", "Error", "Cancelled"}

TurnTypes ==
  /\ at \in [Turn -> Early \cup {"leaving", "failing", "finalizing", "over", "unsaved", "lost"}]
  /\ row \in [Turn -> {"none", "streaming", "complete", "error", "cancelled"}]
  /\ heard \in [Turn -> SUBSET ({"error"} \cup Reason)]
  /\ reason \in [Turn -> {"none"} \cup Reason]
  /\ finishes \in [Turn -> Nat]
  /\ pending \in [Thread -> Turn \cup {NoTurn}]
  /\ permit \in SUBSET Turn /\ failed \in SUBSET Turn /\ wanted \in SUBSET Turn
  /\ sweep \in BOOLEAN

(* What a window knows of a turn whose finish it has heard.                 *)
HeardWhy(t) ==
  /\ "EndTurn" \in heard[t] \/ "Error" \in heard[t] \/ "Cancelled" \in heard[t]
  /\ "EndTurn" \notin heard[t] \/ "Error" \notin heard[t]

(* Who still owes the window its finish, at each point of a turn.           *)
Told(t) ==
  /\ at[t] \in Early => finishes[t] = 0 /\ t \notin failed /\ heard[t] \subseteq {"error"}
  /\ at[t] = "reaping" => reason[t] # "none"
  /\ at[t] = "failing" => finishes[t] = 0 /\ t \in failed
  /\ at[t] = "leaving" => finishes[t] = 1 /\ t \notin failed /\ HeardWhy(t)
  /\ at[t] = "finalizing" => t \in failed \/ (finishes[t] = 1 /\ HeardWhy(t))
  /\ finishes[t] <= 1
  /\ row[t] = "complete" =>
       at[t] = "over" /\ finishes[t] = 1 /\ heard[t] \in {{"EndTurn"}, {"Error"}}
  /\ at[t] \in {"idle", "asked"} => row[t] = "none"

(* A signal that has not been heard yet was meant for the turn that has it, *)
(* and so was the one that made the runner kill the sidecar.                *)
MeantFor ==
  /\ permit \subseteq wanted
  /\ \A t \in Turn : reason[t] = "Cancelled" => t \in wanted

IInv ==
  /\ TurnTypes
  /\ \A t \in Turn : Told(t)
  /\ RowsSettle
  /\ HandlesAreLive
  /\ MeantFor
  /\ CancelledOnPurpose

LEMMA InitInv == Init => IInv
<1>. SUFFICES ASSUME Init PROVE IInv
  OBVIOUS
<1>. USE TurnsAssumption DEF Init
<1>1. sweep \in BOOLEAN
  BY Zenon
<1>2. TurnTypes
  BY <1>1 DEF TurnTypes, Early
<1>3. \A t \in Turn : Told(t)
  BY DEF Told, Early
<1>. QED
  BY <1>2, <1>3 DEF IInv, RowsSettle, HandlesAreLive, MeantFor, CancelledOnPurpose

LEMMA TurnInv ==
  ASSUME IInv, NEW t \in Turn,
         WindowNext(t) \/ CommandNext(t) \/ PumpNext(t) \/ ChildNext(t) \/ Reply(t)
  PROVE  IInv'
<1>. USE TurnsAssumption DEF IInv, TurnTypes, Told, RowsSettle, HandlesAreLive, MeantFor,
     CancelledOnPurpose, Goes, Leaves, InFlight, InCommand, Early, Reason, HeardWhy,
     windowVars, commandVars, childVars, appVars
<1>1. CASE Send(t)
  BY <1>1 DEF Send
<1>2. CASE AskFails(t)
  BY <1>2 DEF AskFails
<1>3. CASE StartAssistantMessage(t)
  BY <1>3 DEF StartAssistantMessage
<1>4. CASE FinalizeAssistantMessage(t)
  <2>1. Status(t) = "complete" =>
          t \notin failed /\ "error" \notin heard[t] /\ "Cancelled" \notin heard[t]
    BY DEF Status
  <2>2. Status(t) = "complete" => finishes[t] = 1 /\ heard[t] \in {{"EndTurn"}, {"Error"}}
    BY <1>4, <2>1 DEF FinalizeAssistantMessage
  <2>3. Status(t) \in {"error", "cancelled", "complete"}
    BY DEF Status
  <2>. QED
    BY <1>4, <2>2, <2>3 DEF FinalizeAssistantMessage
<1>5. CASE FinalizeFails(t)
  BY <1>5 DEF FinalizeFails
<1>6. CASE PreparationFails(t)
  BY <1>6 DEF PreparationFails
<1>7. CASE Register(t)
  BY <1>7 DEF Register
<1>8. CASE StartFails(t)
  BY <1>8 DEF StartFails
<1>9. CASE Spawn(t)
  BY <1>9 DEF Spawn
<1>10. CASE Cancelled(t)
  BY <1>10 DEF Cancelled, EndsWith
<1>11. CASE Finish(t)
  BY <1>11 DEF Finish, Tells
<1>12. CASE Deregister(t)
  <2>1. CASE t \in failed
    BY <1>12, <2>1 DEF Deregister, Unhandle, TellsFailure, Tells
  <2>2. CASE t \notin failed
    <3>1. UNCHANGED <<row, heard, finishes, reason, failed, permit, wanted, sweep>>
      BY <1>12, <2>2 DEF Deregister
    <3>. QED
      BY <1>12, <2>2, <3>1 DEF Deregister, Unhandle
  <2>. QED
    BY <2>1, <2>2
<1>13. CASE Forward(t)
  <2>1. UNCHANGED <<at, row, finishes, reason, pending, permit, failed, wanted, sweep>> /\ at[t] = "pumping"
    BY <1>13 DEF Forward, Pumps
  <2>2. heard' = heard \/ heard' = [heard EXCEPT ![t] = @ \cup {"error"}]
    BY <1>13 DEF Forward
  <2>3. heard' \in [Turn -> SUBSET ({"error"} \cup Reason)]
    BY <2>2
  <2>4. \A u \in Turn : heard'[u] = heard[u] \/ (u = t /\ heard'[u] = heard[u] \cup {"error"})
    BY <2>2
  <2>. QED
    BY <2>1, <2>3, <2>4
<1>14. CASE AgentEnd(t)
  BY <1>14 DEF AgentEnd, EndsWith, Pumps
<1>15. CASE AuthFailed(t)
  BY <1>15 DEF AuthFailed, EndsWith, Pumps
<1>16. CASE EndOfOutput(t)
  BY <1>16 DEF EndOfOutput, Pumps
<1>17. CASE ReadFails(t)
  BY <1>17 DEF ReadFails, Pumps
<1>18. CASE AskPermission(t)
  BY <1>18 DEF AskPermission
<1>19. CASE ChildExits(t)
  BY <1>19 DEF ChildExits
<1>20. CASE Reply(t)
  BY <1>20 DEF Reply
<1>. QED
  BY <1>1, <1>2, <1>3, <1>4, <1>5, <1>6, <1>7, <1>8, <1>9, <1>10, <1>11, <1>12, <1>13, <1>14, <1>15, <1>16, <1>17, <1>18, <1>19, <1>20 DEF WindowNext, CommandNext, PumpNext, ChildNext

LEMMA NextInv == IInv /\ [Next]_vars => IInv'
<1>. SUFFICES ASSUME IInv, [Next]_vars PROVE IInv'
  OBVIOUS
<1>. USE TurnsAssumption
<1>1. ASSUME NEW w \in Window, NEW h \in Thread, Stop(w, h)
      PROVE  IInv'
  <2>. DEFINE stopped == {t \in Turn : ThreadOf[t] = h /\ at[t] \in InCommand}
  <2>1. permit' = permit \cup ({pending[h]} \ {NoTurn}) /\ wanted' = wanted \cup stopped
    BY <1>1 DEF Stop
  <2>2. {pending[h]} \ {NoTurn} \subseteq stopped
    BY DEF IInv, TurnTypes, HandlesAreLive
  <2>3. UNCHANGED <<at, row, heard, failed, finishes, reason, pending, sweep>>
    BY <1>1 DEF Stop, windowVars
  <2>. QED
    BY <2>1, <2>2, <2>3 DEF IInv, TurnTypes, Told, RowsSettle, HandlesAreLive, MeantFor, HeardWhy,
       CancelledOnPurpose
<1>2. CASE Crash
  <2>. USE DEF IInv, TurnTypes, Told, Early, InFlight, InCommand
  <2>1. /\ at' = [t \in Turn |-> IF at[t] \in InFlight \cup {"unsaved"} THEN "lost" ELSE at[t]]
        /\ heard' = [t \in Turn |-> IF at[t] = "over" THEN heard[t] ELSE {}]
        /\ wanted' = {t \in wanted : at[t] = "over"}
        /\ reason' = [t \in Turn |-> "none"] /\ failed' = {} /\ permit' = {}
        /\ pending' = [h \in Thread |-> NoTurn] /\ sweep' = TRUE /\ UNCHANGED <<row, finishes>>
    BY <1>2 DEF Crash
  <2>2. sweep' \in BOOLEAN
    BY <2>1, Zenon
  <2>3. TurnTypes'
    BY <2>1, <2>2
  <2>4. \A t \in Turn : Told(t)'
    BY <2>1
  <2>. QED
    BY <2>1, <2>3, <2>4 DEF RowsSettle, HandlesAreLive, MeantFor, CancelledOnPurpose
<1>3. CASE Sweep
  <2>1. row' = [t \in Turn |-> IF row[t] = "streaming" THEN "cancelled" ELSE row[t]]
    BY <1>3 DEF Sweep
  <2>2. UNCHANGED <<at, heard, failed, finishes, reason, pending, permit, wanted>> /\ sweep' \in BOOLEAN
    BY <1>3, Zenon DEF Sweep, commandVars
  <2>. QED
    BY <2>1, <2>2 DEF IInv, TurnTypes, Told, RowsSettle, HandlesAreLive, MeantFor, HeardWhy, CancelledOnPurpose
<1>4. CASE UNCHANGED vars
  BY <1>4 DEF vars, windowVars, commandVars, appVars, IInv, TurnTypes, Told, RowsSettle,
     HandlesAreLive, MeantFor, HeardWhy, CancelledOnPurpose
<1>. QED
  BY <1>1, <1>2, <1>3, <1>4, TurnInv DEF Next

THEOREM TurnsInductive == Spec => []IInv
BY InitInv, NextInv, PTL DEF Spec

(* chat.rs:16-23: no crash, stop, error or failed write leaves a row that   *)
(* says "streaming" for ever.                                               *)
THEOREM NoRowSpins == Spec => []RowsSettle
<1>1. IInv => RowsSettle
  BY DEF IInv
<1>. QED
  BY <1>1, TurnsInductive, PTL

(* exec_agent.rs:590-606: the runner and the command between them finish a  *)
(* turn at most once, and none is complete that was not finished.           *)
THEOREM ToldOfTheEndOnce == Spec => []FinishedOnce
<1>1. IInv => FinishedOnce
  BY DEF IInv, Told, FinishedOnce
<1>. QED
  BY <1>1, TurnsInductive, PTL

(* exec_agent.rs:585-588: turns that overwrite and remove each other's      *)
(* handles leave none behind that nobody listens to.                        *)
THEOREM NoDeadHandle == Spec => []HandlesAreLive
<1>1. IInv => HandlesAreLive
  BY DEF IInv
<1>. QED
  BY <1>1, TurnsInductive, PTL

(* corivo.rs:449-464: a stop cancels no turn but those that were in flight  *)
(* when it was asked for.                                                   *)
THEOREM StopHitsItsTurn == Spec => []CancelledOnPurpose
<1>1. IInv => CancelledOnPurpose
  BY DEF IInv
<1>. QED
  BY <1>1, TurnsInductive, PTL

-----------------------------------------------------------------------------
(* SessionLearner: what the learner has read of a thread, for every number  *)
(* of messages, threads, failures and restarts.                             *)

USE DEF yield

Task == [thread : ChatThread, after : Nat, by : {"hook", "user"}]

HookType ==
  \/ hook = Asleep
  \/ hook \in [at : {"scan", "clean"}, todo : SUBSET ChatThread]
  \/ hook \in [at : {"compare", "recheck"}, todo : SUBSET ChatThread, thread : ChatThread,
               latest : Nat]

RunType == run = NoRun \/ run \in [at : {"turn", "upsert"}, task : Task, upTo : Nat]

LearnerTypes ==
  /\ messages \in [ChatThread -> Nat] /\ checkpoint \in [ChatThread -> Nat]
  /\ late \in [ChatThread -> SUBSET Nat] /\ learned \in [ChatThread -> SUBSET Nat]
  /\ unsaved \in [ChatThread -> SUBSET Nat]
  /\ quiet \in SUBSET ChatThread /\ inFlight \in SUBSET ChatThread
  /\ HookType /\ line \in Seq(Task) /\ RunType
  /\ misreads \in Nat /\ reruns \in Nat

(* What the learner has passed by of a thread, it has read, with or without  *)
(* storing what it learned, or it came late.                                *)
Settled(th, n) == 1..n \subseteq learned[th] \cup late[th] \cup unsaved[th]

(* A task begins where some checkpoint was; what its turn has not read came  *)
(* late; and what it writes as the checkpoint is settled.                    *)
Windows ==
  /\ \A i \in DOMAIN line : Settled(line[i].thread, line[i].after)
  /\ run # NoRun =>
       LET th == run.task.thread IN
       /\ Settled(th, run.task.after)
       /\ run.at = "turn" /\ run.upTo > 0 => (run.upTo + 1)..messages[th] \subseteq late[th]
       /\ run.at = "upsert" => Settled(th, run.upTo)

(* A thread that waits for its checkpoint to be compared is not marked. *)
Unmarked == hook.at = "compare" => hook.thread \notin inFlight /\ hook.latest > 0

(* The tasks of a thread, and those the hook may yet add to them without a   *)
(* run's end: one if the thread is not marked, one if a mark is about to go. *)
Places(q, th) == {i \in DOMAIN q : q[i].thread = th}
Served(th)    == IF run # NoRun /\ run.task.thread = th THEN 1 ELSE 0

Looks(th, step) == hook.at = step /\ hook.thread = th
Fresh(th) == checkpoint[th] = messages[th]
Free(th)  == IF th \in inFlight THEN 0 ELSE 1
Spare(th) ==
  IF \/ Fresh(th) /\ th \in inFlight
     \/ Fresh(th) /\ Looks(th, "compare") /\ hook.latest # checkpoint[th]
     \/ Looks(th, "recheck") /\ hook.latest = checkpoint[th] /\ th \in inFlight
  THEN 1 ELSE 0

Load(th) == Cardinality(Places(line, th)) + Served(th) + Free(th) + Spare(th)
Balanced == \A th \in ChatThread : Load(th) <= 1 + misreads + reruns

(* A checkpoint is that of a message, and so is what a run has read.         *)
Checkpoints ==
  /\ \A th \in ChatThread :
       checkpoint[th] <= messages[th] /\ Settled(th, checkpoint[th])
  /\ run # NoRun => run.upTo <= messages[run.task.thread]

LearnerInv == LearnerTypes /\ Checkpoints /\ Windows /\ Unmarked /\ Balanced

-----------------------------------------------------------------------------
(* Tasks of a thread in a line *)

LEMMA PlacesFinite ==
  ASSUME NEW S, NEW q \in Seq(S), NEW th
  PROVE  IsFiniteSet(Places(q, th)) /\ Cardinality(Places(q, th)) \in Nat
<1>1. IsFiniteSet(1..Len(q))
  BY FS_Interval
<1>2. Places(q, th) \subseteq 1..Len(q)
  BY DEF Places
<1>. QED
  BY <1>1, <1>2, FS_Subset, FS_CardinalityType

LEMMA AppendPlaces ==
  ASSUME NEW S, NEW q \in Seq(S), NEW x \in S, NEW th
  PROVE  Cardinality(Places(Append(q, x), th)) =
           Cardinality(Places(q, th)) + (IF x.thread = th THEN 1 ELSE 0)
<1>. DEFINE p == Places(q, th)
            n == Len(q) + 1
<1>1. Places(Append(q, x), th) = p \cup (IF x.thread = th THEN {n} ELSE {})
  BY DEF Places
<1>2. n \notin p
  BY DEF Places
<1>3. IsFiniteSet(p) /\ Cardinality(p) \in Nat
  BY PlacesFinite
<1>. HIDE DEF p, n
<1>4. Cardinality(p \cup {n}) = Cardinality(p) + 1
  BY <1>2, <1>3, FS_AddElement
<1>5. p \cup {} = p
  OBVIOUS
<1>6. CASE x.thread = th
  BY <1>1, <1>4, <1>6 DEF p
<1>7. CASE x.thread # th
  BY <1>1, <1>3, <1>5, <1>7 DEF p
<1>. QED
  BY <1>6, <1>7

LEMMA TailPlaces ==
  ASSUME NEW S, NEW q \in Seq(S), q # <<>>, NEW th
  PROVE  Cardinality(Places(q, th)) =
           Cardinality(Places(Tail(q), th)) + (IF Head(q).thread = th THEN 1 ELSE 0)
<1>. DEFINE p    == Places(q, th)
            old  == Places(Tail(q), th)
            rest == p \ {1}
            move == [i \in old |-> i + 1]
<1>1. Tail(q) \in Seq(S) /\ Len(q) \in Nat \ {0} /\ Len(Tail(q)) = Len(q) - 1
      /\ \A i \in 1..(Len(q) - 1) : Tail(q)[i] = q[i + 1]
  OBVIOUS
<1>2. ExistsBijection(old, rest)
  <2>1. \A i \in old : i \in 1..(Len(q) - 1) /\ move[i] \in rest
    BY <1>1 DEF Places
  <2>2. \A j \in rest : j - 1 \in old /\ move[j - 1] = j
    BY <1>1 DEF Places
  <2>3. \A i, k \in old : move[i] = move[k] => i = k
    BY <2>1
  <2>4. move \in [old -> rest]
    BY <2>1
  <2>. HIDE DEF old, rest, move
  <2>. QED
    BY <2>2, <2>3, <2>4, Fun_IsBij, Fun_ExistsBij
<1>3. IsFiniteSet(old) /\ Cardinality(old) \in Nat
  BY <1>1, PlacesFinite
<1>4. IsFiniteSet(p) /\ Cardinality(p) \in Nat
  BY PlacesFinite
<1>5. 1 \in p <=> Head(q).thread = th
  BY <1>1 DEF Places
<1>. HIDE DEF old, p
<1>6. Cardinality(rest) = Cardinality(old)
  BY <1>2, <1>3, FS_Bijection
<1>. HIDE DEF move
<1>7. 1 \in p => Cardinality(rest) = Cardinality(p) - 1
  BY <1>4, FS_RemoveElement
<1>8. 1 \notin p => rest = p
  OBVIOUS
<1>. HIDE DEF rest
<1>9. Cardinality(p) = Cardinality(old) + (IF 1 \in p THEN 1 ELSE 0)
  BY <1>3, <1>4, <1>6, <1>7, <1>8
<1>. QED
  BY <1>5, <1>9 DEF p, old

-----------------------------------------------------------------------------
(* What each action keeps *)

LEMMA LearnerTypesInit == LearnerInit => LearnerTypes
BY DEF LearnerInit, LearnerTypes, HookType, RunType, Asleep

(* The fields of the hook and of the run, where they have them. *)
LEMMA HookFields ==
  ASSUME LearnerTypes
  PROVE  /\ hook.at \in {"scan", "clean"} =>
              hook \in [at : {"scan", "clean"}, todo : SUBSET ChatThread]
         /\ hook.at \in {"compare", "recheck"} =>
              hook \in [at : {"compare", "recheck"}, todo : SUBSET ChatThread,
                         thread : ChatThread, latest : Nat]
BY DEF LearnerTypes, HookType, Asleep

LEMMA RunFields ==
  ASSUME LearnerTypes, run # NoRun \/ run.at \in {"turn", "upsert"}
  PROVE  /\ run \in [at : {"turn", "upsert"}, task : Task, upTo : Nat]
         /\ run # NoRun
         /\ run.task.thread \in ChatThread /\ run.task.after \in Nat /\ run.upTo \in Nat
BY DEF LearnerTypes, RunType, NoRun, Task

LEMMA LearnerTypesStep ==
  ASSUME LearnerTypes, [LearnerNext]_learnerVars
  PROVE  LearnerTypes'
<1>1. CASE \E th \in ChatThread : Post(th) \/ Touch(th) \/ FallQuiet(th)
  <2>. PICK th \in ChatThread : Post(th) \/ Touch(th) \/ FallQuiet(th)
    BY <1>1
  <2>1. messages[th] + 1 \in Nat
    BY DEF LearnerTypes
  <2>2. messages' \in [ChatThread -> Nat]
    BY <2>1 DEF LearnerTypes, Post, Touch, FallQuiet
  <2>3. late[th] \cup {messages[th] + 1} \in SUBSET Nat
    BY <2>1 DEF LearnerTypes
  <2>4. late' \in [ChatThread -> SUBSET Nat]
    BY <2>3 DEF LearnerTypes, Post, Touch, FallQuiet
  <2>5. quiet' \in SUBSET ChatThread
    BY DEF LearnerTypes, Post, Touch, FallQuiet
  <2>. QED
    BY <2>2, <2>4, <2>5 DEF LearnerTypes, HookType, RunType, Post, Touch, FallQuiet, counts
<1>2. CASE \E th \in ChatThread : Rerun(th)
  <2>. PICK th \in ChatThread : Rerun(th)
    BY <1>2
  <2>1. [thread |-> th, after |-> 0, by |-> "user"] \in Task
    BY DEF Task
  <2>. QED
    BY <2>1 DEF Rerun, LearnerTypes, HookType, RunType, chat
<1>3. CASE Wake \/ Scanned \/ Cleaned \/ Recheck
  <2>1. HookType' /\ inFlight' \in SUBSET ChatThread
    <3>1. CASE Wake
      BY <3>1 DEF Wake, HookType, LearnerTypes
    <3>2. CASE Scanned \/ Cleaned
      BY <3>2 DEF Scanned, Cleaned, HookType, LearnerTypes
    <3>3. CASE Recheck
      BY <3>3, HookFields DEF Recheck, HookType, LearnerTypes
    <3>. QED
      BY <1>3, <3>1, <3>2, <3>3
  <2>. QED
    BY <1>3, <2>1 DEF Wake, Scanned, Cleaned, Recheck, LearnerTypes, RunType, chat, counts
<1>4. CASE \E th \in ChatThread : Skip(th) \/ ReadLatest(th) \/ CleanSkip(th) \/ CleanLatest(th)
  <2>. PICK th \in ChatThread : Skip(th) \/ ReadLatest(th) \/ CleanSkip(th) \/ CleanLatest(th)
    BY <1>4
  <2>1. hook.at \in {"scan", "clean"} /\ messages[th] \in Nat
    BY DEF Skip, ReadLatest, CleanSkip, CleanLatest, LearnerTypes
  <2>2. HookType'
    BY <2>1, HookFields DEF Skip, ReadLatest, CleanSkip, CleanLatest, Leave, HookType
  <2>. QED
    BY <2>2 DEF Skip, ReadLatest, CleanSkip, CleanLatest, LearnerTypes, RunType, chat, counts
<1>5. CASE Compare
  <2>1. hook.thread \in ChatThread /\ HookType'
    BY <1>5, HookFields DEF Compare, HookType
  <2>. PICK cp : /\ GetCheckpoint(hook.thread, cp)
                 /\ \/ UNCHANGED <<inFlight, line>>
                    \/ /\ inFlight' = inFlight \cup {hook.thread}
                       /\ line' = Append(line, NewTask(hook.thread, cp))
    BY <1>5 DEF Compare
  <2>2. cp \in Nat /\ misreads' \in Nat
    BY <2>1 DEF GetCheckpoint, LearnerTypes
  <2>3. NewTask(hook.thread, cp) \in Task
    BY <2>1, <2>2 DEF NewTask, Task
  <2>4. inFlight' \in SUBSET ChatThread
    BY <2>1 DEF LearnerTypes
  <2>5. line \in Seq(Task) /\ Append(line, NewTask(hook.thread, cp)) \in Seq(Task)
    BY <2>3 DEF LearnerTypes
  <2>6. line' \in Seq(Task)
    BY <2>5
  <2>. QED
    BY <1>5, <2>1, <2>2, <2>4, <2>6 DEF Compare, LearnerTypes, RunType, chat
<1>6. CASE GiveUp
  BY <1>6 DEF GiveUp, LearnerTypes, HookType, RunType, chat, counts
<1>7. CASE Start
  <2>1. Head(line) \in Task /\ Tail(line) \in Seq(Task)
    BY <1>7 DEF Start, LearnerTypes
  <2>. QED
    BY <1>7, <2>1 DEF Start, LearnerTypes, HookType, RunType, chat, counts
<1>8. CASE ReadThread \/ Fail \/ AdvanceFails
  <2>1. RunType'
    <3>1. CASE ReadThread
      <4>1. messages[run.task.thread] \in Nat
        BY <3>1, RunFields DEF ReadThread, LearnerTypes
      <4>. QED
        BY <3>1, <4>1, RunFields DEF ReadThread, RunType
    <3>. QED
      BY <1>8, <3>1 DEF Fail, AdvanceFails, RunType
  <2>. QED
    BY <1>8, <2>1 DEF ReadThread, Fail, AdvanceFails, LearnerTypes, HookType, chat, counts
<1>9. CASE Store
  <2>1. messages[run.task.thread] \in Nat /\ Batch \in SUBSET Nat
    BY <1>9, RunFields DEF Store, LearnerTypes, Batch
  <2>2. RunType'
    BY <1>9, <2>1, RunFields DEF Store, NewCheckpoint, RunType
  <2>3. learned' \in [ChatThread -> SUBSET Nat] /\ unsaved' \in [ChatThread -> SUBSET Nat]
    <3>1. learned \in [ChatThread -> SUBSET Nat] /\ unsaved \in [ChatThread -> SUBSET Nat]
      BY DEF LearnerTypes
    <3>2. /\ learned' = learned \/ learned' = [learned EXCEPT ![run.task.thread] = @ \cup Batch]
          /\ unsaved' = unsaved \/ unsaved' = [unsaved EXCEPT ![run.task.thread] = @ \cup Batch]
      BY <1>9 DEF Store
    <3>. QED
      BY <2>1, <3>1, <3>2
  <2>. QED
    BY <1>9, <2>2, <2>3 DEF Store, LearnerTypes, HookType, chat, counts
<1>10. CASE Advance
  BY <1>10, RunFields DEF Advance, LearnerTypes, HookType, RunType, chat, counts
<1>11. CASE Restart
  BY <1>11 DEF Restart, LearnerTypes, HookType, RunType, chat
<1>12. CASE UNCHANGED learnerVars
  BY <1>12 DEF learnerVars, LearnerTypes, HookType, RunType, chat, counts
<1>. QED
  BY <1>1, <1>2, <1>3, <1>4, <1>5, <1>6, <1>7, <1>8, <1>9, <1>10, <1>11, <1>12
  DEF LearnerNext, HookStep, RunStep

SettledNext(th, n) == 1..n \subseteq learned'[th] \cup late'[th] \cup unsaved'[th]

(* Messages, late messages and those that were read only become more. *)
LEMMA LearnerGrows ==
  ASSUME LearnerTypes, [LearnerNext]_learnerVars
  PROVE  /\ \A th \in ChatThread : /\ messages[th] <= messages'[th]
                                  /\ learned[th] \subseteq learned'[th]
                                  /\ unsaved[th] \subseteq unsaved'[th]
                                  /\ late[th] \subseteq late'[th]
         /\ \A th \in ChatThread, n \in Nat : Settled(th, n) => SettledNext(th, n)
<1>1. \A th \in ChatThread : /\ messages[th] <= messages'[th]
                            /\ late[th] \subseteq late'[th]
  <2>1. CASE UNCHANGED chat
    BY <2>1 DEF chat, LearnerTypes
  <2>2. ASSUME NEW th \in ChatThread, Post(th) PROVE <1>1!:
    BY <2>2 DEF Post, LearnerTypes
  <2>3. ASSUME NEW th \in ChatThread, Touch(th) \/ FallQuiet(th) PROVE <1>1!:
    BY <2>3 DEF Touch, FallQuiet, LearnerTypes
  <2>. QED
    BY <2>1, <2>2, <2>3
    DEF LearnerNext, learnerVars, HookStep, RunStep, Rerun, Wake, Compare, Scanned, Recheck,
        Cleaned, Skip, ReadLatest, CleanSkip, CleanLatest, Start, GiveUp, ReadThread, Fail,
        Store, Advance, AdvanceFails, Restart
<1>2. \A th \in ChatThread : learned[th] \subseteq learned'[th] /\ unsaved[th] \subseteq unsaved'[th]
  <2>1. CASE UNCHANGED yield
    BY <2>1
  <2>2. CASE Store
    BY <2>2, RunFields DEF Store, LearnerTypes
  <2>. QED
    BY <2>1, <2>2
    DEF LearnerNext, learnerVars, HookStep, RunStep, Post, Touch, FallQuiet, Rerun, Wake,
        Compare, Scanned, Recheck, Cleaned, Skip, ReadLatest, CleanSkip, CleanLatest, Start,
        GiveUp, ReadThread, Fail, Advance, AdvanceFails, Restart
<1>. QED
  BY <1>1, <1>2 DEF Settled, SettledNext

LEMMA CheckpointsStep ==
  ASSUME LearnerTypes, Checkpoints, Windows, [LearnerNext]_learnerVars
  PROVE  Checkpoints'
<1>1. CASE UNCHANGED <<checkpoint, run>>
  <2>1. \A th \in ChatThread :
          checkpoint'[th] <= messages'[th] /\ SettledNext(th, checkpoint'[th])
    <3>. SUFFICES ASSUME NEW th \in ChatThread
                  PROVE  checkpoint[th] <= messages'[th] /\ SettledNext(th, checkpoint[th])
      BY <1>1
    <3>1. checkpoint[th] \in Nat /\ messages[th] \in Nat /\ messages'[th] \in Nat
      BY LearnerTypesStep DEF LearnerTypes
    <3>2. checkpoint[th] <= messages[th] /\ Settled(th, checkpoint[th])
      BY DEF Checkpoints
    <3>. QED
      BY <3>1, <3>2, LearnerGrows
  <2>2. run # NoRun => run.upTo <= messages'[run.task.thread]
    <3>. SUFFICES ASSUME run # NoRun
                  PROVE  run.upTo <= messages'[run.task.thread]
      OBVIOUS
    <3>1. run.task.thread \in ChatThread /\ run.upTo \in Nat
      BY RunFields
    <3>2. /\ run.upTo <= messages[run.task.thread]
          /\ messages[run.task.thread] <= messages'[run.task.thread]
          /\ messages[run.task.thread] \in Nat /\ messages'[run.task.thread] \in Nat
      BY <3>1, LearnerGrows, LearnerTypesStep DEF Checkpoints, LearnerTypes
    <3>. QED
      BY <3>1, <3>2
  <2>. QED
    BY <1>1, <2>1, <2>2 DEF Checkpoints, Settled, SettledNext
<1>2. CASE Start
  <2>1. Head(line) \in Task
    BY <1>2 DEF Start, LearnerTypes
  <2>2. messages[Head(line).thread] \in Nat
    BY <2>1 DEF LearnerTypes, Task
  <2>. QED
    BY <1>2, <2>2 DEF Start, Checkpoints, chat, Settled
<1>3. CASE ReadThread \/ Store
  BY <1>3, RunFields, LearnerGrows
  DEF ReadThread, Store, NewCheckpoint, Checkpoints, LearnerTypes, chat, Settled, SettledNext
<1>4. CASE Fail \/ AdvanceFails \/ Restart
  BY <1>4 DEF Fail, AdvanceFails, Restart, Checkpoints, chat, Settled, SettledNext
<1>5. CASE Advance
  <2>. DEFINE th == run.task.thread
  <2>1. th \in ChatThread /\ run # NoRun /\ run' = NoRun
    BY <1>5, RunFields DEF Advance
  <2>2. Settled(th, run.upTo) /\ run.upTo <= messages[th]
    BY <1>5, <2>1 DEF Advance, Windows, Checkpoints
  <2>3. /\ checkpoint' = [checkpoint EXCEPT ![th] = run.upTo]
        /\ UNCHANGED <<messages, late, learned, unsaved>>
    BY <1>5 DEF Advance, chat
  <2>. QED
    BY <2>1, <2>2, <2>3 DEF Checkpoints, Settled, LearnerTypes
<1>. QED
  BY <1>1, <1>2, <1>3, <1>4, <1>5
  DEF LearnerNext, learnerVars, HookStep, RunStep, Post, Touch, FallQuiet, Rerun, Wake, Compare,
      Scanned, Recheck, Cleaned, Skip, ReadLatest, CleanSkip, CleanLatest, GiveUp

LEMMA WindowsStep ==
  ASSUME LearnerTypes, Checkpoints, Windows, [LearnerNext]_learnerVars
  PROVE  Windows'
<1>. DEFINE Lines == \A i \in DOMAIN line : Settled(line[i].thread, line[i].after)
<1>a. /\ line \in Seq(Task)
      /\ \A i \in DOMAIN line : /\ line[i].thread \in ChatThread /\ line[i].after \in Nat
                                /\ SettledNext(line[i].thread, line[i].after)
  <2>1. line \in Seq(Task)
    BY DEF LearnerTypes
  <2>2. \A i \in DOMAIN line : line[i] \in Task
    BY <2>1
  <2>. QED
    BY <2>1, <2>2, LearnerGrows DEF Windows, Task
<1>1. Lines'
  <2>1. CASE UNCHANGED line
    BY <1>a, <2>1 DEF Settled, SettledNext
  <2>2. CASE \E th \in ChatThread : Rerun(th)
    <3>. PICK th \in ChatThread : Rerun(th)
      BY <2>2
    <3>. DEFINE new == [thread |-> th, after |-> 0, by |-> "user"]
    <3>1. SettledNext(new.thread, new.after)
      BY DEF Settled, SettledNext
    <3>2. line' = Append(line, new) /\ new \in Task
      BY DEF Rerun, Task
    <3>. HIDE DEF new
    <3>. QED
      BY <1>a, <3>1, <3>2 DEF Settled, SettledNext
  <2>3. CASE Compare
    <3>. PICK cp : /\ GetCheckpoint(hook.thread, cp)
                   /\ \/ UNCHANGED line
                      \/ line' = Append(line, NewTask(hook.thread, cp))
      BY <2>3 DEF Compare
    <3>. DEFINE new == NewTask(hook.thread, cp)
    <3>1. hook.thread \in ChatThread
      BY <2>3, HookFields DEF Compare
    <3>2. cp \in Nat /\ Settled(hook.thread, cp)
      BY <3>1 DEF GetCheckpoint, LearnerTypes, Checkpoints, Settled, SettledNext
    <3>3. SettledNext(new.thread, new.after)
      BY <3>1, <3>2, LearnerGrows DEF NewTask, Settled, SettledNext
    <3>4. new \in Task
      BY <3>1, <3>2 DEF NewTask, Task
    <3>. HIDE DEF new
    <3>5. CASE line' = Append(line, new)
      <4>1. \A i \in DOMAIN line' : line'[i] = new \/ (i \in DOMAIN line /\ line'[i] = line[i])
        <5>1. line \in Seq(Task)
          BY <1>a
        <5>. QED
          BY <3>4, <3>5, <5>1
      <4>. QED
        BY <1>a, <3>3, <4>1 DEF Settled, SettledNext
    <3>. QED
      BY <2>1, <3>5 DEF new
  <2>4. CASE Start \/ GiveUp
    <3>1. line # <<>> /\ line' = Tail(line)
      BY <2>4 DEF Start, GiveUp
    <3>2. \A i \in DOMAIN Tail(line) : i + 1 \in DOMAIN line /\ Tail(line)[i] = line[i + 1]
      BY <1>a, <3>1
    <3>. QED
      BY <1>a, <3>1, <3>2 DEF Settled, SettledNext
  <2>5. CASE Restart
    BY <2>5 DEF Restart
  <2>. QED
    BY <2>1, <2>2, <2>3, <2>4, <2>5
    DEF LearnerNext, learnerVars, HookStep, RunStep, Post, Touch, FallQuiet, Wake, Scanned,
        Recheck, Cleaned, Skip, ReadLatest, CleanSkip, CleanLatest, ReadThread, Fail, Store,
        Advance, AdvanceFails
<1>. DEFINE Runs == run # NoRun =>
                      LET th == run.task.thread IN
                      /\ Settled(th, run.task.after)
                      /\ run.at = "turn" /\ run.upTo > 0 => (run.upTo + 1)..messages[th] \subseteq late[th]
                      /\ run.at = "upsert" => Settled(th, run.upTo)
<1>2. Runs'
  <2>. DEFINE th == run.task.thread
  <2>1. CASE run = NoRun /\ run' = run
    BY <2>1
  <2>2. CASE run # NoRun /\ run' = run
    <3>1. run.at \in {"turn", "upsert"}
      BY <2>2 DEF LearnerTypes, RunType
    <3>2. th \in ChatThread /\ run.task.after \in Nat /\ run.upTo \in Nat
      BY <3>1, RunFields
    <3>3. SettledNext(th, run.task.after) /\ (run.at = "upsert" => SettledNext(th, run.upTo))
      BY <2>2, <3>2, LearnerGrows DEF Windows, Settled, SettledNext
    <3>4. messages'[th] = messages[th] \/ (messages'[th] = messages[th] + 1 /\ messages'[th] \in late'[th])
      <4>1. CASE UNCHANGED chat
        BY <4>1 DEF chat
      <4>2. ASSUME NEW t \in ChatThread, Post(t) PROVE <3>4!:
        BY <2>2, <3>2, <4>2 DEF Post, LearnerTypes
      <4>3. ASSUME NEW t \in ChatThread, Touch(t) \/ FallQuiet(t) PROVE <3>4!:
        BY <4>3 DEF Touch, FallQuiet
      <4>. QED
      BY <2>2, <3>2, <4>1, <4>2, <4>3
      DEF LearnerNext, learnerVars, HookStep, RunStep, Rerun, Wake, Compare, Scanned, Recheck,
          Cleaned, Skip, ReadLatest, CleanSkip, CleanLatest, Start, GiveUp, ReadThread, Fail,
          Store, Advance, AdvanceFails, Restart
    <3>5. run.at = "turn" /\ run.upTo > 0 => (run.upTo + 1)..messages'[th] \subseteq late'[th]
      <4>. SUFFICES ASSUME run.at = "turn", run.upTo > 0,
                           NEW m \in (run.upTo + 1)..messages'[th]
                    PROVE  m \in late'[th]
        OBVIOUS
      <4>1. (run.upTo + 1)..messages[th] \subseteq late[th] /\ late[th] \subseteq late'[th]
        BY <2>2, <3>2, LearnerGrows DEF Windows
      <4>2. messages[th] \in Nat
        BY <3>2 DEF LearnerTypes
      <4>. QED
        BY <3>2, <3>4, <4>1, <4>2
    <3>. QED
      BY <2>2, <3>3, <3>5 DEF Settled, SettledNext
  <2>3. CASE Start
    <3>1. run'.task = Head(line) /\ run'.at = "turn" /\ run'.upTo = 0
      BY <2>3 DEF Start
    <3>2. Head(line) = line[1] /\ 1 \in DOMAIN line
      BY <1>a, <2>3 DEF Start
    <3>. QED
      BY <1>a, <3>1, <3>2 DEF Settled, SettledNext
  <2>4. CASE ReadThread
    <3>1. th \in ChatThread /\ run.task.after \in Nat /\ run # NoRun /\ messages[th] \in Nat
      BY <2>4, RunFields DEF ReadThread, LearnerTypes
    <3>2. run'.task = run.task /\ run'.at = "turn" /\ run'.upTo = messages[th] /\ UNCHANGED <<messages, late>>
      BY <2>4, RunFields DEF ReadThread, chat
    <3>3. SettledNext(th, run.task.after)
      BY <3>1, LearnerGrows DEF Windows, Settled, SettledNext
    <3>. QED
      BY <3>1, <3>2, <3>3 DEF Settled, SettledNext
  <2>5. CASE Store
    <3>1. /\ th \in ChatThread /\ run.task.after \in Nat /\ run.upTo \in Nat /\ run # NoRun
          /\ messages[th] \in Nat /\ run.at = "turn" /\ run.upTo > 0
      BY <2>5, RunFields DEF Store, LearnerTypes
    <3>2. run'.task = run.task /\ run'.at = "upsert" /\ run'.upTo = messages[th]
      BY <2>5, RunFields DEF Store, NewCheckpoint
    <3>3. SettledNext(th, run.task.after)
      BY <3>1, LearnerGrows DEF Windows, Settled, SettledNext
    <3>4. /\ learned'[th] \cup unsaved'[th]
                = learned[th] \cup unsaved[th] \cup (run.task.after + 1)..run.upTo
          /\ late' = late
      <4>1. Batch = (run.task.after + 1)..run.upTo
        BY DEF Batch
      <4>2. learned \in [ChatThread -> SUBSET Nat] /\ unsaved \in [ChatThread -> SUBSET Nat]
        BY DEF LearnerTypes
      <4>3. \/ learned' = [learned EXCEPT ![th] = @ \cup Batch] /\ unsaved' = unsaved
            \/ unsaved' = [unsaved EXCEPT ![th] = @ \cup Batch] /\ learned' = learned
        BY <2>5 DEF Store
      <4>4. learned'[th] \cup unsaved'[th] = learned[th] \cup unsaved[th] \cup Batch
        BY <3>1, <4>2, <4>3
      <4>. QED
        BY <2>5, <4>1, <4>4 DEF Store, chat
    <3>5. 1..messages[th] \subseteq learned'[th] \cup late'[th] \cup unsaved'[th]
      <4>. SUFFICES ASSUME NEW m \in 1..messages[th], m \notin late[th]
                    PROVE  m \in learned'[th] \cup unsaved'[th]
        BY <3>4
      <4>1. m <= run.upTo
        BY <3>1 DEF Windows
      <4>2. m <= run.task.after => m \in learned[th] \cup unsaved[th]
        BY <3>1 DEF Windows, Settled, SettledNext
      <4>. QED
        BY <3>1, <3>4, <4>1, <4>2
    <3>. QED
      BY <3>1, <3>2, <3>3, <3>5 DEF Settled, SettledNext
  <2>6. CASE run' = NoRun
    BY <2>6
  <2>. QED
    BY <2>1, <2>2, <2>3, <2>4, <2>5, <2>6
    DEF LearnerNext, learnerVars, HookStep, RunStep, Post, Touch, FallQuiet, Rerun, Wake,
        Compare, Scanned, Recheck, Cleaned, Skip, ReadLatest, CleanSkip, CleanLatest, GiveUp,
        Fail, Advance, AdvanceFails, Restart
<1>. QED
  BY <1>1, <1>2 DEF Windows

(* How the hook comes to look at a thread. *)
LEMMA HookMoves ==
  ASSUME [LearnerNext]_learnerVars
  PROVE  \/ UNCHANGED <<hook, inFlight>>
         \/ hook'.at \notin {"compare", "recheck"}
         \/ \E th \in ChatThread : ReadLatest(th) \/ CleanLatest(th)
<1>1. CASE \E th \in ChatThread : Post(th) \/ Touch(th) \/ FallQuiet(th) \/ Rerun(th)
  BY <1>1 DEF Post, Touch, FallQuiet, Rerun
<1>2. CASE Wake \/ Compare \/ Scanned \/ Recheck \/ Cleaned \/ Restart
  BY <1>2 DEF Wake, Compare, Scanned, Recheck, Cleaned, Restart, Asleep
<1>3. CASE \E th \in ChatThread : Skip(th) \/ CleanSkip(th)
  BY <1>3 DEF Skip, CleanSkip, Leave
<1>4. CASE RunStep
  BY <1>4 DEF RunStep, Start, GiveUp, ReadThread, Fail, Store, Advance, AdvanceFails
<1>. QED
  BY <1>1, <1>2, <1>3, <1>4 DEF LearnerNext, learnerVars, HookStep

LEMMA UnmarkedStep ==
  ASSUME LearnerTypes, Unmarked, [LearnerNext]_learnerVars
  PROVE  Unmarked'
<1>1. CASE UNCHANGED <<hook, inFlight>>
  BY <1>1 DEF Unmarked
<1>2. CASE \E th \in ChatThread : ReadLatest(th)
  BY <1>2 DEF ReadLatest, Unmarked, LearnerTypes
<1>3. CASE hook'.at # "compare"
  BY <1>3 DEF Unmarked
<1>4. ASSUME NEW th \in ChatThread, CleanLatest(th) PROVE hook'.at # "compare"
  BY <1>4 DEF CleanLatest
<1>. QED
  BY <1>1, <1>2, <1>3, <1>4, HookMoves

(* The marks of a thread and what is about to change them weigh at most 1    *)
(* more than before, whatever the action.                                    *)
LEMMA BalancedStep ==
  ASSUME LearnerTypes, Checkpoints, Unmarked, Balanced, [LearnerNext]_learnerVars
  PROVE  Balanced'
<1>. SUFFICES ASSUME NEW th \in ChatThread
              PROVE  Load(th)' <= 1 + misreads' + reruns'
  BY DEF Balanced
<1>. DEFINE tasks == Cardinality(Places(line, th))
<1>1. /\ tasks \in Nat /\ tasks' \in Nat
      /\ line \in Seq(Task)
      /\ misreads \in Nat /\ reruns \in Nat /\ misreads' \in Nat /\ reruns' \in Nat
      /\ checkpoint[th] \in Nat /\ messages[th] \in Nat /\ checkpoint[th] <= messages[th]
  BY PlacesFinite, LearnerTypesStep DEF LearnerTypes, Checkpoints
<1>2. tasks + Served(th) + Free(th) + Spare(th) <= 1 + misreads + reruns
  BY DEF Balanced, Load
<1>3. SUFFICES tasks' + Served(th)' + Free(th)' + Spare(th)' <= 1 + misreads' + reruns'
  BY DEF Load
<1>4. /\ Served(th) \in 0..1 /\ Free(th) \in 0..1 /\ Spare(th) \in 0..1
      /\ Served(th)' \in 0..1 /\ Free(th)' \in 0..1 /\ Spare(th)' \in 0..1
  BY DEF Served, Free, Spare
<1>same. ASSUME tasks' = tasks, Served(th)' = Served(th), Free(th)' = Free(th), Spare(th)' <= Spare(th),
                misreads' >= misreads, reruns' = reruns
         PROVE  tasks' + Served(th)' + Free(th)' + Spare(th)' <= 1 + misreads' + reruns'
  BY <1>1, <1>2, <1>4, <1>same
<1>5. CASE \E t \in ChatThread : Post(t)
  <2>. PICK t \in ChatThread : Post(t)
    BY <1>5
  <2>1. tasks' = tasks /\ Served(th)' = Served(th) /\ Free(th)' = Free(th)
    BY DEF Post, Served, Free
  <2>2. Fresh(th)' => Fresh(th)
    BY <1>1 DEF Post, Fresh, LearnerTypes
  <2>3. Spare(th)' <= Spare(th)
    BY <2>2 DEF Spare, Looks, Post
  <2>. QED
    BY <1>1, <1>2, <1>4, <2>1, <2>3 DEF Post, counts
<1>6. CASE \E t \in ChatThread : Rerun(t)
  <2>. PICK t \in ChatThread : Rerun(t)
    BY <1>6
  <2>. DEFINE new == [thread |-> t, after |-> 0, by |-> "user"]
  <2>1. line' = Append(line, new) /\ new \in Task
    BY DEF Rerun, Task
  <2>2. tasks' <= tasks + 1
    BY <1>1, <2>1, AppendPlaces
  <2>3. Served(th)' = Served(th) /\ Free(th)' = Free(th) /\ Spare(th)' = Spare(th)
    BY DEF Rerun, Served, Free, Spare, Looks, Fresh, chat
  <2>. QED
    BY <1>1, <1>2, <1>4, <2>2, <2>3 DEF Rerun
<1>7. CASE UNCHANGED <<messages, checkpoint, inFlight, line, run, misreads, reruns>>
  <2>1. tasks' = tasks /\ Served(th)' = Served(th) /\ Free(th)' = Free(th)
    BY <1>7 DEF Served, Free
  <2>2. Spare(th)' <= Spare(th)
    <3>1. CASE UNCHANGED hook \/ hook'.at \notin {"compare", "recheck"}
      BY <1>7, <3>1 DEF Spare, Looks, Fresh
    <3>2. CASE \E t \in ChatThread : ReadLatest(t)
      BY <1>7, <3>2 DEF ReadLatest, Spare, Looks, Fresh
    <3>3. CASE \E t \in ChatThread : CleanLatest(t)
      BY <1>7, <3>3 DEF CleanLatest, Spare, Looks, Fresh
    <3>. QED
      BY <3>1, <3>2, <3>3, HookMoves
  <2>. QED
    BY <1>1, <1>2, <1>4, <1>7, <2>1, <2>2
<1>8. CASE Compare
  <2>. DEFINE t == hook.thread
  <2>. PICK cp : /\ GetCheckpoint(t, cp)
                 /\ IF cp = hook.latest THEN UNCHANGED <<inFlight, line>>
                    ELSE inFlight' = inFlight \cup {t} /\ line' = Append(line, NewTask(t, cp))
    BY <1>8 DEF Compare
  <2>1. t \in ChatThread /\ t \notin inFlight /\ hook.latest \in Nat /\ hook.latest > 0
    BY <1>8, HookFields DEF Compare, Unmarked
  <2>2. cp \in Nat /\ NewTask(t, cp) \in Task
    BY <2>1 DEF GetCheckpoint, LearnerTypes, NewTask, Task
  <2>3. Served(th)' = Served(th) /\ reruns' = reruns /\ misreads' >= misreads
    BY <1>1, <1>8 DEF Compare, Served, GetCheckpoint
  <2>4. CASE cp = hook.latest
    <3>1. tasks' = tasks /\ Free(th)' = Free(th) /\ Spare(th)' <= Spare(th)
      BY <1>8, <2>4 DEF Compare, Free, Spare, Looks, Fresh, chat
    <3>. QED
      BY <1>same, <2>3, <3>1
  <2>5. CASE cp # hook.latest
    <3>1. tasks' = tasks + (IF t = th THEN 1 ELSE 0)
      <4>. DEFINE new == NewTask(t, cp)
      <4>1. line' = Append(line, new)
        BY <2>5
      <4>2. new \in Task /\ new.thread = t
        BY <2>2 DEF NewTask
      <4>. HIDE DEF new
      <4>. QED
        BY <1>1, <4>1, <4>2, AppendPlaces
    <3>2. inFlight' = inFlight \cup {t}
      BY <2>5
    <3>3. CASE t # th
      <4>1. Free(th)' = Free(th) /\ Spare(th)' <= Spare(th)
        BY <1>8, <3>2, <3>3 DEF Compare, Free, Spare, Looks, Fresh, chat
      <4>. QED
        BY <1>1, <1>2, <1>4, <2>3, <3>1, <3>3, <4>1
    <3>4. CASE t = th
      <4>1. Free(th) = 1 /\ Free(th)' = 0
        BY <2>1, <3>2, <3>4 DEF Free
      <4>2. CASE cp = checkpoint[th]
        <5>1. Spare(th)' <= Spare(th)
          BY <1>8, <2>1, <2>5, <3>4, <4>2 DEF Compare, Spare, Looks, Fresh, chat
        <5>. QED
          BY <1>1, <1>2, <1>4, <2>3, <3>1, <3>4, <4>1, <5>1
      <4>3. CASE misreads' = misreads + 1
        BY <1>1, <1>2, <1>4, <2>3, <3>1, <3>4, <4>1, <4>3
      <4>. QED
        BY <3>4, <4>2, <4>3 DEF GetCheckpoint
    <3>. QED
      BY <3>3, <3>4
  <2>. QED
    BY <2>4, <2>5
<1>9. CASE Recheck
  <2>. DEFINE t == hook.thread
  <2>1. tasks' = tasks /\ Served(th)' = Served(th) /\ misreads' = misreads /\ reruns' = reruns
    BY <1>9 DEF Recheck, Served, counts
  <2>2. Free(th)' + Spare(th)' <= Free(th) + Spare(th)
    BY <1>9 DEF Recheck, Free, Spare, Looks, Fresh, chat
  <2>. QED
    BY <1>1, <1>2, <1>4, <2>1, <2>2
<1>10. CASE Start \/ GiveUp
  <2>1. line # <<>> /\ line' = Tail(line) /\ Served(th) = 0
    BY <1>10 DEF Start, GiveUp, Served
  <2>2. tasks = tasks' + (IF Head(line).thread = th THEN 1 ELSE 0)
    BY <1>1, <2>1, TailPlaces
  <2>3. Served(th)' <= (IF Head(line).thread = th THEN 1 ELSE 0)
    BY <1>10 DEF Start, GiveUp, Served, NoRun
  <2>4. Free(th)' = Free(th) /\ Spare(th)' = Spare(th) /\ misreads' = misreads /\ reruns' = reruns
    BY <1>10 DEF Start, GiveUp, Free, Spare, Looks, Fresh, chat, counts
  <2>. QED
    BY <1>1, <1>2, <1>4, <2>1, <2>2, <2>3, <2>4
<1>11. CASE ReadThread \/ Fail \/ Store \/ AdvanceFails
  <2>1. Served(th)' <= Served(th)
    <3>1. CASE Fail \/ AdvanceFails
      BY <1>4, <3>1 DEF Fail, AdvanceFails, Served
    <3>2. CASE ReadThread \/ Store
      <4>1. run # NoRun /\ run'.task = run.task
        BY <3>2, RunFields DEF ReadThread, Store
      <4>. QED
        BY <4>1 DEF Served
    <3>. QED
      BY <1>11, <3>1, <3>2
  <2>2. /\ tasks' = tasks /\ Free(th)' = Free(th) /\ Spare(th)' = Spare(th)
        /\ misreads' = misreads /\ reruns' = reruns
    BY <1>11 DEF ReadThread, Fail, Store, AdvanceFails, Free, Spare, Looks, Fresh, chat, counts
  <2>. QED
    BY <1>1, <1>2, <1>4, <2>1, <2>2
<1>12. CASE Advance
  <2>1. run # NoRun /\ run.task.thread \in ChatThread /\ Served(th)' = 0
    BY <1>12, RunFields DEF Advance, Served
  <2>2. tasks' = tasks /\ Free(th)' = Free(th) /\ misreads' = misreads /\ reruns' = reruns
    BY <1>12 DEF Advance, Free, counts
  <2>3. CASE run.task.thread = th
    <3>1. Served(th) = 1
      BY <2>1, <2>3 DEF Served
    <3>. QED
      BY <1>1, <1>2, <1>4, <2>1, <2>2, <3>1
  <2>4. CASE run.task.thread # th
    <3>1. checkpoint'[th] = checkpoint[th]
      BY <1>12, <2>4 DEF Advance, LearnerTypes
    <3>2. Spare(th)' = Spare(th)
      BY <1>12, <3>1 DEF Advance, Spare, Looks, Fresh, chat
    <3>. QED
      BY <1>1, <1>2, <1>4, <2>1, <2>2, <3>2
  <2>. QED
    BY <2>3, <2>4
<1>13. CASE Restart
  <2>1. Places(line', th) = {}
    BY <1>13 DEF Restart, Places
  <2>2. tasks' = 0
    BY <2>1, FS_EmptySet
  <2>3. Served(th)' = 0 /\ Free(th)' = 1 /\ Spare(th)' = 0
    BY <1>13 DEF Restart, Served, Free, Spare, Looks, Asleep, NoRun
  <2>4. misreads' = misreads /\ reruns' = reruns
    BY <1>13 DEF Restart
  <2>. QED
    BY <1>1, <2>2, <2>3, <2>4
<1>. QED
  BY <1>5, <1>6, <1>7, <1>8, <1>9, <1>10, <1>11, <1>12, <1>13
  DEF LearnerNext, learnerVars, HookStep, RunStep, Touch, FallQuiet, Wake, Scanned, Cleaned,
      Skip, ReadLatest, CleanSkip, CleanLatest, chat, counts

-----------------------------------------------------------------------------
(* Theorems *)

(* What holds of the hook, the line and the run in every reachable state. *)
THEOREM LearnerKeepsInv == LearnerSpec => []LearnerInv
<1>1. LearnerInit => LearnerInv
  <2>. SUFFICES ASSUME LearnerInit PROVE LearnerInv
    OBVIOUS
  <2>1. Checkpoints /\ Windows /\ Unmarked
    BY DEF LearnerInit, Checkpoints, Windows, Unmarked, Settled, Asleep
  <2>2. ASSUME NEW th \in ChatThread PROVE Load(th) <= 1 + misreads + reruns
    <3>1. Cardinality(Places(line, th)) = 0
      <4>1. Places(line, th) = {}
        BY DEF LearnerInit, Places
      <4>. QED
        BY <4>1, FS_EmptySet
    <3>2. Served(th) = 0 /\ Free(th) = 1 /\ Spare(th) = 0
      BY DEF LearnerInit, Served, Free, Spare, Looks, Asleep
    <3>. QED
      BY <3>1, <3>2 DEF Load, LearnerInit
  <2>. QED
    BY <2>1, <2>2, LearnerTypesInit DEF LearnerInv, Balanced
<1>2. LearnerInv /\ [LearnerNext]_learnerVars => LearnerInv'
  BY LearnerTypesStep, CheckpointsStep, WindowsStep, UnmarkedStep, BalancedStep DEF LearnerInv
<1>. QED
  BY <1>1, <1>2, PTL DEF LearnerSpec

(* idle.rs:101-102: the hook queues no thread it has already queued, but     *)
(* after a query for its checkpoint has failed or a rerun by hand.           *)
THEOREM HookQueuesOnce == LearnerSpec => []NoDoubleQueue
<1>1. LearnerInv => NoDoubleQueue
  <2>. SUFFICES ASSUME LearnerInv, NEW th \in ChatThread
                PROVE  Cardinality(Waiting(th, "hook")) + (IF Running(th, "hook") THEN 1 ELSE 0)
                         <= 1 + misreads + reruns
    BY DEF NoDoubleQueue
  <2>1. line \in Seq(Task) /\ misreads \in Nat /\ reruns \in Nat
    BY DEF LearnerInv, LearnerTypes
  <2>2. /\ Cardinality(Waiting(th, "hook")) \in Nat
        /\ Cardinality(Waiting(th, "hook")) <= Cardinality(Places(line, th))
        /\ Cardinality(Places(line, th)) \in Nat
    <3>1. Waiting(th, "hook") \subseteq Places(line, th)
      BY DEF Waiting, Places
    <3>. QED
      BY <2>1, <3>1, PlacesFinite, FS_Subset, FS_CardinalityType
  <2>3. Running(th, "hook") => Served(th) = 1
    BY DEF Running, Served
  <2>4. Served(th) \in 0..1 /\ Free(th) \in 0..1 /\ Spare(th) \in 0..1
    BY DEF Served, Free, Spare
  <2>5. Load(th) <= 1 + misreads + reruns
    BY DEF LearnerInv, Balanced
  <2>. QED
    BY <2>1, <2>2, <2>3, <2>4, <2>5 DEF Load
<1>. QED
  BY <1>1, LearnerKeepsInv, PTL

(* task.rs: a message the checkpoint has passed by has been learned, or came *)
(* while its thread was being learned from, or was read by a run that could  *)
(* not store all it had learned.                                             *)
THEOREM NothingElseIsSkipped == LearnerSpec => []SkipsAreExplained
<1>1. LearnerInv => SkipsAreExplained
  BY DEF LearnerInv, Checkpoints, Settled, SkipsAreExplained
<1>. QED
  BY <1>1, LearnerKeepsInv, PTL
=============================================================================
