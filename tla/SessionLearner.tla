---------------------------- MODULE SessionLearner ----------------------------
(* Learning from chat threads that have fallen quiet: the idle hook         *)
(* (session_learner/idle.rs), the runs it enqueues (session_learner/task.rs)*)
(* and the checkpoint they share.  The background scheduler appears by what *)
(* SerialQueue promises of it: one line, one run at a time, and a head that *)
(* may be given up.  Messages of a thread are numbered as they arrive.      *)
EXTENDS Integers, Sequences, FiniteSetsExt

CONSTANTS
  ChatThread,
  MaxMessages,  \* bound on the messages of each thread
  MaxTroubles   \* bound on failing queries for a checkpoint, reruns by hand and restarts together

ASSUME LearnerAssumption ==
  /\ MaxMessages \in [ChatThread -> Nat]
  /\ MaxTroubles \in Nat

VARIABLES
  messages,    \* how many messages each thread has
  late,        \* those that arrived while their thread was being learned from
  quiet,       \* threads without activity for the idle threshold
  checkpoint,  \* last_processed_id of each thread, 0 if none
  learned,     \* the messages whose notes and summary have been stored
  unsaved,     \* those of runs for which a note or the summary could not be stored
  inFlight,    \* HookInner.in_flight
  hook,        \* where the tick is
  line,        \* learner tasks waiting in the scheduler
  run,         \* the learner task being run
  misreads,    \* queries for a checkpoint that have failed
  reruns,      \* reruns by hand so far
  restarts

chat == <<messages, late, quiet>>
counts == <<misreads, reruns, restarts>>
yield   == <<learned, unsaved>>
learnerVars == <<chat, checkpoint, yield, inFlight, hook, line, run, counts>>

Troubles == misreads + reruns + restarts

Message == 0..Max({MaxMessages[th] : th \in ChatThread})     \* 0: no message
Asleep  == [at |-> "sleep"]
NoRun   == [at |-> "none"]
LearnerInit ==
  /\ messages = [th \in ChatThread |-> 0]
  /\ late = [th \in ChatThread |-> {}]
  /\ quiet = {}
  /\ checkpoint = [th \in ChatThread |-> 0]
  /\ learned = [th \in ChatThread |-> {}]
  /\ unsaved = [th \in ChatThread |-> {}]
  /\ inFlight = {}
  /\ hook = Asleep
  /\ line = <<>>
  /\ run = NoRun
  /\ misreads = 0
  /\ reruns = 0
  /\ restarts = 0

-----------------------------------------------------------------------------
(* The chat *)

Post(th) ==
  /\ messages[th] < MaxMessages[th]
  /\ messages' = [messages EXCEPT ![th] = @ + 1]
  /\ late' = IF run # NoRun /\ run.task.thread = th
             THEN [late EXCEPT ![th] = @ \cup {messages[th] + 1}] ELSE late
  /\ quiet' = quiet \ {th}
  /\ UNCHANGED <<checkpoint, yield, inFlight, hook, line, run, counts>>

(* A rename or the end of an answer also bumps updated_at. *)
Touch(th) ==
  /\ th \in quiet
  /\ quiet' = quiet \ {th}
  /\ UNCHANGED <<messages, late, checkpoint, yield, inFlight, hook, line, run, counts>>

FallQuiet(th) ==
  /\ th \notin quiet
  /\ quiet' = quiet \cup {th}
  /\ UNCHANGED <<messages, late, checkpoint, yield, inFlight, hook, line, run, counts>>

(* rerun_session_learner: the whole thread, whatever else is going on. *)
Rerun(th) ==
  /\ Troubles < MaxTroubles
  /\ reruns' = reruns + 1
  /\ line' = Append(line, [thread |-> th, after |-> 0, by |-> "user"])
  /\ UNCHANGED <<chat, checkpoint, yield, inFlight, hook, run, misreads, restarts>>

-----------------------------------------------------------------------------
(* The tick of the idle hook *)

Leave(th, at) == [at |-> at, todo |-> hook.todo \ {th}]

(* List the threads and keep the idle ones.  A tick that finds no AppState, *)
(* no dependencies or no database changes nothing.                          *)
Wake ==
  /\ hook = Asleep
  /\ hook' = [at |-> "scan", todo |-> quiet]
  /\ UNCHANGED <<chat, checkpoint, yield, inFlight, line, run, counts>>

(* The thread is in flight or has no message, or the query fails. *)
Skip(th) ==
  /\ hook.at = "scan" /\ th \in hook.todo
  /\ hook' = Leave(th, "scan")
  /\ UNCHANGED <<chat, checkpoint, yield, inFlight, line, run, counts>>

(* latest_message_id; then the checkpoint is read. *)
ReadLatest(th) ==
  /\ hook.at = "scan" /\ th \in hook.todo \ inFlight
  /\ messages[th] > 0
  /\ hook' = [at |-> "compare", todo |-> hook.todo \ {th}, thread |-> th,
              latest |-> messages[th]]
  /\ UNCHANGED <<chat, checkpoint, yield, inFlight, line, run, counts>>

(* get_checkpoint: a failing query reads like no checkpoint. *)
GetCheckpoint(th, cp) ==
  \/ cp = checkpoint[th] /\ UNCHANGED misreads
  \/ cp = 0 /\ Troubles < MaxTroubles /\ misreads' = misreads + 1

(* Fault: the run is to begin after the newest message. *)
FaultAfterLatest(th, cp) == [thread |-> th, after |-> hook.latest, by |-> "hook"]

NewTask(th, cp) == [thread |-> th, after |-> cp, by |-> "hook"]

(* Fault: the thread is not marked. *)
FaultUnmarked ==
  /\ hook.at = "compare"
  /\ \E cp \in Message : GetCheckpoint(hook.thread, cp) /\
       line' = IF cp = hook.latest THEN line ELSE Append(line, NewTask(hook.thread, cp))
  /\ hook' = [at |-> "scan", todo |-> hook.todo]
  /\ UNCHANGED <<chat, checkpoint, yield, inFlight, run, reruns, restarts>>

(* A checkpoint other than the newest message: mark the thread and enqueue  *)
(* a run that begins after the checkpoint.                                  *)
Compare ==
  /\ hook.at = "compare"
  /\ \E cp \in Message :
       /\ GetCheckpoint(hook.thread, cp)
       /\ IF cp = hook.latest THEN UNCHANGED <<inFlight, line>>
          ELSE /\ inFlight' = inFlight \cup {hook.thread}
               /\ line' = Append(line, NewTask(hook.thread, cp))
  /\ hook' = [at |-> "scan", todo |-> hook.todo]
  /\ UNCHANGED <<chat, checkpoint, yield, run, reruns, restarts>>

Scanned ==
  /\ hook.at = "scan" /\ hook.todo = {}
  /\ hook' = [at |-> "clean", todo |-> inFlight]
  /\ UNCHANGED <<chat, checkpoint, yield, inFlight, line, run, counts>>

(* The coarse cleanup: newest message and checkpoint of each thread in      *)
(* flight, unless a query fails, ...                                        *)
CleanSkip(th) ==
  /\ hook.at = "clean" /\ th \in hook.todo
  /\ hook' = Leave(th, "clean")
  /\ UNCHANGED <<chat, checkpoint, yield, inFlight, line, run, counts>>

CleanLatest(th) ==
  /\ hook.at = "clean" /\ th \in hook.todo
  /\ hook' = [at |-> "recheck", todo |-> hook.todo \ {th}, thread |-> th,
              latest |-> messages[th]]
  /\ UNCHANGED <<chat, checkpoint, yield, inFlight, line, run, counts>>

(* ... and the thread is unmarked if they are the same. *)
Recheck ==
  /\ hook.at = "recheck"
  /\ inFlight' = IF checkpoint[hook.thread] = hook.latest THEN inFlight \ {hook.thread}
                 ELSE inFlight
  /\ hook' = [at |-> "clean", todo |-> hook.todo]
  /\ UNCHANGED <<chat, checkpoint, yield, line, run, counts>>

Cleaned ==
  /\ hook.at = "clean" /\ hook.todo = {}
  /\ hook' = Asleep
  /\ UNCHANGED <<chat, checkpoint, yield, inFlight, line, run, counts>>

-----------------------------------------------------------------------------
(* A run *)

(* The scheduler gives a task up: the learner has no hook for that. *)
GiveUp ==
  /\ run = NoRun /\ line # <<>>
  /\ line' = Tail(line)
  /\ UNCHANGED <<chat, checkpoint, yield, inFlight, hook, run, counts>>

Start ==
  /\ run = NoRun /\ line # <<>>
  /\ run' = [at |-> "turn", task |-> Head(line), upTo |-> 0]
  /\ line' = Tail(line)
  /\ UNCHANGED <<chat, checkpoint, yield, inFlight, hook, counts>>

(* The agent calls chat_thread_get: all messages after the given one. *)
ReadThread ==
  /\ run.at = "turn"
  /\ run' = [run EXCEPT !.upTo = messages[run.task.thread]]
  /\ UNCHANGED <<chat, checkpoint, yield, inFlight, hook, line, counts>>

(* The turn fails, times out or answers no JSON: consume_output returns. *)
Fail ==
  /\ run.at = "turn"
  /\ run' = NoRun
  /\ UNCHANGED <<chat, checkpoint, yield, inFlight, hook, line, counts>>

NewCheckpoint(th) == messages[th]

Batch == (run.task.after + 1)..run.upTo

(* The turn answers, after reading what there was to read: store its notes  *)
(* and its summary, and ask for latest_message_id once more.  (A message    *)
(* between the two might as well come before the former.)  A write that     *)
(* fails is logged, and the run goes on all the same.                       *)
Store ==
  /\ run.at = "turn" /\ run.upTo > 0
  /\ \/ learned' = [learned EXCEPT ![run.task.thread] = @ \cup Batch] /\ UNCHANGED unsaved
     \/ unsaved' = [unsaved EXCEPT ![run.task.thread] = @ \cup Batch] /\ UNCHANGED learned
  /\ run' = [run EXCEPT !.at = "upsert", !.upTo = NewCheckpoint(run.task.thread)]
  /\ UNCHANGED <<chat, checkpoint, inFlight, hook, line, counts>>

(* upsert_checkpoint, ... *)
Advance ==
  /\ run.at = "upsert"
  /\ checkpoint' = [checkpoint EXCEPT ![run.task.thread] = run.upTo]
  /\ run' = NoRun
  /\ UNCHANGED <<chat, yield, inFlight, hook, line, counts>>

(* ... unless a query fails. *)
AdvanceFails ==
  /\ run.at = "upsert"
  /\ run' = NoRun
  /\ UNCHANGED <<chat, checkpoint, yield, inFlight, hook, line, counts>>

-----------------------------------------------------------------------------
(* The process dies and is started again. *)
Restart ==
  /\ Troubles < MaxTroubles
  /\ restarts' = restarts + 1
  /\ inFlight' = {} /\ hook' = Asleep /\ line' = <<>> /\ run' = NoRun
  /\ UNCHANGED <<chat, checkpoint, yield, misreads, reruns>>

HookStep ==
  \/ Wake \/ Compare \/ Scanned \/ Recheck \/ Cleaned
  \/ \E th \in ChatThread : Skip(th) \/ ReadLatest(th) \/ CleanSkip(th) \/ CleanLatest(th)

RunStep == Start \/ GiveUp \/ ReadThread \/ Fail \/ Store
             \/ Advance \/ AdvanceFails

LearnerNext ==
  \/ \E th \in ChatThread : Post(th) \/ Touch(th) \/ FallQuiet(th) \/ Rerun(th)
  \/ HookStep \/ RunStep \/ Restart

LearnerSpec == LearnerInit /\ [][LearnerNext]_learnerVars

-----------------------------------------------------------------------------
(* Properties *)

Waiting(th, who) == {i \in DOMAIN line : line[i].thread = th /\ line[i].by = who}
Running(th, who) == run # NoRun /\ run.task.thread = th /\ run.task.by = who

(* idle.rs:101-102: the hook does not queue a thread it has already queued, *)
(* although marks and checkpoints are read at different times: each further *)
(* run in line takes a failing query or a rerun by hand.                    *)
NoDoubleQueue ==
  \A th \in ChatThread :
    Cardinality(Waiting(th, "hook")) + (IF Running(th, "hook") THEN 1 ELSE 0)
      <= 1 + misreads + reruns

(* The window a run learns from begins where the last one ended: a message  *)
(* the checkpoint has passed by without its being learned arrived during a  *)
(* run on its thread, or was read by a run that could not store all it had  *)
(* learned (task.rs:122-124 and 149-151 log that, and go on).               *)
SkipsAreExplained ==
  \A th \in ChatThread : 1..checkpoint[th] \subseteq learned[th] \cup late[th] \cup unsaved[th]
=============================================================================
