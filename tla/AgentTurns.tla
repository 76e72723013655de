----------------------------- MODULE AgentTurns -----------------------------
(***************************************************************************)
(* A user's turn with the agent: the chat window that sends it and writes  *)
(* its row, the command exec_agent_send with its table of pending turns,   *)
(* the runner that pumps the sidecar's output, the per-turn RPC server and *)
(* the prompts that wait for the user.                                     *)
(*                                                                         *)
(* A turn belongs to a thread and to one of the windows.  The sidecar is   *)
(* external.  What is said in a turn, its model, its credentials and its   *)
(* tools are left out; preparing a turn is one stretch of time that ends   *)
(* well or in an error.                                                    *)
(***************************************************************************)
EXTENDS Naturals, FiniteSets

CONSTANTS
  Turn, Thread, Window,
  ThreadOf,    \* the thread of each turn
  WindowOf,    \* the window each turn is sent from
  NoTurn,
  MaxCrashes   \* bound: how often the application dies

ASSUME TurnsAssumption ==
  /\ ThreadOf \in [Turn -> Thread] /\ WindowOf \in [Turn -> Window]
  /\ NoTurn \notin Turn /\ MaxCrashes \in Nat

VARIABLES
  at,         \* where each turn is: idle, InFlight, over, unsaved or lost
  row,        \* chat_messages.status of its assistant row
  bucket,     \* the streaming store of each window, by thread: the turn whose
              \* message it holds, and isStreaming
  heard,      \* what the window's accumulator has heard of the turn: error
              \* events, and the reason of the finish
  failed,     \* exec_agent_send returned an error
  finishes,   \* finish events sent for the turn
  reason,     \* the runner's finish_reason, until the finish is sent
  pending,    \* AppState::pending_turns: the handle of each thread
  permit,     \* the Notify permit of each turn's handle
  child,      \* the sidecar of the turn: "none", "running" or "exited"
  prompts,    \* permission_pending: turns whose sidecar waits for the user
  sweep,      \* the boot's sweep of streaming rows has yet to run
  crashes,
  wanted      \* history: turns in flight when their thread was stopped

windowVars == <<row, bucket, heard>>
commandVars == <<failed, finishes, reason, pending, permit>>
childVars == <<child, prompts>>
appVars == <<sweep, crashes, wanted>>
vars == <<at, windowVars, commandVars, childVars, appVars>>

\* In the window, in the command, in the window again.
InCommand == {"preparing", "starting", "pumping", "ended", "reaping", "leaving", "failing"}
InFlight  == {"asked", "finalizing"} \cup InCommand
NoBucket == [turn |-> NoTurn, on |-> FALSE]

\* An application whose boot is over.
Init ==
  /\ at = [t \in Turn |-> "idle"] /\ row = [t \in Turn |-> "none"]
  /\ bucket = [w \in Window |-> [h \in Thread |-> NoBucket]]
  /\ heard = [t \in Turn |-> {}] /\ failed = {}
  /\ finishes = [t \in Turn |-> 0] /\ reason = [t \in Turn |-> "none"]
  /\ pending = [h \in Thread |-> NoTurn] /\ permit = {}
  /\ child = [t \in Turn |-> "none"] /\ prompts = {}
  /\ sweep = FALSE /\ crashes = 0 /\ wanted = {}

Goes(t, from, to) == at[t] = from /\ at' = [at EXCEPT ![t] = to]

\* startStream, setStreaming(false) and clearStream in the turn's own window.
Shows(t, b) == bucket' = [bucket EXCEPT ![WindowOf[t]][ThreadOf[t]] = b]
Settles(t)  == Shows(t, [bucket[WindowOf[t]][ThreadOf[t]] EXCEPT !.on = FALSE])
Clears(t)   == Shows(t, NoBucket)

\* An event of the turn in every window: one that did not send the turn opens a
\* bucket for it when that of the thread holds another; an error or a finish
\* takes isStreaming back whichever turn the bucket holds.
Hear(t, ends) ==
  bucket' = [w \in Window |-> [bucket[w] EXCEPT ![ThreadOf[t]] =
    LET b == IF w = WindowOf[t] \/ @.turn = t THEN @ ELSE [turn |-> t, on |-> TRUE]
    IN  [b EXCEPT !.on = b.on /\ ~ends]]]

----------------------------------------------------------------------------
(* The window: sendMessage of use-chat.ts and the commands it calls.        *)

\* sendingRef and isStreaming let one turn at a time out of a window.
Send(t) ==
  /\ ~bucket[WindowOf[t]][ThreadOf[t]].on
  /\ \A u \in Turn : WindowOf[u] = WindowOf[t] /\ ThreadOf[u] = ThreadOf[t]
       => at[u] \notin InFlight
  /\ Goes(t, "idle", "asked")
  /\ UNCHANGED <<windowVars, commandVars, childVars, appVars>>

\* insert_user_message or start_assistant_message fails: no row, no turn.
AskFails(t) ==
  /\ Goes(t, "asked", "over")
  /\ UNCHANGED <<windowVars, commandVars, childVars, appVars>>

\* start_assistant_message, startStream, and the command is called.
StartAssistantMessage(t) ==
  /\ Goes(t, "asked", "preparing")
  /\ row' = [row EXCEPT ![t] = "streaming"]
  /\ Shows(t, [turn |-> t, on |-> TRUE])
  /\ UNCHANGED <<heard, commandVars, childVars, appVars>>

\* The status the window decides on from what it has heard: a finish whose
\* reason is an error does not count, only an error event does.
Status(t) ==
  IF t \in failed THEN "error"
  ELSE IF "Cancelled" \in heard[t] THEN "cancelled"
  ELSE IF "error" \in heard[t] THEN "error" ELSE "complete"

\* A window that finalizes only what ended well.
FaultFinalizeOnSuccess(t) ==
  /\ Goes(t, "finalizing", "over")
  /\ row' = [row EXCEPT ![t] = IF Status(t) = "complete" THEN Status(t) ELSE @]
  /\ Clears(t)
  /\ UNCHANGED <<heard, commandVars, childVars, appVars>>

\* finalize_assistant_message does not ask which status the row has.
FinalizeAssistantMessage(t) ==
  /\ Goes(t, "finalizing", "over")
  /\ row' = [row EXCEPT ![t] = Status(t)]
  /\ Clears(t)
  /\ UNCHANGED <<heard, commandVars, childVars, appVars>>

\* The write fails: the row stays as it is until the next boot.
FinalizeFails(t) ==
  /\ Goes(t, "finalizing", "unsaved")
  /\ Clears(t)
  /\ UNCHANGED <<row, heard, commandVars, childVars, appVars>>

----------------------------------------------------------------------------
(* exec_agent_send up to the sidecar.                                       *)

Leaves(t, from, to) ==
  /\ Goes(t, from, to)
  /\ failed' = failed \cup {t}

\* No repo, no thread, a thread of a background task, no credentials.
PreparationFails(t) ==
  /\ Leaves(t, "preparing", "finalizing") /\ Settles(t)
  /\ UNCHANGED <<row, heard, finishes, reason, pending, permit, childVars, appVars>>

\* One handle per thread, kept between its turns.
FaultSharedHandle(t) ==
  /\ Goes(t, "preparing", "starting")
  /\ pending' = [pending EXCEPT ![ThreadOf[t]] = t]
  /\ permit' = IF \E u \in permit : ThreadOf[u] = ThreadOf[t]
               THEN permit \cup {t} ELSE permit
  /\ UNCHANGED <<windowVars, failed, finishes, reason, childVars, appVars>>

\* The handle is registered, over that of another turn of the thread.
Register(t) ==
  /\ Goes(t, "preparing", "starting")
  /\ pending' = [pending EXCEPT ![ThreadOf[t]] = t]
  /\ UNCHANGED <<windowVars, failed, finishes, reason, permit, childVars, appVars>>

\* run_turn fails before it has a sidecar: no task, no directory, no input
\* file, no server or no process.
StartFails(t) ==
  /\ Leaves(t, "starting", "failing")
  /\ UNCHANGED <<windowVars, finishes, reason, pending, permit, childVars, appVars>>

Spawn(t) ==
  /\ Goes(t, "starting", "pumping")
  /\ child' = [child EXCEPT ![t] = "running"]
  /\ UNCHANGED <<windowVars, commandVars, prompts, appVars>>

----------------------------------------------------------------------------
(* The pump: a line of the sidecar, or the cancel signal, which goes first. *)

Pumps(t) == at[t] = "pumping" /\ t \notin permit

\* A line that is forwarded, an error among them: the turn goes on after it.
Forward(t) ==
  /\ Pumps(t) /\ t \notin prompts
  /\ \/ Hear(t, FALSE) /\ UNCHANGED heard
     \/ Hear(t, TRUE) /\ heard' = [heard EXCEPT ![t] = @ \cup {"error"}]
  /\ UNCHANGED <<at, row, commandVars, childVars, appVars>>

\* The pump ends, and the turn with the reason r.
EndsWith(t, r) ==
  /\ Goes(t, "pumping", "reaping")
  /\ reason' = [reason EXCEPT ![t] = r]

\* agent_end, with the sidecar's own reason: "Error" and "Refusal" are an error,
\* told by an error event before or by none.  "Cancelled" it gives only when told
\* to over its control stream, where nothing is ever written.
AgentEnd(t) ==
  /\ Pumps(t) /\ t \notin prompts
  /\ EndsWith(t, "EndTurn") \/ EndsWith(t, "Error")
  /\ UNCHANGED <<windowVars, failed, finishes, pending, permit, childVars, appVars>>

\* auth_failed, or a window that is gone: the error ends the turn.
AuthFailed(t) ==
  /\ Pumps(t) /\ t \notin prompts
  /\ EndsWith(t, "Error")
  /\ heard' = [heard EXCEPT ![t] = @ \cup {"error"}]
  /\ Hear(t, TRUE)
  /\ UNCHANGED <<row, failed, finishes, pending, permit, childVars, appVars>>

\* The end of the output without an agent_end.
EndOfOutput(t) ==
  /\ Pumps(t) /\ t \notin prompts
  /\ Goes(t, "pumping", "ended")
  /\ UNCHANGED <<windowVars, commandVars, childVars, appVars>>

\* Reading the output fails: run_turn returns at once, its sidecar is killed
\* with the handle that is dropped, and the server's task goes on.
ReadFails(t) ==
  /\ Pumps(t)
  /\ Leaves(t, "pumping", "failing")
  /\ child' = [child EXCEPT ![t] = "exited"] /\ prompts' = prompts \ {t}
  /\ UNCHANGED <<windowVars, finishes, reason, pending, permit, appVars>>

\* A pump that looks for the signal only between two lines.
FaultCancelAfterLine(t) ==
  /\ t \in permit /\ child[t] = "running" /\ t \notin prompts
  /\ EndsWith(t, "Cancelled")
  /\ permit' = permit \ {t}
  /\ child' = [child EXCEPT ![t] = "exited"] /\ prompts' = prompts \ {t}
  /\ UNCHANGED <<windowVars, failed, finishes, pending, appVars>>

\* The signal is honoured before a line that is ready: the sidecar is killed.
Cancelled(t) ==
  /\ t \in permit
  /\ EndsWith(t, "Cancelled")
  /\ permit' = permit \ {t}
  /\ child' = [child EXCEPT ![t] = "exited"] /\ prompts' = prompts \ {t}
  /\ UNCHANGED <<windowVars, failed, finishes, pending, appVars>>

\* What reaches the window with a finish.
Tells(t, what) ==
  /\ finishes' = [finishes EXCEPT ![t] = @ + 1]
  /\ heard' = [heard EXCEPT ![t] = @ \cup what]
  /\ Hear(t, TRUE)

\* The sidecar has exited: the server is shut down and the finish is sent with
\* its reason, after an error when the output ended early.
Finish(t) ==
  /\ child[t] = "exited"
  /\ at[t] \in {"ended", "reaping"} /\ at' = [at EXCEPT ![t] = "leaving"]
  /\ Tells(t, IF at[t] = "ended" THEN {"error", "Error"} ELSE {reason[t]})
  /\ reason' = [reason EXCEPT ![t] = "none"]
  /\ UNCHANGED <<row, failed, pending, permit, childVars, appVars>>

\* The command takes whatever handle the thread has out of the table.
Unhandle(t) ==
  /\ at[t] \in {"leaving", "failing"}
  /\ at' = [at EXCEPT ![t] = "finalizing"]
  /\ pending' = [pending EXCEPT ![ThreadOf[t]] = NoTurn]

\* A turn that failed gets its error and its finish from the command.
TellsFailure(t) == Tells(t, {"error", "Error"})

\* A command that takes every turn that was not completed for a failure.
FaultFinishAgain(t) ==
  /\ Unhandle(t)
  /\ IF Status(t) # "complete" THEN TellsFailure(t) ELSE Settles(t) /\ UNCHANGED <<finishes, heard>>
  /\ UNCHANGED <<row, failed, reason, permit, childVars, appVars>>

\* A command that returns the error of run_turn before it takes its handle out.
FaultLeaveHandle(t) ==
  /\ at[t] \in {"leaving", "failing"}
  /\ at' = [at EXCEPT ![t] = "finalizing"]
  /\ pending' = IF t \in failed THEN pending ELSE [pending EXCEPT ![ThreadOf[t]] = NoTurn]
  /\ IF t \in failed THEN TellsFailure(t) ELSE Settles(t) /\ UNCHANGED <<finishes, heard>>
  /\ UNCHANGED <<row, failed, reason, permit, childVars, appVars>>

\* "we deregister [...] regardless of whether the turn finishes normally, errors,
\* or is cancelled" (exec_agent.rs:552-554).
Deregister(t) ==
  /\ Unhandle(t)
  /\ IF t \in failed THEN TellsFailure(t) ELSE Settles(t) /\ UNCHANGED <<finishes, heard>>
  /\ UNCHANGED <<row, failed, reason, permit, childVars, appVars>>

----------------------------------------------------------------------------
(* The user.                                                                *)

\* Stop in a window that shows the thread as streaming: exec_agent_cancel.
Stop(w, h) ==
  /\ bucket[w][h].on
  /\ permit' = permit \cup ({pending[h]} \ {NoTurn})
  /\ wanted' = wanted \cup {t \in Turn : ThreadOf[t] = h /\ at[t] \in InCommand}
  /\ UNCHANGED <<at, windowVars, failed, finishes, reason, pending, childVars, sweep, crashes>>

\* ask_permission_handler: an entry in the table, and an event to the window.
AskPermission(t) ==
  /\ child[t] = "running" /\ t \notin prompts
  /\ prompts' = prompts \cup {t}
  /\ UNCHANGED <<at, windowVars, commandVars, child, appVars>>

\* exec_agent_permission_reply.
Reply(t) ==
  /\ t \in prompts
  /\ prompts' = prompts \ {t}
  /\ UNCHANGED <<at, windowVars, commandVars, child, appVars>>

\* The sidecar exits, by itself or because it was told to.
ChildExits(t) ==
  /\ child[t] = "running"
  /\ child' = [child EXCEPT ![t] = "exited"] /\ prompts' = prompts \ {t}
  /\ UNCHANGED <<at, windowVars, commandVars, appVars>>

----------------------------------------------------------------------------
(* The application dies, and boots.  Of a turn that was over, what its       *)
(* window heard and whether it was stopped is kept as history.              *)

Crash ==
  /\ crashes < MaxCrashes /\ crashes' = crashes + 1
  /\ at' = [t \in Turn |-> IF at[t] \in InFlight \cup {"unsaved"} THEN "lost" ELSE at[t]]
  /\ bucket' = [w \in Window |-> [h \in Thread |-> NoBucket]]
  /\ pending' = [h \in Thread |-> NoTurn] /\ permit' = {}
  /\ child' = [t \in Turn |-> "none"]
  /\ heard' = [t \in Turn |-> IF at[t] = "over" THEN heard[t] ELSE {}]
  /\ wanted' = {t \in wanted : at[t] = "over"}
  /\ reason' = [t \in Turn |-> "none"] /\ failed' = {}
  /\ prompts' = {} /\ sweep' = TRUE
  /\ UNCHANGED <<row, finishes>>

\* cancel_streaming_orphans runs in a task of its own, and takes the rows of
\* turns that have begun since for orphans too.
Sweep ==
  /\ sweep /\ sweep' = FALSE
  /\ row' = [t \in Turn |-> IF row[t] = "streaming" THEN "cancelled" ELSE row[t]]
  /\ UNCHANGED <<at, bucket, heard, commandVars, childVars, crashes, wanted>>

----------------------------------------------------------------------------

WindowNext(t) ==
  \/ Send(t) \/ AskFails(t) \/ StartAssistantMessage(t)
  \/ FinalizeAssistantMessage(t) \/ FinalizeFails(t)
CommandNext(t) ==
  \/ PreparationFails(t) \/ Register(t) \/ StartFails(t) \/ Spawn(t)
  \/ Cancelled(t) \/ Finish(t) \/ Deregister(t)
PumpNext(t)  == 
  Forward(t) \/ AgentEnd(t) \/ AuthFailed(t) \/ EndOfOutput(t) \/ ReadFails(t)
ChildNext(t) == AskPermission(t) \/ ChildExits(t)

Next ==
  \/ \E t \in Turn : \/ WindowNext(t) \/ CommandNext(t) \/ PumpNext(t)
                     \/ ChildNext(t) \/ Reply(t)
  \/ \E w \in Window, h \in Thread : Stop(w, h)
  \/ Crash \/ Sweep

\* The command and the window run on; the sidecar exits after its agent_end
\* or once it is killed, and owes nothing before; the user owes nothing.
Fairness ==
  /\ \A t \in Turn :
       /\ WF_vars(CommandNext(t))
       /\ WF_vars(StartAssistantMessage(t) \/ AskFails(t))
       /\ WF_vars(FinalizeAssistantMessage(t) \/ FinalizeFails(t))
       /\ WF_vars(at[t] \in {"ended", "reaping"} /\ ChildExits(t))
  /\ WF_vars(Sweep)

Spec == Init /\ [][Next]_vars /\ Fairness

----------------------------------------------------------------------------
(* Properties.                                                              *)

\* A row says "streaming" only while its turn is in flight, while the write of
\* its end has failed in this life of the application, or until the boot's
\* sweep: no crash, stop or error leaves a row that spins (chat.rs:16-23).
RowsSettle ==
  \A t \in Turn :
    row[t] = "streaming" => at[t] \in InFlight \cup {"unsaved"} \/ sweep

\* The window hears of the end of a turn at most once, from the runner or from
\* the command; and a turn whose row reads complete was ended by its sidecar's
\* agent_end with no error event, by no stop and by no failure of the runner or
\* of the command (exec_agent.rs:590-606, corivo.rs:635).  It may be an agent_end
\* that says "Error": use-chat.ts:498-504 asks for an error event only.
FinishedOnce ==
  \A t \in Turn :
    /\ finishes[t] <= 1
    /\ row[t] = "complete" => finishes[t] = 1 /\ heard[t] \in {{"EndTurn"}, {"Error"}}

\* A handle in the table is that of a turn whose runner still can hear it,
\* however turns of two windows on one thread overwrite and remove each other's.
HandlesAreLive ==
  \A h \in Thread : pending[h] # NoTurn =>
    at[pending[h]] \in InCommand \ {"preparing"} /\ ThreadOf[pending[h]] = h

\* Only a turn that was in flight when its thread was stopped is cancelled: the
\* signal of a stop that came as a turn ended does not hit the next one.
CancelledOnPurpose ==
  \A t \in Turn : "Cancelled" \in heard[t] => t \in wanted

\* A stop that finds the turn before or in its pump ends it, also while the
\* sidecar is silent or waits for the user's answer to a prompt.
StopEndsTheTurn ==
  \A t \in Turn :
    (t \in permit /\ at[t] \in {"starting", "pumping"}) ~> at[t] \notin InFlight
=============================================================================
