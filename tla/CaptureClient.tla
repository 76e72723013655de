--------------------------- MODULE CaptureClient ----------------------------
(***************************************************************************)
(* The desktop's client of the capture helper: a child process that is     *)
(* spoken to over its stdin and stdout (services/capture_client).          *)
(*                                                                         *)
(* A call registers itself with the router, sends its request through a    *)
(* bounded queue to the writer task, and waits for its answer up to a      *)
(* deadline.  The reader task hands answers to the calls that wait for     *)
(* them, and closes the router when the helper's output ends or cannot be  *)
(* decoded.  The helper and the operating system's pipes are external.     *)
(* A request's method, payload and result are left out: a call is its id.  *)
(***************************************************************************)
EXTENDS Naturals, Sequences, FiniteSets

CONSTANTS
  Call,        \* the requests made, each with its own id
  QueueSlots,  \* WRITER_QUEUE_CAPACITY
  PipeSlots    \* requests the pipe to the helper holds

ASSUME SlotsAssumption == QueueSlots \in Nat \ {0} /\ PipeSlots \in Nat \ {0}

VARIABLES
  client,      \* the global handle: "booting", "installed" or "absent"
  helper,      \* "starting", "running" or "exited"
  caller,      \* where the future of each call is
  inFlight,    \* RpcRouter: ids whose sender the router holds
  closed,      \* RpcRouter: no call may register any more
  rx,          \* the oneshot of each call: "empty", "answer" or "gone"
  queue,       \* requests in the writer's channel
  writing,     \* the request the writer is writing: {} or {c}
  writer,      \* "open" or "gone"
  stdin,       \* requests in the pipe to the helper
  accepted,    \* requests the helper has read and not answered
  stdout,      \* lines in the pipe from the helper
  reader       \* "reading" or "ended"

callVars   == <<caller, inFlight, closed, rx>>
writerVars == <<queue, writing, writer>>
helperVars == <<helper, accepted>>
vars == <<client, callVars, writerVars, stdin, helperVars, stdout, reader>>

Ended == {"answered", "timedOut", "crashed", "unavailable", "dropped"}

Garbage == "garbage"   \* a line the codec cannot decode

----------------------------------------------------------------------------
(* The start: spawn_capture_helper, its handshake and the global handle.    *)

Init ==
  /\ client = "booting" /\ helper = "starting"
  /\ caller = [c \in Call |-> "idle"]
  /\ inFlight = {} /\ closed = FALSE /\ rx = [c \in Call |-> "empty"]
  /\ queue = <<>> /\ writing = {} /\ writer = "open"
  /\ stdin = <<>> /\ accepted = {} /\ stdout = <<>> /\ reader = "reading"

\* The helper says hello in time with a protocol in common, the
\* acknowledgement is written, and the tasks are started.
Spawned ==
  /\ client = "booting"
  /\ client' = "installed" /\ helper' = "running"
  /\ UNCHANGED <<callVars, writerVars, stdin, accepted, stdout, reader>>

\* No hello in time, another first message, an undecodable one, no common
\* protocol or a failed write: the child is killed and nothing is installed.
SpawnFails ==
  /\ client = "booting"
  /\ client' = "absent" /\ helper' = "exited"
  /\ UNCHANGED <<callVars, writerVars, stdin, accepted, stdout, reader>>

----------------------------------------------------------------------------
(* A call: CaptureClient::request.                                          *)

\* What a call itself never touches.
outside == <<client, writerVars, stdin, helperVars, stdout, reader>>

Goes(c, from, to) == caller[c] = from /\ caller' = [caller EXCEPT ![c] = to]

\* global::get finds no client.
NoClient(c) ==
  /\ client # "installed"
  /\ Goes(c, "idle", "unavailable")
  /\ UNCHANGED <<inFlight, closed, rx, outside>>

\* A register that looks at closed and inserts under two locks, or not at all.
FaultRegisterUnchecked(c) ==
  /\ client = "installed"
  /\ Goes(c, "idle", "sending") /\ inFlight' = inFlight \cup {c}
  /\ UNCHANGED <<closed, rx, outside>>

Register(c) ==
  /\ client = "installed"
  /\ IF closed
     THEN Goes(c, "idle", "unavailable") /\ UNCHANGED inFlight
     ELSE Goes(c, "idle", "sending") /\ inFlight' = inFlight \cup {c}
  /\ UNCHANGED <<closed, rx, outside>>

\* HelperProcess::send waits while the channel is full, under no deadline.
Send(c) ==
  /\ writer = "open" /\ Len(queue) < QueueSlots
  /\ Goes(c, "sending", "waiting")
  /\ queue' = Append(queue, c)
  /\ UNCHANGED <<client, inFlight, closed, rx, writing, writer, stdin, helperVars, stdout, reader>>

\* The writer task has gone; the entry stays with the router.
SendFails(c) ==
  /\ writer = "gone"
  /\ Goes(c, "sending", "unavailable")
  /\ UNCHANGED <<inFlight, closed, rx, outside>>

\* The answer, or the sender dropped by close_with_crash.
Receive(c) ==
  /\ \/ rx[c] = "answer" /\ Goes(c, "waiting", "answered")
     \/ rx[c] = "gone" /\ Goes(c, "waiting", "crashed")
  /\ UNCHANGED <<inFlight, closed, rx, outside>>

\* The deadline is looked at before the oneshot.
FaultExpireFirst(c) ==
  /\ Goes(c, "waiting", "expired")
  /\ UNCHANGED <<inFlight, closed, rx, outside>>

\* The deadline is looked at only when the oneshot is still empty.
Expire(c) ==
  /\ rx[c] = "empty"
  /\ Goes(c, "waiting", "expired")
  /\ UNCHANGED <<inFlight, closed, rx, outside>>

\* An answer may have been dispatched since: its entry is gone already.
Cancel(c) ==
  /\ Goes(c, "expired", "timedOut")
  /\ inFlight' = inFlight \ {c}
  /\ UNCHANGED <<closed, rx, outside>>

\* The task that made the call is aborted at one of its awaits.
Abandon(c) ==
  /\ Goes(c, "sending", "dropped") \/ Goes(c, "waiting", "dropped")
  /\ UNCHANGED <<inFlight, closed, rx, outside>>

----------------------------------------------------------------------------
(* writer_loop and reader_loop.                                             *)

WriterTakes ==
  /\ writer = "open" /\ writing = {} /\ queue # <<>>
  /\ writing' = {Head(queue)} /\ queue' = Tail(queue)
  /\ UNCHANGED <<client, callVars, writer, stdin, helperVars, stdout, reader>>

WriterWrites ==
  /\ client = "installed" /\ helper = "running" /\ Len(stdin) < PipeSlots
  /\ \E c \in writing : stdin' = Append(stdin, c)
  /\ writing' = {}
  /\ UNCHANGED <<client, callVars, queue, writer, helperVars, stdout, reader>>

\* The pipe is broken: the loop ends and drops its channel.
WriterFails ==
  /\ helper = "exited" /\ writing # {}
  /\ writer' = "gone" /\ writing' = {} /\ queue' = <<>>
  /\ UNCHANGED <<client, callVars, stdin, helperVars, stdout, reader>>

\* The caller still holds its end of the oneshot.
Listening(c) == caller[c] \in {"sending", "waiting"}

\* RpcRouter::dispatch: the entry leaves the table and its caller gets the
\* answer.  An answer without an entry, or whose caller has let go, is dropped.
Dispatch(c) ==
  /\ inFlight' = inFlight \ {c}
  /\ rx' = IF c \in inFlight /\ Listening(c) THEN [rx EXCEPT ![c] = "answer"] ELSE rx
  /\ UNCHANGED <<caller, closed>>

\* Closed without the drain: those who wait are left to their deadlines.
FaultCloseKeepsEntries ==
  /\ closed' = TRUE
  /\ UNCHANGED <<caller, inFlight, rx>>

\* RpcRouter::close_with_crash: closed and the drain are one critical section;
\* the senders, dropped as soon as the lock is released, go with them.
CloseWithCrash ==
  /\ closed' = TRUE /\ inFlight' = {}
  /\ rx' = [c \in Call |-> IF c \in inFlight THEN "gone" ELSE rx[c]]
  /\ UNCHANGED caller

ReaderReads ==
  /\ client = "installed" /\ reader = "reading" /\ stdout # <<>>
  /\ stdout' = Tail(stdout)
  /\ IF Head(stdout) = Garbage
     THEN CloseWithCrash /\ reader' = "ended"
     ELSE Dispatch(Head(stdout)) /\ UNCHANGED reader
  /\ UNCHANGED <<client, writerVars, stdin, helperVars>>

ReaderEof ==
  /\ client = "installed" /\ reader = "reading" /\ stdout = <<>> /\ helper = "exited"
  /\ reader' = "ended" /\ CloseWithCrash
  /\ UNCHANGED <<client, writerVars, stdin, helperVars, stdout>>

----------------------------------------------------------------------------
(* The helper, external: it reads, answers in any order, writes a line the  *)
(* codec refuses, or exits; what it has written can still be read.          *)

HelperReads ==
  /\ helper = "running" /\ stdin # <<>>
  /\ accepted' = accepted \cup {Head(stdin)} /\ stdin' = Tail(stdin)
  /\ UNCHANGED <<client, callVars, writerVars, helper, stdout, reader>>

HelperAnswers(c) ==
  /\ helper = "running" /\ c \in accepted
  /\ accepted' = accepted \ {c} /\ stdout' = Append(stdout, c)
  /\ UNCHANGED <<client, callVars, writerVars, stdin, helper, reader>>

HelperBabbles ==
  /\ helper = "running" /\ Garbage \notin {stdout[i] : i \in DOMAIN stdout}
  /\ reader = "reading"
  /\ stdout' = Append(stdout, Garbage)
  /\ UNCHANGED <<client, callVars, writerVars, stdin, helperVars, reader>>

HelperExits ==
  /\ helper = "running"
  /\ helper' = "exited" /\ stdin' = <<>> /\ accepted' = {}
  /\ UNCHANGED <<client, callVars, writerVars, stdout, reader>>

----------------------------------------------------------------------------

CallNext(c) ==
  \/ NoClient(c) \/ Register(c) \/ Send(c) \/ SendFails(c) \/ Receive(c)
  \/ Expire(c) \/ Cancel(c) \/ Abandon(c)

WriterNext == WriterTakes \/ WriterWrites \/ WriterFails
ReaderNext == ReaderReads \/ ReaderEof
HelperNext ==
  HelperReads \/ HelperBabbles \/ HelperExits \/ \E c \in Call : HelperAnswers(c)

Next ==
  \/ Spawned \/ SpawnFails
  \/ \E c \in Call : CallNext(c)
  \/ WriterNext \/ ReaderNext \/ HelperNext

\* The tasks of the runtime are scheduled. Deadlines need not fire, the helper
\* owes nothing, and a caller may be dropped but need not be.
TasksRun ==
  /\ WF_vars(WriterNext) /\ WF_vars(ReaderNext)
  /\ \A c \in Call : WF_vars(Send(c) \/ SendFails(c) \/ Receive(c) \/ Cancel(c))
Spec     == Init /\ [][Next]_vars /\ TasksRun
----------------------------------------------------------------------------
(* Properties.                                                              *)

\* A call that still waits for something to arrive can be reached: the router
\* holds its sender, and the reader that will use or drop it is still there.
\* router.rs:36-89 keeps the check, the insert and the drain under one lock.
WaiterIsReachable ==
  \A c \in Call :
    caller[c] \in {"sending", "waiting"} /\ rx[c] = "empty"
      => c \in inFlight /\ ~closed /\ reader = "reading"

\* When the helper has died every call in progress ends, the ones that wait
\* in the send included, and without the help of any deadline: the reader's
\* end of file wakes the waiters and the writer's broken pipe the senders.
DeadHelperFreesAll ==
  \A c \in Call :
    (helper = "exited" /\ caller[c] \in {"sending", "waiting", "expired"})
      ~> caller[c] \in Ended

\* The mapping to RpcCalls: an answer counts from its dispatch.
callBar ==
  [c \in Call |->
    IF caller[c] = "idle" THEN "new"
    ELSE IF caller[c] = "expired" THEN "timedOut"
    ELSE IF rx[c] = "answer" /\ caller[c] \in {"waiting", "dropped"} THEN "answered"
    ELSE IF caller[c] \in {"sending", "waiting"} THEN "open" ELSE caller[c]]

linkBar ==
  IF client # "installed" THEN "none"
  ELSE IF closed THEN "closed"
  ELSE IF writer = "gone" THEN "damaged" ELSE "up"

Rpc == INSTANCE RpcCalls WITH call <- callBar, link <- linkBar

\* Calls end once, as RpcCalls promises (client.rs:183-219).
ImplementsRpcCalls == Rpc!Spec
=============================================================================
