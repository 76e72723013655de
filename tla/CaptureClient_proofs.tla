------------------------ MODULE CaptureClient_proofs ------------------------
(* Calls of the capture client end once, as RpcCalls promises, for every    *)
(* set of calls and every capacity of the queue and the pipe.               *)
EXTENDS CaptureClient, SequencesExt, TLAPS

-----------------------------------------------------------------------------
(* A queue as the set of what is in it *)

(* push_back adds the task it is given. *)
LEMMA AppendAsSet ==
  ASSUME NEW S, NEW q \in Seq(S), NEW t \in S
  PROVE  /\ Append(q, t) \in Seq(S)
         /\ ToSet(Append(q, t)) = ToSet(q) \cup {t}
<1>. DEFINE r == Append(q, t)
<1>1. /\ r \in Seq(S) /\ DOMAIN r = 1..(Len(q) + 1) /\ DOMAIN q = 1..Len(q)
      /\ Len(q) \in Nat
      /\ r[Len(q) + 1] = t
      /\ \A i \in 1..Len(q) : r[i] = q[i]
  OBVIOUS
<1>. HIDE DEF r
<1>2. ToSet(r) = ToSet(q) \cup {t}
  <2>1. \A i \in DOMAIN r : r[i] \in ToSet(q) \cup {t}
    BY <1>1 DEF ToSet
  <2>2. \A i \in DOMAIN q : q[i] \in ToSet(r)
    BY <1>1 DEF ToSet
  <2>3. t \in ToSet(r)
    BY <1>1 DEF ToSet
  <2>. QED
    BY <2>1, <2>2, <2>3 DEF ToSet
<1>. QED
  BY <1>1, <1>2 DEF r

(* recv takes the first of the queue and leaves the others. *)
LEMMA PopFrontAsSet ==
  ASSUME NEW S, NEW q \in Seq(S), q # <<>>
  PROVE  /\ Head(q) \in S /\ Tail(q) \in Seq(S)
         /\ ToSet(q) = {Head(q)} \cup ToSet(Tail(q))
<1>. DEFINE h == Head(q)
            r == Tail(q)
<1>1. /\ h \in S /\ r \in Seq(S) /\ DOMAIN q = 1..Len(q) /\ DOMAIN r = 1..(Len(q) - 1)
      /\ Len(q) \in Nat \ {0}
      /\ h = q[1]
      /\ \A i \in 1..(Len(q) - 1) : r[i] = q[i + 1]
  OBVIOUS
<1>. HIDE DEF h, r
<1>4. \A i \in DOMAIN r : i + 1 \in DOMAIN q /\ r[i] = q[i + 1]
  BY <1>1
<1>5. \A i \in DOMAIN q : i = 1 \/ (i - 1 \in DOMAIN r /\ q[i] = r[i - 1])
  BY <1>1
<1>2. ToSet(q) = {h} \cup ToSet(r)
  <2>1. \A i \in DOMAIN r : r[i] \in ToSet(q)
    BY <1>1, <1>4 DEF ToSet
  <2>2. \A i \in DOMAIN q : q[i] \in {h} \cup ToSet(r)
    BY <1>1, <1>5 DEF ToSet
  <2>3. h \in ToSet(q)
    BY <1>1 DEF ToSet
  <2>. QED
    BY <2>1, <2>2, <2>3 DEF ToSet
<1>. QED
  BY <1>1, <1>2 DEF h, r

-----------------------------------------------------------------------------
Line == Call \cup {Garbage}

CallTypes ==
  /\ caller \in [Call -> {"idle", "sending", "waiting", "expired"} \cup Ended]
  /\ inFlight \in SUBSET Call
  /\ rx \in [Call -> {"empty", "answer", "gone"}]
  /\ closed \in BOOLEAN

WireTypes ==
  /\ queue \in Seq(Call) /\ stdin \in Seq(Call) /\ stdout \in Seq(Line)
  /\ writing \in SUBSET Call /\ accepted \in SUBSET Call

(* Nothing has happened on the wire before there is a client. *)
NotYet ==
  client # "installed" =>
    /\ helper # "running" /\ ~closed /\ writer = "open" /\ queue = <<>> /\ writing = {}
    /\ \A c \in Call : caller[c] \in {"idle", "unavailable"}

(* Where a request is that its caller has handed over and nobody answered,  *)
(* or whose answer the reader has yet to take.                              *)
OnTheWire == ToSet(queue) \cup writing \cup ToSet(stdin) \cup accepted \cup ToSet(stdout)

HandedOver ==
  \A c \in Call : c \in OnTheWire /\ c # Garbage => caller[c] \notin {"idle", "sending"}

(* A call's entry with the router and its oneshot. *)
Entries ==
  \A c \in Call :
    /\ c \in inFlight => rx[c] = "empty"
    /\ caller[c] = "idle" => c \notin inFlight /\ rx[c] = "empty"
    /\ caller[c] = "sending" => rx[c] # "answer"
    /\ rx[c] = "gone" => closed

ClosedByReader == reader = IF closed THEN "ended" ELSE "reading"

RouterInv == CallTypes /\ NotYet /\ Entries /\ ClosedByReader /\ WaiterIsReachable
WireInv   == WireTypes /\ HandedOver
IInv      == RouterInv /\ WireInv

LEMMA InitInv == Init => IInv
<1>. SUFFICES ASSUME Init PROVE IInv
  OBVIOUS
<1>. USE DEF Init
<1>1. CallTypes /\ WireTypes
  <2>1. closed \in BOOLEAN
    BY Zenon
  <2>. QED
    BY <2>1 DEF CallTypes, WireTypes, Line
<1>2. OnTheWire = {}
  BY DEF OnTheWire, ToSet
<1>. QED
  BY <1>1, <1>2 DEF IInv, RouterInv, WireInv, NotYet, Entries, ClosedByReader,
     WaiterIsReachable, HandedOver

(* The start disturbs the handle and the helper only. *)
LEMMA StartInv ==
  ASSUME IInv, Spawned \/ SpawnFails
  PROVE  IInv'
<1>1. UNCHANGED <<callVars, writerVars, stdin, accepted, stdout, reader>>
  BY DEF Spawned, SpawnFails
<1>2. NotYet'
  BY <1>1 DEF IInv, RouterInv, NotYet, Spawned, SpawnFails, callVars, writerVars
<1>3. WireInv' /\ (RouterInv /\ NotYet' => RouterInv')
  BY <1>1 DEF IInv, WireInv, WireTypes, HandedOver, OnTheWire, RouterInv, CallTypes,
     Entries, ClosedByReader, WaiterIsReachable, callVars, writerVars
<1>. QED
  BY <1>2, <1>3 DEF IInv

(* What a call does by itself leaves the wire alone; a call that is on it   *)
(* does not go back before its send.                                        *)
LEMMA CallLeavesWire ==
  ASSUME IInv, NEW c \in Call,
         NoClient(c) \/ Register(c) \/ SendFails(c) \/ Receive(c) \/ Expire(c)
           \/ Cancel(c) \/ Abandon(c)
  PROVE  WireInv' /\ UNCHANGED <<outside, OnTheWire>>
<1>1. UNCHANGED outside
  BY DEF NoClient, Register, SendFails, Receive, Expire, Cancel, Abandon
<1>2. UNCHANGED OnTheWire /\ WireTypes'
  BY <1>1 DEF outside, writerVars, helperVars, OnTheWire, IInv, WireInv, WireTypes
<1>3. \A d \in Call : caller'[d] \in {"idle", "sending"} => caller[d] \in {"idle", "sending"}
  BY DEF NoClient, Register, SendFails, Receive, Expire, Cancel, Abandon, Goes,
     IInv, RouterInv, CallTypes
<1>4. HandedOver'
  BY <1>2, <1>3 DEF HandedOver, IInv, WireInv
<1>. QED
  BY <1>1, <1>2, <1>4 DEF WireInv

LEMMA CallInv ==
  ASSUME IInv, NEW c \in Call, CallNext(c)
  PROVE  IInv'
<1>. USE DEF IInv, RouterInv, CallTypes, NotYet, Entries, ClosedByReader, WaiterIsReachable, Goes
<1>1. CASE NoClient(c)
  BY <1>1, CallLeavesWire DEF NoClient, outside, writerVars, helperVars, Ended
<1>2. CASE Register(c)
  <2>1. WireInv' /\ UNCHANGED <<closed, rx, outside>>
    BY <1>2, CallLeavesWire DEF Register
  <2>2. RouterInv'
    <3>1. CASE closed
      BY <1>2, <2>1, <3>1 DEF Register, outside, writerVars, helperVars, Ended
    <3>2. CASE ~closed
      BY <1>2, <2>1, <3>2 DEF Register, outside, writerVars, helperVars, Ended
    <3>. QED
      BY <3>1, <3>2
  <2>. QED
    BY <2>1, <2>2
<1>3. CASE Send(c)
  <2>1. /\ WireTypes' /\ OnTheWire' = OnTheWire \cup {c}
    <3>1. queue' \in Seq(Call) /\ ToSet(queue') = ToSet(queue) \cup {c}
      BY <1>3, AppendAsSet DEF Send, WireInv, WireTypes
    <3>. QED
      BY <1>3, <3>1 DEF Send, WireInv, WireTypes, helperVars, OnTheWire
  <2>2. caller' = [caller EXCEPT ![c] = "waiting"]
    BY <1>3 DEF Send
  <2>3. HandedOver'
    BY <2>1, <2>2 DEF HandedOver, WireInv
  <2>4. RouterInv'
    BY <1>3 DEF Send, helperVars, Ended
  <2>. QED
    BY <2>1, <2>3, <2>4 DEF WireInv
<1>4. CASE SendFails(c)
  BY <1>4, CallLeavesWire DEF SendFails, outside, writerVars, helperVars, Ended
<1>5. CASE Receive(c)
  BY <1>5, CallLeavesWire DEF Receive, outside, writerVars, helperVars, Ended
<1>6. CASE Expire(c)
  BY <1>6, CallLeavesWire DEF Expire, outside, writerVars, helperVars, Ended
<1>7. CASE Cancel(c)
  BY <1>7, CallLeavesWire DEF Cancel, outside, writerVars, helperVars, Ended
<1>8. CASE Abandon(c)
  BY <1>8, CallLeavesWire DEF Abandon, outside, writerVars, helperVars, Ended
<1>. QED
  BY <1>1, <1>2, <1>3, <1>4, <1>5, <1>6, <1>7, <1>8 DEF CallNext

(* The wire carries nothing that was not handed over. *)
LEMMA WriterInv ==
  ASSUME IInv, WriterNext
  PROVE  IInv'
<1>1. WireTypes' /\ OnTheWire' \subseteq OnTheWire
  <2>1. CASE WriterTakes
    <3>1. /\ Head(queue) \in Call /\ Tail(queue) \in Seq(Call)
          /\ ToSet(queue) = {Head(queue)} \cup ToSet(Tail(queue))
      BY <2>1, PopFrontAsSet DEF WriterTakes, IInv, WireInv, WireTypes
    <3>. QED
      BY <2>1, <3>1 DEF WriterTakes, IInv, WireInv, WireTypes, OnTheWire, helperVars
  <2>2. CASE WriterWrites
    <3>1. PICK c \in writing : stdin' = Append(stdin, c)
      BY <2>2 DEF WriterWrites
    <3>2. stdin' \in Seq(Call) /\ ToSet(stdin') = ToSet(stdin) \cup {c}
      BY <3>1, AppendAsSet DEF IInv, WireInv, WireTypes
    <3>. QED
      BY <2>2, <3>1, <3>2 DEF WriterWrites, IInv, WireInv, WireTypes, OnTheWire, helperVars
  <2>3. CASE WriterFails
    <3>1. ToSet(queue') = {} /\ queue' \in Seq(Call)
      BY <2>3 DEF WriterFails, ToSet
    <3>. QED
      BY <2>3, <3>1 DEF WriterFails, IInv, WireInv, WireTypes, OnTheWire, helperVars
  <2>. QED
    BY <2>1, <2>2, <2>3 DEF WriterNext
<1>2. UNCHANGED <<client, callVars, helper, reader>>
  BY DEF WriterNext, WriterTakes, WriterWrites, WriterFails, helperVars
<1>3. NotYet'
  BY <1>2 DEF WriterNext, WriterTakes, WriterWrites, WriterFails, IInv, RouterInv, NotYet, callVars
<1>4. HandedOver'
  BY <1>1, <1>2 DEF HandedOver, IInv, WireInv, callVars
<1>5. RouterInv'
  BY <1>2, <1>3 DEF IInv, RouterInv, CallTypes, Entries, ClosedByReader, WaiterIsReachable, callVars
<1>. QED
  BY <1>1, <1>4, <1>5 DEF IInv, WireInv

(* close_with_crash reaches everyone who is registered. *)
LEMMA CloseInv ==
  ASSUME RouterInv, CloseWithCrash, reader' = "ended", client = "installed",
         UNCHANGED <<client, helper, writer, queue, writing>>
  PROVE  RouterInv'
<1>. USE DEF RouterInv, CallTypes, CloseWithCrash
<1>1. closed' \in BOOLEAN
  BY Zenon
<1>2. CallTypes'
  BY <1>1
<1>3. Entries'
  BY DEF Entries
<1>4. NotYet' /\ ClosedByReader' /\ WaiterIsReachable'
  BY DEF NotYet, ClosedByReader, WaiterIsReachable
<1>. QED
  BY <1>2, <1>3, <1>4

LEMMA ReaderInv ==
  ASSUME IInv, ReaderNext
  PROVE  IInv'
<1>1. CASE ReaderReads
  <2>. DEFINE line == Head(stdout)
  <2>1. /\ line \in Line /\ line \in ToSet(stdout)
        /\ stdout' \in Seq(Line) /\ ToSet(stdout') \subseteq ToSet(stdout)
    <3>1. stdout \in Seq(Line) /\ stdout # <<>>
      BY <1>1 DEF ReaderReads, IInv, WireInv, WireTypes
    <3>. QED
      BY <1>1, <3>1, PopFrontAsSet DEF ReaderReads
  <2>2. UNCHANGED <<client, writerVars, stdin, helperVars, caller>> /\ client = "installed"
    BY <1>1 DEF ReaderReads, CloseWithCrash, Dispatch
  <2>3. WireTypes' /\ OnTheWire' \subseteq OnTheWire
    BY <2>1, <2>2 DEF IInv, WireInv, WireTypes, OnTheWire, writerVars, helperVars
  <2>4. HandedOver'
    BY <2>2, <2>3 DEF HandedOver, IInv, WireInv
  <2>5. CASE line = Garbage
    <3>1. RouterInv'
      BY <1>1, <2>2, <2>5, CloseInv DEF ReaderReads, IInv, writerVars, helperVars
    <3>. QED
      BY <2>3, <2>4, <3>1 DEF IInv, WireInv
  <2>6. CASE line # Garbage
    <3>1. line \in Call /\ caller[line] \notin {"idle", "sending"}
      BY <2>1, <2>6 DEF Line, OnTheWire, HandedOver, IInv, WireInv
    <3>2. Dispatch(line) /\ UNCHANGED reader
      BY <1>1, <2>6 DEF ReaderReads
    <3>3. RouterInv'
      BY <2>2, <3>1, <3>2 DEF Dispatch, Listening, IInv, RouterInv, CallTypes, NotYet, Entries,
         ClosedByReader, WaiterIsReachable, writerVars, helperVars
    <3>. QED
      BY <2>3, <2>4, <3>3 DEF IInv, WireInv
  <2>. QED
    BY <2>5, <2>6
<1>2. CASE ReaderEof
  <2>1. RouterInv'
    BY <1>2, CloseInv DEF ReaderEof, IInv, writerVars, helperVars
  <2>2. WireInv'
    BY <1>2 DEF ReaderEof, CloseWithCrash, IInv, WireInv, WireTypes, HandedOver, OnTheWire,
       writerVars, helperVars
  <2>. QED
    BY <2>1, <2>2 DEF IInv
<1>. QED
  BY <1>1, <1>2 DEF ReaderNext

LEMMA HelperInv ==
  ASSUME IInv, HelperNext
  PROVE  IInv'
<1>1. /\ WireTypes'
      /\ OnTheWire' \subseteq OnTheWire \cup {Garbage}
  <2>. USE DEF IInv, WireInv, WireTypes, OnTheWire, writerVars
  <2>1. CASE HelperReads
    <3>1. /\ Head(stdin) \in Call /\ Tail(stdin) \in Seq(Call)
          /\ ToSet(stdin) = {Head(stdin)} \cup ToSet(Tail(stdin))
      BY <2>1, PopFrontAsSet DEF HelperReads
    <3>. QED
      BY <2>1, <3>1 DEF HelperReads
  <2>2. ASSUME NEW c \in Call, HelperAnswers(c)
        PROVE  WireTypes' /\ OnTheWire' \subseteq OnTheWire \cup {Garbage}
    <3>1. stdout' \in Seq(Line) /\ ToSet(stdout') = ToSet(stdout) \cup {c}
      BY <2>2, AppendAsSet DEF HelperAnswers, Line
    <3>. QED
      BY <2>2, <3>1 DEF HelperAnswers
  <2>3. CASE HelperBabbles
    <3>1. stdout' \in Seq(Line) /\ ToSet(stdout') = ToSet(stdout) \cup {Garbage}
      BY <2>3, AppendAsSet DEF HelperBabbles, Line
    <3>. QED
      BY <2>3, <3>1 DEF HelperBabbles, helperVars
  <2>4. CASE HelperExits
    <3>1. stdin' \in Seq(Call) /\ ToSet(stdin') = {}
      BY <2>4 DEF HelperExits, ToSet
    <3>. QED
      BY <2>4, <3>1 DEF HelperExits
  <2>. QED
    BY <2>1, <2>2, <2>3, <2>4 DEF HelperNext
<1>2. UNCHANGED <<client, callVars, writerVars, reader>> /\ helper' \in {helper, "exited"}
  BY DEF HelperNext, HelperReads, HelperAnswers, HelperBabbles, HelperExits, helperVars
<1>3. HandedOver'
  BY <1>1, <1>2 DEF HandedOver, IInv, WireInv, callVars
<1>4. RouterInv'
  BY <1>2 DEF IInv, RouterInv, CallTypes, NotYet, Entries, ClosedByReader, WaiterIsReachable,
     callVars, writerVars
<1>. QED
  BY <1>1, <1>3, <1>4 DEF IInv, WireInv

LEMMA NextInv == IInv /\ [Next]_vars => IInv'
<1>. SUFFICES ASSUME IInv, [Next]_vars PROVE IInv'
  OBVIOUS
<1>1. CASE UNCHANGED vars
  BY <1>1 DEF vars, callVars, writerVars, helperVars, IInv, RouterInv, CallTypes, NotYet, Entries,
     ClosedByReader, WaiterIsReachable, WireInv, WireTypes, HandedOver, OnTheWire
<1>. QED
  BY <1>1, StartInv, CallInv, WriterInv, ReaderInv, HelperInv DEF Next

THEOREM ClientInductive == Spec => []IInv
BY InitInv, NextInv, PTL DEF Spec

(* router.rs:36-89: nobody waits for an answer that can no longer come.     *)
THEOREM WaitersReachable == Spec => []WaiterIsReachable
<1>1. IInv => WaiterIsReachable
  BY DEF IInv, RouterInv
<1>. QED
  BY <1>1, ClientInductive, PTL

-----------------------------------------------------------------------------
(* The refinement: a step of the client is a step of RpcCalls, or none.     *)

(* What a call has come to, read off its caller and its oneshot.            *)
CallReads ==
  \A c \in Call :
    /\ caller[c] = "idle" => callBar[c] = "new"
    /\ caller[c] \in {"sending", "waiting"} /\ rx[c] # "answer" => callBar[c] = "open"
    /\ caller[c] \in {"waiting", "dropped"} /\ rx[c] = "answer" => callBar[c] = "answered"
    /\ caller[c] = "answered" => callBar[c] = "answered"
    /\ caller[c] \in {"expired", "timedOut"} => callBar[c] = "timedOut"
    /\ caller[c] = "crashed" => callBar[c] = "crashed"
    /\ caller[c] = "unavailable" => callBar[c] = "unavailable"
    /\ caller[c] = "dropped" /\ rx[c] # "answer" => callBar[c] = "dropped"

LEMMA CallBarReads == CallReads
BY DEF CallReads, callBar

LEMMA InitMaps == Init => Rpc!Init
BY DEF Init, Rpc!Init, callBar, linkBar

(* A call alone moves.                                                      *)
LEMMA OneCallMoves ==
  ASSUME NEW c \in Call, UNCHANGED rx, \A d \in Call \ {c} : caller'[d] = caller[d]
  PROVE  callBar' = [callBar EXCEPT ![c] = callBar'[c]]
BY DEF callBar

LEMMA CallMaps ==
  ASSUME IInv, NEW c \in Call, CallNext(c)
  PROVE  [Rpc!Next]_<<callBar, linkBar>>
<1>1. CallReads /\ CallReads'
  BY CallBarReads, PTL
<1>2. linkBar' = linkBar /\ UNCHANGED rx
  BY DEF CallNext, NoClient, Register, Send, SendFails, Receive, Expire, Cancel, Abandon,
     outside, writerVars, linkBar
<1>3. caller \in [Call -> {"idle", "sending", "waiting", "expired"} \cup Ended]
  BY DEF IInv, RouterInv, CallTypes
<1>4. \A d \in Call \ {c} : caller'[d] = caller[d]
  BY <1>3 DEF CallNext, NoClient, Register, Send, SendFails, Receive, Expire, Cancel, Abandon, Goes
<1>5. callBar' = [callBar EXCEPT ![c] = callBar'[c]]
  BY <1>2, <1>4, OneCallMoves
<1>6. callBar \in [Call -> {callBar[d] : d \in Call}]
  BY DEF callBar
<1>7. callBar'[c] = callBar[c] => callBar' = callBar
  BY <1>5, <1>6
<1>. DEFINE Moves(from, to) == callBar[c] = from /\ callBar'[c] = to
<1>8. \A from, to : Moves(from, to) => Rpc!Becomes(c, from, to)
  BY <1>2, <1>5 DEF Rpc!Becomes
<1>. HIDE DEF Moves
<1>9. CASE NoClient(c)
  <2>1. Moves("new", "unavailable") /\ linkBar # "up"
    BY <1>1, <1>3, <1>9 DEF NoClient, Goes, Moves, CallReads, linkBar
  <2>. QED
    BY <1>8, <2>1 DEF Rpc!Next, Rpc!Refuse
<1>10. CASE Register(c)
  <2>1. CASE closed
    <3>1. Moves("new", "unavailable") /\ linkBar # "up"
      BY <1>1, <1>3, <1>10, <2>1 DEF Register, Goes, Moves, CallReads, linkBar
    <3>. QED
      BY <1>8, <3>1 DEF Rpc!Next, Rpc!Refuse
  <2>2. CASE ~closed
    <3>1. caller[c] = "idle" /\ caller'[c] = "sending" /\ rx'[c] = "empty"
      BY <1>2, <1>3, <1>10, <2>2 DEF Register, Goes, IInv, RouterInv, Entries
    <3>2. Moves("new", "open")
      BY <1>1, <3>1 DEF CallReads, Moves
    <3>3. Rpc!Standing
      BY <1>10, <2>2 DEF Register, linkBar, Rpc!Standing
    <3>. QED
      BY <1>8, <3>2, <3>3 DEF Rpc!Next, Rpc!Open
  <2>. QED
    BY <2>1, <2>2
<1>11. CASE Send(c)
  <2>1. caller[c] = "sending" /\ caller'[c] = "waiting" /\ rx[c] # "answer"
    BY <1>3, <1>11 DEF Send, Goes, IInv, RouterInv, Entries
  <2>2. callBar'[c] = callBar[c]
    BY <1>1, <1>2, <2>1 DEF CallReads
  <2>. QED
    BY <1>2, <1>7, <2>2
<1>12. CASE SendFails(c)
  <2>1. caller[c] = "sending" /\ caller'[c] = "unavailable" /\ rx[c] # "answer"
    BY <1>3, <1>12 DEF SendFails, Goes, IInv, RouterInv, Entries
  <2>2. Moves("open", "unavailable")
    BY <1>1, <1>2, <2>1 DEF CallReads, Moves
  <2>3. linkBar # "up"
    BY <1>12 DEF SendFails, linkBar
  <2>. QED
    BY <1>8, <2>2, <2>3 DEF Rpc!Next, Rpc!Refuse
<1>13. CASE Receive(c)
  <2>1. CASE rx[c] = "answer"
    <3>1. caller[c] = "waiting" /\ caller'[c] = "answered"
      BY <1>3, <1>13, <2>1 DEF Receive, Goes
    <3>2. callBar'[c] = callBar[c]
      BY <1>1, <1>2, <2>1, <3>1 DEF CallReads
    <3>. QED
      BY <1>2, <1>7, <3>2
  <2>2. CASE rx[c] = "gone"
    <3>1. caller[c] = "waiting" /\ caller'[c] = "crashed"
      BY <1>3, <1>13, <2>2 DEF Receive, Goes
    <3>2. Moves("open", "crashed")
      BY <1>1, <1>2, <2>2, <3>1 DEF CallReads, Moves
    <3>3. linkBar = "closed"
      BY <2>2, <3>1 DEF linkBar, IInv, RouterInv, Entries, NotYet
    <3>. QED
      BY <1>8, <3>2, <3>3 DEF Rpc!Next, Rpc!Crash
  <2>. QED
    BY <1>13, <2>1, <2>2 DEF Receive
<1>14. CASE Expire(c)
  <2>1. caller[c] = "waiting" /\ caller'[c] = "expired" /\ rx[c] = "empty"
    BY <1>3, <1>14 DEF Expire, Goes
  <2>2. Moves("open", "timedOut")
    BY <1>1, <1>2, <2>1 DEF CallReads, Moves
  <2>3. Rpc!Standing
    BY <2>1 DEF linkBar, Rpc!Standing, IInv, RouterInv, WaiterIsReachable, NotYet
  <2>. QED
    BY <1>8, <2>2, <2>3 DEF Rpc!Next, Rpc!TimeOut
<1>15. CASE Cancel(c)
  <2>1. caller[c] = "expired" /\ caller'[c] = "timedOut"
    BY <1>3, <1>15 DEF Cancel, Goes
  <2>2. callBar'[c] = callBar[c]
    BY <1>1, <2>1 DEF CallReads
  <2>. QED
    BY <1>2, <1>7, <2>2
<1>16. CASE Abandon(c)
  <2>1. caller[c] \in {"sending", "waiting"} /\ caller'[c] = "dropped"
    BY <1>3, <1>16 DEF Abandon, Goes
  <2>2. CASE rx[c] = "answer"
    <3>1. caller[c] = "waiting"
      BY <2>1, <2>2 DEF IInv, RouterInv, Entries
    <3>2. callBar'[c] = callBar[c]
      BY <1>1, <1>2, <2>1, <2>2, <3>1 DEF CallReads
    <3>. QED
      BY <1>2, <1>7, <3>2
  <2>3. CASE rx[c] # "answer"
    <3>1. Moves("open", "dropped")
      BY <1>1, <1>2, <2>1, <2>3 DEF CallReads, Moves
    <3>. QED
      BY <1>8, <3>1 DEF Rpc!Next, Rpc!Drop
  <2>. QED
    BY <2>2, <2>3
<1>. QED
  BY <1>9, <1>10, <1>11, <1>12, <1>13, <1>14, <1>15, <1>16 DEF CallNext

(* The writer may lose the helper, which damages the link.                  *)
LEMMA WriterMaps ==
  ASSUME IInv, WriterNext
  PROVE  [Rpc!Next]_<<callBar, linkBar>>
<1>1. UNCHANGED <<client, callVars>>
  BY DEF WriterNext, WriterTakes, WriterWrites, WriterFails
<1>2. callBar' = callBar
  BY <1>1 DEF callBar, callVars
<1>3. linkBar' = linkBar \/ (linkBar = "up" /\ linkBar' = "damaged")
  BY <1>1 DEF WriterNext, WriterTakes, WriterWrites, WriterFails, linkBar, callVars
<1>. QED
  BY <1>2, <1>3 DEF Rpc!Next, Rpc!LinkChanges

(* Closing the router changes nobody's answer.                              *)
LEMMA CloseMaps ==
  ASSUME IInv, CloseWithCrash, client = "installed", reader = "reading",
         UNCHANGED <<client, writer>>
  PROVE  [Rpc!Next]_<<callBar, linkBar>>
<1>1. callBar' = callBar
  <2>1. caller' = caller /\ \A c \in Call : rx'[c] = "answer" <=> rx[c] = "answer"
    BY DEF CloseWithCrash, IInv, RouterInv, CallTypes, Entries
  <2>. QED
    BY <2>1 DEF callBar
<1>2. Rpc!Standing /\ linkBar' = "closed"
  BY DEF CloseWithCrash, IInv, RouterInv, ClosedByReader, linkBar, Rpc!Standing
<1>. QED
  BY <1>1, <1>2 DEF Rpc!Next, Rpc!LinkChanges

(* An answer the reader hands over is the call's answer; one nobody waits   *)
(* for changes nothing.                                                     *)
LEMMA DispatchMaps ==
  ASSUME IInv, NEW c \in Call, caller[c] \notin {"idle", "sending"}, Dispatch(c),
         client = "installed", reader = "reading", UNCHANGED <<client, writer>>
  PROVE  [Rpc!Next]_<<callBar, linkBar>>
<1>1. linkBar' = linkBar /\ Rpc!Standing
  BY DEF Dispatch, linkBar, Rpc!Standing, IInv, RouterInv, ClosedByReader
<1>2. CASE c \in inFlight /\ Listening(c)
  <2>1. caller[c] = "waiting" /\ rx[c] = "empty"
    BY <1>2 DEF Listening, IInv, RouterInv, Entries
  <2>2. caller' = caller /\ rx' = [rx EXCEPT ![c] = "answer"] /\ rx'[c] = "answer"
    BY <1>2 DEF Dispatch, IInv, RouterInv, CallTypes
  <2>3. callBar[c] = "open" /\ callBar' = [callBar EXCEPT ![c] = "answered"]
    BY <2>1, <2>2 DEF callBar, IInv, RouterInv, CallTypes
  <2>. QED
    BY <1>1, <2>3 DEF Rpc!Next, Rpc!Answer, Rpc!Becomes
<1>3. CASE ~(c \in inFlight /\ Listening(c))
  BY <1>1, <1>3 DEF Dispatch, callBar
<1>. QED
  BY <1>2, <1>3

LEMMA ReaderMaps ==
  ASSUME IInv, ReaderNext
  PROVE  [Rpc!Next]_<<callBar, linkBar>>
<1>1. client = "installed" /\ reader = "reading" /\ UNCHANGED <<client, writer>>
  BY DEF ReaderNext, ReaderReads, ReaderEof, writerVars
<1>2. CASE CloseWithCrash
  BY <1>1, <1>2, CloseMaps
<1>3. CASE ~CloseWithCrash
  <2>1. stdout # <<>> /\ Head(stdout) # Garbage /\ Dispatch(Head(stdout))
    BY <1>3 DEF ReaderNext, ReaderReads, ReaderEof
  <2>2. Head(stdout) \in Line /\ Head(stdout) \in ToSet(stdout)
    BY <2>1, PopFrontAsSet DEF IInv, WireInv, WireTypes
  <2>3. Head(stdout) \in Call /\ caller[Head(stdout)] \notin {"idle", "sending"}
    BY <2>1, <2>2 DEF Line, OnTheWire, HandedOver, IInv, WireInv
  <2>. QED
    BY <1>1, <2>1, <2>3, DispatchMaps
<1>. QED
  BY <1>2, <1>3

LEMMA StepMaps == IInv /\ [Next]_vars => [Rpc!Next]_<<callBar, linkBar>>
<1>. SUFFICES ASSUME IInv, [Next]_vars
              PROVE  [Rpc!Next]_<<callBar, linkBar>>
  OBVIOUS
<1>1. CASE Spawned \/ SpawnFails
  <2>1. callBar' = callBar /\ linkBar = "none" /\ linkBar' \in {"none", "up"}
    BY <1>1 DEF Spawned, SpawnFails, callVars, writerVars, callBar, linkBar, IInv, RouterInv, NotYet
  <2>. QED
    BY <2>1 DEF Rpc!Next, Rpc!LinkChanges
<1>2. CASE HelperNext \/ UNCHANGED vars
  <2>1. UNCHANGED <<client, callVars, writer>>
    BY <1>2 DEF HelperNext, HelperReads, HelperAnswers, HelperBabbles, HelperExits, writerVars, vars
  <2>. QED
    BY <2>1 DEF callVars, callBar, linkBar
<1>. QED
  BY <1>1, <1>2, CallMaps, WriterMaps, ReaderMaps DEF Next

(* client.rs:183-219: whatever the helper, the pipes, the deadlines and the *)
(* callers do, every call ends at most once, with an answer or a timeout    *)
(* only while the link stands and with a crash only after it was closed.    *)
THEOREM ClientImplementsRpcCalls == Spec => ImplementsRpcCalls
BY InitMaps, StepMaps, ClientInductive, PTL DEF Spec, ImplementsRpcCalls, Rpc!Spec, Rpc!vars
=============================================================================
