------------------------- MODULE CapturePipeline_proofs -------------------------
(* Commands and expiries that come in turn, however many and whichever way  *)
(* they end, leave capture and its pause whole: the invariant behind the    *)
(* properties of CapturePipeline, and its proof.                            *)
EXTENDS CapturePipeline, TLAPS

-----------------------------------------------------------------------------
(* Lists of steps *)

Starting == {"create", "bus", "subscribe", "observe", "spawn", "push"}
Stopping == {"detach", "blind", "close", "drain", "end"}
Pausing  == {"disarm", "note", "freeze", "arm", "keep"}
Resuming == {"take", "lift", "clear"}
StepName == Starting \cup Stopping \cup Pausing \cup Resuming \cup
            {"admit", "claim", "halt", "ask", "restart", "save", "forget", "restore", "launch", "sleep"}

(* What follows step h of a list that ends with l. *)
Then(h, l) ==
  CASE h = "admit" -> "claim"      [] h = "claim" -> "create"    [] h = "create" -> "bus"
    [] h = "bus" -> "subscribe"    [] h = "subscribe" -> "observe"
    [] h = "observe" -> "spawn"    [] h = "spawn" -> "push"      [] h = "push" -> "forget"
    [] h = "halt" -> "detach"      [] h = "detach" -> "blind"    [] h = "blind" -> "close"
    [] h = "close" -> "drain"      [] h = "drain" -> "end"       [] h = "end" -> "disarm"
    [] h = "disarm" -> "note"      [] h = "note" -> "freeze"     [] h = "freeze" -> "arm"
    [] h = "arm" -> "keep"         [] h = "keep" -> l            [] h = "ask" -> l
    [] h = "take" -> "lift"        [] h = "lift" -> "clear"      [] h = "clear" -> "restart"
    [] h = "restart" -> "forget"   [] h = "forget" -> "launch"   [] h = "restore" -> "launch"
    [] OTHER -> h

(* Which steps there are in a list that ends with l. *)
Span(h, l) ==
  /\ h \in Starting \cup {"admit", "claim"} => l \in {"push", "forget"}
  /\ h \in Stopping \cup {"halt"} => l \in {"end", "save", "launch"}
  /\ h \in Pausing \cup {"ask"} => l \in {"save", "launch"}
  /\ h \in Resuming \cup {"restart"} => l \in {"restart", "forget"}
  /\ h = "forget" => l \in {"forget", "launch"}
  /\ h = "restore" => l = "launch"
  /\ h \in {"save", "launch", "sleep"} => l = h

Orderly(s) ==
  /\ s \in Seq(StepName)
  /\ \A i \in 1..Len(s) : Span(s[i], s[Len(s)])
  /\ \A i \in 1..(Len(s) - 1) : s[i] # s[Len(s)] /\ s[i + 1] = Then(s[i], s[Len(s)])

-----------------------------------------------------------------------------
(* The invariant *)

PipelineTypes ==
  /\ todo \in [Party -> Seq(StepName)] /\ \A p \in Party : Orderly(todo[p])
  /\ was \in [Party -> BOOLEAN] /\ mine \in [Party -> Nat]
  /\ pipe \in [running : BOOLEAN, session : Nat, bus : Nat, sink : Nat, observer : Nat,
               workers : SUBSET Nat, open : SUBSET Nat]
  /\ pause \in [active : BOOLEAN, state : {<<>>, <<TRUE>>, <<FALSE>>}, timer : Nat]
  /\ coord \in [Gen -> {"none", "run", "gone"}]
  /\ runner \in [Gen -> {"none", "check", "wait", "tick", "gone"}]
  /\ kept \in Nat
  /\ starts \in 0..MaxStarts /\ pauses \in 0..MaxPauses
  /\ overlaps \in Nat /\ crashes \in Nat /\ failed \in BOOLEAN

Doing(p) == Head(todo[p])
Aim(p)   == todo[p][Len(todo[p])]
Asleep   == {t \in Party : todo[t] = Sleep}

(* The pause that a restart would bring back. *)
Promised == IF kept \in over THEN 0 ELSE kept
Promise  == ~failed => pause.timer = Promised

(* Numbers to come are not in use. *)
Numbers ==
  /\ shut \subseteq 1..starts /\ pipe.session <= starts
  /\ \A g \in Gen : g > starts => coord[g] = "none" /\ runner[g] = "none"
  /\ over \subseteq 1..pauses /\ kept <= pauses /\ pause.timer <= pauses

(* What there is of capture is of one session. *)
Belongs ==
  /\ {pipe.bus, pipe.sink, pipe.observer} \subseteq {0, pipe.session}
  /\ pipe.workers \subseteq {pipe.session} \ {0}
  /\ ~failed => pipe.open = {pipe.session} \ {0}
  /\ \A g \in Gen : coord[g] = "run" \/ Live(g) =>
       g \in pipe.workers \/ \E p \in Busy : Doing(p) = "push" /\ mine[p] = g
  /\ pause.active => ~pipe.running

(* Capture is complete, or there is nothing of it. *)
Complete(g) ==
  /\ {pipe.session, pipe.bus, pipe.sink, pipe.observer} = {g} /\ pipe.workers = {g}
  /\ g # 0 /\ g \notin shut /\ coord[g] = "run" /\ Live(g)
Settled ==
  \/ pipe.session = 0 /\ (pipe.running => failed)
  \/ pipe.running /\ Complete(pipe.session)

(* The pause, its state and its timer go together. *)
Together == (pause.active <=> pause.state # <<>>) /\ (pause.active <=> pause.timer # 0)

(* Where the start of p has got to, its stop, *)
StartStage(p) ==
  LET h == Doing(p)
  IN  /\ h \in Starting => pipe.running
      /\ h = "create" => pipe.session = 0
      /\ h \in Starting \ {"create"} =>
           /\ pipe.session # 0 /\ pipe.session = mine[p] /\ pipe.session \notin shut
           /\ pipe.workers = {}
      /\ h \in {"subscribe", "observe", "spawn", "push"} => pipe.bus = pipe.session
      /\ h \in {"observe", "spawn", "push"} => pipe.sink = pipe.session
      /\ h \in {"spawn", "push"} => pipe.observer = pipe.session
      /\ h = "push" => coord[mine[p]] = "run" /\ Live(mine[p])
      /\ h \in Starting \cup {"claim"} => ~pause.active
StopStage(p) ==
  LET h == Doing(p)
  IN  /\ h \in Stopping \cup Pausing \cup {"save"} => ~pipe.running
      /\ h \in {"blind", "close", "drain", "end"} => pipe.sink = 0
      /\ h \in {"close", "drain", "end"} => pipe.observer = 0
      /\ h \in {"drain", "end"} => pipe.bus = 0
      /\ h = "end" => pipe.workers = {}
      /\ h \notin Starting \cup Stopping => Settled

(* its pause, *)
PauseStage(p) ==
  LET h == Doing(p)
  IN  /\ h \notin {"note", "freeze", "arm", "keep", "lift", "clear"} => Together
      /\ h \in {"note", "freeze", "arm", "keep"} => pause.timer = 0
      /\ h \in {"freeze", "arm", "keep"} => pause.state # <<>>
      /\ h \in {"arm", "keep", "save"} => pause.active
      /\ IF h = "keep" THEN Asleep = {mine[p]} ELSE Asleep = {pause.timer} \ {0, p}
      /\ Aim(p) \in {"save", "launch", "forget", "end"} => p \in Client
      /\ Aim(p) = "save" => mine[p] \in 1..pauses /\ mine[p] \notin over
      /\ h = "save" => pause.timer = mine[p]

(* its resume and its boot.                                                  *)
ResumeStage(p) ==
  LET h == Doing(p)
  IN  /\ h \in {"lift", "clear"} => pause.state = <<>>
      /\ h = "clear" => ~pause.active
      /\ Aim(p) = "restart" => p \in Timer
      /\ p \in Timer =>
           /\ h \in Resuming => pause.timer = p
           /\ ~failed => Promised = 0
      /\ h \notin Resuming /\ (p \in Timer \/ Aim(p) \in {"restart", "forget"}) => ~pause.active
      /\ h \in {"admit", "claim"} /\ Aim(p) = "forget" => ~pipe.running
BootStage(p) ==
  LET h == Doing(p)
  IN  Aim(p) = "launch" =>
        /\ ~pipe.running /\ pipe.session = 0
        /\ h \in {"restore", "forget"} => ~pause.active
        /\ h \in Stopping \cup Pausing \cup {"halt", "ask"} =>
             mine[p] = kept /\ kept \in Timer /\ kept \notin over
        /\ h = "launch" => Promise

Stage(p) ==
  /\ StartStage(p) /\ StopStage(p) /\ PauseStage(p) /\ ResumeStage(p) /\ BootStage(p)
  /\ p \in Client /\ Aim(p) \in {"push", "end"} => Promise

Turns ==
  /\ aborted = {} /\ \A p, q \in Busy : p = q
  /\ Numbers /\ Belongs
  /\ AtRest => Settled /\ Together /\ Asleep = {pause.timer} \ {0} /\ Promise
  /\ \A p \in Busy : Stage(p)

PipelineInv == PipelineTypes /\ (overlaps = 0 => Turns)

-----------------------------------------------------------------------------
(* What lists of steps are like *)

(* Of an orderly list the rest is orderly, and begins with what follows.    *)
LEMMA OrderlyTail ==
  ASSUME NEW s, Orderly(s), s # <<>>
  PROVE  /\ Head(s) \in StepName /\ s[Len(s)] \in StepName /\ Span(Head(s), s[Len(s)])
         /\ Orderly(Tail(s))
         /\ \/ Tail(s) = <<>> /\ Head(s) = s[Len(s)]
            \/ /\ Tail(s) # <<>> /\ Head(s) # s[Len(s)]
               /\ Head(Tail(s)) = Then(Head(s), s[Len(s)])
               /\ Tail(s)[Len(Tail(s))] = s[Len(s)]
<1>. DEFINE n == Len(s)
            t == Tail(s)
<1>1. s \in Seq(StepName) /\ n \in Nat /\ n >= 1 /\ Head(s) = s[1]
  BY DEF Orderly
<1>2. /\ t \in Seq(StepName) /\ Len(t) = n - 1
      /\ \A i \in 1..(n - 1) : t[i] = s[i + 1]
  BY <1>1
<1>3. /\ \A i \in 1..n : s[i] \in StepName /\ Span(s[i], s[n])
      /\ \A i \in 1..(n - 1) : s[i] # s[n] /\ s[i + 1] = Then(s[i], s[n])
  BY <1>1 DEF Orderly
<1>4. CASE n = 1
  <2>1. t = <<>>
    BY <1>2, <1>4, SMTT(30)
  <2>2. Orderly(t)
    BY <1>2, <1>4, SMTT(30) DEF Orderly
  <2>. QED
    BY <1>1, <1>3, <1>4, <2>1, <2>2
<1>5. CASE n # 1
  <2>1. n - 1 \in Nat /\ n - 1 >= 1 /\ 1 \in 1..(n - 1) /\ n - 1 \in 1..(n - 1)
    <3>. HIDE DEF n
    <3>. QED
      BY <1>1, <1>5
  <2>2. t[Len(t)] = s[n] /\ t # <<>> /\ Head(t) = s[2]
    BY <1>1, <1>2, <2>1
  <2>3. Orderly(t)
    <3>1. \A i \in 1..Len(t) : i + 1 \in 1..n /\ t[i] = s[i + 1]
      BY <1>1, <1>2
    <3>2. \A i \in 1..(Len(t) - 1) : i + 1 \in 1..(n - 1) /\ t[i] = s[i + 1] /\ t[i + 1] = s[(i + 1) + 1]
      BY <1>1, <1>2
    <3>. HIDE DEF t, n
    <3>. QED
      BY <1>2, <1>3, <2>2, <3>1, <3>2, ZenonT(40) DEF Orderly
  <2>4. s[1] # s[n] /\ s[2] = Then(s[1], s[n])
    BY <1>3, <2>1
  <2>. QED
    BY <1>1, <1>3, <2>1, <2>2, <2>3, <2>4
<1>. QED
  BY <1>4, <1>5

LEMMA OrderlyLast ==
  ASSUME NEW s, Orderly(s), s # <<>>, Head(s) = s[Len(s)]
  PROVE  s = <<Head(s)>>
<1>1. s \in Seq(StepName) /\ Len(s) \in Nat /\ Len(s) >= 1 /\ Head(s) = s[1]
  BY DEF Orderly
<1>2. \A n \in Nat : n >= 1 /\ n # 1 => 1 \in 1..(n - 1)
  OBVIOUS
<1>3. Len(s) = 1
  BY <1>1, <1>2 DEF Orderly
<1>. QED
  BY <1>1, <1>3

LEMMA OrderlySleep ==
  ASSUME NEW s, Orderly(s), s # <<>>
  PROVE  Head(s) = "sleep" <=> s = Sleep
<1>1. CASE Head(s) = "sleep"
  <2>1. s[Len(s)] = "sleep"
    BY <1>1, OrderlyTail DEF Span, Starting, Stopping, Pausing, Resuming
  <2>. QED
    BY <1>1, <2>1, OrderlyLast DEF Sleep
<1>2. CASE s = Sleep
  BY <1>2 DEF Sleep
<1>. QED
  BY <1>1, <1>2

(* A list before another one, or alone, is orderly if it leads there. *)
LEMMA OrderlyJoin ==
  ASSUME NEW a \in Seq(StepName), a # <<>>, NEW b, Orderly(b), NEW l,
         l = IF b = <<>> THEN a[Len(a)] ELSE b[Len(b)],
         \A i \in 1..Len(a) : Span(a[i], l),
         \A i \in 1..(Len(a) - 1) : a[i] # l /\ a[i + 1] = Then(a[i], l),
         b # <<>> => a[Len(a)] # l /\ b[1] = Then(a[Len(a)], l)
  PROVE  LET s == a \o b
         IN  Orderly(s) /\ s # <<>> /\ Head(s) = a[1] /\ s[Len(s)] = l
<1>. DEFINE s == a \o b
            n == Len(a)
            m == Len(b)
<1>1. /\ b \in Seq(StepName) /\ n \in Nat /\ n >= 1 /\ m \in Nat
      /\ s \in Seq(StepName) /\ Len(s) = n + m
      /\ \A i \in 1..n : s[i] = a[i]
      /\ \A i \in 1..m : s[n + i] = b[i]
      /\ b # <<>> => m >= 1
      /\ b = <<>> => m = 0
  BY DEF Orderly
<1>. HIDE DEF s
<1>2. /\ \A i \in 1..n : Span(a[i], l)
      /\ \A i \in 1..(n - 1) : a[i] # l /\ a[i + 1] = Then(a[i], l)
      /\ b # <<>> => a[n] # l /\ b[1] = Then(a[n], l)
  OBVIOUS
<1>3. b # <<>> => /\ \A i \in 1..m : Span(b[i], l)
                  /\ \A i \in 1..(m - 1) : b[i] # l /\ b[i + 1] = Then(b[i], l)
                  /\ b[m] = l
  BY DEF Orderly
<1>. HIDE DEF n, m
<1>4. s # <<>> /\ Head(s) = a[1] /\ s[Len(s)] = l
  <2>1. CASE b = <<>>
    BY <1>1, <2>1 DEF n
  <2>2. CASE b # <<>>
    BY <1>1, <1>3, <2>2
  <2>. QED
    BY <2>1, <2>2
<1>5. ASSUME NEW i \in 1..Len(s)
      PROVE  Span(s[i], l)
  <2>1. CASE i \in 1..n
    BY <1>1, <1>2, <2>1
  <2>2. CASE i \notin 1..n
    <3>1. i - n \in 1..m /\ n + (i - n) = i /\ b # <<>>
      BY <1>1, <2>2
    <3>. QED
      BY <1>1, <1>3, <3>1
  <2>. QED
    BY <2>1, <2>2
<1>6. ASSUME NEW i \in 1..(Len(s) - 1)
      PROVE  s[i] # l /\ s[i + 1] = Then(s[i], l)
  <2>1. CASE i \in 1..(n - 1)
    BY <1>1, <1>2, <2>1
  <2>2. CASE i = n
    <3>1. b # <<>> /\ 1 \in 1..m /\ n \in 1..n
      BY <1>1, <2>2
    <3>2. s[n] = a[n] /\ s[n + 1] = b[1]
      BY <1>1, <3>1
    <3>. QED
      BY <1>2, <2>2, <3>1, <3>2
  <2>3. CASE i > n
    <3>1. /\ i - n \in 1..(m - 1) /\ i - n \in 1..m /\ (i - n) + 1 \in 1..m
          /\ n + (i - n) = i /\ n + ((i - n) + 1) = i + 1 /\ b # <<>>
      BY <1>1, <2>3
    <3>2. s[i] = b[i - n] /\ s[i + 1] = b[(i - n) + 1]
      BY <1>1, <3>1
    <3>. QED
      BY <1>3, <3>1, <3>2
  <2>. QED
    BY <1>1, <2>1, <2>2, <2>3
<1>. QED
  BY <1>1, <1>4, <1>5, <1>6 DEF Orderly, s

LEMMA Spans ==
  /\ \A h \in Starting \cup {"admit", "claim"} : \A l \in {"push", "forget"} : Span(h, l)
  /\ \A h \in Stopping \cup {"halt"} : \A l \in {"end", "save", "launch"} : Span(h, l)
  /\ \A h \in Pausing \cup {"ask"} : \A l \in {"save", "launch"} : Span(h, l)
  /\ \A h \in Resuming \cup {"restart"} : \A l \in {"restart", "forget"} : Span(h, l)
  /\ \A l \in {"forget", "launch"} : Span("forget", l)
  /\ Span("restore", "launch") /\ Span("launch", "launch") /\ Span("save", "save")
  /\ Span("sleep", "sleep")
BY DEF Span, Starting, Stopping, Pausing, Resuming

(* The lists of the commands are orderly. *)
LEMMA OrderlyEmpty == Orderly(<<>>)
BY DEF Orderly

LEMMA OrderlyOne ==
  ASSUME NEW h \in {"sleep", "save", "launch", "forget"}
  PROVE  Orderly(<<h>>) /\ <<h>> # <<>> /\ Head(<<h>>) = h /\ <<h>>[Len(<<h>>)] = h
<1>1. h \in StepName /\ Span(h, h)
  BY Spans DEF StepName
<1>. QED
  BY <1>1 DEF Orderly

LEMMA OrderlyStart ==
  ASSUME NEW t \in {<<>>, <<"forget">>}
  PROVE  LET s == StartSteps \o t
         IN  /\ Orderly(s) /\ s # <<>> /\ Head(s) = "admit"
             /\ s[Len(s)] = IF t = <<>> THEN "push" ELSE "forget"
<1>. DEFINE a == StartSteps
            l == IF t = <<>> THEN "push" ELSE "forget"
<1>1. /\ Len(a) = 8 /\ a[1] = "admit" /\ a[2] = "claim" /\ a[3] = "create" /\ a[4] = "bus"
      /\ a[5] = "subscribe" /\ a[6] = "observe" /\ a[7] = "spawn" /\ a[8] = "push"
  BY DEF StartSteps
<1>2. a \in Seq(StepName)
  BY DEF StartSteps, StepName, Starting
<1>3. /\ Orderly(t)
      /\ t # <<>> => t[1] = "forget" /\ t[Len(t)] = "forget"
  BY OrderlyEmpty, OrderlyOne
<1>. HIDE DEF a
<1>4. \A i \in 1..8 : i = 1 \/ i = 2 \/ i = 3 \/ i = 4 \/ i = 5 \/ i = 6 \/ i = 7 \/ i = 8
  OBVIOUS
<1>5. \A i \in 1..8 : a[i] \in Starting \cup {"admit", "claim"}
  BY <1>1, <1>4 DEF Starting
<1>6. \A i \in 1..8 : Span(a[i], l)
  BY <1>5, Spans
<1>7. \A i \in 1..7 : a[i] # l /\ a[i + 1] = Then(a[i], l)
  <2>1. \A i \in 1..7 : i = 1 \/ i = 2 \/ i = 3 \/ i = 4 \/ i = 5 \/ i = 6 \/ i = 7
    OBVIOUS
  <2>. QED
    BY <1>1, <2>1 DEF Then
<1>8. t # <<>> => a[8] # l /\ t[1] = Then(a[8], l)
  BY <1>1, <1>3 DEF Then
<1>9. l = IF t = <<>> THEN a[Len(a)] ELSE t[Len(t)]
  BY <1>1, <1>3
<1>. HIDE DEF l
<1>10. LET s == a \o t IN Orderly(s) /\ s # <<>> /\ Head(s) = a[1] /\ s[Len(s)] = l
  <2>1. a # <<>>
    BY <1>1
  <2>2. \A i \in 1..(Len(a) - 1) : a[i] # l /\ a[i + 1] = Then(a[i], l)
    BY <1>1, <1>7
  <2>4. \A i \in 1..Len(a) : Span(a[i], l)
    BY <1>1, <1>6
  <2>5. t # <<>> => a[Len(a)] # l /\ t[1] = Then(a[Len(a)], l)
    BY <1>1, <1>8
  <2>. QED
    BY <1>2, <1>3, <1>9, <2>1, <2>2, <2>4, <2>5, OrderlyJoin
<1>. QED
  BY <1>1, <1>10 DEF a, l

LEMMA OrderlyPause ==
  ASSUME NEW t \in {<<"save">>, <<"launch">>}
  PROVE  LET s == PauseSteps \o t
         IN  Orderly(s) /\ s # <<>> /\ Head(s) = "disarm" /\ s[Len(s)] = t[1]
<1>. DEFINE a == PauseSteps
            l == t[1]
<1>1. /\ Len(a) = 5 /\ a[1] = "disarm" /\ a[2] = "note" /\ a[3] = "freeze" /\ a[4] = "arm"
      /\ a[5] = "keep"
  BY DEF PauseSteps
<1>2. a \in Seq(StepName)
  BY DEF PauseSteps, StepName, Pausing
<1>3. Orderly(t) /\ t # <<>> /\ t[Len(t)] = l /\ l \in {"save", "launch"}
  BY OrderlyOne
<1>. HIDE DEF a
<1>4. \A i \in 1..5 : i = 1 \/ i = 2 \/ i = 3 \/ i = 4 \/ i = 5
  OBVIOUS
<1>5. \A i \in 1..5 : a[i] \in Pausing
  BY <1>1, <1>4 DEF Pausing
<1>6. \A i \in 1..5 : Span(a[i], l)
  BY <1>3, <1>5, Spans
<1>7. \A i \in 1..4 : a[i] # l /\ a[i + 1] = Then(a[i], l)
  <2>1. \A i \in 1..4 : i = 1 \/ i = 2 \/ i = 3 \/ i = 4
    OBVIOUS
  <2>. QED
    BY <1>1, <1>3, <2>1 DEF Then
<1>8. t # <<>> => a[5] # l /\ t[1] = Then(a[5], l)
  BY <1>1, <1>3 DEF Then
<1>. HIDE DEF l
<1>9. LET s == a \o t IN Orderly(s) /\ s # <<>> /\ Head(s) = a[1] /\ s[Len(s)] = l
  <2>1. a # <<>>
    BY <1>1
  <2>2. \A i \in 1..(Len(a) - 1) : a[i] # l /\ a[i + 1] = Then(a[i], l)
    BY <1>1, <1>7
  <2>4. \A i \in 1..Len(a) : Span(a[i], l)
    BY <1>1, <1>6
  <2>5. t # <<>> => a[Len(a)] # l /\ t[1] = Then(a[Len(a)], l)
    BY <1>1, <1>8
  <2>3. l = IF t = <<>> THEN a[Len(a)] ELSE t[Len(t)]
    BY <1>3
  <2>. QED
    BY <1>2, <1>3, <2>1, <2>2, <2>3, <2>4, <2>5, OrderlyJoin
<1>. QED
  BY <1>1, <1>9 DEF a, l

LEMMA OrderlyStop ==
  ASSUME NEW t, Orderly(t), t # <<>> => Head(t) = "disarm" /\ t[Len(t)] \in {"save", "launch"}
  PROVE  LET s == StopSteps \o t
         IN  /\ Orderly(s) /\ s # <<>> /\ Head(s) = "halt"
             /\ s[Len(s)] = IF t = <<>> THEN "end" ELSE t[Len(t)]
<1>. DEFINE a == StopSteps
            l == IF t = <<>> THEN "end" ELSE t[Len(t)]
<1>1. /\ Len(a) = 6 /\ a[1] = "halt" /\ a[2] = "detach" /\ a[3] = "blind" /\ a[4] = "close"
      /\ a[5] = "drain" /\ a[6] = "end"
  BY DEF StopSteps
<1>2. a \in Seq(StepName)
  BY DEF StopSteps, StepName, Stopping
<1>3. /\ Orderly(t)
      /\ t # <<>> => t[1] = "disarm" /\ t[Len(t)] \in {"save", "launch"}
  BY DEF Orderly
<1>. HIDE DEF a
<1>4. \A i \in 1..6 : i = 1 \/ i = 2 \/ i = 3 \/ i = 4 \/ i = 5 \/ i = 6
  OBVIOUS
<1>5. \A i \in 1..6 : a[i] \in Stopping \cup {"halt"}
  BY <1>1, <1>4 DEF Stopping
<1>6. \A i \in 1..6 : Span(a[i], l)
  BY <1>3, <1>5, Spans
<1>7. \A i \in 1..5 : a[i] # l /\ a[i + 1] = Then(a[i], l)
  <2>1. \A i \in 1..5 : i = 1 \/ i = 2 \/ i = 3 \/ i = 4 \/ i = 5
    OBVIOUS
  <2>. QED
    BY <1>1, <1>3, <2>1 DEF Then
<1>8. t # <<>> => a[6] # l /\ t[1] = Then(a[6], l)
  BY <1>1, <1>3 DEF Then
<1>9. l = IF t = <<>> THEN a[Len(a)] ELSE t[Len(t)]
  BY <1>1, <1>3
<1>. HIDE DEF l
<1>10. LET s == a \o t IN Orderly(s) /\ s # <<>> /\ Head(s) = a[1] /\ s[Len(s)] = l
  <2>1. a # <<>>
    BY <1>1
  <2>2. \A i \in 1..(Len(a) - 1) : a[i] # l /\ a[i + 1] = Then(a[i], l)
    BY <1>1, <1>7
  <2>4. \A i \in 1..Len(a) : Span(a[i], l)
    BY <1>1, <1>6
  <2>5. t # <<>> => a[Len(a)] # l /\ t[1] = Then(a[Len(a)], l)
    BY <1>1, <1>8
  <2>. QED
    BY <1>2, <1>3, <1>9, <2>1, <2>2, <2>4, <2>5, OrderlyJoin
<1>. QED
  BY <1>1, <1>10 DEF a, l

LEMMA OrderlyResume ==
  /\ Orderly(ResumeSteps) /\ ResumeSteps # <<>> /\ Head(ResumeSteps) = "take"
  /\ ResumeSteps[Len(ResumeSteps)] = "restart"
  /\ LET s == Append(ResumeSteps, "forget")
     IN  Orderly(s) /\ s # <<>> /\ Head(s) = "take" /\ s[Len(s)] = "forget"
<1>. DEFINE a == ResumeSteps
<1>1. /\ Len(a) = 4 /\ a[1] = "take" /\ a[2] = "lift" /\ a[3] = "clear" /\ a[4] = "restart"
  BY DEF ResumeSteps
<1>2. a \in Seq(StepName) /\ a # <<>> /\ Head(a) = "take"
  BY DEF ResumeSteps, StepName, Resuming
<1>3. Append(a, "forget") = a \o <<"forget">> /\ a \o <<>> = a
  BY <1>2
<1>. HIDE DEF a
<1>4. \A i \in 1..4 : i = 1 \/ i = 2 \/ i = 3 \/ i = 4
  OBVIOUS
<1>5. \A i \in 1..4 : a[i] \in Resuming \cup {"restart"}
  BY <1>1, <1>4 DEF Resuming
<1>6. \A i \in 1..4 : Span(a[i], "restart") /\ Span(a[i], "forget")
  BY <1>5, Spans
<1>7. \A i \in 1..3 : \A l \in {"restart", "forget"} : a[i] # l /\ a[i + 1] = Then(a[i], l)
  <2>1. \A i \in 1..3 : i = 1 \/ i = 2 \/ i = 3
    OBVIOUS
  <2>. QED
    BY <1>1, <2>1 DEF Then
<1>8. \A l \in {"restart", "forget"} :
        \A i \in 1..(Len(a) - 1) : a[i] # l /\ a[i + 1] = Then(a[i], l)
  BY <1>1, <1>7
<1>9. Orderly(a)
  BY <1>1, <1>2, <1>6, <1>8 DEF Orderly
<1>10. LET s == a \o <<"forget">> IN Orderly(s) /\ s # <<>> /\ Head(s) = a[1] /\ s[Len(s)] = "forget"
  <2>. DEFINE b == <<"forget">>
  <2>1. Orderly(b) /\ b # <<>> /\ b[Len(b)] = "forget" /\ b[1] = "forget"
    BY OrderlyOne
  <2>2. "forget" = IF b = <<>> THEN a[Len(a)] ELSE b[Len(b)]
    BY <2>1
  <2>3. b # <<>> => a[Len(a)] # "forget" /\ b[1] = Then(a[Len(a)], "forget")
    BY <1>1, <2>1 DEF Then
  <2>4. \A i \in 1..Len(a) : Span(a[i], "forget")
    BY <1>1, <1>6
  <2>. HIDE DEF b
  <2>5. LET s == a \o b IN Orderly(s) /\ s # <<>> /\ Head(s) = a[1] /\ s[Len(s)] = "forget"
    BY <1>2, <1>8, <2>1, <2>2, <2>3, <2>4, OrderlyJoin
  <2>. QED
    BY <2>5 DEF b
<1>. QED
  BY <1>1, <1>2, <1>3, <1>9, <1>10 DEF a

(* So are the short ones. *)
LEMMA OrderlyTwo ==
  ASSUME NEW h, NEW l,
         <<h, l>> \in {<<"ask", "save">>, <<"ask", "launch">>, <<"forget", "launch">>, <<"restore", "launch">>}
  PROVE  LET s == <<h, l>>
         IN  Orderly(s) /\ s # <<>> /\ Head(s) = h /\ s[Len(s)] = l
<1>1. /\ h \in {"ask", "forget", "restore"} /\ l \in {"save", "launch"}
      /\ Span(h, l) /\ Span(l, l) /\ h # l /\ l = Then(h, l)
  BY Spans DEF Then
<1>2. <<h, l>> \in Seq(StepName)
  BY <1>1 DEF StepName
<1>. QED
  BY <1>1, <1>2 DEF Orderly

LEMMA OrderlyJoined ==
  ASSUME NEW h \in {"ask", "forget"}
  PROVE  LET s == <<h>> \o <<"launch">>
         IN  Orderly(s) /\ s # <<>> /\ Head(s) = h /\ s[Len(s)] = "launch"
<1>. DEFINE a == <<h>>
            b == <<"launch">>
<1>1. a \in Seq(StepName) /\ a # <<>> /\ a[1] = h /\ Len(a) = 1
  BY DEF StepName
<1>2. Orderly(b) /\ b # <<>> /\ b[1] = "launch" /\ b[Len(b)] = "launch"
  BY OrderlyOne
<1>3. "launch" = IF b = <<>> THEN a[Len(a)] ELSE b[Len(b)]
  BY <1>2
<1>4. /\ \A i \in 1..Len(a) : Span(a[i], "launch")
      /\ \A i \in 1..(Len(a) - 1) : a[i] # "launch" /\ a[i + 1] = Then(a[i], "launch")
  BY <1>1, Spans
<1>5. b # <<>> => a[Len(a)] # "launch" /\ b[1] = Then(a[Len(a)], "launch")
  BY <1>1, <1>2 DEF Then
<1>. HIDE DEF a, b
<1>6. LET s == a \o b
      IN  Orderly(s) /\ s # <<>> /\ Head(s) = a[1] /\ s[Len(s)] = "launch"
  BY <1>1, <1>2, <1>3, <1>4, <1>5, OrderlyJoin
<1>. QED
  BY <1>1, <1>6 DEF a, b

-----------------------------------------------------------------------------
(* Steps in turn *)

(* Whoever is in the middle of a list is alone, and his stage is as stated. *)
LEMMA Alone ==
  ASSUME PipelineTypes, Turns, NEW p \in Party, NEW s \in StepName \ {"sleep"}, At(p, s)
  PROVE  /\ todo[p] # <<>> /\ todo[p] # Sleep /\ Busy = {p} /\ Stage(p)
         /\ Doing(p) = s /\ Span(s, Aim(p)) /\ Aim(p) # "sleep" /\ Aim(p) \in StepName
         /\ \A q \in Party \ {p} : todo[q] \in {<<>>, Sleep}
         /\ \A g \in Gen : coord[g] = "run" \/ Live(g) =>
              g \in pipe.workers \/ (s = "push" /\ mine[p] = g)
<1>1. todo[p] # <<>> /\ Doing(p) = s /\ Orderly(todo[p])
  BY DEF At, Doing, PipelineTypes
<1>2. todo[p] # Sleep /\ Span(s, Aim(p)) /\ Aim(p) \in StepName
  BY <1>1, OrderlySleep, OrderlyTail DEF Doing, Aim
<1>3. Busy = {p}
  BY <1>1, <1>2 DEF Busy, Turns
<1>4. Aim(p) # "sleep"
  BY <1>2 DEF Span, StepName, Starting, Stopping, Pausing, Resuming
<1>. QED
  BY <1>1, <1>2, <1>3, <1>4 DEF Turns, Belongs, Busy

(* Then he goes on, or is at rest. *)
LEMMA Steps ==
  ASSUME PipelineTypes, NEW p \in Party, todo[p] # <<>>, Go(p)
  PROVE  /\ todo' \in [Party -> Seq(StepName)] /\ \A q \in Party : Orderly(todo'[q])
         /\ \A q \in Party \ {p} : todo'[q] = todo[q]
         /\ \/ todo'[p] = <<>> /\ Doing(p) = Aim(p)
            \/ /\ todo'[p] # <<>> /\ Doing(p) # Aim(p)
               /\ Doing(p)' = Then(Doing(p), Aim(p)) /\ Aim(p)' = Aim(p)
<1>1. /\ todo' = [todo EXCEPT ![p] = Tail(todo[p])] /\ todo \in [Party -> Seq(StepName)]
      /\ \A q \in Party : Orderly(todo[q])
  BY DEF Go, Rest, PipelineTypes
<1>2. /\ todo'[p] = Tail(todo[p]) /\ \A q \in Party \ {p} : todo'[q] = todo[q]
      /\ DOMAIN todo' = Party
  BY <1>1
<1>3. Orderly(Tail(todo[p])) /\ Tail(todo[p]) \in Seq(StepName)
  BY <1>1, OrderlyTail DEF Orderly
<1>4. todo' \in [Party -> Seq(StepName)]
  BY <1>1, <1>3
<1>. QED
  BY <1>1, <1>2, <1>3, <1>4, OrderlyTail DEF Doing, Aim

(* What is left to show of a step of p. *)
LEMMA Turned ==
  ASSUME PipelineTypes', NEW p \in Party, \A q \in Party \ {p} : todo'[q] \in {<<>>, Sleep},
         aborted' = {}, Numbers', Belongs',
         todo'[p] \in {<<>>, Sleep} =>
           Settled' /\ Together' /\ Asleep' = {pause'.timer} \ {0} /\ Promise',
         todo'[p] \notin {<<>>, Sleep} => Stage(p)'
  PROVE  Turns'
<1>1. \A q \in Busy' : q = p /\ todo'[p] \notin {<<>>, Sleep}
  BY DEF Busy
<1>2. AtRest' => todo'[p] \in {<<>>, Sleep}
  BY DEF AtRest, Busy
<1>. QED
  BY <1>1, <1>2 DEF Turns

(* A list of steps is put in the place of the one of p. *)
LEMMA Puts ==
  ASSUME PipelineTypes, NEW p \in Party, NEW t, Orderly(t), todo' = [todo EXCEPT ![p] = t]
  PROVE  /\ todo' \in [Party -> Seq(StepName)] /\ \A q \in Party : Orderly(todo'[q])
         /\ todo'[p] = t /\ \A q \in Party \ {p} : todo'[q] = todo[q]
<1>1. t \in Seq(StepName)
  BY DEF Orderly
<1>. QED
  BY <1>1 DEF PipelineTypes

(* Where asking, restarting and restoring lead. *)
LEMMA AskLeads ==
  ASSUME PipelineTypes, NEW p \in Party, Ask(p)
  PROVE  \E t : /\ todo' = [todo EXCEPT ![p] = t] /\ Orderly(t) /\ t # <<>>
               /\ Head(t) = (IF pipe.running THEN "halt" ELSE "disarm")
               /\ t[Len(t)] = Aim(p) /\ Aim(p) \in {"save", "launch"}
<1>1. todo[p] # <<>> /\ Head(todo[p]) = "ask" /\ Orderly(todo[p])
  BY DEF At, Ask, PipelineTypes
<1>2. Aim(p) \in {"save", "launch"}
  BY <1>1, OrderlyTail DEF Aim, Span
<1>3. /\ Tail(todo[p]) # <<>> /\ Head(Tail(todo[p])) = Aim(p)
      /\ Tail(todo[p])[Len(Tail(todo[p]))] = Aim(p) /\ Orderly(Tail(todo[p]))
  BY <1>1, <1>2, OrderlyTail DEF Aim, Then
<1>. DEFINE l == Aim(p)
            t == PauseSteps \o <<l>>
            u == StopSteps \o t
<1>4. Tail(todo[p]) = <<l>>
  BY <1>3, OrderlyLast
<1>5. \A k \in {"save", "launch"} :
        LET v == PauseSteps \o <<k>> IN Orderly(v) /\ v # <<>> /\ Head(v) = "disarm" /\ v[Len(v)] = k
  BY OrderlyPause
<1>6. Orderly(t) /\ t # <<>> /\ Head(t) = "disarm" /\ t[Len(t)] = l
  BY <1>2, <1>5
<1>7. Orderly(u) /\ u # <<>> /\ Head(u) = "halt" /\ u[Len(u)] = l
  <2>. HIDE DEF t
  <2>. QED
    BY <1>2, <1>6, OrderlyStop
<1>8. /\ (StopSteps \o PauseSteps) \o <<l>> = u
      /\ (<<>> \o PauseSteps) \o <<l>> = t
  <2>1. StopSteps \in Seq(StepName) /\ PauseSteps \in Seq(StepName)
    BY DEF StopSteps, PauseSteps, StepName, Stopping, Pausing
  <2>2. <<l>> \in Seq(StepName)
    <3>1. l \in StepName
      BY <1>2 DEF StepName
    <3>. QED
      BY <3>1
  <2>3. \A a, b, c \in Seq(StepName) : (a \o b) \o c = a \o (b \o c) /\ <<>> \o a = a
    OBVIOUS
  <2>. HIDE DEF l
  <2>. QED
    BY <2>1, <2>2, <2>3
<1>9. todo' = [todo EXCEPT ![p] = (IF pipe.running THEN StopSteps ELSE <<>>) \o PauseSteps \o <<l>>]
  BY <1>4 DEF Ask, PipelineTypes
<1>10. CASE pipe.running
  <2>1. todo' = [todo EXCEPT ![p] = u]
    BY <1>8, <1>9, <1>10
  <2>. HIDE DEF u
  <2>. QED
    BY <1>2, <1>7, <1>10, <2>1
<1>11. CASE ~pipe.running
  <2>1. todo' = [todo EXCEPT ![p] = t]
    BY <1>8, <1>9, <1>11
  <2>. HIDE DEF t
  <2>. QED
    BY <1>2, <1>6, <1>11, <2>1
<1>. QED
  BY <1>10, <1>11

LEMMA RestartLeads ==
  ASSUME PipelineTypes, NEW p \in Party, Restart(p)
  PROVE  \E t : /\ todo' = [todo EXCEPT ![p] = t] /\ Orderly(t)
               /\ Aim(p) \in {"restart", "forget"}
               /\ \/ /\ was[p] /\ ~pipe.running /\ t # <<>> /\ Head(t) = "admit"
                     /\ t[Len(t)] = IF Aim(p) = "restart" THEN "push" ELSE "forget"
                  \/ Aim(p) = "restart" /\ t = <<>>
                  \/ Aim(p) = "forget" /\ t # <<>> /\ Head(t) = "forget" /\ t[Len(t)] = "forget"
<1>. DEFINE r == Tail(todo[p])
            u == StartSteps \o r
<1>1. todo[p] # <<>> /\ Head(todo[p]) = "restart" /\ Orderly(todo[p])
  BY DEF At, Restart, PipelineTypes
<1>2. Aim(p) \in {"restart", "forget"}
  BY <1>1, OrderlyTail DEF Aim, Span
<1>3. \/ Aim(p) = "restart" /\ r = <<>>
      \/ Aim(p) = "forget" /\ r = <<"forget">>
  <2>1. CASE Aim(p) = "restart"
    BY <1>1, <2>1, OrderlyTail DEF Aim
  <2>2. CASE Aim(p) = "forget"
    <3>1. /\ r # <<>> /\ Head(r) = "forget" /\ r[Len(r)] = "forget" /\ Orderly(r)
      BY <1>1, <2>2, OrderlyTail DEF Aim, Then
    <3>. QED
      BY <2>2, <3>1, OrderlyLast
  <2>. QED
    BY <1>2, <2>1, <2>2
<1>4. /\ Orderly(r) /\ <<>> \o r = r
      /\ r # <<>> => Head(r) = "forget" /\ r[Len(r)] = "forget"
  <2>1. Orderly(<<>>) /\ <<>> \o <<>> = <<>>
    BY OrderlyEmpty
  <2>2. LET v == <<"forget">>
        IN  Orderly(v) /\ <<>> \o v = v /\ Head(v) = "forget" /\ v[Len(v)] = "forget"
    BY OrderlyOne
  <2>. HIDE DEF r
  <2>. QED
    BY <1>3, <2>1, <2>2
<1>5. Orderly(u) /\ u # <<>> /\ Head(u) = "admit" /\ u[Len(u)] = IF Aim(p) = "restart" THEN "push" ELSE "forget"
  BY <1>3, OrderlyStart
<1>6. todo' = [todo EXCEPT ![p] = (IF was[p] /\ ~pipe.running THEN StartSteps ELSE <<>>) \o r]
  BY DEF Restart, PipelineTypes
<1>7. CASE was[p] /\ ~pipe.running
  <2>1. todo' = [todo EXCEPT ![p] = u]
    BY <1>6, <1>7
  <2>. HIDE DEF u
  <2>. QED
    BY <1>2, <1>5, <1>7, <2>1
<1>8. CASE ~(was[p] /\ ~pipe.running)
  <2>1. todo' = [todo EXCEPT ![p] = r]
    BY <1>4, <1>6, <1>8
  <2>2. r # <<>> <=> Aim(p) = "forget"
    BY <1>3
  <2>. HIDE DEF r
  <2>. QED
    BY <1>2, <1>4, <2>1, <2>2
<1>. QED
  BY <1>7, <1>8

LEMMA RestoreLeads ==
  ASSUME PipelineTypes, NEW p \in Party, Restore(p)
  PROVE  \E t : /\ todo' = [todo EXCEPT ![p] = t] /\ Orderly(t) /\ t # <<>>
               /\ t[Len(t)] = "launch" /\ Aim(p) = "launch"
               /\ Head(t) = IF kept = 0 THEN "launch" ELSE IF kept \in over THEN "forget" ELSE "ask"
<1>1. todo[p] # <<>> /\ Head(todo[p]) = "restore" /\ Orderly(todo[p])
  BY DEF At, Restore, PipelineTypes
<1>2. Aim(p) = "launch"
  BY <1>1, OrderlyTail DEF Aim, Span
<1>3. /\ Tail(todo[p]) # <<>> /\ Head(Tail(todo[p])) = "launch"
      /\ Tail(todo[p])[Len(Tail(todo[p]))] = "launch" /\ Orderly(Tail(todo[p]))
  BY <1>1, <1>2, OrderlyTail DEF Aim, Then
<1>4. Tail(todo[p]) = <<"launch">>
  BY <1>3, OrderlyLast
<1>5. <<>> \o <<"launch">> = <<"launch">>
  OBVIOUS
<1>6. todo' = [todo EXCEPT ![p] =
        (IF kept = 0 THEN <<>> ELSE IF kept \in over THEN <<"forget">> ELSE <<"ask">>) \o <<"launch">>]
  BY <1>4 DEF Restore, PipelineTypes
<1>7. CASE kept = 0
  <2>1. todo' = [todo EXCEPT ![p] = <<"launch">>]
    BY <1>5, <1>6, <1>7
  <2>. QED
    BY <1>2, <1>7, <2>1, OrderlyOne
<1>8. ASSUME NEW h \in {"ask", "forget"}, todo' = [todo EXCEPT ![p] = <<h>> \o <<"launch">>]
      PROVE  \E t : /\ todo' = [todo EXCEPT ![p] = t] /\ Orderly(t) /\ t # <<>>
                   /\ t[Len(t)] = "launch" /\ Head(t) = h
  <2>. DEFINE t == <<h>> \o <<"launch">>
  <2>1. Orderly(t) /\ t # <<>> /\ Head(t) = h /\ t[Len(t)] = "launch"
    BY OrderlyJoined
  <2>2. todo' = [todo EXCEPT ![p] = t]
    BY <1>8
  <2>. HIDE DEF t
  <2>. QED
    BY <2>1, <2>2
<1>9. CASE kept # 0
  BY <1>2, <1>6, <1>8, <1>9
<1>. QED
  BY <1>7, <1>9

(* Whatever a step does, the lists of steps stay orderly. *)
LEMMA ListsStep ==
  ASSUME PipelineTypes, [Next]_vars
  PROVE  todo' \in [Party -> Seq(StepName)] /\ \A p \in Party : Orderly(todo'[p])
<1>. DEFINE Lists == todo' \in [Party -> Seq(StepName)] /\ \A p \in Party : Orderly(todo'[p])
<1>1. UNCHANGED todo => Lists
  BY DEF PipelineTypes
<1>2. ASSUME NEW p \in Party, At(p, Head(todo[p])), Go(p)
      PROVE  Lists
  BY <1>2, Steps DEF At
<1>3. ASSUME NEW p \in Party, Quit(p)
      PROVE  Lists
  BY <1>3, Puts, OrderlyEmpty DEF Quit
<1>4. ASSUME NEW p \in Party, CallStart(p) \/ CallStop(p) \/ CallPause(p) \/ CallResume(p) \/ Expire(p)
      PROVE  Lists
  <2>1. PICK t \in {StartSteps, StopSteps, <<"ask", "save">>, Append(ResumeSteps, "forget"), ResumeSteps} :
          todo' = [todo EXCEPT ![p] = t]
    BY <1>4 DEF CallStart, CallStop, CallPause, CallResume, Expire, Begin
  <2>2. Orderly(StartSteps) /\ Orderly(StopSteps)
    <3>1. StartSteps \o <<>> = StartSteps /\ StopSteps \o <<>> = StopSteps
      BY DEF StartSteps, StopSteps
    <3>. QED
      BY <3>1, OrderlyStart, OrderlyStop, OrderlyEmpty
  <2>3. Orderly(<<"ask", "save">>) /\ Orderly(Append(ResumeSteps, "forget")) /\ Orderly(ResumeSteps)
    BY OrderlyTwo, OrderlyResume
  <2>4. Orderly(t)
    BY <2>2, <2>3
  <2>. QED
    BY <2>1, <2>4, Puts
<1>5. ASSUME NEW p \in Party, Start(p)
      PROVE  Lists
  <2>1. At(p, Head(todo[p]))
    BY <1>5 DEF At, Start, Admit, Claim, Create, CreateFails, OpenBus, Subscribe, Observe, Spawn, PushWorkers, OnPipe
  <2>2. Go(p) \/ Quit(p)
    BY <1>5 DEF Start, Admit, Claim, Create, CreateFails, OpenBus, Subscribe, Observe, Spawn, PushWorkers, OnPipe
  <2>. QED
    BY <1>2, <1>3, <2>1, <2>2
<1>6. ASSUME NEW p \in Party, Stop(p)
      PROVE  Lists
  <2>1. At(p, Head(todo[p]))
    BY <1>6 DEF At, Stop, Halt, Detach, Blind, CloseBus, Drain, EndSession, EndFails, OnPipe
  <2>2. Go(p) \/ Quit(p)
    BY <1>6 DEF Stop, Halt, Detach, Blind, CloseBus, Drain, EndSession, EndFails, OnPipe
  <2>. QED
    BY <1>2, <1>3, <2>1, <2>2
<1>7. ASSUME NEW p \in Party, NEW s, AbortTimer(p, s)
      PROVE  Lists
  <2>1. At(p, Head(todo[p])) /\ todo[p] # <<>> /\ Orderly(Tail(todo[p])) /\ Tail(todo[p]) \in Seq(StepName)
    BY <1>7, OrderlyTail DEF At, AbortTimer, PipelineTypes, Orderly
  <2>2. CASE Go(p)
    BY <1>2, <2>1, <2>2
  <2>3. CASE todo' = [Rest(p) EXCEPT ![pause.timer] = <<>>]
    <3>1. Rest(p) \in [Party -> Seq(StepName)] /\ \A q \in Party : Orderly(Rest(p)[q])
      BY <2>1 DEF Rest, PipelineTypes
    <3>2. <<>> \in Seq(StepName) /\ Orderly(<<>>)
      BY OrderlyEmpty
    <3>. HIDE DEF Rest
    <3>. QED
      BY <2>3, <3>1, <3>2
  <2>. QED
    BY <1>7, <2>2, <2>3 DEF AbortTimer
<1>8. ASSUME NEW p \in Party, Pause(p)
      PROVE  Lists
  <2>1. CASE Ask(p)
    BY <2>1, AskLeads, Puts
  <2>2. CASE Disarm(p)
    BY <1>7, <2>2 DEF Disarm
  <2>3. CASE Note(p) \/ Freeze(p) \/ Keep(p)
    BY <1>2, <2>3 DEF Note, Freeze, Keep, OnPause, At
  <2>4. CASE Arm(p)
    <3>1. todo[p] # <<>> /\ Orderly(Tail(todo[p])) /\ Tail(todo[p]) \in Seq(StepName)
      BY <2>4, OrderlyTail DEF At, Arm, PipelineTypes, Orderly
    <3>2. Orderly(Sleep) /\ Sleep \in Seq(StepName)
      BY OrderlyOne DEF Sleep, Orderly
    <3>. QED
      BY <2>4, <3>1, <3>2 DEF Arm, Rest, PipelineTypes
  <2>. QED
    BY <1>8, <2>1, <2>2, <2>3, <2>4 DEF Pause
<1>9. ASSUME NEW p \in Party, Resume(p)
      PROVE  Lists
  <2>1. CASE Take(p) \/ Lift(p)
    BY <1>2, <2>1 DEF Take, Lift, OnPause, At
  <2>2. CASE Clear(p)
    BY <1>2, <1>7, <2>2 DEF Clear, OnPause, At
  <2>3. CASE Restart(p)
    BY <2>3, RestartLeads, Puts
  <2>. QED
    BY <1>9, <2>1, <2>2, <2>3 DEF Resume
<1>10. ASSUME NEW p \in Party, Boot(p)
       PROVE  Lists
  <2>1. CASE Save(p) \/ Forget(p) \/ SaveFails(p)
    BY <1>2, <2>1 DEF Save, Forget, SaveFails, Keeps, At
  <2>2. CASE Restore(p)
    BY <2>2, RestoreLeads, Puts
  <2>3. CASE Launch(p)
    <3>1. StartSteps \o <<>> = StartSteps
      BY DEF StartSteps
    <3>2. Orderly(StartSteps)
      BY <3>1, OrderlyStart
    <3>. QED
      BY <1>3, <2>3, <3>2, Puts DEF Launch
  <2>. QED
    BY <1>10, <2>1, <2>2, <2>3 DEF Boot
<1>11. ASSUME Crash
       PROVE  Lists
  <2>1. PICK p \in Client : todo' = [q \in Party |-> IF q = p THEN BootSteps ELSE <<>>]
    BY <1>11 DEF Crash
  <2>2. Orderly(BootSteps) /\ Orderly(<<>>)
    BY OrderlyTwo, OrderlyEmpty DEF BootSteps
  <2>3. BootSteps \in Seq(StepName) /\ <<>> \in Seq(StepName)
    BY <2>2 DEF Orderly
  <2>. QED
    BY <2>1, <2>2, <2>3
<1>12. ASSUME NEW p \in Party, Die(p)
       PROVE  Lists
  BY <1>3, <1>12 DEF Die
<1>13. ASSUME NEW g \in Gen, Crew(g)
       PROVE  Lists
  BY <1>1, <1>13 DEF Crew
<1>. HIDE DEF Lists
<1>14. Lists
  <2>1. CASE UNCHANGED vars
    BY <1>1, <2>1 DEF vars
  <2>2. CASE Next
    BY <1>4, <1>5, <1>6, <1>8, <1>9, <1>10, <1>11, <1>12, <1>13, <2>2 DEF Next, Carry
  <2>. QED
    BY <2>1, <2>2
<1>. QED
  BY <1>14 DEF Lists

LEMMA TypesStep ==
  ASSUME PipelineTypes, [Next]_vars
  PROVE  PipelineTypes'
<1>. DEFINE Lists == todo' \in [Party -> Seq(StepName)] /\ \A p \in Party : Orderly(todo'[p])
            Pipe == [running : BOOLEAN, session : Nat, bus : Nat, sink : Nat, observer : Nat,
                     workers : SUBSET Nat, open : SUBSET Nat]
            Hold == [active : BOOLEAN, state : {<<>>, <<TRUE>>, <<FALSE>>}, timer : Nat]
<1>1. Lists
  BY ListsStep
<1>2. /\ was \in [Party -> BOOLEAN] /\ mine \in [Party -> Nat] /\ pipe \in Pipe /\ pause \in Hold
      /\ coord \in [Gen -> {"none", "run", "gone"}]
      /\ runner \in [Gen -> {"none", "check", "wait", "tick", "gone"}]
      /\ kept \in Nat
      /\ starts \in 0..MaxStarts /\ pauses \in 0..MaxPauses
      /\ overlaps \in Nat /\ crashes \in Nat /\ failed \in BOOLEAN
  BY DEF PipelineTypes
<1>3. starts \in Nat /\ pauses \in Nat /\ MaxStarts \in Nat /\ MaxPauses \in Nat
  BY <1>2, PipelineAssumption
<1>. HIDE DEF Lists
<1>4. ASSUME UNCHANGED <<coord, runner, kept, starts, crashes, failed>>,
             was' \in [Party -> BOOLEAN], mine' \in [Party -> Nat], pipe' \in Pipe, pause' \in Hold,
             pauses' \in 0..MaxPauses, overlaps' \in Nat
      PROVE  PipelineTypes'
  BY <1>1, <1>2, <1>4 DEF PipelineTypes, Lists
<1>5. ASSUME NEW p \in Party, CallStart(p) \/ CallStop(p) \/ CallPause(p) \/ CallResume(p) \/ Expire(p)
      PROVE  PipelineTypes'
  <2>1. /\ UNCHANGED <<was, pipe, pause, coord, runner, kept, starts, crashes, failed>>
        /\ overlaps' \in {overlaps, overlaps + 1}
    BY <1>5 DEF CallStart, CallStop, CallPause, CallResume, Expire, Begin, crew
  <2>2. \/ UNCHANGED <<mine, pauses>>
        \/ pauses < MaxPauses /\ pauses' = pauses + 1 /\ mine' = [mine EXCEPT ![p] = pauses + 1]
    BY <1>5 DEF CallStart, CallStop, CallPause, CallResume, Expire
  <2>3. mine' \in [Party -> Nat]
    BY <1>2, <1>3, <2>2, SMTT(30)
  <2>4. pauses' \in 0..MaxPauses /\ overlaps' \in Nat
    BY <1>2, <1>3, <2>1, <2>2
  <2>5. was' \in [Party -> BOOLEAN] /\ pipe' \in Pipe /\ pause' \in Hold
    BY <1>2, <2>1
  <2>. QED
    BY <1>4, <2>1, <2>3, <2>4, <2>5
<1>6. ASSUME NEW p \in Party, NEW s, NEW next, OnPipe(p, s, next), next \in Pipe
      PROVE  PipelineTypes'
  BY <1>2, <1>4, <1>6 DEF OnPipe, crew, tally, file
<1>7. ASSUME NEW p \in Party, NEW s, NEW next, OnPause(p, s, next), next \in Hold
      PROVE  PipelineTypes'
  BY <1>2, <1>4, <1>7 DEF OnPause, crew, tally, file
<1>8. ASSUME NEW p \in Party, Start(p)
      PROVE  PipelineTypes'
  <2>1. CASE Admit(p) \/ Claim(p)
    <3>1. /\ UNCHANGED <<was, mine, pause, coord, runner, kept, starts, pauses, overlaps, crashes, failed>>
          /\ pipe' = pipe \/ pipe' = [pipe EXCEPT !.running = TRUE]
      BY <2>1 DEF Admit, Claim, crew, tally, file
    <3>2. pipe' \in Pipe
      BY <1>2, <3>1, ZenonT(40)
    <3>. QED
      BY <1>2, <1>4, <3>1, <3>2
  <2>2. CASE Create(p)
    <3>1. /\ UNCHANGED <<was, pause, coord, runner, kept, pauses, overlaps, crashes, failed>>
          /\ starts' = starts + 1 /\ starts < MaxStarts
          /\ mine' = [mine EXCEPT ![p] = starts + 1]
          /\ pipe' = [pipe EXCEPT !.session = starts + 1, !.open = @ \cup {starts + 1}]
      BY <2>2 DEF Create, crew, file
    <3>2. starts' \in 0..MaxStarts /\ starts' \in Nat
      BY <1>3, <3>1
    <3>3. mine' \in [Party -> Nat]
      BY <1>2, <3>1, <3>2
    <3>4. pipe' \in Pipe
      BY <1>2, <3>1, <3>2
    <3>. QED
      BY <1>1, <1>2, <3>1, <3>2, <3>3, <3>4 DEF PipelineTypes, Lists
  <2>3. CASE CreateFails(p)
    BY <1>1, <1>2, <2>3 DEF CreateFails, crew, file, PipelineTypes, Lists
  <2>4. CASE OpenBus(p) \/ Subscribe(p) \/ Observe(p) \/ PushWorkers(p)
    <3>1. mine[p] \in Nat
      BY <1>2
    <3>2. [pipe EXCEPT !.bus = mine[p]] \in Pipe /\ [pipe EXCEPT !.sink = mine[p]] \in Pipe
      BY <1>2, <3>1
    <3>3. [pipe EXCEPT !.observer = mine[p]] \in Pipe
      BY <1>2, <3>1
    <3>4. [pipe EXCEPT !.workers = @ \cup {mine[p]}] \in Pipe
      BY <1>2, <3>1
    <3>. QED
      BY <1>6, <2>4, <3>2, <3>3, <3>4 DEF OpenBus, Subscribe, Observe, PushWorkers
  <2>5. CASE Spawn(p)
    <3>1. /\ UNCHANGED <<was, mine, pipe, pause, kept, starts, pauses, overlaps, crashes, failed>>
          /\ coord' = [coord EXCEPT ![mine[p]] = "run"]
          /\ runner' = [runner EXCEPT ![mine[p]] = "check"]
      BY <2>5 DEF Spawn, tally, file
    <3>. QED
      BY <1>1, <1>2, <3>1 DEF PipelineTypes, Lists
  <2>. QED
    BY <1>8, <2>1, <2>2, <2>3, <2>4, <2>5 DEF Start
<1>9. ASSUME NEW p \in Party, Stop(p)
      PROVE  PipelineTypes'
  <2>1. CASE Halt(p) \/ Detach(p) \/ Blind(p) \/ EndSession(p)
    <3>1. [pipe EXCEPT !.running = FALSE] \in Pipe /\ [pipe EXCEPT !.sink = 0] \in Pipe
      BY <1>2
    <3>2. [pipe EXCEPT !.observer = 0] \in Pipe
      BY <1>2
    <3>3. [pipe EXCEPT !.session = 0, !.open = @ \ {pipe.session}] \in Pipe
      BY <1>2
    <3>. QED
      BY <1>6, <2>1, <3>1, <3>2, <3>3 DEF Halt, Detach, Blind, EndSession
  <2>2. CASE CloseBus(p)
    <3>1. /\ UNCHANGED <<was, mine, pause, coord, runner, kept, starts, pauses, overlaps, crashes, failed>>
          /\ pipe' = [pipe EXCEPT !.bus = 0]
      BY <2>2 DEF CloseBus, tally, file
    <3>2. pipe' \in Pipe
      BY <1>2, <3>1
    <3>. QED
      BY <1>2, <1>4, <3>1, <3>2
  <2>3. CASE Drain(p)
    <3>1. /\ UNCHANGED <<was, mine, pause, kept, starts, pauses, overlaps, crashes, failed>>
          /\ pipe' = [pipe EXCEPT !.workers = {}]
          /\ coord' = [g \in Gen |-> IF g \in pipe.workers THEN "gone" ELSE coord[g]]
          /\ runner' = [g \in Gen |-> IF g \in pipe.workers THEN "gone" ELSE runner[g]]
      BY <2>3 DEF Drain, tally, file
    <3>2. /\ pipe' \in Pipe /\ coord' \in [Gen -> {"none", "run", "gone"}]
          /\ runner' \in [Gen -> {"none", "check", "wait", "tick", "gone"}]
      BY <1>2, <3>1
    <3>. QED
      BY <1>1, <1>2, <3>1, <3>2 DEF PipelineTypes, Lists
  <2>4. CASE EndFails(p)
    <3>1. /\ UNCHANGED <<was, mine, pause, coord, runner, kept, starts, pauses, overlaps, crashes>>
          /\ pipe' = [pipe EXCEPT !.session = 0] /\ failed' = TRUE
      BY <2>4 DEF EndFails, crew, file
    <3>2. pipe' \in Pipe
      BY <1>2, <3>1
    <3>. QED
      BY <1>1, <1>2, <3>1, <3>2 DEF PipelineTypes, Lists
  <2>. QED
    BY <1>9, <2>1, <2>2, <2>3, <2>4 DEF Stop
<1>10. ASSUME NEW p \in Party, NEW s, AbortTimer(p, s)
       PROVE  PipelineTypes'
  <2>1. /\ UNCHANGED <<was, mine, pipe, coord, runner, kept, starts, pauses, overlaps, crashes, failed>>
        /\ pause' = [pause EXCEPT !.timer = 0]
    BY <1>10 DEF AbortTimer, crew, tally, file
  <2>2. pause' \in Hold
    BY <1>2, <2>1
  <2>. QED
    BY <1>2, <1>4, <2>1, <2>2
<1>11. ASSUME NEW p \in Party, Pause(p)
       PROVE  PipelineTypes'
  <2>1. CASE Ask(p) \/ Arm(p)
    <3>1. /\ UNCHANGED <<mine, pipe, pause, coord, runner, kept, starts, pauses, overlaps, crashes, failed>>
          /\ was' = was \/ was' = [was EXCEPT ![p] = pipe.running]
      BY <2>1 DEF Ask, Arm, crew, tally, file
    <3>2. was' \in [Party -> BOOLEAN]
      BY <1>2, <3>1
    <3>. QED
      BY <1>2, <1>4, <3>1, <3>2
  <2>2. CASE Disarm(p)
    BY <1>10, <2>2 DEF Disarm
  <2>3. CASE Note(p)
    <3>1. [pause EXCEPT !.state = <<was[p]>>] \in Hold
      <4>1. was[p] \in BOOLEAN
        BY <1>2
      <4>2. <<was[p]>> \in {<<>>, <<TRUE>>, <<FALSE>>}
        BY <4>1
      <4>. QED
        BY <1>2, <4>2
    <3>. QED
      BY <1>7, <2>3, <3>1 DEF Note
  <2>4. CASE Freeze(p) \/ Keep(p)
    <3>1. /\ [pause EXCEPT !.active = TRUE] \in Hold
          /\ [pause EXCEPT !.timer = mine[p]] \in Hold
      BY <1>2
    <3>. QED
      BY <1>7, <2>4, <3>1 DEF Freeze, Keep
  <2>. QED
    BY <1>11, <2>1, <2>2, <2>3, <2>4 DEF Pause
<1>12. ASSUME NEW p \in Party, Resume(p)
       PROVE  PipelineTypes'
  <2>1. CASE Take(p)
    <3>1. /\ UNCHANGED <<mine, pipe, coord, runner, kept, starts, pauses, overlaps, crashes, failed>>
          /\ was' = [was EXCEPT ![p] = pause.state = <<TRUE>>]
          /\ pause' = [pause EXCEPT !.state = <<>>]
      BY <2>1 DEF Take, crew, tally, file
    <3>2. was' \in [Party -> BOOLEAN]
      BY <1>2, <3>1
    <3>3. pause' \in Hold
      BY <1>2, <3>1
    <3>. QED
      BY <1>2, <1>4, <3>1, <3>2, <3>3
  <2>2. CASE Lift(p)
    BY <1>2, <1>7, <2>2 DEF Lift
  <2>3. CASE Clear(p)
    BY <1>2, <1>7, <1>10, <2>3 DEF Clear
  <2>4. CASE Restart(p)
    BY <1>2, <1>4, <2>4 DEF Restart, crew, tally, file
  <2>. QED
    BY <1>12, <2>1, <2>2, <2>3, <2>4 DEF Resume
<1>13. ASSUME NEW p \in Party, Boot(p)
       PROVE  PipelineTypes'
  <2>1. CASE Save(p) \/ Forget(p)
    <3>1. /\ UNCHANGED <<was, mine, pipe, pause, coord, runner, starts, pauses, overlaps, crashes, failed>>
          /\ kept' \in {0, mine[p]}
      BY <2>1 DEF Save, Forget, Keeps, crew
    <3>2. kept' \in Nat
      BY <1>2, <3>1
    <3>. QED
      BY <1>1, <1>2, <3>1, <3>2 DEF PipelineTypes, Lists
  <2>2. CASE SaveFails(p)
    BY <1>1, <1>2, <2>2 DEF SaveFails, crew, file, PipelineTypes, Lists
  <2>3. CASE Restore(p) \/ Launch(p)
    <3>1. /\ UNCHANGED <<was, pipe, pause, coord, runner, kept, starts, pauses, overlaps, crashes, failed>>
          /\ mine' = mine \/ mine' = [mine EXCEPT ![p] = kept]
      BY <2>3 DEF Restore, Launch, crew, tally, file
    <3>2. mine' \in [Party -> Nat]
      BY <1>2, <3>1
    <3>. QED
      BY <1>2, <1>4, <3>1, <3>2
  <2>. QED
    BY <1>13, <2>1, <2>2, <2>3 DEF Boot
<1>14. ASSUME Crash
       PROVE  PipelineTypes'
  <2>1. /\ was' = [p \in Party |-> FALSE] /\ mine' = [p \in Party |-> 0]
        /\ pipe' = [running |-> FALSE, session |-> 0, bus |-> 0, sink |-> 0, observer |-> 0,
                    workers |-> {}, open |-> {}]
        /\ pause' = [active |-> FALSE, state |-> <<>>, timer |-> 0]
        /\ coord' = [g \in Gen |-> "none"] /\ runner' = [g \in Gen |-> "none"]
        /\ crashes' = crashes + 1
        /\ UNCHANGED <<kept, starts, pauses, overlaps, failed>>
    BY <1>14 DEF Crash
  <2>2. /\ was' \in [Party -> BOOLEAN] /\ mine' \in [Party -> Nat] /\ pipe' \in Pipe /\ pause' \in Hold
        /\ crashes' \in Nat
        /\ coord' \in [Gen -> {"none", "run", "gone"}]
        /\ runner' \in [Gen -> {"none", "check", "wait", "tick", "gone"}]
    BY <1>2, <2>1
  <2>. QED
    BY <1>1, <1>2, <2>1, <2>2 DEF PipelineTypes, Lists
<1>15. ASSUME NEW p \in Party, Die(p)
       PROVE  PipelineTypes'
  BY <1>2, <1>4, <1>15 DEF Die, crew, tally, file
<1>16. ASSUME NEW g \in Gen, Crew(g)
       PROVE  PipelineTypes'
  <2>1. /\ UNCHANGED <<was, mine, pipe, pause, kept, starts, pauses, overlaps, crashes, failed>>
    BY <1>16 DEF Crew, tally, file
  <2>2. /\ coord' = coord \/ coord' = [coord EXCEPT ![g] = "gone"]
        /\ runner' = runner \/ \E k \in {"wait", "tick", "check", "gone"} : runner' = [runner EXCEPT ![g] = k]
    BY <1>16 DEF Crew, CoordinatorExits, RunnerChecks, RunnerReceives, RunnerExits, Tick, RunnerStep
  <2>3. /\ coord' \in [Gen -> {"none", "run", "gone"}]
        /\ runner' \in [Gen -> {"none", "check", "wait", "tick", "gone"}]
    BY <1>2, <2>2
  <2>. QED
    BY <1>1, <1>2, <2>1, <2>3 DEF PipelineTypes, Lists
<1>17. CASE UNCHANGED vars
  BY <1>2, <1>4, <1>17 DEF vars, crew, tally, file
<1>18. CASE Next
  BY <1>5, <1>8, <1>9, <1>11, <1>12, <1>13, <1>14, <1>15, <1>16, <1>18 DEF Next, Carry
<1>. QED
  BY <1>17, <1>18

-----------------------------------------------------------------------------
(* Each step keeps what holds in turn *)

(* Who sleeps is not changed by a party that is awake. *)
LEMMA SleepOn ==
  ASSUME NEW p \in Party, \A q \in Party \ {p} : todo'[q] = todo[q], todo[p] # Sleep, todo'[p] # Sleep
  PROVE  Asleep' = Asleep
<1>1. \A q \in Party : todo'[q] = Sleep <=> todo[q] = Sleep
  OBVIOUS
<1>. QED
  BY <1>1 DEF Asleep

(* A party that takes its step is where its stage says, and goes on.        *)
LEMMA GoesOn ==
  ASSUME PipelineTypes, Turns, NEW p \in Party, NEW s \in StepName \ {"sleep"}, At(p, s), Go(p)
  PROVE  /\ Stage(p) /\ Doing(p) = s /\ Span(s, Aim(p)) /\ Aim(p) # "sleep"
         /\ \A q \in Party \ {p} : todo'[q] \in {<<>>, Sleep}
         /\ \A g \in Gen : coord[g] = "run" \/ Live(g) =>
              g \in pipe.workers \/ (s = "push" /\ mine[p] = g)
         /\ Asleep' = Asleep
         /\ \/ todo'[p] = <<>> /\ s = Aim(p)
            \/ /\ todo'[p] \notin {<<>>, Sleep} /\ s # Aim(p)
               /\ Doing(p)' = Then(s, Aim(p)) /\ Aim(p)' = Aim(p)
<1>1. /\ todo[p] # <<>> /\ todo[p] # Sleep /\ Stage(p) /\ Doing(p) = s /\ Span(s, Aim(p))
      /\ Aim(p) # "sleep"
      /\ \A q \in Party \ {p} : todo[q] \in {<<>>, Sleep}
      /\ \A g \in Gen : coord[g] = "run" \/ Live(g) =>
           g \in pipe.workers \/ (s = "push" /\ mine[p] = g)
  BY Alone
<1>2. /\ \A q \in Party \ {p} : todo'[q] = todo[q]
      /\ \/ todo'[p] = <<>> /\ s = Aim(p)
         \/ /\ todo'[p] # <<>> /\ s # Aim(p)
            /\ Doing(p)' = Then(s, Aim(p)) /\ Aim(p)' = Aim(p)
  BY <1>1, Steps
<1>3. todo'[p] # Sleep
  <2>1. Sleep # <<>> /\ Sleep[Len(Sleep)] = "sleep"
    BY DEF Sleep
  <2>. QED
    BY <1>1, <1>2, <2>1 DEF Aim
<1>4. Asleep' = Asleep
  BY <1>1, <1>2, <1>3, SleepOn
<1>. QED
  BY <1>1, <1>2, <1>3, <1>4

(* A party that gives up rests. *)
LEMMA GivesUp ==
  ASSUME PipelineTypes, Turns, NEW p \in Party, NEW s \in StepName \ {"sleep"}, At(p, s), Quit(p)
  PROVE  /\ Stage(p) /\ Doing(p) = s /\ Span(s, Aim(p)) /\ Aim(p) # "sleep"
         /\ \A q \in Party \ {p} : todo'[q] \in {<<>>, Sleep}
         /\ \A g \in Gen : coord[g] = "run" \/ Live(g) =>
              g \in pipe.workers \/ (s = "push" /\ mine[p] = g)
         /\ Asleep' = Asleep /\ todo'[p] = <<>>
<1>1. /\ todo[p] # Sleep /\ Stage(p) /\ Doing(p) = s /\ Span(s, Aim(p)) /\ Aim(p) # "sleep"
      /\ \A q \in Party \ {p} : todo[q] \in {<<>>, Sleep}
      /\ \A g \in Gen : coord[g] = "run" \/ Live(g) =>
           g \in pipe.workers \/ (s = "push" /\ mine[p] = g)
  BY Alone
<1>2. todo'[p] = <<>> /\ \A q \in Party \ {p} : todo'[q] = todo[q]
  BY OrderlyEmpty, Puts DEF Quit
<1>3. <<>> # Sleep
  BY DEF Sleep
<1>4. Asleep' = Asleep
  BY <1>1, <1>2, <1>3, SleepOn
<1>. QED
  BY <1>1, <1>2, <1>4

(* What the numbers in use are bounded by. *)
LEMMA Bounds ==
  ASSUME PipelineTypes, Turns
  PROVE  /\ starts \in Nat /\ pauses \in Nat /\ starts <= MaxStarts /\ pauses <= MaxPauses
         /\ MaxStarts \in Nat /\ MaxPauses \in Nat
         /\ pipe.session = 0 \/ pipe.session \in 1..starts
         /\ pause.timer = 0 \/ pause.timer \in 1..pauses
         /\ kept = 0 \/ kept \in 1..pauses
         /\ Gen \subseteq Nat /\ Timer \subseteq Nat
         /\ 1..starts \subseteq Gen /\ 1..pauses \subseteq Timer
<1>1. /\ starts \in 0..MaxStarts /\ pauses \in 0..MaxPauses /\ kept \in Nat /\ pipe.session \in Nat
      /\ pause.timer \in Nat /\ pipe.session <= starts /\ kept <= pauses /\ pause.timer <= pauses
  BY DEF PipelineTypes, Turns, Numbers
<1>2. MaxStarts \in Nat /\ MaxPauses \in Nat
  BY PipelineAssumption
<1>3. starts \in Nat /\ pauses \in Nat /\ starts <= MaxStarts /\ pauses <= MaxPauses
  BY <1>1, <1>2
<1>4. /\ pipe.session = 0 \/ pipe.session \in 1..starts
      /\ pause.timer = 0 \/ pause.timer \in 1..pauses
      /\ kept = 0 \/ kept \in 1..pauses
  BY <1>1, <1>3
<1>. QED
  BY <1>2, <1>3, <1>4 DEF Gen, Timer

(* The timer of a pause is no client's. *)
LEMMA NoClientSleeps ==
  ASSUME PipelineTypes, Turns, NEW p, p \notin Timer
  PROVE  {pause.timer} \ {0, p} = {pause.timer} \ {0}
BY Bounds

(* With no pause left, nobody sleeps and none is promised. *)
LEMMA Unpaused ==
  ASSUME PipelineTypes, Turns, NEW p \in Party, Stage(p), ~pause.active, Together,
         Doing(p) # "keep", Doing(p) \notin Resuming, Aim(p) \in {"push", "end", "restart"}
  PROVE  pause.timer = 0 /\ Asleep = {} /\ Promise
<1>1. pause.timer = 0 /\ Asleep = {}
  BY DEF Together, Stage, PauseStage
<1>. QED
  BY <1>1 DEF Stage, ResumeStage, Party, Promise

LEMMA AdmitKeeps ==
  ASSUME PipelineTypes, PipelineTypes', Turns, NEW p \in Party, Admit(p)
  PROVE  Turns'
<1>1. /\ At(p, "admit") /\ IF pause.active THEN Quit(p) ELSE Go(p)
      /\ UNCHANGED <<was, mine, aborted, pipe, pause, coord, runner, shut, kept, over, starts, pauses, failed>>
      /\ "admit" \in StepName \ {"sleep"}
  BY DEF Admit, crew, tally, file, StepName
<1>2. Numbers'
  BY <1>1 DEF Turns, Numbers
<1>3. CASE pause.active
  <2>1. /\ Stage(p) /\ Doing(p) = "admit" /\ Aim(p) \in {"push", "forget"}
        /\ \A q \in Party \ {p} : todo'[q] \in {<<>>, Sleep}
        /\ \A g \in Gen : coord[g] = "run" \/ Live(g) => g \in pipe.workers
        /\ Asleep' = Asleep /\ todo'[p] = <<>>
    BY <1>1, <1>3, GivesUp DEF Span, Starting
  <2>2. Belongs'
    BY <1>1, <2>1 DEF Turns, Belongs, Live
  <2>3. Settled /\ Together /\ Asleep = {pause.timer} \ {0, p} /\ p \notin Timer /\ Promise
    <3>1. p \in Client /\ p \notin Timer /\ Aim(p) = "push"
      BY <1>3, <2>1, PipelineAssumption DEF Stage, ResumeStage, PauseStage, Party, Timer, Resuming
    <3>. QED
      BY <2>1, <3>1 DEF Stage, StopStage, PauseStage, Starting, Stopping
  <2>4. {pause.timer} \ {0, p} = {pause.timer} \ {0}
    BY <2>3, NoClientSleeps
  <2>5. Settled' /\ Together' /\ Asleep' = {pause'.timer} \ {0} /\ Promise'
    BY <1>1, <2>1, <2>3, <2>4 DEF Settled, Complete, Live, Together, Promise, Promised
  <2>. QED
    BY <1>1, <1>2, <2>1, <2>2, <2>5, Turned DEF Turns
<1>4. CASE ~pause.active
  <2>1. /\ Stage(p) /\ Doing(p) = "admit" /\ Aim(p) \in {"push", "forget"}
        /\ \A q \in Party \ {p} : todo'[q] \in {<<>>, Sleep}
        /\ \A g \in Gen : coord[g] = "run" \/ Live(g) => g \in pipe.workers
        /\ Asleep' = Asleep /\ todo'[p] \notin {<<>>, Sleep}
        /\ Doing(p)' = "claim" /\ Aim(p)' = Aim(p)
    BY <1>1, <1>4, GoesOn DEF Span, Then, Starting
  <2>2. Belongs'
    BY <1>1, <2>1 DEF Turns, Belongs, Live
  <2>3. Stage(p)'
    BY <1>1, <1>4, <2>1 DEF Stage, StartStage, StopStage, PauseStage, ResumeStage, BootStage, Starting, Stopping, Pausing, Resuming, Together, Promise, Promised, Settled, Complete, Live
  <2>. QED
    BY <1>1, <1>2, <2>1, <2>2, <2>3, Turned DEF Turns
<1>. QED
  BY <1>3, <1>4

LEMMA ClaimKeeps ==
  ASSUME PipelineTypes, PipelineTypes', Turns, NEW p \in Party, Claim(p)
  PROVE  Turns'
<1>1. /\ At(p, "claim") /\ IF pipe.running THEN Quit(p) ELSE Go(p)
      /\ pipe' = [pipe EXCEPT !.running = TRUE]
      /\ UNCHANGED <<was, mine, aborted, pause, coord, runner, shut, kept, over, starts, pauses, failed>>
      /\ "claim" \in StepName \ {"sleep"}
  BY DEF Claim, crew, tally, file, StepName
<1>2. /\ pipe'.running /\ pipe'.observer = pipe.observer /\ pipe'.session = pipe.session
      /\ pipe'.sink = pipe.sink /\ pipe'.bus = pipe.bus /\ pipe'.workers = pipe.workers
      /\ pipe'.open = pipe.open
  BY <1>1 DEF PipelineTypes
<1>3. Numbers'
  BY <1>1, <1>2 DEF Turns, Numbers
<1>4. CASE pipe.running
  <2>1. /\ Stage(p) /\ Doing(p) = "claim" /\ Aim(p) \in {"push", "forget"}
        /\ \A q \in Party \ {p} : todo'[q] \in {<<>>, Sleep}
        /\ \A g \in Gen : coord[g] = "run" \/ Live(g) => g \in pipe.workers
        /\ Asleep' = Asleep /\ todo'[p] = <<>>
    BY <1>1, <1>4, GivesUp DEF Span, Starting
  <2>2. /\ Settled /\ Together /\ ~pause.active /\ Aim(p) = "push"
    BY <1>4, <2>1 DEF Stage, StartStage, StopStage, PauseStage, ResumeStage, Starting, Stopping
  <2>3. pause.timer = 0 /\ Asleep = {} /\ Promise
    BY <2>1, <2>2, Unpaused DEF Resuming
  <2>4. Belongs'
    BY <1>1, <1>2, <2>1, <2>2 DEF Turns, Belongs, Live
  <2>5. Settled'
    BY <1>1, <1>2, <1>4, <2>2 DEF Settled, Complete, Live
  <2>6. Together' /\ Asleep' = {pause'.timer} \ {0} /\ Promise'
    BY <1>1, <2>1, <2>2, <2>3 DEF Together, Promise, Promised
  <2>. QED
    BY <1>1, <1>3, <2>1, <2>4, <2>5, <2>6, Turned DEF Turns
<1>5. CASE ~pipe.running
  <2>1. /\ Stage(p) /\ Doing(p) = "claim" /\ Aim(p) \in {"push", "forget"}
        /\ \A q \in Party \ {p} : todo'[q] \in {<<>>, Sleep}
        /\ \A g \in Gen : coord[g] = "run" \/ Live(g) => g \in pipe.workers
        /\ Asleep' = Asleep /\ todo'[p] \notin {<<>>, Sleep}
        /\ Doing(p)' = "create" /\ Aim(p)' = Aim(p)
    BY <1>1, <1>5, GoesOn DEF Span, Then, Starting
  <2>2. /\ Settled /\ Together /\ ~pause.active /\ pipe.session = 0
    BY <1>5, <2>1 DEF Stage, StartStage, StopStage, PauseStage, Starting, Stopping, Settled
  <2>3. Belongs'
    BY <1>1, <1>2, <2>1, <2>2 DEF Turns, Belongs, Live
  <2>4. Stage(p)'
    BY <1>1, <1>2, <2>1, <2>2 DEF Stage, StartStage, StopStage, PauseStage, ResumeStage, BootStage, Starting, Stopping, Pausing, Resuming, Together, Promise, Promised, Live
  <2>. QED
    BY <1>1, <1>3, <2>1, <2>3, <2>4, Turned DEF Turns
<1>. QED
  BY <1>4, <1>5

LEMMA CreateKeeps ==
  ASSUME PipelineTypes, PipelineTypes', Turns, NEW p \in Party, Create(p)
  PROVE  Turns'
<1>1. /\ At(p, "create") /\ Go(p) /\ starts' = starts + 1 /\ starts < MaxStarts
      /\ mine' = [mine EXCEPT ![p] = starts + 1]
      /\ pipe' = [pipe EXCEPT !.session = starts + 1, !.open = @ \cup {starts + 1}]
      /\ UNCHANGED <<was, aborted, pause, coord, runner, shut, kept, over, pauses, failed>>
      /\ "create" \in StepName \ {"sleep"}
  BY DEF Create, crew, file, StepName, Starting
<1>2. /\ pipe'.running = pipe.running /\ pipe'.observer = pipe.observer
      /\ pipe'.session = starts + 1
      /\ pipe'.sink = pipe.sink /\ pipe'.bus = pipe.bus /\ pipe'.workers = pipe.workers
      /\ pipe'.open = pipe.open \cup {starts + 1} /\ mine'[p] = starts + 1
  BY <1>1 DEF PipelineTypes
<1>3. starts \in Nat /\ starts + 1 # 0 /\ starts + 1 \notin shut /\ 1..starts \subseteq 1..(starts + 1)
  <2>1. starts \in 0..MaxStarts /\ MaxStarts \in Nat /\ shut \subseteq 1..starts
    BY PipelineAssumption DEF PipelineTypes, Turns, Numbers
  <2>. QED
    BY <2>1
<1>4. Numbers'
  BY <1>1, <1>2, <1>3 DEF Turns, Numbers, Gen
<1>5. /\ Stage(p) /\ Doing(p) = "create" /\ Aim(p) \in {"push", "forget"}
      /\ \A q \in Party \ {p} : todo'[q] \in {<<>>, Sleep}
      /\ \A g \in Gen : coord[g] = "run" \/ Live(g) => g \in pipe.workers
      /\ Asleep' = Asleep /\ todo'[p] \notin {<<>>, Sleep}
      /\ Doing(p)' = "bus" /\ Aim(p)' = Aim(p)
  BY <1>1, GoesOn DEF Span, Then, Starting
<1>6. /\ ~pause.active /\ pipe.session = 0 /\ pipe.running /\ pipe.workers = {}
      /\ pipe.bus = 0 /\ pipe.sink = 0 /\ pipe.observer = 0
      /\ (~failed => pipe.open = {})
  BY <1>5 DEF Stage, StartStage, Starting, Turns, Belongs
<1>7. Belongs'
  BY <1>1, <1>2, <1>3, <1>5, <1>6 DEF Belongs, Live
<1>8. Stage(p)'
  BY <1>1, <1>2, <1>3, <1>5, <1>6 DEF Stage, StartStage, StopStage, PauseStage, ResumeStage, BootStage, Starting, Stopping, Pausing, Resuming, Together, Promise, Promised, Live
<1>. QED
  BY <1>1, <1>4, <1>5, <1>7, <1>8, Turned DEF Turns

LEMMA CreateFailsKeeps ==
  ASSUME PipelineTypes, PipelineTypes', Turns, NEW p \in Party, CreateFails(p)
  PROVE  Turns'
<1>1. /\ At(p, "create") /\ Quit(p) /\ failed'
      /\ UNCHANGED <<was, mine, aborted, pipe, pause, coord, runner, shut, kept, over, starts, pauses>>
      /\ "create" \in StepName \ {"sleep"}
  BY DEF CreateFails, crew, file, StepName, Starting
<1>2. Numbers'
  BY <1>1 DEF Turns, Numbers
<1>3. /\ Stage(p) /\ Doing(p) = "create" /\ Aim(p) \in {"push", "forget"}
      /\ \A q \in Party \ {p} : todo'[q] \in {<<>>, Sleep}
      /\ \A g \in Gen : coord[g] = "run" \/ Live(g) => g \in pipe.workers
      /\ Asleep' = Asleep /\ todo'[p] = <<>>
  BY <1>1, GivesUp DEF Span, Starting
<1>4. /\ ~pause.active /\ pipe.session = 0 /\ Together /\ pause.timer = 0 /\ Asleep = {}
  BY <1>3 DEF Stage, StartStage, PauseStage, Starting, Together
<1>5. Belongs'
  BY <1>1, <1>3, <1>4 DEF Turns, Belongs, Live
<1>6. Settled' /\ Together' /\ Asleep' = {pause'.timer} \ {0} /\ Promise'
  BY <1>1, <1>3, <1>4 DEF Settled, Together, Promise
<1>. QED
  BY <1>1, <1>2, <1>3, <1>5, <1>6, Turned DEF Turns

LEMMA OpenBusKeeps ==
  ASSUME PipelineTypes, PipelineTypes', Turns, NEW p \in Party, OpenBus(p)
  PROVE  Turns'
<1>1. /\ At(p, "bus") /\ Go(p) /\ pipe' = [pipe EXCEPT !.bus = mine[p]]
      /\ UNCHANGED <<was, mine, aborted, pause, coord, runner, shut, kept, over, starts, pauses, failed>>
      /\ "bus" \in StepName \ {"sleep"}
  BY DEF OpenBus, OnPipe, crew, tally, file, StepName, Starting
<1>2. /\ pipe'.bus = mine[p] /\ pipe'.running = pipe.running /\ pipe'.session = pipe.session
      /\ pipe'.sink = pipe.sink /\ pipe'.observer = pipe.observer /\ pipe'.workers = pipe.workers
      /\ pipe'.open = pipe.open
  BY <1>1 DEF PipelineTypes
<1>3. Numbers'
  BY <1>1, <1>2 DEF Turns, Numbers
<1>4. /\ Stage(p) /\ Doing(p) = "bus" /\ Aim(p) \in {"push", "forget"}
      /\ \A q \in Party \ {p} : todo'[q] \in {<<>>, Sleep}
      /\ \A g \in Gen : coord[g] = "run" \/ Live(g) => g \in pipe.workers
      /\ Asleep' = Asleep /\ todo'[p] \notin {<<>>, Sleep}
      /\ Doing(p)' = "subscribe" /\ Aim(p)' = Aim(p)
  BY <1>1, GoesOn DEF Span, Then, Starting
<1>5. /\ pipe.session = mine[p] /\ pipe.running /\ ~pause.active
  BY <1>4 DEF Stage, StartStage, Starting
<1>6. Belongs'
  BY <1>1, <1>2, <1>4, <1>5 DEF Turns, Belongs, Live
<1>7. Stage(p)'
  BY <1>1, <1>2, <1>4, <1>5 DEF Stage, StartStage, StopStage, PauseStage, ResumeStage, BootStage, Starting, Stopping, Pausing, Resuming, Together, Promise, Promised, Live
<1>. QED
  BY <1>1, <1>3, <1>4, <1>6, <1>7, Turned DEF Turns

LEMMA SubscribeKeeps ==
  ASSUME PipelineTypes, PipelineTypes', Turns, NEW p \in Party, Subscribe(p)
  PROVE  Turns'
<1>1. /\ At(p, "subscribe") /\ Go(p) /\ pipe' = [pipe EXCEPT !.sink = mine[p]]
      /\ UNCHANGED <<was, mine, aborted, pause, coord, runner, shut, kept, over, starts, pauses, failed>>
      /\ "subscribe" \in StepName \ {"sleep"}
  BY DEF Subscribe, OnPipe, crew, tally, file, StepName, Starting
<1>2. /\ pipe'.sink = mine[p] /\ pipe'.running = pipe.running /\ pipe'.session = pipe.session
      /\ pipe'.bus = pipe.bus /\ pipe'.observer = pipe.observer /\ pipe'.workers = pipe.workers
      /\ pipe'.open = pipe.open
  BY <1>1 DEF PipelineTypes
<1>3. Numbers'
  BY <1>1, <1>2 DEF Turns, Numbers
<1>4. /\ Stage(p) /\ Doing(p) = "subscribe" /\ Aim(p) \in {"push", "forget"}
      /\ \A q \in Party \ {p} : todo'[q] \in {<<>>, Sleep}
      /\ \A g \in Gen : coord[g] = "run" \/ Live(g) => g \in pipe.workers
      /\ Asleep' = Asleep /\ todo'[p] \notin {<<>>, Sleep}
      /\ Doing(p)' = "observe" /\ Aim(p)' = Aim(p)
  BY <1>1, GoesOn DEF Span, Then, Starting
<1>5. /\ pipe.session = mine[p] /\ pipe.running /\ ~pause.active
  BY <1>4 DEF Stage, StartStage, Starting
<1>6. Belongs'
  BY <1>1, <1>2, <1>4, <1>5 DEF Turns, Belongs, Live
<1>7. Stage(p)'
  BY <1>1, <1>2, <1>4, <1>5 DEF Stage, StartStage, StopStage, PauseStage, ResumeStage, BootStage, Starting, Stopping, Pausing, Resuming, Together, Promise, Promised, Live
<1>. QED
  BY <1>1, <1>3, <1>4, <1>6, <1>7, Turned DEF Turns

LEMMA ObserveKeeps ==
  ASSUME PipelineTypes, PipelineTypes', Turns, NEW p \in Party, Observe(p)
  PROVE  Turns'
<1>1. /\ At(p, "observe") /\ Go(p) /\ pipe' = [pipe EXCEPT !.observer = mine[p]]
      /\ UNCHANGED <<was, mine, aborted, pause, coord, runner, shut, kept, over, starts, pauses, failed>>
      /\ "observe" \in StepName \ {"sleep"}
  BY DEF Observe, OnPipe, crew, tally, file, StepName, Starting
<1>2. /\ pipe'.observer = mine[p] /\ pipe'.running = pipe.running /\ pipe'.session = pipe.session
      /\ pipe'.bus = pipe.bus /\ pipe'.sink = pipe.sink /\ pipe'.workers = pipe.workers
      /\ pipe'.open = pipe.open
  BY <1>1 DEF PipelineTypes
<1>3. Numbers'
  BY <1>1, <1>2 DEF Turns, Numbers
<1>4. /\ Stage(p) /\ Doing(p) = "observe" /\ Aim(p) \in {"push", "forget"}
      /\ \A q \in Party \ {p} : todo'[q] \in {<<>>, Sleep}
      /\ \A g \in Gen : coord[g] = "run" \/ Live(g) => g \in pipe.workers
      /\ Asleep' = Asleep /\ todo'[p] \notin {<<>>, Sleep}
      /\ Doing(p)' = "spawn" /\ Aim(p)' = Aim(p)
  BY <1>1, GoesOn DEF Span, Then, Starting
<1>5. /\ pipe.session = mine[p] /\ pipe.running /\ ~pause.active
  BY <1>4 DEF Stage, StartStage, Starting
<1>6. Belongs'
  BY <1>1, <1>2, <1>4, <1>5 DEF Turns, Belongs, Live
<1>7. Stage(p)'
  BY <1>1, <1>2, <1>4, <1>5 DEF Stage, StartStage, StopStage, PauseStage, ResumeStage, BootStage, Starting, Stopping, Pausing, Resuming, Together, Promise, Promised, Live
<1>. QED
  BY <1>1, <1>3, <1>4, <1>6, <1>7, Turned DEF Turns

LEMMA SpawnKeeps ==
  ASSUME PipelineTypes, PipelineTypes', Turns, NEW p \in Party, Spawn(p)
  PROVE  Turns'
<1>1. /\ At(p, "spawn") /\ Go(p)
      /\ coord' = [coord EXCEPT ![mine[p]] = "run"] /\ runner' = [runner EXCEPT ![mine[p]] = "check"]
      /\ UNCHANGED <<was, mine, aborted, pipe, pause, shut, kept, over, starts, pauses, failed>>
      /\ "spawn" \in StepName \ {"sleep"}
  BY DEF Spawn, tally, file, StepName, Starting
<1>2. /\ Stage(p) /\ Doing(p) = "spawn" /\ Aim(p) \in {"push", "forget"}
      /\ \A q \in Party \ {p} : todo'[q] \in {<<>>, Sleep}
      /\ \A g \in Gen : coord[g] = "run" \/ Live(g) => g \in pipe.workers
      /\ Asleep' = Asleep /\ todo'[p] \notin {<<>>, Sleep}
      /\ Doing(p)' = "push" /\ Aim(p)' = Aim(p)
  BY <1>1, GoesOn DEF Span, Then, Starting
<1>3. /\ pipe.session = mine[p] /\ pipe.session # 0 /\ pipe.running /\ ~pause.active /\ pipe.workers = {}
  BY <1>2 DEF Stage, StartStage, Starting
<1>4. mine[p] \in Gen /\ mine[p] <= starts /\ mine[p] \in Nat
  BY <1>3, Bounds
<1>5. /\ coord'[mine[p]] = "run" /\ runner'[mine[p]] = "check"
      /\ \A g \in Gen \ {mine[p]} : coord'[g] = coord[g] /\ runner'[g] = runner[g]
  BY <1>1, <1>4 DEF PipelineTypes
<1>6. Numbers'
  <2>1. \A g \in Gen : g > starts => g # mine[p]
    BY <1>4, Bounds
  <2>. QED
    BY <1>1, <1>5, <2>1 DEF Turns, Numbers
<1>7. Belongs'
  BY <1>1, <1>2, <1>3, <1>5 DEF Turns, Belongs, Live, Busy
<1>8. Stage(p)'
  BY <1>1, <1>2, <1>3, <1>5 DEF Stage, StartStage, StopStage, PauseStage, ResumeStage, BootStage, Starting, Stopping, Pausing, Resuming, Together, Promise, Promised, Live
<1>. QED
  BY <1>1, <1>2, <1>6, <1>7, <1>8, Turned DEF Turns

LEMMA PushKeeps ==
  ASSUME PipelineTypes, PipelineTypes', Turns, NEW p \in Party, PushWorkers(p)
  PROVE  Turns'
<1>1. /\ At(p, "push") /\ Go(p) /\ pipe' = [pipe EXCEPT !.workers = @ \cup {mine[p]}]
      /\ UNCHANGED <<was, mine, aborted, pause, coord, runner, shut, kept, over, starts, pauses, failed>>
      /\ "push" \in StepName \ {"sleep"}
  BY DEF PushWorkers, OnPipe, crew, tally, file, StepName, Starting
<1>2. /\ pipe'.workers = pipe.workers \cup {mine[p]} /\ pipe'.running = pipe.running
      /\ pipe'.session = pipe.session
      /\ pipe'.bus = pipe.bus /\ pipe'.sink = pipe.sink /\ pipe'.observer = pipe.observer
      /\ pipe'.open = pipe.open
  BY <1>1 DEF PipelineTypes
<1>3. Numbers'
  BY <1>1, <1>2 DEF Turns, Numbers
<1>4. /\ Stage(p) /\ Doing(p) = "push" /\ Aim(p) \in {"push", "forget"}
      /\ \A q \in Party \ {p} : todo'[q] \in {<<>>, Sleep}
      /\ \A g \in Gen : coord[g] = "run" \/ Live(g) => g \in pipe.workers \/ mine[p] = g
      /\ Asleep' = Asleep
      /\ \/ todo'[p] = <<>> /\ Aim(p) = "push"
         \/ todo'[p] \notin {<<>>, Sleep} /\ Doing(p)' = "forget" /\ Aim(p)' = Aim(p) /\ Aim(p) = "forget"
  BY <1>1, GoesOn DEF Span, Then, Starting
<1>5. /\ pipe.session = mine[p] /\ pipe.session # 0 /\ pipe.running /\ ~pause.active /\ pipe.workers = {}
      /\ pipe.bus = mine[p] /\ pipe.sink = mine[p] /\ pipe.observer = mine[p]
      /\ pipe.session \notin shut /\ coord[pipe.session] = "run" /\ Live(pipe.session) /\ Together
  BY <1>4 DEF Stage, StartStage, PauseStage, Starting
<1>6. Belongs'
  BY <1>1, <1>2, <1>4, <1>5 DEF Turns, Belongs, Live
<1>7. Settled' /\ Together'
  BY <1>1, <1>2, <1>5 DEF Settled, Complete, Live, Together
<1>8. ASSUME todo'[p] = <<>>
      PROVE  Asleep' = {pause'.timer} \ {0} /\ Promise'
  <2>1. pause.timer = 0 /\ Asleep = {} /\ Promise
    BY <1>4, <1>5, <1>8, Unpaused DEF Resuming
  <2>. QED
    BY <1>1, <1>4, <2>1 DEF Promise, Promised
<1>9. ASSUME todo'[p] # <<>>
      PROVE  Stage(p)'
  BY <1>1, <1>2, <1>4, <1>5, <1>7, <1>9 DEF Stage, StartStage, StopStage, PauseStage, ResumeStage, BootStage, Starting, Stopping, Pausing, Resuming, Promise, Promised
<1>. QED
  BY <1>1, <1>3, <1>4, <1>6, <1>7, <1>8, <1>9, Turned DEF Turns

LEMMA HaltKeeps ==
  ASSUME PipelineTypes, PipelineTypes', Turns, NEW p \in Party, Halt(p)
  PROVE  Turns'
<1>1. /\ At(p, "halt") /\ Go(p) /\ pipe' = [pipe EXCEPT !.running = FALSE]
      /\ UNCHANGED <<was, mine, aborted, pause, coord, runner, shut, kept, over, starts, pauses, failed>>
      /\ "halt" \in StepName \ {"sleep"}
  BY DEF Halt, OnPipe, crew, tally, file, StepName, Stopping
<1>2. /\ pipe'.running = FALSE
      /\ pipe'.session = pipe.session /\ pipe'.bus = pipe.bus /\ pipe'.sink = pipe.sink
      /\ pipe'.observer = pipe.observer /\ pipe'.workers = pipe.workers /\ pipe'.open = pipe.open
  BY <1>1 DEF PipelineTypes
<1>3. Numbers'
  BY <1>1, <1>2 DEF Turns, Numbers
<1>4. /\ Stage(p) /\ Doing(p) = "halt" /\ Aim(p) \in {"end", "save", "launch"}
      /\ \A q \in Party \ {p} : todo'[q] \in {<<>>, Sleep}
      /\ \A g \in Gen : coord[g] = "run" \/ Live(g) => g \in pipe.workers
      /\ Asleep' = Asleep /\ todo'[p] \notin {<<>>, Sleep}
      /\ Doing(p)' = "detach" /\ Aim(p)' = Aim(p)
  BY <1>1, GoesOn DEF Span, Then, Stopping
<1>5. Belongs'
  BY <1>1, <1>2, <1>4 DEF Turns, Belongs, Live
<1>6. Stage(p)'
  BY <1>1, <1>2, <1>4 DEF Stage, StartStage, StopStage, PauseStage, ResumeStage, BootStage, Starting, Stopping, Pausing, Resuming, Together, Promise, Promised
<1>. QED
  BY <1>1, <1>3, <1>4, <1>5, <1>6, Turned DEF Turns

LEMMA DetachKeeps ==
  ASSUME PipelineTypes, PipelineTypes', Turns, NEW p \in Party, Detach(p)
  PROVE  Turns'
<1>1. /\ At(p, "detach") /\ Go(p) /\ pipe' = [pipe EXCEPT !.sink = 0]
      /\ UNCHANGED <<was, mine, aborted, pause, coord, runner, shut, kept, over, starts, pauses, failed>>
      /\ "detach" \in StepName \ {"sleep"}
  BY DEF Detach, OnPipe, crew, tally, file, StepName, Stopping
<1>2. /\ pipe'.sink = 0
      /\ pipe'.running = pipe.running /\ pipe'.session = pipe.session /\ pipe'.bus = pipe.bus
      /\ pipe'.observer = pipe.observer /\ pipe'.workers = pipe.workers /\ pipe'.open = pipe.open
  BY <1>1 DEF PipelineTypes
<1>3. Numbers'
  BY <1>1, <1>2 DEF Turns, Numbers
<1>4. /\ Stage(p) /\ Doing(p) = "detach" /\ Aim(p) \in {"end", "save", "launch"}
      /\ \A q \in Party \ {p} : todo'[q] \in {<<>>, Sleep}
      /\ \A g \in Gen : coord[g] = "run" \/ Live(g) => g \in pipe.workers
      /\ Asleep' = Asleep /\ todo'[p] \notin {<<>>, Sleep}
      /\ Doing(p)' = "blind" /\ Aim(p)' = Aim(p)
  BY <1>1, GoesOn DEF Span, Then, Stopping
<1>5. Belongs'
  BY <1>1, <1>2, <1>4 DEF Turns, Belongs, Live
<1>6. Stage(p)'
  BY <1>1, <1>2, <1>4 DEF Stage, StartStage, StopStage, PauseStage, ResumeStage, BootStage, Starting, Stopping, Pausing, Resuming, Together, Promise, Promised
<1>. QED
  BY <1>1, <1>3, <1>4, <1>5, <1>6, Turned DEF Turns

LEMMA BlindKeeps ==
  ASSUME PipelineTypes, PipelineTypes', Turns, NEW p \in Party, Blind(p)
  PROVE  Turns'
<1>1. /\ At(p, "blind") /\ Go(p) /\ pipe' = [pipe EXCEPT !.observer = 0]
      /\ UNCHANGED <<was, mine, aborted, pause, coord, runner, shut, kept, over, starts, pauses, failed>>
      /\ "blind" \in StepName \ {"sleep"}
  BY DEF Blind, OnPipe, crew, tally, file, StepName, Stopping
<1>2. /\ pipe'.observer = 0
      /\ pipe'.running = pipe.running /\ pipe'.session = pipe.session /\ pipe'.bus = pipe.bus
      /\ pipe'.sink = pipe.sink /\ pipe'.workers = pipe.workers /\ pipe'.open = pipe.open
  BY <1>1 DEF PipelineTypes
<1>3. Numbers'
  BY <1>1, <1>2 DEF Turns, Numbers
<1>4. /\ Stage(p) /\ Doing(p) = "blind" /\ Aim(p) \in {"end", "save", "launch"}
      /\ \A q \in Party \ {p} : todo'[q] \in {<<>>, Sleep}
      /\ \A g \in Gen : coord[g] = "run" \/ Live(g) => g \in pipe.workers
      /\ Asleep' = Asleep /\ todo'[p] \notin {<<>>, Sleep}
      /\ Doing(p)' = "close" /\ Aim(p)' = Aim(p)
  BY <1>1, GoesOn DEF Span, Then, Stopping
<1>5. Belongs'
  BY <1>1, <1>2, <1>4 DEF Turns, Belongs, Live
<1>6. Stage(p)'
  BY <1>1, <1>2, <1>4 DEF Stage, StartStage, StopStage, PauseStage, ResumeStage, BootStage, Starting, Stopping, Pausing, Resuming, Together, Promise, Promised
<1>. QED
  BY <1>1, <1>3, <1>4, <1>5, <1>6, Turned DEF Turns

LEMMA CloseKeeps ==
  ASSUME PipelineTypes, PipelineTypes', Turns, NEW p \in Party, CloseBus(p)
  PROVE  Turns'
<1>1. /\ At(p, "close") /\ Go(p) /\ pipe' = [pipe EXCEPT !.bus = 0]
      /\ shut' = shut \cup ({pipe.bus} \ {0})
      /\ UNCHANGED <<was, mine, aborted, pause, coord, runner, kept, over, starts, pauses, failed>>
      /\ "close" \in StepName \ {"sleep"}
  BY DEF CloseBus, tally, file, StepName, Stopping
<1>2. /\ pipe'.bus = 0
      /\ pipe'.running = pipe.running /\ pipe'.session = pipe.session /\ pipe'.sink = pipe.sink
      /\ pipe'.observer = pipe.observer /\ pipe'.workers = pipe.workers /\ pipe'.open = pipe.open
  BY <1>1 DEF PipelineTypes
<1>3. Numbers'
  <2>1. pipe.bus = 0 \/ pipe.bus \in 1..starts
    BY Bounds DEF Turns, Belongs
  <2>. QED
    BY <1>1, <1>2, <2>1 DEF Turns, Numbers
<1>4. /\ Stage(p) /\ Doing(p) = "close" /\ Aim(p) \in {"end", "save", "launch"}
      /\ \A q \in Party \ {p} : todo'[q] \in {<<>>, Sleep}
      /\ \A g \in Gen : coord[g] = "run" \/ Live(g) => g \in pipe.workers
      /\ Asleep' = Asleep /\ todo'[p] \notin {<<>>, Sleep}
      /\ Doing(p)' = "drain" /\ Aim(p)' = Aim(p)
  BY <1>1, GoesOn DEF Span, Then, Stopping
<1>5. Belongs'
  BY <1>1, <1>2, <1>4 DEF Turns, Belongs, Live
<1>6. Stage(p)'
  BY <1>1, <1>2, <1>4 DEF Stage, StartStage, StopStage, PauseStage, ResumeStage, BootStage, Starting, Stopping, Pausing, Resuming, Together, Promise, Promised
<1>. QED
  BY <1>1, <1>3, <1>4, <1>5, <1>6, Turned DEF Turns

LEMMA DrainKeeps ==
  ASSUME PipelineTypes, PipelineTypes', Turns, NEW p \in Party, Drain(p)
  PROVE  Turns'
<1>1. /\ At(p, "drain") /\ Go(p) /\ pipe' = [pipe EXCEPT !.workers = {}]
      /\ coord' = [g \in Gen |-> IF g \in pipe.workers THEN "gone" ELSE coord[g]]
      /\ runner' = [g \in Gen |-> IF g \in pipe.workers THEN "gone" ELSE runner[g]]
      /\ UNCHANGED <<was, mine, aborted, pause, shut, kept, over, starts, pauses, failed>>
      /\ "drain" \in StepName \ {"sleep"}
  BY DEF Drain, tally, file, StepName, Stopping
<1>2. /\ pipe'.workers = {}
      /\ pipe'.running = pipe.running /\ pipe'.session = pipe.session /\ pipe'.bus = pipe.bus
      /\ pipe'.sink = pipe.sink /\ pipe'.observer = pipe.observer /\ pipe'.open = pipe.open
  BY <1>1 DEF PipelineTypes
<1>3. /\ Stage(p) /\ Doing(p) = "drain" /\ Aim(p) \in {"end", "save", "launch"}
      /\ \A q \in Party \ {p} : todo'[q] \in {<<>>, Sleep}
      /\ \A g \in Gen : coord[g] = "run" \/ Live(g) => g \in pipe.workers
      /\ Asleep' = Asleep /\ todo'[p] \notin {<<>>, Sleep}
      /\ Doing(p)' = "end" /\ Aim(p)' = Aim(p)
  BY <1>1, GoesOn DEF Span, Then, Stopping
<1>4. \A g \in Gen : /\ g \in pipe.workers => coord'[g] = "gone" /\ runner'[g] = "gone"
                     /\ g \notin pipe.workers => coord'[g] = coord[g] /\ runner'[g] = runner[g]
  BY <1>1
<1>5. Numbers'
  <2>1. \A g \in Gen : g > starts => g \notin pipe.workers
    BY Bounds DEF Turns, Belongs
  <2>. QED
    BY <1>1, <1>2, <1>4, <2>1 DEF Turns, Numbers
<1>6. \A g \in Gen : coord'[g] # "run" /\ runner'[g] \notin {"check", "wait", "tick"}
  BY <1>3, <1>4 DEF Live
<1>7. Belongs'
  BY <1>1, <1>2, <1>6 DEF Turns, Belongs, Live
<1>8. Stage(p)'
  BY <1>1, <1>2, <1>3 DEF Stage, StartStage, StopStage, PauseStage, ResumeStage, BootStage, Starting, Stopping, Pausing, Resuming, Together, Promise, Promised
<1>. QED
  BY <1>1, <1>3, <1>5, <1>7, <1>8, Turned DEF Turns

LEMMA EndKeeps ==
  ASSUME PipelineTypes, PipelineTypes', Turns, NEW p \in Party, EndSession(p)
  PROVE  Turns'
<1>1. /\ At(p, "end") /\ Go(p)
      /\ pipe' = [pipe EXCEPT !.session = 0, !.open = @ \ {pipe.session}]
      /\ UNCHANGED <<was, mine, aborted, pause, coord, runner, shut, kept, over, starts, pauses, failed>>
      /\ "end" \in StepName \ {"sleep"}
  BY DEF EndSession, OnPipe, crew, tally, file, StepName, Stopping
<1>2. /\ pipe'.session = 0 /\ pipe'.open = pipe.open \ {pipe.session}
      /\ pipe'.running = pipe.running /\ pipe'.bus = pipe.bus /\ pipe'.sink = pipe.sink
      /\ pipe'.observer = pipe.observer /\ pipe'.workers = pipe.workers
  BY <1>1 DEF PipelineTypes
<1>3. /\ Stage(p) /\ Doing(p) = "end" /\ Aim(p) \in {"end", "save", "launch"}
      /\ \A q \in Party \ {p} : todo'[q] \in {<<>>, Sleep}
      /\ \A g \in Gen : coord[g] = "run" \/ Live(g) => g \in pipe.workers
      /\ Asleep' = Asleep
      /\ \/ todo'[p] = <<>> /\ Aim(p) = "end"
         \/ todo'[p] \notin {<<>>, Sleep} /\ Doing(p)' = "disarm" /\ Aim(p)' = Aim(p) /\ Aim(p) # "end"
  BY <1>1, GoesOn DEF Span, Then, Stopping
<1>4. /\ ~pipe.running /\ pipe.workers = {} /\ pipe.bus = 0 /\ pipe.sink = 0 /\ pipe.observer = 0
      /\ Together /\ Asleep = {pause.timer} \ {0, p} /\ p \in Client
      /\ Aim(p) = "end" => Promise
  BY <1>3 DEF Stage, StopStage, PauseStage, Stopping
<1>5. Numbers'
  BY <1>1, <1>2, Bounds DEF Turns, Numbers
<1>6. Belongs'
  BY <1>1, <1>2, <1>3, <1>4 DEF Turns, Belongs, Live
<1>7. Settled' /\ Together'
  BY <1>1, <1>2, <1>4 DEF Settled, Together
<1>8. ASSUME todo'[p] = <<>>
      PROVE  Asleep' = {pause'.timer} \ {0} /\ Promise'
  <2>1. p \notin Timer
    BY <1>4, PipelineAssumption DEF Timer
  <2>. QED
    BY <1>1, <1>3, <1>4, <1>8, <2>1, NoClientSleeps DEF Promise, Promised
<1>9. ASSUME todo'[p] # <<>>
      PROVE  Stage(p)'
  BY <1>1, <1>2, <1>3, <1>4, <1>7, <1>9 DEF Stage, StartStage, StopStage, PauseStage, ResumeStage, BootStage, Starting, Stopping, Pausing, Resuming, Promise, Promised
<1>. QED
  BY <1>1, <1>3, <1>5, <1>6, <1>7, <1>8, <1>9, Turned DEF Turns

LEMMA EndFailsKeeps ==
  ASSUME PipelineTypes, PipelineTypes', Turns, NEW p \in Party, EndFails(p)
  PROVE  Turns'
<1>1. /\ At(p, "end") /\ Quit(p) /\ failed'
      /\ pipe' = [pipe EXCEPT !.session = 0]
      /\ UNCHANGED <<was, mine, aborted, pause, coord, runner, shut, kept, over, starts, pauses>>
      /\ "end" \in StepName \ {"sleep"}
  BY DEF EndFails, crew, file, StepName, Stopping
<1>2. /\ pipe'.session = 0
      /\ pipe'.running = pipe.running /\ pipe'.bus = pipe.bus /\ pipe'.sink = pipe.sink
      /\ pipe'.observer = pipe.observer /\ pipe'.workers = pipe.workers /\ pipe'.open = pipe.open
  BY <1>1 DEF PipelineTypes
<1>3. /\ Stage(p) /\ Doing(p) = "end" /\ Aim(p) \in {"end", "save", "launch"}
      /\ \A q \in Party \ {p} : todo'[q] \in {<<>>, Sleep}
      /\ \A g \in Gen : coord[g] = "run" \/ Live(g) => g \in pipe.workers
      /\ Asleep' = Asleep /\ todo'[p] = <<>>
  BY <1>1, GivesUp DEF Span, Stopping
<1>4. /\ ~pipe.running /\ pipe.workers = {} /\ pipe.bus = 0 /\ pipe.sink = 0 /\ pipe.observer = 0
      /\ Together /\ Asleep = {pause.timer} \ {0, p} /\ p \in Client
  BY <1>3 DEF Stage, StopStage, PauseStage, Stopping
<1>5. Numbers'
  BY <1>1, <1>2, Bounds DEF Turns, Numbers
<1>6. Belongs'
  BY <1>1, <1>2, <1>3, <1>4 DEF Turns, Belongs, Live
<1>7. Settled' /\ Together'
  BY <1>1, <1>2, <1>4 DEF Settled, Together
<1>8. Asleep' = {pause'.timer} \ {0} /\ Promise'
  <2>1. p \notin Timer
    BY <1>4, PipelineAssumption DEF Timer
  <2>. QED
    BY <1>1, <1>3, <1>4, <2>1, NoClientSleeps DEF Promise
<1>. QED
  BY <1>1, <1>3, <1>5, <1>6, <1>7, <1>8, Turned DEF Turns

(* No timer is aborted while it resumes. *)
LEMMA NobodyDies ==
  ASSUME Turns, NEW p \in Party
  PROVE  ~Die(p)
BY DEF Turns, Die

(* A step of the coordinator or the job runner of g. *)
LEMMA CrewKeeps ==
  ASSUME PipelineTypes, PipelineTypes', Turns, NEW g \in Gen, Crew(g)
  PROVE  Turns'
<1>1. UNCHANGED <<todo, was, mine, aborted, pipe, pause, shut, kept, over, starts, pauses, failed>>
  BY DEF Crew, CoordinatorExits, RunnerChecks, RunnerReceives, RunnerExits, Tick, RunnerStep, tally, file
<1>. DEFINE Works(h) == coord[h] = "run" \/ Live(h)
            WorksNext(h) == coord'[h] = "run" \/ runner'[h] \in {"check", "wait", "tick"}
<1>2. /\ \A h \in Gen : WorksNext(h) => Works(h)
      /\ \A h \in Gen : h > starts => coord'[h] = "none" /\ runner'[h] = "none"
  <2>1. \/ coord[g] = "run" /\ coord' = [coord EXCEPT ![g] = "gone"] /\ runner' = runner
        \/ /\ Live(g) /\ coord' = coord
           /\ \E k \in {"wait", "tick", "check", "gone"} : runner' = [runner EXCEPT ![g] = k]
    BY DEF Crew, CoordinatorExits, RunnerChecks, RunnerReceives, RunnerExits, Tick, RunnerStep, Live
  <2>2. ~(g > starts)
    BY <2>1 DEF Turns, Numbers, Live
  <2>3. \A h \in Gen \ {g} : coord'[h] = coord[h] /\ runner'[h] = runner[h]
    BY <2>1 DEF PipelineTypes
  <2>4. WorksNext(g) => Works(g)
    BY <2>1 DEF PipelineTypes, Live
  <2>. QED
    BY <2>2, <2>3, <2>4 DEF Turns, Numbers, Live
<1>3. ASSUME NEW h \in Gen, coord[h] = "run", Live(h), h \notin shut,
             h \in {pipe.bus, pipe.sink, pipe.observer}, pipe.running
      PROVE  coord'[h] = "run" /\ runner'[h] \in {"check", "wait", "tick"}
  <2>1. CASE h = g
    <3>1. ~CoordinatorExits(g)
      BY <1>3, <2>1 DEF CoordinatorExits
    <3>2. coord' = coord /\ \E k \in {"wait", "tick", "check"} : runner' = [runner EXCEPT ![g] = k]
      BY <1>3, <2>1, <3>1 DEF Crew, RunnerChecks, RunnerReceives, RunnerExits, Tick, RunnerStep
    <3>. QED
      BY <1>3, <2>1, <3>2 DEF PipelineTypes
  <2>2. CASE h # g
    <3>1. coord'[h] = coord[h] /\ runner'[h] = runner[h]
      BY <2>2 DEF Crew, CoordinatorExits, RunnerChecks, RunnerReceives, RunnerExits, Tick, RunnerStep, PipelineTypes
    <3>. QED
      BY <1>3, <3>1 DEF Live
  <2>. QED
    BY <2>1, <2>2
<1>. HIDE DEF Works, WorksNext
<1>4. Numbers'
  BY <1>1, <1>2 DEF Turns, Numbers
<1>5. Belongs'
  BY <1>1, <1>2 DEF Turns, Belongs, Live, Works, WorksNext, Busy, Doing
<1>6. ASSUME Settled
      PROVE  Settled'
  <2>1. CASE pipe.running /\ Complete(pipe.session)
    <3>1. pipe.session \in Gen /\ pipe.session = pipe.bus
      BY <2>1, Bounds DEF Complete
    <3>2. coord'[pipe.session] = "run" /\ runner'[pipe.session] \in {"check", "wait", "tick"}
      BY <1>3, <2>1, <3>1 DEF Complete
    <3>. QED
      BY <1>1, <2>1, <3>2 DEF Settled, Complete, Live
  <2>. QED
    BY <1>1, <1>6, <2>1 DEF Settled
<1>7. /\ Together' <=> Together
      /\ Asleep' = Asleep
      /\ Promise' <=> Promise
      /\ Busy' = Busy
      /\ AtRest' <=> AtRest
  BY <1>1 DEF Together, Asleep, Promise, Promised, Busy, AtRest
<1>8. ASSUME NEW p \in Busy
      PROVE  Stage(p)'
  <2>1. Stage(p) /\ Doing(p)' = Doing(p) /\ Aim(p)' = Aim(p)
    BY <1>1 DEF Turns, Doing, Aim
  <2>2. StartStage(p)'
    <3>1. Doing(p) = "push" => coord'[mine[p]] = "run" /\ runner'[mine[p]] \in {"check", "wait", "tick"}
      BY <1>3, <2>1, Bounds DEF Stage, StartStage, Starting
    <3>. QED
      BY <1>1, <2>1, <3>1 DEF Stage, StartStage, Live
  <2>. QED
    BY <1>1, <1>6, <1>7, <2>1, <2>2 DEF Stage, StopStage, PauseStage, ResumeStage, BootStage, Promised
<1>9. \A p, q \in Busy' : p = q
  BY <1>7 DEF Turns
<1>. QED
  BY <1>1, <1>4, <1>5, <1>6, <1>7, <1>8, <1>9 DEF Turns

(* A party whose steps are replaced by others goes on with them. *)
LEMMA Placed ==
  ASSUME PipelineTypes, NEW p \in Party, todo[p] # Sleep, NEW t, Orderly(t), t # <<>>, t[Len(t)] # "sleep",
         todo' = [todo EXCEPT ![p] = t]
  PROVE  /\ \A q \in Party \ {p} : todo'[q] = todo[q]
         /\ todo'[p] \notin {<<>>, Sleep} /\ Doing(p)' = Head(t) /\ Aim(p)' = t[Len(t)]
         /\ Asleep' = Asleep
<1>1. todo'[p] = t /\ \A q \in Party \ {p} : todo'[q] = todo[q]
  BY Puts
<1>2. t # Sleep
  <2>1. Sleep[Len(Sleep)] = "sleep"
    BY DEF Sleep
  <2>. QED
    BY <2>1
<1>3. Asleep' = Asleep
  BY <1>1, <1>2, SleepOn
<1>. QED
  BY <1>1, <1>2, <1>3 DEF Doing, Aim

LEMMA AskKeeps ==
  ASSUME PipelineTypes, PipelineTypes', Turns, NEW p \in Party, Ask(p)
  PROVE  Turns'
<1>1. /\ At(p, "ask") /\ "ask" \in StepName \ {"sleep"}
      /\ UNCHANGED <<mine, aborted, pipe, pause, coord, runner, shut, kept, over, starts, pauses, failed>>
  BY DEF Ask, crew, tally, file, StepName
<1>2. PICK t : /\ todo' = [todo EXCEPT ![p] = t] /\ Orderly(t) /\ t # <<>>
               /\ Head(t) = (IF pipe.running THEN "halt" ELSE "disarm")
               /\ t[Len(t)] = Aim(p) /\ Aim(p) \in {"save", "launch"}
  BY AskLeads
<1>3. /\ todo[p] # Sleep /\ Stage(p) /\ Doing(p) = "ask"
      /\ \A q \in Party \ {p} : todo[q] \in {<<>>, Sleep}
      /\ \A g \in Gen : coord[g] = "run" \/ Live(g) => g \in pipe.workers
  BY <1>1, Alone
<1>4. /\ \A q \in Party \ {p} : todo'[q] \in {<<>>, Sleep}
      /\ todo'[p] \notin {<<>>, Sleep} /\ Doing(p)' = (IF pipe.running THEN "halt" ELSE "disarm")
      /\ Aim(p)' = Aim(p) /\ Asleep' = Asleep
  BY <1>2, <1>3, Placed
<1>5. Numbers'
  BY <1>1 DEF Turns, Numbers
<1>6. Belongs'
  BY <1>1, <1>3 DEF Turns, Belongs, Live
<1>7. Settled' /\ Settled
  BY <1>1, <1>3 DEF Stage, StopStage, Starting, Stopping, Settled, Complete, Live
<1>8. Stage(p)'
  BY <1>1, <1>2, <1>3, <1>4, <1>7 DEF Stage, StartStage, StopStage, PauseStage, ResumeStage, BootStage, Starting, Stopping, Pausing, Resuming, Together, Promise, Promised
<1>. QED
  BY <1>1, <1>4, <1>5, <1>6, <1>8, Turned DEF Turns

(* A step that takes the timer of the pause, of a client: if it is there it *)
(* sleeps.                                                                  *)
LEMMA Disarms ==
  ASSUME PipelineTypes, Turns, NEW p \in Client, NEW s \in {"disarm", "clear"}, AbortTimer(p, s)
  PROVE  /\ Stage(p) /\ Doing(p) = s /\ Span(s, Aim(p))
         /\ \A q \in Party \ {p} : todo'[q] \in {<<>>, Sleep}
         /\ \A g \in Gen : coord[g] = "run" \/ Live(g) => g \in pipe.workers
         /\ aborted' = {} /\ Asleep' = {}
         /\ pause'.timer = 0 /\ pause'.active = pause.active /\ pause'.state = pause.state
         /\ todo'[p] \notin {<<>>, Sleep} /\ Doing(p)' = Then(s, Aim(p)) /\ Aim(p)' = Aim(p)
<1>. DEFINE t == pause.timer
<1>1. /\ At(p, s) /\ s \in StepName \ {"sleep"} /\ p \in Party /\ p \notin Timer
      /\ pause' = [pause EXCEPT !.timer = 0]
      /\ IF t # 0 /\ todo[t] = Sleep
         THEN todo' = [Rest(p) EXCEPT ![t] = <<>>] /\ aborted' = aborted
         ELSE Go(p) /\ aborted' = aborted \cup ({t} \ {0})
  BY PipelineAssumption DEF AbortTimer, StepName, Pausing, Resuming, Party, Timer
<1>2. /\ todo[p] # <<>> /\ todo[p] # Sleep /\ Stage(p) /\ Doing(p) = s /\ Span(s, Aim(p)) /\ Aim(p) # "sleep"
      /\ \A q \in Party \ {p} : todo[q] \in {<<>>, Sleep}
      /\ \A g \in Gen : coord[g] = "run" \/ Live(g) => g \in pipe.workers
  BY <1>1, Alone
<1>3. Asleep = {t} \ {0} /\ aborted = {}
  BY <1>1, <1>2, NoClientSleeps DEF Stage, PauseStage, Turns
<1>4. pause'.timer = 0 /\ pause'.active = pause.active /\ pause'.state = pause.state
  BY <1>1 DEF PipelineTypes
<1>5. LET r == Tail(todo[p])
      IN  r \notin {<<>>, Sleep} /\ Head(r) = Then(s, Aim(p)) /\ r[Len(r)] = Aim(p)
  <2>1. Orderly(todo[p]) /\ s # Aim(p)
    BY <1>1, <1>2 DEF PipelineTypes, Span, Pausing, Resuming
  <2>2. Sleep[Len(Sleep)] = "sleep"
    BY DEF Sleep
  <2>. QED
    BY <1>2, <2>1, <2>2, OrderlyTail DEF Doing, Aim
<1>6. aborted' = {} /\ Asleep' = {} /\ todo'[p] = Tail(todo[p])
      /\ \A q \in Party \ {p} : todo'[q] \in {<<>>, Sleep}
  <2>1. CASE t # 0
    <3>1. t \in Timer /\ todo[t] = Sleep /\ t \in Party /\ t # p
      <4>1. t \in Timer
        BY <2>1, Bounds
      <4>2. t \in Asleep
        BY <1>3, <2>1
      <4>. QED
        BY <1>1, <4>1, <4>2 DEF Asleep
    <3>2. aborted' = {} /\ todo' = [Rest(p) EXCEPT ![t] = <<>>]
      BY <1>1, <1>3, <2>1, <3>1
    <3>3. todo'[p] = Tail(todo[p]) /\ todo'[t] = <<>> /\ \A q \in Party \ {p, t} : todo'[q] = todo[q]
      BY <1>1, <3>1, <3>2 DEF Rest, PipelineTypes
    <3>4. \A q \in Party : todo'[q] # Sleep
      <4>1. \A q \in Party \ {p, t} : todo'[q] = todo[q] /\ todo[q] # Sleep
        BY <1>1, <1>3, <3>3 DEF Asleep
      <4>2. <<>> # Sleep
        BY DEF Sleep
      <4>. QED
        BY <1>5, <3>3, <4>1, <4>2
    <3>. QED
      BY <1>2, <3>2, <3>3, <3>4 DEF Asleep
  <2>2. CASE t = 0
    <3>1. Go(p) /\ aborted' = {}
      BY <1>1, <1>3, <2>2
    <3>2. todo'[p] = Tail(todo[p]) /\ \A q \in Party \ {p} : todo'[q] = todo[q]
      BY <1>1, <3>1 DEF Go, Rest, PipelineTypes
    <3>3. \A q \in Party : todo'[q] # Sleep
      BY <1>1, <1>3, <1>5, <2>2, <3>2 DEF Asleep
    <3>. QED
      BY <1>2, <3>1, <3>2, <3>3 DEF Asleep
  <2>. QED
    BY <2>1, <2>2
<1>7. todo'[p] \notin {<<>>, Sleep} /\ Doing(p)' = Then(s, Aim(p)) /\ Aim(p)' = Aim(p)
  BY <1>5, <1>6 DEF Doing, Aim
<1>. QED
  BY <1>2, <1>4, <1>6, <1>7

LEMMA DisarmKeeps ==
  ASSUME PipelineTypes, PipelineTypes', Turns, NEW p \in Party, Disarm(p)
  PROVE  Turns'
<1>1. /\ At(p, "disarm") /\ AbortTimer(p, "disarm") /\ "disarm" \in StepName \ {"sleep"}
      /\ UNCHANGED <<was, mine, pipe, coord, runner, shut, kept, over, starts, pauses, failed>>
  BY DEF Disarm, AbortTimer, crew, tally, file, StepName, Pausing
<1>2. p \in Client /\ Aim(p) \in {"save", "launch"}
  BY <1>1, Alone DEF Stage, PauseStage, Span, Pausing
<1>3. /\ Stage(p) /\ Doing(p) = "disarm"
      /\ \A q \in Party \ {p} : todo'[q] \in {<<>>, Sleep}
      /\ \A g \in Gen : coord[g] = "run" \/ Live(g) => g \in pipe.workers
      /\ aborted' = {} /\ Asleep' = {}
      /\ pause'.timer = 0 /\ pause'.active = pause.active /\ pause'.state = pause.state
      /\ todo'[p] \notin {<<>>, Sleep} /\ Doing(p)' = "note" /\ Aim(p)' = Aim(p)
  BY <1>1, <1>2, Disarms DEF Then
<1>4. Numbers'
  BY <1>1, <1>3, Bounds DEF Turns, Numbers
<1>5. Belongs'
  BY <1>1, <1>3 DEF Turns, Belongs, Live
<1>6. Settled'
  BY <1>1, <1>3 DEF Stage, StopStage, Starting, Stopping, Settled, Complete, Live
<1>7. Stage(p)'
  BY <1>1, <1>2, <1>3, <1>6 DEF Stage, StartStage, StopStage, PauseStage, ResumeStage, BootStage, Starting, Stopping, Pausing, Resuming, Together, Promise, Promised
<1>. QED
  BY <1>3, <1>4, <1>5, <1>7, Turned DEF Turns

LEMMA NoteKeeps ==
  ASSUME PipelineTypes, PipelineTypes', Turns, NEW p \in Party, Note(p)
  PROVE  Turns'
<1>1. /\ At(p, "note") /\ Go(p) /\ pause' = [pause EXCEPT !.state = <<was[p]>>]
      /\ UNCHANGED <<was, mine, aborted, pipe, coord, runner, shut, kept, over, starts, pauses, failed>>
      /\ "note" \in StepName \ {"sleep"}
  BY DEF Note, OnPause, crew, tally, file, StepName, Pausing
<1>2. pause'.state = <<was[p]>> /\ pause'.active = pause.active /\ pause'.timer = pause.timer
  BY <1>1 DEF PipelineTypes
<1>3. /\ Stage(p) /\ Doing(p) = "note" /\ Aim(p) \in {"save", "launch"}
      /\ \A q \in Party \ {p} : todo'[q] \in {<<>>, Sleep}
      /\ \A g \in Gen : coord[g] = "run" \/ Live(g) => g \in pipe.workers
      /\ Asleep' = Asleep /\ todo'[p] \notin {<<>>, Sleep}
      /\ Doing(p)' = "freeze" /\ Aim(p)' = Aim(p)
  BY <1>1, GoesOn DEF Span, Then, Pausing
<1>4. Numbers'
  BY <1>1, <1>2 DEF Turns, Numbers
<1>5. ~pipe.running /\ Settled'
  BY <1>1, <1>3 DEF Stage, StopStage, Starting, Stopping, Pausing, Settled, Complete, Live
<1>6. Belongs'
  BY <1>1, <1>2, <1>3, <1>5 DEF Turns, Belongs, Live
<1>7. Stage(p)'
  BY <1>1, <1>2, <1>3, <1>5 DEF Stage, StartStage, StopStage, PauseStage, ResumeStage, BootStage, Starting, Stopping, Pausing, Resuming, Together, Promise, Promised
<1>. QED
  BY <1>1, <1>3, <1>4, <1>6, <1>7, Turned DEF Turns

LEMMA FreezeKeeps ==
  ASSUME PipelineTypes, PipelineTypes', Turns, NEW p \in Party, Freeze(p)
  PROVE  Turns'
<1>1. /\ At(p, "freeze") /\ Go(p) /\ pause' = [pause EXCEPT !.active = TRUE]
      /\ UNCHANGED <<was, mine, aborted, pipe, coord, runner, shut, kept, over, starts, pauses, failed>>
      /\ "freeze" \in StepName \ {"sleep"}
  BY DEF Freeze, OnPause, crew, tally, file, StepName, Pausing
<1>2. pause'.active = TRUE /\ pause'.state = pause.state /\ pause'.timer = pause.timer
  BY <1>1 DEF PipelineTypes
<1>3. /\ Stage(p) /\ Doing(p) = "freeze" /\ Aim(p) \in {"save", "launch"}
      /\ \A q \in Party \ {p} : todo'[q] \in {<<>>, Sleep}
      /\ \A g \in Gen : coord[g] = "run" \/ Live(g) => g \in pipe.workers
      /\ Asleep' = Asleep /\ todo'[p] \notin {<<>>, Sleep}
      /\ Doing(p)' = "arm" /\ Aim(p)' = Aim(p)
  BY <1>1, GoesOn DEF Span, Then, Pausing
<1>4. Numbers'
  BY <1>1, <1>2 DEF Turns, Numbers
<1>5. ~pipe.running /\ Settled'
  BY <1>1, <1>3 DEF Stage, StopStage, Starting, Stopping, Pausing, Settled, Complete, Live
<1>6. Belongs'
  BY <1>1, <1>2, <1>3, <1>5 DEF Turns, Belongs, Live
<1>7. p \notin Timer
  BY <1>3, PipelineAssumption DEF Stage, PauseStage, Timer
<1>8. Stage(p)'
  BY <1>1, <1>2, <1>3, <1>5, <1>7 DEF Stage, StartStage, StopStage, PauseStage, ResumeStage, BootStage, Starting, Stopping, Pausing, Resuming, Together, Promise, Promised
<1>. QED
  BY <1>1, <1>3, <1>4, <1>6, <1>8, Turned DEF Turns

LEMMA ArmKeeps ==
  ASSUME PipelineTypes, PipelineTypes', Turns, NEW p \in Party, Arm(p)
  PROVE  Turns'
<1>. DEFINE m == mine[p]
<1>1. /\ At(p, "arm") /\ "arm" \in StepName \ {"sleep"}
      /\ todo' = [Rest(p) EXCEPT ![m] = Sleep]
      /\ UNCHANGED <<was, mine, aborted, pipe, pause, coord, runner, shut, kept, over, starts, pauses, failed>>
  BY DEF Arm, crew, tally, file, StepName, Pausing
<1>2. /\ todo[p] # <<>> /\ Stage(p) /\ Doing(p) = "arm" /\ Aim(p) \in {"save", "launch"} /\ Aim(p) # "arm"
      /\ \A q \in Party \ {p} : todo[q] \in {<<>>, Sleep}
      /\ \A g \in Gen : coord[g] = "run" \/ Live(g) => g \in pipe.workers
  BY <1>1, Alone DEF Span, Pausing
<1>3. /\ p \in Client /\ p \notin Timer /\ m \in Timer /\ m # p /\ m \in Party
      /\ Asleep = {}
  <2>1. p \in Client /\ p \notin Timer
    BY <1>2, PipelineAssumption DEF Stage, PauseStage, Timer
  <2>2. m \in Timer
    BY <1>2, Bounds DEF Stage, PauseStage, BootStage, Pausing
  <2>3. Asleep = {}
    BY <1>2 DEF Stage, PauseStage
  <2>. QED
    BY <2>1, <2>2, <2>3 DEF Party
<1>4. /\ todo'[p] = Tail(todo[p]) /\ todo'[m] = Sleep
      /\ \A q \in Party \ {p, m} : todo'[q] = todo[q]
  <2>. HIDE DEF m
  <2>. QED
    BY <1>1, <1>3, SMTT(30) DEF Rest, PipelineTypes
<1>5. todo'[p] \notin {<<>>, Sleep} /\ Doing(p)' = "keep" /\ Aim(p)' = Aim(p)
  <2>1. Orderly(todo[p])
    BY DEF PipelineTypes
  <2>2. /\ Tail(todo[p]) # <<>> /\ Head(Tail(todo[p])) = "keep"
        /\ Tail(todo[p])[Len(Tail(todo[p]))] = Aim(p)
    BY <1>2, <2>1, OrderlyTail DEF Doing, Aim, Then
  <2>3. Sleep[Len(Sleep)] = "sleep"
    BY DEF Sleep
  <2>. QED
    BY <1>2, <1>4, <2>2, <2>3 DEF Doing, Aim
<1>6. Asleep' = {m}
  <2>1. \A q \in Party \ {m} : todo'[q] # Sleep
    BY <1>3, <1>4, <1>5 DEF Asleep
  <2>. HIDE DEF m
  <2>. QED
    BY <1>3, <1>4, <2>1 DEF Asleep
<1>7. Numbers'
  BY <1>1 DEF Turns, Numbers
<1>8. Belongs'
  BY <1>1, <1>2 DEF Turns, Belongs, Live
<1>9. Settled'
  BY <1>1, <1>2 DEF Stage, StopStage, Starting, Stopping, Settled, Complete, Live
<1>10. \A q \in Party \ {p} : todo'[q] \in {<<>>, Sleep}
  BY <1>2, <1>4
<1>11. Stage(p)'
  BY <1>1, <1>2, <1>3, <1>5, <1>6, <1>9 DEF Stage, StartStage, StopStage, PauseStage, ResumeStage, BootStage, Starting, Stopping, Pausing, Resuming, Together, Promise, Promised
<1>. QED
  BY <1>1, <1>5, <1>7, <1>8, <1>10, <1>11, Turned DEF Turns

LEMMA KeepKeeps ==
  ASSUME PipelineTypes, PipelineTypes', Turns, NEW p \in Party, Keep(p)
  PROVE  Turns'
<1>1. /\ At(p, "keep") /\ Go(p) /\ pause' = [pause EXCEPT !.timer = mine[p]]
      /\ UNCHANGED <<was, mine, aborted, pipe, coord, runner, shut, kept, over, starts, pauses, failed>>
      /\ "keep" \in StepName \ {"sleep"}
  BY DEF Keep, OnPause, crew, tally, file, StepName, Pausing
<1>2. pause'.timer = mine[p] /\ pause'.active = pause.active /\ pause'.state = pause.state
  BY <1>1 DEF PipelineTypes
<1>3. /\ Stage(p) /\ Doing(p) = "keep" /\ Aim(p) \in {"save", "launch"}
      /\ \A q \in Party \ {p} : todo'[q] \in {<<>>, Sleep}
      /\ \A g \in Gen : coord[g] = "run" \/ Live(g) => g \in pipe.workers
      /\ Asleep' = Asleep /\ todo'[p] \notin {<<>>, Sleep}
      /\ Doing(p)' = Aim(p) /\ Aim(p)' = Aim(p)
  BY <1>1, GoesOn DEF Span, Then, Pausing
<1>4. /\ mine[p] \in 1..pauses /\ mine[p] # 0 /\ mine[p] <= pauses /\ mine[p] # p /\ mine[p] \notin over
      /\ p \in Client /\ Asleep = {mine[p]}
      /\ Aim(p) = "launch" => kept = mine[p]
  <2>1. mine[p] \in 1..pauses /\ mine[p] \notin over
    <3>1. 0 \notin Timer
      BY DEF Timer
    <3>. QED
      BY <1>3, <3>1, Bounds DEF Stage, PauseStage, BootStage, Pausing
  <2>2. p \in Client /\ Asleep = {mine[p]} /\ (Aim(p) = "launch" => kept = mine[p])
    BY <1>3 DEF Stage, PauseStage, BootStage, Pausing
  <2>3. mine[p] # p /\ mine[p] # 0 /\ mine[p] <= pauses
    BY <2>1, <2>2, Bounds, PipelineAssumption DEF Timer
  <2>. QED
    BY <2>1, <2>2, <2>3
<1>5. Numbers'
  BY <1>1, <1>2, <1>4 DEF Turns, Numbers
<1>6. ~pipe.running /\ Settled'
  BY <1>1, <1>3 DEF Stage, StopStage, Starting, Stopping, Pausing, Settled, Complete, Live
<1>7. Belongs'
  BY <1>1, <1>2, <1>3, <1>6 DEF Turns, Belongs, Live
<1>8. Stage(p)'
  BY <1>1, <1>2, <1>3, <1>4, <1>6 DEF Stage, StartStage, StopStage, PauseStage, ResumeStage, BootStage, Starting, Stopping, Pausing, Resuming, Together, Promise, Promised
<1>. QED
  BY <1>1, <1>3, <1>5, <1>7, <1>8, Turned DEF Turns

LEMMA TakeKeeps ==
  ASSUME PipelineTypes, PipelineTypes', Turns, NEW p \in Party, Take(p)
  PROVE  Turns'
<1>1. /\ At(p, "take") /\ Go(p) /\ pause' = [pause EXCEPT !.state = <<>>]
      /\ UNCHANGED <<mine, aborted, pipe, coord, runner, shut, kept, over, starts, pauses, failed>>
      /\ "take" \in StepName \ {"sleep"}
  BY DEF Take, crew, tally, file, StepName, Resuming
<1>2. pause'.state = <<>> /\ pause'.active = pause.active /\ pause'.timer = pause.timer
  BY <1>1 DEF PipelineTypes
<1>3. /\ Stage(p) /\ Doing(p) = "take" /\ Aim(p) \in {"restart", "forget"}
      /\ \A q \in Party \ {p} : todo'[q] \in {<<>>, Sleep}
      /\ \A g \in Gen : coord[g] = "run" \/ Live(g) => g \in pipe.workers
      /\ Asleep' = Asleep /\ todo'[p] \notin {<<>>, Sleep}
      /\ Doing(p)' = "lift" /\ Aim(p)' = Aim(p)
  BY <1>1, GoesOn DEF Span, Then, Resuming
<1>4. Numbers'
  BY <1>1, <1>2 DEF Turns, Numbers
<1>5. Settled'
  BY <1>1, <1>3 DEF Stage, StopStage, Starting, Stopping, Settled, Complete, Live
<1>6. Belongs'
  BY <1>1, <1>2, <1>3 DEF Turns, Belongs, Live
<1>7. Stage(p)'
  BY <1>1, <1>2, <1>3, <1>5 DEF Stage, StartStage, StopStage, PauseStage, ResumeStage, BootStage, Starting, Stopping, Pausing, Resuming, Together, Promise, Promised
<1>. QED
  BY <1>1, <1>3, <1>4, <1>6, <1>7, Turned DEF Turns

LEMMA LiftKeeps ==
  ASSUME PipelineTypes, PipelineTypes', Turns, NEW p \in Party, Lift(p)
  PROVE  Turns'
<1>1. /\ At(p, "lift") /\ Go(p) /\ pause' = [pause EXCEPT !.active = FALSE]
      /\ UNCHANGED <<was, mine, aborted, pipe, coord, runner, shut, kept, over, starts, pauses, failed>>
      /\ "lift" \in StepName \ {"sleep"}
  BY DEF Lift, OnPause, crew, tally, file, StepName, Resuming
<1>2. ~pause'.active /\ pause'.state = pause.state /\ pause'.timer = pause.timer
  BY <1>1 DEF PipelineTypes
<1>3. /\ Stage(p) /\ Doing(p) = "lift" /\ Aim(p) \in {"restart", "forget"}
      /\ \A q \in Party \ {p} : todo'[q] \in {<<>>, Sleep}
      /\ \A g \in Gen : coord[g] = "run" \/ Live(g) => g \in pipe.workers
      /\ Asleep' = Asleep /\ todo'[p] \notin {<<>>, Sleep}
      /\ Doing(p)' = "clear" /\ Aim(p)' = Aim(p)
  BY <1>1, GoesOn DEF Span, Then, Resuming
<1>4. Numbers'
  BY <1>1, <1>2 DEF Turns, Numbers
<1>5. Settled'
  BY <1>1, <1>3 DEF Stage, StopStage, Starting, Stopping, Settled, Complete, Live
<1>6. Belongs'
  BY <1>1, <1>2, <1>3 DEF Turns, Belongs, Live
<1>7. Stage(p)'
  BY <1>1, <1>2, <1>3, <1>5 DEF Stage, StartStage, StopStage, PauseStage, ResumeStage, BootStage, Starting, Stopping, Pausing, Resuming, Together, Promise, Promised
<1>. QED
  BY <1>1, <1>3, <1>4, <1>6, <1>7, Turned DEF Turns

LEMMA ClearKeeps ==
  ASSUME PipelineTypes, PipelineTypes', Turns, NEW p \in Party, Clear(p)
  PROVE  Turns'
<1>1. /\ At(p, "clear") /\ "clear" \in StepName \ {"sleep"}
      /\ UNCHANGED <<was, mine, pipe, coord, runner, shut, kept, over, starts, pauses, failed>>
  BY DEF Clear, OnPause, AbortTimer, crew, tally, file, StepName, Resuming
<1>2. /\ Stage(p) /\ Doing(p) = "clear" /\ Aim(p) \in {"restart", "forget"}
      /\ \A g \in Gen : coord[g] = "run" \/ Live(g) => g \in pipe.workers
  BY <1>1, Alone DEF Span, Resuming
<1>3. /\ \A q \in Party \ {p} : todo'[q] \in {<<>>, Sleep}
      /\ aborted' = {} /\ Asleep' = {}
      /\ pause'.timer = 0 /\ pause'.active = pause.active /\ pause'.state = pause.state
      /\ todo'[p] \notin {<<>>, Sleep} /\ Doing(p)' = "restart" /\ Aim(p)' = Aim(p)
  <2>1. CASE p \in Timer
    <3>1. Go(p) /\ pause' = [pause EXCEPT !.timer = 0] /\ aborted' = aborted
      BY <2>1 DEF Clear, OnPause
    <3>2. pause'.timer = 0 /\ pause'.active = pause.active /\ pause'.state = pause.state
      BY <3>1 DEF PipelineTypes
    <3>3. Asleep = {}
      BY <1>2, <2>1 DEF Stage, PauseStage, ResumeStage, Resuming
    <3>4. /\ \A q \in Party \ {p} : todo'[q] \in {<<>>, Sleep}
          /\ Asleep' = Asleep
          /\ \/ "clear" = Aim(p)
             \/ /\ todo'[p] \notin {<<>>, Sleep}
                /\ Doing(p)' = Then("clear", Aim(p)) /\ Aim(p)' = Aim(p)
      BY <1>1, <3>1, GoesOn
    <3>. QED
      BY <1>2, <3>1, <3>2, <3>3, <3>4 DEF Turns, Then
  <2>2. CASE p \notin Timer
    <3>1. AbortTimer(p, "clear") /\ p \in Client
      BY <2>2 DEF Clear, Party
    <3>. QED
      BY <1>2, <3>1, Disarms DEF Then
  <2>. QED
    BY <2>1, <2>2
<1>4. Numbers'
  BY <1>1, <1>3, Bounds DEF Turns, Numbers
<1>5. Settled'
  BY <1>1, <1>2 DEF Stage, StopStage, Starting, Stopping, Settled, Complete, Live
<1>6. Belongs'
  BY <1>1, <1>2, <1>3 DEF Turns, Belongs, Live
<1>7. Stage(p)'
  BY <1>1, <1>2, <1>3, <1>5 DEF Stage, StartStage, StopStage, PauseStage, ResumeStage, BootStage, Starting, Stopping, Pausing, Resuming, Together, Promise, Promised
<1>. QED
  BY <1>3, <1>4, <1>6, <1>7, Turned DEF Turns

LEMMA RestartKeeps ==
  ASSUME PipelineTypes, PipelineTypes', Turns, NEW p \in Party, Restart(p)
  PROVE  Turns'
<1>1. /\ At(p, "restart") /\ "restart" \in StepName \ {"sleep"}
      /\ UNCHANGED <<mine, aborted, pipe, pause, coord, runner, shut, kept, over, starts, pauses, failed>>
  BY DEF Restart, crew, tally, file, StepName
<1>2. PICK t : /\ todo' = [todo EXCEPT ![p] = t] /\ Orderly(t)
               /\ Aim(p) \in {"restart", "forget"}
               /\ \/ /\ was[p] /\ ~pipe.running /\ t # <<>> /\ Head(t) = "admit"
                     /\ t[Len(t)] = IF Aim(p) = "restart" THEN "push" ELSE "forget"
                  \/ Aim(p) = "restart" /\ t = <<>>
                  \/ Aim(p) = "forget" /\ t # <<>> /\ Head(t) = "forget" /\ t[Len(t)] = "forget"
  BY RestartLeads
<1>3. /\ todo[p] # Sleep /\ Stage(p) /\ Doing(p) = "restart"
      /\ \A q \in Party \ {p} : todo[q] \in {<<>>, Sleep}
      /\ \A g \in Gen : coord[g] = "run" \/ Live(g) => g \in pipe.workers
  BY <1>1, Alone
<1>4. Numbers'
  BY <1>1 DEF Turns, Numbers
<1>5. Belongs'
  BY <1>1, <1>3 DEF Turns, Belongs, Live
<1>6. Settled' /\ Together' /\ Together /\ ~pause.active
  BY <1>1, <1>2, <1>3 DEF Stage, StopStage, PauseStage, ResumeStage, Starting, Stopping, Resuming, Settled, Complete, Live, Together
<1>7. CASE t = <<>>
  <2>1. todo'[p] = <<>> /\ \A q \in Party \ {p} : todo'[q] = todo[q]
    BY <1>2, <1>7, Puts
  <2>2. Asleep' = Asleep
    <3>1. <<>> # Sleep
      BY DEF Sleep
    <3>. QED
      BY <1>3, <2>1, <3>1, SleepOn
  <2>3. pause.timer = 0 /\ Asleep = {} /\ Promise
    BY <1>2, <1>3, <1>6, <1>7, Unpaused DEF Resuming
  <2>4. Asleep' = {pause'.timer} \ {0} /\ Promise'
    BY <1>1, <2>2, <2>3 DEF Promise, Promised
  <2>. QED
    BY <1>1, <1>3, <1>4, <1>5, <1>6, <2>1, <2>4, Turned DEF Turns
<1>8. CASE t # <<>>
  <2>1. /\ \A q \in Party \ {p} : todo'[q] \in {<<>>, Sleep}
        /\ todo'[p] \notin {<<>>, Sleep} /\ Asleep' = Asleep
        /\ \/ /\ was[p] /\ ~pipe.running /\ Doing(p)' = "admit"
              /\ Aim(p)' = IF Aim(p) = "restart" THEN "push" ELSE "forget"
           \/ Aim(p) = "forget" /\ Doing(p)' = "forget" /\ Aim(p)' = "forget"
    <3>1. Head(t) \in {"admit", "forget"} /\ t[Len(t)] \in {"push", "forget"}
      BY <1>2, <1>8
    <3>2. /\ \A q \in Party \ {p} : todo'[q] = todo[q]
          /\ todo'[p] \notin {<<>>, Sleep} /\ Doing(p)' = Head(t) /\ Aim(p)' = t[Len(t)]
          /\ Asleep' = Asleep
      BY <1>2, <1>3, <1>8, <3>1, Placed
    <3>. QED
      BY <1>2, <1>3, <1>8, <3>2
  <2>2. Aim(p) = "restart" => p \notin Client
    BY <1>3, PipelineAssumption DEF Stage, ResumeStage, Timer
  <2>3. Stage(p)'
    BY <1>1, <1>2, <1>3, <1>6, <2>1, <2>2 DEF Stage, StartStage, StopStage, PauseStage, ResumeStage, BootStage, Starting, Stopping, Pausing, Resuming, Together, Promise, Promised
  <2>. QED
    BY <1>1, <1>4, <1>5, <2>1, <2>3, Turned DEF Turns
<1>. QED
  BY <1>7, <1>8

LEMMA SaveKeeps ==
  ASSUME PipelineTypes, PipelineTypes', Turns, NEW p \in Party, Save(p)
  PROVE  Turns'
<1>1. /\ At(p, "save") /\ Go(p) /\ kept' = mine[p] /\ "save" \in StepName \ {"sleep"}
      /\ UNCHANGED <<was, mine, aborted, pipe, pause, coord, runner, shut, over, starts, pauses, failed>>
  BY DEF Save, Keeps, crew, StepName
<1>2. /\ Stage(p) /\ Doing(p) = "save" /\ Aim(p) = "save"
      /\ \A q \in Party \ {p} : todo'[q] \in {<<>>, Sleep}
      /\ \A g \in Gen : coord[g] = "run" \/ Live(g) => g \in pipe.workers
      /\ Asleep' = Asleep /\ todo'[p] = <<>>
  BY <1>1, GoesOn DEF Span
<1>3. /\ p \notin Timer /\ Together /\ Settled /\ Asleep = {pause.timer} \ {0, p}
      /\ pause.timer = mine[p] /\ mine[p] \in 1..pauses /\ mine[p] \notin over
  BY <1>2, PipelineAssumption DEF Stage, StopStage, PauseStage, Starting, Stopping, Timer
<1>4. Numbers'
  BY <1>1, <1>3, Bounds DEF Turns, Numbers
<1>5. Belongs'
  BY <1>1, <1>2 DEF Turns, Belongs, Live
<1>6. Settled' /\ Together'
  BY <1>1, <1>3 DEF Settled, Complete, Live, Together
<1>7. Asleep' = {pause'.timer} \ {0} /\ Promise'
  BY <1>1, <1>2, <1>3, NoClientSleeps DEF Promise, Promised
<1>. QED
  BY <1>1, <1>2, <1>4, <1>5, <1>6, <1>7, Turned DEF Turns

LEMMA ForgetKeeps ==
  ASSUME PipelineTypes, PipelineTypes', Turns, NEW p \in Party, Forget(p)
  PROVE  Turns'
<1>1. /\ At(p, "forget") /\ Go(p) /\ kept' = 0 /\ "forget" \in StepName \ {"sleep"}
      /\ UNCHANGED <<was, mine, aborted, pipe, pause, coord, runner, shut, over, starts, pauses, failed>>
  BY DEF Forget, Keeps, crew, StepName
<1>2. /\ Stage(p) /\ Doing(p) = "forget"
      /\ \A q \in Party \ {p} : todo'[q] \in {<<>>, Sleep}
      /\ \A g \in Gen : coord[g] = "run" \/ Live(g) => g \in pipe.workers
      /\ Asleep' = Asleep
      /\ \/ todo'[p] = <<>> /\ Aim(p) = "forget"
         \/ /\ todo'[p] \notin {<<>>, Sleep} /\ Doing(p)' = "launch"
            /\ Aim(p)' = Aim(p) /\ Aim(p) = "launch"
  BY <1>1, GoesOn DEF Span, Then
<1>3. Together /\ Settled /\ ~pause.active /\ pause.timer = 0 /\ Asleep = {}
  BY <1>2 DEF Stage, StopStage, PauseStage, ResumeStage, BootStage, Starting, Stopping, Resuming, Together
<1>4. Numbers'
  BY <1>1, Bounds DEF Turns, Numbers
<1>5. Belongs'
  BY <1>1, <1>2 DEF Turns, Belongs, Live
<1>6. Settled' /\ Together' /\ Asleep' = {pause'.timer} \ {0} /\ Promise'
  BY <1>1, <1>2, <1>3 DEF Settled, Complete, Live, Together, Promise, Promised
<1>7. ASSUME todo'[p] # <<>>
      PROVE  Stage(p)'
  BY <1>1, <1>2, <1>3, <1>6, <1>7 DEF Stage, StartStage, StopStage, PauseStage, ResumeStage, BootStage, Starting, Stopping, Pausing, Resuming, Together, Promise, Promised
<1>. QED
  BY <1>1, <1>2, <1>4, <1>5, <1>6, <1>7, Turned DEF Turns

LEMMA SaveFailsKeeps ==
  ASSUME PipelineTypes, PipelineTypes', Turns, NEW p \in Party, SaveFails(p)
  PROVE  Turns'
<1>1. /\ At(p, "save") \/ At(p, "forget")
      /\ Go(p) /\ failed' /\ {"save", "forget"} \subseteq StepName \ {"sleep"}
      /\ UNCHANGED <<was, mine, aborted, pipe, pause, coord, runner, shut, kept, over, starts, pauses>>
  BY DEF SaveFails, crew, file, StepName
<1>2. /\ Stage(p) /\ Doing(p) \in {"save", "forget"}
      /\ \A q \in Party \ {p} : todo'[q] \in {<<>>, Sleep}
      /\ \A g \in Gen : coord[g] = "run" \/ Live(g) => g \in pipe.workers
      /\ Asleep' = Asleep
      /\ \/ todo'[p] = <<>> /\ Aim(p) \in {"save", "forget"}
         \/ /\ todo'[p] \notin {<<>>, Sleep} /\ Doing(p) = "forget" /\ Doing(p)' = "launch"
            /\ Aim(p)' = Aim(p) /\ Aim(p) = "launch"
  <2>1. CASE At(p, "save")
    BY <1>1, <2>1, GoesOn DEF Span
  <2>2. CASE At(p, "forget")
    BY <1>1, <2>2, GoesOn DEF Span, Then
  <2>. QED
    BY <1>1, <2>1, <2>2
<1>3. Together /\ Settled /\ Asleep = {pause.timer} \ {0, p} /\ p \notin Timer
  BY <1>2, PipelineAssumption DEF Stage, StopStage, PauseStage, Starting, Stopping, Timer
<1>4. Numbers'
  BY <1>1 DEF Turns, Numbers
<1>5. Belongs'
  BY <1>1, <1>2 DEF Turns, Belongs, Live
<1>6. Settled' /\ Together' /\ Asleep' = {pause'.timer} \ {0} /\ Promise'
  BY <1>1, <1>2, <1>3, NoClientSleeps DEF Settled, Complete, Live, Together, Promise
<1>7. ASSUME todo'[p] # <<>>
      PROVE  Stage(p)'
  BY <1>1, <1>2, <1>3, <1>6, <1>7 DEF Stage, StartStage, StopStage, PauseStage, ResumeStage, BootStage, Starting, Stopping, Pausing, Resuming, Together, Promise, Promised
<1>. QED
  BY <1>1, <1>2, <1>4, <1>5, <1>6, <1>7, Turned DEF Turns

LEMMA RestoreKeeps ==
  ASSUME PipelineTypes, PipelineTypes', Turns, NEW p \in Party, Restore(p)
  PROVE  Turns'
<1>1. /\ At(p, "restore") /\ "restore" \in StepName \ {"sleep"}
      /\ mine' = [mine EXCEPT ![p] = kept]
      /\ UNCHANGED <<was, aborted, pipe, pause, coord, runner, shut, kept, over, starts, pauses, failed>>
  BY DEF Restore, crew, tally, file, StepName
<1>2. PICK t : /\ todo' = [todo EXCEPT ![p] = t] /\ Orderly(t) /\ t # <<>>
               /\ t[Len(t)] = "launch" /\ Aim(p) = "launch"
               /\ Head(t) = IF kept = 0 THEN "launch" ELSE IF kept \in over THEN "forget" ELSE "ask"
  BY RestoreLeads
<1>3. /\ todo[p] # Sleep /\ Stage(p) /\ Doing(p) = "restore"
      /\ \A q \in Party \ {p} : todo[q] \in {<<>>, Sleep}
      /\ \A g \in Gen : coord[g] = "run" \/ Live(g) => g \in pipe.workers
  BY <1>1, Alone
<1>4. /\ \A q \in Party \ {p} : todo'[q] \in {<<>>, Sleep}
      /\ todo'[p] \notin {<<>>, Sleep} /\ Asleep' = Asleep
      /\ Doing(p)' = (IF kept = 0 THEN "launch" ELSE IF kept \in over THEN "forget" ELSE "ask")
      /\ Aim(p)' = "launch"
  BY <1>2, <1>3, Placed
<1>5. mine'[p] = kept /\ (kept # 0 => kept \in Timer)
  <2>1. mine'[p] = kept
    BY <1>1 DEF PipelineTypes
  <2>. QED
    BY <2>1, Bounds
<1>6. Numbers'
  BY <1>1 DEF Turns, Numbers
<1>7. Belongs'
  BY <1>1, <1>3 DEF Turns, Belongs, Live
<1>8. /\ Settled' /\ Together' /\ Together /\ ~pause.active /\ pause.timer = 0
      /\ kept = 0 => Promise'
  BY <1>1, <1>2, <1>3 DEF Stage, StopStage, PauseStage, BootStage, Starting, Stopping, Settled, Complete, Live, Together, Promise, Promised
<1>9. p \notin Timer
  BY <1>2, <1>3, PipelineAssumption DEF Stage, PauseStage, Timer
<1>10. Stage(p)'
  BY <1>1, <1>2, <1>3, <1>4, <1>5, <1>8, <1>9 DEF Stage, StartStage, StopStage, PauseStage, ResumeStage, BootStage, Starting, Stopping, Pausing, Resuming, Together, Promise, Promised
<1>. QED
  BY <1>1, <1>4, <1>6, <1>7, <1>10, Turned DEF Turns

LEMMA LaunchKeeps ==
  ASSUME PipelineTypes, PipelineTypes', Turns, NEW p \in Party, Launch(p)
  PROVE  Turns'
<1>1. /\ At(p, "launch") /\ "launch" \in StepName \ {"sleep"}
      /\ UNCHANGED <<was, mine, aborted, pipe, pause, coord, runner, shut, kept, over, starts, pauses, failed>>
      /\ Quit(p) \/ (~pipe.running /\ ~pause.active /\ todo' = [todo EXCEPT ![p] = StartSteps])
  BY DEF Launch, crew, tally, file, StepName
<1>2. /\ todo[p] # Sleep /\ Stage(p) /\ Doing(p) = "launch" /\ Aim(p) = "launch"
      /\ \A q \in Party \ {p} : todo[q] \in {<<>>, Sleep}
      /\ \A g \in Gen : coord[g] = "run" \/ Live(g) => g \in pipe.workers
  BY <1>1, Alone DEF Span
<1>3. Numbers'
  BY <1>1 DEF Turns, Numbers
<1>4. Belongs'
  BY <1>1, <1>2 DEF Turns, Belongs, Live
<1>5. /\ Settled' /\ Together' /\ Together /\ Promise /\ Promise' /\ p \in Client /\ p \notin Timer
      /\ Asleep = {pause.timer} \ {0, p}
  BY <1>1, <1>2, PipelineAssumption DEF Stage, StopStage, PauseStage, BootStage, Starting, Stopping, Settled, Complete, Live, Together, Promise, Promised, Timer
<1>6. CASE Quit(p)
  <2>1. /\ \A q \in Party \ {p} : todo'[q] \in {<<>>, Sleep}
        /\ Asleep' = Asleep /\ todo'[p] = <<>>
    BY <1>1, <1>6, GivesUp
  <2>2. Asleep' = {pause'.timer} \ {0}
    BY <1>1, <1>5, <2>1, NoClientSleeps
  <2>. QED
    BY <1>1, <1>3, <1>4, <1>5, <2>1, <2>2, Turned DEF Turns
<1>7. CASE ~pipe.running /\ ~pause.active /\ todo' = [todo EXCEPT ![p] = StartSteps]
  <2>1. Orderly(StartSteps) /\ StartSteps # <<>> /\ Head(StartSteps) = "admit" /\ StartSteps[Len(StartSteps)] = "push"
    <3>1. StartSteps \o <<>> = StartSteps
      BY DEF StartSteps
    <3>. QED
      BY <3>1, OrderlyStart
  <2>2. /\ \A q \in Party \ {p} : todo'[q] \in {<<>>, Sleep}
        /\ todo'[p] \notin {<<>>, Sleep} /\ Asleep' = Asleep
        /\ Doing(p)' = "admit" /\ Aim(p)' = "push"
    BY <1>2, <1>7, <2>1, Placed
  <2>3. Stage(p)'
    BY <1>1, <1>2, <1>5, <1>7, <2>2 DEF Stage, StartStage, StopStage, PauseStage, ResumeStage, BootStage, Starting, Stopping, Pausing, Resuming, Together, Promise, Promised
  <2>. QED
    BY <1>1, <1>3, <1>4, <2>2, <2>3, Turned DEF Turns
<1>. QED
  BY <1>1, <1>6, <1>7

(* A command or an expiry that begins in turn finds everyone at rest. *)
LEMMA Begins ==
  ASSUME PipelineTypes, overlaps = 0 => Turns, overlaps' = 0, NEW p \in Party, todo[p] \in {<<>>, Sleep},
         NEW t, Orderly(t), t # <<>>, t[Len(t)] # "sleep", Begin(p, t)
  PROVE  /\ overlaps = 0 /\ Turns /\ Settled /\ Together /\ Asleep = {pause.timer} \ {0} /\ Promise
         /\ UNCHANGED <<was, aborted, pipe, pause, coord, runner, shut, kept, starts, failed>>
         /\ \A q \in Party \ {p} : todo'[q] \in {<<>>, Sleep}
         /\ todo'[p] \notin {<<>>, Sleep} /\ Doing(p)' = Head(t) /\ Aim(p)' = t[Len(t)]
         /\ Asleep' = Asleep \ {p}
         /\ \A g \in Gen : coord[g] = "run" \/ Live(g) => g \in pipe.workers
<1>1. /\ todo' = [todo EXCEPT ![p] = t]
      /\ UNCHANGED <<was, aborted, pipe, pause, coord, runner, shut, kept, starts, failed>>
      /\ IF AtRest THEN overlaps' = overlaps ELSE overlaps' = overlaps + 1
  BY DEF Begin, crew
<1>2. AtRest /\ overlaps = 0
  <2>1. overlaps + 1 # 0
    BY DEF PipelineTypes
  <2>. QED
    BY <1>1, <2>1
<1>3. /\ Turns /\ Settled /\ Together /\ Asleep = {pause.timer} \ {0} /\ Promise
      /\ \A q \in Party : todo[q] \in {<<>>, Sleep}
      /\ \A g \in Gen : coord[g] = "run" \/ Live(g) => g \in pipe.workers
  BY <1>2 DEF Turns, Belongs, AtRest, Busy
<1>4. todo'[p] = t /\ \A q \in Party \ {p} : todo'[q] = todo[q]
  BY <1>1, Puts
<1>5. t # Sleep
  <2>1. Sleep[Len(Sleep)] = "sleep"
    BY DEF Sleep
  <2>. QED
    BY <2>1
<1>6. Asleep' = Asleep \ {p}
  <2>1. \A q \in Party : todo'[q] = Sleep <=> todo[q] = Sleep /\ q # p
    BY <1>4, <1>5
  <2>. QED
    BY <2>1 DEF Asleep
<1>. QED
  BY <1>1, <1>2, <1>3, <1>4, <1>5, <1>6 DEF Doing, Aim

LEMMA StartBegins ==
  ASSUME PipelineTypes, PipelineTypes', overlaps = 0 => Turns, overlaps' = 0, NEW p \in Party,
         CallStart(p)
  PROVE  Turns'
<1>1. /\ p \in Client /\ p \notin Timer /\ todo[p] = <<>> /\ Begin(p, StartSteps)
      /\ UNCHANGED <<mine, pauses, over>>
  BY PipelineAssumption DEF CallStart, Free, Timer
<1>2. /\ Orderly(StartSteps) /\ StartSteps # <<>> /\ Head(StartSteps) = "admit"
      /\ StartSteps[Len(StartSteps)] = "push"
  <2>1. StartSteps \o <<>> = StartSteps
    BY DEF StartSteps
  <2>. QED
    BY <2>1, OrderlyStart
<1>3. /\ Turns /\ Settled /\ Together /\ Asleep = {pause.timer} \ {0} /\ Promise
      /\ UNCHANGED <<was, aborted, pipe, pause, coord, runner, shut, kept, starts, failed>>
      /\ \A q \in Party \ {p} : todo'[q] \in {<<>>, Sleep}
      /\ todo'[p] \notin {<<>>, Sleep} /\ Doing(p)' = "admit" /\ Aim(p)' = "push"
      /\ Asleep' = Asleep \ {p}
      /\ \A g \in Gen : coord[g] = "run" \/ Live(g) => g \in pipe.workers
  BY <1>1, <1>2, Begins
<1>4. Numbers'
  BY <1>1, <1>3 DEF Turns, Numbers
<1>5. Belongs'
  BY <1>1, <1>3 DEF Turns, Belongs, Live
<1>6. Settled' /\ Together' /\ Asleep' = {pause'.timer} \ {0, p} /\ Promise'
  BY <1>1, <1>3 DEF Settled, Complete, Live, Together, Promise, Promised
<1>7. Stage(p)'
  BY <1>1, <1>3, <1>6 DEF Stage, StartStage, StopStage, PauseStage, ResumeStage, BootStage, Starting, Stopping, Pausing, Resuming, Together, Promise, Promised
<1>. QED
  BY <1>1, <1>3, <1>4, <1>5, <1>7, Turned DEF Turns

LEMMA StopBegins ==
  ASSUME PipelineTypes, PipelineTypes', overlaps = 0 => Turns, overlaps' = 0, NEW p \in Party,
         CallStop(p)
  PROVE  Turns'
<1>1. /\ p \in Client /\ p \notin Timer /\ todo[p] = <<>> /\ Begin(p, StopSteps)
      /\ UNCHANGED <<mine, pauses, over>>
  BY PipelineAssumption DEF CallStop, Free, Timer
<1>2. /\ Orderly(StopSteps) /\ StopSteps # <<>> /\ Head(StopSteps) = "halt"
      /\ StopSteps[Len(StopSteps)] = "end"
  <2>1. StopSteps \o <<>> = StopSteps
    BY DEF StopSteps
  <2>. QED
    BY <2>1, OrderlyStop, OrderlyEmpty
<1>3. /\ Turns /\ Settled /\ Together /\ Asleep = {pause.timer} \ {0} /\ Promise
      /\ UNCHANGED <<was, aborted, pipe, pause, coord, runner, shut, kept, starts, failed>>
      /\ \A q \in Party \ {p} : todo'[q] \in {<<>>, Sleep}
      /\ todo'[p] \notin {<<>>, Sleep} /\ Doing(p)' = "halt" /\ Aim(p)' = "end"
      /\ Asleep' = Asleep \ {p}
      /\ \A g \in Gen : coord[g] = "run" \/ Live(g) => g \in pipe.workers
  BY <1>1, <1>2, Begins
<1>4. Numbers'
  BY <1>1, <1>3 DEF Turns, Numbers
<1>5. Belongs'
  BY <1>1, <1>3 DEF Turns, Belongs, Live
<1>6. Settled' /\ Together' /\ Asleep' = {pause'.timer} \ {0, p} /\ Promise'
  BY <1>1, <1>3 DEF Settled, Complete, Live, Together, Promise, Promised
<1>7. Stage(p)'
  BY <1>1, <1>3, <1>6 DEF Stage, StartStage, StopStage, PauseStage, ResumeStage, BootStage, Starting, Stopping, Pausing, Resuming, Together, Promise, Promised
<1>. QED
  BY <1>1, <1>3, <1>4, <1>5, <1>7, Turned DEF Turns

LEMMA PauseBegins ==
  ASSUME PipelineTypes, PipelineTypes', overlaps = 0 => Turns, overlaps' = 0, NEW p \in Party,
         CallPause(p)
  PROVE  Turns'
<1>. DEFINE t == <<"ask", "save">>
<1>1. /\ p \in Client /\ p \notin Timer /\ todo[p] = <<>> /\ Begin(p, t)
      /\ mine' = [mine EXCEPT ![p] = pauses + 1] /\ pauses' = pauses + 1 /\ over' = over
  BY PipelineAssumption DEF CallPause, Free, Timer
<1>2. Orderly(t) /\ t # <<>> /\ Head(t) = "ask" /\ t[Len(t)] = "save"
  BY OrderlyTwo
<1>. HIDE DEF t
<1>3. /\ Turns /\ Settled /\ Together /\ Asleep = {pause.timer} \ {0} /\ Promise
      /\ UNCHANGED <<was, aborted, pipe, pause, coord, runner, shut, kept, starts, failed>>
      /\ \A q \in Party \ {p} : todo'[q] \in {<<>>, Sleep}
      /\ todo'[p] \notin {<<>>, Sleep} /\ Doing(p)' = "ask" /\ Aim(p)' = "save"
      /\ Asleep' = Asleep \ {p}
      /\ \A g \in Gen : coord[g] = "run" \/ Live(g) => g \in pipe.workers
  BY <1>1, <1>2, Begins
<1>4. /\ mine'[p] = pauses + 1 /\ pauses + 1 \in 1..pauses' /\ pauses + 1 \notin over
      /\ 1..pauses \subseteq 1..pauses' /\ pause.timer <= pauses' /\ kept <= pauses'
  <2>1. mine'[p] = pauses + 1
    BY <1>1 DEF PipelineTypes
  <2>2. pauses \in Nat /\ over \subseteq 1..pauses
    BY <1>3, Bounds DEF Turns, Numbers
  <2>3. (pause.timer = 0 \/ pause.timer \in 1..pauses) /\ (kept = 0 \/ kept \in 1..pauses)
    BY <1>3, Bounds
  <2>. QED
    BY <1>1, <2>1, <2>2, <2>3
<1>5. Numbers'
  BY <1>1, <1>3, <1>4 DEF Turns, Numbers
<1>6. Belongs'
  BY <1>1, <1>3 DEF Turns, Belongs, Live
<1>7. Settled' /\ Together' /\ Asleep' = {pause'.timer} \ {0, p} /\ Promise'
  BY <1>1, <1>3 DEF Settled, Complete, Live, Together, Promise, Promised
<1>8. Stage(p)'
  BY <1>1, <1>3, <1>4, <1>7 DEF Stage, StartStage, StopStage, PauseStage, ResumeStage, BootStage, Starting, Stopping, Pausing, Resuming, Together, Promise, Promised
<1>. QED
  BY <1>1, <1>3, <1>5, <1>6, <1>8, Turned DEF Turns

LEMMA ResumeBegins ==
  ASSUME PipelineTypes, PipelineTypes', overlaps = 0 => Turns, overlaps' = 0, NEW p \in Party,
         CallResume(p)
  PROVE  Turns'
<1>. DEFINE t == Append(ResumeSteps, "forget")
<1>1. /\ p \in Client /\ p \notin Timer /\ todo[p] = <<>> /\ Begin(p, t)
      /\ UNCHANGED <<mine, pauses, over>>
  BY PipelineAssumption DEF CallResume, Free, Timer
<1>2. Orderly(t) /\ t # <<>> /\ Head(t) = "take" /\ t[Len(t)] = "forget"
  BY OrderlyResume
<1>. HIDE DEF t
<1>3. /\ Turns /\ Settled /\ Together /\ Asleep = {pause.timer} \ {0} /\ Promise
      /\ UNCHANGED <<was, aborted, pipe, pause, coord, runner, shut, kept, starts, failed>>
      /\ \A q \in Party \ {p} : todo'[q] \in {<<>>, Sleep}
      /\ todo'[p] \notin {<<>>, Sleep} /\ Doing(p)' = "take" /\ Aim(p)' = "forget"
      /\ Asleep' = Asleep \ {p}
      /\ \A g \in Gen : coord[g] = "run" \/ Live(g) => g \in pipe.workers
  BY <1>1, <1>2, Begins
<1>4. Numbers'
  BY <1>1, <1>3 DEF Turns, Numbers
<1>5. Belongs'
  BY <1>1, <1>3 DEF Turns, Belongs, Live
<1>6. Settled' /\ Together' /\ Asleep' = {pause'.timer} \ {0, p} /\ Promise'
  BY <1>1, <1>3 DEF Settled, Complete, Live, Together, Promise, Promised
<1>7. Stage(p)'
  BY <1>1, <1>3, <1>6 DEF Stage, StartStage, StopStage, PauseStage, ResumeStage, BootStage, Starting, Stopping, Pausing, Resuming, Together, Promise, Promised
<1>. QED
  BY <1>1, <1>3, <1>4, <1>5, <1>7, Turned DEF Turns

(* The timer of an expiry is that of the pause, and what the configuration  *)
(* still promises is that pause: the expiry breaks no promise.              *)
LEMMA ExpiryBegins ==
  ASSUME PipelineTypes, PipelineTypes', overlaps = 0 => Turns, overlaps' = 0, NEW p \in Party,
         Expire(p)
  PROVE  Turns'
<1>. DEFINE t == ResumeSteps
<1>1. /\ todo[p] = Sleep /\ Begin(p, t) /\ over' = over \cup {p}
      /\ UNCHANGED <<mine, pauses>>
  BY DEF Expire
<1>2. Orderly(t) /\ t # <<>> /\ Head(t) = "take" /\ t[Len(t)] = "restart"
  BY OrderlyResume
<1>. HIDE DEF t
<1>3. /\ Turns /\ Settled /\ Together /\ Asleep = {pause.timer} \ {0} /\ Promise
      /\ UNCHANGED <<was, aborted, pipe, pause, coord, runner, shut, kept, starts, failed>>
      /\ \A q \in Party \ {p} : todo'[q] \in {<<>>, Sleep}
      /\ todo'[p] \notin {<<>>, Sleep} /\ Doing(p)' = "take" /\ Aim(p)' = "restart"
      /\ Asleep' = Asleep \ {p}
      /\ \A g \in Gen : coord[g] = "run" \/ Live(g) => g \in pipe.workers
  BY <1>1, <1>2, Begins
<1>4. p \in Timer /\ p \notin Client /\ pause.timer = p /\ p \in 1..pauses
  <2>1. pause.timer = p /\ p # 0
    BY <1>1, <1>3 DEF Asleep
  <2>2. p \in 1..pauses /\ p \in Timer
    BY <1>3, <2>1, Bounds
  <2>. QED
    BY <2>1, <2>2, PipelineAssumption DEF Timer
<1>5. Numbers'
  BY <1>1, <1>3, <1>4 DEF Turns, Numbers
<1>6. Belongs'
  BY <1>1, <1>3 DEF Turns, Belongs, Live
<1>7. Settled' /\ Together' /\ Asleep' = {}
  BY <1>1, <1>3, <1>4 DEF Settled, Complete, Live, Together
<1>8. ~failed => Promised' = 0
  BY <1>1, <1>3, <1>4 DEF Promise, Promised
<1>9. Stage(p)'
  BY <1>1, <1>3, <1>4, <1>7, <1>8 DEF Stage, StartStage, StopStage, PauseStage, ResumeStage, BootStage, Starting, Stopping, Pausing, Resuming
<1>. QED
  BY <1>1, <1>3, <1>5, <1>6, <1>9, Turned DEF Turns

(* A boot begins with nothing of capture, and with what the configuration   *)
(* holds.                                                                   *)
LEMMA CrashKeeps ==
  ASSUME PipelineTypes, PipelineTypes', Turns, Crash
  PROVE  Turns'
<1>1. PICK p \in Client : todo' = [q \in Party |-> IF q = p THEN BootSteps ELSE <<>>]
  BY DEF Crash
<1>2. /\ mine' = [q \in Party |-> 0] /\ aborted' = {} /\ shut' = {}
      /\ pipe' = [running |-> FALSE, session |-> 0, bus |-> 0, sink |-> 0, observer |-> 0,
                  workers |-> {}, open |-> {}]
      /\ pause' = [active |-> FALSE, state |-> <<>>, timer |-> 0]
      /\ coord' = [g \in Gen |-> "none"] /\ runner' = [g \in Gen |-> "none"]
      /\ over' \in {over, over \cup ({kept} \ {0})}
      /\ UNCHANGED <<kept, starts, pauses, failed>>
  BY DEF Crash
<1>3. p \in Party /\ p \notin Timer
  BY PipelineAssumption DEF Party, Timer
<1>4. /\ todo'[p] = BootSteps /\ \A q \in Party \ {p} : todo'[q] = <<>>
  BY <1>1, <1>3
<1>5. /\ todo'[p] \notin {<<>>, Sleep} /\ Doing(p)' = "restore" /\ Aim(p)' = "launch"
  <2>1. Orderly(BootSteps) /\ BootSteps # <<>> /\ Head(BootSteps) = "restore" /\ BootSteps[Len(BootSteps)] = "launch"
    BY OrderlyTwo DEF BootSteps
  <2>2. BootSteps # Sleep
    BY DEF BootSteps, Sleep
  <2>. QED
    BY <1>4, <2>1, <2>2 DEF Doing, Aim
<1>6. Asleep' = {}
  <2>1. <<>> # Sleep
    BY DEF Sleep
  <2>. QED
    BY <1>4, <1>5, <2>1 DEF Asleep
<1>7. Numbers'
  BY <1>2, Bounds DEF Turns, Numbers
<1>8. Belongs'
  BY <1>2 DEF Belongs, Live
<1>9. Settled' /\ Together'
  BY <1>2 DEF Settled, Together
<1>10. Stage(p)'
  BY <1>2, <1>3, <1>5, <1>6, <1>9 DEF Stage, StartStage, StopStage, PauseStage, ResumeStage, BootStage, Starting, Stopping, Pausing, Resuming
<1>. QED
  BY <1>2, <1>3, <1>4, <1>5, <1>7, <1>8, <1>10, Turned

-----------------------------------------------------------------------------
(* The invariant is inductive *)

LEMMA PipelineInit == Init => PipelineInv
<1>. SUFFICES ASSUME Init
              PROVE  PipelineInv
  OBVIOUS
<1>1. /\ todo = [p \in Party |-> <<>>] /\ was = [p \in Party |-> FALSE] /\ mine = [p \in Party |-> 0]
      /\ aborted = {}
      /\ pipe = [running |-> FALSE, session |-> 0, bus |-> 0, sink |-> 0, observer |-> 0,
                 workers |-> {}, open |-> {}]
      /\ pause = [active |-> FALSE, state |-> <<>>, timer |-> 0]
      /\ coord = [g \in Gen |-> "none"] /\ runner = [g \in Gen |-> "none"] /\ shut = {}
      /\ kept = 0 /\ over = {}
      /\ starts = 0 /\ pauses = 0 /\ overlaps = 0 /\ crashes = 0 /\ failed = FALSE
  BY DEF Init
<1>2. PipelineTypes
  <2>1. todo \in [Party -> Seq(StepName)] /\ \A p \in Party : Orderly(todo[p])
    <3>1. Orderly(<<>>) /\ <<>> \in Seq(StepName)
      BY OrderlyEmpty
    <3>. QED
      BY <1>1, <3>1
  <2>2. /\ pipe \in [running : BOOLEAN, session : Nat, bus : Nat, sink : Nat, observer : Nat,
                    workers : SUBSET Nat, open : SUBSET Nat]
        /\ pause \in [active : BOOLEAN, state : {<<>>, <<TRUE>>, <<FALSE>>}, timer : Nat]
    BY <1>1
  <2>3. starts \in 0..MaxStarts /\ pauses \in 0..MaxPauses
    BY <1>1, PipelineAssumption
  <2>. QED
    BY <1>1, <2>1, <2>2, <2>3 DEF PipelineTypes
<1>3. Busy = {} /\ AtRest /\ Asleep = {}
  <2>1. <<>> # Sleep
    BY DEF Sleep
  <2>. QED
    BY <1>1, <2>1 DEF Busy, AtRest, Asleep
<1>4. Numbers /\ Belongs
  BY <1>1 DEF Numbers, Belongs, Live
<1>5. Settled /\ Together /\ Promise
  BY <1>1 DEF Settled, Together, Promise, Promised
<1>. QED
  BY <1>1, <1>2, <1>3, <1>4, <1>5 DEF PipelineInv, Turns

LEMMA PipelineStep == PipelineInv /\ [Next]_vars => PipelineInv'
<1>. SUFFICES ASSUME PipelineTypes, overlaps = 0 => Turns, [Next]_vars
              PROVE  PipelineTypes' /\ (overlaps' = 0 => Turns')
  BY DEF PipelineInv
<1>1. PipelineTypes'
  BY TypesStep
<1>. SUFFICES ASSUME overlaps' = 0
              PROVE  Turns'
  BY <1>1
<1>2. ASSUME NEW p \in Party, CallStart(p) \/ CallStop(p) \/ CallPause(p) \/ CallResume(p) \/ Expire(p)
      PROVE  Turns'
  BY <1>1, <1>2, StartBegins, StopBegins, PauseBegins, ResumeBegins, ExpiryBegins
<1>3. ASSUME UNCHANGED overlaps
      PROVE  Turns
  BY <1>3
<1>4. ASSUME NEW p \in Party, Start(p)
      PROVE  Turns'
  <2>1. Turns
    BY <1>3, <1>4 DEF Start, Admit, Claim, Create, CreateFails, OpenBus, Subscribe, Observe, Spawn, PushWorkers, OnPipe, tally
  <2>. QED
    BY <1>1, <1>4, <2>1, AdmitKeeps, ClaimKeeps, CreateKeeps, CreateFailsKeeps, OpenBusKeeps, SubscribeKeeps, ObserveKeeps, SpawnKeeps, PushKeeps DEF Start
<1>5. ASSUME NEW p \in Party, Stop(p)
      PROVE  Turns'
  <2>1. Turns
    BY <1>3, <1>5 DEF Stop, Halt, Detach, Blind, CloseBus, Drain, EndSession, EndFails, OnPipe, tally
  <2>. QED
    BY <1>1, <1>5, <2>1, HaltKeeps, DetachKeeps, BlindKeeps, CloseKeeps, DrainKeeps, EndKeeps, EndFailsKeeps DEF Stop
<1>6. ASSUME NEW p \in Party, Pause(p)
      PROVE  Turns'
  <2>1. Turns
    BY <1>3, <1>6 DEF Pause, Ask, Disarm, Note, Freeze, Arm, Keep, AbortTimer, OnPause, tally
  <2>. QED
    BY <1>1, <1>6, <2>1, AskKeeps, DisarmKeeps, NoteKeeps, FreezeKeeps, ArmKeeps, KeepKeeps DEF Pause
<1>7. ASSUME NEW p \in Party, Resume(p)
      PROVE  Turns'
  <2>1. Turns
    BY <1>3, <1>7 DEF Resume, Take, Lift, Clear, Restart, AbortTimer, OnPause, tally
  <2>. QED
    BY <1>1, <1>7, <2>1, TakeKeeps, LiftKeeps, ClearKeeps, RestartKeeps DEF Resume
<1>8. ASSUME NEW p \in Party, Boot(p)
      PROVE  Turns'
  <2>1. Turns
    BY <1>3, <1>8 DEF Boot, Save, Forget, SaveFails, Restore, Launch, Keeps, tally
  <2>. QED
    BY <1>1, <1>8, <2>1, SaveKeeps, ForgetKeeps, SaveFailsKeeps, RestoreKeeps, LaunchKeeps DEF Boot
<1>9. ASSUME NEW p \in Party, Die(p)
      PROVE  Turns'
  BY <1>3, <1>9, NobodyDies DEF Die, tally
<1>10. ASSUME NEW g \in Gen, Crew(g)
       PROVE  Turns'
  <2>1. Turns
    BY <1>3, <1>10 DEF Crew, tally
  <2>. QED
    BY <1>1, <1>10, <2>1, CrewKeeps
<1>11. ASSUME Crash
       PROVE  Turns'
  <2>1. Turns
    BY <1>3, <1>11 DEF Crash
  <2>. QED
    BY <1>1, <1>11, <2>1, CrashKeeps
<1>12. CASE UNCHANGED vars
  <2>1. /\ UNCHANGED <<todo, was, mine, aborted, pipe, pause, coord, runner, shut>>
        /\ UNCHANGED <<kept, over, starts, pauses, failed, overlaps>> /\ Turns
    BY <1>3, <1>12 DEF vars, crew, tally, file
  <2>2. Numbers' /\ Belongs'
    BY <2>1 DEF Turns, Numbers, Belongs, Live, Busy, Doing
  <2>3. (Settled <=> Settled') /\ (Together <=> Together') /\ (Promise <=> Promise')
    BY <2>1 DEF Settled, Complete, Live, Together, Promise, Promised
  <2>4. Asleep' = Asleep /\ Busy' = Busy /\ (AtRest' <=> AtRest)
    BY <2>1 DEF Asleep, Busy, AtRest
  <2>5. ASSUME NEW p \in Busy
        PROVE  Stage(p)'
    <3>1. Stage(p) /\ Doing(p)' = Doing(p) /\ Aim(p)' = Aim(p)
      BY <2>1 DEF Turns, Doing, Aim
    <3>2. StartStage(p)' /\ StopStage(p)'
      BY <2>1, <2>3, <3>1 DEF Stage, StartStage, StopStage, Live
    <3>3. PauseStage(p)'
      BY <2>1, <2>3, <2>4, <3>1 DEF Stage, PauseStage
    <3>4. ResumeStage(p)' /\ BootStage(p)'
      BY <2>1, <2>3, <3>1 DEF Stage, ResumeStage, BootStage, Promised
    <3>. QED
      BY <2>3, <3>1, <3>2, <3>3, <3>4 DEF Stage
  <2>. QED
    BY <2>1, <2>2, <2>3, <2>4, <2>5 DEF Turns
<1>13. CASE Next
  BY <1>2, <1>4, <1>5, <1>6, <1>7, <1>8, <1>9, <1>10, <1>11, <1>13 DEF Next, Carry
<1>. QED
  BY <1>12, <1>13

(* Capture and its pause are as the stage of the command under way says, as *)
(* long as no command or expiry began in the middle of another              *)
(* (capture_pipeline/mod.rs start, stop, pause_until, resume).              *)
THEOREM PipelineKeepsInv == Spec => []PipelineInv
<1>. QED
  BY PipelineInit, PipelineStep, PTL DEF Spec

(* Whichever way the commands and expiries end, and however often: when     *)
(* capture is stopped or paused nothing of it is left, no bus, sink or      *)
(* observer, no task at work and no session to end (stop, pause_until).     *)
THEOREM StopLeavesNothing == Spec => []StoppedIsQuiet
<1>1. PipelineInv => StoppedIsQuiet
  <2>. SUFFICES ASSUME PipelineTypes, Turns, InTurn, pause.active \/ ~pipe.running
                PROVE  /\ {pipe.session, pipe.bus, pipe.sink, pipe.observer} = {0} /\ pipe.workers = {}
                       /\ \A g \in Gen : coord[g] # "run" /\ ~Live(g)
    BY DEF PipelineInv, StoppedIsQuiet, InTurn
  <2>1. Settled /\ Belongs /\ Busy = {} /\ ~pipe.running
    BY DEF Turns, InTurn, AtRest, Belongs
  <2>. QED
    BY <2>1 DEF Settled, Belongs
<1>. QED
  BY <1>1, PipelineKeepsInv, PTL

(* While capture runs, its sources publish on the bus of the session that   *)
(* is open, the tasks of that session alone are at work, and every earlier  *)
(* session has been ended (start, and stop before it).                      *)
THEOREM RunningHoldsOneSession == Spec => []RunningIsCapturing
<1>1. PipelineInv => RunningIsCapturing
  <2>. SUFFICES ASSUME PipelineTypes, Turns, InTurn, pipe.running, ~failed
                PROVE  /\ pipe.session # 0 /\ {pipe.bus, pipe.sink, pipe.observer} = {pipe.session}
                       /\ pipe.workers = {pipe.session} /\ pipe.open = {pipe.session}
                       /\ coord[pipe.session] = "run" /\ {g \in Gen : Live(g)} = {pipe.session}
    BY DEF PipelineInv, RunningIsCapturing, InTurn
  <2>1. Settled /\ Belongs /\ Busy = {}
    BY DEF Turns, InTurn, AtRest
  <2>2. Complete(pipe.session) /\ pipe.session \in Gen
    BY <2>1, Bounds DEF Settled, Complete
  <2>3. pipe.session # 0 /\ {pipe.bus, pipe.sink, pipe.observer} = {pipe.session} /\ pipe.workers = {pipe.session}
    BY <2>2 DEF Complete
  <2>4. pipe.open = {pipe.session}
    BY <2>1, <2>3 DEF Belongs
  <2>5. coord[pipe.session] = "run" /\ {g \in Gen : Live(g)} = {pipe.session}
    BY <2>1, <2>2, <2>3 DEF Belongs, Complete
  <2>. QED
    BY <2>3, <2>4, <2>5
<1>. QED
  BY <1>1, PipelineKeepsInv, PTL

(* A pause has its state and its timer, the only one asleep, and is the one *)
(* that the configuration would bring back (pause_until, resume_internal    *)
(* and commands/capture.rs:88-91).                                          *)
THEOREM PauseStaysWhole == Spec => []PauseIsWhole
<1>1. PipelineInv => PauseIsWhole
  <2>. SUFFICES ASSUME PipelineTypes, Turns, InTurn
                PROVE  /\ pause.active <=> pause.state # <<>>
                       /\ pause.active <=> pause.timer # 0
                       /\ {t \in Timer : todo[t] = Sleep} = {pause.timer} \ {0}
                       /\ ~failed => pause.timer = IF kept \in over THEN 0 ELSE kept
    BY DEF PipelineInv, PauseIsWhole, InTurn
  <2>1. Together /\ Asleep = {pause.timer} \ {0} /\ Promise
    BY DEF Turns, InTurn, AtRest
  <2>2. {t \in Timer : todo[t] = Sleep} = Asleep
    <3>1. Asleep \subseteq Timer
      BY <2>1, Bounds
    <3>. QED
      BY <3>1 DEF Asleep, Party
  <2>. QED
    BY <2>1, <2>2 DEF Together, Promise, Promised
<1>. QED
  BY <1>1, PipelineKeepsInv, PTL
=============================================================================
