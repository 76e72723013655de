------------------------- MODULE CaptureStorage_proofs -------------------------
(* Sessions, screenshots and rows stay in step, for every number of them,   *)
(* every order of captures, quick asks, removals and rounds of retention,   *)
(* and a crash between any two steps.                                       *)
EXTENDS CaptureStorage, WellFoundedInduction, TLAPS

Entry == [started : Nat, status : {"active", "completed", "aborted"}, count : Nat]
Shot  == Nat \X Nat
Row   == [session : Nat, screen : Screen \cup {""}, at : Nat, shot : Shot, until : Nat]
Job   == [session : Nat, screen : Screen \cup {""}, at : Nat, last : Nat, shot : Shot,
          sessions : SUBSET Nat, paths : SUBSET Shot, wipe : BOOLEAN]
Step  == {"idle", "save", "saving", "shutdown", "end", "ending", "look", "bump", "extract",
          "write", "flush", "flushing", "insert", "delete", "unlist", "unlisting", "unlink",
          "list", "rows", "reset", "down"}
List(f) == f \in [DOMAIN f -> Entry]

StorageTypes ==
  /\ List(index) /\ DOMAIN index \subseteq Nat /\ List(saved)
  /\ file \in {"whole", "empty", "mixed"}
  /\ dirs \subseteq Nat /\ files \subseteq Shot /\ rows \subseteq Row
  /\ adrift = [rows |-> adrift.rows, shots |-> adrift.shots, saves |-> adrift.saves,
               overtaken |-> adrift.overtaken]
  /\ adrift.rows \subseteq Row /\ adrift.shots \subseteq Shot
  /\ \A c \in adrift.saves : c = [list |-> c.list, opened |-> c.opened] /\ List(c.list)
  /\ running \in BOOLEAN /\ cap \in Nat /\ crew \in Nat /\ quick \in Nat
  /\ step \in [Process -> Step] /\ job \in [Process -> Job]
  /\ clock \in [now : Nat, sessions : Nat, removals : Nat, crashes : Nat]

(* Creators of sessions, and the session one of them is creating.            *)
Creator      == {"capture", "ask"}
Creating(p)  == step[p] \in {"save", "saving"}
Saving(p, s) == Creating(p) /\ job[p].session = s

(* Sessions that frames may yet be written to. *)
InUse(s) == s # 0 /\ (s \in {cap, crew, quick} \/ \E p \in Writer \cup Creator : job[p].session = s)

(* No session was created, and no frame captured, with a number to come. *)
Numbered ==
  LET n == clock.sessions
  IN  /\ dirs \cup DOMAIN index \cup DOMAIN saved \subseteq 1..n /\ {cap, crew, quick} \subseteq 0..n
      /\ \A c \in adrift.saves : DOMAIN c.list \subseteq 1..n
      /\ \A p \in Process : /\ job[p].session <= n /\ job[p].shot[1] <= n
                            /\ job[p].sessions \subseteq 1..n
                            /\ \A f \in job[p].paths : f[1] <= n
                            /\ job[p].at <= clock.now
      /\ \A f \in files \cup adrift.shots : f[1] <= n
      /\ \A r \in rows \cup adrift.rows : r.session <= n /\ r.shot[1] <= n /\ r.at <= clock.now

(* A shot lies in the directory of its session, and is not taken before     *)
(* there is a need for it.                                                  *)
Shots ==
  /\ \A r \in rows \cup adrift.rows : r.shot # NoShot => r.shot[1] = r.session
  /\ \A p \in Writer :
       /\ job[p].shot # NoShot => job[p].shot[1] = job[p].session
       /\ step[p] \in {"save", "saving", "look", "bump", "extract"} => job[p].shot = NoShot
       /\ step[p] \in {"write", "flush", "flushing"} => job[p].shot # NoShot
       /\ step[p] \in {"look", "bump", "extract", "write", "flush", "flushing"} => job[p].session # 0
  /\ ~Creating("tick")

(* When the app is down, sessions.json cannot be read and nothing goes on.   *)
Off == Down => file # "whole" /\ adrift.saves = {} /\ \A p \in Process : step[p] = "down"

(* A session to which frames may be written has its entry as long as it has  *)
(* its directory; sessions.json has it when it is whole, unless nobody else  *)
(* knows it yet, or a late save has overtaken it.                            *)
Listed ==
  /\ \A s \in dirs : InUse(s) => s \in DOMAIN index
  /\ ~adrift.overtaken /\ file = "whole" =>
       \A s \in DOMAIN index : s \in DOMAIN saved \/ \E p \in Creator : Saving(p, s)
  /\ \A p \in Creator : Creating(p) =>
       LET s == job[p].session
       IN  /\ s # 0 /\ s \notin {cap, crew, quick}
           /\ \A q \in (Writer \cup Creator) \ {p} : job[q].session # s
           /\ \A f \in files \cup adrift.shots : f[1] # s
  /\ \A p \in {"retention", "user"} : At(p, "unlist") => job[p].session \notin dirs
  /\ \A f \in files : f[1] \in dirs
  /\ ~Down /\ ~adrift.overtaken =>
       \A f \in files \cup adrift.shots : f[1] \in dirs => f[1] \in DOMAIN index

(* No two frames have a shot in common, on the way or kept.                  *)
Distinct ==
  /\ \A r, q \in rows : r.shot = q.shot /\ r.shot # NoShot => r.at = q.at
  /\ \A r \in rows, q \in adrift.rows : r.shot = q.shot => r.shot = NoShot
  /\ \A r, q \in adrift.rows : r.shot = q.shot /\ r.shot # NoShot => r = q
  /\ \A p \in Writer : \A r \in rows \cup adrift.rows : job[p].shot = r.shot => r.shot = NoShot
  /\ job["tick"].shot = job["ask"].shot => job["ask"].shot = NoShot
  /\ \A p \in Writer : At(p, "write") => job[p].shot \notin files \cup adrift.shots
  /\ adrift.shots \cap files = {}
  /\ \A f \in job["user"].paths :
       /\ f # NoShot
       /\ \A r \in rows \cup adrift.rows : r.shot # f
       /\ \A p \in Writer : job[p].shot # f

(* A session that frames may yet be written to has counted them all. *)
Counted ==
  \A s \in DOMAIN index : InUse(s) =>
    LET AtMost(f) == f[1] = s => f[2] <= index[s].count
    IN  /\ \A r \in rows \cup adrift.rows : AtMost(r.shot)
        /\ \A p \in Writer : AtMost(job[p].shot)
        /\ \A f \in files \cup adrift.shots \cup job["user"].paths : AtMost(f)

(* A row, in the table or on its way there, has its file.                    *)
OnDisk(r) == r.shot # NoShot /\ r.session \in dirs => r.shot \in files
Backed ==
  /\ \A r \in rows \cup adrift.rows : OnDisk(r)
  /\ \A p \in Writer : step[p] \in {"flush", "flushing", "insert"} => OnDisk(job[p])

(* The sessions of a capture and of quick asks, and those being created, are *)
(* active, so that retention does not have them on its list.                 *)
Ongoing(s) == s # 0 /\ (s \in {cap, crew, quick} \/ \E p \in Creator : Saving(p, s))
Kept ==
  /\ quick # 0 => quick \notin {cap, crew}
  /\ \A s \in DOMAIN index : Ongoing(s) => index[s].status = "active"
  /\ At("capture", "end") => ~Ongoing(job["capture"].session)
  /\ \A s \in job["retention"].sessions : ~Ongoing(s)
  /\ At("retention", "unlist") => ~Ongoing(job["retention"].session)
  /\ clock.removals = 0 =>
       /\ step["user"] \in {"idle", "down"}
       /\ \A s \in 1..clock.sessions : Ongoing(s) => s \in dirs \cap DOMAIN index

StorageInv ==
  StorageTypes /\ Numbered /\ Shots /\ Off /\ Listed /\ Distinct /\ Counted /\ Backed /\ Kept

-----------------------------------------------------------------------------
(* What the steps keep *)

(* A set of natural numbers with a bound has a greatest one. *)
LEMMA Greatest ==
  ASSUME NEW T \in SUBSET Nat, T # {}, NEW n \in Nat, \A t \in T : t <= n
  PROVE  \E x \in T : \A y \in T : y <= x
<1>. DEFINE R == {ss \in Nat \X Nat : ss[1] < ss[2]}
            below == {k \in Nat : n - k \in T}
<1>1. IsWellFoundedOn(R, Nat)
  BY NatLessThanWellFounded DEF OpToRel
<1>2. \A t \in T : n - t \in below
  OBVIOUS
<1>3. \A a, b \in Nat : a < b => <<a, b>> \in R
  OBVIOUS
<1>4. below \subseteq Nat /\ below # {}
  BY <1>2
<1>. HIDE DEF R
<1>5. PICK k \in below : \A l \in below : ~ (<<l, k>> \in R)
  BY <1>1, <1>4, WFMin
<1>6. \A l \in below : k <= l
  <2>. TAKE l \in below
  <2>1. l \in Nat /\ k \in Nat
    BY <1>4
  <2>2. ~(l < k)
    BY <1>3, <1>5, <2>1
  <2>. QED
    BY <2>1, <2>2
<1>7. n - k \in T /\ \A t \in T : k <= n - t
  BY <1>2, <1>6
<1>. QED
  BY <1>4, <1>7

(* A process goes on, with or without a job of its own. *)
LEMMA Goes ==
  ASSUME StorageTypes, NEW p \in Process, NEW s \in Step, Go(p, s)
  PROVE  /\ step' \in [Process -> Step] /\ step'[p] = s
         /\ \A q \in Process \ {p} : step'[q] = step[q]
BY DEF Go, StorageTypes

LEMMA Works ==
  ASSUME StorageTypes, NEW p \in Process, NEW j \in Job, Work(p, j)
  PROVE  /\ job' \in [Process -> Job] /\ job'[p] = j
         /\ \A q \in Process \ {p} : job'[q] = job[q]
BY DEF Work, StorageTypes

LEMMA NoJobTyped ==
  /\ NoJob \in Job /\ NoJob.session = 0 /\ NoJob.shot = NoShot /\ NoJob.at = 0
  /\ NoJob.sessions = {} /\ NoJob.paths = {}
  /\ NoShot \in Shot /\ NoShot[1] = 0 /\ NoShot[2] = 0
BY DEF NoJob, Job, NoShot, Shot

(* A step that leaves sessions.json alone, or opens it, or ends a save of    *)
(* the index as it is.                                                       *)
Rewritten ==
  /\ file' \in {"whole", "empty", "mixed"} /\ saved' \in {saved, index}
  /\ file' = "whole" => saved' = index \/ UNCHANGED <<file, saved>>

LEMMA Rewrites ==
  ASSUME StorageInv, (file' = "empty" /\ saved' = saved) \/ Fill(index)
  PROVE  Rewritten
BY DEF Rewritten, Fill

(* A writer takes a step that neither takes a shot nor keeps one: what it    *)
(* holds it has held before, or it holds nothing.                           *)
LEMMA WriterTurns ==
  ASSUME StorageInv, NEW p \in Writer, ~Creating(p), ~At(p, "down"), NEW j \in Job,
         NEW s \in {"idle", "look", "bump", "extract", "flush", "insert"},
         Go(p, s), Work(p, j),
         UNCHANGED <<store, rows, pipe, adrift>>,
         clock' \in [now : Nat, sessions : Nat, removals : Nat, crashes : Nat],
         clock'.sessions = clock.sessions, clock'.removals = clock.removals,
         clock.now <= clock'.now, j.at <= clock'.now,
         j.session \in {0, cap, crew, quick, job[p].session},
         j.sessions \subseteq job[p].sessions, j.paths \subseteq job[p].paths,
         j.shot # NoShot => j.shot = job[p].shot /\ j.session = job[p].session,
         s \in {"look", "bump", "extract"} => j.shot = NoShot,
         s = "flush" => j.shot # NoShot,
         s \in {"look", "bump", "extract", "flush"} => j.session # 0,
         s \in {"flush", "insert"} => OnDisk(j)
  PROVE  StorageInv'
<1>1. /\ p \in Process /\ s \in Step /\ p \notin {"capture", "retention", "user"}
      /\ Writer \subseteq Process /\ Creator \subseteq Process
  BY DEF Process, Step, Writer, Creator
<1>2. /\ job' \in [Process -> Job] /\ job'[p] = j
      /\ \A q \in Process \ {p} : job'[q] = job[q]
  BY <1>1, Works DEF StorageInv
<1>3. /\ step' \in [Process -> Step] /\ step'[p] = s
      /\ \A q \in Process \ {p} : step'[q] = step[q]
  BY <1>1, Goes DEF StorageInv
<1>4. UNCHANGED <<index, saved, file, dirs, files, rows, adrift, running, cap, crew, quick>>
  BY DEF store, pipe
<1>5. \A x : InUse(x)' => InUse(x)
  BY <1>1, <1>2, <1>4 DEF InUse
<1>6. \A x, q : q \in Creator => (Saving(q, x)' <=> Saving(q, x))
  BY <1>1, <1>2, <1>3 DEF Saving, Creating
<1>7. StorageTypes'
  BY <1>2, <1>3, <1>4 DEF StorageInv, StorageTypes
<1>8. Numbered'
  <2>1. j.session <= clock.sessions /\ j.shot[1] <= clock.sessions
    BY <1>1, NoJobTyped DEF StorageInv, Numbered, StorageTypes, InUse, Process, Writer, Creator
  <2>2. \A n \in Nat : n <= clock.now => n <= clock'.now
    BY DEF StorageInv, StorageTypes
  <2>3. /\ \A r \in rows \cup adrift.rows : r.at <= clock'.now
        /\ \A q \in Process : job'[q].at <= clock'.now
    BY <1>2, <2>2 DEF StorageInv, StorageTypes, Numbered, Row, Job
  <2>. QED
    BY <1>2, <1>4, <2>1, <2>3 DEF StorageInv, Numbered
<1>9. Shots'
  BY <1>1, <1>2, <1>3, <1>4 DEF StorageInv, Shots, Writer, Creating
<1>10. Listed'
  <2>1. \A q \in Creator : Creating(q)' => Creating(q) /\ q # p
    BY <1>1, <1>3 DEF Creating
  <2>2. ASSUME NEW q \in Creator, Creating(q)'
        PROVE  /\ job'[q].session # 0 /\ job'[q].session \notin {cap, crew, quick}
               /\ \A r \in (Writer \cup Creator) \ {q} : job'[r].session # job'[q].session
               /\ \A f \in files \cup adrift.shots : f[1] # job'[q].session
    <3>1. Creating(q) /\ q # p /\ job'[q] = job[q]
      BY <1>1, <1>2, <2>1, <2>2
    <3>2. j.session # job[q].session
      BY <1>1, <3>1 DEF StorageInv, Listed
    <3>. QED
      BY <1>1, <1>2, <3>1, <3>2 DEF StorageInv, Listed
  <2>3. \A q \in {"retention", "user"} : At(q, "unlist")' => job'[q].session \notin dirs
    BY <1>1, <1>2, <1>3 DEF StorageInv, Listed, At, Process
  <2>4. ~adrift.overtaken /\ file = "whole" =>
          \A x \in DOMAIN index : x \in DOMAIN saved \/ \E q \in Creator : Saving(q, x)'
    BY <1>6 DEF StorageInv, Listed
  <2>5. ~Down' => ~Down
    BY <1>1, <1>3 DEF Down, At, Process
  <2>. QED
    BY <1>4, <1>5, <2>2, <2>3, <2>4, <2>5 DEF StorageInv, Listed
<1>11. Distinct'
  <2>1. \A q \in Writer : job'[q].shot # NoShot => job'[q].shot = job[q].shot
    BY <1>1, <1>2
  <2>2. \A q \in Writer : At(q, "write")' => At(q, "write") /\ job'[q] = job[q]
    BY <1>1, <1>2, <1>3 DEF At
  <2>3. job'["user"] = job["user"] /\ "tick" \in Writer /\ "ask" \in Writer
    BY <1>1, <1>2 DEF Process, Writer
  <2>. QED
    BY <1>4, <2>1, <2>2, <2>3 DEF StorageInv, Distinct
<1>12. Counted'
  <2>1. \A q \in Writer : job'[q].shot = NoShot \/ job'[q].shot = job[q].shot
    BY <1>1, <1>2
  <2>2. job'["user"] = job["user"]
    BY <1>1, <1>2 DEF Process
  <2>3. \A x \in DOMAIN index : index[x].count \in Nat
    BY DEF StorageInv, StorageTypes, List, Entry
  <2>. QED
    BY <1>4, <1>5, <2>1, <2>2, <2>3, NoJobTyped DEF StorageInv, Counted
<1>13. Backed'
  BY <1>1, <1>2, <1>3, <1>4 DEF StorageInv, Backed, OnDisk
<1>14. Kept'
  <2>1. \A x : Ongoing(x)' => Ongoing(x)
    BY <1>4, <1>6 DEF Ongoing
  <2>2. /\ job'["retention"] = job["retention"] /\ step'["retention"] = step["retention"]
        /\ job'["capture"] = job["capture"] /\ step'["capture"] = step["capture"]
        /\ step'["user"] = step["user"]
    BY <1>1, <1>2, <1>3 DEF Process
  <2>. QED
    BY <1>4, <2>1, <2>2 DEF StorageInv, Kept, At
<1>15. Off'
  BY <1>1, <1>3 DEF StorageInv, Off, Down, At, Process
<1>. QED
  BY <1>7, <1>8, <1>9, <1>10, <1>11, <1>12, <1>13, <1>14, <1>15 DEF StorageInv

LEMMA InUseSession ==
  ASSUME NEW p \in Writer \cup Creator, job[p].session # 0
  PROVE  InUse(job[p].session)
BY DEF InUse

(* The same, for a step that takes no new number. *)
LEMMA WriterGoesOn ==
  ASSUME StorageInv, NEW p \in Writer, ~Creating(p), ~At(p, "down"), NEW j \in Job,
         NEW s \in {"idle", "look", "bump", "extract", "flush", "insert"},
         Go(p, s), Work(p, j),
         UNCHANGED <<store, rows, pipe, adrift, clock>>,
         j.session \in {0, cap, crew, quick, job[p].session}, j.at \in {0, job[p].at},
         j.sessions \subseteq job[p].sessions, j.paths \subseteq job[p].paths,
         j.shot # NoShot => j.shot = job[p].shot /\ j.session = job[p].session,
         s \in {"look", "bump", "extract"} => j.shot = NoShot,
         s = "flush" => j.shot # NoShot,
         s \in {"look", "bump", "extract", "flush"} => j.session # 0,
         s \in {"flush", "insert"} => OnDisk(j)
  PROVE  StorageInv'
<1>1. clock \in [now : Nat, sessions : Nat, removals : Nat, crashes : Nat] /\ clock' = clock
  BY DEF StorageInv, StorageTypes
<1>2. p \in Process /\ job[p].at <= clock.now
  BY DEF StorageInv, Numbered, Process, Writer
<1>3. clock.now <= clock'.now /\ j.at <= clock'.now
  BY <1>1, <1>2
<1>4. UNCHANGED <<store, rows, pipe, adrift>>
  OBVIOUS
<1>. QED
  BY <1>1, <1>3, <1>4, WriterTurns

LEMMA WriterKeeps ==
  ASSUME StorageInv, NEW p \in Writer,
         Read(p) \/ WriteFails(p) \/ InsertFails(p)
  PROVE  StorageInv'
<1>1. p \in Process /\ job[p] \in Job /\ NoJob \in Job
  BY NoJobTyped DEF StorageInv, StorageTypes, Process, Writer
<1>2. CASE Rest(p)
  <2>1. ~Creating(p) /\ ~At(p, "down") /\ UNCHANGED <<store, rows, pipe, adrift, clock>>
    BY DEF Read, WriteFails, InsertFails, At, Creating
  <2>. QED
    BY <1>1, <1>2, <2>1, WriterGoesOn, NoJobTyped DEF Rest
<1>3. CASE Read(p) /\ ~Rest(p)
  <2>1. /\ At(p, "extract") /\ Go(p, "insert") /\ UNCHANGED <<job, store, rows, pipe, adrift, clock>>
    BY <1>3 DEF Read
  <2>2. Work(p, job[p])
    BY <1>1, <2>1 DEF Work, StorageInv, StorageTypes
  <2>3. job[p].shot = NoShot
    BY <2>1 DEF StorageInv, Shots, At
  <2>. QED
    BY <1>1, <2>1, <2>2, <2>3, WriterGoesOn DEF At, Creating, OnDisk
<1>. QED
  BY <1>2, <1>3 DEF WriteFails, InsertFails

LEMMA TickKeeps ==
  ASSUME StorageInv, NEW front \in Screen, Tick(front)
  PROVE  StorageInv'
<1>. DEFINE j == [NoJob EXCEPT !.session = crew, !.screen = front, !.at = clock.now + 1]
            s == IF front \in Excluded THEN "insert" ELSE "look"
<1>1. "tick" \in Writer /\ crew \in Nat /\ crew # 0 /\ clock.now + 1 \in Nat /\ clock.now \in Nat
  BY DEF Tick, StorageInv, StorageTypes, Writer
<1>2. /\ j \in Job /\ j.session = crew /\ j.shot = NoShot /\ j.sessions = {} /\ j.paths = {}
  BY <1>1, NoJobTyped DEF Job
<1>3. Work("tick", j) /\ Go("tick", s) /\ At("tick", "idle") /\ UNCHANGED <<store, rows, pipe, adrift>>
  BY DEF Tick
<1>4. /\ clock' \in [now : Nat, sessions : Nat, removals : Nat, crashes : Nat]
      /\ clock'.sessions = clock.sessions /\ clock'.removals = clock.removals
  BY <1>1 DEF Tick, StorageInv, StorageTypes
<1>5. s \in {"insert", "look"}
  OBVIOUS
<1>6. clock'.now = clock.now + 1
  BY <1>1 DEF Tick, StorageInv, StorageTypes
<1>7. j.at = clock.now + 1
  BY <1>1, NoJobTyped DEF Job
<1>. HIDE DEF j, s
<1>8. clock.now <= clock'.now /\ j.at <= clock'.now
  BY <1>1, <1>6, <1>7
<1>. QED
  BY <1>1, <1>2, <1>3, <1>4, <1>5, <1>8, WriterTurns DEF At, Creating, OnDisk

LEMMA LookKeeps ==
  ASSUME StorageInv, Look
  PROVE  StorageInv'
<1>. DEFINE old == job["tick"]
            j   == [old EXCEPT !.last = Newest(InSession(old.session)).at]
<1>1. /\ "tick" \in Writer /\ "tick" \in Process /\ old \in Job /\ old.shot = NoShot
      /\ At("tick", "look") /\ UNCHANGED <<store, rows, pipe, adrift, clock>>
  BY DEF Look, StorageInv, StorageTypes, Shots, Writer, Process, At
<1>. HIDE DEF old
<1>2. CASE InSession(old.session) # {} /\ Work("tick", j) /\ Go("tick", "bump")
  <2>1. Newest(InSession(old.session)) \in InSession(old.session)
    <3>. DEFINE S == InSession(old.session)
                ats == {r.at : r \in S}
    <3>1. /\ S # {} /\ clock.now \in Nat
          /\ \A r \in S : r.at \in Nat /\ r.at <= clock.now
      BY <1>2 DEF InSession, StorageInv, StorageTypes, Numbered, Row
    <3>. HIDE DEF S
    <3>2. \E x \in ats : \A y \in ats : y <= x
      <4>1. ats \in SUBSET Nat /\ ats # {} /\ \A t \in ats : t <= clock.now
        BY <3>1
      <4>. QED
        BY <3>1, <4>1, Greatest
    <3>3. \E r \in S : \A q \in S : q.at <= r.at
      BY <3>2
    <3>. QED
      BY <3>3 DEF Newest, S
  <2>2. Newest(InSession(old.session)).at \in Nat
    BY <2>1 DEF InSession, StorageInv, StorageTypes, Row
  <2>3. j \in Job /\ j.session = old.session /\ j.shot = NoShot /\ j.sessions = old.sessions
        /\ j.paths = old.paths /\ j.at = old.at
    BY <1>1, <2>2 DEF Job
  <2>. HIDE DEF j
  <2>4. old.session # 0
    BY <1>1 DEF StorageInv, Shots, At, old
  <2>. QED
    BY <1>1, <1>2, <2>3, <2>4, WriterGoesOn DEF At, Creating, old
<1>3. CASE Go("tick", "extract") /\ UNCHANGED job
  <2>1. Work("tick", old)
    BY <1>1, <1>3 DEF Work, StorageInv, StorageTypes, old
  <2>2. old.session # 0
    BY <1>1 DEF StorageInv, Shots, At, old
  <2>. QED
    BY <1>1, <1>3, <2>1, <2>2, WriterGoesOn DEF At, Creating, old
<1>. QED
  BY <1>2, <1>3 DEF Look, old

(* The processes that write no frames take a step that leaves the store and  *)
(* what is on its way alone.  Rows may go, and the user is to unlink at most *)
(* their files; retention has its eye on sessions that nobody writes to.     *)
LEMMA OthersTurn ==
  ASSUME StorageInv,
         UNCHANGED <<index, dirs, files, adrift, cap, crew>>, Rewritten,
         rows' \subseteq rows, running' \in BOOLEAN, quick' \in {0, quick},
         step' \in [Process -> Step], job' \in [Process -> Job],
         \A w \in Writer : step'[w] = step[w] /\ job'[w] = job[w],
         Creating("capture")' <=> Creating("capture"), job'["capture"] \in {job["capture"], NoJob},
         Creating("capture") \/ step'["capture"] = "end" => job'["capture"] = job["capture"],
         step'["capture"] = "end" => step["capture"] = "end", ~Down', ~Down,
         \A p \in {"retention", "user"} :
           /\ job'[p].at \in {0, job[p].at} /\ job'[p].shot \in {NoShot, job[p].shot}
           /\ job'[p].session \in {0, job[p].session}
           /\ job'[p].sessions \subseteq DOMAIN index \cup job[p].sessions
           /\ step'[p] = "unlist" => step[p] = "unlist" /\ job'[p].session = job[p].session,
         \A s \in job'["retention"].sessions : s \in job["retention"].sessions \/ ~Ongoing(s),
         job'["retention"].paths \subseteq job["retention"].paths,
         \A f \in job'["user"].paths :
           \/ f \in job["user"].paths
           \/ f # NoShot /\ \E r \in rows : r.shot = f /\ \A q \in rows' : q.at # r.at,
         clock' \in [now : Nat, sessions : Nat, removals : Nat, crashes : Nat],
         clock'.now = clock.now, clock'.sessions = clock.sessions,
         clock'.removals = 0 => clock.removals = 0 /\ step'["user"] = step["user"]
  PROVE  StorageInv'
<1>1. /\ Writer \subseteq Process /\ Creator \subseteq Process
      /\ {"capture", "retention", "user"} \subseteq Process
      /\ Process = Writer \cup {"capture", "retention", "user"}
      /\ Creator = {"capture", "ask"} /\ "ask" \in Writer /\ "tick" \in Writer
      /\ Writer = {"tick", "ask"}
  BY DEF Process, Writer, Creator
<1>2. /\ \A p \in Writer : job'[p] = job[p]
      /\ \A p \in Creator : Creating(p) => job'[p] = job[p]
      /\ \A p \in Writer \cup Creator : job'[p].session \in {0, job[p].session}
  BY <1>1, NoJobTyped
<1>3. \A p \in Creator : Creating(p)' <=> Creating(p)
  BY <1>1 DEF Creating
<1>4. \A x : InUse(x)' => InUse(x)
  BY <1>2 DEF InUse
<1>5. /\ \A x : \A p \in Creator : Saving(p, x)' <=> Saving(p, x)
      /\ \A x : Ongoing(x)' => Ongoing(x)
  BY <1>2, <1>3 DEF Saving, Ongoing
<1>6. StorageTypes'
  BY DEF StorageInv, StorageTypes, Rewritten
<1>7. Numbered'
  <2>1. \A p \in Process :
          /\ job'[p].session <= clock.sessions /\ job'[p].shot[1] <= clock.sessions
          /\ job'[p].sessions \subseteq 1..clock.sessions /\ job'[p].at <= clock.now
    <3>. SUFFICES ASSUME NEW p \in Process
                  PROVE  /\ job'[p].session <= clock.sessions
                         /\ job'[p].shot[1] <= clock.sessions
                         /\ job'[p].sessions \subseteq 1..clock.sessions
                         /\ job'[p].at <= clock.now
      OBVIOUS
    <3>1. clock.sessions \in Nat /\ clock.now \in Nat
      BY DEF StorageInv, StorageTypes
    <3>2. CASE p \in {"retention", "user"}
      BY <1>1, <3>1, <3>2, NoJobTyped DEF StorageInv, Numbered
    <3>3. CASE job'[p] \in {job[p], NoJob}
      BY <3>1, <3>3, NoJobTyped DEF StorageInv, Numbered
    <3>. QED
      BY <1>1, <1>2, <3>2, <3>3
  <2>2. \A p \in Process : \A f \in job'[p].paths : f[1] <= clock.sessions
    BY <1>1, <1>2, NoJobTyped DEF StorageInv, Numbered
  <2>3. {cap, crew, quick'} \subseteq 0..clock.sessions
    BY DEF StorageInv, StorageTypes, Numbered
  <2>. QED
    BY <2>1, <2>2, <2>3 DEF StorageInv, Numbered, Rewritten
<1>8. Shots'
  BY <1>1, <1>2 DEF StorageInv, Shots, Creating
<1>9. Listed'
  <2>1. ASSUME NEW q \in Creator, Creating(q)'
        PROVE  /\ job'[q].session # 0 /\ job'[q].session \notin {cap, crew, quick'}
               /\ \A r \in (Writer \cup Creator) \ {q} : job'[r].session # job'[q].session
               /\ \A f \in files \cup adrift.shots : f[1] # job'[q].session
    BY <1>2, <1>3, <2>1 DEF StorageInv, Listed
  <2>2. \A q \in {"retention", "user"} : At(q, "unlist")' => job'[q].session \notin dirs
    BY DEF StorageInv, Listed, At
  <2>3. ~adrift.overtaken /\ file' = "whole" =>
          \A x \in DOMAIN index : x \in DOMAIN saved' \/ \E q \in Creator : Saving(q, x)'
    BY <1>5 DEF StorageInv, Listed, Rewritten
  <2>. QED
    BY <1>4, <2>1, <2>2, <2>3 DEF StorageInv, Listed
<1>10. Distinct'
  <2>1. \A f \in job'["user"].paths :
          /\ f # NoShot
          /\ \A r \in rows' \cup adrift.rows : r.shot # f
          /\ \A p \in Writer : job[p].shot # f
    <3>. SUFFICES ASSUME NEW f \in job'["user"].paths, f \notin job["user"].paths,
                         NEW r \in rows, r.shot = f, f # NoShot, \A q \in rows' : q.at # r.at
                  PROVE  /\ \A q \in rows' \cup adrift.rows : q.shot # f
                         /\ \A p \in Writer : job[p].shot # f
      BY DEF StorageInv, Distinct
    <3>. QED
      BY DEF StorageInv, Distinct
  <2>2. \A p \in Writer : At(p, "write")' => At(p, "write")
    BY DEF At
  <2>. QED
    BY <1>1, <1>2, <2>1, <2>2 DEF StorageInv, Distinct
<1>11. Counted'
  <2>1. \A f \in job'["user"].paths : f \in job["user"].paths \/ \E r \in rows : r.shot = f
    OBVIOUS
  <2>. QED
    BY <1>2, <1>4, <2>1 DEF StorageInv, Counted
<1>12. Backed'
  BY <1>2 DEF StorageInv, Backed, OnDisk
<1>13. Kept'
  <2>1. At("retention", "unlist")' => ~Ongoing(job'["retention"].session)
    BY DEF StorageInv, Kept, At
  <2>2. quick' # 0 => quick' \notin {cap, crew}
    BY DEF StorageInv, Kept
  <2>3. \A s \in job'["retention"].sessions : ~Ongoing(s)'
    BY <1>5 DEF StorageInv, Kept
  <2>. QED
    BY <1>5, <2>1, <2>2, <2>3 DEF StorageInv, Kept, At
<1>14. Off'
  BY DEF Off
<1>. QED
  BY <1>6, <1>7, <1>8, <1>9, <1>10, <1>11, <1>12, <1>13, <1>14 DEF StorageInv

LEMMA Proceeds ==
  ASSUME StorageTypes, NEW p \in Process, NEW j \in Job, Proceed(p, j)
  PROVE  /\ step' \in [Process -> Step] /\ job' \in [Process -> Job]
         /\ \A q \in Process \ {p} : step'[q] = step[q] /\ job'[q] = job[q]
         /\ step'[p] \in {"delete", "rows", "idle"} /\ job'[p] \in {j, NoJob}
BY Goes, Works, NoJobTyped DEF Proceed, Rest, Step

LEMMA StopKeeps ==
  ASSUME StorageInv, Stop
  PROVE  StorageInv'
<1>1. /\ "capture" \in Process /\ Writer \subseteq Process /\ "shutdown" \in Step
      /\ "capture" \notin Writer
  BY DEF Process, Writer, Step
<1>2. /\ step' \in [Process -> Step] /\ step'["capture"] = "shutdown"
      /\ \A q \in Process \ {"capture"} : step'[q] = step[q]
  BY <1>1, Goes DEF Stop, StorageInv
<1>3. /\ UNCHANGED <<index, saved, file, dirs, files, adrift, cap, crew, quick, rows, job, clock>>
      /\ running' \in BOOLEAN /\ step["capture"] = "idle"
  BY DEF Stop, store, At
<1>4. step'["user"] = step["user"] /\ step'["retention"] = step["retention"]
  BY <1>2 DEF Process
<1>5. clock \in [now : Nat, sessions : Nat, removals : Nat, crashes : Nat]
      /\ job \in [Process -> Job]
  BY DEF StorageInv, StorageTypes
<1>6. Rewritten /\ ~Down /\ ~Down' /\ ~Creating("capture") /\ ~Creating("capture")'
  BY <1>2, <1>3 DEF Rewritten, Down, At, Creating, StorageInv, StorageTypes
<1>7. \A f \in job["user"].paths : f \in job["user"].paths
  OBVIOUS
<1>. QED
  BY <1>1, <1>2, <1>3, <1>4, <1>5, <1>6, <1>7, OthersTurn DEF At

LEMMA SweepKeeps ==
  ASSUME StorageInv, Round
  PROVE  StorageInv'
<1>. DEFINE S == {s \in Ended : Aged(s)}
            j == [NoJob EXCEPT !.sessions = S]
<1>1. /\ {"retention", "user", "capture"} \subseteq Process /\ Writer \subseteq Process
      /\ "retention" \notin Writer
  BY DEF Process, Writer
<1>2. /\ S \subseteq DOMAIN index /\ \A s \in S : ~Ongoing(s)
  BY DEF Ended, StorageInv, Kept
<1>3. /\ j \in Job /\ j.sessions = S /\ j.session = 0 /\ j.at = 0 /\ j.shot = NoShot /\ j.paths = {}
  BY <1>2, NoJobTyped DEF StorageInv, StorageTypes, Job
<1>4. /\ Proceed("retention", j)
      /\ UNCHANGED <<index, saved, file, dirs, files, adrift, running, cap, crew, quick, clock>>
      /\ rows' \subseteq rows
  BY DEF Round, Sweep, store, pipe
<1>. HIDE DEF j, S
<1>5. /\ step' \in [Process -> Step] /\ job' \in [Process -> Job]
      /\ \A q \in Process \ {"retention"} : step'[q] = step[q] /\ job'[q] = job[q]
      /\ step'["retention"] \in {"delete", "rows", "idle"} /\ job'["retention"] \in {j, NoJob}
  BY <1>1, <1>3, <1>4, Proceeds DEF StorageInv
<1>6. /\ step'["user"] = step["user"] /\ job'["user"] = job["user"]
      /\ step'["capture"] = step["capture"] /\ job'["capture"] = job["capture"]
      /\ \A w \in Writer : step'[w] = step[w] /\ job'[w] = job[w]
  BY <1>1, <1>5
<1>7. /\ job'["retention"].at = 0 /\ job'["retention"].shot = NoShot
      /\ job'["retention"].session = 0 /\ job'["retention"].sessions \subseteq S
      /\ job'["retention"].paths = {} /\ step'["retention"] # "unlist"
  BY <1>3, <1>5, NoJobTyped
<1>8. clock \in [now : Nat, sessions : Nat, removals : Nat, crashes : Nat] /\ running \in BOOLEAN
  BY DEF StorageInv, StorageTypes
<1>9. /\ Rewritten /\ ~Down /\ ~Down'
      /\ Creating("capture")' <=> Creating("capture")
  BY <1>4, <1>6 DEF Rewritten, Round, Sweep, StorageInv, StorageTypes, Off, Down, At, Creating, Process
<1>. QED
  BY <1>2, <1>4, <1>5, <1>6, <1>7, <1>8, <1>9, OthersTurn DEF Kept, StorageInv, At

(* What the user's processes have in common. *)
LEMMA UserTurn ==
  ASSUME StorageInv,
         UNCHANGED <<index, saved, file, dirs, files, adrift, cap, crew>>,
         rows' \subseteq rows, running' \in BOOLEAN, quick' \in {0, quick},
         step' \in [Process -> Step], NEW j \in Job, job' \in [Process -> Job],
         job'["user"] = j, \A p \in Process \ {"user"} : job'[p] = job[p],
         \A p \in Process \ {"user", "capture"} : step'[p] = step[p],
         step["user"] # "down",
         step'["capture"] # step["capture"] => step["capture"] = "idle" /\ step'["capture"] = "shutdown",
         j.at \in {0, job["user"].at}, j.shot \in {NoShot, job["user"].shot},
         j.session \in {0, job["user"].session},
         j.sessions \subseteq DOMAIN index \cup job["user"].sessions,
         step'["user"] # "unlist",
         \A f \in j.paths :
           \/ f \in job["user"].paths
           \/ f # NoShot /\ \E r \in rows : r.shot = f /\ \A q \in rows' : q.at # r.at,
         clock' \in [now : Nat, sessions : Nat, removals : Nat, crashes : Nat],
         clock'.now = clock.now, clock'.sessions = clock.sessions,
         clock'.removals # 0
  PROVE  StorageInv'
<1>1. {"retention", "user", "capture"} \subseteq Process /\ Writer \subseteq Process \ {"user", "capture"}
  BY DEF Process, Writer
<1>2. /\ \A w \in Writer : step'[w] = step[w] /\ job'[w] = job[w]
      /\ step'["retention"] = step["retention"] /\ job'["retention"] = job["retention"]
      /\ job'["capture"] = job["capture"]
  BY <1>1
<1>3. /\ Rewritten /\ ~Down /\ ~Down'
      /\ Creating("capture")' <=> Creating("capture")
      /\ step'["capture"] = "end" => step["capture"] = "end"
  BY <1>1 DEF Rewritten, StorageInv, StorageTypes, Off, Down, At, Creating
<1>. QED
  BY <1>2, <1>3, OthersTurn

LEMMA UserKeeps ==
  ASSUME StorageInv,
         (\E from \in 1..clock.now : DeleteRange(from)) \/ ClearScreenshots \/ HardDelete
           \/ ListAll \/ Wipe \/ Reset
  PROVE  StorageInv'
<1>1. /\ {"retention", "user", "capture"} \subseteq Process
      /\ {"unlink", "idle", "list", "reset", "shutdown"} \subseteq Step
      /\ job["user"] \in Job /\ running \in BOOLEAN /\ index \in [DOMAIN index -> Entry]
      /\ DOMAIN index \subseteq Nat
      /\ step \in [Process -> Step] /\ job \in [Process -> Job]
      /\ clock \in [now : Nat, sessions : Nat, removals : Nat, crashes : Nat]
      /\ step["user"] \notin {"idle", "down"} => clock.removals # 0
  BY DEF Process, Step, StorageInv, StorageTypes, List, Kept, At
<1>2. ASSUME Called
      PROVE  /\ clock' \in [now : Nat, sessions : Nat, removals : Nat, crashes : Nat]
             /\ clock'.now = clock.now /\ clock'.sessions = clock.sessions
             /\ clock'.removals # 0 /\ step["user"] = "idle"
  BY <1>1, <1>2 DEF Called, At
<1>3. ASSUME NEW from \in 1..clock.now, DeleteRange(from)
      PROVE  StorageInv'
  <2>. DEFINE P == {r.shot : r \in rows \ rows'} \ {NoShot}
              j == [NoJob EXCEPT !.paths = P]
  <2>1. /\ Called /\ Work("user", j) /\ Go("user", "unlink") /\ rows' = {r \in rows : r.at < from}
        /\ UNCHANGED <<index, saved, file, dirs, files, adrift, running, cap, crew, quick>>
    BY <1>3 DEF DeleteRange, store, pipe
  <2>2. P \subseteq Shot
    BY DEF StorageInv, StorageTypes, Row
  <2>3. \A f \in P : f # NoShot /\ \E r \in rows : r.shot = f /\ \A q \in rows' : q.at # r.at
    BY <2>1
  <2>. HIDE DEF P
  <2>4. /\ j \in Job /\ j.paths = P /\ j.session = 0 /\ j.at = 0 /\ j.shot = NoShot /\ j.sessions = {}
    BY <2>2, NoJobTyped DEF Job
  <2>. HIDE DEF j
  <2>5. /\ step' \in [Process -> Step] /\ step'["user"] = "unlink"
        /\ \A q \in Process \ {"user"} : step'[q] = step[q]
    BY <1>1, <2>1, Goes DEF StorageInv
  <2>6. /\ job' \in [Process -> Job] /\ job'["user"] = j
        /\ \A q \in Process \ {"user"} : job'[q] = job[q]
    BY <1>1, <2>1, <2>4, Works DEF StorageInv
  <2>7. /\ clock' \in [now : Nat, sessions : Nat, removals : Nat, crashes : Nat]
        /\ clock'.now = clock.now /\ clock'.sessions = clock.sessions
        /\ clock'.removals # 0 /\ step["user"] = "idle"
    BY <1>2, <2>1
  <2>8. rows' \subseteq rows /\ running' \in BOOLEAN
    BY <1>1, <2>1
  <2>. QED
    BY <1>1, <2>1, <2>3, <2>4, <2>5, <2>6, <2>7, <2>8, UserTurn
<1>4. CASE ClearScreenshots
  <2>1. /\ Called /\ Go("user", "list")
        /\ UNCHANGED <<index, saved, file, dirs, files, adrift, rows, running, cap, crew, quick, job>>
    BY <1>4 DEF ClearScreenshots, store, pipe
  <2>2. /\ step' \in [Process -> Step] /\ step'["user"] = "list"
        /\ \A q \in Process \ {"user"} : step'[q] = step[q]
    BY <1>1, <2>1, Goes DEF StorageInv
  <2>3. /\ clock' \in [now : Nat, sessions : Nat, removals : Nat, crashes : Nat]
        /\ clock'.now = clock.now /\ clock'.sessions = clock.sessions
        /\ clock'.removals # 0 /\ step["user"] = "idle"
    BY <1>2, <2>1
  <2>. QED
    BY <1>1, <2>1, <2>2, <2>3, UserTurn
<1>5. CASE HardDelete
  <2>. DEFINE j == [NoJob EXCEPT !.wipe = TRUE]
  <2>1. /\ Called /\ Work("user", j) /\ step["capture"] = "idle"
        /\ step' = [step EXCEPT !["user"] = "list", !["capture"] = IF running THEN "shutdown" ELSE "idle"]
        /\ running' = FALSE
        /\ UNCHANGED <<index, saved, file, dirs, files, adrift, rows, cap, crew, quick>>
    BY <1>5 DEF HardDelete, store, At
  <2>2. /\ j \in Job /\ j.paths = {} /\ j.session = 0 /\ j.at = 0 /\ j.shot = NoShot /\ j.sessions = {}
    BY NoJobTyped DEF Job
  <2>. HIDE DEF j
  <2>3. /\ step' \in [Process -> Step] /\ step'["user"] = "list"
        /\ step'["capture"] \in {step["capture"], "shutdown"}
        /\ \A q \in Process \ {"user", "capture"} : step'[q] = step[q]
    BY <1>1, <2>1
  <2>4. /\ job' \in [Process -> Job] /\ job'["user"] = j
        /\ \A q \in Process \ {"user"} : job'[q] = job[q]
    BY <1>1, <2>1, <2>2, Works DEF StorageInv
  <2>5. /\ clock' \in [now : Nat, sessions : Nat, removals : Nat, crashes : Nat]
        /\ clock'.now = clock.now /\ clock'.sessions = clock.sessions
        /\ clock'.removals # 0 /\ step["user"] = "idle"
    BY <1>2, <2>1
  <2>. QED
    BY <1>1, <2>1, <2>2, <2>3, <2>4, <2>5, UserTurn
<1>6. CASE ListAll
  <2>. DEFINE j == [job["user"] EXCEPT !.sessions = DOMAIN index]
  <2>1. /\ Proceed("user", j) /\ step["user"] = "list"
        /\ UNCHANGED <<index, saved, file, dirs, files, adrift, rows, running, cap, crew, quick, clock>>
    BY <1>6 DEF ListAll, store, pipe, At
  <2>2. /\ j \in Job /\ j.paths = job["user"].paths /\ j.session = job["user"].session
        /\ j.at = job["user"].at /\ j.shot = job["user"].shot /\ j.sessions = DOMAIN index
    BY <1>1 DEF Job
  <2>. HIDE DEF j
  <2>3. /\ step' \in [Process -> Step] /\ job' \in [Process -> Job]
        /\ \A q \in Process \ {"user"} : step'[q] = step[q] /\ job'[q] = job[q]
        /\ step'["user"] # "unlist" /\ job'["user"] \in {j, NoJob}
    BY <1>1, <2>1, <2>2, Proceeds DEF StorageInv
  <2>4. job'["user"] \in Job
    BY <1>1, <2>3
  <2>5. CASE job'["user"] = j
    BY <1>1, <2>1, <2>2, <2>3, <2>5, UserTurn
  <2>6. CASE job'["user"] = NoJob
    BY <1>1, <2>1, <2>3, <2>6, NoJobTyped, UserTurn
  <2>. QED
    BY <2>3, <2>5, <2>6
<1>7. CASE Wipe
  <2>1. /\ Go("user", "reset") /\ step["user"] = "rows" /\ rows' = {}
        /\ UNCHANGED <<index, saved, file, dirs, files, adrift, running, cap, crew, quick, job, clock>>
    BY <1>7 DEF Wipe, store, pipe, At
  <2>2. /\ step' \in [Process -> Step] /\ step'["user"] = "reset"
        /\ \A q \in Process \ {"user"} : step'[q] = step[q]
    BY <1>1, <2>1, Goes DEF StorageInv
  <2>. QED
    BY <1>1, <2>1, <2>2, UserTurn
<1>8. CASE Reset
  <2>1. /\ Rest("user") /\ step["user"] = "reset" /\ quick' = 0
        /\ UNCHANGED <<index, saved, file, dirs, files, adrift, rows, running, cap, crew, clock>>
    BY <1>8 DEF Reset, store, At
  <2>2. /\ step' \in [Process -> Step] /\ step'["user"] = "idle"
        /\ \A q \in Process \ {"user"} : step'[q] = step[q]
    BY <1>1, <2>1, Goes DEF StorageInv, Rest
  <2>3. /\ job' \in [Process -> Job] /\ job'["user"] = NoJob
        /\ \A q \in Process \ {"user"} : job'[q] = job[q]
    BY <1>1, <2>1, Works, NoJobTyped DEF StorageInv, Rest
  <2>. QED
    BY <1>1, <2>1, <2>2, <2>3, NoJobTyped, UserTurn
<1>. QED
  BY <1>3, <1>4, <1>5, <1>6, <1>7, <1>8

LEMMA UnlistedKeeps ==
  ASSUME StorageInv, NEW p \in {"retention", "user"}, Unlisted(p)
  PROVE  StorageInv'
<1>. DEFINE j == [job[p] EXCEPT !.session = 0]
<1>1. /\ p \in Process /\ {"retention", "user", "capture"} \subseteq Process
      /\ Writer \cup {"capture"} \subseteq Process \ {p}
  BY DEF Process, Writer
<1>2. /\ step[p] = "unlisting" /\ Rewritten /\ Proceed(p, j)
      /\ UNCHANGED <<index, dirs, files, adrift, cap, crew, quick, rows, running, clock>>
  BY Rewrites DEF Unlisted, At, pipe
<1>3. /\ j \in Job /\ j.session = 0 /\ j.sessions = job[p].sessions /\ j.at = job[p].at
      /\ j.shot = job[p].shot /\ j.paths = job[p].paths
  BY <1>1, ZenonT(40) DEF StorageInv, StorageTypes, Job
<1>. HIDE DEF j
<1>4. /\ step' \in [Process -> Step] /\ job' \in [Process -> Job]
      /\ \A q \in Process \ {p} : step'[q] = step[q] /\ job'[q] = job[q]
      /\ step'[p] # "unlist" /\ job'[p] \in {j, NoJob}
  BY <1>1, <1>2, <1>3, Proceeds DEF StorageInv
<1>5. /\ job'[p].session = 0 /\ job'[p].sessions \subseteq job[p].sessions
      /\ job'[p].at \in {0, job[p].at} /\ job'[p].shot \in {NoShot, job[p].shot}
      /\ job'[p].paths \subseteq job[p].paths
  BY <1>3, <1>4, NoJobTyped
<1>6. ~Down /\ ~Down' /\ step'["capture"] = step["capture"] /\ job'["capture"] = job["capture"]
  BY <1>1, <1>2, <1>4 DEF StorageInv, Off, Down, At
<1>7. /\ clock \in [now : Nat, sessions : Nat, removals : Nat, crashes : Nat] /\ running \in BOOLEAN
      /\ clock.removals = 0 => p # "user"
  BY <1>2 DEF StorageInv, StorageTypes, Kept
<1>8. Creating("capture")' <=> Creating("capture")
  BY <1>6 DEF Creating
<1>9. \A q \in {"retention", "user"} :
        /\ job'[q].at \in {0, job[q].at} /\ job'[q].shot \in {NoShot, job[q].shot}
        /\ job'[q].session \in {0, job[q].session} /\ job'[q].sessions \subseteq job[q].sessions
        /\ job'[q].paths \subseteq job[q].paths
        /\ step'[q] = "unlist" => step[q] = "unlist" /\ job'[q].session = job[q].session
  BY <1>1, <1>4, <1>5
<1>10. /\ \A w \in Writer : step'[w] = step[w] /\ job'[w] = job[w]
       /\ clock'.removals = 0 => clock.removals = 0 /\ step'["user"] = step["user"]
  BY <1>1, <1>2, <1>4, <1>7
<1>. QED
  BY <1>2, <1>4, <1>6, <1>7, <1>8, <1>9, <1>10, OthersTurn

LEMMA DeleteDirKeeps ==
  ASSUME StorageInv, NEW p \in {"retention", "user"}, DeleteDir(p)
  PROVE  StorageInv'
<1>1. /\ p \in Process /\ Writer \cup Creator \subseteq Process \ {p} /\ "unlist" \in Step
      /\ {"retention", "user"} \subseteq Process
  BY DEF Process, Step, Writer, Creator
<1>2. PICK s \in job[p].sessions :
        /\ dirs' = dirs \ {s} /\ files' = {f \in files : f[1] # s}
        /\ Work(p, [job[p] EXCEPT !.session = s, !.sessions = job[p].sessions \ {s}])
  BY DEF DeleteDir
<1>3. /\ step[p] = "delete" /\ Go(p, "unlist")
      /\ UNCHANGED <<index, saved, file, rows, running, cap, crew, quick, adrift, clock>>
  BY DEF DeleteDir, At, pipe
<1>. DEFINE j == [job[p] EXCEPT !.session = s, !.sessions = job[p].sessions \ {s}]
<1>4. /\ j \in Job /\ j.session = s /\ j.sessions = job[p].sessions \ {s} /\ j.at = job[p].at
      /\ j.shot = job[p].shot /\ j.paths = job[p].paths /\ s \in Nat
  BY <1>1, ZenonT(40) DEF StorageInv, StorageTypes, Job
<1>5. Work(p, j)
  BY <1>2
<1>. HIDE DEF j
<1>6. /\ step' \in [Process -> Step] /\ step'[p] = "unlist"
      /\ \A q \in Process \ {p} : step'[q] = step[q]
  BY <1>1, <1>3, Goes DEF StorageInv
<1>7. /\ job' \in [Process -> Job] /\ job'[p] = j
      /\ \A q \in Process \ {p} : job'[q] = job[q]
  BY <1>1, <1>4, <1>5, Works DEF StorageInv
<1>8. /\ \A x : InUse(x)' <=> InUse(x)
      /\ \A x : \A q \in Creator : Saving(q, x)' <=> Saving(q, x)
      /\ \A q \in Creator : Creating(q)' <=> Creating(q)
      /\ \A x : Ongoing(x)' <=> Ongoing(x)
      /\ ~Down /\ ~Down' /\ step'["capture"] = step["capture"]
  BY <1>1, <1>3, <1>6, <1>7 DEF InUse, Saving, Ongoing, Creating, StorageInv, Off, Down, At, Process
<1>9. StorageTypes'
  BY <1>2, <1>3, <1>6, <1>7 DEF StorageInv, StorageTypes
<1>10. Numbered'
  <2>1. s \in 1..clock.sessions /\ clock.sessions \in Nat
    BY <1>1, <1>2 DEF StorageInv, StorageTypes, Numbered
  <2>2. \A q \in Process : /\ job'[q].session <= clock.sessions /\ job'[q].shot = job[q].shot
                           /\ job'[q].sessions \subseteq job[q].sessions
                           /\ job'[q].paths = job[q].paths /\ job'[q].at = job[q].at
    BY <1>4, <1>7, <2>1 DEF StorageInv, Numbered
  <2>. QED
    BY <1>2, <1>3, <2>2 DEF StorageInv, Numbered
<1>11. Shots'
  BY <1>1, <1>3, <1>6, <1>7 DEF StorageInv, Shots, Writer, Creating
<1>12. Listed'
  <2>1. ASSUME NEW q \in Creator, Creating(q)'
        PROVE  /\ job'[q].session # 0 /\ job'[q].session \notin {cap, crew, quick}
               /\ \A r \in (Writer \cup Creator) \ {q} : job'[r].session # job'[q].session
               /\ \A f \in files' \cup adrift.shots : f[1] # job'[q].session
    BY <1>1, <1>2, <1>7, <1>8, <2>1 DEF StorageInv, Listed
  <2>2. \A q \in {"retention", "user"} : At(q, "unlist")' => job'[q].session \notin dirs'
    BY <1>1, <1>2, <1>4, <1>6, <1>7 DEF StorageInv, Listed, At
  <2>. QED
    BY <1>2, <1>3, <1>8, <2>1, <2>2 DEF StorageInv, Listed
<1>13. Distinct'
  <2>1. /\ \A q \in Writer : job'[q] = job[q] /\ step'[q] = step[q]
        /\ job'["user"].paths = job["user"].paths /\ files' \subseteq files
        /\ "tick" \in Writer /\ "ask" \in Writer
    BY <1>1, <1>2, <1>4, <1>6, <1>7 DEF Writer
  <2>. QED
    BY <1>3, <2>1 DEF StorageInv, Distinct, At
<1>14. Counted'
  <2>1. /\ \A q \in Writer : job'[q] = job[q]
        /\ job'["user"].paths = job["user"].paths /\ files' \subseteq files
    BY <1>1, <1>2, <1>4, <1>7
  <2>. QED
    BY <1>3, <1>8, <2>1 DEF StorageInv, Counted
<1>15. Backed'
  BY <1>1, <1>2, <1>3, <1>6, <1>7 DEF StorageInv, Backed, OnDisk, Shots
<1>16. Kept'
  <2>1. clock.removals = 0 => p = "retention"
    BY <1>3 DEF StorageInv, Kept, At
  <2>2. p = "retention" => ~Ongoing(s)
    BY <1>2 DEF StorageInv, Kept
  <2>3. /\ \A x \in job'["retention"].sessions : ~Ongoing(x)
        /\ At("retention", "unlist")' => ~Ongoing(job'["retention"].session)
    BY <1>1, <1>4, <1>6, <1>7, <2>2 DEF StorageInv, Kept, At
  <2>4. clock.removals = 0 => step'["user"] \in {"idle", "down"}
    BY <1>1, <1>6, <2>1 DEF StorageInv, Kept, At
  <2>5. At("capture", "end")' => ~Ongoing(job'["capture"].session)
    BY <1>1, <1>7, <1>8 DEF StorageInv, Kept, At, Creator
  <2>. QED
    BY <1>2, <1>3, <1>8, <2>1, <2>2, <2>3, <2>4, <2>5 DEF StorageInv, Kept
<1>17. Off'
  BY <1>8 DEF Off
<1>. QED
  BY <1>9, <1>10, <1>11, <1>12, <1>13, <1>14, <1>15, <1>16, <1>17 DEF StorageInv

LEMMA UnlistKeeps ==
  ASSUME StorageInv, NEW p \in {"retention", "user"}, Unlist(p)
  PROVE  StorageInv'
<1>. DEFINE s == job[p].session
<1>1. /\ p \in Process /\ Writer \cup Creator \subseteq Process \ {p} /\ "unlisting" \in Step
      /\ {"retention", "user", "capture"} \subseteq Process /\ p # "capture"
  BY DEF Process, Writer, Creator, Step
<1>2. /\ step[p] = "unlist" /\ Go(p, "unlisting") /\ file' = "empty"
      /\ UNCHANGED <<saved, dirs, files, rows, running, cap, crew, quick, job, adrift, clock>>
  BY DEF Unlist, At, pipe
<1>3. /\ DOMAIN index' = DOMAIN index \ {s}
      /\ \A x \in DOMAIN index' : index'[x] = index[x]
      /\ index' \in [DOMAIN index' -> Entry]
  BY DEF Unlist, Without, StorageInv, StorageTypes, List
<1>4. s \notin dirs /\ \A f \in files : f[1] # s
  BY <1>2 DEF StorageInv, Listed, At
<1>. HIDE DEF s
<1>5. /\ step' \in [Process -> Step] /\ step'[p] = "unlisting"
      /\ \A q \in Process \ {p} : step'[q] = step[q]
  BY <1>1, <1>2, Goes DEF StorageInv
<1>8. /\ \A x : InUse(x)' <=> InUse(x)
      /\ \A x : \A q \in Creator : Saving(q, x)' <=> Saving(q, x)
      /\ \A q \in Creator : Creating(q)' <=> Creating(q)
      /\ \A x : Ongoing(x)' <=> Ongoing(x)
      /\ ~Down /\ ~Down' /\ step'["capture"] = step["capture"]
  BY <1>1, <1>2, <1>5 DEF InUse, Saving, Ongoing, Creating, StorageInv, Off, Down, At
<1>9. StorageTypes'
  BY <1>2, <1>3, <1>5 DEF StorageInv, StorageTypes, List
<1>10. Numbered'
  BY <1>2, <1>3 DEF StorageInv, Numbered
<1>11. Shots'
  BY <1>1, <1>2, <1>5 DEF StorageInv, Shots, Writer, Creating
<1>12. Listed'
  <2>1. ASSUME NEW q \in Creator, Creating(q)'
        PROVE  /\ job[q].session # 0 /\ job[q].session \notin {cap, crew, quick}
               /\ \A r \in (Writer \cup Creator) \ {q} : job[r].session # job[q].session
               /\ \A f \in files \cup adrift.shots : f[1] # job[q].session
    BY <1>8, <2>1 DEF StorageInv, Listed
  <2>2. \A q \in {"retention", "user"} : At(q, "unlist")' => job[q].session \notin dirs
    BY <1>1, <1>5 DEF StorageInv, Listed, At
  <2>. QED
    BY <1>2, <1>3, <1>4, <1>8, <2>1, <2>2 DEF StorageInv, Listed
<1>13. Distinct'
  <2>1. \A q \in Writer : step'[q] = step[q]
    BY <1>1, <1>5
  <2>. QED
    BY <1>2, <2>1 DEF StorageInv, Distinct, At
<1>14. Counted'
  BY <1>2, <1>3, <1>8 DEF StorageInv, Counted
<1>15. Backed'
  BY <1>1, <1>2, <1>5 DEF StorageInv, Backed, OnDisk
<1>16. Kept'
  <2>1. clock.removals = 0 => p = "retention"
    BY <1>2 DEF StorageInv, Kept, At
  <2>2. p = "retention" => ~Ongoing(s)
    BY <1>2 DEF StorageInv, Kept, At, s
  <2>3. At("retention", "unlist")' => ~Ongoing(job["retention"].session)
    BY <1>1, <1>5 DEF StorageInv, Kept, At
  <2>4. clock.removals = 0 => step'["user"] \in {"idle", "down"}
    BY <1>1, <1>5, <2>1 DEF StorageInv, Kept, At
  <2>5. At("capture", "end")' => ~Ongoing(job'["capture"].session)
    BY <1>1, <1>2, <1>8 DEF StorageInv, Kept, At, Creator
  <2>. QED
    BY <1>2, <1>3, <1>8, <2>1, <2>2, <2>3, <2>4, <2>5 DEF StorageInv, Kept
<1>17. Off'
  BY <1>8 DEF Off
<1>. QED
  BY <1>9, <1>10, <1>11, <1>12, <1>13, <1>14, <1>15, <1>16, <1>17 DEF StorageInv

LEMMA UnlinkKeeps ==
  ASSUME StorageInv, Unlink
  PROVE  StorageInv'
<1>1. /\ "user" \in Process /\ Writer \cup Creator \cup {"retention"} \subseteq Process \ {"user"}
      /\ "idle" \in Step
  BY DEF Process, Step, Writer, Creator
<1>2. /\ step["user"] = "unlink" /\ Go("user", "idle") /\ Work("user", NoJob)
      /\ files' = files \ job["user"].paths
      /\ UNCHANGED <<index, saved, file, dirs, rows, running, cap, crew, quick, adrift, clock>>
  BY DEF Unlink, At, pipe, Rest
<1>3. /\ step' \in [Process -> Step] /\ step'["user"] = "idle"
      /\ \A q \in Process \ {"user"} : step'[q] = step[q]
  BY <1>1, <1>2, Goes DEF StorageInv
<1>4. /\ job' \in [Process -> Job] /\ job'["user"] = NoJob
      /\ \A q \in Process \ {"user"} : job'[q] = job[q]
  BY <1>1, <1>2, Works, NoJobTyped DEF StorageInv
<1>5. /\ \A x : InUse(x)' <=> InUse(x)
      /\ \A x : \A q \in Creator : Saving(q, x)' <=> Saving(q, x)
      /\ \A q \in Creator : Creating(q)' <=> Creating(q)
      /\ \A x : Ongoing(x)' <=> Ongoing(x)
      /\ ~Down /\ ~Down' /\ step'["capture"] = step["capture"]
  BY <1>1, <1>2, <1>3, <1>4 DEF InUse, Saving, Ongoing, Creating, StorageInv, Off, Down, At, Process
<1>6. StorageTypes'
  BY <1>2, <1>3, <1>4 DEF StorageInv, StorageTypes
<1>7. Numbered'
  <2>1. clock.sessions \in Nat /\ clock.now \in Nat
    BY DEF StorageInv, StorageTypes
  <2>2. \A q \in Process : /\ job'[q].session <= clock.sessions /\ job'[q].shot[1] <= clock.sessions
                           /\ job'[q].sessions \subseteq job[q].sessions
                           /\ job'[q].paths \subseteq job[q].paths /\ job'[q].at <= clock.now
    BY <1>1, <1>4, <2>1, NoJobTyped DEF StorageInv, Numbered
  <2>. QED
    BY <1>2, <2>2 DEF StorageInv, Numbered
<1>8. Shots'
  BY <1>1, <1>2, <1>3, <1>4 DEF StorageInv, Shots, Writer, Creating
<1>9. Listed'
  <2>1. ASSUME NEW q \in Creator, Creating(q)'
        PROVE  /\ job'[q].session # 0 /\ job'[q].session \notin {cap, crew, quick}
               /\ \A r \in (Writer \cup Creator) \ {q} : job'[r].session # job'[q].session
               /\ \A f \in files' \cup adrift.shots : f[1] # job'[q].session
    BY <1>1, <1>2, <1>4, <1>5, <2>1 DEF StorageInv, Listed
  <2>2. \A q \in {"retention", "user"} : At(q, "unlist")' => job'[q].session \notin dirs
    BY <1>1, <1>3, <1>4 DEF StorageInv, Listed, At
  <2>. QED
    BY <1>2, <1>5, <2>1, <2>2 DEF StorageInv, Listed
<1>10. Distinct' /\ Counted'
  <2>1. /\ \A q \in Writer : job'[q] = job[q] /\ step'[q] = step[q]
        /\ job'["user"].paths = {} /\ files' \subseteq files
        /\ "tick" \in Writer /\ "ask" \in Writer
    BY <1>1, <1>2, <1>3, <1>4, NoJobTyped DEF Writer
  <2>2. Distinct'
    BY <1>2, <2>1 DEF StorageInv, Distinct, At
  <2>3. Counted'
    BY <1>2, <1>5, <2>1 DEF StorageInv, Counted
  <2>. QED
    BY <2>2, <2>3
<1>11. Backed'
  BY <1>1, <1>2, <1>3, <1>4 DEF StorageInv, Backed, OnDisk, Distinct
<1>12. Kept'
  BY <1>1, <1>2, <1>3, <1>4, <1>5 DEF StorageInv, Kept, At, Creator
<1>13. Off'
  BY <1>5 DEF Off
<1>. QED
  BY <1>6, <1>7, <1>8, <1>9, <1>10, <1>11, <1>12, <1>13 DEF StorageInv

LEMMA WriteKeeps ==
  ASSUME StorageInv, NEW p \in Writer, Write(p)
  PROVE  StorageInv'
<1>. DEFINE s == job[p].session
            f == job[p].shot
<1>1. /\ p \in Process /\ Writer \cup Creator \subseteq Process /\ {"flush", "insert"} \subseteq Step
      /\ p \notin {"retention", "user", "capture"} /\ {"retention", "user", "capture"} \subseteq Process
      /\ "tick" \in Writer /\ "ask" \in Writer /\ Writer = {"tick", "ask"}
  BY DEF Process, Step, Writer, Creator
<1>2. /\ step[p] = "write"
      /\ UNCHANGED <<index, saved, file, dirs, job, rows, running, cap, crew, quick, adrift, clock>>
  BY DEF Write, At, pipe
<1>3. s \in dirs /\ files' = files \cup {f}
  BY DEF Write
<1>4. PICK t \in {"flush", "insert"} : Go(p, t)
  BY DEF Write
<1>5. /\ step' \in [Process -> Step] /\ step'[p] = t
      /\ \A q \in Process \ {p} : step'[q] = step[q]
  BY <1>1, <1>4, Goes DEF StorageInv
<1>6. /\ f \in Shot /\ f # NoShot /\ f[1] = s /\ s # 0 /\ InUse(s)
      /\ f[1] <= clock.sessions
  BY <1>1, <1>2 DEF StorageInv, StorageTypes, Job, Shots, InUse, Numbered
<1>7. f \in files' /\ s \in DOMAIN index
  BY <1>1, <1>2, <1>3, <1>6 DEF StorageInv, Listed
<1>. HIDE DEF s, f
<1>8. /\ \A x : InUse(x)' <=> InUse(x)
      /\ \A x : \A q \in Creator : Saving(q, x)' <=> Saving(q, x)
      /\ \A q \in Creator : Creating(q)' <=> Creating(q)
      /\ \A x : Ongoing(x)' <=> Ongoing(x)
      /\ ~Down /\ ~Down' /\ step'["capture"] = step["capture"]
  BY <1>1, <1>2, <1>5 DEF InUse, Saving, Ongoing, Creating, StorageInv, Off, Down, At
<1>9. StorageTypes'
  BY <1>2, <1>3, <1>5, <1>6 DEF StorageInv, StorageTypes
<1>10. Numbered'
  BY <1>2, <1>3, <1>6 DEF StorageInv, Numbered
<1>11. Shots'
  BY <1>1, <1>2, <1>5, <1>6 DEF StorageInv, Shots, Creating, f, s
<1>12. Listed'
  <2>1. ASSUME NEW q \in Creator, Creating(q)'
        PROVE  /\ job[q].session # 0 /\ job[q].session \notin {cap, crew, quick}
               /\ \A r \in (Writer \cup Creator) \ {q} : job[r].session # job[q].session
               /\ \A g \in files' \cup adrift.shots : g[1] # job[q].session
    <3>1. Creating(q) /\ q # p
      BY <1>2, <1>8, <2>1 DEF Creating
    <3>2. job[q].session # s
      BY <1>1, <3>1 DEF StorageInv, Listed, s
    <3>. QED
      BY <1>3, <1>6, <3>1, <3>2 DEF StorageInv, Listed
  <2>2. \A q \in {"retention", "user"} : At(q, "unlist")' => job[q].session \notin dirs
    BY <1>1, <1>5 DEF StorageInv, Listed, At
  <2>3. /\ \A g \in files' : g[1] \in dirs
        /\ ~adrift.overtaken =>
             \A g \in files' \cup adrift.shots : g[1] \in dirs => g[1] \in DOMAIN index
    BY <1>3, <1>6, <1>7, <1>8 DEF StorageInv, Listed
  <2>. QED
    BY <1>2, <1>8, <2>1, <2>2, <2>3 DEF StorageInv, Listed
<1>13. Distinct'
  <2>1. ASSUME NEW q \in Writer, At(q, "write")'
        PROVE  job[q].shot \notin files' \cup adrift.shots
    <3>1. At(q, "write") /\ q # p
      BY <1>1, <1>5, <2>1 DEF At
    <3>2. job[q].shot # f
      BY <1>1, <1>6, <3>1 DEF StorageInv, Distinct, f
    <3>. QED
      BY <1>3, <3>1, <3>2 DEF StorageInv, Distinct
  <2>2. adrift.shots \cap files' = {}
    BY <1>2, <1>3 DEF StorageInv, Distinct, At, f
  <2>. QED
    BY <1>2, <2>1, <2>2 DEF StorageInv, Distinct
<1>14. Counted'
  BY <1>1, <1>2, <1>3, <1>8 DEF StorageInv, Counted, f
<1>15. Backed'
  <2>1. files \subseteq files'
    BY <1>3
  <2>2. OnDisk(job[p])'
    BY <1>2, <1>7 DEF OnDisk, f, s
  <2>. QED
    BY <1>1, <1>2, <1>5, <2>1, <2>2 DEF StorageInv, Backed, OnDisk
<1>16. Kept'
  BY <1>1, <1>2, <1>5, <1>8 DEF StorageInv, Kept, At
<1>17. Off'
  BY <1>8 DEF Off
<1>. QED
  BY <1>9, <1>10, <1>11, <1>12, <1>13, <1>14, <1>15, <1>16, <1>17 DEF StorageInv

(* A save goes on, by a writer or for a session that is being created.       *)
LEMMA SaveGoesOn ==
  ASSUME StorageInv, NEW p \in Process, Open(p) \/ (p \in Writer /\ Flush(p))
  PROVE  StorageInv'
<1>1. /\ Writer \cup Creator \subseteq Process /\ {"saving", "flushing", "insert"} \subseteq Step
      /\ {"retention", "user", "capture"} \subseteq Process
  BY DEF Process, Step, Writer, Creator
<1>2. /\ Rewritten
      /\ UNCHANGED <<index, dirs, files, job, rows, running, cap, crew, quick, adrift, clock>>
  BY Rewrites DEF Open, Flush, pipe
<1>3. PICK t \in {"saving", "flushing", "insert"} :
        /\ Go(p, t)
        /\ \/ step[p] = "save" /\ t = "saving"
           \/ step[p] \in {"flush", "flushing"} /\ t \in {"flushing", "insert"}
  BY DEF Open, Flush, At
<1>4. /\ step' \in [Process -> Step] /\ step'[p] = t
      /\ \A q \in Process \ {p} : step'[q] = step[q]
  BY <1>1, <1>3, Goes DEF StorageInv
<1>5. /\ \A x : InUse(x)' <=> InUse(x)
      /\ \A x : \A q \in Creator : Saving(q, x)' <=> Saving(q, x)
      /\ \A q \in Process : Creating(q)' <=> Creating(q)
      /\ \A x : Ongoing(x)' <=> Ongoing(x)
  BY <1>1, <1>2, <1>3, <1>4 DEF InUse, Saving, Ongoing, Creating
<1>6. ~Down /\ ~Down'
  BY <1>1, <1>3, <1>4 DEF StorageInv, Off, Down, At
<1>7. /\ \A q \in Process : step'[q] \in {"write", "unlist", "end", "look", "bump", "extract"} =>
                             step[q] = step'[q]
      /\ \A q \in Process : step'[q] \in {"flush", "flushing"} => step[q] \in {"flush", "flushing"}
      /\ \A q \in Process : step'[q] \in {"flush", "flushing", "insert"} =>
                             step[q] \in {"flush", "flushing", "insert"}
      /\ step["user"] \in {"idle", "down"} => step'["user"] = step["user"]
  BY <1>1, <1>3, <1>4
<1>8. StorageTypes' /\ Numbered'
  <2>1. StorageTypes'
    BY <1>2, <1>4 DEF StorageInv, StorageTypes, Rewritten
  <2>2. Numbered'
    BY <1>2 DEF StorageInv, Numbered, Rewritten
  <2>. QED
    BY <2>1, <2>2
<1>9. Shots'
  BY <1>1, <1>2, <1>5, <1>7 DEF StorageInv, Shots, Creating, Writer
<1>10. Listed'
  <2>1. \A q \in {"retention", "user"} : At(q, "unlist")' => job[q].session \notin dirs
    BY <1>1, <1>7 DEF StorageInv, Listed, At
  <2>2. ~adrift.overtaken /\ file' = "whole" =>
          \A x \in DOMAIN index : x \in DOMAIN saved' \/ \E q \in Creator : Saving(q, x)'
    BY <1>2, <1>5 DEF StorageInv, Listed, Rewritten
  <2>. QED
    BY <1>1, <1>2, <1>5, <1>6, <2>1, <2>2 DEF StorageInv, Listed
<1>11. Distinct' /\ Counted' /\ Backed'
  <2>1. Distinct'
    BY <1>1, <1>2, <1>7 DEF StorageInv, Distinct, At
  <2>2. Counted'
    BY <1>2, <1>5 DEF StorageInv, Counted
  <2>3. Backed'
    BY <1>1, <1>2, <1>7 DEF StorageInv, Backed, OnDisk
  <2>. QED
    BY <2>1, <2>2, <2>3
<1>12. Kept'
  BY <1>1, <1>2, <1>5, <1>7 DEF StorageInv, Kept, At
<1>13. Off'
  BY <1>6 DEF Off
<1>. QED
  BY <1>8, <1>9, <1>10, <1>11, <1>12, <1>13 DEF StorageInv

LEMMA ShootKeeps ==
  ASSUME StorageInv, NEW p \in Writer, Shoot(p)
  PROVE  StorageInv'
<1>. DEFINE s == job[p].session
            n == index[s].count + 1
            f == <<s, n>>
            j == [job[p] EXCEPT !.shot = f]
<1>1. /\ p \in Process /\ Writer \cup Creator \subseteq Process /\ "write" \in Step
      /\ p \notin {"retention", "user", "capture"} /\ {"retention", "user"} \subseteq Process
      /\ "tick" \in Writer /\ "ask" \in Writer /\ Writer = {"tick", "ask"}
      /\ job[p] \in Job
  BY DEF Process, Step, Writer, Creator, StorageInv, StorageTypes
<1>2. /\ step[p] = "extract"
      /\ UNCHANGED <<saved, file, dirs, files, rows, running, cap, crew, quick, adrift, clock>>
  BY DEF Shoot, At, pipe
<1>3. CASE s \notin DOMAIN index
  <2>1. Go(p, "idle") /\ Work(p, NoJob) /\ UNCHANGED <<store, rows, pipe, adrift, clock>>
    BY <1>3 DEF Shoot, Rest, store, pipe
  <2>. QED
    BY <1>2, <2>1, NoJobTyped, WriterGoesOn DEF At, Creating
<1>4. CASE s \in DOMAIN index
  <2>1. /\ index' = [index EXCEPT ![s].count = n] /\ Work(p, j) /\ Go(p, "write")
    BY <1>4 DEF Shoot
  <2>2. s \in Nat /\ s # 0 /\ index[s].count \in Nat /\ n \in Nat
    <3>1. index[s] \in Entry
      BY <1>4 DEF StorageInv, StorageTypes, List
    <3>2. index[s].count \in Nat
      BY <3>1 DEF Entry
    <3>3. s \in Nat /\ s # 0
      BY <1>1, <1>2 DEF StorageInv, Shots, Job
    <3>. QED
      BY <3>2, <3>3
  <2>3. /\ f \in Shot /\ f # NoShot /\ f[1] = s /\ f[2] = n
    BY <2>2 DEF Shot, NoShot
  <2>. HIDE DEF f
  <2>4. /\ j \in Job /\ j.shot = f /\ j.session = s /\ j.sessions = job[p].sessions
        /\ j.paths = job[p].paths /\ j.at = job[p].at
    BY <1>1, <2>3 DEF Job
  <2>. HIDE DEF j
  <2>5. /\ step' \in [Process -> Step] /\ step'[p] = "write"
        /\ \A q \in Process \ {p} : step'[q] = step[q]
    BY <1>1, <2>1, Goes DEF StorageInv
  <2>6. /\ job' \in [Process -> Job] /\ job'[p] = j
        /\ \A q \in Process \ {p} : job'[q] = job[q]
    BY <1>1, <2>1, <2>4, Works DEF StorageInv
  <2>7. /\ DOMAIN index' = DOMAIN index /\ index' \in [DOMAIN index -> Entry]
        /\ index'[s].count = n
        /\ \A x \in DOMAIN index : index'[x].status = index[x].status
        /\ \A x \in DOMAIN index \ {s} : index'[x] = index[x]
    BY <1>4, <2>1, <2>2 DEF StorageInv, StorageTypes, List, Entry
  <2>8. InUse(s) /\ \A g \in files \cup adrift.shots \cup job["user"].paths : g[1] = s => g[2] <= index[s].count
    BY <1>1, <1>4, <2>2, InUseSession DEF StorageInv, Counted
  <2>9. /\ \A r \in rows \cup adrift.rows : r.shot[1] = s => r.shot[2] <= index[s].count
        /\ \A q \in Writer : job[q].shot[1] = s => job[q].shot[2] <= index[s].count
    BY <1>4, <2>8 DEF StorageInv, Counted
  <2>10. /\ f \notin files \cup adrift.shots /\ f \notin job["user"].paths
         /\ \A r \in rows \cup adrift.rows : r.shot # f
         /\ \A q \in Writer : job[q].shot # f
    BY <2>2, <2>3, <2>8, <2>9
  <2>. HIDE DEF s, n
  <2>11. /\ \A x : InUse(x)' <=> InUse(x)
         /\ \A x : \A q \in Creator : Saving(q, x)' <=> Saving(q, x)
         /\ \A q \in Creator : Creating(q)' <=> Creating(q)
         /\ \A x : Ongoing(x)' <=> Ongoing(x)
    BY <1>1, <1>2, <2>4, <2>5, <2>6, ZenonT(40) DEF InUse, Saving, Ongoing, Creating, s
  <2>12. /\ ~Down /\ ~Down' /\ step'["capture"] = step["capture"]
         /\ job'["capture"] = job["capture"]
    BY <1>1, <1>2, <2>5, <2>6 DEF StorageInv, Off, Down, At, Process
  <2>13. StorageTypes'
    BY <1>2, <2>5, <2>6, <2>7 DEF StorageInv, StorageTypes, List
  <2>14. Numbered'
    <3>1. f[1] <= clock.sessions
      BY <1>1, <2>3 DEF StorageInv, Numbered, s
    <3>2. \A q \in Process : /\ job'[q].session = job[q].session /\ job'[q].shot[1] <= clock.sessions
                             /\ job'[q].sessions = job[q].sessions
                             /\ job'[q].paths = job[q].paths /\ job'[q].at = job[q].at
      BY <2>4, <2>6, <3>1 DEF StorageInv, Numbered, s
    <3>. QED
      BY <1>2, <2>7, <3>2 DEF StorageInv, Numbered
  <2>15. Shots'
    BY <1>1, <1>2, <2>2, <2>3, <2>4, <2>5, <2>6 DEF StorageInv, Shots, Creating
  <2>16. Listed'
    <3>1. ASSUME NEW q \in Creator, Creating(q)'
          PROVE  /\ job'[q].session # 0 /\ job'[q].session \notin {cap, crew, quick}
                 /\ \A r \in (Writer \cup Creator) \ {q} : job'[r].session # job'[q].session
                 /\ \A g \in files \cup adrift.shots : g[1] # job'[q].session
      <4>1. Creating(q) /\ \A r \in Writer \cup Creator : job'[r].session = job[r].session
        BY <1>1, <2>4, <2>6, <2>11, <3>1 DEF s
      <4>. QED
        BY <4>1 DEF StorageInv, Listed
    <3>2. \A q \in {"retention", "user"} : At(q, "unlist")' => job'[q].session \notin dirs
      BY <1>1, <2>5, <2>6 DEF StorageInv, Listed, At
    <3>. QED
      BY <1>2, <2>7, <2>11, <2>12, <3>1, <3>2 DEF StorageInv, Listed
  <2>17. Distinct'
    <3>1. job'["user"] = job["user"]
      BY <1>1, <2>6
    <3>2. ASSUME NEW q \in Writer
          PROVE  /\ At(q, "write")' => job'[q].shot \notin files \cup adrift.shots
                 /\ \A r \in rows \cup adrift.rows : job'[q].shot = r.shot => r.shot = NoShot
                 /\ \A g \in job["user"].paths : job'[q].shot # g
      <4>1. CASE q = p
        BY <2>4, <2>6, <2>10, <4>1
      <4>2. CASE q # p
        BY <1>1, <2>5, <2>6, <4>2 DEF StorageInv, Distinct, At
      <4>. QED
        BY <4>1, <4>2
    <3>3. job'["tick"].shot = job'["ask"].shot => job'["ask"].shot = NoShot
      BY <1>1, <2>4, <2>6, <2>10
    <3>. QED
      BY <1>2, <3>1, <3>2, <3>3 DEF StorageInv, Distinct
  <2>18. Counted'
    <3>. SUFFICES ASSUME NEW x \in DOMAIN index, InUse(x)
                  PROVE  /\ \A r \in rows \cup adrift.rows : r.shot[1] = x => r.shot[2] <= index'[x].count
                         /\ \A q \in Writer : job'[q].shot[1] = x => job'[q].shot[2] <= index'[x].count
                         /\ \A g \in files \cup adrift.shots \cup job["user"].paths : g[1] = x => g[2] <= index'[x].count
      BY <1>1, <1>2, <2>6, <2>7, <2>11 DEF Counted
    <3>1. CASE x # s
      <4>. index'[x] = index[x]
        BY <2>7, <3>1
      <4>1. /\ \A r \in rows \cup adrift.rows : r.shot[1] = x => r.shot[2] <= index[x].count
            /\ \A q \in Writer : job[q].shot[1] = x => job[q].shot[2] <= index[x].count
            /\ \A g \in files \cup adrift.shots \cup job["user"].paths : g[1] = x => g[2] <= index[x].count
        BY DEF StorageInv, Counted
      <4>2. \A q \in Writer : job'[q].shot = job[q].shot \/ job'[q].shot[1] # x
        BY <1>1, <2>3, <2>4, <2>6, <3>1
      <4>. QED
        BY <4>1, <4>2
    <3>2. CASE x = s
      <4>1. \A g \in Shot : g[2] <= index[s].count => g[2] <= n
        BY <2>2 DEF Shot, n
      <4>2. /\ files \cup adrift.shots \cup job["user"].paths \subseteq Shot /\ \A r \in rows \cup adrift.rows : r.shot \in Shot
            /\ \A q \in Writer : job[q].shot \in Shot
        BY <1>1 DEF StorageInv, StorageTypes, Job, Row
      <4>3. n <= n
        BY <2>2
      <4>. QED
        BY <1>1, <2>3, <2>4, <2>6, <2>7, <2>8, <2>9, <3>2, <4>1, <4>2, <4>3
    <3>. QED
      BY <3>1, <3>2
  <2>19. Backed'
    BY <1>1, <1>2, <2>5, <2>6 DEF StorageInv, Backed, OnDisk
  <2>20. Kept'
    <3>1. \A x \in DOMAIN index' : Ongoing(x)' => index'[x].status = "active"
      BY <2>7, <2>11 DEF StorageInv, Kept
    <3>2. /\ job'["retention"] = job["retention"] /\ step'["retention"] = step["retention"]
          /\ step'["user"] = step["user"]
      BY <1>1, <2>5, <2>6
    <3>. QED
      BY <1>2, <2>7, <2>11, <2>12, <3>1, <3>2 DEF StorageInv, Kept, At
  <2>21. Off'
    BY <2>12 DEF Off
  <2>. QED
    BY <2>13, <2>14, <2>15, <2>16, <2>17, <2>18, <2>19, <2>20, <2>21 DEF StorageInv
<1>. QED
  BY <1>3, <1>4

(* A writer is done, and the table has its row, or has a row seen again.     *)
LEMMA RowsTurn ==
  ASSUME StorageInv, NEW p \in Writer, ~Creating(p), ~At(p, "down"), Rest(p),
         UNCHANGED <<store, pipe, adrift, clock>>, rows' \subseteq Row,
         \A r \in rows' :
           \/ \E q \in rows : r.session = q.session /\ r.at = q.at /\ r.shot = q.shot
           \/ r = RowOf(job[p]) /\ At(p, "insert")
  PROVE  StorageInv'
<1>1. /\ p \in Process /\ Writer \cup Creator \subseteq Process /\ "idle" \in Step
      /\ p \notin {"retention", "user", "capture"} /\ {"retention", "user"} \subseteq Process
      /\ "tick" \in Writer /\ "ask" \in Writer /\ Writer = {"tick", "ask"}
      /\ job[p] \in Job
  BY DEF Process, Step, Writer, Creator, StorageInv, StorageTypes
<1>2. /\ step' \in [Process -> Step] /\ step'[p] = "idle"
      /\ \A q \in Process \ {p} : step'[q] = step[q]
  BY <1>1, Goes DEF StorageInv, Rest
<1>3. /\ job' \in [Process -> Job] /\ job'[p] = NoJob
      /\ \A q \in Process \ {p} : job'[q] = job[q]
  BY <1>1, Works, NoJobTyped DEF StorageInv, Rest
<1>4. UNCHANGED <<index, saved, file, dirs, files, running, cap, crew, quick, adrift, clock>>
  BY DEF store, pipe
<1>5. /\ RowOf(job[p]).session = job[p].session /\ RowOf(job[p]).at = job[p].at
      /\ RowOf(job[p]).shot = job[p].shot
  BY DEF RowOf
<1>6. \A r \in rows' :
        \/ \E q \in rows : r.session = q.session /\ r.at = q.at /\ r.shot = q.shot
        \/ /\ r.session = job[p].session /\ r.at = job[p].at /\ r.shot = job[p].shot
           /\ step[p] = "insert" /\ r = RowOf(job[p])
  BY <1>5 DEF At
<1>7. /\ \A x : InUse(x)' => InUse(x)
      /\ \A x : \A q \in Creator : Saving(q, x)' <=> Saving(q, x)
      /\ \A q \in Creator : Creating(q)' <=> Creating(q)
      /\ \A x : Ongoing(x)' <=> Ongoing(x)
  BY <1>1, <1>2, <1>3, <1>4, NoJobTyped DEF InUse, Saving, Ongoing, Creating
<1>8. /\ ~Down /\ ~Down' /\ step'["capture"] = step["capture"]
      /\ job'["capture"] = job["capture"]
  BY <1>1, <1>2, <1>3 DEF StorageInv, Off, Down, At, Process
<1>9. StorageTypes'
  BY <1>2, <1>3, <1>4 DEF StorageInv, StorageTypes
<1>10. Numbered'
  <2>1. clock.sessions \in Nat /\ clock.now \in Nat
    BY DEF StorageInv, StorageTypes
  <2>2. \A q \in Process : /\ job'[q].session <= clock.sessions /\ job'[q].shot[1] <= clock.sessions
                           /\ job'[q].sessions \subseteq job[q].sessions
                           /\ job'[q].paths \subseteq job[q].paths /\ job'[q].at <= clock.now
    BY <1>1, <1>3, <2>1, NoJobTyped DEF StorageInv, Numbered
  <2>3. \A r \in rows' : r.session <= clock.sessions /\ r.shot[1] <= clock.sessions /\ r.at <= clock.now
    BY <1>1, <1>6 DEF StorageInv, Numbered
  <2>. QED
    BY <1>4, <2>2, <2>3 DEF StorageInv, Numbered
<1>11. Shots'
  BY <1>1, <1>2, <1>3, <1>4, <1>6, NoJobTyped DEF StorageInv, Shots, Creating
<1>12. Listed'
  <2>1. ASSUME NEW q \in Creator, Creating(q)'
        PROVE  /\ job'[q].session # 0 /\ job'[q].session \notin {cap, crew, quick}
               /\ \A r \in (Writer \cup Creator) \ {q} : job'[r].session # job'[q].session
               /\ \A g \in files \cup adrift.shots : g[1] # job'[q].session
    <3>1. Creating(q) /\ job'[q] = job[q]
      BY <1>1, <1>3, <1>7, <2>1
    <3>2. job[q].session # 0
      BY <3>1 DEF StorageInv, Listed
    <3>. QED
      BY <1>1, <1>3, <3>1, <3>2, NoJobTyped DEF StorageInv, Listed
  <2>2. \A q \in {"retention", "user"} : At(q, "unlist")' => job'[q].session \notin dirs
    BY <1>1, <1>2, <1>3 DEF StorageInv, Listed, At
  <2>3. ~adrift.overtaken /\ file = "whole" =>
          \A x \in DOMAIN index : x \in DOMAIN saved \/ \E q \in Creator : Saving(q, x)'
    BY <1>7 DEF StorageInv, Listed
  <2>. QED
    BY <1>4, <1>7, <1>8, <2>1, <2>2, <2>3 DEF StorageInv, Listed
<1>13. Distinct'
  <2>1. \A r, q \in rows' : r.shot = q.shot /\ r.shot # NoShot => r.at = q.at
    BY <1>6 DEF StorageInv, Distinct
  <2>2. \A r \in rows', q \in adrift.rows : r.shot = q.shot => r.shot = NoShot
    BY <1>6 DEF StorageInv, Distinct
  <2>3. ASSUME NEW q \in Writer
        PROVE  /\ \A r \in rows' \cup adrift.rows : job'[q].shot = r.shot => r.shot = NoShot
               /\ At(q, "write")' => job'[q].shot \notin files \cup adrift.shots
               /\ \A f \in job["user"].paths : job'[q].shot # f
    <3>1. CASE q = p
      BY <1>1, <1>2, <1>3, <3>1, NoJobTyped DEF StorageInv, Distinct, At
    <3>2. CASE q # p
      <4>1. job'[q] = job[q] /\ step'[q] = step[q]
        BY <1>1, <1>2, <1>3, <3>2
      <4>2. job[q].shot = job[p].shot => job[p].shot = NoShot
        BY <1>1, <3>2 DEF StorageInv, Distinct
      <4>. QED
        BY <1>6, <4>1, <4>2 DEF StorageInv, Distinct, At
    <3>. QED
      BY <3>1, <3>2
  <2>4. job'["tick"].shot = job'["ask"].shot => job'["ask"].shot = NoShot
    BY <1>1, <1>3, NoJobTyped DEF StorageInv, Distinct
  <2>5. job'["user"] = job["user"] /\ \A f \in job["user"].paths : \A r \in rows' : r.shot # f
    BY <1>1, <1>3, <1>6 DEF StorageInv, Distinct
  <2>. QED
    BY <1>4, <2>1, <2>2, <2>3, <2>4, <2>5 DEF StorageInv, Distinct
<1>14. Counted'
  <2>. SUFFICES ASSUME NEW x \in DOMAIN index, InUse(x), InUse(x)'
                PROVE  /\ \A r \in rows' \cup adrift.rows : r.shot[1] = x => r.shot[2] <= index[x].count
                       /\ \A q \in Writer : job'[q].shot[1] = x => job'[q].shot[2] <= index[x].count
                       /\ \A g \in files \cup adrift.shots \cup job'["user"].paths : g[1] = x => g[2] <= index[x].count
    BY <1>4, <1>7 DEF Counted
  <2>1. /\ \A r \in rows \cup adrift.rows : r.shot[1] = x => r.shot[2] <= index[x].count
        /\ \A q \in Writer : job[q].shot[1] = x => job[q].shot[2] <= index[x].count
        /\ \A g \in files \cup adrift.shots \cup job["user"].paths : g[1] = x => g[2] <= index[x].count
    BY DEF StorageInv, Counted
  <2>2. job'["user"] = job["user"] /\ x # 0
    BY <1>1, <1>3 DEF InUse
  <2>. QED
    BY <1>1, <1>3, <1>6, <2>1, <2>2, NoJobTyped
<1>15. Backed'
  BY <1>1, <1>2, <1>3, <1>4, <1>6 DEF StorageInv, Backed, OnDisk
<1>16. Kept'
  BY <1>1, <1>2, <1>3, <1>4, <1>7, <1>8 DEF StorageInv, Kept, At
<1>17. Off'
  BY <1>8 DEF Off
<1>. QED
  BY <1>9, <1>10, <1>11, <1>12, <1>13, <1>14, <1>15, <1>16, <1>17 DEF StorageInv

LEMMA InsertKeeps ==
  ASSUME StorageInv, NEW p \in Writer, Insert(p)
  PROVE  StorageInv'
<1>1. p \in Process /\ job[p] \in Job /\ ~Creating(p) /\ ~At(p, "down")
  BY DEF StorageInv, StorageTypes, Process, Writer, Insert, At, Creating
<1>2. RowOf(job[p]) \in Row
  BY <1>1 DEF RowOf, Job, Row
<1>3. rows' \subseteq Row
  BY <1>2 DEF Insert, StorageInv, StorageTypes
<1>. QED
  BY <1>1, <1>3, RowsTurn DEF Insert

LEMMA BumpKeeps ==
  ASSUME StorageInv, Bump
  PROVE  StorageInv'
<1>1. "tick" \in Writer /\ ~Creating("tick") /\ ~At("tick", "down") /\ job["tick"].at \in Nat
  BY DEF Bump, Writer, At, Creating, StorageInv, StorageTypes, Process, Job
<1>2. \A r \in rows' : \E q \in rows : r = q \/ r = [q EXCEPT !.until = job["tick"].at]
  BY DEF Bump
<1>3. \A r \in rows' : /\ r \in Row
                       /\ \E q \in rows : r.session = q.session /\ r.at = q.at /\ r.shot = q.shot
  BY <1>1, <1>2 DEF StorageInv, StorageTypes, Row
<1>. QED
  BY <1>1, <1>3, RowsTurn DEF Bump

(* What an aborted tick left behind comes: a row, ...                        *)
LEMMA LandRowKeeps ==
  ASSUME StorageInv, LandRow
  PROVE  StorageInv'
<1>1. PICK r \in adrift.rows : rows' = rows \cup {r} /\ adrift' = [adrift EXCEPT !.rows = @ \ {r}]
  BY DEF LandRow
<1>2. /\ adrift'.rows = adrift.rows \ {r} /\ adrift'.shots = adrift.shots
      /\ adrift'.saves = adrift.saves /\ adrift'.overtaken = adrift.overtaken
      /\ adrift' = [rows |-> adrift'.rows, shots |-> adrift'.shots, saves |-> adrift'.saves,
                    overtaken |-> adrift'.overtaken]
  BY <1>1 DEF StorageInv, StorageTypes
<1>3. UNCHANGED <<index, saved, file, dirs, files, running, cap, crew, quick, step, job, clock>>
  BY DEF LandRow, store, pipe
<1>4. rows' \cup adrift'.rows = rows \cup adrift.rows
  BY <1>1, <1>2
<1>5. /\ \A x : (InUse(x)' <=> InUse(x)) /\ (Ongoing(x)' <=> Ongoing(x))
      /\ \A p, x : (Saving(p, x)' <=> Saving(p, x)) /\ (Creating(p)' <=> Creating(p))
      /\ Down' <=> Down
  BY <1>3 DEF InUse, Ongoing, Saving, Creating, Down, At
<1>6. StorageTypes'
  BY <1>1, <1>2, <1>3 DEF StorageInv, StorageTypes
<1>7. Numbered' /\ Shots' /\ Off'
  BY <1>2, <1>3, <1>4, <1>5 DEF StorageInv, Numbered, Shots, Off
<1>8. Listed'
  BY <1>2, <1>3, <1>5 DEF StorageInv, Listed, At
<1>9. Distinct'
  BY <1>1, <1>2, <1>3, <1>4 DEF StorageInv, Distinct, At
<1>10. Counted'
  BY <1>2, <1>3, <1>4, <1>5 DEF StorageInv, Counted
<1>11. Backed'
  BY <1>3, <1>4 DEF StorageInv, Backed, OnDisk
<1>12. Kept'
  BY <1>3, <1>5 DEF StorageInv, Kept, At
<1>. QED
  BY <1>6, <1>7, <1>8, <1>9, <1>10, <1>11, <1>12 DEF StorageInv

(* ... a screenshot, ...                                                     *)
LEMMA LandShotKeeps ==
  ASSUME StorageInv, LandShot
  PROVE  StorageInv'
<1>1. PICK f \in adrift.shots : /\ files' = IF f[1] \in dirs THEN files \cup {f} ELSE files
                               /\ adrift' = [adrift EXCEPT !.shots = @ \ {f}]
  BY DEF LandShot
<1>2. /\ adrift'.shots = adrift.shots \ {f} /\ adrift'.rows = adrift.rows
      /\ adrift'.saves = adrift.saves /\ adrift'.overtaken = adrift.overtaken
      /\ adrift' = [rows |-> adrift'.rows, shots |-> adrift'.shots, saves |-> adrift'.saves,
                    overtaken |-> adrift'.overtaken]
  BY <1>1 DEF StorageInv, StorageTypes
<1>3. UNCHANGED <<index, saved, file, dirs, rows, running, cap, crew, quick, step, job, clock>>
  BY DEF LandShot, pipe
<1>4. /\ files \subseteq files' /\ files' \cup adrift'.shots \subseteq files \cup adrift.shots
      /\ files' \subseteq files \cup {f} /\ (f \in files' => f \in files \/ f[1] \in dirs)
  BY <1>1, <1>2
<1>5. /\ \A x : (InUse(x)' <=> InUse(x)) /\ (Ongoing(x)' <=> Ongoing(x))
      /\ \A p, x : (Saving(p, x)' <=> Saving(p, x)) /\ (Creating(p)' <=> Creating(p))
      /\ Down' <=> Down
  BY <1>3 DEF InUse, Ongoing, Saving, Creating, Down, At
<1>6. StorageTypes'
  BY <1>1, <1>2, <1>3 DEF StorageInv, StorageTypes
<1>7. Numbered' /\ Shots' /\ Off'
  BY <1>2, <1>3, <1>4, <1>5 DEF StorageInv, Numbered, Shots, Off
<1>8. Listed'
  <2>1. ASSUME NEW p \in Creator, Creating(p)'
        PROVE  \A g \in files' \cup adrift'.shots : g[1] # job[p].session
    BY <1>4, <1>5, <2>1 DEF StorageInv, Listed
  <2>2. \A g \in files' : g[1] \in dirs
    BY <1>4 DEF StorageInv, Listed
  <2>. QED
    BY <1>2, <1>3, <1>4, <1>5, <2>1, <2>2 DEF StorageInv, Listed, At
<1>9. Distinct'
  <2>1. adrift'.shots \cap files' = {}
    BY <1>2, <1>4 DEF StorageInv, Distinct
  <2>. QED
    BY <1>2, <1>3, <1>4, <2>1 DEF StorageInv, Distinct, At
<1>10. Counted'
  BY <1>2, <1>3, <1>4, <1>5 DEF StorageInv, Counted
<1>11. Backed'
  BY <1>2, <1>3, <1>4 DEF StorageInv, Backed, OnDisk
<1>12. Kept'
  BY <1>3, <1>5 DEF StorageInv, Kept, At
<1>. QED
  BY <1>6, <1>7, <1>8, <1>9, <1>10, <1>11, <1>12 DEF StorageInv

(* ... or a half of a save, which may overtake a session.                    *)
LEMMA LandSaveKeeps ==
  ASSUME StorageInv, LandOpen \/ LandFill
  PROVE  StorageInv'
<1>1. PICK c \in adrift.saves :
        \/ /\ file' = "empty" /\ saved' = saved
           /\ adrift' = [adrift EXCEPT !.saves = (@ \ {c}) \cup {[c EXCEPT !.opened = TRUE]}]
        \/ /\ Fill(c.list)
           /\ adrift' = [adrift EXCEPT !.saves = @ \ {c},
                                      !.overtaken = @ \/ ~(DOMAIN index \subseteq DOMAIN c.list)]
  BY DEF LandOpen, LandFill
<1>2. UNCHANGED <<index, dirs, files, rows, running, cap, crew, quick, step, job, clock>>
  BY DEF LandOpen, LandFill, pipe
<1>. DEFINE d == [list |-> c.list, opened |-> TRUE]
<1>3. /\ c = [list |-> c.list, opened |-> c.opened] /\ List(c.list)
      /\ DOMAIN c.list \subseteq 1..clock.sessions
  BY DEF StorageInv, StorageTypes, Numbered
<1>4. d = [list |-> d.list, opened |-> d.opened] /\ d.list = c.list /\ d = [c EXCEPT !.opened = TRUE]
  <2>1. PICK l, o : c = [list |-> l, opened |-> o]
    BY <1>3
  <2>2. \A v : [c EXCEPT !.opened = v] = [list |-> l, opened |-> v]
    BY <2>1
  <2>3. [c EXCEPT !.opened = TRUE] = [list |-> l, opened |-> TRUE]
    BY <2>2
  <2>4. c.list = l
    BY <2>1
  <2>. QED
    BY <2>3, <2>4
<1>5. /\ adrift'.rows = adrift.rows /\ adrift'.shots = adrift.shots
      /\ adrift'.saves \subseteq adrift.saves \cup {d}
      /\ adrift' = [rows |-> adrift'.rows, shots |-> adrift'.shots, saves |-> adrift'.saves,
                    overtaken |-> adrift'.overtaken]
      /\ ~adrift'.overtaken => ~adrift.overtaken
  <2>. HIDE DEF d
  <2>1. adrift = [rows |-> adrift.rows, shots |-> adrift.shots, saves |-> adrift.saves,
                  overtaken |-> adrift.overtaken]
    BY DEF StorageInv, StorageTypes
  <2>2. CASE adrift' = [adrift EXCEPT !.saves = (@ \ {c}) \cup {[c EXCEPT !.opened = TRUE]}]
    <3>1. adrift' = [adrift EXCEPT !.saves = (adrift.saves \ {c}) \cup {d}]
      BY <1>4, <2>2, Zenon
    <3>. QED
      BY <2>1, <3>1
  <2>3. CASE adrift' = [adrift EXCEPT !.saves = @ \ {c},
                                     !.overtaken = @ \/ ~(DOMAIN index \subseteq DOMAIN c.list)]
    BY <2>1, <2>3
  <2>. QED
    BY <1>1, <2>2, <2>3
<1>6. /\ file' \in {"whole", "empty", "mixed"} /\ saved' \in {saved, c.list}
      /\ file' = "whole" => saved' = c.list
      /\ file' = "whole" /\ ~adrift'.overtaken => DOMAIN index \subseteq DOMAIN c.list
  <2>1. CASE file' = "empty" /\ saved' = saved
    BY <2>1
  <2>2. CASE Fill(c.list)
    <3>1. file' # "empty"
      BY <2>2 DEF Fill
    <3>2. adrift'.overtaken = (adrift.overtaken \/ ~(DOMAIN index \subseteq DOMAIN c.list))
      BY <1>1, <3>1 DEF StorageInv, StorageTypes
    <3>. QED
      BY <2>2, <3>2 DEF Fill
  <2>. QED
    BY <1>1, <2>1, <2>2
<1>. HIDE DEF d
<1>7. /\ \A x : (InUse(x)' <=> InUse(x)) /\ (Ongoing(x)' <=> Ongoing(x))
      /\ \A p, x : (Saving(p, x)' <=> Saving(p, x)) /\ (Creating(p)' <=> Creating(p))
      /\ ~Down /\ ~Down'
  BY <1>2 DEF InUse, Ongoing, Saving, Creating, StorageInv, Off, Down, At
<1>8. StorageTypes'
  BY <1>2, <1>3, <1>4, <1>5, <1>6 DEF StorageInv, StorageTypes, List
<1>9. Numbered'
  BY <1>2, <1>3, <1>4, <1>5, <1>6 DEF StorageInv, Numbered
<1>10. Shots' /\ Off'
  BY <1>2, <1>5, <1>7 DEF StorageInv, Shots, Off
<1>11. Listed'
  BY <1>2, <1>5, <1>6, <1>7 DEF StorageInv, Listed, At
<1>12. Distinct'
  BY <1>2, <1>5 DEF StorageInv, Distinct, At
<1>13. Counted'
  BY <1>2, <1>5, <1>7 DEF StorageInv, Counted
<1>14. Backed'
  BY <1>2, <1>5 DEF StorageInv, Backed, OnDisk
<1>15. Kept'
  BY <1>2, <1>7 DEF StorageInv, Kept, At
<1>. QED
  BY <1>8, <1>9, <1>10, <1>11, <1>12, <1>13, <1>14, <1>15 DEF StorageInv

LEMMA ShutdownKeeps ==
  ASSUME StorageInv, Shutdown
  PROVE  StorageInv'
<1>. DEFINE new == RowOf(job["tick"])
            f   == job["tick"].shot
<1>1. /\ Writer \cup Creator \subseteq Process /\ {"idle", "end"} \subseteq Step
      /\ Process = {"capture", "tick", "ask", "retention", "user"}
      /\ Writer = {"tick", "ask"} /\ Creator = {"capture", "ask"}
      /\ job["tick"] \in Job /\ job["capture"] \in Job /\ cap \in Nat
  BY DEF Process, Step, Writer, Creator, StorageInv, StorageTypes
<1>2. /\ step["capture"] = "shutdown" /\ cap' = 0 /\ crew' = 0
      /\ UNCHANGED <<index, saved, file, dirs, files, rows, running, quick, clock>>
  BY DEF Shutdown, At, store
<1>3. /\ step' \in [Process -> Step] /\ step'["capture"] = "end" /\ step'["tick"] = "idle"
      /\ \A p \in Process \ {"capture", "tick"} : step'[p] = step[p]
  BY <1>1 DEF Shutdown, StorageInv, StorageTypes
<1>. DEFINE k == [job["capture"] EXCEPT !.session = cap]
<1>4. /\ k \in Job /\ k.session = cap /\ k.at = job["capture"].at /\ k.shot = job["capture"].shot
      /\ k.sessions = job["capture"].sessions /\ k.paths = job["capture"].paths
  BY <1>1, ZenonT(40) DEF Job
<1>. HIDE DEF k
<1>5. /\ job' \in [Process -> Job] /\ job'["tick"] = NoJob /\ job'["capture"] = k
      /\ \A p \in Process \ {"tick", "capture"} : job'[p] = job[p]
  <2>1. job' = [job EXCEPT !["capture"] = k, !["tick"] = NoJob]
    BY DEF Shutdown, k
  <2>. QED
    BY <1>1, <1>4, <2>1, NoJobTyped DEF StorageInv, StorageTypes
<1>6. /\ new.session = job["tick"].session /\ new.at = job["tick"].at
      /\ new.shot = f /\ new \in Row /\ f \in Shot
  BY <1>1 DEF RowOf, Job, Row
<1>7. /\ \/ adrift'.rows = adrift.rows
         \/ adrift'.rows = adrift.rows \cup {new} /\ step["tick"] = "insert"
      /\ \/ adrift'.shots = adrift.shots
         \/ adrift'.shots = adrift.shots \cup {f} /\ step["tick"] = "write"
      /\ \A c \in adrift'.saves :
           \/ c \in adrift.saves
           \/ c = [list |-> c.list, opened |-> c.opened] /\ c.list = index
      /\ adrift'.overtaken = adrift.overtaken
      /\ adrift' = [rows |-> adrift'.rows, shots |-> adrift'.shots, saves |-> adrift'.saves,
                    overtaken |-> adrift'.overtaken]
  BY DEF Shutdown, LeftBehind, At, StorageInv, StorageTypes
<1>. HIDE DEF new, f
<1>8. /\ \A x : InUse(x)' => InUse(x)
      /\ \A p \in Creator : Creating(p)' <=> Creating(p)
      /\ \A x : \A p \in Creator : Saving(p, x)' <=> Saving(p, x)
      /\ \A x : Ongoing(x)' => Ongoing(x)
      /\ ~Down /\ ~Down'
  <2>1. \A p \in Creator : Creating(p)' <=> Creating(p)
    BY <1>1, <1>2, <1>3 DEF Creating
  <2>2. \A x : \A p \in Creator : Saving(p, x)' <=> Saving(p, x)
    BY <1>1, <1>2, <1>5, <2>1 DEF Saving, Creating
  <2>3. \A x : InUse(x)' => InUse(x)
    BY <1>1, <1>2, <1>4, <1>5, NoJobTyped DEF InUse
  <2>4. \A x : Ongoing(x)' => Ongoing(x)
    BY <1>2, <2>2 DEF Ongoing
  <2>. QED
    BY <1>2, <1>3, <2>1, <2>2, <2>3, <2>4 DEF Down, At
<1>9. \A x : Ongoing(x)' => x # cap
  <2>. SUFFICES ASSUME NEW x, Ongoing(x)'
                PROVE  x # cap
    OBVIOUS
  <2>1. CASE x = quick
    BY <1>2, <2>1 DEF StorageInv, Kept, Ongoing
  <2>2. CASE x # quick
    <3>1. \E p \in Creator : Saving(p, x)
      BY <1>2, <1>8, <2>2 DEF Ongoing
    <3>. QED
      BY <3>1 DEF StorageInv, Listed, Saving
  <2>. QED
    BY <2>1, <2>2
<1>10. StorageTypes'
  BY <1>2, <1>3, <1>5, <1>6, <1>7 DEF StorageInv, StorageTypes
<1>11. Numbered'
  <2>1. clock.sessions \in Nat /\ clock.now \in Nat
    BY DEF StorageInv, StorageTypes
  <2>2. \A q \in Process : /\ job'[q].session <= clock.sessions /\ job'[q].shot[1] <= clock.sessions
                           /\ job'[q].sessions \subseteq job[q].sessions
                           /\ job'[q].paths \subseteq job[q].paths /\ job'[q].at <= clock.now
    <3>1. cap <= clock.sessions
      BY <1>1, <2>1 DEF StorageInv, Numbered
    <3>. QED
      BY <1>1, <1>4, <1>5, <2>1, <3>1, NoJobTyped DEF StorageInv, Numbered
  <2>3. /\ \A r \in adrift'.rows : r.session <= clock.sessions /\ r.shot[1] <= clock.sessions /\ r.at <= clock.now
        /\ \A g \in adrift'.shots : g[1] <= clock.sessions
    BY <1>1, <1>6, <1>7 DEF StorageInv, Numbered, f
  <2>4. {cap', crew', quick} \subseteq 0..clock.sessions
    BY <1>2, <2>1 DEF StorageInv, Numbered
  <2>5. \A c \in adrift'.saves : DOMAIN c.list \subseteq 1..clock.sessions
    BY <1>7 DEF StorageInv, Numbered
  <2>. QED
    BY <1>2, <2>2, <2>3, <2>4, <2>5 DEF StorageInv, Numbered
<1>12. Shots'
  BY <1>1, <1>2, <1>3, <1>5, <1>6, <1>7, NoJobTyped DEF StorageInv, Shots, Creating, f
<1>13. Listed'
  <2>1. ASSUME NEW q \in Creator, Creating(q)'
        PROVE  /\ job'[q].session # 0 /\ job'[q].session \notin {cap', crew', quick}
               /\ \A r \in (Writer \cup Creator) \ {q} : job'[r].session # job'[q].session
               /\ \A g \in files \cup adrift'.shots : g[1] # job'[q].session
    <3>1. Creating(q) /\ q = "ask" /\ job'[q] = job[q]
      BY <1>1, <1>2, <1>3, <1>5, <1>8, <2>1 DEF Creating
    <3>2. job[q].session # 0 /\ job[q].session # cap
      BY <3>1 DEF StorageInv, Listed
    <3>3. step["tick"] = "write" => f[1] # job[q].session
      BY <1>1, <3>1, <3>2 DEF StorageInv, Listed, Shots, f
    <3>. QED
      BY <1>1, <1>2, <1>4, <1>5, <1>7, <3>1, <3>2, <3>3, NoJobTyped DEF StorageInv, Listed
  <2>2. \A q \in {"retention", "user"} : At(q, "unlist")' => job'[q].session \notin dirs
    BY <1>1, <1>3, <1>5 DEF StorageInv, Listed, At
  <2>3. ASSUME ~adrift.overtaken
        PROVE  \A g \in files \cup adrift'.shots : g[1] \in dirs => g[1] \in DOMAIN index
    <3>1. step["tick"] = "write" => f[1] = job["tick"].session /\ InUse(f[1])
      BY <1>1 DEF StorageInv, Shots, InUse, f
    <3>. QED
      BY <1>7, <1>8, <2>3, <3>1 DEF StorageInv, Listed
  <2>. QED
    BY <1>2, <1>7, <1>8, <2>1, <2>2, <2>3 DEF StorageInv, Listed
<1>14. Distinct'
  <2>1. /\ \A r \in rows, q \in adrift'.rows : r.shot = q.shot => r.shot = NoShot
        /\ \A r, q \in adrift'.rows : r.shot = q.shot /\ r.shot # NoShot => r = q
    BY <1>1, <1>6, <1>7 DEF StorageInv, Distinct, f
  <2>2. \A p \in Writer : \A r \in rows \cup adrift'.rows : job'[p].shot = r.shot => r.shot = NoShot
    BY <1>1, <1>5, <1>6, <1>7, NoJobTyped DEF StorageInv, Distinct, f
  <2>3. job'["tick"].shot = job'["ask"].shot => job'["ask"].shot = NoShot
    BY <1>5, NoJobTyped
  <2>4. step["tick"] = "write" => f # NoShot /\ f # job["ask"].shot /\ f \notin files
    BY <1>1 DEF StorageInv, Shots, Distinct, At, f
  <2>5. \A p \in Writer : At(p, "write")' => job'[p].shot \notin files \cup adrift'.shots
    BY <1>1, <1>3, <1>5, <1>7, <2>4 DEF StorageInv, Distinct, At
  <2>6. adrift'.shots \cap files = {}
    BY <1>7, <2>4 DEF StorageInv, Distinct
  <2>7. /\ job'["user"] = job["user"]
        /\ \A g \in job["user"].paths :
             /\ \A r \in rows \cup adrift'.rows : r.shot # g
             /\ \A p \in Writer : job'[p].shot # g
    BY <1>1, <1>5, <1>6, <1>7, NoJobTyped DEF StorageInv, Distinct, f
  <2>. QED
    BY <1>2, <2>1, <2>2, <2>3, <2>5, <2>6, <2>7 DEF StorageInv, Distinct
<1>15. Counted'
  <2>. SUFFICES ASSUME NEW x \in DOMAIN index, InUse(x)
                PROVE  /\ \A r \in rows \cup adrift'.rows : r.shot[1] = x => r.shot[2] <= index[x].count
                       /\ \A q \in Writer : job'[q].shot[1] = x => job'[q].shot[2] <= index[x].count
                       /\ \A g \in files \cup adrift'.shots \cup job'["user"].paths :
                            g[1] = x => g[2] <= index[x].count
    BY <1>2, <1>8 DEF Counted
  <2>1. /\ \A r \in rows \cup adrift.rows : r.shot[1] = x => r.shot[2] <= index[x].count
        /\ \A q \in Writer : job[q].shot[1] = x => job[q].shot[2] <= index[x].count
        /\ \A g \in files \cup adrift.shots \cup job["user"].paths :
             g[1] = x => g[2] <= index[x].count
    BY DEF StorageInv, Counted
  <2>2. job'["user"] = job["user"] /\ x # 0
    BY <1>1, <1>5 DEF InUse
  <2>. QED
    BY <1>1, <1>5, <1>6, <1>7, <2>1, <2>2, NoJobTyped DEF f
<1>16. Backed'
  BY <1>1, <1>2, <1>3, <1>5, <1>6, <1>7 DEF StorageInv, Backed, OnDisk, f
<1>17. Kept'
  <2>1. /\ job'["retention"] = job["retention"] /\ step'["retention"] = step["retention"]
        /\ step'["user"] = step["user"]
    BY <1>1, <1>3, <1>5
  <2>2. quick' # 0 => quick' \notin {cap', crew'}
    BY <1>2
  <2>3. job'["capture"].session = cap
    BY <1>4, <1>5
  <2>4. \A x \in DOMAIN index' : Ongoing(x)' => index'[x].status = "active"
    BY <1>2, <1>8 DEF StorageInv, Kept
  <2>5. /\ \A x \in job'["retention"].sessions : ~Ongoing(x)'
        /\ At("retention", "unlist")' => (~Ongoing(job["retention"].session))'
    BY <1>8, <2>1 DEF StorageInv, Kept, At
  <2>6. clock'.removals = 0 =>
          /\ step'["user"] \in {"idle", "down"}
          /\ \A x \in 1..clock'.sessions : Ongoing(x)' => x \in dirs' \cap DOMAIN index'
    BY <1>2, <1>8, <2>1 DEF StorageInv, Kept
  <2>7. (~Ongoing(job["capture"].session))'
    BY <1>9, <2>3
  <2>. QED
    BY <2>2, <2>4, <2>5, <2>6, <2>7 DEF Kept
<1>18. Off'
  BY <1>8 DEF Off
<1>. QED
  BY <1>10, <1>11, <1>12, <1>13, <1>14, <1>15, <1>16, <1>17, <1>18 DEF StorageInv

(* end_session finds nobody writing to its session any more.                 *)
LEMMA EndSessionKeeps ==
  ASSUME StorageInv, EndSession
  PROVE  StorageInv'
<1>. DEFINE s == job["capture"].session
<1>1. /\ Writer \cup Creator \subseteq Process /\ "ending" \in Step /\ "capture" \in Process
      /\ {"retention", "user"} \subseteq Process \ {"capture"}
      /\ Writer \subseteq Process \ {"capture"}
  BY DEF Process, Step, Writer, Creator
<1>2. /\ step["capture"] = "end" /\ file' = "empty" /\ Go("capture", "ending")
      /\ UNCHANGED <<saved, dirs, files, rows, running, cap, crew, quick, job, adrift, clock>>
  BY DEF EndSession, At, pipe
<1>3. /\ DOMAIN index' = DOMAIN index /\ index' \in [DOMAIN index -> Entry]
      /\ \A x \in DOMAIN index : index'[x].count = index[x].count
      /\ \A x \in DOMAIN index \ {s} : index'[x] = index[x]
  <2>1. CASE s \in DOMAIN index
    <3>1. index[s] \in Entry /\ index \in [DOMAIN index -> Entry]
      BY <2>1 DEF StorageInv, StorageTypes, List
    <3>2. index' = [index EXCEPT ![s].status = "completed"]
      BY <2>1 DEF EndSession
    <3>3. /\ [index[s] EXCEPT !.status = "completed"] \in Entry
          /\ [index[s] EXCEPT !.status = "completed"].count = index[s].count
      BY <3>1 DEF Entry
    <3>4. /\ DOMAIN index' = DOMAIN index
          /\ index'[s] = [index[s] EXCEPT !.status = "completed"]
          /\ \A x \in DOMAIN index \ {s} : index'[x] = index[x]
      BY <2>1, <3>1, <3>2
    <3>. QED
      BY <3>1, <3>2, <3>3, <3>4
  <2>2. CASE s \notin DOMAIN index
    BY <2>2 DEF EndSession, StorageInv, StorageTypes, List
  <2>. QED
    BY <2>1, <2>2
<1>4. /\ step' \in [Process -> Step] /\ step'["capture"] = "ending"
      /\ \A q \in Process \ {"capture"} : step'[q] = step[q]
  BY <1>1, <1>2, Goes DEF StorageInv
<1>5. ~Ongoing(s)
  BY <1>2 DEF StorageInv, Kept, At
<1>. HIDE DEF s
<1>6. /\ \A x : InUse(x)' <=> InUse(x)
      /\ \A x : \A q \in Creator : Saving(q, x)' <=> Saving(q, x)
      /\ \A q \in Creator : Creating(q)' <=> Creating(q)
      /\ \A x : Ongoing(x)' <=> Ongoing(x)
      /\ ~Down /\ ~Down'
  BY <1>1, <1>2, <1>4 DEF InUse, Saving, Ongoing, Creating, Down, At
<1>7. StorageTypes'
  BY <1>2, <1>3, <1>4 DEF StorageInv, StorageTypes, List
<1>8. Numbered'
  BY <1>2, <1>3 DEF StorageInv, Numbered
<1>9. Shots' /\ Off'
  BY <1>1, <1>2, <1>4, <1>6 DEF StorageInv, Shots, Creating, Writer, Off
<1>10. Listed'
  BY <1>1, <1>2, <1>3, <1>4, <1>6 DEF StorageInv, Listed, At
<1>11. Distinct'
  BY <1>1, <1>2, <1>4 DEF StorageInv, Distinct, At
<1>12. Counted'
  BY <1>2, <1>3, <1>6 DEF StorageInv, Counted
<1>13. Backed'
  BY <1>1, <1>2, <1>4 DEF StorageInv, Backed, OnDisk
<1>14. Kept'
  <2>1. \A x \in DOMAIN index' : Ongoing(x)' => index'[x].status = "active"
    BY <1>3, <1>5, <1>6 DEF StorageInv, Kept
  <2>. QED
    BY <1>1, <1>2, <1>3, <1>4, <1>6, <2>1 DEF StorageInv, Kept, At
<1>. QED
  BY <1>7, <1>8, <1>9, <1>10, <1>11, <1>12, <1>13, <1>14 DEF StorageInv

LEMMA EndSavedKeeps ==
  ASSUME StorageInv, EndSaved
  PROVE  StorageInv'
<1>1. /\ "capture" \in Process /\ Writer \cup {"retention", "user"} \subseteq Process \ {"capture"}
      /\ "idle" \in Step
  BY DEF Process, Writer, Step
<1>2. /\ step["capture"] = "ending" /\ Rewritten /\ Go("capture", "idle") /\ Work("capture", NoJob)
      /\ UNCHANGED <<index, dirs, files, adrift, cap, crew, quick, rows, running, clock>>
  BY Rewrites DEF EndSaved, At, pipe, Rest
<1>3. /\ step' \in [Process -> Step] /\ step'["capture"] = "idle"
      /\ \A q \in Process \ {"capture"} : step'[q] = step[q]
  BY <1>1, <1>2, Goes DEF StorageInv
<1>4. /\ job' \in [Process -> Job] /\ job'["capture"] = NoJob
      /\ \A q \in Process \ {"capture"} : job'[q] = job[q]
  BY <1>1, <1>2, Works, NoJobTyped DEF StorageInv
<1>5. /\ step'["user"] = step["user"] /\ job'["user"] = job["user"]
      /\ step'["retention"] = step["retention"] /\ job'["retention"] = job["retention"]
      /\ \A w \in Writer : step'[w] = step[w] /\ job'[w] = job[w]
  BY <1>1, <1>3, <1>4
<1>6. ~Down /\ ~Down' /\ ~Creating("capture") /\ ~Creating("capture")'
  BY <1>2, <1>3 DEF Down, At, Creating
<1>7. clock \in [now : Nat, sessions : Nat, removals : Nat, crashes : Nat] /\ running \in BOOLEAN
  BY DEF StorageInv, StorageTypes
<1>. QED
  BY <1>2, <1>3, <1>4, <1>5, <1>6, <1>7, OthersTurn

(* The session that was created goes to who asked for it, and is saved.      *)
LEMMA CreatedKeeps ==
  ASSUME StorageInv, NEW p \in Creator, Created(p)
  PROVE  StorageInv'
<1>. DEFINE s == job[p].session
<1>1. /\ Writer \cup Creator \subseteq Process /\ {"idle", "insert", "extract"} \subseteq Step
      /\ Process = {"capture", "tick", "ask", "retention", "user"}
      /\ Writer = {"tick", "ask"} /\ Creator = {"capture", "ask"}
      /\ p \in Process /\ job[p] \in Job /\ s \in Nat
      /\ {cap, crew, quick} \subseteq Nat
  BY DEF Process, Step, Writer, Creator, StorageInv, StorageTypes, Job
<1>2. /\ step[p] = "saving" /\ Fill(index) /\ Rewritten
      /\ UNCHANGED <<index, dirs, files, rows, adrift, clock>>
  BY Rewrites DEF Created, At
<1>3. /\ s # 0 /\ s \notin {cap, crew, quick}
      /\ \A q \in (Writer \cup Creator) \ {p} : job[q].session # s
      /\ \A f \in files \cup adrift.shots : f[1] # s
  BY <1>2 DEF StorageInv, Listed, Creating
<1>4. /\ step' \in [Process -> Step] /\ \A q \in Process \ {p} : step'[q] = step[q]
      /\ job' \in [Process -> Job] /\ \A q \in Process \ {p} : job'[q] = job[q]
      /\ \/ p = "ask" /\ step'[p] \in {"insert", "extract"} /\ job'[p] = job[p]
         \/ p = "capture" /\ step'[p] = "idle" /\ job'[p] = NoJob
  <2>1. CASE p = "ask"
    <3>1. Go(p, Extraction(job[p])) /\ UNCHANGED job
      BY <2>1 DEF Created
    <3>2. Extraction(job[p]) \in {"insert", "extract"}
      BY DEF Extraction
    <3>. HIDE DEF Extraction
    <3>3. /\ step' \in [Process -> Step] /\ step'[p] = Extraction(job[p])
          /\ \A q \in Process \ {p} : step'[q] = step[q]
      BY <1>1, <3>1, <3>2, Goes DEF StorageInv
    <3>. QED
      BY <2>1, <3>1, <3>2, <3>3 DEF StorageInv, StorageTypes
  <2>2. CASE p = "capture"
    <3>1. Go(p, "idle") /\ Work(p, NoJob)
      BY <2>2 DEF Created, Rest
    <3>2. /\ step' \in [Process -> Step] /\ step'[p] = "idle"
          /\ \A q \in Process \ {p} : step'[q] = step[q]
      BY <1>1, <3>1, Goes DEF StorageInv
    <3>3. /\ job' \in [Process -> Job] /\ job'[p] = NoJob
          /\ \A q \in Process \ {p} : job'[q] = job[q]
      BY <1>1, <3>1, Works, NoJobTyped DEF StorageInv
    <3>. QED
      BY <2>2, <3>2, <3>3
  <2>. QED
    BY <1>1, <2>1, <2>2
<1>5. /\ cap' \in {cap, s} /\ crew' \in {crew, s} /\ quick' \in {quick, s} /\ running' \in BOOLEAN
      /\ quick' # 0 => quick' \notin {cap', crew'}
  BY <1>1, <1>3 DEF Created, StorageInv, StorageTypes, Kept
<1>6. /\ \A x : InUse(x)' => InUse(x)
      /\ \A q \in Creator : Creating(q)' => q # p /\ Creating(q)
      /\ \A x : Ongoing(x)' => Ongoing(x)
      /\ ~Down /\ ~Down'
  <2>1. \A q \in Creator : Creating(q)' => q # p /\ Creating(q)
    BY <1>1, <1>4 DEF Creating
  <2>2. ASSUME NEW x, InUse(x)'
        PROVE  InUse(x)
    BY <1>1, <1>4, <1>5, <2>2, NoJobTyped DEF InUse
  <2>3. ASSUME NEW x, Ongoing(x)'
        PROVE  Ongoing(x)
    BY <1>1, <1>2, <1>4, <1>5, <2>1, <2>3 DEF Ongoing, Saving, Creating
  <2>4. ~Down /\ ~Down'
    BY <1>1, <1>2, <1>4 DEF StorageInv, Off, Down, At
  <2>. QED
    BY <2>1, <2>2, <2>3, <2>4
<1>7. \A q \in Writer : job'[q] = job[q]
  BY <1>1, <1>4
<1>8. job'["user"] = job["user"] /\ job'["retention"] = job["retention"]
      /\ step'["user"] = step["user"] /\ step'["retention"] = step["retention"]
  BY <1>1, <1>4
<1>9. p \in Writer => job[p].shot = NoShot
  BY <1>2 DEF StorageInv, Shots
<1>. HIDE DEF s
<1>10. StorageTypes'
  BY <1>1, <1>2, <1>4, <1>5 DEF StorageInv, StorageTypes, Rewritten
<1>11. Numbered'
  <2>1. clock.sessions \in Nat /\ clock.now \in Nat /\ s <= clock.sessions
    BY <1>1 DEF StorageInv, StorageTypes, Numbered, s
  <2>2. \A q \in Process : /\ job'[q].session <= clock.sessions /\ job'[q].shot[1] <= clock.sessions
                           /\ job'[q].sessions \subseteq job[q].sessions
                           /\ job'[q].paths \subseteq job[q].paths /\ job'[q].at <= clock.now
    BY <1>1, <1>4, <2>1, NoJobTyped DEF StorageInv, Numbered
  <2>3. {cap', crew', quick'} \subseteq 0..clock.sessions
    BY <1>1, <1>5, <2>1 DEF StorageInv, Numbered
  <2>. QED
    BY <1>2, <2>2, <2>3 DEF StorageInv, Numbered, Rewritten
<1>12. Shots' /\ Off'
  <2>1. step'["tick"] = step["tick"]
    BY <1>1, <1>4
  <2>. QED
    BY <1>1, <1>2, <1>3, <1>4, <1>6, <1>7, <1>9, <2>1 DEF StorageInv, Shots, Creating, Off, s
<1>13. Listed'
  <2>1. ASSUME NEW q \in Creator, Creating(q)'
        PROVE  /\ job'[q].session # 0 /\ job'[q].session \notin {cap', crew', quick'}
               /\ \A r \in (Writer \cup Creator) \ {q} : job'[r].session # job'[q].session
               /\ \A g \in files \cup adrift.shots : g[1] # job'[q].session
    <3>1. Creating(q) /\ q # p /\ job'[q] = job[q]
      BY <1>1, <1>4, <1>6, <2>1
    <3>2. job[q].session # 0 /\ job[q].session # s
      BY <1>3, <3>1 DEF StorageInv, Listed
    <3>. QED
      BY <1>1, <1>4, <1>5, <3>1, <3>2, NoJobTyped DEF StorageInv, Listed
  <2>2. \A q \in {"retention", "user"} : At(q, "unlist")' => job'[q].session \notin dirs
    BY <1>8 DEF StorageInv, Listed, At
  <2>3. file' = "whole" => saved' = index
    BY <1>2 DEF Fill
  <2>. QED
    BY <1>2, <1>6, <2>1, <2>2, <2>3 DEF StorageInv, Listed
<1>14. Distinct'
  <2>1. \A q \in Writer : At(q, "write")' => At(q, "write")
    BY <1>1, <1>4 DEF At
  <2>2. {"tick", "ask"} \subseteq Writer
    BY <1>1
  <2>. QED
    BY <1>2, <1>7, <1>8, <2>1, <2>2 DEF StorageInv, Distinct
<1>15. Counted'
  BY <1>2, <1>6, <1>7, <1>8 DEF StorageInv, Counted
<1>16. Backed'
  BY <1>1, <1>2, <1>4, <1>7, <1>9 DEF StorageInv, Backed, OnDisk
<1>17. Kept'
  <2>1. At("capture", "end")' => /\ At("capture", "end") /\ job'["capture"] = job["capture"]
    BY <1>1, <1>4 DEF At
  <2>. QED
    BY <1>2, <1>5, <1>6, <1>8, <2>1 DEF StorageInv, Kept, At
<1>. QED
  BY <1>10, <1>11, <1>12, <1>13, <1>14, <1>15, <1>16, <1>17 DEF StorageInv

(* A session gets a number that nothing in the store, on disk or in the      *)
(* table has had before.                                                     *)
LEMMA CreateKeeps ==
  ASSUME StorageInv, NEW p \in Creator, ~Creating(p), ~At(p, "down"), NEW j \in Job,
         j.shot = NoShot, j.sessions = {}, j.paths = {}, j.at \in {0, clock.now + 1},
         Create(p, j), UNCHANGED <<rows, cap, crew, quick, adrift>>, running' \in BOOLEAN
  PROVE  StorageInv'
<1>. DEFINE n == clock.sessions
            s == n + 1
            k == [j EXCEPT !.session = s]
<1>1. /\ Writer \cup Creator \subseteq Process /\ "save" \in Step
      /\ Process = {"capture", "tick", "ask", "retention", "user"}
      /\ Writer = {"tick", "ask"} /\ Creator = {"capture", "ask"}
      /\ p \in Process /\ n \in Nat /\ s \in Nat /\ clock.now \in Nat
  BY DEF Process, Step, Writer, Creator, StorageInv, StorageTypes
<1>2. /\ dirs' = dirs \cup {s} /\ UNCHANGED <<saved, file, files, rows, cap, crew, quick, adrift>>
      /\ index' = With(index, s, [started |-> clock.now, status |-> "active", count |-> 0])
      /\ Work(p, k) /\ Go(p, "save")
      /\ clock' = [clock EXCEPT !.sessions = s, !.now = IF j.at = 0 THEN @ ELSE j.at]
  BY DEF Create
<1>3. /\ k \in Job /\ k.session = s /\ k.shot = NoShot /\ k.sessions = {} /\ k.paths = {}
      /\ k.at = j.at
  BY <1>1 DEF Job
<1>4. /\ clock' \in [now : Nat, sessions : Nat, removals : Nat, crashes : Nat]
      /\ clock'.sessions = s /\ clock'.removals = clock.removals
      /\ clock'.now \in Nat /\ clock.now <= clock'.now /\ j.at <= clock'.now
  <2>1. clock \in [now : Nat, sessions : Nat, removals : Nat, crashes : Nat]
    BY DEF StorageInv, StorageTypes
  <2>. DEFINE t == IF j.at = 0 THEN clock.now ELSE j.at
  <2>2. clock' = [clock EXCEPT !.sessions = s, !.now = t]
    BY <1>2
  <2>3. t \in Nat /\ clock.now <= t /\ j.at <= t
    BY <1>1
  <2>4. s \in Nat
    BY <1>1
  <2>. HIDE DEF t, s
  <2>5. /\ clock'.sessions = s /\ clock'.removals = clock.removals /\ clock'.now = t
        /\ clock' \in [now : Nat, sessions : Nat, removals : Nat, crashes : Nat]
    BY <2>1, <2>2, <2>3, <2>4
  <2>. QED
    BY <2>3, <2>5
<1>5. /\ step' \in [Process -> Step] /\ step'[p] = "save"
      /\ \A q \in Process \ {p} : step'[q] = step[q]
  BY <1>1, <1>2, Goes DEF StorageInv
<1>. HIDE DEF k
<1>6. /\ job' \in [Process -> Job] /\ job'[p] = k
      /\ \A q \in Process \ {p} : job'[q] = job[q]
  BY <1>1, <1>2, <1>3, Works DEF StorageInv
<1>7. /\ s \notin dirs /\ s \notin DOMAIN index /\ s \notin {cap, crew, quick} /\ s # 0
      /\ \A q \in Process : /\ job[q].session # s /\ job[q].shot[1] # s
                            /\ s \notin job[q].sessions
                            /\ \A f \in job[q].paths : f[1] # s
      /\ \A f \in files \cup adrift.shots : f[1] # s
      /\ \A r \in rows \cup adrift.rows : r.session # s /\ r.shot[1] # s
  BY <1>1 DEF StorageInv, Numbered
<1>8. /\ DOMAIN index' = DOMAIN index \cup {s} /\ index' \in [DOMAIN index \cup {s} -> Entry]
      /\ index'[s].status = "active" /\ index'[s].count = 0
      /\ \A x \in DOMAIN index : index'[x] = index[x]
  <2>. DEFINE e == [started |-> clock.now, status |-> "active", count |-> 0]
  <2>1. e \in Entry /\ e.status = "active" /\ e.count = 0
    BY <1>1 DEF Entry
  <2>. HIDE DEF e
  <2>2. index' = [x \in DOMAIN index \cup {s} |-> IF x = s THEN e ELSE index[x]]
    BY <1>2 DEF With, e
  <2>3. index \in [DOMAIN index -> Entry]
    BY DEF StorageInv, StorageTypes, List
  <2>. QED
    BY <1>7, <2>1, <2>2, <2>3
<1>9. \A x \in Nat : x <= n => x <= s /\ x # s
  BY <1>1
<1>. HIDE DEF s
<1>10. /\ \A x : InUse(x)' => InUse(x) \/ x = s
       /\ \A q \in Creator : Creating(q)' <=> q = p \/ Creating(q)
       /\ \A q \in Creator : \A x : Saving(q, x)' <=> (q = p /\ x = s) \/ (q # p /\ Saving(q, x))
       /\ \A x : Ongoing(x)' => Ongoing(x) \/ x = s
       /\ ~Down /\ ~Down'
  <2>1. ASSUME NEW x, InUse(x)', x # s
        PROVE  InUse(x)
    BY <1>1, <1>2, <1>3, <1>6, <2>1 DEF InUse
  <2>2. \A q \in Creator : Creating(q)' <=> q = p \/ Creating(q)
    BY <1>1, <1>5 DEF Creating
  <2>3. \A q \in Creator : \A x : Saving(q, x)' <=> (q = p /\ x = s) \/ (q # p /\ Saving(q, x))
    BY <1>1, <1>3, <1>5, <1>6 DEF Creating, Saving
  <2>4. ASSUME NEW x, Ongoing(x)', x # s
        PROVE  Ongoing(x)
    BY <1>2, <2>3, <2>4 DEF Ongoing
  <2>5. ~Down /\ ~Down'
    BY <1>1, <1>5 DEF StorageInv, Off, Down, At
  <2>. QED
    BY <2>1, <2>2, <2>3, <2>4, <2>5
<1>11. job'["user"] = job["user"] /\ job'["retention"] = job["retention"]
       /\ step'["user"] = step["user"] /\ step'["retention"] = step["retention"]
       /\ "user" \in Process /\ "retention" \in Process
  BY <1>1, <1>5, <1>6
<1>12. \A q \in Writer : \/ job'[q] = job[q] /\ step'[q] = step[q]
                         \/ job'[q].shot = NoShot /\ step'[q] = "save" /\ q = p
  BY <1>1, <1>3, <1>5, <1>6
<1>13. StorageTypes'
  BY <1>1, <1>2, <1>4, <1>5, <1>6, <1>8 DEF StorageInv, StorageTypes, List
<1>14. Numbered'
  <2>1. /\ dirs' \cup DOMAIN index' \cup DOMAIN saved \subseteq 1..s
        /\ {cap, crew, quick} \subseteq 0..s
        /\ \A c \in adrift.saves : DOMAIN c.list \subseteq 1..s
    <3>1. 1..n \subseteq 1..s /\ 0..n \subseteq 0..s /\ s \in 1..s
      BY <1>1 DEF s
    <3>. QED
      BY <1>2, <1>8, <3>1 DEF StorageInv, Numbered
  <2>2. ASSUME NEW q \in Process
        PROVE  /\ job'[q].session <= s /\ job'[q].shot[1] <= s
               /\ job'[q].sessions \subseteq 1..s
               /\ \A f \in job'[q].paths : f[1] <= s
               /\ job'[q].at <= clock'.now
    <3>1. CASE q = p
      <4>1. job'[q] = k /\ s <= s /\ 0 <= s
        BY <1>1, <1>6, <3>1
      <4>. QED
        BY <1>3, <1>4, <4>1, NoJobTyped
    <3>2. CASE q # p
      <4>1. job'[q] = job[q]
        BY <1>6, <3>2
      <4>2. /\ job[q].session <= n /\ job[q].shot[1] <= n /\ job[q].sessions \subseteq 1..n
            /\ \A f \in job[q].paths : f[1] <= n
            /\ job[q].at <= clock.now
        BY DEF StorageInv, Numbered
      <4>3. /\ job[q] \in Job /\ job[q].session \in Nat /\ job[q].shot[1] \in Nat
            /\ \A f \in job[q].paths : f[1] \in Nat
            /\ job[q].at \in Nat
        <5>1. job[q] \in Job
          BY DEF StorageInv, StorageTypes
        <5>2. job[q].session \in Nat /\ job[q].shot \in Shot /\ job[q].paths \subseteq Shot /\ job[q].at \in Nat
          BY <5>1 DEF Job
        <5>. QED
          BY <5>1, <5>2 DEF Shot
      <4>4. job[q].sessions \subseteq 1..s
        BY <1>1, <4>2 DEF s
      <4>5. job[q].at <= clock'.now
        BY <1>1, <1>4, <4>2, <4>3
      <4>. QED
        BY <1>9, <4>1, <4>2, <4>3, <4>4, <4>5
    <3>. QED
      BY <3>1, <3>2
  <2>3. \A f \in files \cup adrift.shots : f[1] <= s
    BY <1>9 DEF StorageInv, StorageTypes, Numbered, Shot
  <2>4. ASSUME NEW r \in rows \cup adrift.rows
        PROVE  r.session <= s /\ r.shot[1] <= s /\ r.at <= clock'.now
    <3>1. r \in Row /\ r.session <= n /\ r.shot[1] <= n /\ r.at <= clock.now
      BY DEF StorageInv, StorageTypes, Numbered
    <3>2. r.session \in Nat /\ r.shot[1] \in Nat /\ r.at \in Nat
      BY <3>1 DEF Row, Shot
    <3>3. r.at <= clock'.now
      BY <1>1, <1>4, <3>1, <3>2
    <3>. QED
      BY <1>9, <3>1, <3>2, <3>3
  <2>. QED
    BY <1>2, <1>4, <2>1, <2>2, <2>3, <2>4 DEF Numbered
<1>15. Shots' /\ Off'
  <2>1. step'["tick"] = step["tick"]
    BY <1>1, <1>5
  <2>. QED
    BY <1>2, <1>10, <1>12, <2>1 DEF StorageInv, Shots, Creating, Off
<1>16. Listed'
  <2>1. ASSUME NEW q \in Creator, Creating(q)'
        PROVE  /\ job'[q].session # 0 /\ job'[q].session \notin {cap, crew, quick}
               /\ \A r \in (Writer \cup Creator) \ {q} : job'[r].session # job'[q].session
               /\ \A g \in files \cup adrift.shots : g[1] # job'[q].session
    <3>1. CASE q = p
      BY <1>1, <1>3, <1>6, <1>7, <3>1
    <3>2. CASE q # p
      <4>1. Creating(q) /\ job'[q] = job[q]
        BY <1>1, <1>6, <1>10, <2>1, <3>2
      <4>2. job[q].session # s
        BY <1>1, <1>7
      <4>. QED
        BY <1>1, <1>3, <1>6, <4>1, <4>2 DEF StorageInv, Listed
    <3>. QED
      BY <3>1, <3>2
  <2>2. \A q \in {"retention", "user"} : At(q, "unlist")' => job'[q].session \notin dirs'
    BY <1>2, <1>7, <1>11 DEF StorageInv, Listed, At
  <2>3. ASSUME ~adrift.overtaken, file = "whole"
        PROVE  \A x \in DOMAIN index' : x \in DOMAIN saved \/ \E q \in Creator : Saving(q, x)'
    <3>. SUFFICES ASSUME NEW x \in DOMAIN index, x \notin DOMAIN saved
                  PROVE  \E q \in Creator : Saving(q, x)'
      BY <1>8, <1>10
    <3>1. PICK q \in Creator : Saving(q, x)
      BY <2>3 DEF StorageInv, Listed
    <3>2. q # p
      BY <3>1 DEF Saving
    <3>. QED
      BY <1>10, <3>1, <3>2
  <2>4. \A x \in dirs' : InUse(x)' => x \in DOMAIN index'
    BY <1>2, <1>8, <1>10 DEF StorageInv, Listed
  <2>5. /\ \A g \in files : g[1] \in dirs'
        /\ ~adrift.overtaken =>
             \A g \in files \cup adrift.shots : g[1] \in dirs' => g[1] \in DOMAIN index'
    BY <1>2, <1>7, <1>8, <1>10 DEF StorageInv, Listed
  <2>. QED
    BY <1>2, <1>10, <2>1, <2>2, <2>3, <2>4, <2>5 DEF Listed
<1>17. Distinct'
  <2>1. \A q \in Writer : At(q, "write")' => At(q, "write") /\ job'[q] = job[q]
    BY <1>12 DEF At
  <2>2. {"tick", "ask"} \subseteq Writer
    BY <1>1
  <2>3. \A q \in Writer : job'[q].shot = NoShot \/ job'[q].shot = job[q].shot
    BY <1>12
  <2>. QED
    BY <1>2, <1>11, <2>1, <2>2, <2>3 DEF StorageInv, Distinct
<1>18. Counted'
  <2>. SUFFICES ASSUME NEW x \in DOMAIN index', InUse(x)'
                PROVE  /\ \A r \in rows \cup adrift.rows : r.shot[1] = x => r.shot[2] <= index'[x].count
                       /\ \A q \in Writer : job'[q].shot[1] = x => job'[q].shot[2] <= index'[x].count
                       /\ \A g \in files \cup adrift.shots \cup job'["user"].paths : g[1] = x => g[2] <= index'[x].count
    BY <1>2 DEF Counted
  <2>1. CASE x = s
    <3>1. \A q \in Writer : job'[q].shot[1] # s
      BY <1>1, <1>7, <1>12, NoJobTyped
    <3>. QED
      BY <1>7, <1>11, <2>1, <3>1
  <2>2. CASE x # s
    <3>1. x \in DOMAIN index /\ InUse(x) /\ index'[x] = index[x] /\ x # 0
      BY <1>8, <1>10, <2>2 DEF InUse
    <3>2. /\ \A r \in rows \cup adrift.rows : r.shot[1] = x => r.shot[2] <= index[x].count
          /\ \A q \in Writer : job[q].shot[1] = x => job[q].shot[2] <= index[x].count
          /\ \A g \in files \cup adrift.shots \cup job["user"].paths : g[1] = x => g[2] <= index[x].count
      BY <3>1 DEF StorageInv, Counted
    <3>. QED
      BY <1>11, <1>12, <3>1, <3>2, NoJobTyped
  <2>. QED
    BY <2>1, <2>2
<1>19. Backed'
  <2>1. \A r \in rows \cup adrift.rows : r.session \in dirs' => r.session \in dirs
    BY <1>2, <1>7
  <2>2. \A q \in Writer : step'[q] \in {"flush", "flushing", "insert"} =>
          job'[q] = job[q] /\ step'[q] = step[q] /\ (job[q].session \in dirs' => job[q].session \in dirs)
    BY <1>1, <1>2, <1>7, <1>12
  <2>. QED
    BY <1>2, <2>1, <2>2 DEF StorageInv, Backed, OnDisk
<1>20. Kept'
  <2>1. \A x \in DOMAIN index' : Ongoing(x)' => index'[x].status = "active"
    BY <1>8, <1>10 DEF StorageInv, Kept
  <2>2. s \notin job["retention"].sessions /\ s # job["retention"].session
    BY <1>7, <1>11
  <2>3. \A x \in job'["retention"].sessions : ~Ongoing(x)'
    BY <1>10, <1>11, <2>2 DEF StorageInv, Kept
  <2>4. /\ At("retention", "unlist")' => (~Ongoing(job["retention"].session))'
        /\ At("capture", "end")' => (~Ongoing(job["capture"].session))'
    <3>1. At("capture", "end")' => At("capture", "end") /\ job'["capture"] = job["capture"]
      BY <1>1, <1>5, <1>6 DEF At
    <3>. QED
      BY <1>1, <1>7, <1>10, <1>11, <2>2, <3>1 DEF StorageInv, Kept, At
  <2>5. ASSUME clock.removals = 0, NEW x \in 1..s, Ongoing(x)'
        PROVE  x \in dirs' \cap DOMAIN index'
    <3>1. x = s \/ x \in 1..n
      BY <1>1 DEF s
    <3>. QED
      BY <1>2, <1>8, <1>10, <2>5, <3>1 DEF StorageInv, Kept
  <2>. QED
    BY <1>2, <1>4, <1>11, <2>1, <2>3, <2>4, <2>5 DEF StorageInv, Kept, At
<1>. QED
  BY <1>13, <1>14, <1>15, <1>16, <1>17, <1>18, <1>19, <1>20 DEF StorageInv

LEMMA StartKeeps ==
  ASSUME StorageInv, Start
  PROVE  StorageInv'
<1>1. /\ "capture" \in Creator /\ ~Creating("capture") /\ ~At("capture", "down")
      /\ running' \in BOOLEAN
  BY DEF Creator, Start, At, Creating
<1>2. Create("capture", NoJob) /\ UNCHANGED <<rows, cap, crew, quick, adrift>>
  BY DEF Start
<1>. QED
  BY <1>1, <1>2, NoJobTyped, CreateKeeps

LEMMA AskKeeps ==
  ASSUME StorageInv, NEW front \in Screen, Ask(front)
  PROVE  StorageInv'
<1>. DEFINE s == IF cap # 0 THEN cap ELSE quick
            j == [NoJob EXCEPT !.session = s, !.screen = front, !.at = clock.now + 1]
<1>1. /\ "ask" \in Writer /\ "ask" \in Creator /\ ~Creating("ask") /\ ~At("ask", "down")
      /\ s \in {cap, quick} /\ s \in Nat
      /\ clock \in [now : Nat, sessions : Nat, removals : Nat, crashes : Nat]
      /\ clock.now \in Nat /\ clock.now + 1 \in Nat
      /\ UNCHANGED <<rows, pipe, adrift>>
  BY DEF Ask, StorageInv, StorageTypes, Writer, Creator, At, Creating
<1>2. /\ s = 0 => Create("ask", j)
      /\ s # 0 => /\ Work("ask", j) /\ Go("ask", Extraction(j)) /\ UNCHANGED store
                  /\ clock' = [clock EXCEPT !.now = @ + 1]
  BY DEF Ask
<1>. HIDE DEF s
<1>3. /\ j \in Job /\ j.session = s /\ j.shot = NoShot /\ j.sessions = {} /\ j.paths = {}
      /\ j.at = clock.now + 1
  BY <1>1, NoJobTyped DEF Job
<1>. HIDE DEF j
<1>4. CASE s = 0
  <2>1. UNCHANGED <<rows, cap, crew, quick, adrift>> /\ running' \in BOOLEAN
    BY <1>1 DEF pipe, StorageInv, StorageTypes
  <2>. QED
    BY <1>1, <1>2, <1>3, <1>4, <2>1, CreateKeeps
<1>5. CASE s # 0
  <2>1. Extraction(j) \in {"insert", "extract"}
    BY DEF Extraction
  <2>2. /\ clock' \in [now : Nat, sessions : Nat, removals : Nat, crashes : Nat]
        /\ clock'.sessions = clock.sessions /\ clock'.removals = clock.removals
        /\ clock'.now = clock.now + 1
    BY <1>1, <1>2, <1>5
  <2>3. clock.now <= clock'.now /\ j.at <= clock'.now
    BY <1>1, <1>3, <2>2
  <2>4. UNCHANGED <<store, rows, pipe, adrift>>
    BY <1>1, <1>2, <1>5
  <2>. HIDE DEF Extraction
  <2>. QED
    BY <1>1, <1>2, <1>3, <1>5, <2>1, <2>2, <2>3, <2>4, WriterTurns DEF OnDisk
<1>. QED
  BY <1>4, <1>5

(* The next boot finds what sessions.json lists and everybody at rest, or it *)
(* finds no list, and there is no app.                                       *)
LEMMA CrashKeeps ==
  ASSUME StorageInv, Crash
  PROVE  StorageInv'
<1>1. /\ Writer \cup Creator \subseteq Process /\ {"idle", "down"} \subseteq Step
      /\ Process = {"capture", "tick", "ask", "retention", "user"}
      /\ Writer = {"tick", "ask"} /\ Creator = {"capture", "ask"}
  BY DEF Process, Step, Writer, Creator
<1>2. /\ running' = FALSE /\ cap' = 0 /\ crew' = 0 /\ quick' = 0
      /\ UNCHANGED <<dirs, files, rows>>
      /\ job' \in [Process -> Job] /\ \A p \in Process : job'[p] = NoJob
  BY NoJobTyped DEF Crash
<1>3. /\ adrift'.rows = {} /\ adrift'.shots = {} /\ adrift'.saves = {}
      /\ adrift'.overtaken = adrift.overtaken
      /\ adrift' = [rows |-> adrift'.rows, shots |-> adrift'.shots, saves |-> adrift'.saves,
                    overtaken |-> adrift'.overtaken]
  BY DEF Crash, Calm
<1>4. \/ /\ file = "whole" /\ file' = "whole" /\ saved' = index'
         /\ DOMAIN index' = DOMAIN saved /\ List(index')
         /\ step' \in [Process -> Step] /\ \A p \in Process : step'[p] = "idle"
      \/ /\ index' = <<>> /\ DOMAIN index' = {} /\ List(index') /\ saved' = saved
         /\ file' \in {"empty", "mixed"}
         /\ step' \in [Process -> Step] /\ \A p \in Process : step'[p] = "down"
  <2>. DEFINE i == [x \in DOMAIN saved |->
                      IF saved[x].status = "active" THEN [saved[x] EXCEPT !.status = "aborted"]
                      ELSE saved[x]]
  <2>1. \A x \in DOMAIN saved : saved[x] \in Entry /\ [saved[x] EXCEPT !.status = "aborted"] \in Entry
    BY DEF StorageInv, StorageTypes, Entry, List
  <2>2. DOMAIN i = DOMAIN saved /\ List(i)
    BY <2>1 DEF List
  <2>3. \/ file = "whole" /\ index' = i /\ saved' = i /\ file' = file
           /\ step' = [p \in Process |-> "idle"]
        \/ index' = <<>> /\ saved' = saved /\ file' = (IF file = "whole" THEN "empty" ELSE file)
           /\ step' = [p \in Process |-> "down"]
    BY DEF Crash
  <2>. HIDE DEF i
  <2>4. <<>> \in [{} -> Entry] /\ DOMAIN <<>> = {}
    OBVIOUS
  <2>5. file \in {"whole", "empty", "mixed"}
    BY DEF StorageInv, StorageTypes
  <2>. QED
    BY <1>1, <2>2, <2>3, <2>4, <2>5 DEF List
<1>5. /\ clock' \in [now : Nat, sessions : Nat, removals : Nat, crashes : Nat]
      /\ clock'.sessions = clock.sessions /\ clock'.now = clock.now
      /\ clock.sessions \in Nat /\ clock.now \in Nat
  <2>1. clock \in [now : Nat, sessions : Nat, removals : Nat, crashes : Nat]
    BY DEF StorageInv, StorageTypes
  <2>2. clock' = [clock EXCEPT !.crashes = @ + 1]
    BY DEF Crash
  <2>. QED
    BY <2>1, <2>2
<1>6. /\ \A x : ~InUse(x)' /\ ~Ongoing(x)'
      /\ \A p \in Process : ~Creating(p)' /\ step'[p] \in {"idle", "down"}
  BY <1>1, <1>2, <1>4, NoJobTyped DEF InUse, Ongoing, Saving, Creating
<1>7. StorageTypes'
  <2>1. /\ DOMAIN index' \subseteq Nat /\ List(saved)' /\ List(index)'
        /\ file' \in {"whole", "empty", "mixed"} /\ step' \in [Process -> Step]
    BY <1>4 DEF StorageInv, StorageTypes, Numbered, List
  <2>. QED
    BY <1>2, <1>3, <1>5, <2>1 DEF StorageInv, StorageTypes
<1>8. Numbered'
  <2>1. DOMAIN index' \cup DOMAIN saved' \subseteq 1..clock.sessions
    BY <1>4 DEF StorageInv, Numbered
  <2>2. {cap', crew', quick'} \subseteq 0..clock.sessions
    BY <1>2, <1>5
  <2>3. \A q \in Process : /\ job'[q].session <= clock.sessions /\ job'[q].shot[1] <= clock.sessions
                           /\ job'[q].sessions = {} /\ job'[q].paths = {} /\ job'[q].at <= clock.now
    BY <1>2, <1>5, NoJobTyped
  <2>. QED
    BY <1>2, <1>3, <1>5, <2>1, <2>2, <2>3 DEF StorageInv, Numbered
<1>9. Shots'
  BY <1>1, <1>2, <1>3, <1>6, NoJobTyped DEF StorageInv, Shots
<1>10. Off'
  BY <1>1, <1>3, <1>4 DEF Off, Down, At
<1>11. Listed'
  <2>1. ASSUME file = "whole", ~adrift.overtaken, NEW f \in files
        PROVE  f[1] \in DOMAIN saved
    BY <1>1, <2>1 DEF StorageInv, Off, Listed, Saving
  <2>2. ~adrift'.overtaken /\ file' = "whole" => DOMAIN index' = DOMAIN saved'
    BY <1>4
  <2>3. ~Down' /\ ~adrift'.overtaken => \A f \in files : f[1] \in DOMAIN index'
    BY <1>1, <1>3, <1>4, <2>1 DEF Down, At
  <2>4. \A f \in files' : f[1] \in dirs'
    BY <1>2 DEF StorageInv, Listed
  <2>. QED
    BY <1>1, <1>2, <1>3, <1>6, <2>2, <2>3, <2>4 DEF Listed, At
<1>12. Distinct'
  <2>1. {"tick", "ask"} \subseteq Writer /\ {"tick", "ask", "user"} \subseteq Process
    BY <1>1
  <2>2. /\ \A p \in Writer : job'[p].shot = NoShot /\ ~At(p, "write")'
        /\ job'["user"].paths = {}
    BY <1>1, <1>2, <1>6, NoJobTyped DEF At
  <2>. QED
    BY <1>2, <1>3, <2>1, <2>2 DEF StorageInv, Distinct
<1>13. Counted'
  BY <1>6 DEF Counted
<1>14. Backed'
  BY <1>1, <1>2, <1>3, <1>6 DEF StorageInv, Backed, OnDisk
<1>15. Kept'
  BY <1>1, <1>2, <1>6 DEF Kept, At
<1>. QED
  BY <1>7, <1>8, <1>9, <1>10, <1>11, <1>12, <1>13, <1>14, <1>15 DEF StorageInv

-----------------------------------------------------------------------------
(* The invariant, and what it says of every behaviour *)

LEMMA StorageInit ==
  ASSUME Init
  PROVE  StorageInv
<1>1. /\ DOMAIN index = {} /\ DOMAIN saved = {} /\ List(index) /\ List(saved) /\ file = "whole"
  BY DEF Init, List
<1>2. /\ dirs = {} /\ files = {} /\ rows = {}
      /\ adrift.rows = {} /\ adrift.shots = {} /\ adrift.saves = {}
      /\ adrift = [rows |-> adrift.rows, shots |-> adrift.shots, saves |-> adrift.saves,
                   overtaken |-> adrift.overtaken]
      /\ cap = 0 /\ crew = 0 /\ quick = 0 /\ running \in BOOLEAN
      /\ clock \in [now : Nat, sessions : Nat, removals : Nat, crashes : Nat]
      /\ clock.sessions = 0 /\ clock.now = 0
  BY DEF Init, Calm
<1>3. /\ step \in [Process -> Step] /\ \A p \in Process : step[p] = "idle"
      /\ job \in [Process -> Job] /\ \A p \in Process : job[p] = NoJob
  BY NoJobTyped DEF Init, Step
<1>4. /\ Writer \cup Creator \subseteq Process
      /\ {"capture", "user", "retention", "tick", "ask"} \subseteq Process
      /\ "tick" \in Writer /\ "ask" \in Writer
  BY DEF Process, Writer, Creator
<1>5. /\ \A x : ~InUse(x) /\ ~Ongoing(x)
      /\ \A p \in Process : ~Creating(p)
      /\ ~Down
  BY <1>2, <1>3, <1>4, NoJobTyped DEF InUse, Ongoing, Saving, Creating, Down, At
<1>6. StorageTypes
  BY <1>1, <1>2, <1>3 DEF StorageTypes
<1>7. Numbered /\ Shots /\ Off
  BY <1>1, <1>2, <1>3, <1>4, <1>5, NoJobTyped DEF Numbered, Shots, Off
<1>8. Listed /\ Counted
  BY <1>1, <1>2, <1>3, <1>4, <1>5 DEF Listed, Counted, At
<1>9. Distinct /\ Backed
  BY <1>2, <1>3, <1>4, NoJobTyped DEF Distinct, Backed, OnDisk, At
<1>10. Kept
  BY <1>1, <1>2, <1>3, <1>4, <1>5, NoJobTyped DEF Kept, At
<1>. QED
  BY <1>6, <1>7, <1>8, <1>9, <1>10 DEF StorageInv

LEMMA StorageStays ==
  ASSUME StorageInv, UNCHANGED vars
  PROVE  StorageInv'
<1>1. UNCHANGED <<index, saved, file, dirs, files, rows, running, cap, crew, quick, step, job, adrift, clock>>
  BY DEF vars, store, pipe
<1>2. /\ \A x : (InUse(x)' <=> InUse(x)) /\ (Ongoing(x)' <=> Ongoing(x))
      /\ \A p, x : (Saving(p, x)' <=> Saving(p, x)) /\ (Creating(p)' <=> Creating(p))
      /\ Down' <=> Down
  BY <1>1 DEF InUse, Ongoing, Saving, Creating, Down, At
<1>3. StorageTypes' /\ Numbered' /\ Shots' /\ Off'
  BY <1>1, <1>2 DEF StorageInv, StorageTypes, Numbered, Shots, Off
<1>4. Listed' /\ Counted'
  BY <1>1, <1>2 DEF StorageInv, Listed, Counted, At
<1>5. Distinct' /\ Backed'
  BY <1>1 DEF StorageInv, Distinct, Backed, OnDisk, At
<1>6. Kept'
  BY <1>1, <1>2 DEF StorageInv, Kept, At
<1>. QED
  BY <1>3, <1>4, <1>5, <1>6 DEF StorageInv

LEMMA StorageStep ==
  ASSUME StorageInv, [Next]_vars
  PROVE  StorageInv'
<1>1. ASSUME NEW p \in Process, Open(p)
      PROVE  StorageInv'
  BY <1>1, SaveGoesOn
<1>2. ASSUME NEW p \in {"capture", "ask"}, Created(p)
      PROVE  StorageInv'
  BY <1>2, CreatedKeeps DEF Creator
<1>3. CASE Start \/ Stop \/ Shutdown \/ EndSession \/ EndSaved \/ Land
  BY <1>3, StartKeeps, StopKeeps, ShutdownKeeps, EndSessionKeeps, EndSavedKeeps,
     LandRowKeeps, LandShotKeeps, LandSaveKeeps DEF Land
<1>4. ASSUME NEW front \in Screen, Tick(front) \/ Ask(front)
      PROVE  StorageInv'
  BY <1>4, TickKeeps, AskKeeps
<1>5. CASE Look \/ Bump
  BY <1>5, LookKeeps, BumpKeeps
<1>6. ASSUME NEW p \in Writer, Capture(p)
      PROVE  StorageInv'
  BY <1>6, WriterKeeps, ShootKeeps, WriteKeeps, SaveGoesOn, InsertKeeps DEF Capture, Process, Writer
<1>7. CASE Retention
  BY <1>7, SweepKeeps, DeleteDirKeeps, UnlistKeeps, UnlistedKeeps DEF Retention, Remove
<1>8. CASE User
  BY <1>8, UserKeeps, UnlinkKeeps, DeleteDirKeeps, UnlistKeeps, UnlistedKeeps DEF User, Remove
<1>9. CASE Crash
  BY <1>9, CrashKeeps
<1>10. CASE UNCHANGED vars
  BY <1>10, StorageStays
<1>. QED
  BY <1>1, <1>2, <1>3, <1>4, <1>5, <1>6, <1>7, <1>8, <1>9, <1>10 DEF Next

(* Whatever the order of captures, quick asks, removals and crashes: the     *)
(* store's types and the parts of the invariant above.                       *)
THEOREM StorageKeepsInv == Spec => []StorageInv
<1>1. Init => StorageInv
  BY StorageInit
<1>2. StorageInv /\ [Next]_vars => StorageInv'
  BY StorageStep
<1>. QED
  BY <1>1, <1>2, PTL DEF Spec

(* Every screenshot on disk lies in the directory of a session that the      *)
(* index lists, and sessions.json whenever it is whole: create_session saves *)
(* before its caller goes on, delete_session removes the directory first.    *)
(* Excepted are an app that a crash in the middle of a save has left without *)
(* a list, and a session that an aborted tick's save has overtaken.          *)
THEOREM NoShotIsOrphaned == Spec => []ShotsAreListed
<1>1. StorageInv => ShotsAreListed
  <2>. SUFFICES ASSUME StorageInv, NEW f \in files
                PROVE  /\ f[1] \in dirs
                       /\ ~Down /\ ~adrift.overtaken =>
                            /\ f[1] \in DOMAIN index
                            /\ file = "whole" => f[1] \in DOMAIN saved
    BY DEF ShotsAreListed
  <2>1. f[1] \in dirs
    BY DEF StorageInv, Listed
  <2>2. \A p \in Creator : ~Saving(p, f[1])
    BY DEF StorageInv, Listed, Saving
  <2>. QED
    BY <2>1, <2>2 DEF StorageInv, Listed
<1>. QED
  BY <1>1, StorageKeepsInv, PTL

(* save_screenshot never gives a number that a frame in the table, on its    *)
(* way there or still being captured has, and overwrites no file: not with   *)
(* two writers in one session, and not after a crash that lost the counts.   *)
THEOREM NumbersAreOwn == Spec => []ShotsAreOwn
<1>1. StorageInv => ShotsAreOwn
  <2>. SUFFICES ASSUME StorageInv
                PROVE  ShotsAreOwn
    OBVIOUS
  <2>1. \A p \in Writer : At(p, "write") => job[p].shot \notin files \cup adrift.shots
    BY DEF StorageInv, Distinct
  <2>2. ASSUME NEW r \in Holding, NEW q \in Holding, r.shot = q.shot, r.shot # NoShot
        PROVE  r.at = q.at
    <3>. DEFINE On == {w \in Writer : job[w].shot # NoShot}
    <3>1. \A p : RowOf(job[p]).shot = job[p].shot /\ RowOf(job[p]).at = job[p].at
      BY DEF RowOf
    <3>2. /\ r \in rows \cup adrift.rows \/ \E p \in On : r = RowOf(job[p])
          /\ q \in rows \cup adrift.rows \/ \E p \in On : q = RowOf(job[p])
      BY DEF Holding
    <3>3. CASE r \in rows \cup adrift.rows /\ q \in rows \cup adrift.rows
      BY <2>2, <3>3 DEF StorageInv, Distinct
    <3>4. CASE r \in rows \cup adrift.rows /\ \E p \in On : q = RowOf(job[p])
      BY <2>2, <3>1, <3>4 DEF StorageInv, Distinct
    <3>5. CASE q \in rows \cup adrift.rows /\ \E p \in On : r = RowOf(job[p])
      BY <2>2, <3>1, <3>5 DEF StorageInv, Distinct
    <3>6. ASSUME NEW u \in On, NEW v \in On, r = RowOf(job[u]), q = RowOf(job[v])
          PROVE  r.at = q.at
      BY <2>2, <3>1, <3>6 DEF StorageInv, Distinct, Writer
    <3>. QED
      BY <3>2, <3>3, <3>4, <3>5, <3>6
  <2>3. adrift.shots \cap files = {}
    BY DEF StorageInv, Distinct
  <2>. QED
    BY <2>1, <2>2, <2>3 DEF ShotsAreOwn
<1>. QED
  BY <1>1, StorageKeepsInv, PTL

(* As long as its session's directory is there, a row with a screenshot has  *)
(* the file: run_ocr_fallback writes it before the row is inserted, and      *)
(* data_delete_range takes the rows first, whenever the app crashes.         *)
THEOREM RowsKeepTheirFile == Spec => []RowsHaveShots
<1>1. StorageInv => RowsHaveShots
  BY DEF StorageInv, Backed, OnDisk, RowsHaveShots
<1>. QED
  BY <1>1, StorageKeepsInv, PTL

(* delete_older_than leaves alone the sessions that capture and quick asks   *)
(* write to, however long they last.                                         *)
THEOREM RetentionSparesWriters == Spec => []WritersKeepTheirSession
<1>1. StorageInv => WritersKeepTheirSession
  <2>. SUFFICES ASSUME StorageInv, clock.removals = 0, NEW s \in {cap, crew, quick}, s # 0
                PROVE  s \in dirs \cap DOMAIN index
    BY DEF WritersKeepTheirSession
  <2>1. s \in 1..clock.sessions
    BY DEF StorageInv, StorageTypes, Numbered
  <2>2. Ongoing(s)
    BY DEF Ongoing
  <2>. QED
    BY <2>1, <2>2 DEF StorageInv, Kept
<1>. QED
  BY <1>1, StorageKeepsInv, PTL
=============================================================================
