----------------------------- MODULE CaptureStorage -----------------------------
(* Where captured frames are kept, and how they go: the session index and   *)
(* the screenshots of capture_store.rs, the rows of db/repos/frames.rs, the *)
(* two writers of frames (the job runner's tick and a quick ask, both in    *)
(* capture_pipeline/mod.rs), and what removes them: retention/mod.rs and    *)
(* three commands of commands/settings.rs.  No lock but the index's is held *)
(* for longer than a step, and the app may crash between any two.  Starts   *)
(* and stops that overlap are CapturePipeline's subject: here they come in  *)
(* turn.                                                                    *)
EXTENDS Integers, FiniteSets

CONSTANTS
  Screen,      \* app, title and url, as far as deduplication compares them
  Excluded,    \* the screens of apps the user has excluded
  SaveEvery,   \* every so many screenshots of a session the index is saved
  KeepFor,     \* RETENTION_DAYS; time is counted in captures
  MaxSessions, MaxFrames, MaxRemovals, MaxCrashes   \* bounds of a run

ASSUME StorageAssumption ==
  /\ Excluded \subseteq Screen /\ SaveEvery \in Nat \ {0}
  /\ {KeepFor, MaxSessions, MaxFrames, MaxRemovals, MaxCrashes} \subseteq Nat

VARIABLES
  index,    \* the store's index: start, status and screenshot_count of its sessions
  saved,    \* what the save that finished last has written to sessions.json
  file,     \* "whole" if that is what it holds; "empty" from a save's first half to its second;
            \* "mixed" once two saves have written over each other
  dirs,     \* session directories
  files,    \* screenshots on disk: <<session, sequence>>
  rows,     \* the table frames
  running,  \* the pipeline's flag
  cap,      \* the pipeline's session_id, 0 for none
  crew,     \* the session the job runner at work writes to, 0 if there is none
  quick,    \* quick_ask_session, 0 for none
  step,     \* what each process does next
  job,      \* and what it does it with
  adrift,   \* what aborted ticks had handed to other threads: rows, screenshots and saves, and
            \* whether such a save has overtaken a session that is not on its list
  clock     \* the captured_at given last, and how many sessions, removals and crashes there were

store == <<index, saved, file, dirs, files>>
pipe  == <<running, cap, crew, quick>>
vars  == <<store, rows, pipe, step, job, adrift, clock>>

Session == 1..MaxSessions
Writer  == {"tick", "ask"}
Process == Writer \cup {"capture", "retention", "user"}
NoShot  == <<0, 0>>
NoJob   == [session |-> 0, screen |-> "", at |-> 0, last |-> 0, shot |-> NoShot,
            sessions |-> {}, paths |-> {}, wipe |-> FALSE]
Calm    == [rows |-> {}, shots |-> {}, saves |-> {}, overtaken |-> FALSE]

Init ==
  /\ index = <<>> /\ saved = <<>> /\ file = "whole" /\ dirs = {} /\ files = {} /\ rows = {}
  /\ running = FALSE /\ cap = 0 /\ crew = 0 /\ quick = 0
  /\ step = [p \in Process |-> "idle"] /\ job = [p \in Process |-> NoJob]
  /\ adrift = Calm
  /\ clock = [now |-> 0, sessions |-> 0, removals |-> 0, crashes |-> 0]

At(p, s)      == step[p] = s
Go(p, s)      == step' = [step EXCEPT ![p] = s]
Work(p, j)    == job' = [job EXCEPT ![p] = j]
Rest(p)       == Go(p, "idle") /\ Work(p, NoJob)
With(f, s, e) == [x \in DOMAIN f \cup {s} |-> IF x = s THEN e ELSE f[x]]
Without(f, S) == [x \in DOMAIN f \ S |-> f[x]]

-----------------------------------------------------------------------------
(* save_index: hold the index for reading and truncate sessions.json, ...   *)

Open(p) ==
  /\ \/ At(p, "save") /\ Go(p, "saving")
     \/ At(p, "flush") /\ Go(p, "flushing")
  /\ file' = "empty"
  /\ UNCHANGED <<index, saved, dirs, files, rows, pipe, job, adrift, clock>>

(* ... then write the list into it.  Over another list, the end of that one *)
(* stays if it is the longer one.                                           *)
Fill(list) ==
  \/ file' = "whole" /\ saved' = list
  \/ /\ file = "mixed" \/ (file = "whole" /\ saved # list)
     /\ file' = "mixed" /\ UNCHANGED saved

(* Nobody reads the index for a save: it may be written. *)
Unlocked == \A p \in Process : step[p] \notin {"saving", "flushing", "ending", "unlisting"}

-----------------------------------------------------------------------------
(* Sessions: create_session, start, stop                                    *)

(* Process p begins create_session for job j: directory and entry.  A crash *)
(* before sessions.json is saved leaves an empty directory.                 *)
Create(p, j) ==
  LET s == clock.sessions + 1
  IN  /\ s \in Session /\ Unlocked
      /\ dirs' = dirs \cup {s}
      /\ index' = With(index, s, [started |-> clock.now, status |-> "active", count |-> 0])
      /\ clock' = [clock EXCEPT !.sessions = s, !.now = IF j.at = 0 THEN @ ELSE j.at]
      /\ Work(p, [j EXCEPT !.session = s])
      /\ Go(p, "save")
      /\ UNCHANGED <<saved, file, files>>

(* An excluded app gets a row that says so, and nothing else. *)
Extraction(j) == IF j.screen \in Excluded THEN "insert" ELSE "extract"

(* Fault: sessions.json is written from the list as it was before. *)
FaultUnsaved(p) ==
  /\ At(p, "saving")
  /\ Fill(Without(index, {job[p].session}))
  /\ IF p = "ask"
     THEN quick' = job[p].session /\ Go(p, Extraction(job[p])) /\ UNCHANGED <<running, cap, crew, job>>
     ELSE cap' = job[p].session /\ crew' = job[p].session /\ Rest(p) /\ UNCHANGED <<running, quick>>
  /\ UNCHANGED <<index, dirs, files, rows, adrift, clock>>

(* The index is saved; a quick ask goes on with its session, and start sets *)
(* up its sources and its runner.                                           *)
Created(p) ==
  /\ At(p, "saving")
  /\ Fill(index)
  /\ IF p = "ask"
     THEN quick' = job[p].session /\ Go(p, Extraction(job[p])) /\ UNCHANGED <<running, cap, crew, job>>
     ELSE cap' = job[p].session /\ crew' = job[p].session /\ Rest(p) /\ UNCHANGED <<running, quick>>
  /\ UNCHANGED <<index, dirs, files, rows, adrift, clock>>

Start ==
  /\ At("capture", "idle") /\ ~running
  /\ running' = TRUE
  /\ Create("capture", NoJob)
  /\ UNCHANGED <<rows, cap, crew, quick, adrift>>

Stop ==
  /\ At("capture", "idle") /\ running
  /\ running' = FALSE
  /\ Go("capture", "shutdown")
  /\ UNCHANGED <<store, rows, cap, crew, quick, job, adrift, clock>>

RowOf(j) == [session |-> j.session, screen |-> j.screen, at |-> j.at, shot |-> j.shot,
             until |-> j.at]

(* The tick waits for a call on another thread, which no abort can stop any *)
(* more: an insert, a screenshot, or a save.                                *)
LeftBehind ==
  \/ At("tick", "insert") /\ adrift' = [adrift EXCEPT !.rows = @ \cup {RowOf(job["tick"])}]
  \/ At("tick", "write") /\ adrift' = [adrift EXCEPT !.shots = @ \cup {job["tick"].shot}]
  \/ /\ step["tick"] \in {"flush", "flushing"}
     /\ adrift' = [adrift EXCEPT !.saves = @ \cup {[list |-> index, opened |-> At("tick", "flushing")]}]

(* The rest of stop: the runner is aborted in the middle of a tick, ...     *)
Shutdown ==
  /\ At("capture", "shutdown")
  /\ step' = [step EXCEPT !["capture"] = "end", !["tick"] = "idle"]
  /\ job' = [job EXCEPT !["capture"] = [@ EXCEPT !.session = cap], !["tick"] = NoJob]
  /\ cap' = 0 /\ crew' = 0
  /\ LeftBehind \/ (~At("tick", "flushing") /\ UNCHANGED adrift)
  /\ UNCHANGED <<store, rows, running, quick, clock>>

(* ... and end_session, with a save of its own.  It is the first half of    *)
(* that save that is one step with the entry: a crash between them is one   *)
(* before both, and no other process tells an entry from a saved one.       *)
EndSession ==
  LET s == job["capture"].session
  IN  /\ At("capture", "end") /\ Unlocked
      /\ index' = IF s \in DOMAIN index THEN [index EXCEPT ![s].status = "completed"] ELSE index
      /\ file' = "empty"
      /\ Go("capture", "ending")
      /\ UNCHANGED <<saved, dirs, files, rows, pipe, job, adrift, clock>>

EndSaved ==
  /\ At("capture", "ending")
  /\ Fill(index)
  /\ Rest("capture")
  /\ UNCHANGED <<index, dirs, files, rows, pipe, adrift, clock>>

(* What an aborted tick left behind happens some time: its row, ... *)
LandRow ==
  /\ \E r \in adrift.rows : rows' = rows \cup {r} /\ adrift' = [adrift EXCEPT !.rows = @ \ {r}]
  /\ UNCHANGED <<store, pipe, step, job, clock>>

(* ... its screenshot, if there is the directory, ... *)
LandShot ==
  /\ \E f \in adrift.shots : /\ files' = IF f[1] \in dirs THEN files \cup {f} ELSE files
                             /\ adrift' = [adrift EXCEPT !.shots = @ \ {f}]
  /\ UNCHANGED <<index, saved, file, dirs, rows, pipe, step, job, clock>>

(* ... and the halves of its save, though the lock is free again. *)
LandOpen ==
  /\ \E c \in adrift.saves :
       /\ ~c.opened
       /\ adrift' = [adrift EXCEPT !.saves = (@ \ {c}) \cup {[c EXCEPT !.opened = TRUE]}]
  /\ file' = "empty"
  /\ UNCHANGED <<index, saved, dirs, files, rows, pipe, step, job, clock>>

LandFill ==
  /\ \E c \in adrift.saves :
       /\ c.opened
       /\ Fill(c.list)
       /\ adrift' = [adrift EXCEPT !.saves = @ \ {c},
                                  !.overtaken = @ \/ ~(DOMAIN index \subseteq DOMAIN c.list)]
  /\ UNCHANGED <<index, dirs, files, rows, pipe, step, job, clock>>

Land == LandRow \/ LandShot \/ LandOpen \/ LandFill

-----------------------------------------------------------------------------
(* Writers: tick, invoke_quick_ask                                          *)

(* A tick of the live runner: probe, exclusion, captured_at.  One that      *)
(* finds the user idle, or Corivo itself in front, does nothing.            *)
Tick(front) ==
  /\ At("tick", "idle") /\ crew # 0 /\ running /\ clock.now < MaxFrames
  /\ Work("tick", [NoJob EXCEPT !.session = crew, !.screen = front, !.at = clock.now + 1])
  /\ clock' = [clock EXCEPT !.now = @ + 1]
  /\ Go("tick", IF front \in Excluded THEN "insert" ELSE "look")
  /\ UNCHANGED <<store, rows, pipe, adrift>>

InSession(s) == {r \in rows : r.session = s}
Newest(S)    == CHOOSE r \in S : \A q \in S : q.at <= r.at

(* last_in_session, classify_metadata *)
Look ==
  LET last == InSession(job["tick"].session)
  IN  /\ At("tick", "look")
      /\ IF last # {} /\ Newest(last).screen = job["tick"].screen
         THEN Go("tick", "bump") /\ Work("tick", [job["tick"] EXCEPT !.last = Newest(last).at])
         ELSE Go("tick", "extract") /\ UNCHANGED job
      /\ UNCHANGED <<store, rows, pipe, adrift, clock>>

(* touch_still_present: nothing, if the row has gone. *)
Bump ==
  LET j == job["tick"]
  IN  /\ At("tick", "bump")
      /\ rows' = {IF r.at = j.last THEN [r EXCEPT !.until = j.at] ELSE r : r \in rows}
      /\ Rest("tick")
      /\ UNCHANGED <<store, pipe, adrift, clock>>

(* Phase A and the start of phase B: probe, exclusion, the session (of its  *)
(* own, if capture has none), captured_at.                                  *)
Ask(front) ==
  LET s == IF cap # 0 THEN cap ELSE quick
      j == [NoJob EXCEPT !.session = s, !.screen = front, !.at = clock.now + 1]
  IN  /\ At("ask", "idle") /\ clock.now < MaxFrames
      /\ IF s = 0 THEN Create("ask", j)
         ELSE /\ Work("ask", j) /\ Go("ask", Extraction(j))
              /\ clock' = [clock EXCEPT !.now = @ + 1]
              /\ UNCHANGED store
      /\ UNCHANGED <<rows, pipe, adrift>>

(* The adapters find the text, or there is an error. *)
Read(p) ==
  /\ At(p, "extract")
  /\ \/ Go(p, "insert") /\ UNCHANGED job
     \/ Rest(p)
  /\ UNCHANGED <<store, rows, pipe, adrift, clock>>

(* Fault: the number is taken from the directory. *)
FaultCountsFiles(p) ==
  LET j == job[p]
      n == Cardinality({f \in files : f[1] = j.session}) + 1
  IN  /\ At(p, "extract")
      /\ Work(p, [j EXCEPT !.shot = <<j.session, n>>])
      /\ Go(p, "write")
      /\ UNCHANGED <<store, rows, pipe, adrift, clock>>

(* They do not: a picture is taken, and save_screenshot counts it, or has   *)
(* an error if the store does not know the session any more.                *)
Shoot(p) ==
  LET j == job[p]
      n == IF j.session \in DOMAIN index THEN index[j.session].count + 1 ELSE 0
  IN  /\ At(p, "extract") /\ Unlocked
      /\ IF j.session \in DOMAIN index
         THEN /\ index' = [index EXCEPT ![j.session].count = n]
              /\ Work(p, [j EXCEPT !.shot = <<j.session, n>>])
              /\ Go(p, "write")
         ELSE Rest(p) /\ UNCHANGED index
      /\ UNCHANGED <<saved, file, dirs, files, rows, pipe, adrift, clock>>

Write(p) ==
  LET j == job[p]
  IN  /\ At(p, "write") /\ j.session \in dirs
      /\ files' = files \cup {j.shot}
      /\ Go(p, IF j.shot[2] % SaveEvery = 0 THEN "flush" ELSE "insert")
      /\ UNCHANGED <<index, saved, file, dirs, rows, pipe, job, adrift, clock>>

WriteFails(p) ==
  /\ At(p, "write")
  /\ Rest(p)
  /\ UNCHANGED <<store, rows, pipe, adrift, clock>>

Flush(p) ==
  /\ At(p, "flushing")
  /\ Fill(index)
  /\ Go(p, "insert")
  /\ UNCHANGED <<index, dirs, files, rows, pipe, job, adrift, clock>>

(* Neither the store nor its directories are asked again. *)
Insert(p) ==
  /\ At(p, "insert")
  /\ rows' = rows \cup {RowOf(job[p])}
  /\ Rest(p)
  /\ UNCHANGED <<store, pipe, adrift, clock>>

(* The OCR or the database has an error: a screenshot may stay without row. *)
InsertFails(p) ==
  /\ At(p, "insert")
  /\ Rest(p)
  /\ UNCHANGED <<store, rows, pipe, adrift, clock>>

Capture(p) ==
  \/ Read(p) \/ Shoot(p) \/ Write(p) \/ WriteFails(p) \/ Flush(p) \/ Insert(p) \/ InsertFails(p)

-----------------------------------------------------------------------------
(* Removal: delete_session, and who calls it                                *)

(* The directory with what is in it, then the entry and sessions.json.      *)
DeleteDir(p) ==
  /\ At(p, "delete")
  /\ \E s \in job[p].sessions :
       /\ dirs' = dirs \ {s}
       /\ files' = {f \in files : f[1] # s}
       /\ Work(p, [job[p] EXCEPT !.session = s, !.sessions = @ \ {s}])
  /\ Go(p, "unlist")
  /\ UNCHANGED <<index, saved, file, rows, pipe, adrift, clock>>

(* Process p has yet to delete what is in job j. *)
Proceed(p, j) ==
  IF j.sessions # {} THEN Go(p, "delete") /\ Work(p, j)
  ELSE IF j.wipe THEN Go(p, "rows") /\ Work(p, j)
  ELSE Rest(p)

(* The entry, and the first half of the save, as in EndSession. *)
Unlist(p) ==
  /\ At(p, "unlist") /\ Unlocked
  /\ index' = Without(index, {job[p].session})
  /\ file' = "empty"
  /\ Go(p, "unlisting")
  /\ UNCHANGED <<saved, dirs, files, rows, pipe, job, adrift, clock>>

Unlisted(p) ==
  /\ At(p, "unlisting")
  /\ Fill(index)
  /\ Proceed(p, [job[p] EXCEPT !.session = 0])
  /\ UNCHANGED <<index, dirs, files, rows, pipe, adrift, clock>>

Remove(p) == DeleteDir(p) \/ Unlist(p) \/ Unlisted(p)

Cutoff == clock.now - KeepFor

Aged(s) == index[s].started < Cutoff
Ended   == {s \in DOMAIN index : index[s].status # "active"}

(* A round removes the rows of before, and goes on with these sessions.  One *)
(* that finds neither is left out.                                          *)
Sweep(before, sessions) ==
  /\ At("retention", "idle")
  /\ sessions # {} \/ \E r \in rows : r.at < before
  /\ rows' = {r \in rows : r.at >= before}
  /\ Proceed("retention", [NoJob EXCEPT !.sessions = sessions])
  /\ UNCHANGED <<store, pipe, adrift, clock>>

(* Fault: the status is not looked at. *)
FaultTakesActive == Sweep(Cutoff, {s \in DOMAIN index : Aged(s)})

(* run_round: the rows by captured_at, then the sessions by started_at. *)
Round == Sweep(Cutoff, {s \in Ended : Aged(s)})

Retention == Round \/ Remove("retention")

Called == At("user", "idle") /\ clock.removals < MaxRemovals /\ clock' = [clock EXCEPT !.removals = @ + 1]

(* Fault: the rows and their screenshots are not chosen by one comparison. *)
FaultOffByOne(from) ==
  /\ Called
  /\ rows' = {r \in rows : r.at <= from}
  /\ Work("user", [NoJob EXCEPT !.paths = {r.shot : r \in {q \in rows : q.at >= from}} \ {NoShot}])
  /\ Go("user", "unlink")
  /\ UNCHANGED <<store, pipe, adrift>>

(* data_delete_range: delete_since, then the files it has returned. *)
DeleteRange(from) ==
  /\ Called
  /\ rows' = {r \in rows : r.at < from}
  /\ Work("user", [NoJob EXCEPT !.paths = {r.shot : r \in rows \ rows'} \ {NoShot}])
  /\ Go("user", "unlink")
  /\ UNCHANGED <<store, pipe, adrift>>

(* One by one; a file that has gone already is no error. *)
Unlink ==
  /\ At("user", "unlink")
  /\ files' = files \ job["user"].paths
  /\ Rest("user")
  /\ UNCHANGED <<index, saved, file, dirs, rows, pipe, adrift, clock>>

(* clear_all_screenshots *)
ClearScreenshots ==
  /\ Called /\ ~running
  /\ Go("user", "list")
  /\ UNCHANGED <<store, rows, pipe, job, adrift>>

(* data_hard_delete: stops capture, if it is running. *)
HardDelete ==
  /\ Called /\ At("capture", "idle")
  /\ Work("user", [NoJob EXCEPT !.wipe = TRUE])
  /\ step' = [step EXCEPT !["user"] = "list", !["capture"] = IF running THEN "shutdown" ELSE "idle"]
  /\ running' = FALSE
  /\ UNCHANGED <<store, rows, cap, crew, quick, adrift>>

(* After the stop, if there is one. *)
ListAll ==
  /\ At("user", "list") /\ (job["user"].wipe => At("capture", "idle"))
  /\ Proceed("user", [job["user"] EXCEPT !.sessions = DOMAIN index])
  /\ UNCHANGED <<store, rows, pipe, adrift, clock>>

Wipe ==
  /\ At("user", "rows")
  /\ rows' = {}
  /\ Go("user", "reset")
  /\ UNCHANGED <<store, pipe, job, adrift, clock>>

(* reset_quick_ask_cache waits for a quick ask that creates its session. *)
Reset ==
  /\ At("user", "reset") /\ step["ask"] \notin {"save", "saving"}
  /\ quick' = 0
  /\ Rest("user")
  /\ UNCHANGED <<store, rows, running, cap, crew, adrift, clock>>

User ==
  \/ \E from \in 1..clock.now : DeleteRange(from)
  \/ Unlink \/ ClearScreenshots \/ HardDelete \/ ListAll \/ Remove("user") \/ Wipe \/ Reset

-----------------------------------------------------------------------------
(* A crash, and CaptureStore::new of the next boot: it marks the sessions   *)
(* that were active and saves, but fails if sessions.json is not whole, and *)
(* leaves it so if the app crashes again in the middle of that save.  The   *)
(* app does not come up then.                                               *)
Crash ==
  LET i == [s \in DOMAIN saved |->
              IF saved[s].status = "active" THEN [saved[s] EXCEPT !.status = "aborted"] ELSE saved[s]]
  IN  /\ clock.crashes < MaxCrashes /\ clock' = [clock EXCEPT !.crashes = @ + 1]
      /\ \/ /\ file = "whole"
            /\ index' = i /\ saved' = i /\ UNCHANGED file
            /\ step' = [p \in Process |-> "idle"]
         \/ /\ file = "whole" => i # saved
            /\ index' = <<>> /\ UNCHANGED saved
            /\ file' = IF file = "whole" THEN "empty" ELSE file
            /\ step' = [p \in Process |-> "down"]
      /\ job' = [p \in Process |-> NoJob]
      /\ running' = FALSE /\ cap' = 0 /\ crew' = 0 /\ quick' = 0
      /\ adrift' = [Calm EXCEPT !.overtaken = adrift.overtaken]
      /\ UNCHANGED <<dirs, files, rows>>

Down == At("capture", "down")

Next ==
  \/ \E p \in {"capture", "ask"} : Created(p)
  \/ \E p \in Process : Open(p)
  \/ Start \/ Stop \/ Shutdown \/ EndSession \/ EndSaved \/ Land
  \/ \E front \in Screen : Tick(front) \/ Ask(front)
  \/ Look \/ Bump
  \/ \E p \in Writer : Capture(p)
  \/ Retention \/ User \/ Crash

Spec == Init /\ [][Next]_vars

-----------------------------------------------------------------------------
(* Properties                                                               *)

(* Every screenshot on disk belongs to a session that the store lists, in   *)
(* memory and in sessions.json whenever that is whole: one that is not      *)
(* would escape retention and every command for good (create_session saves  *)
(* before the session is used, delete_session removes the directory before  *)
(* the entry).  Two cases are left out, as the code does not prevent them:  *)
(* a crash in the middle of a save, after which there is no store to list   *)
(* anything, and a save of an aborted tick that lands after a session which *)
(* it does not know was listed.                                             *)
ShotsAreListed ==
  \A f \in files :
    /\ f[1] \in dirs
    /\ ~Down /\ ~adrift.overtaken =>
         f[1] \in DOMAIN index /\ (file = "whole" => f[1] \in DOMAIN saved)

Holding == rows \cup adrift.rows \cup {RowOf(job[p]) : p \in {w \in Writer : job[w].shot # NoShot}}

(* A screenshot is one frame's: no number is given twice, by two writers in *)
(* one session or after a crash that forgot the last counts, so no file is  *)
(* overwritten, and a deletion takes no other frame's file                  *)
(* (save_screenshot, CaptureStore::new).                                    *)
ShotsAreOwn ==
  /\ \A p \in Writer : At(p, "write") => job[p].shot \notin files
  /\ adrift.shots \cap files = {}
  /\ \A r, q \in Holding : r.shot = q.shot /\ r.shot # NoShot => r.at = q.at

(* A frame loses its screenshot only together with its whole session: the   *)
(* file is written before the row, and a range is deleted rows first, files *)
(* second, so that no crash leaves a row without its file                   *)
(* (data_delete_range, run_ocr_fallback).                                   *)
RowsHaveShots == \A r \in rows : r.shot # NoShot /\ r.session \in dirs => r.shot \in files

(* As long as the user removes nothing, the sessions that frames are        *)
(* written to keep their place in the index and on disk: retention leaves   *)
(* them alone, however long they last (delete_older_than).                  *)
WritersKeepTheirSession ==
  clock.removals = 0 => \A s \in {cap, crew, quick} \ {0} : s \in dirs \cap DOMAIN index
=============================================================================
