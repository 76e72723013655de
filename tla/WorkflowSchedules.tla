--------------------------- MODULE WorkflowSchedules ---------------------------
(* The schedules of workflows: the rows of workflow_schedules (store.rs),   *)
(* the WORKFLOW.md manifests beside them, the ticker that pulls the rows    *)
(* that are due (ticker.rs), and the commands of the user and of the agent  *)
(* that write both (commands/workflows.rs, schedule_task_handler.rs).  Each *)
(* step is one file operation or one SQLite transaction; anything may run   *)
(* between two steps of a command.  Runs appear by their effect on a row.   *)
EXTENDS Triggers, Sequences

CONSTANTS
  Slug,
  Client,     \* concurrent commands
  Trigger,    \* the triggers a command may set
  ByHand,     \* slugs whose manifest the user may delete out-of-band
  OnDemand,   \* slugs the user may run on demand
  NoRow,
  LastHour,   \* bound on the clock
  MaxCrashes  \* bound on the restarts of the process

ASSUME SchedulesAssumption ==
  /\ \A x \in Trigger : IsTrigger(x)
  /\ NoRow \notin [trigger : Trigger, enabled : BOOLEAN, next : Instant \cup {None},
                   lastRun : Instant \cup {None}]
  /\ IsFiniteSet(Slug)
  /\ LastHour \in Instant
  /\ MaxCrashes \in Nat

VARIABLES
  clock,     \* wall clock
  manifest,  \* WORKFLOW.md of each slug: absent, torn (being written), present
  row,       \* its row in workflow_schedules
  claims,    \* slugs with a run queued or running
  ticker,    \* tick_once: the pulled slugs it has yet to handle, and how far it is
  client,    \* the commands in progress
  crashes

vars == <<clock, manifest, row, claims, ticker, client, crashes>>

Idle     == [at |-> "idle"]
Write    == [at : {"write", "fill"}, slug : Slug, trigger : Trigger, enabled : BOOLEAN]
Upserts  == [at : {"upsert"}, slug : Slug, trigger : Trigger, enabled : BOOLEAN, now : Instant]
Purges   == [at : {"purge"}, slug : Slug]
Entries  == [at : {"entry"}, due : Seq(Slug)]
Disables == [at : {"disable"}, due : Seq(Slug)]
Rewrites == [at : {"upsert"}, due : Seq(Slug), trigger : Trigger, now : Instant]

Init ==
  /\ clock = 0
  /\ manifest = [s \in Slug |-> "absent"]
  /\ row = [s \in Slug |-> NoRow]
  /\ claims = {}
  /\ ticker = Idle
  /\ client = [c \in Client |-> Idle]
  /\ crashes = 0

-----------------------------------------------------------------------------
(* upsert_schedule *)

(* next_after of the triggers in use, tabulated. *)
NextRun == [x \in Trigger |-> [u \in Instant |-> NextAfter(x, u)]]

(* Fault: an update keeps the firing time the row had. *)
FaultKeepNext(s, trigger, enabled, now) ==
  row' = [row EXCEPT ![s] =
    [trigger |-> trigger, enabled |-> enabled,
     next    |-> IF row[s] = NoRow THEN (IF enabled THEN NextRun[trigger][now] ELSE None)
                 ELSE row[s].next,
     lastRun |-> IF row[s] = NoRow THEN None ELSE row[s].lastRun]]

(* Insert the row or overwrite trigger, enabled and next_run_at, which was  *)
(* computed from the clock when the call was made.                          *)
UpsertRow(s, trigger, enabled, now) ==
  row' = [row EXCEPT ![s] =
    [trigger |-> trigger, enabled |-> enabled,
     next    |-> IF enabled THEN NextRun[trigger][now] ELSE None,
     lastRun |-> IF row[s] = NoRow THEN None ELSE row[s].lastRun]]

Upserting(s, trigger, enabled) ==
  [at |-> "upsert", slug |-> s, trigger |-> trigger, enabled |-> enabled, now |-> clock]

Step(c, state) == client' = [client EXCEPT ![c] = state]

(* The transaction of an upsert commits; reading the row back changes       *)
(* nothing.                                                                 *)
Upsert(c) ==
  /\ client[c].at = "upsert"
  /\ UpsertRow(client[c].slug, client[c].trigger, client[c].enabled, client[c].now)
  /\ Step(c, Idle)
  /\ UNCHANGED <<clock, manifest, claims, ticker, crashes>>

-----------------------------------------------------------------------------
(* Commands *)

(* workflows_save and schedule_task: write the manifest, then upsert. *)
Save(c, s, trigger, enabled) ==
  /\ client[c] = Idle
  /\ Step(c, [at |-> "write", slug |-> s, trigger |-> trigger, enabled |-> enabled])
  /\ UNCHANGED <<clock, manifest, row, claims, ticker, crashes>>

(* update_scheduled_task: what the agent does not mention is kept as read,  *)
(* so the new trigger and flag may be anything, the old ones included.      *)
Update(c, s, trigger, enabled) ==
  /\ client[c] = Idle
  /\ manifest[s] = "present" /\ row[s] # NoRow
  /\ Step(c, [at |-> "write", slug |-> s, trigger |-> trigger, enabled |-> enabled])
  /\ UNCHANGED <<clock, manifest, row, claims, ticker, crashes>>

(* fs::write truncates the file ... *)
Truncate(c) ==
  /\ client[c].at = "write"
  /\ manifest' = [manifest EXCEPT ![client[c].slug] = "torn"]
  /\ Step(c, [client[c] EXCEPT !.at = "fill"])
  /\ UNCHANGED <<clock, row, claims, ticker, crashes>>

(* ... and fills it, unless one of the two fails; then the command ends     *)
(* there.                                                                   *)
Fill(c) ==
  /\ client[c].at = "fill"
  /\ manifest' = [manifest EXCEPT ![client[c].slug] = "present"]
  /\ Step(c, Upserting(client[c].slug, client[c].trigger, client[c].enabled))
  /\ UNCHANGED <<clock, row, claims, ticker, crashes>>

WriteFails(c) ==
  /\ client[c].at \in {"write", "fill"}
  /\ Step(c, Idle)
  /\ UNCHANGED <<clock, manifest, row, claims, ticker, crashes>>

(* set_enabled: read the row, then upsert it with its own trigger. *)
SetEnabled(c, s, enabled) ==
  /\ client[c] = Idle
  /\ row[s] # NoRow
  /\ Step(c, Upserting(s, row[s].trigger, enabled))
  /\ UNCHANGED <<clock, manifest, row, claims, ticker, crashes>>

(* workflows_delete and cancel_scheduled_task: the row and the history in   *)
(* one transaction, then the directory of the manifest.                     *)
Delete(c, s) ==
  /\ client[c] = Idle
  /\ row[s] # NoRow \/ manifest[s] # "absent"
  /\ row' = [row EXCEPT ![s] = NoRow]
  /\ Step(c, [at |-> "purge", slug |-> s])
  /\ UNCHANGED <<clock, manifest, claims, ticker, crashes>>

Purge(c) ==
  /\ client[c].at = "purge"
  /\ manifest' = [manifest EXCEPT ![client[c].slug] = "absent"]
  /\ Step(c, Idle)
  /\ UNCHANGED <<clock, row, claims, ticker, crashes>>

(* The directory cannot be removed. *)
PurgeFails(c) ==
  /\ client[c].at = "purge"
  /\ Step(c, Idle)
  /\ UNCHANGED <<clock, manifest, row, claims, ticker, crashes>>

(* run_now. *)
RunNow(s) ==
  /\ s \in OnDemand /\ manifest[s] = "present" /\ s \notin claims
  /\ claims' = claims \cup {s}
  /\ UNCHANGED <<clock, manifest, row, ticker, client, crashes>>

DeleteByHand(s) ==
  /\ s \in ByHand /\ manifest[s] = "present"
  /\ manifest' = [manifest EXCEPT ![s] = "absent"]
  /\ UNCHANGED <<clock, row, claims, ticker, client, crashes>>

(* A run ends: record_run touches the row if there is one, unless the       *)
(* database fails, and the slug is released.                                *)
FinishRun(s) ==
  /\ s \in claims
  /\ claims' = claims \ {s}
  /\ \/ row[s] # NoRow /\ row' = [row EXCEPT ![s].lastRun = clock]
     \/ UNCHANGED row
  /\ UNCHANGED <<clock, manifest, ticker, client, crashes>>

-----------------------------------------------------------------------------
(* The ticker *)

Due(s) == row[s] # NoRow /\ row[s].enabled /\ row[s].next # None /\ row[s].next <= clock
DueSlugs == {s \in Slug : Due(s)}

(* The orders in which a query ordered by next_run_at may return S. *)
InOrder(S) ==
  {q \in [1..Cardinality(S) -> S] :
     /\ \A s \in S : \E i \in DOMAIN q : q[i] = s
     /\ \A i, j \in DOMAIN q : i < j => row[q[i]].next <= row[q[j]].next}

(* Faults: the row is re-armed from the firing it missed, not from now; it  *)
(* is left as it was.                                                       *)
FaultRearm(r)     == [r EXCEPT !.next = NextRun[r.trigger][r.next]]
FaultNoAdvance(r) == r

(* The row as the tick leaves it. *)
Advanced(r) == [r EXCEPT !.next = NextRun[r.trigger][clock],
                         !.enabled = r.trigger.kind # "once"]

(* list_and_advance_due: one transaction selects the due rows, re-arms them *)
(* and disables the one-shot ones.                                          *)
Pull ==
  /\ ticker = Idle
  /\ DueSlugs # {}
  /\ row' = [s \in Slug |-> IF Due(s) THEN Advanced(row[s]) ELSE row[s]]
  /\ \E q \in InOrder(DueSlugs) : ticker' = [at |-> "entry", due |-> q]
  /\ UNCHANGED <<clock, manifest, claims, client, crashes>>

NextEntry == ticker' = IF Len(ticker.due) = 1 THEN Idle
                       ELSE [at |-> "entry", due |-> Tail(ticker.due)]

Entry == Head(ticker.due)

(* The workflow still runs: this firing is skipped. *)
SkipRunning ==
  /\ ticker.at = "entry" /\ Entry \in claims
  /\ NextEntry
  /\ UNCHANGED <<clock, manifest, row, claims, client, crashes>>

(* Fault: the first entry ends the pass. *)
FaultDispatchOne ==
  /\ ticker.at = "entry" /\ Entry \notin claims /\ manifest[Entry] = "present"
  /\ claims' = claims \cup {Entry}
  /\ ticker' = Idle
  /\ UNCHANGED <<clock, manifest, row, client, crashes>>

Dispatch ==
  /\ ticker.at = "entry" /\ Entry \notin claims /\ manifest[Entry] = "present"
  /\ claims' = claims \cup {Entry}
  /\ NextEntry
  /\ UNCHANGED <<clock, manifest, row, client, crashes>>

(* The manifest cannot be read: release the slug and disable the schedule.  *)
ManifestMissing ==
  /\ ticker.at = "entry" /\ Entry \notin claims /\ manifest[Entry] # "present"
  /\ ticker' = [at |-> "disable", due |-> ticker.due]
  /\ UNCHANGED <<clock, manifest, row, claims, client, crashes>>

(* set_enabled(slug, false) reads the row; without one it fails ... *)
AutoDisableRead ==
  /\ ticker.at = "disable"
  /\ \/ row[Entry] = NoRow /\ NextEntry
     \/ /\ row[Entry] # NoRow
        /\ ticker' = [at |-> "upsert", due |-> ticker.due,
                      trigger |-> row[Entry].trigger, now |-> clock]
  /\ UNCHANGED <<clock, manifest, row, claims, client, crashes>>

(* ... and writes it. *)
AutoDisable ==
  /\ ticker.at = "upsert"
  /\ UpsertRow(Entry, ticker.trigger, FALSE, ticker.now)
  /\ NextEntry
  /\ UNCHANGED <<clock, manifest, claims, client, crashes>>

-----------------------------------------------------------------------------
(* The process dies and is started again: claims, the ticker and commands   *)
(* are in memory only.                                                      *)
Crash ==
  /\ crashes < MaxCrashes
  /\ crashes' = crashes + 1
  /\ claims' = {}
  /\ ticker' = Idle
  /\ client' = [c \in Client |-> Idle]
  /\ UNCHANGED <<clock, manifest, row>>

(* An hour passes. *)
ClockTick ==
  /\ clock < LastHour
  /\ clock' = clock + 1
  /\ UNCHANGED <<manifest, row, claims, ticker, client, crashes>>

Tick == Pull \/ SkipRunning \/ Dispatch \/ ManifestMissing \/ AutoDisableRead \/ AutoDisable

Command(c) ==
  \/ \E s \in Slug, trigger \in Trigger, enabled \in BOOLEAN :
       Save(c, s, trigger, enabled) \/ Update(c, s, trigger, enabled)
  \/ \E s \in Slug, enabled \in BOOLEAN : SetEnabled(c, s, enabled)
  \/ \E s \in Slug : Delete(c, s)
  \/ Truncate(c) \/ Fill(c) \/ WriteFails(c) \/ Upsert(c) \/ Purge(c) \/ PurgeFails(c)

Next ==
  \/ \E c \in Client : Command(c)
  \/ \E s \in Slug : RunNow(s) \/ DeleteByHand(s) \/ FinishRun(s)
  \/ Tick \/ Crash \/ ClockTick

(* The tick loop never stops, and time goes by. *)
Fairness == WF_vars(Tick) /\ WF_vars(ClockTick)

Spec     == Init /\ [][Next]_vars
FairSpec == Spec /\ Fairness

-----------------------------------------------------------------------------
(* Properties *)

(* store.rs:277-279: toggling, editing and firing, in any interleaving,     *)
(* leave no firing time that the row's own trigger does not have, and none  *)
(* on a disabled row.                                                       *)
NoStaleFiring ==
  \A s \in Slug : row[s] # NoRow =>
    /\ ~row[s].enabled => row[s].next = None
    /\ row[s].next # None =>
         \E u \in Instant : u <= clock /\ row[s].next = NextRun[row[s].trigger][u]

(* A long downtime is made up for by one run, not one per missed firing:    *)
(* after a pass of the ticker none of the rows it pulled is due.            *)
CatchUpOnce == [][Pull => \A s \in DueSlugs : ~Due(s)']_vars

(* A schedule that is due is pulled or changed: nothing the commands do and *)
(* no crash leaves a row due for ever.                                      *)
DueIsPulled == \A s \in Slug : Due(s) ~> ~Due(s)

(* Unless the process dies a pulled firing is never lost: it finds a run in *)
(* progress, starts one, or finds no manifest.                              *)
Pulled(s) == ticker.at = "entry" /\ \E i \in DOMAIN ticker.due : ticker.due[i] = s
PulledIsHandled ==
  \A s \in Slug, k \in 0..MaxCrashes :
    Pulled(s) /\ crashes = k ~> s \in claims \/ manifest[s] # "present" \/ crashes > k
=============================================================================
