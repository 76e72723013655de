------------------------ MODULE WorkflowSchedules_proofs ------------------------
(* A trigger fires at the first occurrence of its calendar.  No             *)
(* interleaving of edits, toggles, deletions, firings and restarts leaves a *)
(* stale firing time on a schedule, and the ticker never has to pull the    *)
(* same missed firing twice.                                                *)
EXTENDS WorkflowSchedules, TriggerFirings,
        WellFoundedInduction, FiniteSetTheorems, SequenceTheorems, TLAPS

(* A next firing lies after the instant it is computed from, in every time  *)
(* zone and for every length of the day and the week.                       *)

LEMMA LeastNat ==
  ASSUME NEW S \in SUBSET Nat, S # {}
  PROVE  \E u \in S : \A v \in S : u <= v
<1>. DEFINE R == {p \in Nat \X Nat : p[1] < p[2]}
<1>1. IsWellFoundedOn(R, Nat)
  BY NatLessThanWellFounded DEF OpToRel
<1>2. PICK u \in S : \A v \in S : <<v, u>> \notin R
  BY <1>1, WFMin
<1>3. \A v \in S : ~(v < u)
  BY <1>2
<1>. QED
  BY <1>2, <1>3

(* Earliest picks a least element of a non-empty set of days, or instants,  *)
(* from some day on.                                                        *)
LEMMA EarliestIsIn ==
  ASSUME NEW a \in Int, NEW S \in SUBSET {d \in Int : a <= d}, S # {}
  PROVE  Earliest(S) \in S
<1>. DEFINE T == {d - a : d \in S}
<1>1. T \in SUBSET Nat /\ T # {}
  OBVIOUS
<1>2. PICK n \in T : \A m \in T : n <= m
  BY <1>1, LeastNat
<1>3. PICK u \in S : n = u - a
  BY <1>2
<1>4. \A v \in S : u <= v
  <2>. TAKE v \in S
  <2>1. v - a \in T
    OBVIOUS
  <2>2. u - a <= v - a
    BY <1>2, <1>3, <2>1
  <2>. QED
    BY <2>2
<1>. QED
  BY <1>4 DEF Earliest

LEMMA LocalToUtcIsInstant ==
  ASSUME NEW d, NEW h, LocalToUtc(d, h) # None
  PROVE  LocalToUtc(d, h) \in Int
<1>. DEFINE S == {u \in Instant : LocalTime(u) = d * DayLen + h}
<1>1. LocalToUtc(d, h) = Earliest(S)
  BY DEF LocalToUtc
<1>2. S # {} /\ S \in SUBSET {u \in Int : 0 <= u}
  BY <1>1 DEF Earliest, Instant
<1>3. Earliest(S) \in S
  BY <1>2, EarliestIsIn
<1>. QED
  BY <1>1, <1>2, <1>3

LEMMA FirstLaterIsLater ==
  ASSUME NEW t \in Int, NEW a \in Int, NEW h,
         NEW days \in SUBSET {d \in Int : a <= d}, FirstLater(t, days, h) # None
  PROVE  FirstLater(t, days, h) \in Int /\ FirstLater(t, days, h) > t
<1>. DEFINE S == {d \in days : Later(t, d, h)}
<1>1. Earliest(S) # None
  BY DEF FirstLater
<1>2. S # {} /\ S \in SUBSET {d \in Int : a <= d}
  BY <1>1 DEF Earliest
<1>3. Earliest(S) \in S
  BY <1>2, EarliestIsIn
<1>4. Later(t, Earliest(S), h)
  BY <1>3
<1>. QED
  BY <1>1, <1>4, LocalToUtcIsInstant DEF FirstLater, Later

(* Trigger::next_after never answers the instant it is asked about or an    *)
(* earlier one, so a row the ticker re-arms is not due again at once.       *)
THEOREM NextAfterIsLater ==
  ASSUME NEW x, IsTrigger(x), NEW u \in Instant, NextAfter(x, u) # None
  PROVE  NextAfter(x, u) \in Int /\ NextAfter(x, u) > u
<1>1. LocalDay(u) \in Int
  BY TriggersAssumption DEF LocalDay, LocalTime, Instant
<1>2. CASE x.kind = "interval"
  BY <1>2 DEF NextAfter, Instant, IsTrigger
<1>3. CASE x.kind = "once"
  BY <1>3 DEF NextAfter, Instant, IsTrigger
<1>4. CASE x.kind = "daily"
  <2>1. NextAfter(x, u) = FirstLater(u, Ahead(u, 2), x.hour)
    BY <1>4 DEF NextAfter, NextDaily
  <2>2. Ahead(u, 2) \in SUBSET {d \in Int : LocalDay(u) <= d}
    BY <1>1 DEF Ahead
  <2>3. u \in Int
    BY DEF Instant
  <2>. QED
    BY <1>1, <2>1, <2>2, <2>3, FirstLaterIsLater
<1>5. CASE x.kind = "weekly"
  <2>. DEFINE D == {d \in Ahead(u, 7) : d % 7 \in x.weekdays}
  <2>1. NextAfter(x, u) = FirstLater(u, D, x.hour)
    BY <1>5 DEF NextAfter, NextWeekly
  <2>2. D \in SUBSET {d \in Int : LocalDay(u) <= d}
    BY <1>1 DEF Ahead
  <2>3. u \in Int
    BY DEF Instant
  <2>. HIDE DEF D
  <2>. QED
    BY <1>1, <2>1, <2>2, <2>3, FirstLaterIsLater
<1>. QED
  BY <1>2, <1>3, <1>4, <1>5 DEF IsTrigger

-----------------------------------------------------------------------------

(* The inductive invariant.  An upsert in progress, of a command or of the  *)
(* ticker's auto-disable, carries the instant at which it began.            *)
Nexts == {NextRun[x][u] : x \in Trigger, u \in Instant} \cup {None}
TypedRow == [trigger : Trigger, enabled : BOOLEAN, next : Nexts,
             lastRun : Instant \cup {None}]

RowsOK == row \in [Slug -> TypedRow \cup {NoRow}]

ClientsOK ==
  client \in [Client -> {Idle} \cup Write \cup Upserts \cup Purges]
  /\ \A c \in Client : client[c].at = "upsert" => client[c].now <= clock

TickerOK ==
  /\ ticker \in {Idle} \cup Entries \cup Disables \cup Rewrites
  /\ ticker.at = "upsert" => ticker.now <= clock
  /\ ticker # Idle => ticker.due # << >>

SchedInv == clock \in Instant /\ RowsOK /\ ClientsOK /\ TickerOK /\ NoStaleFiring

(* A one-shot trigger has no firing after one that is past. *)
LEMMA OnceIsOver ==
  ASSUME NEW x \in Trigger, x.kind = "once", NEW u \in Instant, NEW now \in Instant,
         NextRun[x][u] # None, NextRun[x][u] <= now
  PROVE  NextRun[x][now] = None
<1>1. x.at \in Int
  BY SchedulesAssumption DEF IsTrigger
<1>2. NextRun[x][u] = NextAfter(x, u) /\ NextRun[x][now] = NextAfter(x, now)
  BY DEF NextRun
<1>3. /\ NextAfter(x, u) = IF x.at > u THEN x.at ELSE None
      /\ NextAfter(x, now) = IF x.at > now THEN x.at ELSE None
  BY DEF NextAfter
<1>4. x.at <= now
  BY <1>2, <1>3
<1>. QED
  BY <1>1, <1>2, <1>3, <1>4 DEF Instant

(* A firing time is a later instant. *)
LEMMA NextRunIsLater ==
  ASSUME NEW x \in Trigger, NEW u \in Instant, NextRun[x][u] # None
  PROVE  NextRun[x][u] \in Int /\ NextRun[x][u] > u
<1>1. IsTrigger(x) /\ NextRun[x][u] = NextAfter(x, u)
  BY SchedulesAssumption DEF NextRun
<1>. QED
  BY <1>1, NextAfterIsLater

LEMMA ClockAdvances ==
  ASSUME clock \in Instant, clock < LastHour
  PROVE  clock + 1 \in Instant
BY SchedulesAssumption, TriggersAssumption DEF Instant

-----------------------------------------------------------------------------
(* Rows *)

(* What an upsert writes is typed and fresh. *)
LEMMA UpsertKeepsRows ==
  ASSUME NEW s \in Slug, NEW x \in Trigger, NEW enabled \in BOOLEAN,
         NEW now \in Instant, now <= clock, clock \in Instant,
         RowsOK, NoStaleFiring, UpsertRow(s, x, enabled, now)
  PROVE  RowsOK' /\ (clock' = clock => NoStaleFiring')
<1>. DEFINE r == [trigger |-> x, enabled |-> enabled,
                  next    |-> IF enabled THEN NextRun[x][now] ELSE None,
                  lastRun |-> IF row[s] = NoRow THEN None ELSE row[s].lastRun]
<1>1. row' = [row EXCEPT ![s] = r]
  BY DEF UpsertRow
<1>2. row[s] # NoRow => row[s].lastRun \in Instant \cup {None}
  BY DEF RowsOK, TypedRow
<1>3. r \in TypedRow
  BY <1>2 DEF TypedRow, Nexts
<1>4. RowsOK'
  BY <1>1, <1>3 DEF RowsOK
<1>5. /\ ~r.enabled => r.next = None
      /\ r.next # None => \E u \in Instant : u <= clock /\ r.next = NextRun[r.trigger][u]
  OBVIOUS
<1>. HIDE DEF r
<1>6. ASSUME clock' = clock PROVE NoStaleFiring'
  BY <1>1, <1>5, <1>6 DEF NoStaleFiring, RowsOK
<1>. QED
  BY <1>4, <1>6

(* What the tick writes is typed and fresh, and not due. *)
LEMMA AdvancedIsFresh ==
  ASSUME SchedInv, NEW s \in Slug, Due(s)
  PROVE  /\ Advanced(row[s]) \in TypedRow
         /\ ~Advanced(row[s]).enabled => Advanced(row[s]).next = None
         /\ Advanced(row[s]).next # None =>
              /\ Advanced(row[s]).next = NextRun[Advanced(row[s]).trigger][clock]
              /\ Advanced(row[s]).next \in Int
              /\ Advanced(row[s]).next > clock
<1>. DEFINE x == row[s].trigger
            n == NextRun[x][clock]
            b == x.kind # "once"
            r == [row[s] EXCEPT !.next = n, !.enabled = b]
<1>1. row[s] \in TypedRow /\ x \in Trigger
  BY DEF SchedInv, RowsOK, Due, TypedRow
<1>2. Advanced(row[s]) = r
  BY DEF Advanced
<1>3. n \in Nexts /\ b \in BOOLEAN
  BY <1>1 DEF Nexts, SchedInv
<1>4. ~b => n = None
  <2>1. PICK u \in Instant : row[s].next = NextRun[x][u]
    BY DEF SchedInv, NoStaleFiring, Due
  <2>. QED
    BY <1>1, <2>1, OnceIsOver DEF SchedInv, Due
<1>5. n # None => n \in Int /\ n > clock
  BY <1>1, NextRunIsLater DEF SchedInv
<1>. HIDE DEF n, b
<1>6. r \in TypedRow /\ r.enabled = b /\ r.next = n /\ r.trigger = x
  BY <1>1, <1>3 DEF TypedRow
<1>7. n = NextRun[x][clock]
  BY DEF n
<1>. HIDE DEF x, r
<1>. QED
  BY <1>2, <1>3, <1>4, <1>5, <1>6, <1>7

(* An action that leaves the rows alone, and does not turn the clock back,  *)
(* leaves them fresh.                                                       *)
LEMMA RowsStay ==
  ASSUME SchedInv, UNCHANGED row, clock' \in Instant, clock <= clock'
  PROVE  RowsOK' /\ NoStaleFiring'
<1>1. RowsOK'
  BY DEF SchedInv, RowsOK
<1>2. \A u \in Instant : u <= clock => u <= clock'
  BY DEF SchedInv, Instant
<1>3. NoStaleFiring'
  BY <1>2 DEF SchedInv, NoStaleFiring
<1>. QED
  BY <1>1, <1>3

-----------------------------------------------------------------------------
(* Commands *)

(* A command's step to a well-formed state keeps all commands well-formed.  *)
LEMMA StepKeepsClients ==
  ASSUME SchedInv, NEW c \in Client, NEW p \in {Idle} \cup Write \cup Upserts \cup Purges,
         p.at = "upsert" => p.now <= clock, Step(c, p), UNCHANGED clock
  PROVE  ClientsOK'
BY DEF SchedInv, ClientsOK, Step

LEMMA TickerStays ==
  ASSUME SchedInv, UNCHANGED <<ticker, clock>>
  PROVE  TickerOK'
BY DEF SchedInv, TickerOK

(* A command that has begun an upsert knows what it writes. *)
LEMMA Beginning ==
  ASSUME SchedInv, NEW s \in Slug, NEW x \in Trigger, NEW enabled \in BOOLEAN
  PROVE  /\ Upserting(s, x, enabled) \in Upserts
         /\ Upserting(s, x, enabled).at = "upsert" => Upserting(s, x, enabled).now <= clock
BY DEF Upserting, Upserts, SchedInv, Instant

LEMMA CommandKeeps ==
  ASSUME SchedInv, NEW c \in Client, Command(c)
  PROVE  SchedInv'
<1>. USE DEF SchedInv
<1>0. clock \in Instant /\ clock <= clock
  BY DEF Instant
<1>1. ASSUME NEW s \in Slug, NEW x \in Trigger, NEW enabled \in BOOLEAN,
             Save(c, s, x, enabled) \/ Update(c, s, x, enabled)
      PROVE  SchedInv'
  <2>. DEFINE p == [at |-> "write", slug |-> s, trigger |-> x, enabled |-> enabled]
  <2>1. p \in Write /\ p.at # "upsert"
    BY DEF Write
  <2>2. Step(c, p) /\ UNCHANGED <<clock, row, ticker>>
    BY <1>1 DEF Save, Update
  <2>. QED
    BY <1>0, <2>1, <2>2, StepKeepsClients, TickerStays, RowsStay
<1>2. ASSUME NEW s \in Slug, NEW enabled \in BOOLEAN, SetEnabled(c, s, enabled)
      PROVE  SchedInv'
  <2>1. row[s].trigger \in Trigger
    BY <1>2 DEF SetEnabled, RowsOK, TypedRow
  <2>2. Step(c, Upserting(s, row[s].trigger, enabled)) /\ UNCHANGED <<clock, row, ticker>>
    BY <1>2 DEF SetEnabled
  <2>. QED
    BY <1>0, <2>1, <2>2, Beginning, StepKeepsClients, TickerStays, RowsStay
<1>3. ASSUME NEW s \in Slug, Delete(c, s)
      PROVE  SchedInv'
  <2>. DEFINE p == [at |-> "purge", slug |-> s]
  <2>1. p \in Purges /\ p.at # "upsert"
    BY DEF Purges
  <2>2. Step(c, p) /\ UNCHANGED <<clock, ticker>> /\ row' = [row EXCEPT ![s] = NoRow]
    BY <1>3 DEF Delete
  <2>3. RowsOK' /\ NoStaleFiring'
    BY <2>2 DEF RowsOK, NoStaleFiring
  <2>. QED
    BY <2>1, <2>2, <2>3, StepKeepsClients, TickerStays
<1>4. CASE Truncate(c)
  <2>1. client[c] \in Write /\ [client[c] EXCEPT !.at = "fill"] \in Write
    BY <1>4 DEF Truncate, ClientsOK, Idle, Write, Upserts, Purges
  <2>2. [client[c] EXCEPT !.at = "fill"].at # "upsert"
    BY <2>1 DEF Write
  <2>3. Step(c, [client[c] EXCEPT !.at = "fill"]) /\ UNCHANGED <<clock, row, ticker>>
    BY <1>4 DEF Truncate
  <2>. QED
    BY <1>0, <2>1, <2>2, <2>3, StepKeepsClients, TickerStays, RowsStay
<1>5. CASE Fill(c)
  <2>1. client[c].slug \in Slug /\ client[c].trigger \in Trigger /\ client[c].enabled \in BOOLEAN
    BY <1>5 DEF Fill, ClientsOK, Idle, Write, Upserts, Purges
  <2>2. /\ Step(c, Upserting(client[c].slug, client[c].trigger, client[c].enabled))
        /\ UNCHANGED <<clock, row, ticker>>
    BY <1>5 DEF Fill
  <2>. QED
    BY <1>0, <2>1, <2>2, Beginning, StepKeepsClients, TickerStays, RowsStay
<1>6. CASE WriteFails(c) \/ Purge(c) \/ PurgeFails(c)
  <2>1. Step(c, Idle) /\ UNCHANGED <<clock, row, ticker>>
    BY <1>6 DEF WriteFails, Purge, PurgeFails
  <2>. QED
    BY <1>0, <2>1, StepKeepsClients, TickerStays, RowsStay DEF Idle
<1>7. CASE Upsert(c)
  <2>1. client[c] \in Upserts /\ client[c].now <= clock
    BY <1>7 DEF Upsert, ClientsOK, Idle, Write, Purges
  <2>2. /\ client[c].slug \in Slug /\ client[c].trigger \in Trigger
        /\ client[c].enabled \in BOOLEAN /\ client[c].now \in Instant
    BY <2>1 DEF Upserts
  <2>3. /\ UpsertRow(client[c].slug, client[c].trigger, client[c].enabled, client[c].now)
        /\ Step(c, Idle) /\ UNCHANGED <<clock, ticker>>
    BY <1>7 DEF Upsert
  <2>4. RowsOK' /\ NoStaleFiring'
    BY <2>1, <2>2, <2>3, UpsertKeepsRows
  <2>. QED
    BY <2>3, <2>4, StepKeepsClients, TickerStays DEF Idle
<1>. QED
  BY <1>1, <1>2, <1>3, <1>4, <1>5, <1>6, <1>7 DEF Command

-----------------------------------------------------------------------------
(* The ticker *)

LEMMA ClientsStay ==
  ASSUME SchedInv, UNCHANGED client, clock' \in Instant, clock <= clock'
  PROVE  ClientsOK'
<1>1. ASSUME NEW c \in Client, client[c].at = "upsert"
      PROVE  client[c].now <= clock'
  <2>1. client[c] \in Upserts /\ client[c].now <= clock
    BY <1>1 DEF SchedInv, ClientsOK, Idle, Write, Purges
  <2>2. client[c].now \in Instant
    BY <2>1 DEF Upserts
  <2>. QED
    BY <2>1, <2>2 DEF SchedInv, Instant
<1>. QED
  BY <1>1 DEF SchedInv, ClientsOK

(* Moving to the next entry, or to none, is a well-formed ticker. *)
LEMMA NextEntryOK ==
  ASSUME SchedInv, ticker # Idle, NextEntry
  PROVE  TickerOK'
<1>1. ticker.due \in Seq(Slug) /\ ticker.due # << >>
  BY DEF SchedInv, TickerOK, Entries, Disables, Rewrites
<1>2. CASE Len(ticker.due) = 1
  BY <1>2 DEF NextEntry, TickerOK, Idle
<1>3. CASE Len(ticker.due) # 1
  <2>. DEFINE q == Tail(ticker.due)
  <2>1. q \in Seq(Slug) /\ q # << >>
    <3>1. q \in Seq(Slug) /\ Len(q) = Len(ticker.due) - 1
      BY <1>1, HeadTailProperties
    <3>2. Len(ticker.due) \in Nat /\ Len(ticker.due) # 0
      BY <1>1
    <3>3. Len(q) # 0
      BY <1>3, <3>1, <3>2
    <3>. HIDE DEF q
    <3>. QED
      BY <3>1, <3>3, EmptySeq
  <2>2. ticker' = [at |-> "entry", due |-> q]
    BY <1>3 DEF NextEntry
  <2>. HIDE DEF q
  <2>. QED
    BY <2>1, <2>2 DEF TickerOK, Entries
<1>. QED
  BY <1>2, <1>3

LEMMA PullKeeps ==
  ASSUME SchedInv, Pull
  PROVE  SchedInv'
<1>. DEFINE A(s) == IF Due(s) THEN Advanced(row[s]) ELSE row[s]
<1>1. row' = [s \in Slug |-> A(s)] /\ UNCHANGED <<clock, client>>
  BY DEF Pull
<1>2. \A s \in Slug : A(s) \in TypedRow \cup {NoRow}
  BY AdvancedIsFresh DEF SchedInv, RowsOK
<1>3. RowsOK'
  BY <1>1, <1>2 DEF RowsOK
<1>4. ASSUME NEW s \in Slug, A(s) # NoRow
      PROVE  /\ ~A(s).enabled => A(s).next = None
             /\ A(s).next # None =>
                  \E u \in Instant : u <= clock /\ A(s).next = NextRun[A(s).trigger][u]
  <2>1. CASE Due(s)
    BY <2>1, AdvancedIsFresh DEF SchedInv, Instant
  <2>2. CASE ~Due(s)
    BY <1>4, <2>2 DEF SchedInv, NoStaleFiring
  <2>. QED
    BY <2>1, <2>2
<1>. HIDE DEF A
<1>5. NoStaleFiring'
  BY <1>1, <1>4 DEF NoStaleFiring
<1>6. ClientsOK'
  BY <1>1, ClientsStay DEF SchedInv, Instant
<1>7. TickerOK'
  <2>1. PICK q \in InOrder(DueSlugs) : ticker' = [at |-> "entry", due |-> q]
    BY DEF Pull
  <2>2. IsFiniteSet(DueSlugs) /\ DueSlugs # {}
    BY SchedulesAssumption, FS_Subset DEF DueSlugs, Pull
  <2>3. Cardinality(DueSlugs) \in Nat \ {0}
    BY <2>2, FS_CardinalityType, FS_EmptySet
  <2>4. q \in [1..Cardinality(DueSlugs) -> Slug]
    BY DEF InOrder, DueSlugs
  <2>5. q \in Seq(Slug) /\ q # << >>
    BY <2>3, <2>4
  <2>. QED
    BY <2>1, <2>5 DEF TickerOK, Entries
<1>. QED
  BY <1>1, <1>3, <1>5, <1>6, <1>7 DEF SchedInv

LEMMA TickKeeps ==
  ASSUME SchedInv, Tick
  PROVE  SchedInv'
<1>0. clock \in Instant /\ clock <= clock
  BY DEF SchedInv, Instant
<1>1. CASE SkipRunning \/ Dispatch
  <2>1. ticker # Idle /\ NextEntry /\ UNCHANGED <<clock, row, client>>
    BY <1>1 DEF SkipRunning, Dispatch, Idle
  <2>. QED
    BY <1>0, <2>1, NextEntryOK, RowsStay, ClientsStay DEF SchedInv
<1>2. CASE ManifestMissing
  <2>1. ticker \in Entries /\ ticker.due # << >> /\ UNCHANGED <<clock, row, client>>
    BY <1>2 DEF ManifestMissing, SchedInv, TickerOK, Idle, Disables, Rewrites
  <2>2. ticker' = [at |-> "disable", due |-> ticker.due]
    BY <1>2 DEF ManifestMissing
  <2>3. TickerOK'
    BY <2>1, <2>2 DEF TickerOK, Entries, Disables
  <2>. QED
    BY <1>0, <2>1, <2>3, RowsStay, ClientsStay DEF SchedInv
<1>3. CASE AutoDisableRead
  <2>1. ticker \in Disables /\ ticker.due # << >> /\ UNCHANGED <<clock, row, client>>
    BY <1>3 DEF AutoDisableRead, SchedInv, TickerOK, Idle, Entries, Rewrites
  <2>2. Entry \in Slug /\ ticker # Idle
    BY <2>1 DEF Entry, Disables, Idle
  <2>3. CASE row[Entry] = NoRow /\ NextEntry
    BY <1>0, <2>1, <2>2, <2>3, NextEntryOK, RowsStay, ClientsStay DEF SchedInv
  <2>4. CASE row[Entry] # NoRow /\ ticker' = [at |-> "upsert", due |-> ticker.due,
                                               trigger |-> row[Entry].trigger, now |-> clock]
    <3>1. row[Entry].trigger \in Trigger
      BY <2>2, <2>4 DEF SchedInv, RowsOK, TypedRow
    <3>2. TickerOK'
      BY <1>0, <2>1, <2>4, <3>1 DEF TickerOK, Disables, Rewrites
    <3>. QED
      BY <1>0, <2>1, <3>2, RowsStay, ClientsStay DEF SchedInv
  <2>. QED
    BY <1>3, <2>3, <2>4 DEF AutoDisableRead
<1>4. CASE AutoDisable
  <2>1. ticker \in Rewrites /\ ticker.due # << >> /\ ticker.now <= clock
    BY <1>4 DEF AutoDisable, SchedInv, TickerOK, Idle, Entries, Disables
  <2>2. Entry \in Slug /\ ticker # Idle /\ ticker.trigger \in Trigger /\ ticker.now \in Instant
    BY <2>1 DEF Entry, Rewrites, Idle
  <2>3. UpsertRow(Entry, ticker.trigger, FALSE, ticker.now) /\ NextEntry /\ UNCHANGED <<clock, client>>
    BY <1>4 DEF AutoDisable
  <2>4. RowsOK' /\ NoStaleFiring'
    BY <2>1, <2>2, <2>3, UpsertKeepsRows DEF SchedInv
  <2>. QED
    BY <1>0, <2>2, <2>3, <2>4, NextEntryOK, ClientsStay DEF SchedInv
<1>. QED
  BY <1>1, <1>2, <1>3, <1>4, PullKeeps DEF Tick

-----------------------------------------------------------------------------
(* The specification *)

LEMMA InitHolds == Init => SchedInv
<1>. SUFFICES ASSUME Init PROVE SchedInv
  OBVIOUS
<1>1. clock \in Instant
  BY TriggersAssumption DEF Init, Instant
<1>2. RowsOK /\ NoStaleFiring
  BY DEF Init, RowsOK, NoStaleFiring
<1>3. ClientsOK /\ TickerOK
  BY DEF Init, ClientsOK, TickerOK, Idle
<1>. QED
  BY <1>1, <1>2, <1>3 DEF SchedInv

LEMMA RunEndsKeeps ==
  ASSUME SchedInv, NEW s \in Slug, FinishRun(s)
  PROVE  SchedInv'
<1>1. UNCHANGED <<clock, ticker, client>> /\ clock \in Instant /\ clock <= clock
  BY DEF FinishRun, SchedInv, Instant
<1>2. CASE UNCHANGED row
  BY <1>1, <1>2, RowsStay, ClientsStay, TickerStays DEF SchedInv
<1>3. CASE row[s] # NoRow /\ row' = [row EXCEPT ![s].lastRun = clock]
  <2>. DEFINE r == [row[s] EXCEPT !.lastRun = clock]
  <2>1. row[s] \in TypedRow
    BY <1>3 DEF SchedInv, RowsOK
  <2>2. /\ r \in TypedRow /\ r.enabled = row[s].enabled
        /\ r.next = row[s].next /\ r.trigger = row[s].trigger
    BY <1>1, <2>1 DEF TypedRow
  <2>3. row' = [row EXCEPT ![s] = r]
    BY <1>3
  <2>. HIDE DEF r
  <2>4. RowsOK'
    BY <2>2, <2>3 DEF SchedInv, RowsOK
  <2>5. NoStaleFiring'
    BY <1>1, <1>3, <2>2, <2>3 DEF SchedInv, RowsOK, NoStaleFiring
  <2>. QED
    BY <1>1, <2>4, <2>5, ClientsStay, TickerStays DEF SchedInv
<1>. QED
  BY <1>2, <1>3 DEF FinishRun

LEMMA StepKeeps == SchedInv /\ [Next]_vars => SchedInv'
<1>. SUFFICES ASSUME SchedInv, [Next]_vars PROVE SchedInv'
  OBVIOUS
<1>0. clock \in Instant /\ clock <= clock
  BY DEF SchedInv, Instant
<1>1. CASE \E c \in Client : Command(c)
  BY <1>1, CommandKeeps
<1>2. CASE \E s \in Slug : RunNow(s) \/ DeleteByHand(s)
  <2>1. UNCHANGED <<clock, row, ticker, client>>
    BY <1>2 DEF RunNow, DeleteByHand
  <2>. QED
    BY <1>0, <2>1, RowsStay, ClientsStay, TickerStays DEF SchedInv
<1>3. CASE \E s \in Slug : FinishRun(s)
  BY <1>3, RunEndsKeeps
<1>4. CASE Tick
  BY <1>4, TickKeeps
<1>5. CASE Crash
  <2>1. UNCHANGED <<clock, row>>
    BY <1>5 DEF Crash
  <2>2. ClientsOK' /\ TickerOK'
    BY <1>5 DEF Crash, ClientsOK, TickerOK, Idle
  <2>. QED
    BY <1>0, <2>1, <2>2, RowsStay DEF SchedInv
<1>6. CASE ClockTick
  <2>1. clock' = clock + 1 /\ clock' \in Instant /\ clock <= clock'
    BY <1>0, <1>6, ClockAdvances DEF ClockTick, Instant
  <2>2. UNCHANGED <<row, ticker, client>>
    BY <1>6 DEF ClockTick
  <2>3. TickerOK'
    <3>1. ASSUME ticker.at = "upsert" PROVE ticker.now <= clock'
      <4>1. ticker \in Rewrites /\ ticker.now <= clock
        BY <3>1 DEF SchedInv, TickerOK, Idle, Entries, Disables
      <4>2. ticker.now \in Instant
        BY <4>1 DEF Rewrites
      <4>. QED
        BY <1>0, <2>1, <4>1, <4>2 DEF Instant
    <3>. QED
      BY <2>2, <3>1 DEF SchedInv, TickerOK
  <2>. QED
    BY <2>1, <2>2, <2>3, RowsStay, ClientsStay DEF SchedInv
<1>7. CASE UNCHANGED vars
  <2>1. UNCHANGED <<clock, row, ticker, client>>
    BY <1>7 DEF vars
  <2>. QED
    BY <1>0, <2>1, RowsStay, ClientsStay, TickerStays DEF SchedInv
<1>. QED
  BY <1>1, <1>2, <1>3, <1>4, <1>5, <1>6, <1>7 DEF Next

THEOREM SchedulesInductive == Spec => []SchedInv
BY InitHolds, StepKeeps, PTL DEF Spec

(* store.rs:277-279: the firing time of a row is always one of its own      *)
(* trigger, and a disabled row has none, whatever edits, toggles, firings   *)
(* and restarts interleave.                                                 *)
THEOREM FiringTimesFresh == Spec => []NoStaleFiring
<1>1. SchedInv => NoStaleFiring
  BY DEF SchedInv
<1>. QED
  BY <1>1, SchedulesInductive, PTL

(* A row that has been pulled is not due after it: a downtime of any length *)
(* is made up for by one run.                                               *)
THEOREM DowntimeCaughtUpOnce == Spec => CatchUpOnce
<1>1. ASSUME SchedInv, SchedInv', [Next]_vars, Pull, NEW s \in DueSlugs
      PROVE  ~Due(s)'
  <2>1. s \in Slug /\ Due(s)
    BY DEF DueSlugs
  <2>2. row'[s] = Advanced(row[s]) /\ clock' = clock
    BY <1>1, <2>1 DEF Pull
  <2>3. Advanced(row[s]).next # None =>
          Advanced(row[s]).next \in Int /\ Advanced(row[s]).next > clock
    BY <1>1, <2>1, AdvancedIsFresh
  <2>. QED
    BY <1>1, <2>2, <2>3 DEF Due, SchedInv, Instant
<1>2. SchedInv /\ SchedInv' /\ [Next]_vars => [Pull => \A s \in DueSlugs : ~Due(s)']_vars
  BY <1>1
<1>. QED
  BY <1>2, SchedulesInductive, PTL DEF Spec, CatchUpOnce
-----------------------------------------------------------------------------
(* The calendar *)

(* A least element is the only one. *)
LEMMA EarliestIs ==
  ASSUME NEW S \in SUBSET Int, NEW u \in S, \A v \in S : u <= v
  PROVE  Earliest(S) = u
<1>. DEFINE IsLeast(c) == c \in S /\ \A v \in S : c <= v
<1>1. Earliest(S) = CHOOSE c : IsLeast(c)
  BY DEF Earliest
<1>2. IsLeast(u)
  OBVIOUS
<1>3. IsLeast(CHOOSE c : IsLeast(c))
  BY <1>2, Zenon
<1>4. Earliest(S) \in S /\ \A v \in S : Earliest(S) <= v
  BY <1>1, <1>3, Zenon
<1>5. Earliest(S) \in Int /\ Earliest(S) <= u /\ u <= Earliest(S) /\ u \in Int
  BY <1>4
<1>. HIDE DEF IsLeast
<1>. QED
  BY <1>5

LEMMA EarliestIsLeast ==
  ASSUME NEW a \in Int, NEW S \in SUBSET {d \in Int : a <= d}, S # {}
  PROVE  Earliest(S) \in S /\ \A v \in S : Earliest(S) <= v
<1>1. Earliest(S) \in S
  BY EarliestIsIn
<1>. DEFINE T == {d - a : d \in S}
<1>2. T \in SUBSET Nat /\ T # {}
  OBVIOUS
<1>3. PICK n \in T : \A m \in T : n <= m
  BY <1>2, LeastNat
<1>4. PICK u \in S : n = u - a
  BY <1>3
<1>5. \A v \in S : u <= v
  <2>. TAKE v \in S
  <2>1. v - a \in T
    OBVIOUS
  <2>2. u - a <= v - a
    BY <1>3, <1>4, <2>1
  <2>. QED
    BY <2>2
<1>6. Earliest(S) = u
  BY <1>5, EarliestIs
<1>. QED
  BY <1>1, <1>5, <1>6

(* Division of an instant by the length of a day. *)
LEMMA DayOf ==
  ASSUME NEW n \in Nat \ {0}, NEW d \in Int, NEW h \in 0..(n - 1)
  PROVE  (d * n + h) \div n = d
<1>. DEFINE a == d * n + h
            q == a \div n
            r == a % n
<1>1. q \in Int /\ a = n * q + r /\ r \in 0..(n - 1)
  OBVIOUS
<1>. HIDE DEF q, r
<1>2. (q - d) * n = h - r
  BY <1>1
<1>3. \A k \in Nat : k * n \in Nat
  OBVIOUS
<1>4. ASSUME q > d PROVE FALSE
  <2>1. q - d - 1 \in Nat
    BY <1>1, <1>4
  <2>2. (q - d - 1) * n \in Nat
    BY <1>3, <2>1
  <2>3. (q - d - 1) * n = (q - d) * n - n
    BY <1>1
  <2>. QED
    BY <1>1, <1>2, <2>2, <2>3
<1>5. ASSUME q < d PROVE FALSE
  <2>1. d - q - 1 \in Nat
    BY <1>1, <1>5
  <2>2. (d - q - 1) * n \in Nat
    BY <1>3, <2>1
  <2>3. (d - q - 1) * n = n * (d - q) - n
    BY <1>1
  <2>4. n * (d - q) = r - h
    BY <1>1
  <2>. QED
    BY <1>1, <2>2, <2>3, <2>4
<1>6. q = d
  BY <1>1, <1>4, <1>5
<1>. QED
  BY <1>6 DEF q

(* A local hour of a day that exists falls on that day, and is the first    *)
(* instant at which the clock shows it.                                     *)
LEMMA LocalToUtcShows ==
  ASSUME NEW d \in Int, NEW h \in 0..(DayLen - 1), LocalToUtc(d, h) # None
  PROVE  /\ LocalToUtc(d, h) \in Instant
         /\ LocalTime(LocalToUtc(d, h)) = d * DayLen + h
         /\ LocalDay(LocalToUtc(d, h)) = d
         /\ \A w \in Instant : LocalTime(w) = d * DayLen + h => LocalToUtc(d, h) <= w
<1>. DEFINE S == {u \in Instant : LocalTime(u) = d * DayLen + h}
            u == LocalToUtc(d, h)
<1>1. u = Earliest(S)
  BY DEF LocalToUtc
<1>2. S # {} /\ S \in SUBSET {e \in Int : 0 <= e}
  BY <1>1 DEF Earliest, Instant
<1>3. u \in S /\ \A w \in S : u <= w
  <2>. HIDE DEF S, u
  <2>1. Earliest(S) \in S /\ \A w \in S : Earliest(S) <= w
    BY <1>2, EarliestIsLeast
  <2>. QED
    BY <1>1, <2>1, Zenon
<1>4. DayLen \in Nat \ {0}
  BY TriggersAssumption
<1>5. (d * DayLen + h) \div DayLen = d
  BY <1>4, DayOf
<1>6. LocalDay(u) = d
  BY <1>3, <1>5 DEF LocalDay
<1>. HIDE DEF u
<1>. QED
  BY <1>3, <1>6 DEF u

(* The same hour of a later day comes later, and that of a day before the   *)
(* one that the clock shows has been.                                       *)
LEMMA DaysInOrder ==
  ASSUME NEW d \in Int, NEW e \in Int, d < e, NEW h \in 0..(DayLen - 1),
         LocalToUtc(d, h) # None, LocalToUtc(e, h) # None
  PROVE  LocalToUtc(d, h) < LocalToUtc(e, h)
<1>. DEFINE u == LocalToUtc(d, h)
            v == LocalToUtc(e, h)
<1>1. /\ u \in Instant /\ LocalTime(u) = d * DayLen + h /\ LocalDay(u) = d
      /\ \A w \in Instant : LocalTime(w) = d * DayLen + h => u <= w
  BY LocalToUtcShows
<1>2. v \in Instant /\ LocalDay(v) = e
  BY LocalToUtcShows
<1>. HIDE DEF u, v
<1>3. u \in Int /\ v \in Int /\ u # v
  BY <1>1, <1>2 DEF Instant
<1>4. ~(v < u)
  <2>1. ASSUME v < u PROVE FALSE
    <3>1. PICK w \in Instant : w <= v /\ LocalTime(w) = LocalTime(u)
      BY <1>1, <1>2, <2>1, ZoneAssumption
    <3>2. u <= w
      BY <1>1, <3>1
    <3>. QED
      BY <1>3, <2>1, <3>1, <3>2 DEF Instant
  <2>. QED
    BY <2>1
<1>. QED
  BY <1>3, <1>4 DEF u, v

LEMMA PastDaysArePast ==
  ASSUME NEW t \in Instant, NEW d \in Int, d < LocalDay(t), NEW h \in 0..(DayLen - 1),
         LocalToUtc(d, h) # None
  PROVE  LocalToUtc(d, h) <= t
<1>. DEFINE u == LocalToUtc(d, h)
<1>1. /\ u \in Instant /\ LocalTime(u) = d * DayLen + h /\ LocalDay(u) = d
      /\ \A w \in Instant : LocalTime(w) = d * DayLen + h => u <= w
  BY LocalToUtcShows
<1>. HIDE DEF u
<1>2. u \in Int /\ t \in Int
  BY <1>1 DEF Instant
<1>3. ASSUME t < u PROVE FALSE
  <2>1. PICK w \in Instant : w <= t /\ LocalTime(w) = LocalTime(u)
    BY <1>1, <1>3, ZoneAssumption
  <2>2. u <= w
    BY <1>1, <2>1
  <2>. QED
    BY <1>2, <1>3, <2>1, <2>2 DEF Instant
<1>. QED
  BY <1>2, <1>3 DEF u

(* The first day on which the hour is still to come is the first of all.    *)
LEMMA FirstLaterIsFirst ==
  ASSUME NEW t \in Instant, NEW span \in Nat, NEW h \in 0..(DayLen - 1),
         NEW DueDays \in SUBSET Int, FirstLater(t, Ahead(t, span) \cap DueDays, h) # None
  PROVE  \E d \in DueDays :
           /\ FirstLater(t, Ahead(t, span) \cap DueDays, h) = LocalToUtc(d, h) /\ LocalToUtc(d, h) # None
           /\ LocalToUtc(d, h) > t
           /\ \A e \in DueDays : LocalToUtc(e, h) # None /\ LocalToUtc(e, h) > t =>
                LocalToUtc(d, h) <= LocalToUtc(e, h)
<1>. DEFINE Days == Ahead(t, span) \cap DueDays
            S    == {e \in Days : Later(t, e, h)}
            d    == Earliest(S)
<1>1. LocalDay(t) \in Int /\ t \in Int
  BY TriggersAssumption DEF LocalDay, LocalTime, Instant
<1>2. d # None
  BY DEF FirstLater
<1>3. S # {} /\ S \in SUBSET {e \in Int : LocalDay(t) <= e}
  BY <1>1, <1>2 DEF Earliest, Ahead
<1>4. d \in S /\ \A e \in S : d <= e
  BY <1>1, <1>3, EarliestIsLeast
<1>5. /\ d \in DueDays /\ d \in Int /\ LocalDay(t) <= d /\ d <= LocalDay(t) + span
      /\ LocalToUtc(d, h) # None /\ LocalToUtc(d, h) > t
  BY <1>1, <1>4 DEF Later, Ahead
<1>6. FirstLater(t, Days, h) = LocalToUtc(d, h)
  BY <1>2 DEF FirstLater
<1>7. ASSUME NEW e \in DueDays, LocalToUtc(e, h) # None, LocalToUtc(e, h) > t
      PROVE  LocalToUtc(d, h) <= LocalToUtc(e, h)
  <2>1. e \in Int /\ LocalToUtc(e, h) \in Int /\ LocalToUtc(d, h) \in Int
    BY <1>5, <1>7, LocalToUtcIsInstant
  <2>2. LocalDay(t) <= e
    <3>1. ASSUME e < LocalDay(t) PROVE FALSE
      <4>1. LocalToUtc(e, h) <= t
        BY <1>7, <2>1, <3>1, PastDaysArePast
      <4>. QED
        BY <1>1, <1>7, <2>1, <4>1
    <3>. QED
      BY <1>1, <2>1, <3>1
  <2>3. d <= e
    <3>1. ASSUME e < d PROVE FALSE
      <4>1. e \in Ahead(t, span)
        BY <1>1, <1>5, <2>1, <2>2, <3>1 DEF Ahead
      <4>2. e \in S
        BY <1>7, <4>1 DEF Later
      <4>3. d <= e
        BY <1>4, <4>2
      <4>. QED
        BY <1>5, <2>1, <3>1, <4>3
    <3>. QED
      BY <1>5, <2>1, <3>1
  <2>4. CASE d = e
    BY <2>1, <2>4
  <2>5. CASE d < e
    <3>1. LocalToUtc(d, h) < LocalToUtc(e, h)
      BY <1>5, <1>7, <2>1, <2>5, DaysInOrder
    <3>. QED
      BY <2>1, <3>1
  <2>. QED
    BY <1>5, <2>1, <2>3, <2>4, <2>5
<1>. HIDE DEF d
<1>. QED
  BY <1>5, <1>6, <1>7

FInv == trigger \in Calendar /\ last \in Instant

LEMMA Followed ==
  ASSUME FInv
  PROVE  /\ trigger.kind \in {"daily", "weekly"} /\ trigger.hour \in 0..(DayLen - 1)
         /\ last \in Instant /\ LocalDay(last) \in Int
<1>1. last \in Instant /\ LocalDay(last) \in Int
  BY TriggersAssumption DEF FInv, LocalDay, LocalTime, Instant
<1>2. IsTrigger(trigger) /\ trigger.kind \in {"daily", "weekly"}
  BY FiringsAssumption DEF FInv
<1>. QED
  BY <1>1, <1>2 DEF IsTrigger

(* A daily and a weekly trigger differ in how far they look and in the days *)
(* that count.                                                              *)
LEMMA NextIsFirstLater ==
  ASSUME trigger.kind \in {"daily", "weekly"}, LocalDay(last) \in Int
  PROVE  \E span \in Nat :
           NextAfter(trigger, last) =
             FirstLater(last, Ahead(last, span) \cap {d \in Int : DueOn(d)}, trigger.hour)
<1>1. CASE trigger.kind = "daily"
  <2>1. NextAfter(trigger, last) = FirstLater(last, Ahead(last, 2), trigger.hour)
    BY <1>1 DEF NextAfter, NextDaily
  <2>2. Ahead(last, 2) \cap {d \in Int : DueOn(d)} = Ahead(last, 2)
    BY <1>1 DEF DueOn, Ahead
  <2>. QED
    BY <2>1, <2>2
<1>2. CASE trigger.kind = "weekly"
  <2>1. NextAfter(trigger, last) =
          FirstLater(last, {d \in Ahead(last, 7) : d % 7 \in trigger.weekdays}, trigger.hour)
    BY <1>2 DEF NextAfter, NextWeekly
  <2>2. Ahead(last, 7) \cap {d \in Int : DueOn(d)}
          = {d \in Ahead(last, 7) : d % 7 \in trigger.weekdays}
    BY <1>2 DEF DueOn, Ahead
  <2>. QED
    BY <2>1, <2>2
<1>. QED
  BY <1>1, <1>2

LEMMA FiringsFirst == FInv => FiresAtFirstOccurrence
<1>. SUFFICES ASSUME FInv, NextAfter(trigger, last) # None
              PROVE  NextAfter(trigger, last) = Earliest({u \in Occurrences : u > last})
  BY DEF FiresAtFirstOccurrence
<1>. DEFINE h    == trigger.hour
            DueDays  == {d \in Int : DueOn(d)}
            next == NextAfter(trigger, last)
<1>1. /\ trigger.kind \in {"daily", "weekly"} /\ h \in 0..(DayLen - 1)
      /\ last \in Instant /\ LocalDay(last) \in Int
  BY Followed
<1>2. PICK d \in DueDays : /\ next = LocalToUtc(d, h) /\ LocalToUtc(d, h) # None
                       /\ LocalToUtc(d, h) > last
                       /\ \A e \in DueDays : LocalToUtc(e, h) # None /\ LocalToUtc(e, h) > last =>
                            LocalToUtc(d, h) <= LocalToUtc(e, h)
  <2>1. PICK span \in Nat : next = FirstLater(last, Ahead(last, span) \cap DueDays, h)
    BY <1>1, NextIsFirstLater
  <2>2. DueDays \in SUBSET Int /\ FirstLater(last, Ahead(last, span) \cap DueDays, h) # None
    BY <2>1
  <2>. HIDE DEF DueDays, h, next
  <2>. QED
    BY <1>1, <2>1, <2>2, FirstLaterIsFirst
<1>. DEFINE S == {u \in Occurrences : u > last}
<1>3. next \in S
  <2>1. next \in Instant /\ LocalDay(next) = d
    BY <1>1, <1>2, LocalToUtcShows
  <2>2. next \in Occurrences
    BY <1>2, <2>1 DEF Occurrences
  <2>. QED
    BY <1>2, <2>2
<1>4. ASSUME NEW u \in S PROVE u \in Int /\ next <= u
  <2>1. PICK e \in {LocalDay(v) : v \in Instant} : DueOn(e) /\ u = LocalToUtc(e, h)
    BY DEF Occurrences
  <2>2. e \in DueDays
    BY <2>1, TriggersAssumption DEF LocalDay, LocalTime, Instant
  <2>3. u # None /\ u > last
    BY DEF Occurrences
  <2>4. u \in Int
    BY <2>1, <2>3, LocalToUtcIsInstant
  <2>. QED
    BY <1>2, <2>1, <2>2, <2>3, <2>4
<1>. HIDE DEF S, next
<1>5. Earliest(S) = next
  BY <1>3, <1>4, EarliestIs
<1>. QED
  BY <1>5 DEF S, next

LEMMA FiringsInductive == FSpec => []FInv
<1>1. FInit => FInv
  BY FiringsAssumption, TriggersAssumption DEF FInit, FInv, Instant
<1>2. FInv /\ [Fire]_<<trigger, last>> => FInv'
  <2>. SUFFICES ASSUME FInv, [Fire]_<<trigger, last>> PROVE FInv'
    OBVIOUS
  <2>1. CASE Fire
    <3>. DEFINE h   == trigger.hour
                DueDays == {d \in Int : DueOn(d)}
    <3>1. /\ trigger.kind \in {"daily", "weekly"} /\ h \in 0..(DayLen - 1)
          /\ last \in Instant /\ LocalDay(last) \in Int
      BY Followed
    <3>2. /\ NextAfter(trigger, last) # None /\ last' = NextAfter(trigger, last)
          /\ trigger' = trigger
      BY <2>1 DEF Fire
    <3>3. PICK span \in Nat : NextAfter(trigger, last) = FirstLater(last, Ahead(last, span) \cap DueDays, h)
      BY <3>1, NextIsFirstLater
    <3>4. DueDays \in SUBSET Int /\ FirstLater(last, Ahead(last, span) \cap DueDays, h) # None
      BY <3>2, <3>3
    <3>. HIDE DEF DueDays, h
    <3>5. PICK d \in DueDays : FirstLater(last, Ahead(last, span) \cap DueDays, h) = LocalToUtc(d, h)
                           /\ LocalToUtc(d, h) # None
      BY <3>1, <3>4, FirstLaterIsFirst
    <3>6. last' \in Instant
      BY <3>1, <3>2, <3>3, <3>4, <3>5, LocalToUtcShows
    <3>. QED
      BY <3>2, <3>6 DEF FInv
  <2>2. CASE UNCHANGED <<trigger, last>>
    BY <2>2 DEF FInv
  <2>. QED
    BY <2>1, <2>2
<1>. QED
  BY <1>1, <1>2, PTL DEF FSpec

(* Trigger::next_after, asked again at each firing, skips no occurrence of  *)
(* a daily or weekly trigger and fires at none twice, in every zone that    *)
(* shows again what it is put back to.                                      *)
THEOREM NoOccurrenceSkipped == FSpec => []FiresAtFirstOccurrence
<1>. QED
  BY FiringsInductive, FiringsFirst, PTL

LEMMA DailyFindsDay ==
  ASSUME MidnightPassesOnce, GapsAreRare, FInv, trigger.kind = "daily", last <= Span
  PROVE  NextAfter(trigger, last) # None
<1>. DEFINE h == trigger.hour
            S == {d \in Ahead(last, 2) : Later(last, d, h)}
<1>1. /\ h \in 0..(DayLen - 1) /\ last \in Instant /\ LocalDay(last) \in Int /\ last \in Int
      /\ last \in 0..Span
  BY Followed, FiringsAssumption DEF Instant
<1>2. NextAfter(trigger, last) = FirstLater(last, Ahead(last, 2), h)
  BY DEF NextAfter, NextDaily
<1>. HIDE DEF h
<1>3. PICK d \in {LocalDay(last) + 1, LocalDay(last) + 2} : LocalToUtc(d, h) # None
  BY <1>1 DEF GapsAreRare
<1>4. d \in Int /\ LocalDay(last) < d /\ d \in Ahead(last, 2)
  BY <1>1, <1>3 DEF Ahead
<1>5. LocalToUtc(d, h) \in Instant /\ LocalDay(LocalToUtc(d, h)) = d
  BY <1>1, <1>3, <1>4, LocalToUtcShows
<1>6. LocalToUtc(d, h) > last
  <2>1. LocalToUtc(d, h) \in Int
    BY <1>5 DEF Instant
  <2>2. ~(LocalToUtc(d, h) < last)
    <3>1. ASSUME NEW v \in Instant, v < last PROVE LocalDay(v) <= LocalDay(last)
      BY <1>1, <3>1 DEF MidnightPassesOnce
    <3>2. ~(d <= LocalDay(last))
      BY <1>1, <1>4
    <3>. QED
      BY <1>5, <3>1, <3>2
  <2>3. LocalToUtc(d, h) # last
    BY <1>1, <1>4, <1>5
  <2>. QED
    BY <1>1, <2>1, <2>2, <2>3
<1>7. d \in S
  BY <1>3, <1>4, <1>6 DEF Later
<1>8. Earliest(S) \in S /\ Earliest(S) # None
  <2>1. S # {} /\ S \in SUBSET {e \in Int : LocalDay(last) <= e}
    BY <1>1, <1>7 DEF Ahead
  <2>2. Earliest(S) \in S
    BY <1>1, <2>1, EarliestIsIn
  <2>. QED
    BY <2>1, <2>2, TriggersAssumption
<1>9. FirstLater(last, Ahead(last, 2), h) = LocalToUtc(Earliest(S), h)
  BY <1>8 DEF FirstLater
<1>10. LocalToUtc(Earliest(S), h) # None
  BY <1>8 DEF Later
<1>. QED
  BY <1>2, <1>9, <1>10

(* next_daily looks at today and two days more, which is enough for a daily *)
(* trigger to go on for ever, where midnight is not passed twice and no     *)
(* hour is skipped on two days in a row.                                    *)
THEOREM DailyGoesOn ==
  ASSUME MidnightPassesOnce, GapsAreRare
  PROVE  FSpec => []DailyNeverStops
<1>1. FInv => DailyNeverStops
  BY DailyFindsDay DEF DailyNeverStops
<1>. QED
  BY <1>1, FiringsInductive, PTL
=============================================================================
