---------------------------- MODULE Accounts_proofs ----------------------------
(* Proofs about Accounts.  Everything is claimed as long as no two writers   *)
(* overlap.  Then one process at most holds a copy of the configuration, so  *)
(* the memory it copied is the memory it replaces, and what it is about to   *)
(* save can be compared with what is there.                                  *)
EXTENDS Accounts, TLAPS

Keys(cfg) == DOMAIN cfg.accounts

\* A configuration in which each connector is bound to an account that is there.
IsWhole(cfg) ==
  /\ cfg = [accounts |-> cfg.accounts, bindings |-> cfg.bindings]
  /\ \A c \in DOMAIN cfg.bindings : cfg.bindings[c] \in Account \cap Keys(cfg)

IsJob(j) ==
  j = [key |-> j.key, ids |-> j.ids, token |-> j.token, signsIn |-> j.signsIn, next |-> j.next]

Shape ==
  /\ step = [p \in Process |-> step[p]]
  /\ job = [p \in Process |-> job[p]]
  /\ \A p \in Process : IsJob(job[p])

Alone == \A p, q \in Process : Writing(p) /\ Writing(q) => p = q

\* A copy adds no account but the session and the one the user signs in to.
Adds(cfg, k, signs) == Keys(cfg) \subseteq Keys(config) \cup {Chat} \cup (IF signs THEN {k} ELSE {})

Plan(s, j) ==
  /\ s = "bind" => j.key \in Account \cap Keys(config)
  /\ s = "store" => IsWhole(j.next) /\ Adds(j.next, j.key, j.signsIn)
  /\ s = "cache" => disk = j.next
  /\ s = "consent" => j.signsIn

Planned == \A p \in Process : Plan(step[p], job[p])

Gone == \A k \in out \cap Account : k \notin Keys(config) /\ k \notin Keys(disk)

Synced == "failure" \notin mishaps /\ (\A p \in Process : step[p] # "cache") => disk = config

Whole == IsWhole(config) /\ IsWhole(disk)

Kept == Shape /\ Alone /\ Planned /\ Whole /\ Gone /\ Synced

IInv == "race" \notin mishaps => Kept

---------------------------------------------------------------------------------
(* What the changes of a copy do to it.                                     *)

LEMMA ConnectsIsWhole ==
  ASSUME NEW cfg, IsWhole(cfg), NEW k \in Account, NEW row, NEW ids
  PROVE  /\ IsWhole(Connects(cfg, k, row, ids))
         /\ Keys(Connects(cfg, k, row, ids)) = Keys(cfg) \cup {k}
<1> DEFINE new  == Connects(cfg, k, row, ids)
           asks == [c \in ids |-> k]
<1>1. new.accounts = Over(Entry(k, row), cfg.accounts) /\ new.bindings = Over(asks, cfg.bindings)
  BY DEF Connects
<1>2. Keys(new) = Keys(cfg) \cup {k}
  BY <1>1 DEF Keys, Over, Entry
<1>3. ASSUME NEW c \in DOMAIN new.bindings PROVE new.bindings[c] \in Account \cap Keys(new)
  BY <1>1, <1>2, <1>3 DEF IsWhole, Over
<1> QED BY <1>2, <1>3 DEF IsWhole, Connects

LEMMA LogsInIsWhole ==
  ASSUME NEW cfg, IsWhole(cfg), NEW row
  PROVE  /\ IsWhole(Connects(cfg, Chat, row, {}))
         /\ Keys(Connects(cfg, Chat, row, {})) = Keys(cfg) \cup {Chat}
<1> DEFINE new == Connects(cfg, Chat, row, {})
<1>1. new.accounts = Over(Entry(Chat, row), cfg.accounts)
      /\ new.bindings = Over([c \in {} |-> Chat], cfg.bindings)
  BY DEF Connects
<1>2. Keys(new) = Keys(cfg) \cup {Chat}
  BY <1>1 DEF Keys, Over, Entry
<1>3. ASSUME NEW c \in DOMAIN new.bindings PROVE new.bindings[c] \in Account \cap Keys(new)
  BY <1>1, <1>2, <1>3 DEF IsWhole, Over
<1> QED BY <1>2, <1>3 DEF IsWhole, Connects

LEMMA BindIsWhole ==
  ASSUME NEW cfg, IsWhole(cfg), NEW k \in Account \cap Keys(cfg), NEW ids
  PROVE  /\ IsWhole([cfg EXCEPT !.bindings = Over([c \in ids |-> k], @)])
         /\ Keys([cfg EXCEPT !.bindings = Over([c \in ids |-> k], @)]) = Keys(cfg)
<1> DEFINE new == [cfg EXCEPT !.bindings = Over([c \in ids |-> k], @)]
<1>1. new = [accounts |-> cfg.accounts, bindings |-> Over([c \in ids |-> k], cfg.bindings)]
  BY DEF IsWhole
<1>2. ASSUME NEW c \in DOMAIN new.bindings PROVE new.bindings[c] \in Account \cap Keys(new)
  BY <1>1, <1>2 DEF IsWhole, Keys, Over
<1> QED BY <1>1, <1>2 DEF IsWhole, Keys

\* The rows may change as long as none appears or goes.
LEMMA RowsIsWhole ==
  ASSUME NEW cfg, IsWhole(cfg), NEW rows, DOMAIN rows = Keys(cfg)
  PROVE  /\ IsWhole([cfg EXCEPT !.accounts = rows])
         /\ Keys([cfg EXCEPT !.accounts = rows]) = Keys(cfg)
<1>1. [cfg EXCEPT !.accounts = rows] = [accounts |-> rows, bindings |-> cfg.bindings]
  BY DEF IsWhole
<1> QED BY <1>1 DEF IsWhole, Keys

LEMMA RenewedIsWhole ==
  ASSUME NEW cfg, IsWhole(cfg), NEW k, NEW t
  PROVE  IsWhole(Renewed(cfg, k, t)) /\ Keys(Renewed(cfg, k, t)) = Keys(cfg)
<1>1. CASE k \notin DOMAIN cfg.accounts
  BY <1>1 DEF Renewed
<1>2. CASE k \in DOMAIN cfg.accounts
  <2> DEFINE rows == [cfg.accounts EXCEPT ![k] =
                        [refresh |-> IF t = NoToken THEN @.refresh ELSE t, reauth |-> FALSE]]
  <2>1. Renewed(cfg, k, t) = [cfg EXCEPT !.accounts = rows]
    BY <1>2 DEF Renewed, IsWhole
  <2>2. DOMAIN rows = Keys(cfg)
    BY DEF Keys
  <2> HIDE DEF rows
  <2> QED BY <2>1, <2>2, RowsIsWhole
<1> QED BY <1>1, <1>2

LEMMA MarkIsWhole ==
  ASSUME NEW cfg, IsWhole(cfg), NEW k
  PROVE  /\ IsWhole([cfg EXCEPT !.accounts[k].reauth = TRUE])
         /\ Keys([cfg EXCEPT !.accounts[k].reauth = TRUE]) = Keys(cfg)
<1> DEFINE rows == [cfg.accounts EXCEPT ![k].reauth = TRUE]
<1>1. [cfg EXCEPT !.accounts[k].reauth = TRUE] = [cfg EXCEPT !.accounts = rows]
  BY DEF IsWhole
<1>2. DOMAIN rows = Keys(cfg)
  BY DEF Keys
<1> HIDE DEF rows
<1> QED BY <1>1, <1>2, RowsIsWhole

(* An account may go when no connector is bound to it.                      *)
LEMMA SignsOutIsWhole ==
  ASSUME NEW cfg, IsWhole(cfg), NEW k, \A c \in DOMAIN cfg.bindings : cfg.bindings[c] # k
  PROVE  IsWhole(SignsOut(cfg, k)) /\ Keys(SignsOut(cfg, k)) = Keys(cfg) \ {k}
<1>1. SignsOut(cfg, k) = [accounts |-> Restrict(cfg.accounts, Keys(cfg) \ {k}), bindings |-> cfg.bindings]
  BY DEF SignsOut, IsWhole, Keys
<1>2. Keys(SignsOut(cfg, k)) = Keys(cfg) \ {k}
  BY <1>1 DEF Keys, Restrict
<1> QED BY <1>1, <1>2 DEF IsWhole

LEMMA LogoutIsWhole ==
  ASSUME NEW cfg, IsWhole(cfg)
  PROVE  IsWhole(SignsOut(cfg, Chat)) /\ Keys(SignsOut(cfg, Chat)) \subseteq Keys(cfg)
<1>1. \A c \in DOMAIN cfg.bindings : cfg.bindings[c] # Chat
  BY AccountsAssumption DEF IsWhole
<1> QED BY <1>1, SignsOutIsWhole

LEMMA DisconnectedIsWhole ==
  ASSUME NEW cfg, IsWhole(cfg), NEW c
  PROVE  IsWhole(Disconnected(cfg, c)) /\ Keys(Disconnected(cfg, c)) \subseteq Keys(cfg)
<1> DEFINE rest == Restrict(cfg.bindings, DOMAIN cfg.bindings \ {c})
           k    == cfg.bindings[c]
           left == [cfg EXCEPT !.bindings = rest]
<1>1. left = [accounts |-> cfg.accounts, bindings |-> rest]
  BY DEF IsWhole
<1>2. DOMAIN rest = DOMAIN cfg.bindings \ {c} /\ \A d \in DOMAIN rest : rest[d] = cfg.bindings[d]
  BY DEF Restrict
<1>3. IsWhole(left) /\ Keys(left) = Keys(cfg)
  BY <1>1, <1>2 DEF IsWhole, Keys
<1>4. CASE c \notin DOMAIN cfg.bindings
  BY <1>4 DEF Disconnected
<1>5. CASE c \in DOMAIN cfg.bindings /\ k \in Range(rest)
  BY <1>3, <1>5 DEF Disconnected
<1>6. CASE c \in DOMAIN cfg.bindings /\ k \notin Range(rest)
  <2>1. \A d \in DOMAIN left.bindings : left.bindings[d] # k
    BY <1>1, <1>6 DEF Range
  <2>2. Disconnected(cfg, c) = SignsOut(left, k)
    BY <1>6 DEF Disconnected
  <2> HIDE DEF left, k
  <2> QED BY <1>3, <2>1, <2>2, SignsOutIsWhole
<1> QED BY <1>4, <1>5, <1>6

---------------------------------------------------------------------------------
(* Two kinds of step.                                                       *)

(* A process goes on and touches neither file; it takes up no copy and puts *)
(* none down that is half written.                                          *)
LEMMA QuietStep ==
  ASSUME Kept, NEW p \in Process, NEW s, NEW j,
         Becomes(p, s, j), IsJob(j), Plan(s, j),
         s \notin {"bind", "store", "cache"}, step[p] # "cache",
         UNCHANGED files, out' = out, mishaps \subseteq mishaps'
  PROVE  Kept'
<1> USE DEF Kept, files
<1>1. /\ step' = [q \in Process |-> step'[q]] /\ job' = [q \in Process |-> job'[q]]
      /\ step'[p] = s /\ job'[p] = j
      /\ \A q \in Process \ {p} : step'[q] = step[q] /\ job'[q] = job[q]
  BY DEF Becomes, Shape
<1>2. Shape'
  BY <1>1 DEF Shape, IsJob
<1>3. Alone'
  BY <1>1 DEF Alone, Writing
<1>4. Planned'
  BY <1>1 DEF Planned, Plan, Adds, IsWhole, Keys
<1>5. Whole' /\ Gone'
  BY DEF Whole, Gone, IsWhole, Keys
<1>6. Synced'
  BY <1>1 DEF Synced
<1> QED BY <1>2, <1>3, <1>4, <1>5, <1>6

(* A process takes a copy, or changes the one it has, and no other holds    *)
(* one.                                                                     *)
LEMMA CopyStep ==
  ASSUME Kept, NEW p \in Process, NEW s, NEW j,
         Becomes(p, s, j), IsJob(j), Plan(s, j), s # "cache", step[p] # "cache",
         Reads(p), "race" \notin mishaps',
         UNCHANGED files, out' = out
  PROVE  Kept'
<1> USE DEF Kept, files
<1>1. /\ step' = [q \in Process |-> step'[q]] /\ job' = [q \in Process |-> job'[q]]
      /\ step'[p] = s /\ job'[p] = j
      /\ \A q \in Process \ {p} : step'[q] = step[q] /\ job'[q] = job[q]
  BY DEF Becomes, Shape
<1>2. Shape'
  BY <1>1 DEF Shape, IsJob
<1>3. Alone'
  <2>1. \A q \in Process \ {p} : ~Writing(q)
    BY DEF Reads
  <2> QED BY <1>1, <2>1 DEF Alone, Writing
<1>4. Planned'
  BY <1>1 DEF Planned, Plan, Adds, IsWhole, Keys
<1>5. Whole' /\ Gone'
  BY DEF Whole, Gone, IsWhole, Keys
<1>6. Synced'
  BY <1>1 DEF Synced, Reads
<1> QED BY <1>2, <1>3, <1>4, <1>5, <1>6

(* The changed copy is handed to update.                                    *)
LEMMA UpdateStep ==
  ASSUME Kept, NEW p \in Process, NEW j, NEW cfg,
         Update(p, j, cfg), IsJob(j), IsWhole(cfg), Adds(cfg, j.key, j.signsIn),
         step[p] # "cache", "race" \notin mishaps',
         UNCHANGED files, out' = out
  PROVE  Kept'
<1> DEFINE new == [j EXCEPT !.next = cfg]
<1>1. new.next = cfg /\ new.key = j.key /\ new.signsIn = j.signsIn /\ IsJob(new)
  BY DEF IsJob
<1>2. Plan("store", new)
  BY <1>1 DEF Plan
<1>3. Becomes(p, "store", new) /\ Reads(p)
  BY DEF Update
<1> HIDE DEF new
<1> QED BY <1>1, <1>2, <1>3, CopyStep

---------------------------------------------------------------------------------
(* The invariant.                                                           *)

LEMMA InitKept == Init => Kept
<1> SUFFICES ASSUME Init PROVE Kept
  OBVIOUS
<1>1. IsWhole(config) /\ disk = config
  BY DEF Init, IsWhole, NoConfig, Keys
<1>2. Shape
  BY DEF Init, Shape, IsJob, Nothing, Job
<1>3. Alone /\ Planned
  BY DEF Init, Alone, Planned, Plan, Writing
<1> QED BY <1>1, <1>2, <1>3 DEF Init, Kept, Whole, Gone, Synced

LEMMA NextKept ==
  ASSUME Kept, Next, "race" \notin mishaps'
  PROVE  Kept'
<1> USE DEF Kept
<1>p. ASSUME NEW p \in Process,
             AskToken(p) \/ NothingToRefresh(p) \/ RefreshLocked(p) \/ AskChatToken(p)
             \/ Exchange(p) \/ RefreshFails(p) \/ ChatRefused(p)
             \/ Consent(p) \/ Login(p) \/ ConsentFails(p)
      PROVE  Kept'
  <2>1. IsJob(job[p])
    BY DEF Shape
  <2>2. \E s, j : /\ Becomes(p, s, j) /\ IsJob(j) /\ Plan(s, j)
                  /\ s \notin {"bind", "store", "cache"}
    <3>1. CASE AskToken(p)
      BY <3>1 DEF AskToken, Job, IsJob, Plan
    <3>2. CASE NothingToRefresh(p) \/ RefreshFails(p) \/ ChatRefused(p) \/ ConsentFails(p)
      BY <3>2 DEF NothingToRefresh, RefreshFails, ChatRefused, ConsentFails, Ends, IsJob, Nothing, Job, Plan
    <3>3. CASE RefreshLocked(p)
      BY <2>1, <3>3 DEF RefreshLocked, IsJob, Plan
    <3>4. CASE AskChatToken(p)
      BY <3>4 DEF AskChatToken, Job, IsJob, Plan
    <3>5. CASE Exchange(p)
      BY <2>1, <3>5 DEF Exchange, IsJob, Plan
    <3>6. CASE Consent(p)
      BY <3>6 DEF Consent, Job, IsJob, Plan
    <3>7. CASE Login(p)
      BY <3>7 DEF Login, Job, IsJob, Plan
    <3> QED BY <1>p, <3>1, <3>2, <3>3, <3>4, <3>5, <3>6, <3>7
  <2>3. step[p] # "cache" /\ UNCHANGED files /\ out' = out /\ mishaps \subseteq mishaps'
    BY <1>p DEF AskToken, NothingToRefresh, RefreshLocked, AskChatToken, Exchange, RefreshFails,
                ChatRefused, Consent, Login, ConsentFails, Happens
  <2> QED BY <2>2, <2>3, QuietStep
<1>c. ASSUME NEW p \in Process,
             ApplyRefresh(p) \/ ApplyChatRefresh(p) \/ MarkNeedsReauth(p) \/ BindAccount(p)
             \/ Granted(p) \/ LoggedIn(p) \/ Disconnect(p) \/ Logout(p) \/ Setting(p)
      PROVE  Kept'
  <2>1. IsJob(job[p]) /\ IsJob(Nothing) /\ IsWhole(config) /\ Plan(step[p], job[p])
    BY DEF Shape, IsJob, Nothing, Job, Whole, Planned
  <2>2. \E j, cfg : Update(p, j, cfg) /\ IsJob(j) /\ IsWhole(cfg) /\ Adds(cfg, j.key, j.signsIn)
    <3>1. CASE ApplyRefresh(p)
      BY <2>1, <3>1, RenewedIsWhole DEF ApplyRefresh, Adds
    <3>2. CASE ApplyChatRefresh(p)
      BY <2>1, <3>2, LogsInIsWhole DEF ApplyChatRefresh, Adds
    <3>3. CASE MarkNeedsReauth(p)
      BY <2>1, <3>3, MarkIsWhole DEF MarkNeedsReauth, Adds
    <3>4. CASE BindAccount(p)
      BY <2>1, <3>4, BindIsWhole DEF BindAccount, Adds, Plan
    <3>5. CASE Granted(p)
      BY <2>1, <3>5, ConnectsIsWhole DEF Granted, Adds, Plan
    <3>6. CASE LoggedIn(p)
      BY <2>1, <3>6, LogsInIsWhole DEF LoggedIn, Adds
    <3>7. CASE Disconnect(p)
      BY <2>1, <3>7, DisconnectedIsWhole DEF Disconnect, Adds
    <3>8. CASE Logout(p)
      BY <2>1, <3>8, LogoutIsWhole DEF Logout, Adds
    <3>9. CASE Setting(p)
      BY <2>1, <3>9 DEF Setting, Adds
    <3> QED BY <1>c, <3>1, <3>2, <3>3, <3>4, <3>5, <3>6, <3>7, <3>8, <3>9
  <2>3. step[p] # "cache" /\ UNCHANGED files /\ out' = out
    BY <1>c DEF ApplyRefresh, ApplyChatRefresh, MarkNeedsReauth, BindAccount, Granted, LoggedIn,
                Disconnect, Logout, Setting
  <2> QED BY <2>2, <2>3, UpdateStep
<1>f. ASSUME NEW p \in Process, FindAccount(p) PROVE Kept'
  <2>1. \E j : Becomes(p, "bind", j) /\ IsJob(j) /\ Plan("bind", j)
    BY <1>f DEF FindAccount, Job, IsJob, Plan, Keys
  <2>2. step[p] # "cache" /\ Reads(p) /\ UNCHANGED files /\ out' = out
    BY <1>f DEF FindAccount
  <2> QED BY <2>1, <2>2, CopyStep
<1>m. ASSUME NEW p \in Process, Save(p) PROVE Kept'
  <2>1. /\ step' = [step EXCEPT ![p] = "cache"] /\ job' = [job EXCEPT ![p] = job[p]]
        /\ disk' = job[p].next /\ config' = config /\ mishaps' = mishaps
        /\ step[p] = "store" /\ SignsIn(p)
    BY <1>m DEF Save, Becomes
  <2>2. job' = job /\ \A q \in Process : step'[q] = IF q = p THEN "cache" ELSE step[q]
    BY <2>1 DEF Shape
  <2>3. IsWhole(job[p].next) /\ Adds(job[p].next, job[p].key, job[p].signsIn)
    BY <2>1 DEF Planned, Plan
  <2>4. Shape'
    BY <2>1, <2>2 DEF Shape, IsJob
  <2>5. Alone'
    BY <2>1, <2>2 DEF Alone, Writing
  <2>6. Planned'
    <3>1. ASSUME NEW q \in Process, q # p PROVE Plan(step[q], job[q])'
      BY <2>1, <2>2, <3>1 DEF Planned, Plan, Adds, IsWhole, Keys, Alone, Writing
    <3>2. Plan(step[p], job[p])'
      BY <2>1, <2>2 DEF Plan
    <3> QED BY <3>1, <3>2 DEF Planned
  <2>7. Whole'
    BY <2>1, <2>3 DEF Whole, IsWhole, Keys
  <2>8. Gone'
    BY <2>1, <2>3, AccountsAssumption DEF Gone, SignsIn, Adds, Keys
  <2>9. Synced'
    BY <2>1, <2>2 DEF Synced
  <2> QED BY <2>4, <2>5, <2>6, <2>7, <2>8, <2>9
<1>l. ASSUME NEW p \in Process, SaveFails(p) PROVE Kept'
  <2>1. /\ step' = [step EXCEPT ![p] = "idle"] /\ job' = [job EXCEPT ![p] = Nothing]
        /\ disk' \in {disk, job[p].next} /\ config' = config /\ "failure" \in mishaps'
        /\ step[p] = "store" /\ SignsIn(p)
    BY <1>l DEF SaveFails, Ends, Becomes, Happens
  <2>2. \A q \in Process : /\ step'[q] = IF q = p THEN "idle" ELSE step[q]
                           /\ job'[q] = IF q = p THEN Nothing ELSE job[q]
    BY <2>1 DEF Shape
  <2>3. IsWhole(job[p].next) /\ Adds(job[p].next, job[p].key, job[p].signsIn)
    BY <2>1 DEF Planned, Plan
  <2>4. Shape'
    BY <2>1, <2>2 DEF Shape, IsJob, Nothing, Job
  <2>5. Alone'
    BY <2>1, <2>2 DEF Alone, Writing
  <2>6. Planned'
    <3>1. ASSUME NEW q \in Process, q # p PROVE Plan(step[q], job[q])'
      BY <2>1, <2>2, <3>1 DEF Planned, Plan, Adds, IsWhole, Keys, Alone, Writing
    <3>2. Plan(step[p], job[p])'
      BY <2>1, <2>2 DEF Plan
    <3> QED BY <3>1, <3>2 DEF Planned
  <2>7. Whole'
    BY <2>1, <2>3 DEF Whole, IsWhole, Keys
  <2>8. Gone'
    BY <2>1, <2>3, AccountsAssumption DEF Gone, SignsIn, Adds, Keys
  <2>9. Synced'
    BY <2>1 DEF Synced
  <2> QED BY <2>4, <2>5, <2>6, <2>7, <2>8, <2>9
<1>n. ASSUME NEW p \in Process, Cache(p) PROVE Kept'
  <2>1. /\ step' = [step EXCEPT ![p] = "idle"] /\ job' = [job EXCEPT ![p] = Nothing]
        /\ config' = job[p].next /\ disk' = disk /\ step[p] = "cache" /\ mishaps' = mishaps
        /\ out' = out \cup (Keys(config) \ Keys(job[p].next))
    BY <1>n DEF Cache, Ends, Becomes, Keys
  <2>2. \A q \in Process : /\ step'[q] = IF q = p THEN "idle" ELSE step[q]
                           /\ job'[q] = IF q = p THEN Nothing ELSE job[q]
    BY <2>1 DEF Shape
  <2>3. config' = disk /\ disk' = disk
    BY <2>1 DEF Planned, Plan
  <2>4. Shape'
    BY <2>1, <2>2 DEF Shape, IsJob, Nothing, Job
  <2>5. \A q \in Process : ~Writing(q)'
    BY <2>1, <2>2 DEF Alone, Writing
  <2>6. Alone' /\ Planned'
    <3>1. \A q \in Process : step'[q] = "consent" => job'[q].signsIn
      BY <2>1, <2>2 DEF Planned, Plan
    <3> QED BY <2>5, <3>1 DEF Alone, Planned, Plan, Writing
  <2>7. Whole'
    BY <2>3 DEF Whole, IsWhole, Keys
  <2>8. Gone'
    BY <2>1, <2>3 DEF Gone, Keys
  <2> QED BY <2>3, <2>4, <2>6, <2>7, <2>8 DEF Synced
<1>r. CASE Revoke
  <2>1. UNCHANGED <<files, step, job, out>> /\ mishaps \subseteq mishaps'
    BY <1>r DEF Revoke, Happens
  <2> QED BY <2>1 DEF files, Shape, IsJob, Alone, Writing, Planned, Plan, Adds, Whole, IsWhole,
                      Gone, Keys, Synced
<1>x. CASE Crash
  <2>1. /\ config' = disk /\ disk' = disk /\ out' = out
        /\ step' = [p \in Process |-> "idle"] /\ job' = [p \in Process |-> Nothing]
    BY <1>x DEF Crash
  <2>2. Shape'
    BY <2>1 DEF Shape, IsJob, Nothing, Job
  <2>3. Alone' /\ Planned'
    BY <2>1 DEF Alone, Writing, Planned, Plan
  <2>4. Whole'
    BY <2>1 DEF Whole, IsWhole, Keys
  <2>5. Gone' /\ Synced'
    BY <2>1 DEF Gone, Synced, Keys
  <2> QED BY <2>2, <2>3, <2>4, <2>5
<1> QED BY <1>p, <1>c, <1>f, <1>m, <1>l, <1>n, <1>r, <1>x DEF Next

(* As long as no two writers overlap, one process at most holds a copy, and *)
(* what it is about to save is whole and adds only what the user signs in   *)
(* to (config_service.rs:149-160).                                          *)
THEOREM AccountsInductive == Spec => []IInv
<1>1. Init => IInv
  BY InitKept DEF IInv
<1>2. IInv /\ [Next]_vars => IInv'
  <2> SUFFICES ASSUME IInv, [Next]_vars, "race" \notin mishaps' PROVE Kept'
    BY DEF IInv
  <2>1. CASE Next
    <3>1. "race" \notin mishaps
      BY <2>1 DEF Next
    <3> QED BY <2>1, <3>1, NextKept DEF IInv
  <2>2. CASE UNCHANGED vars
    BY <2>2 DEF IInv, Kept, vars, files, Shape, IsJob, Alone, Writing, Planned, Plan, Adds, Whole,
                IsWhole, Gone, Keys, Synced
  <2> QED BY <2>1, <2>2
<1> QED BY <1>1, <1>2, PTL DEF Spec

(* For any processes, connectors and accounts: a connector that is bound to *)
(* an account finds its row, in memory and in config.json                   *)
(* (auth.rs:484-497).                                                       *)
THEOREM NoBindingDangles == Spec => []BoundAccountsAreKept
<1>1. IInv => BoundAccountsAreKept
  BY DEF IInv, Kept, Whole, IsWhole, Keys, BoundAccountsAreKept, Range
<1> QED BY <1>1, AccountsInductive, PTL

(* For any processes, connectors and accounts: an account the user          *)
(* disconnected does not come back by itself (auth.rs:619-631).             *)
THEOREM GoneStaysGone == Spec => []DisconnectSticks
<1>1. IInv => DisconnectSticks
  BY DEF IInv, Kept, Gone, Keys, DisconnectSticks
<1> QED BY <1>1, AccountsInductive, PTL

(* For any processes, connectors and accounts: config.json holds what the   *)
(* memory holds whenever no update is under way                             *)
(* (config_service.rs:153-159).                                             *)
THEOREM MemoryIsOnDisk == Spec => []DiskIsConfig
<1>1. IInv => DiskIsConfig
  BY DEF IInv, Kept, Synced, DiskIsConfig
<1> QED BY <1>1, AccountsInductive, PTL

---------------------------------------------------------------------------------
(* The tokens, as long as nothing goes wrong.  A refresh token belongs to   *)
(* one account, whoever holds it: so the exchange of one withdraws none     *)
(* that another account still needs.                                        *)

Sent(p)   == step[p] \in {"posting", "answered"}
Copied(p) == step[p] \in {"store", "cache"}

Holds(k, t) ==
  \/ k \in Keys(config) /\ config.accounts[k].refresh = t
  \/ \E p \in Process : Sent(p) /\ job[p].key = k /\ job[p].token = t
  \/ \E p \in Process : Copied(p) /\ k \in Keys(job[p].next) /\ job[p].next.accounts[k].refresh = t

Given == issued \in Nat /\ \A k, t : Holds(k, t) => t \in 0 .. issued
Owned == \A k, m, t : Holds(k, t) /\ Holds(m, t) /\ t # NoToken => k = m

\* The row is out of date: the new token is on its way to it, or in a copy.
Renews(p, k)   == lock[k] = p /\ step[p] = "answered" /\ job[p].key = k /\ job[p].token # NoToken
Rewrites(p, k) == lock[k] = p /\ Copied(p) /\ job[p].key = k

Works(row) == ~row.reauth /\ row.refresh \in valid \cup {NoToken}

RowsWork ==
  \A k \in Account \cap Keys(config) :
    /\ ~config.accounts[k].reauth
    /\ \/ Works(config.accounts[k])
       \/ \E p \in Process : Renews(p, k) \/ Rewrites(p, k)

CopiesWork ==
  \A q \in Process : Copied(q) =>
    \A k \in Account \cap Keys(job[q].next) :
      /\ ~job[q].next.accounts[k].reauth
      /\ Works(job[q].next.accounts[k]) \/ \E p \in Process : Renews(p, k)

RequestsWork ==
  /\ lock = [k \in Account |-> lock[k]]
  /\ \A p \in Process : job[p].key \in Account =>
       /\ step[p] = "posting" => lock[job[p].key] = p /\ job[p].token \in valid \ {NoToken}
       /\ step[p] = "answered" => lock[job[p].key] = p /\ job[p].token \in valid \cup {NoToken}
       /\ step[p] # "refused"

Trusted == Kept /\ Given /\ Owned /\ RowsWork /\ CopiesWork /\ RequestsWork

TInv == mishaps = {} => Trusted

(* A step after which each holder held its token before, or holds the one   *)
(* just given out, keeps the tokens apart.                                  *)
LEMMA TokensStayApart ==
  ASSUME Given, Owned, issued' \in {issued, issued + 1}, NEW key,
         \A k, t : Holds(k, t)' => \/ Holds(k, t)
                                   \/ t = NoToken
                                   \/ t = issued' /\ issued' = issued + 1 /\ k = key
  PROVE  Given' /\ Owned'
<1>1. Given'
  BY DEF Given, NoToken
<1>2. Owned'
  BY DEF Given, Owned, NoToken
<1> QED BY <1>1, <1>2

(* A process that sends or holds nothing, before or after, changes nothing  *)
(* about tokens.                                                            *)
LEMMA IdleTrusted ==
  ASSUME Trusted, Kept', NEW p \in Process, NEW s, NEW j,
         Becomes(p, s, j), s \notin {"posting", "answered", "store", "cache"},
         s = "refused" => j.key \notin Account,
         ~Copied(p), step[p] = "answered" => job[p].key \notin Account,
         UNCHANGED <<config, provider>>,
         \A k \in Account : lock'[k] = lock[k] \/ (lock[k] = p /\ step[p] # "answered"),
         lock' = [k \in Account |-> lock'[k]]
  PROVE  Trusted'
<1> USE DEF Trusted, provider
<1>1. /\ step'[p] = s /\ job'[p] = j
      /\ \A q \in Process \ {p} : step'[q] = step[q] /\ job'[q] = job[q]
  BY DEF Kept, Becomes, Shape
<1>2. \A k, t : Holds(k, t)' => Holds(k, t)
  BY <1>1 DEF Holds, Sent, Copied, Keys
<1>3. Given' /\ Owned'
  BY <1>2 DEF Given, Owned
<1>4. \A k \in Account, q \in Process :
        (Renews(q, k) => Renews(q, k)') /\ (Rewrites(q, k) => Rewrites(q, k)')
  BY <1>1 DEF Renews, Rewrites, Copied
<1>5. RowsWork'
  BY <1>4 DEF RowsWork, Works, Keys
<1>6. CopiesWork'
  BY <1>1, <1>4 DEF CopiesWork, Works, Keys, Copied
<1>7. RequestsWork'
  BY <1>1 DEF RequestsWork
<1> QED BY <1>3, <1>5, <1>6, <1>7

\* What a process that reads the configuration finds in a row of it.
LEMMA RowAsRead ==
  ASSUME Trusted, NEW p \in Process, ~Copied(p), Reads(p), "race" \notin mishaps',
         NEW k \in Account \cap Keys(config)
  PROVE  /\ ~config.accounts[k].reauth
         /\ Works(config.accounts[k]) \/ \E q \in Process : Renews(q, k)
<1>1. \A q \in Process : ~Copied(q)
  BY DEF Reads, Copied, Writing
<1> QED BY <1>1 DEF Trusted, RowsWork, Rewrites

(* A copy is changed.  Each of its tokens is held already or just given     *)
(* out, and each of its rows works, or is one that another process renews.  *)
LEMMA UpdateTrusted ==
  ASSUME Trusted, Kept', NEW p \in Process, NEW j, NEW cfg,
         Update(p, j, cfg), IsJob(j), "race" \notin mishaps', ~Copied(p),
         UNCHANGED <<config, lock>>,
         issued' \in {issued, issued + 1}, valid \subseteq valid',
         \A k \in Account : Renews(p, k) => j.key = k,
         NEW key,
         \A k \in Keys(cfg) : \/ Holds(k, cfg.accounts[k].refresh)
                              \/ cfg.accounts[k].refresh = NoToken
                              \/ /\ cfg.accounts[k].refresh = issued'
                                 /\ issued' = issued + 1 /\ k = key,
         \A k \in Account \cap Keys(cfg) :
           /\ ~cfg.accounts[k].reauth
           /\ \/ cfg.accounts[k].refresh \in valid' \cup {NoToken}
              \/ \E q \in Process \ {p} : Renews(q, k)
  PROVE  Trusted'
<1> USE DEF Trusted
<1> DEFINE new == [j EXCEPT !.next = cfg]
<1>1. new.next = cfg /\ new.key = j.key
  BY DEF IsJob
<1>2. Becomes(p, "store", new) /\ Reads(p)
  BY DEF Update
<1> HIDE DEF new
<1>3. /\ step'[p] = "store" /\ job'[p] = new
      /\ \A q \in Process \ {p} : step'[q] = step[q] /\ job'[q] = job[q]
  BY <1>2 DEF Kept, Becomes, Shape
<1>4. \A k, t : Holds(k, t)' => \/ Holds(k, t)
                                \/ t = NoToken
                                \/ t = issued' /\ issued' = issued + 1 /\ k = key
  BY <1>1, <1>3 DEF Holds, Sent, Copied, Keys
<1>5. Given' /\ Owned'
  BY <1>4, TokensStayApart
<1>6. \A k \in Account, q \in Process \ {p} :
        (Renews(q, k) => Renews(q, k)') /\ (Rewrites(q, k) => Rewrites(q, k)')
  BY <1>3 DEF Renews, Rewrites, Copied
<1>7. \A k \in Account : (Renews(p, k) => Rewrites(p, k)') /\ ~Rewrites(p, k)
  BY <1>1, <1>3 DEF Renews, Rewrites, Copied
<1>8. RowsWork'
  BY <1>6, <1>7 DEF RowsWork, Works, Keys
<1>9. CopiesWork'
  <2>1. \A q \in Process \ {p} : ~Copied(q)
    BY <1>2 DEF Reads, Copied, Writing
  <2>2. ASSUME NEW k \in Account \cap Keys(cfg)
        PROVE  ~cfg.accounts[k].reauth /\ (Works(cfg.accounts[k])' \/ \E q \in Process : Renews(q, k)')
    <3>1. ~cfg.accounts[k].reauth
      OBVIOUS
    <3>2. CASE cfg.accounts[k].refresh \in valid' \cup {NoToken}
      BY <3>1, <3>2 DEF Works
    <3>3. CASE \E q \in Process \ {p} : Renews(q, k)
      BY <1>6, <3>1, <3>3
    <3> QED BY <3>1, <3>2, <3>3
  <2> QED BY <1>1, <1>3, <2>1, <2>2 DEF CopiesWork, Copied, Keys, Works
<1>10. RequestsWork'
  BY <1>3 DEF RequestsWork
<1> QED BY <1>5, <1>8, <1>9, <1>10

\* The same for a copy whose rows are those of the configuration.
LEMMA RewriteTrusted ==
  ASSUME Trusted, Kept', NEW p \in Process, NEW j, NEW cfg,
         Update(p, j, cfg), IsJob(j), "race" \notin mishaps', step[p] \in {"idle", "bind"},
         UNCHANGED <<config, lock, provider>>,
         Keys(cfg) \subseteq Keys(config),
         \A k \in Keys(cfg) : cfg.accounts[k] = config.accounts[k]
  PROVE  Trusted'
<1>1. Reads(p) /\ ~Copied(p) /\ \A k \in Account : ~Renews(p, k)
  BY DEF Update, Copied, Renews
<1>2. \A k \in Keys(cfg) : Holds(k, cfg.accounts[k].refresh)
  BY DEF Holds
<1>3. ASSUME NEW k \in Account \cap Keys(cfg)
      PROVE  /\ ~cfg.accounts[k].reauth
             /\ \/ cfg.accounts[k].refresh \in valid' \cup {NoToken}
                \/ \E q \in Process \ {p} : Renews(q, k)
  BY <1>1, RowAsRead DEF Works, provider
<1>4. issued' = issued /\ valid' = valid /\ config' = config /\ lock' = lock
  BY DEF provider
<1> QED BY <1>1, <1>2, <1>3, <1>4, UpdateTrusted

LEMMA RequestTrusted ==
  ASSUME Trusted, Kept', NEW p \in Process, RefreshLocked(p) \/ AskChatToken(p)
  PROVE  Trusted'
<1> USE DEF Trusted, files, provider
<1> DEFINE j == job'[p]
<1>1. /\ step'[p] = "posting" /\ j.key \in Keys(config) /\ j.token = config.accounts[j.key].refresh
      /\ j.token # NoToken
      /\ \A q \in Process \ {p} : step'[q] = step[q] /\ job'[q] = job[q]
      /\ config' = config /\ issued' = issued /\ valid' = valid /\ ~Copied(p) /\ ~Sent(p)
  <2>1. CASE RefreshLocked(p)
    <3>. DEFINE new == [job[p] EXCEPT !.token = config.accounts[job[p].key].refresh]
    <3>1. /\ step[p] = "waiting" /\ job[p].key \in Keys(config)
          /\ config.accounts[job[p].key].refresh # NoToken
          /\ step' = [step EXCEPT ![p] = "posting"] /\ job' = [job EXCEPT ![p] = new]
          /\ config' = config /\ issued' = issued /\ valid' = valid
      BY <2>1 DEF RefreshLocked, Becomes, Keys
    <3>2. new.key = job[p].key /\ new.token = config.accounts[job[p].key].refresh
      BY DEF Kept, Shape, IsJob
    <3>. HIDE DEF new
    <3>3. /\ step'[p] = "posting" /\ job'[p] = new
          /\ \A q \in Process \ {p} : step'[q] = step[q] /\ job'[q] = job[q]
      BY <3>1 DEF Kept, Shape
    <3> QED BY <3>1, <3>2, <3>3 DEF Copied, Sent
  <2>2. CASE AskChatToken(p)
    BY <2>2 DEF AskChatToken, Job, Becomes, Kept, Shape, Keys, Copied, Sent
  <2> QED BY <2>1, <2>2
<1>2. \A k \in Account : \/ lock'[k] = lock[k]
                         \/ lock[k] = NoOne /\ lock'[k] = p /\ j.key = k
  <2>1. CASE RefreshLocked(p)
    <3>1. j.key = job[p].key
      BY <2>1 DEF RefreshLocked, Becomes, Kept, Shape, IsJob
    <3>2. lock[job[p].key] = NoOne /\ lock' = [lock EXCEPT ![job[p].key] = p]
      BY <2>1 DEF RefreshLocked
    <3> HIDE DEF j
    <3> QED BY <3>1, <3>2 DEF RequestsWork
  <2>2. CASE AskChatToken(p)
    BY <2>2 DEF AskChatToken
  <2> QED BY <2>1, <2>2
<1>3. lock' = [k \in Account |-> lock'[k]]
  BY DEF RefreshLocked, AskChatToken, RequestsWork
<1> HIDE DEF j
<1>4. \A k, t : Holds(k, t)' => Holds(k, t)
  BY <1>1 DEF Holds, Sent, Copied, Keys, j
<1>5. Given' /\ Owned'
  BY <1>1, <1>4 DEF Given, Owned
<1>6. \A k \in Account, q \in Process :
        (Renews(q, k) => Renews(q, k)') /\ (Rewrites(q, k) => Rewrites(q, k)')
  <2>1. \A q \in Process : q # NoOne
    BY AccountsAssumption
  <2> QED BY <1>1, <1>2, <2>1 DEF Renews, Rewrites, Copied, Sent
<1>7. RowsWork'
  BY <1>1, <1>6 DEF RowsWork, Works, Keys
<1>8. CopiesWork'
  BY <1>1, <1>6 DEF CopiesWork, Works, Keys, Copied
<1>9. RequestsWork'
  <2>1. ASSUME j.key \in Account PROVE lock'[j.key] = p /\ j.token \in valid
    <3>1. RefreshLocked(p)
      BY <2>1, AccountsAssumption DEF AskChatToken, Job, Becomes, Kept, Shape, j
    <3>2. lock[j.key] = NoOne /\ lock'[j.key] = p
      <4>1. lock[job[p].key] = NoOne /\ lock' = [lock EXCEPT ![job[p].key] = p]
        BY <3>1 DEF RefreshLocked
      <4>2. j.key = job[p].key
        BY <3>1 DEF RefreshLocked, Becomes, Kept, Shape, IsJob, j
      <4>. QED
        BY <2>1, <4>1, <4>2 DEF RequestsWork
    <3>3. \A q \in Process : ~Renews(q, j.key) /\ ~Rewrites(q, j.key)
      BY <3>2, AccountsAssumption DEF Renews, Rewrites
    <3> QED BY <1>1, <2>1, <3>2, <3>3 DEF RowsWork, Works
  <2>2. ASSUME NEW q \in Process, q # p, job[q].key \in Account, step[q] \in {"posting", "answered"}
        PROVE  lock'[job[q].key] = lock[job[q].key]
    BY <1>2, <2>2, AccountsAssumption DEF RequestsWork
  <2> QED BY <1>1, <1>3, <2>1, <2>2 DEF RequestsWork, j
<1> QED BY <1>5, <1>7, <1>8, <1>9

(* The provider may withdraw the token that was sent: whoever else needs it *)
(* is of the same account, whose lock the sender has.                       *)
LEMMA ExchangeTrusted ==
  ASSUME Trusted, Kept', NEW p \in Process, Exchange(p)
  PROVE  Trusted'
<1> USE DEF Trusted, files, provider
<1> DEFINE k == job[p].key
           t == job[p].token
           n == job'[p].token
<1>1. /\ step[p] = "posting" /\ config' = config /\ lock' = lock
      /\ \A q \in Process \ {p} : step'[q] = step[q] /\ job'[q] = job[q]
      /\ job'[p].key = k
  BY DEF Exchange, Becomes, Kept, Shape, IsJob
<1>2. \/ step'[p] = "refused" /\ t \notin valid /\ issued' = issued /\ valid' = valid
      \/ step'[p] = "answered" /\ n = NoToken /\ issued' = issued /\ valid' = valid
      \/ /\ step'[p] = "answered" /\ n = issued' /\ issued' = issued + 1
         /\ valid' = (valid \ {t}) \cup {issued'}
  BY DEF Exchange, Becomes, Kept, Shape, IsJob
<1>3. Holds(k, t)
  BY <1>1 DEF Holds, Sent
<1> HIDE DEF k, t, n
<1>4. \A m, u : Holds(m, u)' => \/ Holds(m, u)
                                \/ u = NoToken
                                \/ u = issued' /\ issued' = issued + 1 /\ m = k
  BY <1>1, <1>2 DEF Holds, Sent, Copied, Keys, n
<1>5. Given' /\ Owned'
  BY <1>2, <1>4, TokensStayApart
<1>6. \A m \in Account : ~Renews(p, m) /\ ~Rewrites(p, m)
  BY <1>1 DEF Renews, Rewrites, Copied
<1>7. \A m \in Account, q \in Process :
        (Renews(q, m) => Renews(q, m)') /\ (Rewrites(q, m) => Rewrites(q, m)')
  BY <1>1, <1>6 DEF Renews, Rewrites, Copied
<1>8. \A m \in Account : \A u : Holds(m, u) /\ u \in valid \cup {NoToken}
                            => u \in valid' \cup {NoToken} \/ Renews(p, m)'
  <2> SUFFICES ASSUME NEW m \in Account, NEW u, Holds(m, u), u \in valid, u \notin valid', u # NoToken
               PROVE  Renews(p, m)'
    OBVIOUS
  <2>1. u = t /\ step'[p] = "answered" /\ n = issued + 1
    BY <1>2
  <2>2. m = k
    BY <1>3, <2>1 DEF Owned
  <2>3. lock[m] = p
    BY <1>1, <2>2 DEF RequestsWork, k
  <2>4. n # NoToken
    BY <2>1 DEF Given, NoToken
  <2> QED BY <1>1, <2>1, <2>2, <2>3, <2>4 DEF Renews, n
<1>9. RowsWork'
  <2> SUFFICES ASSUME NEW m \in Account \cap Keys(config)
               PROVE  /\ ~config.accounts[m].reauth
                      /\ \/ Works(config.accounts[m])'
                         \/ \E q \in Process : Renews(q, m)' \/ Rewrites(q, m)'
    BY <1>1 DEF RowsWork, Keys
  <2>1. Holds(m, config.accounts[m].refresh)
    BY DEF Holds
  <2> QED BY <1>1, <1>7, <1>8, <2>1 DEF RowsWork, Works
<1>10. CopiesWork'
  <2> SUFFICES ASSUME NEW q \in Process, Copied(q), NEW m \in Account \cap Keys(job[q].next)
               PROVE  /\ ~job[q].next.accounts[m].reauth
                      /\ \/ job[q].next.accounts[m].refresh \in valid' \cup {NoToken}
                         \/ \E r \in Process : Renews(r, m)'
    <3>1. \A q \in Process : Copied(q)' => Copied(q) /\ job'[q] = job[q]
      BY <1>1, <1>2 DEF Copied
    <3> QED BY <3>1 DEF CopiesWork, Keys, Works
  <2>1. Holds(m, job[q].next.accounts[m].refresh)
    BY DEF Holds
  <2> QED BY <1>1, <1>7, <1>8, <2>1 DEF CopiesWork, Works
<1>11. RequestsWork'
  <2>1. ASSUME k \in Account
        PROVE  /\ step'[p] = "answered" /\ lock[k] = p
               /\ n \in valid' \cup {NoToken}
    BY <1>1, <1>2, <2>1 DEF RequestsWork, k, t
  <2>2. ASSUME NEW q \in Process, q # p, job[q].key \in Account, step[q] \in {"posting", "answered"},
               job[q].token \in valid \cup {NoToken}
        PROVE  job[q].token \in valid' \cup {NoToken}
    <3>1. PICK m \in Account : m = job[q].key
      BY <2>2
    <3>2. Holds(m, job[q].token)
      BY <2>2, <3>1 DEF Holds, Sent
    <3>3. lock[m] = q
      BY <2>2, <3>1 DEF RequestsWork
    <3>4. ~Renews(p, m)'
      BY <1>1, <2>2, <3>3 DEF Renews
    <3> QED BY <1>8, <2>2, <3>2, <3>4
  <2> QED BY <1>1, <1>2, <2>1, <2>2 DEF RequestsWork, k, n
<1> QED BY <1>5, <1>9, <1>10, <1>11

LEMMA SaveTrusted ==
  ASSUME Trusted, Kept', NEW p \in Process, Save(p)
  PROVE  Trusted'
<1> USE DEF Trusted, provider
<1>1. /\ step[p] = "store" /\ step'[p] = "cache" /\ config' = config /\ lock' = lock
      /\ issued' = issued /\ valid' = valid /\ job' = job
      /\ \A q \in Process \ {p} : step'[q] = step[q]
  BY DEF Save, Becomes, Kept, Shape
<1>2. \A q \in Process : (Copied(q)' <=> Copied(q)) /\ (Sent(q)' <=> Sent(q))
  BY <1>1 DEF Copied, Sent
<1>3. \A k, t : Holds(k, t)' <=> Holds(k, t)
  BY <1>1, <1>2 DEF Holds, Keys
<1>4. \A k \in Account, q \in Process :
        (Renews(q, k)' <=> Renews(q, k)) /\ (Rewrites(q, k)' <=> Rewrites(q, k))
  BY <1>1, <1>2 DEF Renews, Rewrites
<1>5. Given' /\ Owned'
  BY <1>1, <1>3 DEF Given, Owned
<1>6. RowsWork' /\ CopiesWork'
  BY <1>1, <1>2, <1>4 DEF RowsWork, CopiesWork, Works, Keys
<1>7. RequestsWork'
  BY <1>1 DEF RequestsWork
<1> QED BY <1>5, <1>6, <1>7

\* The copy takes the memory's place, and with it the new token its row.
LEMMA CacheTrusted ==
  ASSUME Trusted, Kept', NEW p \in Process, Cache(p)
  PROVE  Trusted'
<1> USE DEF Trusted, provider
<1>1. /\ step[p] = "cache" /\ step'[p] = "idle" /\ config' = job[p].next
      /\ issued' = issued /\ valid' = valid
      /\ \A q \in Process \ {p} : step'[q] = step[q] /\ job'[q] = job[q]
      /\ lock' = [k \in Account |-> IF lock[k] = p THEN NoOne ELSE lock[k]]
  BY DEF Cache, Ends, Unlock, Becomes, Kept, Shape
<1>2. Copied(p) /\ \A q \in Process \ {p} : ~Copied(q)
  BY <1>1 DEF Kept, Alone, Writing, Copied
<1>3. \A k, t : Holds(k, t)' => Holds(k, t)
  BY <1>1, <1>2 DEF Holds, Sent, Copied, Keys
<1>4. Given' /\ Owned'
  BY <1>1, <1>3 DEF Given, Owned
<1>5. \A k \in Account, q \in Process : Renews(q, k) => Renews(q, k)'
  BY <1>1 DEF Renews
<1>6. RowsWork'
  BY <1>1, <1>2, <1>5 DEF RowsWork, CopiesWork, Works, Keys
<1>7. CopiesWork'
  BY <1>1, <1>2 DEF CopiesWork, Copied
<1>8. RequestsWork'
  <2>1. ASSUME NEW q \in Process, q # p, job[q].key \in Account, step[q] \in {"posting", "answered"}
        PROVE  lock'[job[q].key] = q
    BY <1>1, <2>1 DEF RequestsWork
  <2>2. step'[p] = "idle"
    BY <1>1
  <2>3. lock' = [k \in Account |-> lock'[k]]
    BY <1>1
  <2> QED BY <1>1, <2>1, <2>2, <2>3 DEF RequestsWork
<1> QED BY <1>4, <1>6, <1>7, <1>8

LEMMA ApplyTrusted ==
  ASSUME Trusted, Kept', NEW p \in Process, ApplyRefresh(p), "race" \notin mishaps'
  PROVE  Trusted'
<1> USE DEF Trusted, provider, files
<1> DEFINE k   == job[p].key
           t   == job[p].token
           cfg == Renewed(config, k, t)
<1>1. /\ step[p] = "answered" /\ k \in Account /\ Update(p, job[p], cfg) /\ Reads(p)
      /\ config' = config /\ lock' = lock /\ issued' = issued /\ valid' = valid
      /\ IsJob(job[p]) /\ ~Copied(p) /\ lock[k] = p /\ t \in valid \cup {NoToken}
  BY DEF ApplyRefresh, Update, Kept, Shape, Copied, RequestsWork
<1>2. Holds(k, t)
  BY <1>1 DEF Holds, Sent
<1>3. Keys(cfg) = Keys(config)
  BY RenewedIsWhole DEF Kept, Whole
<1>4. /\ \A m \in Keys(cfg) \ {k} : cfg.accounts[m] = config.accounts[m]
      /\ k \in Keys(cfg) =>
           cfg.accounts[k] = [refresh |-> IF t = NoToken THEN config.accounts[k].refresh ELSE t,
                              reauth  |-> FALSE]
  BY DEF Renewed, Keys, Kept, Whole, IsWhole
<1>5. \A m \in Account : Renews(p, m) => k = m
  BY DEF Renews
<1> HIDE DEF k, t, cfg
<1>6. \A m \in Keys(cfg) : Holds(m, cfg.accounts[m].refresh)
  <2>1. \A m \in Keys(cfg) : Holds(m, config.accounts[m].refresh)
    BY <1>3 DEF Holds
  <2> QED BY <1>2, <1>4, <2>1
<1>7. ASSUME NEW m \in Account \cap Keys(cfg)
      PROVE  /\ ~cfg.accounts[m].reauth
             /\ \/ cfg.accounts[m].refresh \in valid' \cup {NoToken}
                \/ \E q \in Process \ {p} : Renews(q, m)
  <2>1. /\ ~config.accounts[m].reauth
        /\ Works(config.accounts[m]) \/ \E q \in Process : Renews(q, m)
    BY <1>1, <1>3, RowAsRead
  <2>2. CASE m # k
    BY <1>1, <1>4, <1>5, <2>1, <2>2 DEF Works
  <2>3. CASE m = k /\ t # NoToken
    BY <1>1, <1>4, <2>3
  <2>4. CASE m = k /\ t = NoToken
    <3>1. \A q \in Process : ~Renews(q, m)
      BY <1>1, <2>4 DEF Renews, k, t
    <3> QED BY <1>1, <1>4, <2>1, <2>4, <3>1 DEF Works
  <2> QED BY <2>2, <2>3, <2>4
<1>8. \A m \in Account : Renews(p, m) => job[p].key = m
  BY <1>5 DEF k
<1> QED BY <1>1, <1>6, <1>7, <1>8, UpdateTrusted

LEMMA ApplyChatTrusted ==
  ASSUME Trusted, Kept', NEW p \in Process, ApplyChatRefresh(p), "race" \notin mishaps'
  PROVE  Trusted'
<1> USE DEF Trusted, provider, files
<1> DEFINE t   == job[p].token
           cfg == Connects(config, Chat, [refresh |-> t, reauth |-> FALSE], {})
<1>1. /\ step[p] = "answered" /\ job[p].key = Chat /\ Update(p, job[p], cfg) /\ Reads(p)
      /\ config' = config /\ lock' = lock /\ issued' = issued /\ valid' = valid
      /\ IsJob(job[p]) /\ ~Copied(p)
  BY DEF ApplyChatRefresh, Update, Kept, Shape, Copied
<1>2. Holds(Chat, t)
  BY <1>1 DEF Holds, Sent
<1>3. /\ Keys(cfg) = Keys(config) \cup {Chat} /\ cfg.accounts[Chat].refresh = t
      /\ \A m \in Keys(cfg) \ {Chat} : cfg.accounts[m] = config.accounts[m]
  BY DEF Connects, Over, Entry, Keys
<1>4. \A m \in Account : ~Renews(p, m)
  BY <1>1, AccountsAssumption DEF Renews
<1> HIDE DEF t, cfg
<1>5. \A m \in Keys(cfg) : Holds(m, cfg.accounts[m].refresh)
  BY <1>2, <1>3 DEF Holds
<1>6. ASSUME NEW m \in Account \cap Keys(cfg)
      PROVE  /\ ~cfg.accounts[m].reauth
             /\ \/ cfg.accounts[m].refresh \in valid' \cup {NoToken}
                \/ \E q \in Process \ {p} : Renews(q, m)
  <2>1. m # Chat /\ m \in Keys(config)
    BY <1>3, AccountsAssumption
  <2> QED BY <1>1, <1>3, <1>4, <2>1, RowAsRead DEF Works
<1> QED BY <1>1, <1>4, <1>5, <1>6, UpdateTrusted

(* A consent brings a token that was just given out, or none: then the row  *)
(* keeps the one it had.                                                    *)
LEMMA ConsentTrusted ==
  ASSUME Trusted, Kept', NEW p \in Process, Granted(p) \/ LoggedIn(p), "race" \notin mishaps'
  PROVE  Trusted'
<1> USE DEF Trusted, provider, files
<1> DEFINE k == job[p].key
<1>1. PICK t \in 0 .. MaxTokens :
        /\ Grants(t)
        /\ \/ k \in Account /\ Update(p, job[p], Connects(config, k, Merged(k, t), job[p].ids))
           \/ k = Chat /\ Update(p, job[p], Connects(config, k, [refresh |-> t, reauth |-> FALSE], {}))
  BY DEF Granted, LoggedIn
<1>2. PICK row, ids : /\ Update(p, job[p], Connects(config, k, row, ids)) /\ ~row.reauth
                      /\ \/ row.refresh = t
                         \/ t = NoToken /\ k \in Keys(config) /\ row.refresh = config.accounts[k].refresh
  <2>1. CASE k \in Account /\ Update(p, job[p], Connects(config, k, Merged(k, t), job[p].ids))
    BY <2>1 DEF Merged, Keys
  <2>2. CASE k = Chat /\ Update(p, job[p], Connects(config, k, [refresh |-> t, reauth |-> FALSE], {}))
    BY <2>2
  <2> QED BY <1>1, <2>1, <2>2
<1> DEFINE cfg == Connects(config, k, row, ids)
<1>3. /\ step[p] = "consent" /\ Reads(p) /\ config' = config /\ lock' = lock
      /\ IsJob(job[p]) /\ ~Copied(p) /\ \A m \in Account : ~Renews(p, m)
  BY <1>2 DEF Granted, LoggedIn, Update, Kept, Shape, Copied, Renews
<1>4. \/ t = NoToken /\ issued' = issued /\ valid' = valid
      \/ t = issued' /\ issued' = issued + 1 /\ valid' = valid \cup {t}
  BY <1>1 DEF Grants
<1>5. /\ Keys(cfg) = Keys(config) \cup {k} /\ cfg.accounts[k] = row
      /\ \A m \in Keys(cfg) \ {k} : cfg.accounts[m] = config.accounts[m]
  BY DEF Connects, Over, Entry, Keys
<1>6. Update(p, job[p], cfg)
  BY <1>2
<1> HIDE DEF k, cfg
<1>7. \A m \in Keys(cfg) : \/ Holds(m, cfg.accounts[m].refresh)
                           \/ cfg.accounts[m].refresh = NoToken
                           \/ /\ cfg.accounts[m].refresh = issued'
                              /\ issued' = issued + 1 /\ m = k
  BY <1>2, <1>4, <1>5 DEF Holds
<1>8. ASSUME NEW m \in Account \cap Keys(cfg)
      PROVE  /\ ~cfg.accounts[m].reauth
             /\ \/ cfg.accounts[m].refresh \in valid' \cup {NoToken}
                \/ \E q \in Process \ {p} : Renews(q, m)
  <2>1. CASE m \in Keys(config) /\ cfg.accounts[m].refresh = config.accounts[m].refresh
    <3>1. ~cfg.accounts[m].reauth
      BY <1>2, <1>3, <1>5, <2>1, RowAsRead
    <3> QED BY <1>3, <1>4, <2>1, <3>1, RowAsRead DEF Works
  <2>2. CASE m = k /\ cfg.accounts[m].refresh = t
    BY <1>2, <1>4, <1>5, <2>2
  <2> QED BY <1>2, <1>5, <2>1, <2>2
<1>9. issued' \in {issued, issued + 1} /\ valid \subseteq valid'
  BY <1>4
<1> QED BY <1>3, <1>6, <1>7, <1>8, <1>9, UpdateTrusted

\* The rows that are left are as they were.
LEMMA DisconnectedRows ==
  ASSUME NEW cfg, IsWhole(cfg), NEW c \in DOMAIN cfg.bindings
  PROVE  /\ Keys(Disconnected(cfg, c)) \subseteq Keys(cfg)
         /\ \A k \in Keys(Disconnected(cfg, c)) : Disconnected(cfg, c).accounts[k] = cfg.accounts[k]
<1> DEFINE rest == Restrict(cfg.bindings, DOMAIN cfg.bindings \ {c})
           k    == cfg.bindings[c]
           left == [cfg EXCEPT !.bindings = rest]
<1>1. left = [accounts |-> cfg.accounts, bindings |-> rest]
  BY DEF IsWhole
<1>2. Disconnected(cfg, c) = IF k \in Range(rest) THEN left ELSE SignsOut(left, k)
  BY DEF Disconnected
<1> HIDE DEF rest, k, left
<1>3. SignsOut(left, k) = [accounts |-> [m \in Keys(cfg) \ {k} |-> cfg.accounts[m]], bindings |-> rest]
  BY <1>1 DEF SignsOut, Restrict, Keys
<1> QED BY <1>1, <1>2, <1>3 DEF Keys

LEMMA InitTrusted == Init => Trusted
<1> SUFFICES ASSUME Init PROVE Trusted
  OBVIOUS
<1>1. \A k, t : ~Holds(k, t)
  BY DEF Init, NoConfig, Holds, Keys, Sent, Copied
<1>2. Given /\ Owned
  BY <1>1 DEF Init, Given, Owned
<1>3. RowsWork /\ CopiesWork
  BY DEF Init, NoConfig, RowsWork, CopiesWork, Keys, Copied
<1>4. RequestsWork
  BY DEF Init, RequestsWork
<1> QED BY <1>2, <1>3, <1>4, InitKept DEF Trusted

LEMMA NextTrusted ==
  ASSUME Trusted, Next, mishaps = {}, mishaps' = {}
  PROVE  Trusted'
<1>1. Kept'
  BY NextKept DEF Trusted
<1>2. Shape /\ RequestsWork
  BY DEF Trusted, Kept
<1>i. ASSUME NEW p \in Process,
             AskToken(p) \/ NothingToRefresh(p) \/ ChatRefused(p) \/ FindAccount(p)
             \/ Consent(p) \/ Login(p) \/ ConsentFails(p)
      PROVE  Trusted'
  <2>1. \E s \in {"idle", "waiting", "bind", "consent"} : \E j : Becomes(p, s, j)
    <3>1. CASE AskToken(p)
      BY <3>1 DEF AskToken
    <3>2. CASE NothingToRefresh(p) \/ ChatRefused(p) \/ ConsentFails(p)
      BY <3>2 DEF NothingToRefresh, ChatRefused, ConsentFails, Ends
    <3>3. CASE FindAccount(p)
      BY <3>3 DEF FindAccount
    <3>4. CASE Consent(p) \/ Login(p)
      BY <3>4 DEF Consent, Login
    <3> QED BY <1>i, <3>1, <3>2, <3>3, <3>4
  <2>2. ~Copied(p) /\ step[p] # "answered" /\ UNCHANGED <<config, provider>>
    BY <1>i DEF AskToken, NothingToRefresh, ChatRefused, FindAccount, Consent, Login, ConsentFails,
                Copied, files
  <2>3. lock' = lock \/ lock' = [k \in Account |-> IF lock[k] = p THEN NoOne ELSE lock[k]]
    BY <1>i DEF AskToken, NothingToRefresh, ChatRefused, FindAccount, Consent, Login, ConsentFails,
                Ends, Unlock
  <2>4. lock' = [k \in Account |-> lock'[k]]
        /\ \A k \in Account : lock'[k] = lock[k] \/ lock[k] = p
    BY <1>2, <2>3 DEF RequestsWork
  <2> QED BY <1>1, <2>1, <2>2, <2>4, IdleTrusted
<1>u. ASSUME NEW p \in Process, BindAccount(p) \/ Disconnect(p) \/ Logout(p) \/ Setting(p)
      PROVE  Trusted'
  <2>1. \E j, cfg : /\ Update(p, j, cfg) /\ IsJob(j) /\ Keys(cfg) \subseteq Keys(config)
                    /\ \A k \in Keys(cfg) : cfg.accounts[k] = config.accounts[k]
    <3>1. IsJob(job[p]) /\ IsJob(Nothing) /\ IsWhole(config)
      BY DEF Trusted, Kept, Shape, IsJob, Nothing, Job, Whole
    <3>2. CASE BindAccount(p)
      BY <3>1, <3>2 DEF BindAccount, Keys, IsWhole
    <3>3. CASE Disconnect(p)
      <4>1. PICK c \in DOMAIN config.bindings : Update(p, Nothing, Disconnected(config, c))
        BY <3>3 DEF Disconnect
      <4> QED BY <3>1, <4>1, DisconnectedRows DEF Whole
    <3>4. CASE Logout(p)
      BY <3>1, <3>4 DEF Logout, SignsOut, Restrict, Keys, IsWhole
    <3>5. CASE Setting(p)
      BY <3>1, <3>5 DEF Setting
    <3> QED BY <1>u, <3>2, <3>3, <3>4, <3>5
  <2>2. step[p] \in {"idle", "bind"} /\ UNCHANGED <<config, lock, provider>>
    BY <1>u DEF BindAccount, Disconnect, Logout, Setting, files
  <2> QED BY <1>1, <2>1, <2>2, RewriteTrusted
<1>m. ASSUME NEW p \in Process, MarkNeedsReauth(p) PROVE Trusted'
  BY <1>2, <1>m DEF MarkNeedsReauth, RequestsWork
<1>f. ASSUME NEW p \in Process, RefreshFails(p) \/ SaveFails(p) PROVE FALSE
  BY <1>f DEF RefreshFails, SaveFails, Happens
<1>r. ~Revoke /\ ~Crash
  BY DEF Revoke, Crash, Happens
<1> QED BY <1>1, <1>i, <1>u, <1>m, <1>f, <1>r, RequestTrusted, ExchangeTrusted, ApplyTrusted,
           ApplyChatTrusted, ConsentTrusted, SaveTrusted, CacheTrusted DEF Next

(* For any processes, connectors and accounts: as long as nothing goes      *)
(* wrong, the refresh token of an account nobody refreshes is one the       *)
(* provider takes (auth.rs:519-534).                                        *)
THEOREM TokensKeepWorking == Spec => []StoredTokenWorks
<1>1. Init => TInv
  BY InitTrusted DEF TInv
<1>2. TInv /\ [Next]_vars => TInv'
  <2> SUFFICES ASSUME TInv, [Next]_vars, mishaps' = {} PROVE Trusted'
    BY DEF TInv
  <2>1. CASE Next
    <3>1. mishaps = {}
      <4>1. ASSUME NEW p \in Process,
                   \/ AskToken(p) \/ NothingToRefresh(p) \/ RefreshLocked(p) \/ AskChatToken(p)
                   \/ Exchange(p) \/ RefreshFails(p) \/ MarkNeedsReauth(p) \/ ChatRefused(p)
            PROVE  mishaps = {}
        BY <4>1 DEF AskToken, NothingToRefresh, RefreshLocked, AskChatToken, Exchange, RefreshFails,
                    MarkNeedsReauth, ChatRefused, Update, Reads, Happens
      <4>2. ASSUME NEW p \in Process, ApplyRefresh(p) \/ ApplyChatRefresh(p)
            PROVE  mishaps = {}
        BY <4>2 DEF ApplyRefresh, ApplyChatRefresh, Update, Reads
      <4>3. ASSUME NEW p \in Process,
                   \/ FindAccount(p) \/ BindAccount(p) \/ Consent(p) \/ Login(p) \/ ConsentFails(p)
                   \/ Granted(p) \/ LoggedIn(p) \/ Disconnect(p) \/ Logout(p) \/ Setting(p)
            PROVE  mishaps = {}
        BY <4>3 DEF FindAccount, BindAccount, Consent, Login, ConsentFails, Granted, LoggedIn,
                    Disconnect, Logout, Setting, Update, Reads
      <4>4. ASSUME NEW p \in Process, Save(p) \/ SaveFails(p) \/ Cache(p)
            PROVE  mishaps = {}
        BY <4>4 DEF Save, SaveFails, Cache, Happens
      <4>5. CASE Revoke \/ Crash
        BY <4>5 DEF Revoke, Crash, Happens
      <4> QED BY <2>1, <4>1, <4>2, <4>3, <4>4, <4>5 DEF Next
    <3> QED BY <2>1, <3>1, NextTrusted DEF TInv
  <2>2. CASE UNCHANGED vars
    <3>1. Trusted
      BY <2>2 DEF vars, TInv
    <3>2. Kept'
      BY <2>2, <3>1 DEF vars, files, Trusted, Kept, Shape, IsJob, Alone, Writing, Planned, Plan, Adds,
                        Whole, IsWhole, Gone, Keys, Synced
    <3>3. /\ config' = config /\ step' = step /\ job' = job /\ lock' = lock
          /\ issued' = issued /\ valid' = valid
      BY <2>2 DEF vars, files, provider
    <3>4. Given' /\ Owned'
      BY <3>1, <3>3 DEF Trusted, Given, Owned, Holds, Sent, Copied, Keys
    <3>5. RowsWork' /\ CopiesWork' /\ RequestsWork'
      BY <3>1, <3>3 DEF Trusted, RowsWork, CopiesWork, RequestsWork, Works, Renews, Rewrites, Copied, Keys
    <3> QED BY <3>2, <3>4, <3>5 DEF Trusted
  <2> QED BY <2>1, <2>2
<1>3. TInv => StoredTokenWorks
  <2>1. \A p \in Process, k \in Account : Renews(p, k) \/ Rewrites(p, k) => Refreshed(k)
    BY DEF Renews, Rewrites, Copied, Refreshed
  <2> QED BY <2>1 DEF TInv, Trusted, RowsWork, Works, StoredTokenWorks, Keys
<1> QED BY <1>1, <1>2, <1>3, PTL DEF Spec
=============================================================================
