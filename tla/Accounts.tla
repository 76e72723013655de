-------------------------------- MODULE Accounts --------------------------------
(* The accounts of the connectors, the ChatGPT session, and the             *)
(* configuration both are kept in.                                          *)
(*                                                                          *)
(* ConfigService keeps the configuration in memory and in config.json.  A   *)
(* writer takes a copy of it (get), changes the copy and hands it to        *)
(* update, which saves it and only then puts it in the memory.  No lock     *)
(* spans the three: the threads of the commands and of the turns may come   *)
(* between them.  An access token near its end is exchanged at the          *)
(* provider; a connector's account does so under a lock of its own, the     *)
(* ChatGPT session does not.  The provider may give a new refresh token,    *)
(* and then takes the old one no more.                                      *)
(*                                                                          *)
(* Access tokens, scopes and profiles are left out: whether a token is      *)
(* fresh, or the granted scopes cover a connector, is any answer.  The      *)
(* connectors are those of one provider.                                    *)
EXTENDS Integers, FiniteSets, Functions

CONSTANTS Process,     \* commands and turns that run at once
          Connector,   \* the connectors of the provider
          Account,     \* the accounts the user has at the provider
          Chat,        \* the key of the ChatGPT session
          NoOne,
          MaxTokens,   \* bounds the refresh tokens the providers give out
          MaxMishaps   \* bounds the kinds of mishap of one behaviour

ASSUME AccountsAssumption ==
  /\ Chat \notin Account
  /\ NoOne \notin Process
  /\ {MaxTokens, MaxMishaps} \subseteq Nat

VARIABLES config,    \* the configuration in memory
          disk,      \* the configuration in config.json
          step,      \* where each process is
          job,       \* what it works on
          lock,      \* the process that refreshes an account
          issued,    \* the refresh tokens given out so far
          valid,     \* the refresh tokens the provider takes
          out,       \* accounts the user disconnected and did not connect again
          mishaps    \* what went wrong so far

vars == <<config, disk, step, job, lock, issued, valid, out, mishaps>>
files == <<config, disk>>
provider == <<issued, valid>>

NoToken   == 0
NoConfig  == [accounts |-> <<>>, bindings |-> <<>>]
Job(k, ids, t, signs) == [key |-> k, ids |-> ids, token |-> t, signsIn |-> signs, next |-> NoConfig]
Nothing   == Job(NoOne, {}, NoToken, FALSE)

Happens(m) ==
  /\ mishaps' = mishaps \cup {m}
  /\ Cardinality(mishaps' \ {"crash"}) <= MaxMishaps

\* A thread that holds a copy of the configuration it has read.
Writing(p) == step[p] \in {"bind", "store", "cache"}

(* A process takes a copy of the configuration while another still works on *)
(* one: whichever is saved last drops what the other one changed.           *)
Reads(p) == mishaps' = mishaps \cup (IF \E q \in Process \ {p} : Writing(q)
                                     THEN {"race"} ELSE {})

\* A map with entries put over its own, and with one entry.
Over(entries, map) ==
  [x \in DOMAIN entries \cup DOMAIN map |-> IF x \in DOMAIN entries THEN entries[x] ELSE map[x]]
Entry(k, row) == [x \in {k} |-> row]

Connects(cfg, k, row, ids) ==
  [accounts |-> Over(Entry(k, row), cfg.accounts),
   bindings |-> Over([c \in ids |-> k], cfg.bindings)]
SignsOut(cfg, k) ==
  [cfg EXCEPT !.accounts = Restrict(@, DOMAIN @ \ {k})]

Init ==
  /\ config = NoConfig
  /\ disk = config
  /\ step = [p \in Process |-> "idle"]
  /\ job = [p \in Process |-> Nothing]
  /\ lock = [k \in Account |-> NoOne]
  /\ issued = 0
  /\ valid = {}
  /\ out = {}
  /\ mishaps = {}

Becomes(p, s, j) == step' = [step EXCEPT ![p] = s] /\ job' = [job EXCEPT ![p] = j]
Unlock(p) == lock' = [k \in Account |-> IF lock[k] = p THEN NoOne ELSE lock[k]]
Ends(p)   == Becomes(p, "idle", Nothing) /\ Unlock(p)

\* The copy is changed and handed to update.
Update(p, j, cfg) == Reads(p) /\ Becomes(p, "store", [j EXCEPT !.next = cfg])

---------------------------------------------------------------------------------
(* A turn's or a request's access token that is near its end.               *)

AskToken(p) ==
  /\ step[p] = "idle"
  /\ \E c \in DOMAIN config.bindings :
       Becomes(p, "waiting", Job(config.bindings[c], {}, NoToken, FALSE))
  /\ UNCHANGED <<files, provider, lock, out, mishaps>>

(* The lock is there: the row is read again.  A token that someone else has *)
(* just renewed is taken as it is; without a row or a token to refresh it   *)
(* with the request fails.                                                  *)
NothingToRefresh(p) ==
  /\ step[p] = "waiting" /\ lock[job[p].key] = NoOne
  /\ Ends(p)
  /\ UNCHANGED <<files, provider, out, mishaps>>

(* Fault: every request that finds the token old refreshes it. *)
FaultNoLock(p) ==
  LET k == job[p].key IN
  /\ step[p] = "waiting"
  /\ k \in DOMAIN config.accounts
  /\ ~config.accounts[k].reauth
  /\ config.accounts[k].refresh # NoToken
  /\ Becomes(p, "posting", [job[p] EXCEPT !.token = config.accounts[k].refresh])
  /\ UNCHANGED <<files, provider, lock, out, mishaps>>

RefreshLocked(p) ==
  LET k == job[p].key IN
  /\ step[p] = "waiting" /\ lock[k] = NoOne
  /\ k \in DOMAIN config.accounts
  /\ ~config.accounts[k].reauth
  /\ config.accounts[k].refresh # NoToken
  /\ lock' = [lock EXCEPT ![k] = p]
  /\ Becomes(p, "posting", [job[p] EXCEPT !.token = config.accounts[k].refresh])
  /\ UNCHANGED <<files, provider, out, mishaps>>

\* The ChatGPT session is refreshed with the token the turn has read.
AskChatToken(p) ==
  /\ step[p] = "idle"
  /\ Chat \in DOMAIN config.accounts
  /\ config.accounts[Chat].refresh # NoToken
  /\ Becomes(p, "posting", Job(Chat, {}, config.accounts[Chat].refresh, FALSE))
  /\ UNCHANGED <<files, provider, lock, out, mishaps>>

(* The provider's answer: the token is refused, or taken, and then another  *)
(* may take its place.                                                      *)
Exchange(p) ==
  /\ step[p] = "posting"
  /\ \/ /\ job[p].token \notin valid
        /\ Becomes(p, "refused", job[p])
        /\ UNCHANGED provider
     \/ /\ job[p].token \in valid
        /\ Becomes(p, "answered", [job[p] EXCEPT !.token = NoToken])
        /\ UNCHANGED provider
     \/ /\ job[p].token \in valid /\ issued < MaxTokens
        /\ issued' = issued + 1
        /\ valid' = (valid \ {job[p].token}) \cup {issued'}
        /\ Becomes(p, "answered", [job[p] EXCEPT !.token = issued'])
  /\ UNCHANGED <<files, lock, out, mishaps>>

\* The request, its answer or the reading of it fails: the row stays as it is.
RefreshFails(p) ==
  /\ step[p] \in {"posting", "answered"}
  /\ Ends(p)
  /\ Happens("failure")
  /\ UNCHANGED <<files, provider, out>>

(* Fault: the answer is stored as a whole row. *)
FaultWholeRow(cfg, k, t) ==
  [cfg EXCEPT !.accounts = Over(Entry(k, [refresh |-> t, reauth |-> FALSE]), @)]

(* A row that is still there is renewed; one that is gone stays gone.  An   *)
(* answer without a refresh token leaves the one there is.                  *)
Renewed(cfg, k, t) ==
  IF k \notin DOMAIN cfg.accounts THEN cfg
  ELSE [cfg EXCEPT !.accounts[k] =
          [refresh |-> IF t = NoToken THEN @.refresh ELSE t, reauth |-> FALSE]]

ApplyRefresh(p) ==
  /\ step[p] = "answered" /\ job[p].key \in Account
  /\ Update(p, job[p], Renewed(config, job[p].key, job[p].token))
  /\ UNCHANGED <<files, provider, lock, out>>

\* The session's place is overwritten whatever is there by now.
ApplyChatRefresh(p) ==
  /\ step[p] = "answered" /\ job[p].key = Chat
  /\ Update(p, job[p], Connects(config, Chat, [refresh |-> job[p].token, reauth |-> FALSE], {}))
  /\ UNCHANGED <<files, provider, lock, out>>

MarkNeedsReauth(p) ==
  LET k == job[p].key IN
  /\ step[p] = "refused" /\ k \in Account
  /\ Update(p, job[p], IF k \in DOMAIN config.accounts
                       THEN [config EXCEPT !.accounts[k].reauth = TRUE] ELSE config)
  /\ UNCHANGED <<files, provider, lock, out>>

ChatRefused(p) ==
  /\ step[p] = "refused" /\ job[p].key = Chat
  /\ Ends(p)
  /\ UNCHANGED <<files, provider, out, mishaps>>

---------------------------------------------------------------------------------
(* The user's commands.                                                     *)

(* The provider already has an account here that covers the connectors:     *)
(* they are bound to it with no browser.  The configuration is read once    *)
(* to look for the account and once more to change it.                      *)
FindAccount(p) ==
  /\ step[p] = "idle"
  /\ \E k \in DOMAIN config.accounts \cap Account, c \in Connector :
       /\ ~config.accounts[k].reauth
       /\ Becomes(p, "bind", Job(k, {c}, NoToken, FALSE))
  /\ Reads(p)
  /\ UNCHANGED <<files, provider, lock, out>>

BindAccount(p) ==
  /\ step[p] = "bind"
  /\ Update(p, job[p], [config EXCEPT !.bindings = Over([c \in job[p].ids |-> job[p].key], @)])
  /\ UNCHANGED <<files, provider, lock, out>>

\* The browser opens; one consent at a time.  The account is a hint only.
Consent(p) ==
  /\ step[p] = "idle"
  /\ \A q \in Process : step[q] # "consent"
  /\ \E k \in Account, ids \in (SUBSET Connector) \ {{}} :
       Becomes(p, "consent", Job(k, ids, NoToken, TRUE))
  /\ UNCHANGED <<files, provider, lock, out, mishaps>>

Login(p) ==
  /\ step[p] = "idle"
  /\ \A q \in Process : step[q] # "consent"
  /\ Becomes(p, "consent", Job(Chat, {}, NoToken, TRUE))
  /\ UNCHANGED <<files, provider, lock, out, mishaps>>

ConsentFails(p) ==
  /\ step[p] = "consent"
  /\ Ends(p)
  /\ UNCHANGED <<files, provider, out, mishaps>>

\* The code is exchanged, perhaps with no refresh token in return.
Grants(t) ==
  \/ t = NoToken /\ UNCHANGED provider
  \/ t = issued + 1 /\ t <= MaxTokens /\ issued' = t /\ valid' = valid \cup {t}

\* A row that is there keeps its refresh token when the provider gives none.
Merged(k, t) ==
  [refresh |-> IF t = NoToken /\ k \in DOMAIN config.accounts
               THEN config.accounts[k].refresh ELSE t,
   reauth  |-> FALSE]

Granted(p) ==
  LET k == job[p].key IN
  /\ step[p] = "consent" /\ k \in Account
  /\ \E t \in 0 .. MaxTokens :
       /\ Grants(t)
       /\ Update(p, job[p], Connects(config, k, Merged(k, t), job[p].ids))
  /\ UNCHANGED <<files, lock, out>>

LoggedIn(p) ==
  /\ step[p] = "consent" /\ job[p].key = Chat
  /\ \E t \in 0 .. MaxTokens :
       /\ Grants(t)
       /\ Update(p, job[p], Connects(config, Chat, [refresh |-> t, reauth |-> FALSE], {}))
  /\ UNCHANGED <<files, lock, out>>

(* Fault: the account goes with the first connector that leaves it. *)
FaultUncounted(cfg, c) ==
  IF c \notin DOMAIN cfg.bindings THEN cfg
  ELSE [SignsOut(cfg, cfg.bindings[c]) EXCEPT !.bindings = Restrict(@, DOMAIN @ \ {c})]

(* The account and its tokens go with the last connector bound to it.       *)
Disconnected(cfg, c) ==
  LET rest == Restrict(cfg.bindings, DOMAIN cfg.bindings \ {c})
      k    == cfg.bindings[c]
      left == [cfg EXCEPT !.bindings = rest]
  IN  IF c \notin DOMAIN cfg.bindings THEN cfg
      ELSE IF k \in Range(rest) THEN left ELSE SignsOut(left, k)

Disconnect(p) ==
  /\ step[p] = "idle"
  /\ \E c \in DOMAIN config.bindings : Update(p, Nothing, Disconnected(config, c))
  /\ UNCHANGED <<files, provider, lock, out>>

Logout(p) ==
  /\ step[p] = "idle" /\ Chat \in DOMAIN config.accounts
  /\ Update(p, Nothing, SignsOut(config, Chat))
  /\ UNCHANGED <<files, provider, lock, out>>

\* Any other setting: the accounts are written back as they were read.
Setting(p) ==
  /\ step[p] = "idle"
  /\ Update(p, Nothing, config)
  /\ UNCHANGED <<files, provider, lock, out>>

---------------------------------------------------------------------------------
(* ConfigService::update.                                                   *)

SignsIn(p) == out' = IF job[p].signsIn THEN out \ {job[p].key} ELSE out

Save(p) ==
  /\ step[p] = "store"
  /\ disk' = job[p].next
  /\ SignsIn(p)
  /\ Becomes(p, "cache", job[p])
  /\ UNCHANGED <<config, provider, lock, mishaps>>

\* The store has taken the value: what failed now may still be written later.
SaveFails(p) ==
  /\ step[p] = "store"
  /\ disk' \in {disk, job[p].next}
  /\ SignsIn(p)
  /\ Ends(p)
  /\ Happens("failure")
  /\ UNCHANGED <<config, provider>>

(* Fault: update saves and leaves the memory as it is. *)
FaultStaleMemory(p) ==
  /\ step[p] = "cache"
  /\ Ends(p)
  /\ UNCHANGED <<files, provider, out, mishaps>>

Cache(p) ==
  LET next == job[p].next IN
  /\ step[p] = "cache"
  /\ config' = next
  /\ out' = out \cup (DOMAIN config.accounts \ DOMAIN next.accounts)
  /\ Ends(p)
  /\ UNCHANGED <<disk, provider, mishaps>>

---------------------------------------------------------------------------------
(* The provider withdraws a token; the application dies and starts again.   *)

Revoke ==
  /\ \E t \in valid : valid' = valid \ {t}
  /\ Happens("revoked")
  /\ UNCHANGED <<files, step, job, lock, issued, out>>

Crash ==
  /\ "crash" \notin mishaps
  /\ config' = disk
  /\ step' = [p \in Process |-> "idle"]
  /\ job' = [p \in Process |-> Nothing]
  /\ lock' = [k \in Account |-> NoOne]
  /\ Happens("crash")
  /\ UNCHANGED <<disk, provider, out>>

\* What two overlapping writers leave behind is not followed.
Next ==
  /\ "race" \notin mishaps
  /\ \/ \E p \in Process :
          \/ AskToken(p) \/ NothingToRefresh(p) \/ RefreshLocked(p) \/ AskChatToken(p)
          \/ Exchange(p) \/ RefreshFails(p) \/ ApplyRefresh(p) \/ ApplyChatRefresh(p)
          \/ MarkNeedsReauth(p) \/ ChatRefused(p)
          \/ FindAccount(p) \/ BindAccount(p) \/ Consent(p) \/ Login(p) \/ ConsentFails(p)
          \/ Granted(p) \/ LoggedIn(p) \/ Disconnect(p) \/ Logout(p) \/ Setting(p)
          \/ Save(p) \/ SaveFails(p) \/ Cache(p)
     \/ Revoke
     \/ Crash

Spec == Init /\ [][Next]_vars
---------------------------------------------------------------------------------
(* PROPERTIES                                                               *)

(* As long as no two writers overlap, a connector that is bound to an       *)
(* account finds its row, in memory and after a restart: disconnecting one  *)
(* of two connectors leaves the other one working (auth.rs:484-497).        *)
BoundAccountsAreKept ==
  "race" \notin mishaps =>
    \A cfg \in {config, disk} : Range(cfg.bindings) \subseteq DOMAIN cfg.accounts

(* As long as no two writers overlap, an account the user disconnected      *)
(* does not come back by itself, not even when a refresh that began before  *)
(* gets its answer afterwards, or the application restarts                  *)
(* (auth.rs:619-631).                                                       *)
DisconnectSticks ==
  "race" \notin mishaps => out \cap Account \cap DOMAIN config.accounts = {}

Refreshed(k) ==
  \E p \in Process : job[p].key = k /\ step[p] \in {"posting", "refused", "answered", "store", "cache"}

(* As long as nothing goes wrong, the refresh token of an account nobody    *)
(* refreshes is one the provider takes, and the user is not asked to sign   *)
(* in again, however many turns want a token at once (auth.rs:519-534).     *)
StoredTokenWorks ==
  mishaps = {} =>
    \A k \in Account \cap DOMAIN config.accounts :
      ~Refreshed(k) => /\ ~config.accounts[k].reauth
                       /\ config.accounts[k].refresh \in valid \cup {NoToken}

(* As long as no two writers overlap and no save fails, config.json holds   *)
(* what the memory holds whenever no update is under way                    *)
(* (config_service.rs:153-159).                                             *)
DiskIsConfig ==
  mishaps \cap {"race", "failure"} = {} /\ (\A p \in Process : step[p] # "cache")
    => disk = config
=============================================================================
