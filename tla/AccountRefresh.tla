---------------------------- MODULE AccountRefresh ----------------------------
(***************************************************************************)
(* One subscription account: its stored credential, the per-process token  *)
(* caches, and the tasks that resolve, refresh, sign in and sign out       *)
(* (crates/server/src/credentials/account.rs and signout.rs), together     *)
(* with the vendor's token endpoint.                                       *)
(*                                                                         *)
(* The cross-process lock is used through LeaseLock, which FileLock        *)
(* implements.  The store's own put and delete of this account are one     *)
(* step; what SecretStore shows to be possible, that a save of another     *)
(* account by another store writes back an old map, is the Foreign pair of *)
(* actions.                                                                *)
(*                                                                         *)
(* Tokens are numbers in order of issue.  A credential names its refresh   *)
(* token, its access token and the form it is stored in: "entry" and       *)
(* "bare" are Sign in with ChatGPT accounts with and without siwc data,    *)
(* "side" is one whose client id an older version keeps in the side file.  *)
(***************************************************************************)
EXTENDS Naturals

CONSTANTS Tasks, Procs, None,
          Kinds,      \* providers the account may be of
          ProcOf,     \* the process of each task on an account of each kind
          MaxIssued,  \* bound: the tokens the vendor issues
          Mishaps,    \* which mishaps may happen to an account of each kind
          UserMay     \* which of "in" and "out" its user may do

Tokens == 0..MaxIssued
Forms == {"plain", "entry", "bare", "side"}
Creds == [rt : Tokens, at : Tokens, form : Forms]

ASSUME RefreshAssumption ==
  /\ ProcOf \in [Kinds -> [Tasks -> Procs]]
  /\ Kinds \subseteq {"codex", "gemini", "siwc", "other"}
  /\ MaxIssued \in Nat
  /\ Mishaps \in [Kinds -> SUBSET {"cancel", "crash", "lost", "disk", "stale", "foreign"}]
  /\ UserMay \in [Kinds -> SUBSET {"in", "out"}]
  /\ None \notin Creds /\ None \notin Tokens /\ None \notin Tasks

VARIABLES
  kind,             \* the provider its id names; "other": antigravity, claude
  stored,           \* the account's entry in secrets.json
  cache,            \* each process's cached access token
  fresh,            \* access tokens not within five minutes of expiry
  revoked,          \* the account's marker in revoked.json
  flight,           \* who holds each process's single-flight lock
  holding, suspect, \* the cross-process lock, as LeaseLock has it
  pc, op,           \* where each task is, and in which of its operations
  seen,             \* the refresh token a task read, and will spend
  got,              \* the token the vendor answered a task with
  issued, rotated,  \* tokens issued so far; refresh tokens exchanged for new ones
  saving, snap,     \* a foreign save under way, and what it loaded
  reused,           \* history: a rotated refresh token was presented again
  torn              \* history: a rotation's result was lost or undone

session == <<pc, op, seen, got>>
locks == <<flight, holding, suspect>>
vendor == <<kind, issued, rotated, reused>>
foreign == <<saving, snap>>
vars == <<stored, cache, fresh, revoked, session, locks, vendor, foreign, torn>>

Rest == {"idle", "ok", "failed", "unrenewable"}
Critical == {"locked", "send", "reply", "refused"}
PCs == Rest \cup Critical \cup {"flight", "lock", "judge", "clear", "delete", "unmark"}

\* ChatGPT exchanges a refresh token for a new one, Google keeps it.
Rotates == kind \in {"codex", "siwc"}

TypeOK ==
  /\ kind \in Kinds
  /\ stored \in Creds \cup {None} /\ snap \in Creds \cup {None}
  /\ cache \in [Procs -> Tokens \cup {None}]
  /\ fresh \subseteq Tokens /\ rotated \subseteq Tokens /\ issued \in Tokens
  /\ revoked \in BOOLEAN /\ suspect \in BOOLEAN /\ saving \in BOOLEAN
  /\ reused \in BOOLEAN /\ torn \in BOOLEAN
  /\ flight \in [Procs -> Tasks \cup {None}]
  /\ holding \subseteq Tasks
  /\ pc \in [Tasks -> PCs]
  /\ op \in [Tasks -> {"resolve", "force"}]
  /\ seen \in [Tasks -> Tokens \cup {None}]
  /\ got \in [Tasks -> Tokens \cup {None}]

Init ==
  /\ kind \in Kinds
  /\ stored \in {[rt |-> 0, at |-> 0, form |-> f] :
                   f \in IF kind = "siwc" THEN {"entry", "bare", "side"} ELSE {"plain"}}
  /\ snap = None /\ saving = FALSE
  /\ cache = [p \in Procs |-> None]
  /\ fresh \in {{}, {0}}
  /\ revoked = FALSE /\ suspect = FALSE /\ holding = {}
  /\ flight = [p \in Procs |-> None]
  /\ pc = [t \in Tasks |-> "idle"]
  /\ op = [t \in Tasks |-> "resolve"]
  /\ seen = [t \in Tasks |-> None]
  /\ got = [t \in Tasks |-> None]
  /\ issued = 0 /\ rotated = {}
  /\ reused = FALSE /\ torn = FALSE

-----------------------------------------------------------------------------

Goto(t, to) == pc' = [pc EXCEPT ![t] = to]

\* An operation ends and its locals are gone; a forced refresh that failed
\* still has its caller's verdict on the 401 to come.
End(t, result) ==
  /\ Goto(t, result)
  /\ got' = [got EXCEPT ![t] = None]
  /\ IF result = "judge" THEN UNCHANGED <<op, seen>>
     ELSE /\ op' = [op EXCEPT ![t] = "resolve"]
          /\ seen' = [seen EXCEPT ![t] = None]

\* A flight lock that outlives its task.
ReleaseFileLockOnly(t) ==
  /\ holding' = holding \ {t}
  /\ UNCHANGED <<flight, suspect>>

\* The guards go out of scope: the file lock first, then the flight lock.
Release(t) ==
  /\ holding' = holding \ {t}
  /\ flight' = [p \in Procs |-> IF flight[p] = t THEN None ELSE flight[p]]
  /\ UNCHANGED suspect

Return(t, result) == End(t, result) /\ Release(t)

CachePut(t, at) == cache' = [cache EXCEPT ![ProcOf[kind][t]] = at]

\* read_oauth accepts an OAuth entry without siwc data only.
Readable == stored # None /\ stored.form # "entry"

\* A forced refresh that fails is followed by the caller's verdict on the 401.
Failure(t) == IF op[t] = "force" THEN "judge" ELSE "failed"

\* Not a failure that may pass: this credential cannot be renewed.
Unrenewable(t) == IF op[t] = "force" THEN "judge" ELSE "unrenewable"

\* What a failed read_oauth makes of the operation.
ReadFailure(t) == IF stored = None THEN Failure(t) ELSE Unrenewable(t)

\* resolve: the revoked marker, the cache, the store, then the flight lock.
Resolve(t) ==
  /\ pc[t] \in Rest
  /\ UNCHANGED <<stored, fresh, revoked, locks, vendor, foreign, torn, op, got>>
  /\ \/ /\ revoked
        /\ Goto(t, "failed") /\ UNCHANGED <<seen, cache>>
     \/ /\ ~revoked /\ cache[ProcOf[kind][t]] \in fresh
        /\ Goto(t, "ok") /\ UNCHANGED <<seen, cache>>
     \/ /\ ~revoked /\ cache[ProcOf[kind][t]] \notin fresh /\ ~Readable
        /\ Goto(t, ReadFailure(t)) /\ UNCHANGED <<seen, cache>>
     \/ /\ ~revoked /\ cache[ProcOf[kind][t]] \notin fresh /\ Readable
        /\ stored.at \in fresh
        /\ CachePut(t, stored.at)
        /\ Goto(t, "ok") /\ UNCHANGED seen
     \/ /\ ~revoked /\ cache[ProcOf[kind][t]] \notin fresh /\ Readable
        /\ stored.at \notin fresh
        /\ seen' = [seen EXCEPT ![t] = stored.rt]
        /\ Goto(t, "flight") /\ UNCHANGED cache

\* force_refresh, asked for by a request whose token was answered 401.
ForceRefresh(t) ==
  /\ pc[t] = "ok"
  /\ UNCHANGED <<stored, cache, fresh, revoked, locks, vendor, foreign, torn, seen, got>>
  /\ op' = [op EXCEPT ![t] = "force"]
  /\ Goto(t, IF revoked THEN "judge" ELSE "flight")

\* Has the stored credential moved on since this task looked?
MovedOn(t) ==
  \/ stored.rt # seen[t]
  \/ op[t] = "resolve" /\ stored.at \in fresh

\* The flight lock is ours: read the store again.  force_refresh takes its
\* baseline here.
TakeFlight(t) ==
  /\ pc[t] = "flight"
  /\ flight[ProcOf[kind][t]] = None
  /\ UNCHANGED <<stored, fresh, revoked, holding, suspect, vendor, foreign, torn>>
  /\ \/ /\ ~Readable
        /\ End(t, ReadFailure(t))
        /\ UNCHANGED <<flight, cache>>
     \/ /\ Readable /\ op[t] = "resolve" /\ MovedOn(t)
        /\ CachePut(t, stored.at)
        /\ End(t, "ok") /\ UNCHANGED flight
     \/ /\ Readable /\ (op[t] = "force" \/ ~MovedOn(t))
        /\ flight' = [flight EXCEPT ![ProcOf[kind][t]] = t]
        /\ seen' = [seen EXCEPT ![t] = stored.rt]
        /\ Goto(t, "lock") /\ UNCHANGED <<cache, op, got>>

\* Mutant: an account whose token is not spent does without the lock.
TakeLockIfRotating(t) ==
  /\ pc[t] = "lock"
  /\ holding = {} \/ suspect \/ ~Rotates
  /\ holding' = holding \cup {t}
  /\ Goto(t, "locked")
  /\ UNCHANGED <<stored, cache, fresh, revoked, flight, suspect, vendor, foreign, torn,
                 op, seen, got>>

\* The cross-process lock: LeaseLock's Acquire.
TakeLock(t) ==
  /\ pc[t] = "lock"
  /\ holding = {} \/ suspect
  /\ holding' = holding \cup {t}
  /\ Goto(t, "locked")
  /\ UNCHANGED <<stored, cache, fresh, revoked, flight, suspect, vendor, foreign, torn,
                 op, seen, got>>

LockTimeout(t) ==
  /\ pc[t] = "lock"
  /\ Return(t, Failure(t))
  /\ UNCHANGED <<stored, cache, fresh, revoked, vendor, foreign, torn>>

\* refresh_stored knows two token endpoints, and renews a ChatGPT account
\* only when its client id is kept somewhere.
HasTokenEndpoint == kind # "other" /\ stored.form # "bare"

\* A refresh that spends the token read before the lock was taken.
RecheckSkipped(t) ==
  /\ pc[t] = "locked"
  /\ Readable /\ HasTokenEndpoint
  /\ Goto(t, "send")
  /\ UNCHANGED <<stored, cache, fresh, revoked, locks, vendor, foreign, torn, op, seen, got>>

\* The re-read under the lock, and refresh_stored up to the request.
Recheck(t) ==
  /\ pc[t] = "locked"
  /\ UNCHANGED <<stored, fresh, revoked, vendor, foreign, torn>>
  /\ \/ /\ ~Readable
        /\ Return(t, ReadFailure(t))
        /\ UNCHANGED cache
     \/ /\ Readable /\ MovedOn(t)
        /\ CachePut(t, stored.at)
        /\ Return(t, "ok")
     \/ /\ Readable /\ ~MovedOn(t)
        /\ ~HasTokenEndpoint
        /\ Return(t, Unrenewable(t)) /\ UNCHANGED cache
     \/ /\ Readable /\ ~MovedOn(t) /\ HasTokenEndpoint
        /\ ~(kind = "siwc" /\ stored.at \in fresh)
        /\ Goto(t, "send") /\ UNCHANGED <<cache, locks, op, seen, got>>

\* renew keeps a token outside its own margin of three minutes, forced or
\* not; refresh_siwc stores it again, with its siwc data.
RenewKeeps(t) ==
  /\ pc[t] = "locked" /\ kind = "siwc"
  /\ Readable /\ ~MovedOn(t) /\ HasTokenEndpoint
  /\ stored' = [rt |-> stored.rt, at |-> stored.at, form |-> "entry"]
  /\ CachePut(t, stored.at)
  /\ Return(t, "ok")
  /\ UNCHANGED <<fresh, revoked, vendor, foreign, torn>>

\* The vendor receives the grant.  A refresh token it has already exchanged is
\* answered refresh_token_reused; otherwise it answers with new tokens, or
\* refuses for reasons of its own.
VendorRefreshes(t) ==
  /\ pc[t] = "send"
  /\ seen[t] \notin rotated
  /\ issued < MaxIssued
  /\ issued' = issued + 1
  /\ fresh' = fresh \cup {issued'}
  /\ rotated' = IF Rotates THEN rotated \cup {seen[t]} ELSE rotated
  /\ got' = [got EXCEPT ![t] = issued']
  /\ Goto(t, "reply")
  /\ UNCHANGED <<stored, cache, revoked, locks, kind, reused, foreign, torn, op, seen>>

VendorRefuses(t) ==
  /\ pc[t] = "send"
  /\ reused' = (reused \/ seen[t] \in rotated)
  /\ Goto(t, "refused")
  /\ UNCHANGED <<stored, cache, fresh, revoked, locks, kind, issued, rotated, foreign, torn,
                 op, seen, got>>

\* No answer: an error, or for a ChatGPT account not expired yet a hiccup.
NoAnswer(t) ==
  \/ Return(t, Failure(t))
  \/ kind = "siwc" /\ Return(t, "ok")

\* The request never reaches the vendor.
SendFails(t) ==
  /\ pc[t] = "send"
  /\ NoAnswer(t)
  /\ UNCHANGED <<stored, cache, fresh, revoked, vendor, foreign, torn>>

\* Whether the words of a refusal say "sign in again": the dead codes and an
\* unknown client, and only renew reads them.
classify_refresh == IF kind = "siwc" THEN BOOLEAN ELSE {FALSE}

\* revoked.json is written first; a write that fails is logged and forgotten.
mark_revoked ==
  \/ revoked' = TRUE
  \/ "disk" \in Mishaps[kind] /\ UNCHANGED revoked

\* A refused refresh is an error; a ChatGPT account is also marked when the
\* refusal says that its sign-in is dead.
Refused(t) ==
  /\ pc[t] = "refused"
  /\ Return(t, Failure(t))
  /\ \E dead \in classify_refresh : IF dead THEN mark_revoked ELSE UNCHANGED revoked
  /\ UNCHANGED <<stored, cache, fresh, vendor, foreign, torn>>

NewCred(t) ==
  [rt   |-> IF Rotates THEN got[t] ELSE seen[t],
   at   |-> got[t],
   form |-> IF kind = "siwc" THEN "entry" ELSE "plain"]

\* store.put, cache_put, and the guards are dropped.
Persist(t) ==
  /\ pc[t] = "reply"
  /\ stored' = NewCred(t)
  /\ CachePut(t, got[t])
  /\ Return(t, "ok")
  /\ UNCHANGED <<fresh, revoked, vendor, foreign, torn>>

\* The answer is lost or malformed, or the put fails.
LoseReply(t) ==
  /\ pc[t] = "reply"
  /\ Mishaps[kind] \cap {"lost", "disk"} # {}
  /\ NoAnswer(t)
  /\ torn' = (torn \/ Rotates)
  /\ UNCHANGED <<stored, cache, fresh, revoked, vendor, foreign>>

\* classify_account_auth after a forced refresh failed: with words that say
\* the sign-in is gone the account is marked.
Judge(t) ==
  /\ pc[t] = "judge"
  /\ \E dead \in BOOLEAN : IF dead THEN mark_revoked ELSE UNCHANGED revoked
  /\ End(t, "failed")
  /\ UNCHANGED <<stored, cache, fresh, locks, vendor, foreign, torn>>

\* store_sign_in: cache and store the new credential, then clear the marker.
SignIn(t) ==
  /\ pc[t] \in Rest /\ "in" \in UserMay[kind]
  /\ issued < MaxIssued
  /\ issued' = issued + 1
  /\ fresh' = fresh \cup {issued'}
  /\ \E f \in IF kind = "siwc" THEN {"entry", "bare"} ELSE {"plain"} :
       stored' = [rt |-> issued', at |-> issued', form |-> f]
  /\ CachePut(t, issued')
  /\ Goto(t, "clear")
  /\ UNCHANGED <<revoked, locks, kind, rotated, reused, foreign, torn, op, seen, got>>

ClearRevoked(t) ==
  /\ pc[t] \in {"clear", "unmark"}
  /\ revoked' = FALSE
  /\ Goto(t, IF pc[t] = "clear" THEN "ok" ELSE "idle")
  /\ UNCHANGED <<stored, cache, fresh, locks, vendor, foreign, torn, op, seen, got>>

\* signout::remove reads the token and asks the vendor to revoke it ...
SignOut(t) ==
  /\ pc[t] \in Rest /\ "out" \in UserMay[kind]
  /\ Goto(t, "delete")
  /\ UNCHANGED <<stored, cache, fresh, revoked, locks, vendor, foreign, torn, op, seen, got>>

\* ... then deletes the entry and the cached token whatever came of it; the
\* marker is cleared except on the ChatGPT path, which returns before.
DeleteStored(t) ==
  /\ pc[t] = "delete"
  /\ stored' = None
  /\ CachePut(t, None)
  /\ Goto(t, IF kind = "siwc" THEN "idle" ELSE "unmark")
  /\ UNCHANGED <<fresh, revoked, locks, vendor, foreign, torn, op, seen, got>>

\* The clock: what was issued so far comes within the margin of its expiry.
Expire ==
  /\ fresh # {}
  /\ fresh' = {}
  /\ UNCHANGED <<stored, cache, revoked, session, locks, vendor, foreign, torn>>

\* The client disconnects and the request's future is dropped at an await.
Cancel(t) ==
  /\ "cancel" \in Mishaps[kind]
  /\ pc[t] \in {"flight", "lock", "send", "reply"}
  /\ Return(t, "idle")
  /\ torn' = (torn \/ (pc[t] = "reply" /\ Rotates))
  /\ UNCHANGED <<stored, cache, fresh, revoked, vendor, foreign>>

Crash(p) ==
  LET dying == {t \in Tasks : ProcOf[kind][t] = p} IN
  /\ "crash" \in Mishaps[kind]
  /\ pc' = [t \in Tasks |-> IF t \in dying THEN "idle" ELSE pc[t]]
  /\ op' = [t \in Tasks |-> IF t \in dying THEN "resolve" ELSE op[t]]
  /\ seen' = [t \in Tasks |-> IF t \in dying THEN None ELSE seen[t]]
  /\ got' = [t \in Tasks |-> IF t \in dying THEN None ELSE got[t]]
  /\ holding' = holding \ dying
  /\ flight' = [flight EXCEPT ![p] = None]
  /\ cache' = [cache EXCEPT ![p] = None]
  /\ torn' = (torn \/ (Rotates /\ \E t \in dying : pc[t] = "reply"))
  /\ UNCHANGED <<stored, fresh, revoked, suspect, vendor, foreign>>

\* A lock file grows stale: LeaseLock's BecomeSuspect.
LockGrowsStale ==
  /\ "stale" \in Mishaps[kind] /\ ~suspect
  /\ suspect' = TRUE
  /\ UNCHANGED <<stored, cache, fresh, revoked, session, flight, holding, vendor, foreign, torn>>

\* A save of another account through another FileSecretStore: it loads the
\* whole map and later writes it back.
ForeignLoad ==
  /\ "foreign" \in Mishaps[kind] /\ ~saving
  /\ saving' = TRUE /\ snap' = stored
  /\ UNCHANGED <<stored, cache, fresh, revoked, session, locks, vendor, torn>>

ForeignCommit ==
  /\ saving
  /\ saving' = FALSE /\ snap' = None
  /\ stored' = snap
  /\ torn' = (torn \/ stored # snap)
  /\ UNCHANGED <<cache, fresh, revoked, session, locks, vendor>>

RefreshStep(t) ==
  \/ TakeLock(t) \/ LockTimeout(t) \/ Recheck(t) \/ RenewKeeps(t)
  \/ VendorRefreshes(t) \/ VendorRefuses(t) \/ SendFails(t) \/ Refused(t)
  \/ Persist(t) \/ LoseReply(t) \/ Judge(t)

Next ==
  \/ \E t \in Tasks :
       \/ Resolve(t) \/ ForceRefresh(t) \/ TakeFlight(t) \/ RefreshStep(t)
       \/ SignIn(t) \/ ClearRevoked(t) \/ SignOut(t) \/ DeleteStored(t)
       \/ Cancel(t)
  \/ \E p \in Procs : Crash(p)
  \/ Expire \/ LockGrowsStale \/ ForeignLoad \/ ForeignCommit

Spec == Init /\ [][Next]_vars

\* tokio's mutex is first come first served; a running refresh keeps running
\* and the token endpoint answers or fails.
FairSpec ==
  /\ Spec
  /\ \A t \in Tasks : SF_vars(TakeFlight(t)) /\ WF_vars(RefreshStep(t))

-----------------------------------------------------------------------------

(***************************************************************************)
(* No refresh token is spent twice unless the answer to a rotation was     *)
(* lost on the way to the store (a cancelled request, a crash, a lost      *)
(* reply, a failed put), a save of another account undid the store, or a   *)
(* lock file grew stale (account.rs 299-341, 354-375, 500).                *)
(***************************************************************************)
SpentOnce == reused => torn \/ suspect

(***************************************************************************)
(* Under the same proviso an account is never left with a spent refresh    *)
(* token: whenever no refresh is under way the stored one is unspent.      *)
(***************************************************************************)
StoredTokenUsable ==
  /\ ~torn /\ ~suspect /\ stored # None
  /\ \A t \in Tasks : pc[t] \notin Critical
  => stored.rt \notin rotated

(***************************************************************************)
(* Under the same proviso the store moves forward only: of two credentials *)
(* of one grant the one issued later is never replaced by the earlier one, *)
(* whichever process answers last.                                         *)
(***************************************************************************)
StoreMovesForward ==
  [][stored # None /\ stored' # None /\ stored'.rt = stored.rt
       /\ ~torn' /\ ~suspect => stored'.at >= stored.at]_vars

(***************************************************************************)
(* Every resolve and every forced refresh returns: nobody waits forever on *)
(* the flight lock, on the file lock or on a task that gave up.            *)
(***************************************************************************)
RefreshReturns ==
  \A t \in Tasks : (pc[t] \in {"flight", "lock"} \cup Critical) ~>
                     (pc[t] \in Rest \cup {"judge"})

(***************************************************************************)
(* A rotating token is used up once and never kept: presented once, and    *)
(* replaced in the store by what the vendor gave for it (account.rs        *)
(* 322-526).                                                               *)
(***************************************************************************)
TokensSafe == TypeOK /\ SpentOnce /\ StoredTokenUsable
==============================================================================
