--------------------------- MODULE AccountAdoption ---------------------------
(***************************************************************************)
(* Accounts that come from, and go back to, other tools: the CLI's import  *)
(* of export files and of agents' own stores, and the adoption of a Codex  *)
(* account, whose rotated tokens are written back to the auth.json that    *)
(* Codex itself reads and writes (credentials/import.rs, agent_import.rs,  *)
(* codex_store.rs, account.rs; cli/main.rs; handlers/accounts.rs).         *)
(*                                                                         *)
(* A token is its account's generation: the vendor rotates on every        *)
(* refresh and honours the last one only.  The refresh itself, its locks   *)
(* and its failures are AccountRefresh's; here it is one step.             *)
(***************************************************************************)
EXTENDS ImportShapes

CONSTANTS People, HomeList,   \* the Codex homes in codex_homes' order
          Exports,            \* the export directories a user may import
          Stored0,            \* the accounts stored at the start
          Writers,            \* threads that may run write_tokens at once
          MaxCommands,        \* bound: what users start, here and in Codex
          MaxGen,             \* bound: tokens the vendor issues in all
          Mishaps,            \* subset of {"cancel", "disk", "slow", "switch", "logout"}
          None

Homes == {HomeList[i] : i \in DOMAIN HomeList}

ASSUME AdoptionAssumption ==
  /\ MaxGen \in Nat \ {0} /\ MaxCommands \in Nat
  /\ HomeList \in Seq(Homes) /\ HomeList # <<>>
  /\ IsFiniteSet(People) /\ NoName \notin People
  /\ None \notin People \cup Homes \cup Writers
  /\ Exports \subseteq Seq(ExportFiles(People))
  /\ Mishaps \subseteq {"cancel", "disk", "slow", "switch", "logout"}

Ids == {"codex", "claude"} \X People

VARIABLES
  live,      \* the vendor: the last generation issued to each person
  honoured,  \* the vendor: the generations it still takes (one per sign-in)
  secrets,   \* the credential store
  adopted,   \* adopted.json
  config,    \* cli_auth_credentials_store of each home: "file", or one to refuse
  auth,      \* auth.json of each home
  lock,      \* who holds auth.json.any-converter.lock
  writer,    \* the running write_tokens
  refresh,   \* the server's refresh of an account (one: its lock spans the write-back)
  signin,    \* a Codex sign-in of any-converter's own, completing
  cli,       \* the running `accounts` command
  left,      \* commands users may still start
  web,       \* the running adopt or release request
  written,   \* history: the homes that took an account's tokens before it was marked
  switched,  \* history: homes signed in to another account since, by Codex or by a sign-in here
  missed     \* history: accounts whose auth.json is known to have missed the stored token

vendor == <<live, honoured>>
vars == <<vendor, secrets, adopted, config, auth, lock, writer, refresh, signin, cli, left, web,
          written, switched, missed>>

Cred == [gen : Nat, expiry : Int]
\* "unread" is a file that does not parse or has no tokens, "key" one with an
\* API key beside them; id and account: whom the id_token and the account_id name; of, gen: the tokens.
Auth == [is : {"missing", "unread", "key", "tokens"}, id : People \cup {None},
         account : People \cup {None}, of : People \cup {None}, gen : Nat]
Missing == [is |-> "missing", id |-> None, account |-> None, of |-> None, gen |-> 0]
SignedIn(p, g) == [is |-> "tokens", id |-> p, account |-> p, of |-> p, gen |-> g]

NoWriter == [pc |-> "free", home |-> None, of |-> None, gen |-> 0, idtoken |-> FALSE,
             was |-> Missing, by |-> None, excused |-> FALSE, detached |-> FALSE, overtaken |-> "no"]
NoTask == [pc |-> "idle", who |-> None, w |-> None, gen |-> 0, over |-> FALSE]
NoCli == [pc |-> "idle", who |-> None, w |-> None, home |-> None, rows |-> <<>>, seen |-> None,
          snap |-> [p \in People |-> None], agent |-> FALSE]
NoWeb == [pc |-> "idle", who |-> None, snap |-> [p \in People |-> None]]

TypeOK ==
  /\ live \in [People -> 1..MaxGen] /\ \A p \in People : honoured[p] \subseteq 1..live[p]
  /\ secrets \in [Ids -> Cred \cup {None}]
  /\ adopted \in [People -> Homes \cup {None}]
  /\ config \in [Homes -> {"file", "refused"}]
  /\ auth \in [Homes -> Auth]
  /\ lock \in [Homes -> Writers \cup {None}]
  /\ \A w \in Writers : /\ writer[w].pc \in {"free", "start", "read", "copied", "ok", "failed"}
                        /\ writer[w].pc \in {"read", "copied"} <=>
                             \E h \in Homes : lock[h] = w
  /\ left \in 0..MaxCommands
  /\ refresh.pc \in {"idle", "lookup", "await"} /\ signin.pc \in {"idle", "await"}
  /\ cli.pc \in {"idle", "check", "put", "await", "mark", "save", "unmark", "drop"}
  /\ web.pc \in {"idle", "drop"}
  /\ written \in [People -> SUBSET Homes]
  /\ switched \in SUBSET Homes /\ missed \in SUBSET People

Expired == 1   \* an expiry any refreshed token is later than

Init ==
  /\ live = [p \in People |-> 1] /\ honoured = [p \in People |-> {1}]
  /\ config \in [Homes -> {"file", "refused"}]
  /\ auth \in [Homes -> {Missing, [Missing EXCEPT !.is = "unread"]}
                 \cup {SignedIn(p, 1) : p \in People}
                 \cup {[SignedIn(p, 1) EXCEPT !.is = "key"] : p \in People}]
  /\ secrets = [i \in Ids |-> IF i \in Stored0
                              THEN [gen |-> 1, expiry |-> Expired] ELSE None]
  /\ adopted = [p \in People |-> None]
  /\ lock = [h \in Homes |-> None] /\ writer = [w \in Writers |-> NoWriter]
  /\ refresh = NoTask /\ signin = NoTask /\ cli = NoCli /\ web = NoWeb
  /\ left = MaxCommands
  /\ written = [p \in People |-> {}] /\ switched = {} /\ missed = {}

\* A user starts something.
Command == left > 0 /\ left' = left - 1

Codex(p) == <<"codex", p>>
Stored(p) == secrets[Codex(p)] # None

(***************************************************************************)
(* What is found in other tools' stores.                                   *)
(***************************************************************************)

\* read_codex_dir: a subscription sign-in with a refresh token; an API key
\* beside the tokens makes it somebody else's business.
read_codex_dir(h) == IF auth[h].is = "tokens" THEN {Codex(auth[h].id)} ELSE {}

\* The first home, in codex_homes' order, that holds the account.
HomesOf(p) == {h \in Homes : Codex(p) \in read_codex_dir(h)}
first_home(p) == LET at(h) == CHOOSE i \in DOMAIN HomeList : HomeList[i] = h
                 IN  CHOOSE h \in HomesOf(p) : \A g \in HomesOf(p) : at(h) <= at(g)

codex_store(h) == config[h] = "file"

(***************************************************************************)
(* write_tokens: the tokens and nothing else, under the lock, after a copy *)
(* of the file.  Codex writes the same file and knows nothing of the lock. *)
(***************************************************************************)
Spawn(w, by, h, p, g, idtoken) ==
  /\ w = CHOOSE v \in Writers : writer[v].pc = "free" \/ \A u \in Writers : writer[u].pc # "free"
  /\ writer[w].pc = "free"
  /\ writer' = [writer EXCEPT ![w] = [NoWriter EXCEPT !.pc = "start", !.home = h, !.of = p,
                                                       !.gen = g, !.idtoken = idtoken, !.by = by,
                                                       !.excused = by = "refresh" /\ refresh.over]]

WriterEnds(w, result) ==
  /\ writer' = [writer EXCEPT ![w] = IF @.detached THEN NoWriter ELSE [@ EXCEPT !.pc = result]]
  /\ lock' = [h \in Homes |-> IF lock[h] = w THEN None ELSE lock[h]]

WriterFails(w) ==
  /\ WriterEnds(w, "failed")
  /\ missed' = missed \cup {p \in People : writer[w].by = "refresh" /\ writer[w].of = p}

\* Mutant: a store that cannot be written is waited for.
ReadsWhenItCan(w) ==
  LET h == writer[w].home IN
  /\ writer[w].pc = "start" /\ codex_store(h) /\ auth[h].is \in {"tokens", "key"} /\ lock[h] = None
  /\ lock' = [lock EXCEPT ![h] = w]
  /\ writer' = [writer EXCEPT ![w].pc = "read", ![w].was = auth[h]]
  /\ UNCHANGED <<vendor, secrets, adopted, config, auth, refresh, signin, cli, left, web, written, switched, missed>>
\* A store Codex keeps elsewhere is refused; what does not read is left alone.
WriterReads(w) ==
  LET h == writer[w].home IN
  /\ writer[w].pc = "start"
  /\ IF codex_store(h) /\ auth[h].is \in {"tokens", "key"}
     THEN /\ lock[h] = None
          /\ lock' = [lock EXCEPT ![h] = w]
          /\ writer' = [writer EXCEPT ![w].pc = "read", ![w].was = auth[h]]
          /\ UNCHANGED missed
     ELSE (codex_store(h) => lock[h] = None) /\ WriterFails(w)
  /\ UNCHANGED <<vendor, secrets, adopted, config, auth, refresh, signin, cli, left, web, written, switched>>

\* The wait for the lock is bounded.
WriterTimesOut(w) ==
  /\ "slow" \in Mishaps
  /\ writer[w].pc = "start" /\ lock[writer[w].home] # None
  /\ WriterFails(w)
  /\ UNCHANGED <<vendor, secrets, adopted, config, auth, refresh, signin, cli, left, web, written, switched>>

\* fs::copy to auth.json.bak, which nothing reads back: it needs a file there.
WriterCopies(w) ==
  LET h == writer[w].home IN
  /\ writer[w].pc = "read"
  /\ \/ /\ auth[h].is # "missing"
        /\ writer' = [writer EXCEPT ![w].pc = "copied"]
        /\ UNCHANGED <<lock, missed>>
     \/ /\ auth[h].is = "missing" \/ "disk" \in Mishaps
        /\ WriterFails(w)
  /\ UNCHANGED <<vendor, secrets, adopted, config, auth, refresh, signin, cli, left, web, written, switched>>

\* Whose tokens a write to this file displaces: those adopted or being adopted there.
Touched(h) == {p \in People : adopted[p] = h \/ (cli.who = p /\ cli.home = h)}

\* The id_token changes when the update has one, the account_id never.
Updated(u) == [u.was EXCEPT !.of = u.of, !.gen = u.gen, !.id = IF u.idtoken THEN u.of ELSE @]

\* What it writes is p's stored token, to the home that has p's mark or gets it.
Brings(w, p) == /\ writer[w].by # "signin" /\ writer[w].of = p
                /\ writer[w].by = "adopt" \/ adopted[p] = writer[w].home
                /\ writer[w].gen = secrets[Codex(p)].gen

write_tokens(w) ==
  LET h == writer[w].home IN
  /\ writer[w].pc = "copied"
  /\ auth' = [auth EXCEPT ![h] = Updated(writer[w])]
  /\ WriterEnds(w, "ok")
  /\ switched' = IF writer[w].by = "signin" /\ writer[w].of # writer[w].was.account
                 THEN switched \cup {h} ELSE switched
  /\ missed' = (missed \ {p \in Touched(h) : cli.who = p => cli.home = h})
                 \cup {p \in Touched(h) : ~Brings(w, p)}
  /\ UNCHANGED <<vendor, secrets, adopted, config, refresh, signin, cli, left, web, written>>

\* The disk refuses the rename: the old file stays.
WriteFails(w) ==
  /\ "disk" \in Mishaps /\ writer[w].pc = "copied"
  /\ WriterFails(w)
  /\ UNCHANGED <<vendor, secrets, adopted, config, auth, refresh, signin, cli, left, web, written, switched>>

(***************************************************************************)
(* The server: a refresh, and its write-back while the refresh lock is     *)
(* held; a sign-in that writes back before it is stored.                   *)
(***************************************************************************)
\* The vendor issues a token, for one it takes back or for a new sign-in.
Issue(p, spent) ==
  /\ Cardinality({x \in People \X (1..MaxGen) : x[2] <= live[x[1]]}) < MaxGen
  /\ live' = [live EXCEPT ![p] = @ + 1]
  /\ honoured' = [honoured EXCEPT ![p] = (@ \ spent) \cup {live'[p]}]

\* The rotated token is in the store before anybody asks about adoption.
RefreshStores(p) ==
  /\ refresh.pc = "idle" /\ Stored(p) /\ secrets[Codex(p)].gen \in honoured[p]
  /\ Issue(p, {secrets[Codex(p)].gen})
  /\ secrets' = [secrets EXCEPT ![Codex(p)] = [gen |-> live'[p], expiry |-> live'[p]]]
  /\ refresh' = [NoTask EXCEPT !.pc = "lookup", !.who = p, !.gen = live'[p]]
  /\ missed' = missed \cup {q \in {p} : cli.who = p}
  /\ UNCHANGED <<adopted, config, auth, lock, writer, signin, cli, left, web, written, switched>>

\* Mutant: only an answer with an id_token is written back.
WithIdTokenOnly(w, idtoken) ==
  LET p == refresh.who IN
  /\ refresh.pc = "lookup"
  /\ IF adopted[p] = None \/ ~idtoken THEN refresh' = NoTask /\ UNCHANGED writer
     ELSE /\ Spawn(w, "refresh", adopted[p], p, refresh.gen, idtoken)
          /\ refresh' = [refresh EXCEPT !.pc = "await", !.w = w]
  /\ UNCHANGED <<vendor, secrets, adopted, config, auth, lock, signin, cli, left, web, written, switched, missed>>

\* adopted_home_of, then spawn_blocking and an await.
RefreshLooksUp(w, idtoken) ==
  LET p == refresh.who IN
  /\ refresh.pc = "lookup"
  /\ IF adopted[p] = None THEN refresh' = NoTask /\ UNCHANGED writer
     ELSE /\ Spawn(w, "refresh", adopted[p], p, refresh.gen, idtoken)
          /\ refresh' = [refresh EXCEPT !.pc = "await", !.w = w]
  /\ UNCHANGED <<vendor, secrets, adopted, config, auth, lock, signin, cli, left, web, written, switched, missed>>

\* A failed write-back is only logged.
RefreshReturns ==
  /\ refresh.pc = "await" /\ writer[refresh.w].pc \in {"ok", "failed"}
  /\ writer' = [writer EXCEPT ![refresh.w] = NoWriter]
  /\ refresh' = NoTask
  /\ UNCHANGED <<vendor, secrets, adopted, config, auth, lock, signin, cli, left, web, written, switched, missed>>

\* The client goes away: the request and its lock go, the blocking thread stays.
RefreshCancelled ==
  /\ "cancel" \in Mishaps /\ refresh.pc = "await" /\ writer[refresh.w].pc \notin {"ok", "failed"}
  /\ writer' = [writer EXCEPT ![refresh.w].detached = TRUE, ![refresh.w].excused = TRUE]
  /\ refresh' = NoTask
  /\ missed' = missed \cup {refresh.who}
  /\ UNCHANGED <<vendor, secrets, adopted, config, auth, lock, signin, cli, left, web, written, switched>>

\* CodexSignIn::complete writes to the default home whoever that home is for.
SignInCompletes(w, p) ==
  /\ Command
  /\ signin.pc = "idle" /\ Issue(p, {})
  /\ Spawn(w, "signin", HomeList[1], p, live'[p], TRUE)
  /\ signin' = [NoTask EXCEPT !.pc = "await", !.who = p, !.w = w]
  /\ UNCHANGED <<secrets, adopted, config, auth, lock, refresh, cli, web, written, switched, missed>>

\* Another token is stored for p, which a refresh under way does not notice.
StoredOver(p, done) ==
  /\ missed' = missed \cup {p}
  /\ writer' = [v \in Writers |-> IF v = done THEN NoWriter
                                  ELSE [writer[v] EXCEPT !.excused = @ \/ writer[v].of = p]]
  /\ refresh' = [refresh EXCEPT !.over = @ \/ refresh.who = p]

\* store_sign_in, whatever became of the write-back.
SignInStored ==
  LET p == signin.who w == signin.w IN
  /\ signin.pc = "await" /\ writer[w].pc \in {"ok", "failed"}
  /\ secrets' = [secrets EXCEPT ![Codex(p)] = [gen |-> writer[w].gen, expiry |-> writer[w].gen]]
  /\ StoredOver(p, w)
  /\ signin' = NoTask
  /\ UNCHANGED <<vendor, adopted, config, auth, lock, cli, left, web, written, switched>>

(***************************************************************************)
(* `accounts import`: row by row, what is stored is looked at and then     *)
(* written, each under the store's own lock.                               *)
(***************************************************************************)
accounts_import(files) ==
  /\ Command
  /\ cli.pc = "idle"
  /\ cli' = [NoCli EXCEPT !.pc = "check", !.rows = import_path(files)]
  /\ UNCHANGED <<vendor, secrets, adopted, config, auth, lock, writer, refresh, signin, web, written, switched, missed>>

NextRow(c) == IF Len(c.rows) = 1 THEN NoCli ELSE [c EXCEPT !.pc = "check", !.rows = Tail(@), !.seen = None]

\* import_entry: a stored account stays, unless a claude-swap row is newer.
Replaces(row, cred) ==
  \/ cred = None
  \/ row.newer_wins /\ row.expiry # NoExpiry /\ (cred.expiry = NoExpiry \/ row.expiry > cred.expiry)

import_entry ==
  /\ cli.pc = "check" /\ ~cli.agent
  /\ LET row == cli.rows[1] IN
     cli' = IF row.ok /\ Replaces(row, secrets[row.id])
            THEN [cli EXCEPT !.pc = "put", !.seen = secrets[row.id]]
            ELSE NextRow(cli)
  /\ UNCHANGED <<vendor, secrets, adopted, config, auth, lock, writer, refresh, signin, left, web, written, switched, missed>>

write_entry ==
  LET row == cli.rows[1] IN
  /\ cli.pc = "put" /\ ~cli.agent
  /\ \/ /\ secrets' = [secrets EXCEPT ![row.id] = [gen |-> row.gen, expiry |-> row.expiry]]
        /\ StoredOver(row.id[2], None)
     \/ "disk" \in Mishaps /\ UNCHANGED <<secrets, missed, writer, refresh>>
  /\ cli' = NextRow(cli)
  /\ UNCHANGED <<vendor, adopted, config, auth, lock, signin, left, web, written, switched>>

\* `accounts import-agent`: every sign-in found is stored, one after the other.
FoundIn(h) == [ok |-> TRUE, id |-> Codex(auth[h].id), gen |-> auth[h].gen, expiry |-> auth[h].gen,
               newer_wins |-> FALSE]
FoundRows == FlattenSeq([i \in DOMAIN HomeList |->
                           IF read_codex_dir(HomeList[i]) = {} THEN <<>> ELSE <<FoundIn(HomeList[i])>>])

accounts_import_agent ==
  /\ Command
  /\ cli.pc = "idle" /\ FoundRows # <<>>
  /\ cli' = [NoCli EXCEPT !.pc = "put", !.rows = FoundRows, !.agent = TRUE]
  /\ UNCHANGED <<vendor, secrets, adopted, config, auth, lock, writer, refresh, signin, web, written, switched, missed>>

\* A store that fails ends the command.
ImportAgentPuts ==
  LET row == cli.rows[1] IN
  /\ cli.pc = "put" /\ cli.agent
  /\ \/ /\ secrets' = [secrets EXCEPT ![row.id] = [gen |-> row.gen, expiry |-> row.expiry]]
        /\ StoredOver(row.id[2], None)
        /\ cli' = IF Len(cli.rows) = 1 THEN NoCli ELSE [cli EXCEPT !.rows = Tail(@)]
     \/ "disk" \in Mishaps /\ cli' = NoCli /\ UNCHANGED <<secrets, missed, writer, refresh>>
  /\ UNCHANGED <<vendor, adopted, config, auth, lock, signin, left, web, written, switched>>

(***************************************************************************)
(* `accounts adopt` and `release`, and the same over HTTP.  adopted.json   *)
(* is read and written whole, without a lock.                              *)
(***************************************************************************)

\* The stored tokens go to the home the sign-in was found in, first of all.
accounts_adopt(w, p) ==
  /\ Command
  /\ cli.pc = "idle" /\ Stored(p) /\ HomesOf(p) # {} /\ codex_store(first_home(p))
  /\ Spawn(w, "adopt", first_home(p), p, secrets[Codex(p)].gen, FALSE)
  /\ cli' = [NoCli EXCEPT !.pc = "await", !.who = p, !.w = w, !.home = first_home(p)]
  /\ UNCHANGED <<vendor, secrets, adopted, config, auth, lock, refresh, signin, web, written, switched, missed>>

AdoptWritten ==
  /\ cli.pc = "await" /\ writer[cli.w].pc \in {"ok", "failed"}
  /\ IF writer[cli.w].pc = "ok"
     THEN /\ cli' = [cli EXCEPT !.pc = "mark", !.w = None]
          /\ written' = [written EXCEPT ![cli.who] = @ \cup {cli.home}]
     ELSE cli' = NoCli /\ UNCHANGED written
  /\ writer' = [writer EXCEPT ![cli.w] = NoWriter]
  /\ UNCHANGED <<vendor, secrets, adopted, config, auth, lock, refresh, signin, left, web, switched, missed>>

\* mark_adopted: load_adopted, then the whole map is written.
MarkReads ==
  /\ cli.pc = "mark"
  /\ cli' = [cli EXCEPT !.pc = "save", !.snap = adopted]
  /\ UNCHANGED <<vendor, secrets, adopted, config, auth, lock, writer, refresh, signin, left, web, written, switched, missed>>

\* Marks another command changed since this one read the file: lost, or back.
Displaced(snap) == {p \in People : snap[p] # adopted[p]}

mark_adopted ==
  /\ cli.pc = "save"
  /\ adopted' = [cli.snap EXCEPT ![cli.who] = cli.home]
  /\ missed' = missed \cup (Displaced(cli.snap) \ {cli.who})
  /\ cli' = NoCli
  /\ UNCHANGED <<vendor, secrets, config, auth, lock, writer, refresh, signin, left, web, written,
                 switched>>

\* release_adopted: nothing to drop is nothing to write.
accounts_release(p) ==
  /\ Command
  /\ cli.pc = "idle" /\ Stored(p) /\ adopted[p] # None
  /\ cli' = [NoCli EXCEPT !.pc = "drop", !.who = p, !.snap = adopted]
  /\ UNCHANGED <<vendor, secrets, adopted, config, auth, lock, writer, refresh, signin, web, written, switched, missed>>

release_adopted ==
  /\ \/ cli.pc = "drop" /\ adopted' = [cli.snap EXCEPT ![cli.who] = None]
        /\ cli' = NoCli /\ UNCHANGED web
        /\ missed' = missed \cup (Displaced(cli.snap) \ {cli.who})
     \/ web.pc = "drop" /\ adopted' = [web.snap EXCEPT ![web.who] = None]
        /\ web' = NoWeb /\ UNCHANGED cli
        /\ missed' = missed \cup (Displaced(web.snap) \ {web.who})
  /\ UNCHANGED <<vendor, secrets, config, auth, lock, writer, refresh, signin, left, written, switched>>

handle_account_release(p) ==
  /\ Command
  /\ web.pc = "idle" /\ adopted[p] # None
  /\ web' = [NoWeb EXCEPT !.pc = "drop", !.who = p, !.snap = adopted]
  /\ UNCHANGED <<vendor, secrets, adopted, config, auth, lock, writer, refresh, signin, cli, written, switched, missed>>

\* (The adopt request compares whole account ids with an id less its "codex:":
\* it finds none and always answers 404, so it has no action here.)

(***************************************************************************)
(* Codex.                                                                  *)
(***************************************************************************)
CodexWrites(h, new) ==
  /\ auth' = [auth EXCEPT ![h] = new]
  /\ writer' = [w \in Writers |-> IF writer[w].home = h /\ writer[w].pc \in {"read", "copied"}
                                  THEN [writer[w] EXCEPT !.overtaken = writer[w].pc] ELSE writer[w]]
  /\ missed' = missed \cup Touched(h)
  /\ UNCHANGED <<secrets, adopted, config, lock, refresh, signin, cli, web, written>>

CodexSignsIn(h, p) ==
  /\ Command
  /\ "switch" \in Mishaps /\ Issue(p, {}) /\ CodexWrites(h, SignedIn(p, live'[p]))
  /\ switched' = IF p = auth[h].account THEN switched ELSE switched \cup {h}
CodexRefreshes(h) ==
  /\ auth[h].is = "tokens" /\ auth[h].gen \in honoured[auth[h].of]
  /\ Issue(auth[h].of, {auth[h].gen}) /\ UNCHANGED <<switched, left>>
  /\ CodexWrites(h, [auth[h] EXCEPT !.gen = live'[auth[h].of]])
CodexLogsOut(h) ==
  /\ Command
  /\ "logout" \in Mishaps /\ auth[h].is \in {"tokens", "key"}
  /\ CodexWrites(h, Missing) /\ UNCHANGED <<vendor, switched>>

Writing(w) == WriterReads(w) \/ WriterTimesOut(w) \/ WriterCopies(w) \/ write_tokens(w) \/ WriteFails(w)
Refreshing == (\E w \in Writers, i \in BOOLEAN : RefreshLooksUp(w, i)) \/ RefreshReturns
Commanding == import_entry \/ write_entry \/ ImportAgentPuts \/ AdoptWritten \/ MarkReads \/ mark_adopted
              \/ release_adopted \/ SignInStored

Next ==
  \/ \E w \in Writers : Writing(w) \/ \E p \in People : SignInCompletes(w, p) \/ accounts_adopt(w, p)
  \/ \E p \in People : RefreshStores(p) \/ accounts_release(p) \/ handle_account_release(p)
  \/ Refreshing \/ RefreshCancelled \/ Commanding
  \/ \E f \in Exports : accounts_import(f)
  \/ accounts_import_agent
  \/ \E h \in Homes : CodexRefreshes(h) \/ CodexLogsOut(h) \/ \E p \in People : CodexSignsIn(h, p)

\* The runtime runs what is ready, and the lock's wait is bounded.
Fairness == WF_vars(Refreshing) /\ \A w \in Writers : WF_vars(Writing(w))

Spec == Init /\ [][Next]_vars /\ Fairness

(***************************************************************************)
(* Properties.                                                             *)
(***************************************************************************)

\* An import replaces a stored sign-in only by one that really lasts longer,
\* in whatever unit the file counts, unless the store changed after import
\* looked ("never overwritten, except ... whose expiresAt is newer").
ImportNeverOlder ==
  (cli.pc = "put" /\ ~cli.agent /\ cli' # cli /\ secrets' # secrets) =>
       LET row == cli.rows[1] old == secrets[row.id] IN
         old = None \/ old # cli.seen \/ old.expiry = NoExpiry \/ row.until > old.expiry

\* A write-back whose request was not cut off writes no token older than the
\* stored one: refresh and write-back are one step to other refreshes ("written
\* back under the same cross-process refresh lock this refresh holds").  A
\* sign-in or an import that stores over the account is not held off.
WriteBackNewest ==
  \A w \in Writers :
       (writer[w].pc = "copied" /\ writer[w].by = "refresh" /\ ~writer[w].excused /\ auth' # auth
        /\ writer'[w].pc \in {"ok", "free"})
         => writer[w].gen >= secrets[Codex(writer[w].of)].gen

\* Once everybody is done, an adopted account's auth.json holds the stored
\* token, but for the cases the code lets go: a failed or cut-off write-back,
\* Codex's own writes, an import or sign-in over the account, a refresh while
\* the adoption ran; and the next refresh puts those right again.
Quiet(p) == refresh.who # p /\ cli.who # p
AdoptedIsCurrent ==
  \A p \in People : (adopted[p] # None /\ Quiet(p) /\ p \notin missed) =>
     LET a == auth[adopted[p]] IN a.of = p /\ a.gen = secrets[Codex(p)].gen

\* The tokens in an auth.json are of the account it names, unless the home
\* was signed in to another account: neither adoption nor its write-backs look
\* at whom the file names by the time they write.
OwnTokensOnly == \A h \in Homes : auth[h].of # auth[h].account => h \in switched

\* An account is marked adopted only onto a home that has taken its tokens
\* ("so a failed adopt leaves no marker behind").
MarkedMeansWritten == \A p \in People : adopted[p] # None => adopted[p] \in written[p]

\* A sign-out of Codex, or a file that does not read, is not written over,
\* except in the window between the copy and the rename.
LogoutStays ==
  \A w \in Writers :
       (writer[w].pc = "copied" /\ writer'[w].pc \in {"ok", "free"} /\ auth' # auth
        /\ auth[writer[w].home].is \in {"missing", "unread"})
         => writer[w].overtaken = "copied"

\* Every refresh comes back from its write-back, whoever holds the lock.
WriteBackReturns == (refresh.pc = "await") ~> (refresh.pc = "idle")

\* Neither an import nor a write-back undoes what is newer: a longer sign-in, a
\* later token or a sign-out (import.rs, codex_store.rs).
NewerStays == [][ImportNeverOlder /\ WriteBackNewest /\ LogoutStays]_vars

\* What adopted.json says of an account is so: its home took its tokens, holds
\* the current ones, and no one else's (account.rs).
AdoptionHolds == TypeOK /\ AdoptedIsCurrent /\ OwnTokensOnly /\ MarkedMeansWritten
===============================================================================
