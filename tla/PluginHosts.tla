----------------------------- MODULE PluginHosts -----------------------------
(***************************************************************************)
(* Provider plugins (crates/server/src/plugins): the Node process of a     *)
(* plugin package behind a line-by-line JSON-RPC pipe (host.rs and its     *)
(* other end, plugin-host.js), the cache of hosts that starts one on first *)
(* use and replaces a dead one (managed.rs), and the auth file that server *)
(* and plugin share under a lock file (authstore.rs).                      *)
(*                                                                         *)
(* One package.  A request of the server is a caller: it finds the host,   *)
(* probes it, and makes the calls of its operation.  A stored credential   *)
(* is the number of the command that stored it.                            *)
(***************************************************************************)
EXTENDS Integers, Sequences, FiniteSets

CONSTANTS Callers, Keys,     \* the accounts of the plugin's provider
          Operations,        \* subset of Ops
          MaxHosts,          \* bound: processes started
          MaxCommands,       \* bound: operations begun
          Mishaps,           \* subset of {"die", "cancel", "slow", "refuse", "stall", "corrupt"}
          None

Ops == {"list", "models", "load", "usage", "fetch", "signin", "apikey", "signout", "signoutall", "invalidate"}
Hosts == 1..MaxHosts

ASSUME PluginAssumption ==
  /\ MaxHosts \in Nat \ {0} /\ MaxCommands \in Nat /\ Operations \subseteq Ops
  /\ Mishaps \subseteq {"die", "cancel", "slow", "refuse", "stall", "corrupt"}
  /\ None \notin Callers \cup Keys \cup Int /\ Callers \cap Hosts = {}

VARIABLES
  host,      \* the processes, and the transport in front of each
  cached,    \* ManagedHosts.hosts
  starter,   \* who holds the package's start lock
  models,    \* ManagedHosts.models: the accounts with a list younger than MODELS_TTL
  known,     \* plugin-providers.json: None, or what the package served
  caller,    \* the requests
  file, bak, \* the auth file and its backup
  lock,      \* who created <auth>.lock, None when it is not there
  writer,    \* who is updating the auth file: callers, and hosts in a handler
  count,     \* commands begun so far
  truth,     \* history: the auth entries, had every update been alone
  excused    \* history: the file may differ from truth (see AuthKept)

auths == <<file, bak, lock, writer, truth, excused>>
vars == <<host, cached, starter, models, known, caller, auths, count>>

Before == MaxCommands + 1   \* a credential from an earlier day
Entries == [Keys -> 0..Before]
NoEntries == [k \in Keys |-> 0]
Whole(m) == [is |-> "whole", map |-> m]
Bad == [is |-> "bad", map |-> NoEntries]

NoHost == [child |-> "none", in |-> <<>>, out |-> <<>>, reader |-> "off", gone |-> FALSE,
           pending |-> {}, sessions |-> {}, signins |-> {}, loaders |-> [k \in Keys |-> None],
           dirty |-> {}, given_up |-> FALSE]
Idle == [at |-> "idle", op |-> None, key |-> None, n |-> 0, host |-> None, io |-> "none", got |-> None, asked |-> FALSE]
NoWriter == [pc |-> "off", set |-> {}, value |-> 0, map |-> NoEntries]
Actors == Callers \cup Hosts

Waiting == {"checked", "waiting"}
TypeOK ==
  /\ \A h \in Hosts :
       /\ host[h].child \in {"none", "up", "dead"} /\ host[h].reader \in {"off", "on", "eof", "done"}
       /\ host[h].gone <=> host[h].reader \in {"eof", "done"}
       /\ \A p, q \in host[h].pending : p[1] = q[1] => p = q
       /\ host[h].child # "up" => host[h].in = <<>>
  /\ cached \in Hosts \cup {None} /\ starter \in Callers \cup {None}
  /\ models \subseteq Keys /\ known \in {None, "served", "error"}
  /\ \A c \in Callers :
       /\ caller[c].at \in {"idle", "probe", "lock", "reprobe", "spawn", "init",
                            "call", "ask", "callback", "remove"}
       /\ caller[c].io \in {"none", "ok", "err", "gone"} \cup Waiting
  /\ file \in {Bad} \cup {Whole(m) : m \in Entries} /\ bak \in {None, Bad} \cup {Whole(m) : m \in Entries}
  /\ lock \in Actors \cup {None}
  /\ \A w \in Actors : writer[w].pc \in {"off", "want", "locked", "over", "failed"}
  /\ count \in 0..MaxCommands /\ truth \in Entries

Init ==
  /\ host = [h \in Hosts |-> NoHost] /\ cached = None /\ starter = None /\ models = {} /\ known = None
  /\ caller = [c \in Callers |-> Idle]
  /\ truth = [k \in Keys |-> Before] /\ file = Whole(truth) /\ bak = None /\ lock = None /\ writer = [w \in Actors |-> NoWriter]
  /\ count = 0 /\ excused = FALSE

\* Who keeps a host from being dropped: the cache and the requests that have it.
References(h, cch, cs) == cch = h \/ \E c \in Callers : cs[c].host = h

\* The process ends, and all it knew.
Ended(hst) == [hst EXCEPT !.child = "dead", !.in = <<>>, !.signins = {},
                          !.loaders = [k \in Keys |-> None], !.dirty = {}]

\* Drop for PluginTransport: the last reference gone, the child is killed.
Dropped(hs, cch, cs) ==
  [h \in Hosts |-> IF hs[h].child # "none" /\ ~References(h, cch, cs)
                   THEN [Ended(hs[h]) EXCEPT !.sessions = {}, !.given_up = FALSE] ELSE hs[h]]

\* A host killed inside an update of the auth file leaves its lock behind.
Killed(hs) == [w \in Actors |-> IF w \in Hosts /\ hs[w].child = "dead" THEN NoWriter ELSE writer[w]]

\* The request is over: what it holds goes, its answer or error is the client's.
Returns(c, hs, cch) ==
  /\ caller' = [caller EXCEPT ![c] = Idle]
  /\ starter' = IF starter = c THEN None ELSE starter
  /\ host' = Dropped(hs, cch, caller')
  /\ writer' = [Killed(host') EXCEPT ![c] = NoWriter]

Goes(c, at) == caller' = [caller EXCEPT ![c].at = at, ![c].io = "none", ![c].got = None]
\* The request goes on with a call on h, which looks whether the reader is done.
Calling(cl, at, h) == [cl EXCEPT !.at = at, !.host = h, !.got = None,
                                 !.io = IF host[h].gone THEN "gone" ELSE "checked"]
Calls(c, at, h) == caller' = [caller EXCEPT ![c] = Calling(@, at, h)]

(***************************************************************************)
(* PluginTransport::call: look whether the reader is done, register the    *)
(* waiter and write the line, wait.                                        *)
(***************************************************************************)
Tag(c) == <<c, caller[c].n, caller[c].at>>

\* Mutant: the id is one more than the calls in flight.
InFlightId(h) == Cardinality(host[h].pending) + 1
\* next_id never repeats; a number no call that is not over has says as much.
NextId(h) ==
  LET busy == {p[1] : p \in host[h].pending} \cup {host[h].in[i].id : i \in DOMAIN host[h].in}
                \cup {host[h].out[i].id : i \in DOMAIN host[h].out}
  IN  CHOOSE n \in 1..(Cardinality(busy) + 1) : n \notin busy

\* The pipe of a dead child refuses the line, and the waiter is taken back.
CallWrites(c) ==
  LET h == caller[c].host id == NextId(h) IN
  /\ caller[c].io = "checked"
  /\ IF host[h].child = "up"
     THEN /\ host' = [host EXCEPT ![h].pending = {p \in @ : p[1] # id} \cup {<<id, Tag(c)>>},
                                  ![h].in = Append(@, [id |-> id, for |-> Tag(c), op |-> caller[c].op,
                                                       at |-> caller[c].at, key |-> caller[c].key])]
          /\ caller' = [caller EXCEPT ![c].io = "waiting"]
     ELSE caller' = [caller EXCEPT ![c].io = "gone"] /\ UNCHANGED host
  /\ UNCHANGED <<cached, starter, models, known, auths, count>>

(***************************************************************************)
(* The reader thread.                                                      *)
(***************************************************************************)
\* dispatch_response: matched by id; an abandoned one is dropped.
dispatch_response(h) ==
  LET r == Head(host[h].out)
      found == {p \in host[h].pending : p[1] = r.id}
      to == {c \in Callers : \E p \in found : caller[c].io = "waiting" /\ caller[c].host = h /\ Tag(c) = p[2]}
  IN /\ host[h].reader = "on" /\ host[h].out # <<>>
     /\ host' = [host EXCEPT ![h].out = Tail(@), ![h].pending = @ \ found]
     /\ caller' = [c \in Callers |-> IF c \in to THEN [caller[c] EXCEPT !.io = r.result, !.got = r.for]
                                     ELSE caller[c]]
     /\ UNCHANGED <<cached, starter, models, known, auths, count>>

\* End of the child's output: no further call is taken ...
ReaderEnds(h) ==
  /\ host[h].reader = "on" /\ host[h].child = "dead" /\ host[h].out = <<>>
  /\ host' = [host EXCEPT ![h].reader = "eof", ![h].gone = TRUE]
  /\ UNCHANGED <<cached, starter, models, known, caller, auths, count>>

\* Mutant: the waiters are left to the reader's drop.
LeavesWaiters(h) ==
  /\ host[h].reader = "eof"
  /\ host' = [host EXCEPT ![h].reader = "done"]
  /\ UNCHANGED <<cached, starter, models, known, caller, auths, count>>
\* ... and the ones that wait are told.
ReaderClears(h) ==
  /\ host[h].reader = "eof"
  /\ host' = [host EXCEPT ![h].reader = "done", ![h].pending = {}]
  /\ caller' = [c \in Callers |-> IF caller[c].io = "waiting" /\ \E p \in host[h].pending : p[2] = Tag(c)
                                  THEN [caller[c] EXCEPT !.io = "gone"] ELSE caller[c]]
  /\ UNCHANGED <<cached, starter, models, known, auths, count>>

(***************************************************************************)
(* ManagedHosts::host_for and the operations on the host it finds.         *)
(***************************************************************************)

\* host_for's first look: a cached host is probed, before any lock.
host_for(cl) == IF cached # None THEN Calling(cl, "probe", cached) ELSE [cl EXCEPT !.at = "lock"]

\* A fresh model list, or a package read before, needs no host.
Begin(c, op, k) ==
  /\ caller[c].at = "idle" /\ count < MaxCommands
  /\ op \in {"load", "usage", "fetch", "signin", "apikey", "signout"} \cup {"models", "list", "signoutall"}
  /\ op = "models" => k \notin models
  /\ op = "list" => known = None
  /\ count' = count + 1
  /\ caller' = [caller EXCEPT ![c] = host_for([Idle EXCEPT !.op = op, !.key = k, !.n = count + 1])]
  /\ UNCHANGED <<host, cached, starter, models, known, auths>>

\* What a package serves, or why it does not load, goes to its file against
\* the stamp of its directory.  Best effort: a write that fails is not noticed.
remember(what) == known' \in {known, what}

\* The host is found and asked for what the request is about; what it serves
\* it said when it started.
Uses(c, h, cch) ==
  IF caller[c].op = "list"
  THEN Returns(c, host, cch) /\ remember("served")
  ELSE /\ Calls(c, "call", h)
       /\ starter' = IF starter = c THEN None ELSE starter
       /\ UNCHANGED <<host, writer, known>>

\* host_is_alive: any answer to load but an error.
Probed(c) ==
  /\ caller[c].at = "probe" /\ caller[c].io \in {"ok", "err", "gone"}
  /\ IF caller[c].io = "ok" THEN Uses(c, caller[c].host, cached)
     ELSE /\ UNCHANGED <<starter, known>>
          /\ caller' = [caller EXCEPT ![c].at = "lock", ![c].io = "none", ![c].host = None, ![c].got = None]
          /\ host' = Dropped(host, cached, caller') /\ writer' = Killed(host')
  /\ UNCHANGED <<cached, models, file, bak, lock, truth, excused, count>>

\* Mutant: starting is not held to one at a time.
StartsAnyway(c) ==
  /\ caller[c].at = "lock"
  /\ IF cached # None THEN Calls(c, "reprobe", cached) ELSE Goes(c, "spawn")
  /\ UNCHANGED <<host, cached, starter, models, known, auths, count>>
\* One start per package at a time, and a second look under its lock.
StartLock(c) ==
  /\ caller[c].at = "lock" /\ starter = None
  /\ starter' = c
  /\ IF cached # None THEN Calls(c, "reprobe", cached) ELSE Goes(c, "spawn")
  /\ UNCHANGED <<host, cached, models, known, auths, count>>

Reprobed(c) ==
  /\ caller[c].at = "reprobe" /\ caller[c].io \in {"ok", "err", "gone"}
  /\ IF caller[c].io = "ok"
     THEN Uses(c, caller[c].host, cached) /\ UNCHANGED cached
     ELSE /\ cached' = None
          /\ caller' = [caller EXCEPT ![c].at = "spawn", ![c].io = "none", ![c].host = None, ![c].got = None]
          /\ host' = Dropped([host EXCEPT ![caller[c].host].given_up = TRUE], None, caller')
          /\ writer' = Killed(host')
          /\ UNCHANGED <<starter, known>>
  /\ UNCHANGED <<models, file, bak, lock, truth, excused, count>>

\* Only a listing remembers why the package did not load.
Remembers(c, what) == IF caller[c].op = "list" THEN remember(what) ELSE UNCHANGED known

\* HostedPlugin::start: the process, and its init handshake.
SpawnHost(c) ==
  /\ caller[c].at = "spawn"
  /\ \E h \in Hosts :
       /\ host[h].child = "none" /\ \A g \in Hosts : g < h => host[g].child # "none"
       /\ host' = [host EXCEPT ![h].child = "up", ![h].reader = "on"]
       /\ Calls(c, "init", h)
  /\ UNCHANGED <<cached, starter, models, known, auths, count>>
SpawnFails(c) ==
  /\ caller[c].at = "spawn" /\ "refuse" \in Mishaps
  /\ Returns(c, host, cached)
  /\ Remembers(c, "error")
  /\ UNCHANGED <<cached, models, file, bak, lock, truth, excused, count>>

Started(c) ==
  /\ caller[c].at = "init" /\ caller[c].io = "ok"
  /\ cached' = caller[c].host
  /\ Uses(c, caller[c].host, cached')
  /\ UNCHANGED <<models, file, bak, lock, truth, excused, count>>

\* try_shutdown after a refused, failed or late handshake: nobody else has the host.
try_shutdown(h) ==
  [host EXCEPT ![h] = [Ended(@) EXCEPT !.out = <<>>, !.reader = "done", !.gone = TRUE, !.pending = {}]]
StartFails(c) ==
  /\ caller[c].at = "init"
  /\ caller[c].io \in {"err", "gone"} \/ ("slow" \in Mishaps /\ caller[c].io \in Waiting)
  /\ Returns(c, try_shutdown(caller[c].host), cached)
  /\ Remembers(c, "error")
  /\ UNCHANGED <<cached, models, file, bak, lock, truth, excused, count>>

Failed(c) ==
  /\ caller[c].at = "call" /\ caller[c].io \in {"err", "gone"}
  /\ Returns(c, host, cached)
  /\ UNCHANGED <<cached, models, known, file, bak, lock, truth, excused, count>>

Answered(c) ==
  LET h == caller[c].host IN
  /\ caller[c].at = "call" /\ caller[c].io = "ok"
  /\ CASE caller[c].op = "signin" ->
            /\ host' = [host EXCEPT ![h].sessions = @ \cup {caller[c].n}]
            /\ Goes(c, "ask") /\ UNCHANGED <<starter, writer, models>>
       [] caller[c].op \in {"signout", "signoutall"} ->
            /\ Goes(c, "remove")
            /\ writer' = [writer EXCEPT ![c] = [NoWriter EXCEPT !.pc = "want",
                            !.set = IF caller[c].op = "signout" THEN {caller[c].key} ELSE Keys]]
            /\ UNCHANGED <<host, starter, models>>
       [] caller[c].op = "models" -> models' = models \cup {caller[c].key} /\ Returns(c, host, cached)
       [] OTHER -> Returns(c, host, cached) /\ UNCHANGED models
  /\ UNCHANGED <<cached, known, file, bak, lock, truth, excused, count>>

\* callback: the session is taken, whatever becomes of the call.
callback(c) ==
  LET h == caller[c].host IN
  /\ caller[c].at = "ask"
  /\ IF caller[c].n \in host[h].sessions
     THEN /\ host' = [host EXCEPT ![h].sessions = @ \ {caller[c].n}]
          /\ Calls(c, "callback", h) /\ UNCHANGED <<starter, writer>>
     ELSE Returns(c, host, cached)
  /\ UNCHANGED <<cached, models, known, file, bak, lock, truth, excused, count>>

\* Refused, a sign-in that waits asks again once, inside its first minute.
CallbackAnswered(c) ==
  /\ caller[c].at = "callback" /\ caller[c].io \in {"ok", "err", "gone"}
  /\ IF caller[c].io = "err" /\ ~caller[c].asked
     THEN /\ caller' = [caller EXCEPT ![c].at = "ask", ![c].io = "none", ![c].got = None, ![c].asked = TRUE]
          /\ UNCHANGED <<host, starter, writer>>
     ELSE Returns(c, host, cached)
  /\ UNCHANGED <<cached, models, known, file, bak, lock, truth, excused, count>>

\* sign_out removes again what the plugin removed already.
SignedOut(c) ==
  /\ caller[c].at = "remove" /\ writer[c].pc \in {"over", "failed"}
  /\ Returns(c, host, cached)
  /\ UNCHANGED <<cached, models, known, file, bak, lock, truth, excused, count>>

invalidate(k) ==
  /\ count < MaxCommands /\ models # {}
  /\ count' = count + 1
  /\ models' = IF k = None THEN {} ELSE models \ {k}
  /\ UNCHANGED <<host, cached, starter, known, caller, auths>>
ModelsExpire(k) ==
  /\ k \in models /\ models' = models \ {k}
  /\ UNCHANGED <<host, cached, starter, known, caller, auths, count>>

(***************************************************************************)
(* plugin-host.js: one request after the other, in the order of the lines.  *)
(***************************************************************************)
Handling(h) == host[h].child = "up" /\ host[h].in # <<>>
Request(h) == Head(host[h].in)

\* What a handler is asked to do: its call's, load for a probe.
Method(r) == CASE r.at = "init" -> "init" [] r.at \in {"probe", "reprobe"} -> "probe"
               [] r.at = "callback" -> "callback" [] OTHER -> r.op
Updates(r) == Method(r) \in {"callback", "apikey", "signout", "signoutall"}
UpdatedKeys(r) == IF Method(r) = "signoutall" THEN Keys ELSE {r.key}

\* The plugin's own part is over and the auth file is next.
HandlerStores(h) ==
  LET r == Request(h) IN
  /\ Handling(h) /\ Updates(r) /\ writer[h].pc = "off"
  /\ Method(r) = "callback" => r.for[2] \in host[h].signins
  /\ writer' = [writer EXCEPT ![h] = [NoWriter EXCEPT !.pc = "want", !.set = UpdatedKeys(r),
                  !.value = IF Method(r) \in {"callback", "apikey"} THEN r.for[2] ELSE 0]]
  /\ UNCHANGED <<host, cached, starter, models, known, caller, file, bak, lock, truth, excused, count>>

Reply(h, hst, result) ==
  [hst EXCEPT !.in = Tail(@), !.out = Append(@, [id |-> Request(h).id, for |-> Request(h).for, result |-> result])]

\* clearLoaderCache
ClearsLoader(r) == IF Method(r) \in {"apikey", "signout", "signoutall"} THEN UpdatedKeys(r) ELSE {}

\* The loader runs once per account, on what the auth file says then; a file
\* that does not read says nothing, and what it hid is not known either.
Loaded(hst, k) ==
  IF hst.loaders[k] # None THEN hst
  ELSE [hst EXCEPT !.loaders[k] = IF file.is = "whole" THEN file.map[k] ELSE 0,
                   !.dirty = IF file.is = "whole" THEN @ \ {k} ELSE @ \cup {k}]

HandlerAnswers(h) ==
  LET hst == host[h] r == Request(h) m == Method(r) IN
  /\ Handling(h) /\ (Updates(r) => writer[h].pc = "over")
  /\ host' = [host EXCEPT ![h] =
       CASE m = "load" -> Reply(h, Loaded(hst, r.key), "ok")
         [] m = "signin" -> Reply(h, [hst EXCEPT !.signins = @ \cup {r.for[2]}], "ok")
         [] m = "callback" -> Reply(h, [hst EXCEPT !.signins = @ \ {r.for[2]}], "ok")
         [] Updates(r) /\ m # "callback" ->
              Reply(h, [hst EXCEPT !.loaders = [k \in Keys |-> IF k \in ClearsLoader(r) THEN None ELSE @[k]],
                                   !.dirty = @ \ ClearsLoader(r)], "ok")
         [] OTHER -> Reply(h, hst, "ok")]
  /\ writer' = [writer EXCEPT ![h] = NoWriter]
  /\ UNCHANGED <<cached, starter, models, known, caller, file, bak, lock, truth, excused, count>>

\* A hook that throws, a code refused, a lock not got in time, a sign-in unknown.
HandlerFails(h) ==
  LET r == Request(h) IN
  /\ Handling(h) /\ writer[h].pc \in {"off", "failed"}
  /\ \/ "refuse" \in Mishaps \/ writer[h].pc = "failed"
     \/ Method(r) = "callback" /\ r.for[2] \notin host[h].signins
  /\ host' = [host EXCEPT ![h] = Reply(h, @, "err")]
  /\ writer' = [writer EXCEPT ![h] = NoWriter]
  /\ UNCHANGED <<cached, starter, models, known, caller, file, bak, lock, truth, excused, count>>

(***************************************************************************)
(* The auth file: with_lock and withAuthLock, load or readAuthFile, save   *)
(* or writeAuthFile, and the lock file is removed, whoever's it is.        *)
(***************************************************************************)
rest == <<host, cached, starter, models, known, caller, count>>

\* The server falls back on the backup, the plugin on nothing.
load(w) == CASE file.is = "whole" -> file.map
             [] file.is = "bad" /\ w \in Hosts -> NoEntries
             [] OTHER -> bak.map
Loads(w) == file.is = "whole" \/ w \in Hosts \/ (bak # None /\ bak.is = "whole")

\* Mutant: the lock file is not asked for.
Unlocked(w) ==
  /\ writer[w].pc = "want"
  /\ lock' = w
  /\ writer' = [writer EXCEPT ![w].pc = "locked", ![w].map = load(w)]
  /\ UNCHANGED <<rest, file, bak, truth, excused>>
\* The lock file is created, and the map read.
with_lock(w) ==
  /\ writer[w].pc = "want" /\ lock = None
  /\ IF Loads(w)
     THEN /\ lock' = w
          /\ writer' = [writer EXCEPT ![w].pc = "locked", ![w].map = load(w)]
          /\ excused' = (excused \/ file.is = "bad")
     ELSE /\ writer' = [writer EXCEPT ![w].pc = "failed"]
          /\ UNCHANGED <<lock, excused>>
  /\ UNCHANGED <<rest, file, bak, truth>>

InLock(w) == writer[w].pc = "locked"

\* A lock file a minute old is taken away, were its owner alive or not.
TakesOver(w) ==
  /\ writer[w].pc = "want" /\ lock # None
  /\ ~InLock(lock) \/ "stall" \in Mishaps
  /\ lock' = None
  /\ excused' = (excused \/ InLock(lock))
  /\ UNCHANGED <<rest, file, bak, writer, truth>>

\* The plugin's side waits ten seconds, the server's as long as it takes.
LockTimesOut(w) ==
  /\ w \in Hosts /\ "slow" \in Mishaps /\ writer[w].pc = "want" /\ lock # None
  /\ writer' = [writer EXCEPT ![w].pc = "failed"]
  /\ UNCHANGED <<rest, file, bak, lock, truth, excused>>

\* The hosts' cached options of the keys written are old, unless the writer's
\* own handler is about to drop them.
Dirtied(w) ==
  [h \in Hosts |-> IF h = w /\ Method(Request(h)) # "callback" THEN host[h]
                   ELSE [host[h] EXCEPT !.dirty = @ \cup {k \in writer[w].set : host[h].loaders[k] # None}]]
Applied(m, w) == [k \in Keys |-> IF k \in writer[w].set THEN writer[w].value ELSE m[k]]

\* Nothing to remove is nothing to write, on the server's side; the lock file
\* goes, whoever's it is by now.
save(w) ==
  /\ writer[w].pc = "locked"
  /\ truth' = Applied(truth, w)
  /\ IF w \in Callers /\ \A k \in writer[w].set : writer[w].map[k] = 0
     THEN UNCHANGED <<file, bak, host>>
     ELSE bak' = file /\ file' = Whole(Applied(writer[w].map, w)) /\ host' = Dirtied(w)
  /\ writer' = [writer EXCEPT ![w] = [NoWriter EXCEPT !.pc = "over"]]
  /\ lock' = None
  /\ UNCHANGED <<cached, starter, models, known, caller, count, excused>>

(***************************************************************************)
(* What goes wrong.                                                        *)
(***************************************************************************)
Dies(h) ==
  /\ "die" \in Mishaps /\ host[h].child = "up"
  /\ host' = Dropped([host EXCEPT ![h] = Ended(@)], cached, caller)
  /\ writer' = [writer EXCEPT ![h] = NoWriter]
  /\ UNCHANGED <<cached, starter, models, known, caller, file, bak, lock, truth, excused, count>>

\* The client goes away at an await: references, start lock and receiver go.
Cancelled(c) ==
  /\ "cancel" \in Mishaps
  /\ caller[c].io = "waiting" \/ caller[c].at = "lock"
  /\ Returns(c, host, cached)
  /\ UNCHANGED <<cached, models, known, file, bak, lock, truth, excused, count>>

Corrupts ==
  /\ "corrupt" \in Mishaps /\ file.is = "whole" /\ bak # None /\ ~excused
  /\ file' = Bad
  /\ UNCHANGED <<rest, bak, lock, writer, truth, excused>>

HostSteps(c) == Probed(c) \/ StartLock(c) \/ Reprobed(c)
                \/ SpawnHost(c) \/ SpawnFails(c) \/ Started(c) \/ StartFails(c)
UseSteps(c) == Failed(c) \/ Answered(c) \/ callback(c) \/ CallbackAnswered(c) \/ SignedOut(c)
Requests(c) == CallWrites(c) \/ HostSteps(c) \/ UseSteps(c)
Reads(h) == dispatch_response(h) \/ ReaderEnds(h) \/ ReaderClears(h)
Handles(h) == HandlerStores(h) \/ HandlerAnswers(h) \/ HandlerFails(h)
Stores(w) == with_lock(w) \/ TakesOver(w) \/ LockTimesOut(w) \/ save(w)

Next ==
  \/ \E c \in Callers : Requests(c) \/ Cancelled(c)
  \/ \E c \in Callers, op \in Operations \ {"invalidate"}, k \in Keys : Begin(c, op, k)
  \/ \E h \in Hosts : Reads(h) \/ Handles(h) \/ Dies(h)
  \/ \E w \in Actors : Stores(w)
  \/ \E k \in Keys \cup {None} : "invalidate" \in Operations /\ invalidate(k)
  \/ \E k \in Keys : ModelsExpire(k)
  \/ Corrupts

Spec == Init /\ [][Next]_vars

(***************************************************************************)
(* Properties.                                                             *)
(***************************************************************************)

\* Nobody waits on a pipe that is read no more, whether it looked before the
\* reader was done or after ("resolves early ... if the plugin process dies").
DeadHostFreesCallers ==
  \A c \in Callers : caller[c].io = "waiting" => host[caller[c].host].reader # "done"

\* An answer reaches the call it was given for, also when calls before it
\* were abandoned ("a plugin may reply in any order").
OwnReply == \A c \in Callers : caller[c].io \in {"ok", "err"} => caller[c].got = Tag(c)

\* Two processes of a package run only when a probe has given one up
\* ("Starting is single-flight per spec").
OneProcess ==
  \A g, h \in Hosts : (g < h /\ host[g].child = "up" /\ host[h].child = "up") => host[g].given_up

\* A process nobody has a reference to does not run ("a process nobody shut down").
NoProcessLeftBehind == \A h \in Hosts : host[h].child = "up" => References(h, cached, caller)

\* Server and plugin never lose each other's update of the auth file, except
\* to a lock taken over from a living owner and after a file that did not read.
AuthKept == (~excused /\ file.is = "whole" /\ \A w \in Actors : ~InLock(w)) => file.map = truth

\* After a sign-out or an API key through it, a host does not answer load with
\* options of the credential before ("dropped by init, apiKey, and signOut"),
\* except where an update rewrote a file that did not read.
LoaderFollowsSignOut ==
  \A h \in Hosts, k \in Keys :
    (~excused /\ host[h].child = "up" /\ ~Handling(h) /\ k \notin host[h].dirty /\ host[h].loaders[k] # None
     /\ file.is = "whole" /\ \A w \in Actors : ~InLock(w))
      => host[h].loaders[k] = file.map[k]

\* The manager has one process of a package, and none it has forgotten
\* (managed.rs).
ProcessesAgree == TypeOK /\ OneProcess /\ NoProcessLeftBehind

\* Server, plugin and the plugin's cached options follow one auth file.
AuthIsOne == AuthKept /\ LoaderFollowsSignOut
===============================================================================
