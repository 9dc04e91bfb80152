----------------------------- MODULE SignInTasks -----------------------------
(***************************************************************************)
(* Sign-ins as tasks (crates/server/src/signin_task.rs): the registry, the *)
(* background driver of each task, and the requests that poll, paste into  *)
(* and cancel it, over the vendors' flows (SignInFlows).                   *)
(*                                                                         *)
(* A driver runs from one await to the next in one poll, so an abort lands *)
(* only where it is suspended.  Other threads take the registry's lock     *)
(* between any two of its critical sections, which are the steps here.     *)
(* What Rust's ownership closes is derived: a listener still held by the   *)
(* sign-in is open while anything holds the sign-in.                       *)
(***************************************************************************)
EXTENDS SignInFlows, Naturals

CONSTANTS Tasks, Clients,
          KindsOf,   \* the assignments of providers to tasks to look at
          Pastes,    \* inputs users and browsers send
          Answers,   \* replies vendors give
          MaxSpent,  \* bound: a task whose flow has spent this many codes gets no further paste
          Mishaps,   \* subset of {"disk", "drop", "shutdown"}
          Idle       \* a request slot with no task

ASSUME SignInAssumption ==
  /\ KindsOf \subseteq [Tasks -> Providers]
  /\ MaxSpent \in Nat
  /\ Pastes \subseteq Inputs /\ Pastes # {} /\ Answers \subseteq Replies
  /\ Mishaps \subseteq {"disk", "drop", "shutdown"}
  /\ Idle \notin Tasks

VARIABLES
  kind,      \* each task's provider
  phase,     \* "new", "spawned" (not yet inserted), "in" the registry, "gone"
  state,     \* SignInTask::state
  handle,    \* TaskHandle::background is Some
  finished,  \* finished_at: "no", "fresh", or "old" (past FINISHED_TTL)
  session,   \* the PKCE session: "none", "live", "taken"
  listener,  \* the loopback listener: "none", "held", "serving", "closing", "closed"
  cli,       \* Claude's CLI: how it came up, or "none", "exited", "failed", "killed"
  slot,      \* ClaudeSignIn::running is Some
  bg,        \* where the background driver is
  mail,      \* what the callback server sent the driver
  result,    \* what the driver will report
  late,      \* the driver's deadline has passed
  aborting,  \* JoinHandle::abort was called
  req,       \* the submit each client is in
  kept,      \* history: whose credential this task's flow stored
  exchanges, \* history: how many codes went to the vendor, and whether all were this sign-in's
  orphaned,  \* history: a submit was dropped after it had taken the driver
  early      \* history: the driver reported before its task was inserted

flow == <<session, listener, cli, slot, mail>>
entry == <<phase, state, handle, finished>>
history == <<kept, exchanges, orphaned, early>>
vars == <<kind, entry, flow, bg, result, late, aborting, req, history>>

Request == [pc : {"idle", "join", "finish", "exchange", "report", "mark", "answer", "cli", "plugin"},
            task : Tasks \cup {Idle}, input : Pastes, result : {"none", "done", "failed"}]
NoRequest == [pc |-> "idle", task |-> Idle, input |-> CHOOSE i \in Pastes : TRUE,
              result |-> "none"]

Suspended == {"ready", "device", "wait", "exchange", "sleep", "restart"}
Running == Suspended \cup {"report", "mark"}

TypeOK ==
  /\ kind \in [Tasks -> Providers]
  /\ phase \in [Tasks -> {"new", "spawned", "in", "gone"}]
  /\ state \in [Tasks -> {"waiting", "done", "failed"}]
  /\ handle \in [Tasks -> BOOLEAN]
  /\ finished \in [Tasks -> {"no", "fresh", "old"}]
  /\ session \in [Tasks -> {"none", "live", "taken"}]
  /\ listener \in [Tasks -> {"none", "held", "serving", "closing", "closed"}]
  /\ cli \in [Tasks -> ClaudeStarts \cup {"none", "exited", "failed", "killed"}]
  /\ slot \in [Tasks -> BOOLEAN]
  /\ bg \in [Tasks -> Running \cup {"none", "ended", "aborted"}]
  /\ mail \in [Tasks -> SUBSET Pastes]
  /\ result \in [Tasks -> {"none", "done", "failed"}]
  /\ late \in [Tasks -> BOOLEAN] /\ aborting \in [Tasks -> BOOLEAN]
  /\ req \in [Clients -> Request]
  /\ kept \in [Tasks -> {"none", "own", "foreign"}]
  /\ exchanges \in [Tasks -> [times : Nat, own : BOOLEAN]]
  /\ orphaned \in [Tasks -> BOOLEAN] /\ early \in [Tasks -> BOOLEAN]

Init ==
  /\ kind \in KindsOf
  /\ phase = [t \in Tasks |-> "new"] /\ state = [t \in Tasks |-> "waiting"]
  /\ handle = [t \in Tasks |-> FALSE] /\ finished = [t \in Tasks |-> "no"]
  /\ session = [t \in Tasks |-> "none"] /\ listener = [t \in Tasks |-> "none"]
  /\ cli = [t \in Tasks |-> "none"] /\ slot = [t \in Tasks |-> FALSE]
  /\ bg = [t \in Tasks |-> "none"] /\ mail = [t \in Tasks |-> {}]
  /\ result = [t \in Tasks |-> "none"] /\ aborting = [t \in Tasks |-> FALSE]
  /\ late = [t \in Tasks |-> FALSE]
  /\ req = [c \in Clients |-> NoRequest]
  /\ kept = [t \in Tasks |-> "none"]
  /\ exchanges = [t \in Tasks |-> [times |-> 0, own |-> TRUE]]
  /\ orphaned = [t \in Tasks |-> FALSE] /\ early = [t \in Tasks |-> FALSE]

Abortable(t) == bg[t] \in Suspended

\* Who still owns the sign-in object, and with it what it holds.
Held(t) == \/ phase[t] \in {"spawned", "in"}
           \/ bg[t] \in Running
           \/ \E c \in Clients : req[c].task = t
ListenerOpen(t) == listener[t] = "serving" \/ (listener[t] = "held" /\ Held(t))
CliRuns(t) == cli[t] \in {"opened", "printed"} /\ (slot[t] => Held(t))

(***************************************************************************)
(* Starting a task.                                                        *)
(***************************************************************************)
Prepare(t, f) ==
  /\ phase[t] = "new" /\ kind[t] \in f
  /\ phase' = [phase EXCEPT ![t] = "spawned"]
  /\ UNCHANGED <<kind, state, handle, finished, mail, result, late, aborting, req, history>>

\* GeminiSignIn::start: a PKCE session with a listener on a free port.
GeminiStart(t) ==
  /\ session' = [session EXCEPT ![t] = "live"]
  /\ listener' = [listener EXCEPT ![t] = "held"]

start_google(t) ==
  /\ Prepare(t, Google)
  /\ GeminiStart(t)
  /\ bg' = [bg EXCEPT ![t] = "ready"]
  /\ UNCHANGED <<cli, slot>>

\* Port 1455 may belong to another task or, after ten tries, to another program.
take_port(t) == \A u \in Tasks \ {t} : ~(kind[u] = "codex" /\ ListenerOpen(u))

\* CodexSignIn::start: a busy port leaves a session that only a paste finishes.
CodexStart(t, bound) ==
  /\ bound => take_port(t)
  /\ session' = [session EXCEPT ![t] = "live"]
  /\ listener' = IF bound THEN [listener EXCEPT ![t] = "held"] ELSE listener

start_codex(t) ==
  /\ Prepare(t, {"codex"})
  /\ \E bound \in BOOLEAN :
       /\ CodexStart(t, bound)
       /\ bg' = IF bound THEN [bg EXCEPT ![t] = "ready"] ELSE bg
  /\ UNCHANGED <<cli, slot>>

start_copilot(t) ==
  /\ Prepare(t, {"copilot"})
  /\ bg' = [bg EXCEPT ![t] = "ready"]
  /\ UNCHANGED <<session, listener, cli, slot>>

\* SiwcSignIn::start: its bind only asks for a port number and drops the
\* listener, so nothing listens and submit has to finish the flow.
SiwcStart(t) == session' = [session EXCEPT ![t] = "live"] /\ UNCHANGED listener

start_siwc(t) ==
  /\ Prepare(t, {"chatgpt-api"})
  /\ SiwcStart(t)
  /\ UNCHANGED <<cli, slot, bg>>

\* "code" waits for a paste; "auto" is driven in the background.
start_plugin(t) ==
  /\ Prepare(t, {"plugin", "plugin-auto"})
  /\ bg' = IF kind[t] = "plugin" THEN bg ELSE [bg EXCEPT ![t] = "ready"]
  /\ UNCHANGED <<session, listener, cli, slot>>

\* ClaudeSignIn::start: the CLI is in its slot and came up with a link.
ClaudeStart(t, how) ==
  /\ how \in {"opened", "printed"}
  /\ cli' = [cli EXCEPT ![t] = how]
  /\ slot' = [slot EXCEPT ![t] = TRUE]

start_claude(t, how) ==
  /\ Prepare(t, {"claude"})
  /\ ClaudeStart(t, how)
  /\ bg' = [bg EXCEPT ![t] = "ready"]
  /\ UNCHANGED <<session, listener>>

\* A CLI that died or gave no link fails the start; Running's drop kills it.
settle_dead_start(t, how) ==
  /\ phase[t] = "new" /\ kind[t] = "claude" /\ how \in {"dead", "silent"}
  /\ phase' = [phase EXCEPT ![t] = "gone"]
  /\ cli' = [cli EXCEPT ![t] = "killed"]
  /\ UNCHANGED <<kind, state, handle, finished, session, listener, slot, bg, mail, result,
                 late, aborting, req, history>>

\* Entries past FINISHED_TTL leave the map whenever somebody looks or inserts.
Pruned(p) == [t \in Tasks |-> IF p[t] = "in" /\ finished[t] = "old" THEN "gone" ELSE p[t]]

\* The insert is the start's last step; the driver may have run before it.
Insert(t) ==
  /\ phase[t] = "spawned"
  /\ phase' = [Pruned(phase) EXCEPT ![t] = "in"]
  /\ handle' = [handle EXCEPT ![t] = bg[t] # "none"]
  /\ UNCHANGED <<kind, state, finished, flow, bg, result, late, aborting, req, history>>

(***************************************************************************)
(* The background driver.                                                  *)
(***************************************************************************)
Goes(t, to) == bg' = [bg EXCEPT ![t] = to]
Reports(t, r) == Goes(t, "report") /\ result' = [result EXCEPT ![t] = r]

\* wait, wait_inner: the listener is taken from the session and served.
ServeCallback(t) ==
  /\ bg[t] = "ready" /\ kind[t] \in Pkce
  /\ IF session[t] = "live" /\ listener[t] = "held"
     THEN /\ listener' = [listener EXCEPT ![t] = "serving"]
          /\ Goes(t, "wait") /\ UNCHANGED result
     ELSE Reports(t, "failed") /\ UNCHANGED listener
  /\ UNCHANGED <<kind, entry, session, cli, slot, mail, late, aborting, req, history>>

\* A browser (or anything else on this machine) comes to the loopback address.
Callback(t, i) ==
  /\ listener[t] = "serving" /\ mail[t] = {} /\ i.form = "address"
  /\ classify_callback(i) # "mismatch"
  /\ mail' = [mail EXCEPT ![t] = {i}]
  /\ UNCHANGED <<kind, entry, session, listener, cli, slot, bg, result, late, aborting, req, history>>

\* Mutant: the server is not told to shut down.
KeepsServing(t) == UNCHANGED listener
StopServing(t) ==
  listener' = [listener EXCEPT ![t] = IF @ = "serving" THEN "closing" ELSE @]

Spend(t, i) ==
  exchanges' = [exchanges EXCEPT ![t] = [times |-> @.times + 1, own |-> @.own /\ i.own /\ ~i.error]]

\* The driver wakes: on a code it takes the session and exchanges it.
Woken(t) ==
  /\ bg[t] = "wait" /\ kind[t] \in Pkce
  /\ StopServing(t)
  /\ \E i \in mail[t] :
       IF classify_callback(i) = "success" /\ session[t] = "live"
       THEN /\ session' = [session EXCEPT ![t] = "taken"]
            /\ Spend(t, i)
            /\ Goes(t, "exchange") /\ UNCHANGED result
       ELSE Reports(t, "failed") /\ UNCHANGED <<session, exchanges>>
  /\ mail' = [mail EXCEPT ![t] = {}]
  /\ UNCHANGED <<kind, entry, cli, slot, late, aborting, req, kept, orphaned, early>>

\* DEFAULT_SIGN_IN_TIMEOUT; Claude's CLI is killed on the way out.
TimesOut(t) ==
  /\ bg[t] = "wait" /\ late[t] /\ kind[t] # "plugin-auto"
  /\ mail[t] = {} /\ cli[t] \notin {"exited", "failed"}
  /\ StopServing(t)
  /\ cli' = [cli EXCEPT ![t] = IF kind[t] = "claude" THEN "killed" ELSE @]
  /\ Reports(t, "failed")
  /\ UNCHANGED <<kind, entry, session, slot, mail, late, aborting, req, history>>

\* axum's graceful shutdown, after the driver signalled it or was dropped.
ServerStops(t) ==
  /\ listener[t] = "closing"
  /\ listener' = [listener EXCEPT ![t] = "closed"]
  /\ UNCHANGED <<kind, entry, session, cli, slot, mail, bg, result, late, aborting, req, history>>

Complete(k, r) == CASE k \in Google -> GoogleComplete(r)
                    [] k = "codex" -> CodexComplete(r)
                    [] k = "chatgpt-api" -> SiwcComplete(r)
                    [] k = "claude" -> CollectAccount(r)
                    [] OTHER -> TRUE

\* settle_google, settle_codex, settle_siwc, settle_copilot, settle_claude:
\* the credential is stored, and only then is the flow done.
Named(k, r) == IF k = "copilot" THEN "own" ELSE r.names
StoreFails == "disk" \in Mishaps
\* Mutant: a credential that could not be stored is reported as a success.
SettlesAnyway(t, r, res) ==
  /\ res = IF Complete(kind[t], r) THEN "done" ELSE "failed"
  /\ UNCHANGED kept \/ (res = "done" /\ kept' = [kept EXCEPT ![t] = Named(kind[t], r)])

Settles(t, r, res) ==
  \/ /\ Complete(kind[t], r)
     /\ kept' = [kept EXCEPT ![t] = Named(kind[t], r)]
     /\ res = "done"
  \/ /\ Complete(kind[t], r) => StoreFails
     /\ res = "failed" /\ UNCHANGED kept

\* The vendor answers the driver, which settles in the same poll.
Answered(t, r) ==
  /\ bg[t] = "exchange"
  /\ \E res \in {"done", "failed"} : Settles(t, r, res) /\ Reports(t, res)
  /\ UNCHANGED <<kind, entry, flow, late, aborting, req, exchanges, orphaned, early>>

\* CopilotSignIn::start: without a device code the driver ends.
DeviceCode(t) ==
  /\ bg[t] = "ready" /\ kind[t] = "copilot"
  /\ \E d \in DeviceCodes : IF d = "code" THEN Goes(t, "wait") /\ UNCHANGED result
                            ELSE Reports(t, "failed")
  /\ UNCHANGED <<kind, entry, flow, late, aborting, req, history>>

\* CopilotSignIn::wait: one answer of the token endpoint.
Poll(t, p) ==
  /\ bg[t] = "wait" /\ kind[t] = "copilot"
  /\ IF AfterPoll(p) = "failed" THEN Reports(t, "failed")
     ELSE Goes(t, AfterPoll(p)) /\ UNCHANGED result
  /\ UNCHANGED <<kind, entry, flow, late, aborting, req, history>>

\* The "auto" plugin loop: callback; a sleep; past a minute, authorize again.
\* The plugin has stored the credential itself when its callback succeeds.
PluginCallback(t) ==
  /\ kind[t] = "plugin-auto" /\ bg[t] \in {"ready", "wait"}
  /\ \/ Reports(t, "done") /\ kept' = [kept EXCEPT ![t] = "own"]
     \/ /\ IF late[t] THEN Reports(t, "failed") ELSE Goes(t, "sleep") /\ UNCHANGED result
        /\ UNCHANGED kept
  /\ UNCHANGED <<kind, entry, flow, late, aborting, req, exchanges, orphaned, early>>

PluginRetries(t) ==
  /\ kind[t] = "plugin-auto"
  /\ \/ bg[t] = "sleep" /\ \E to \in {"wait", "restart"} : Goes(t, to) /\ UNCHANGED result
     \/ bg[t] = "restart" /\ Goes(t, "wait") /\ UNCHANGED result
     \/ bg[t] = "restart" /\ Reports(t, "failed")
  /\ UNCHANGED <<kind, entry, flow, late, aborting, req, history>>

\* ClaudeSignIn::wait_inner takes the running CLI out of its slot at once.
WaitOnCli(t) ==
  /\ bg[t] = "ready" /\ kind[t] = "claude"
  /\ slot' = [slot EXCEPT ![t] = FALSE]
  /\ IF slot[t] THEN Goes(t, "wait") /\ UNCHANGED result ELSE Reports(t, "failed")
  /\ UNCHANGED <<kind, entry, session, listener, cli, mail, late, aborting, req, history>>

CliExits(t, well) ==
  /\ cli[t] \in {"opened", "printed"}
  /\ cli' = [cli EXCEPT ![t] = IF well THEN "exited" ELSE "failed"]
  /\ UNCHANGED <<kind, entry, session, listener, slot, mail, bg, result, late, aborting, req, history>>

\* The exit status decides; a good one is followed by `claude auth status`.
CliReaped(t) ==
  /\ bg[t] = "wait" /\ cli[t] \in {"exited", "failed"}
  /\ IF cli[t] = "exited" THEN Goes(t, "exchange") /\ UNCHANGED result ELSE Reports(t, "failed")
  /\ UNCHANGED <<kind, entry, flow, late, aborting, req, history>>

\* update_task changes nothing for a task that is not in the registry.
update_task(t, r) == state' = IF phase[t] = "in" THEN [state EXCEPT ![t] = r] ELSE state
mark_finished(t) == finished' = IF phase[t] = "in" THEN [finished EXCEPT ![t] = "fresh"]
                                ELSE finished

\* Mutant: only a success is reported.
ReportsSuccess(t) ==
  /\ bg[t] = "report"
  /\ IF result[t] = "done" THEN update_task(t, "done") ELSE UNCHANGED state
  /\ Goes(t, "ended")
  /\ UNCHANGED <<kind, phase, handle, finished, flow, result, late, aborting, req, history>>

\* Copilot's driver has no mark_finished.
DriverReports(t) ==
  /\ bg[t] = "report"
  /\ update_task(t, result[t])
  /\ early' = [early EXCEPT ![t] = phase[t] = "spawned"]
  /\ Goes(t, IF kind[t] = "copilot" THEN "ended" ELSE "mark")
  /\ UNCHANGED <<kind, phase, handle, finished, flow, result, late, aborting, req, kept, exchanges,
                 orphaned>>

DriverMarks(t) ==
  /\ bg[t] = "mark"
  /\ mark_finished(t)
  /\ Goes(t, "ended")
  /\ UNCHANGED <<kind, phase, state, handle, flow, result, late, aborting, req, history>>

\* The abort lands: the future is dropped, and with it the shutdown sender of
\* its callback server or the CLI it owns.
DriverAborted(t) ==
  /\ aborting[t] /\ Abortable(t)
  /\ Goes(t, "aborted")
  /\ StopServing(t)
  /\ mail' = [mail EXCEPT ![t] = {}]
  /\ cli' = [cli EXCEPT ![t] = IF kind[t] = "claude" /\ ~slot[t] THEN "killed" ELSE @]
  /\ UNCHANGED <<kind, entry, session, slot, result, late, aborting, req, history>>

(***************************************************************************)
(* Requests on a task.                                                     *)
(***************************************************************************)
Ask(c, pc) == req' = [req EXCEPT ![c].pc = pc, ![c].input = IF pc = "finish" THEN @ ELSE NoRequest.input]
Done(c) == req' = [req EXCEPT ![c] = NoRequest]

\* submit, under the registry's lock: what the paste is for.  A settled task,
\* Copilot and an "auto" plugin take none.
submit(c, t, i) ==
  /\ req[c].pc = "idle" /\ phase[t] = "in" /\ state[t] = "waiting"
  /\ kind[t] \notin {"copilot", "plugin-auto"} /\ exchanges[t].times < MaxSpent
  /\ req' = [req EXCEPT ![c] =
       [pc |-> CASE kind[t] = "claude" -> "cli" [] kind[t] = "plugin" -> "plugin"
                 [] OTHER -> IF handle[t] THEN "join" ELSE "finish",
        task |-> t, input |-> i, result |-> "none"]]
  /\ IF kind[t] \in Pkce
     THEN /\ handle' = [handle EXCEPT ![t] = FALSE]
          /\ aborting' = [aborting EXCEPT ![t] = @ \/ handle[t]]
     ELSE UNCHANGED <<handle, aborting>>
  /\ UNCHANGED <<kind, phase, state, finished, flow, bg, result, late, history>>

\* The abort is awaited; a driver that was past its last await just ends.
SubmitJoined(c) ==
  /\ req[c].pc = "join" /\ bg[req[c].task] \in {"ended", "aborted"}
  /\ Ask(c, "finish")
  /\ UNCHANGED <<kind, entry, flow, bg, result, late, aborting, history>>

Refuse(c) == req' = [req EXCEPT ![c].pc = "report", ![c].input = NoRequest.input, ![c].result = "failed"]

\* Mutant: the session is looked at and left.
SessionLeft(c) ==
  LET t == req[c].task i == req[c].input IN
  /\ req[c].pc = "finish" /\ kind[t] \in Pkce
  /\ IF GooglePasted(i) /\ session[t] = "live" THEN Spend(t, i) /\ Ask(c, "exchange")
     ELSE Refuse(c) /\ UNCHANGED exchanges
  /\ UNCHANGED <<kind, entry, flow, bg, result, late, aborting, kept, orphaned, early>>

\* finish_pasted: the address is checked, then the session taken.
finish_pasted(c) ==
  LET t == req[c].task i == req[c].input IN
  /\ req[c].pc = "finish" /\ kind[t] \in Pkce
  /\ IF (IF kind[t] = "codex" THEN CodexPasted(i) ELSE GooglePasted(i)) /\ session[t] = "live"
     THEN /\ session' = [session EXCEPT ![t] = "taken"]
          /\ Spend(t, i) /\ Ask(c, "exchange")
     ELSE Refuse(c) /\ UNCHANGED <<session, exchanges>>
  /\ UNCHANGED <<kind, entry, listener, cli, slot, mail, bg, result, late, aborting, kept, orphaned, early>>

\* SiwcSignIn keeps no session of its own: each submit has a copy of it.
SiwcFinish(c) ==
  LET t == req[c].task i == req[c].input IN
  /\ req[c].pc = "finish" /\ kind[t] = "chatgpt-api"
  /\ IF SiwcPasted(i) THEN Spend(t, i) /\ Ask(c, "exchange") ELSE Refuse(c) /\ UNCHANGED exchanges
  /\ UNCHANGED <<kind, entry, flow, bg, result, late, aborting, kept, orphaned, early>>

SubmitAnswered(c, r) ==
  /\ req[c].pc = "exchange"
  /\ \E res \in {"done", "failed"} :
       /\ Settles(req[c].task, r, res)
       /\ req' = [req EXCEPT ![c].pc = "report", ![c].result = res]
  /\ UNCHANGED <<kind, entry, flow, bg, result, late, aborting, exchanges, orphaned, early>>

\* The plugin's callback: it has kept the credential when it answers well.
SubmitToPlugin(c) ==
  /\ req[c].pc = "plugin"
  /\ \/ /\ kept' = [kept EXCEPT ![req[c].task] = "own"]
        /\ req' = [req EXCEPT ![c].pc = "report", ![c].result = "done"]
     \/ Refuse(c) /\ UNCHANGED kept
  /\ UNCHANGED <<kind, entry, flow, bg, result, late, aborting, exchanges, orphaned, early>>

\* ClaudeSignIn::submit needs the CLI in its slot; the CLI may refuse or be gone.
SubmitToCli(c) ==
  LET t == req[c].task IN
  /\ req[c].pc = "cli"
  /\ \/ slot[t] /\ CliRuns(t) /\ ClaudeTakes(req[c].input, cli[t]) /\ Ask(c, "answer")
     \/ Refuse(c)
  /\ UNCHANGED <<kind, entry, flow, bg, result, late, aborting, history>>

SubmitReports(c) ==
  /\ req[c].pc = "report"
  /\ update_task(req[c].task, req[c].result)
  /\ Ask(c, IF kind[req[c].task] = "plugin" THEN "mark" ELSE "answer")
  /\ UNCHANGED <<kind, phase, handle, finished, flow, bg, result, late, aborting, history>>

SubmitMarks(c) ==
  /\ req[c].pc = "mark"
  /\ mark_finished(req[c].task)
  /\ Ask(c, "answer")
  /\ UNCHANGED <<kind, phase, state, handle, flow, bg, result, late, aborting, history>>

\* The answer is a status, which prunes.
SubmitAnswers(c) ==
  /\ req[c].pc = "answer"
  /\ phase' = Pruned(phase) /\ Done(c)
  /\ UNCHANGED <<kind, state, handle, finished, flow, bg, result, late, aborting, history>>

\* A client that goes away drops its handler where it is suspended.
RequestDropped(c) ==
  /\ "drop" \in Mishaps /\ req[c].pc \in {"join", "exchange", "plugin", "cli"}
  /\ orphaned' = [orphaned EXCEPT ![req[c].task] = @ \/ req[c].pc \in {"join", "exchange"}]
  /\ Done(c)
  /\ UNCHANGED <<kind, entry, flow, bg, result, late, aborting, kept, exchanges, early>>

status ==
  /\ \E t \in Tasks : phase[t] = "in" /\ finished[t] = "old"
  /\ phase' = Pruned(phase)
  /\ UNCHANGED <<kind, state, handle, finished, flow, bg, result, late, aborting, req, history>>

\* The entry is removed first, then its driver is aborted.
Removed(S) ==
  /\ phase' = [t \in Tasks |-> IF t \in S THEN "gone" ELSE phase[t]]
  /\ aborting' = [t \in Tasks |-> aborting[t] \/ (t \in S /\ handle[t])]
  /\ handle' = [t \in Tasks |-> handle[t] /\ t \notin S]
  /\ UNCHANGED <<kind, state, finished, flow, bg, result, late, req, history>>

cancel(t) == phase[t] = "in" /\ Removed({t})

shutdown ==
  /\ "shutdown" \in Mishaps
  /\ \E t \in Tasks : phase[t] = "in"
  /\ Removed({t \in Tasks : phase[t] = "in"})

TimePasses(t) ==
  /\ finished[t] = "fresh"
  /\ finished' = [finished EXCEPT ![t] = "old"]
  /\ UNCHANGED <<kind, phase, state, handle, flow, bg, result, late, aborting, req, history>>
\* DEFAULT_SIGN_IN_TIMEOUT runs out while the driver works.
DeadlinePasses(t) ==
  /\ bg[t] \in {"wait", "sleep", "restart"} /\ ~late[t]
  /\ late' = [late EXCEPT ![t] = TRUE]
  /\ UNCHANGED <<kind, entry, flow, bg, result, aborting, req, history>>

(***************************************************************************)
(* The HTTP handlers.  A request without the server's key changes nothing. *)
(***************************************************************************)
start_with_proxy_at(t) ==
  \/ start_google(t) \/ start_codex(t) \/ start_copilot(t) \/ start_siwc(t) \/ start_plugin(t)
  \/ \E how \in ClaudeStarts : start_claude(t, how) \/ settle_dead_start(t, how)
handle_account_signin(t) == start_with_proxy_at(t)
handle_account_signin_status == status
handle_account_signin_submit(c) == \E t \in Tasks, i \in Pastes : submit(c, t, i)
handle_account_signin_cancel(t) == cancel(t)

Submitting(c) ==
  \/ SubmitJoined(c) \/ finish_pasted(c) \/ SiwcFinish(c)
  \/ \E r \in Answers : SubmitAnswered(c, r)
  \/ SubmitToPlugin(c) \/ SubmitToCli(c) \/ SubmitReports(c) \/ SubmitMarks(c)
  \/ SubmitAnswers(c)

Driving(t) ==
  \/ Insert(t) \/ ServeCallback(t) \/ Woken(t) \/ TimesOut(t) \/ ServerStops(t)
  \/ \E r \in Answers : Answered(t, r)
  \/ DeviceCode(t) \/ PluginCallback(t) \/ PluginRetries(t)
  \/ WaitOnCli(t) \/ CliReaped(t)
  \/ DriverReports(t) \/ DriverMarks(t) \/ DriverAborted(t)

Environment(t) ==
  \/ \E i \in Pastes : Callback(t, i)
  \/ \E p \in Polls : Poll(t, p)
  \/ \E well \in BOOLEAN : CliExits(t, well)
  \/ TimePasses(t)

Next ==
  \/ \E t \in Tasks : \/ handle_account_signin(t) \/ handle_account_signin_cancel(t)
                      \/ Driving(t) \/ DeadlinePasses(t) \/ Environment(t)
  \/ \E c \in Clients : handle_account_signin_submit(c) \/ Submitting(c) \/ RequestDropped(c)
  \/ handle_account_signin_status \/ shutdown

\* The runtime polls what is ready, timers fire, and a vendor's connection
\* ends in an answer or an error.
Fairness ==
  /\ \A t \in Tasks : WF_vars(Driving(t)) /\ WF_vars(DeadlinePasses(t))
  /\ \A c \in Clients : WF_vars(Submitting(c))

Spec == Init /\ [][Next]_vars /\ Fairness

(***************************************************************************)
(* Properties.                                                             *)
(***************************************************************************)

\* A task that says "done" has stored a credential, whoever settled it and
\* whatever ran beside it ("a completed flow stores the credential in the
\* account store, then reports done").
DoneMeansKept == \A t \in Tasks : state[t] = "done" => kept[t] # "none"

\* The browser's callback and the user's pastes, in any order and number, send
\* the vendor one code per PKCE session: the session is taken first.
CodeSpentOnce == \A t \in Tasks : kind[t] \in Pkce => exchanges[t].times <= 1

\* No address of another sign-in reaches the vendor, and a ChatGPT account is
\* stored only from an ID token that carries this sign-in's nonce.
OnlyThisSignIn ==
  \A t \in Tasks : /\ exchanges[t].own
                   /\ kind[t] = "chatgpt-api" => kept[t] # "foreign"

\* Only a task that has settled may be dropped by prune: a driver marks its
\* task finished after it has reported, never before.  The exception is a
\* driver that reported before its task was inserted: that report is lost.
OnlySettledAge == \A t \in Tasks : finished[t] # "no" => state[t] # "waiting" \/ early[t]

\* Once a task has left the registry and nobody works on it, no callback server
\* serves and no CLI runs ("no listener or temp state outlives the task").
NothingOutlivesTask ==
  \A t \in Tasks : phase[t] = "gone" /\ bg[t] \notin Running /\ (\A c \in Clients : req[c].task # t)
                   => ~ListenerOpen(t) /\ ~CliRuns(t)

\* A registered task whose driver runs settles or is removed: its callback, its
\* timeout or the paste that replaced the driver sees to it.  Only a paste
\* whose client went away halfway, or a report made before the task was
\* inserted, may leave it waiting.
TasksSettle ==
  \A t \in Tasks : (phase[t] = "in" /\ bg[t] \in Running)
                   ~> (phase[t] = "gone" \/ state[t] # "waiting" \/ orphaned[t] \/ early[t])

\* After a cancel, a shutdown or a prune everything the task held is let go.
CancelFreesAll ==
  \A t \in Tasks : (phase[t] = "gone") ~> (/\ bg[t] \notin Running /\ ~CliRuns(t)
                                             /\ ~ListenerOpen(t) /\ listener[t] # "closing")

\* The registry and what runs for it agree: only a settled task waits to be
\* pruned, and nothing is left of a task that is gone (signin_task.rs).
TasksAgree == TypeOK /\ OnlySettledAge /\ NothingOutlivesTask

\* A code goes to the vendor once and only if it answers this sign-in, whoever
\* brings it (gemini.rs, codex_signin.rs, siwc_signin.rs).
CodesSpentRightly == CodeSpentOnce /\ OnlyThisSignIn

\* Every task comes to an end, and with it everything that ran for it.
TasksEnd == TasksSettle /\ CancelFreesAll
===============================================================================
