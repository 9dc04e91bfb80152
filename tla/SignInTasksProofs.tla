-------------------------- MODULE SignInTasksProofs --------------------------
(***************************************************************************)
(* Proofs about SignInTasks, for any number of tasks and clients, any      *)
(* pastes and any answers: the registry and the drivers agree, a task that *)
(* is done has kept a credential, and codes are spent rightly.             *)
(***************************************************************************)
EXTENDS SignInTasks, TLAPS

(***************************************************************************)
(* The inductive invariant.  Each part says what a driver or a request at  *)
(* one point of its code may rely on when it runs on.                      *)
(***************************************************************************)

\* Nothing exists for a task before its start.
NewIsBare ==
  \A t \in Tasks : phase[t] = "new" =>
    /\ session[t] = "none" /\ listener[t] = "none" /\ cli[t] = "none"
    /\ bg[t] = "none" /\ ~slot[t]

\* A driver that exchanges is one of a flow with an exchange, and from its
\* report on it has a result.
DriverPlaces ==
  \A t \in Tasks :
    /\ bg[t] = "exchange" => kind[t] \in Pkce \cup {"copilot", "claude"}
    /\ bg[t] \in {"report", "mark"} => result[t] # "none"
    /\ cli[t] # "none" => kind[t] = "claude"
    /\ early[t] => bg[t] \in {"mark", "ended"}

\* What a driver serves or waits for is let go of when it stops waiting.
OnlyWaitersOpen ==
  \A t \in Tasks :
    /\ listener[t] = "serving" => bg[t] = "wait" /\ kind[t] \in Pkce
    /\ cli[t] \in {"opened", "printed"} /\ ~slot[t] => bg[t] = "wait"

\* A success a driver reports has its credential stored.
SuccessIsKept ==
  \A t \in Tasks : (state[t] = "done" \/ result[t] = "done") => kept[t] # "none"

\* A driver that is about to mark its task finished has reported on it.
MarkersReported ==
  \A t \in Tasks : bg[t] = "mark" => phase[t] = "gone" \/ state[t] # "waiting" \/ early[t]

\* A request is on a task that was inserted; what it will report is stored, and
\* it has reported before it marks.
RequestOK(c) ==
  /\ req[c].pc # "idle" => req[c].task \in Tasks
  /\ req[c].task \in Tasks => phase[req[c].task] \in {"in", "gone"}
  /\ req[c].pc = "exchange" => kind[req[c].task] \in Pkce \cup {"chatgpt-api"}
  /\ req[c].pc = "report" => req[c].result # "none"
  /\ req[c].result = "done" => req[c].task \in Tasks /\ kept[req[c].task] # "none"
  /\ req[c].pc = "mark" => phase[req[c].task] = "gone" \/ state[req[c].task] # "waiting"
RequestPlaces == \A c \in Clients : RequestOK(c)

\* While nobody has taken a PKCE session no code of it was spent.
UntakenUnspent ==
  \A t \in Tasks : kind[t] \in Pkce =>
    exchanges[t].times = IF session[t] = "taken" THEN 1 ELSE 0

IInv == /\ TypeOK /\ NewIsBare /\ DriverPlaces /\ OnlyWaitersOpen /\ SuccessIsKept
        /\ RequestPlaces /\ MarkersReported /\ OnlySettledAge /\ UntakenUnspent /\ OnlyThisSignIn

(***************************************************************************)
(* Facts about the operators the actions are built from.                   *)
(***************************************************************************)
\* The providers and the places of a driver, listed.
LEMMA Kinds ==
  /\ Pkce = {"gemini", "antigravity", "codex"} /\ Google = {"gemini", "antigravity"}
  /\ Running = {"ready", "device", "wait", "exchange", "sleep", "restart", "report", "mark"}
BY DEF Pkce, Google, Running, Suspended

\* A request slot with nothing in it.
LEMMA NoRequestFacts ==
  /\ NoRequest \in Request
  /\ NoRequest.pc = "idle" /\ NoRequest.task = Idle /\ NoRequest.result = "none"
  /\ NoRequest.input \in Pastes /\ Idle \notin Tasks
<1>1. (CHOOSE i \in Pastes : TRUE) \in Pastes
  BY SignInAssumption
<1> QED BY <1>1, SignInAssumption DEF NoRequest, Request

\* A request goes on to its next point, with the result it had or a new one.
Moved(c, pc, res) ==
  /\ req' \in [Clients -> Request]
  /\ req'[c].pc = pc /\ req'[c].task = req[c].task /\ req'[c].result = res
  /\ \A d \in Clients \ {c} : req'[d] = req[d]

\* Ask, Refuse and a result move the request they are about and no other.
LEMMA AskMoves ==
  ASSUME TypeOK, NEW c \in Clients, NEW pc \in {"finish", "exchange", "answer", "mark"}, Ask(c, pc)
  PROVE  Moved(c, pc, req[c].result)
<1>1. req \in [Clients -> Request] /\ req[c] \in Request
  BY DEF TypeOK
<1>2. PICK i \in Pastes : req' = [req EXCEPT ![c].pc = pc, ![c].input = i]
  BY <1>1, NoRequestFacts DEF Ask, Request
<1> QED BY <1>1, <1>2 DEF Moved, Request

LEMMA RefuseMoves ==
  ASSUME TypeOK, NEW c \in Clients, Refuse(c)
  PROVE  Moved(c, "report", "failed")
<1>1. req \in [Clients -> Request] /\ req[c] \in Request
  BY DEF TypeOK
<1> QED BY <1>1, NoRequestFacts DEF Moved, Refuse, Request

LEMMA ResultMoves ==
  ASSUME TypeOK, NEW c \in Clients, NEW res \in {"done", "failed"},
         req' = [req EXCEPT ![c].pc = "report", ![c].result = res]
  PROVE  Moved(c, "report", res)
<1>1. req \in [Clients -> Request] /\ req[c] \in Request
  BY DEF TypeOK
<1> QED BY <1>1 DEF Moved, Request

\* An answered request frees its slot.
LEMMA DoneMoves ==
  ASSUME TypeOK, NEW c \in Clients, Done(c)
  PROVE  /\ req' \in [Clients -> Request] /\ req'[c] = NoRequest
         /\ \A d \in Clients \ {c} : req'[d] = req[d]
BY NoRequestFacts DEF TypeOK, Done

\* A flow that settles stores a credential before it is done, and what was
\* stored stays stored.
LEMMA SettlesFacts ==
  ASSUME TypeOK, NEW t \in Tasks, NEW r \in Answers, NEW res \in {"done", "failed"},
         Settles(t, r, res), kind[t] \in Pkce \cup {"chatgpt-api", "copilot", "claude"}
  PROVE  /\ kept' \in [Tasks -> {"none", "own", "foreign"}]
         /\ res = "done" => kept'[t] # "none"
         /\ \A u \in Tasks : kept[u] # "none" => kept'[u] # "none"
         /\ \A u \in Tasks : kind[u] = "chatgpt-api" /\ kept[u] # "foreign" => kept'[u] # "foreign"
<1>1. r \in Replies
  BY SignInAssumption
<1>2. CASE Complete(kind[t], r) /\ kept' = [kept EXCEPT ![t] = Named(kind[t], r)] /\ res = "done"
  <2>1. Named(kind[t], r) \in {"own", "foreign"}
    BY <1>1, <1>2, Kinds DEF Complete, Named, GoogleComplete, exchange_code,
       fetch_userinfo, CodexComplete, SiwcComplete, account_from, CollectAccount, Replies
  <2>2. kind[t] = "chatgpt-api" => Named(kind[t], r) = "own"
    BY <1>2, Kinds DEF Complete, Named, SiwcComplete, account_from
  <2> QED BY <1>2, <2>1, <2>2 DEF TypeOK
<1>3. CASE res = "failed" /\ UNCHANGED kept
  BY <1>3 DEF TypeOK
<1> QED BY <1>2, <1>3 DEF Settles

\* An exchange adds one code, and one of this sign-in's leaves the record clean.
LEMMA SpendFacts ==
  ASSUME TypeOK, NEW t \in Tasks, NEW i \in Pastes, Spend(t, i), i.own, ~i.error
  PROVE  /\ exchanges' \in [Tasks -> [times : Nat, own : BOOLEAN]]
         /\ exchanges'[t].times = exchanges[t].times + 1
         /\ exchanges'[t].own = exchanges[t].own
         /\ \A u \in Tasks \ {t} : exchanges'[u] = exchanges[u]
BY DEF TypeOK, Spend

\* Every check of a pasted address lets only this sign-in's through.
LEMMA PastedIsOwn ==
  ASSUME NEW i \in Inputs, GooglePasted(i) \/ CodexPasted(i) \/ SiwcPasted(i)
  PROVE  i.own /\ ~i.error
BY DEF Inputs, GooglePasted, CodexPasted, SiwcPasted, query_pairs

\* Where a driver goes, and what it reports, is of the right type.
LEMMA GoesType ==
  ASSUME TypeOK, NEW t \in Tasks, NEW to \in Running \cup {"ended", "aborted"}, Goes(t, to)
  PROVE  bg' \in [Tasks -> Running \cup {"none", "ended", "aborted"}]
BY DEF TypeOK, Goes

LEMMA ReportsType ==
  ASSUME TypeOK, NEW t \in Tasks, NEW r \in {"done", "failed"}, Reports(t, r)
  PROVE  /\ bg' \in [Tasks -> Running \cup {"none", "ended", "aborted"}]
         /\ result' \in [Tasks -> {"none", "done", "failed"}]
BY GoesType, Kinds DEF TypeOK, Reports

(***************************************************************************)
(* Every action keeps the invariant.  An action's lemma has a step for     *)
(* each part whose variables it changes, and one for the rest.             *)
(***************************************************************************)
LEMMA start_googleKeeps ==
  ASSUME IInv, NEW t \in Tasks, start_google(t)
  PROVE  IInv'
<1>1. TypeOK'
  BY Kinds DEF IInv, TypeOK, history, start_google, GeminiStart, Prepare, Google
<1>2. NewIsBare'
  BY DEF IInv, TypeOK, NewIsBare, history, start_google, GeminiStart, Prepare, Google
<1>3. DriverPlaces'
  BY Kinds DEF IInv, TypeOK, DriverPlaces, NewIsBare, history, start_google, GeminiStart, Prepare, Google
<1>4. OnlyWaitersOpen'
  BY Kinds DEF IInv, TypeOK, OnlyWaitersOpen, NewIsBare, history, start_google, GeminiStart, Prepare, Google
<1>5. RequestPlaces'
  BY Kinds DEF IInv, TypeOK, RequestPlaces, RequestOK, history, start_google, GeminiStart, Prepare, Google
<1>6. MarkersReported'
  BY DEF IInv, TypeOK, MarkersReported, history, start_google, GeminiStart, Prepare, Google
<1>7. UntakenUnspent'
  BY Kinds DEF IInv, TypeOK, UntakenUnspent, NewIsBare, history, start_google, GeminiStart, Prepare, Google
<1>8. SuccessIsKept' /\ OnlySettledAge' /\ OnlyThisSignIn'
  BY DEF IInv, SuccessIsKept, OnlySettledAge, OnlyThisSignIn, history, start_google, GeminiStart, Prepare
<1> QED BY <1>1, <1>2, <1>3, <1>4, <1>5, <1>6, <1>7, <1>8 DEF IInv

LEMMA start_codexKeeps ==
  ASSUME IInv, NEW t \in Tasks, start_codex(t)
  PROVE  IInv'
<1>1. TypeOK'
  <2>1. CASE UNCHANGED <<listener, bg>>
    BY <2>1 DEF IInv, TypeOK, start_codex, CodexStart, Prepare, history
  <2>2. CASE listener' = [listener EXCEPT ![t] = "held"] /\ bg' = [bg EXCEPT ![t] = "ready"]
    BY <2>2, Kinds DEF IInv, TypeOK, start_codex, CodexStart, Prepare, history
  <2> QED BY <2>1, <2>2 DEF start_codex, CodexStart
<1>2. NewIsBare'
  BY DEF IInv, TypeOK, NewIsBare, history, start_codex, CodexStart, Prepare
<1>3. DriverPlaces'
  BY Kinds DEF IInv, TypeOK, DriverPlaces, NewIsBare, history, start_codex, CodexStart, Prepare
<1>4. OnlyWaitersOpen'
  BY Kinds DEF IInv, TypeOK, OnlyWaitersOpen, NewIsBare, history, start_codex, CodexStart, Prepare
<1>5. RequestPlaces'
  BY Kinds DEF IInv, TypeOK, RequestPlaces, RequestOK, history, start_codex, CodexStart, Prepare
<1>6. MarkersReported'
  BY DEF IInv, TypeOK, MarkersReported, history, start_codex, CodexStart, Prepare
<1>7. UntakenUnspent'
  BY Kinds DEF IInv, TypeOK, UntakenUnspent, NewIsBare, history, start_codex, CodexStart, Prepare
<1>8. SuccessIsKept' /\ OnlySettledAge' /\ OnlyThisSignIn'
  BY DEF IInv, SuccessIsKept, OnlySettledAge, OnlyThisSignIn, history, start_codex, CodexStart, Prepare
<1> QED BY <1>1, <1>2, <1>3, <1>4, <1>5, <1>6, <1>7, <1>8 DEF IInv

LEMMA start_copilotKeeps ==
  ASSUME IInv, NEW t \in Tasks, start_copilot(t)
  PROVE  IInv'
<1>1. TypeOK'
  BY Kinds DEF IInv, TypeOK, history, start_copilot, Prepare
<1>2. NewIsBare'
  BY DEF IInv, TypeOK, NewIsBare, history, start_copilot, Prepare
<1>3. DriverPlaces'
  BY Kinds DEF IInv, TypeOK, DriverPlaces, NewIsBare, history, start_copilot, Prepare
<1>4. OnlyWaitersOpen'
  BY Kinds DEF IInv, TypeOK, OnlyWaitersOpen, NewIsBare, history, start_copilot, Prepare
<1>5. RequestPlaces'
  BY Kinds DEF IInv, TypeOK, RequestPlaces, RequestOK, history, start_copilot, Prepare
<1>6. MarkersReported'
  BY DEF IInv, TypeOK, MarkersReported, history, start_copilot, Prepare
<1>7. SuccessIsKept' /\ OnlySettledAge' /\ UntakenUnspent' /\ OnlyThisSignIn'
  BY DEF IInv, SuccessIsKept, OnlySettledAge, UntakenUnspent, OnlyThisSignIn, history,
     start_copilot, Prepare
<1> QED BY <1>1, <1>2, <1>3, <1>4, <1>5, <1>6, <1>7 DEF IInv

LEMMA start_siwcKeeps ==
  ASSUME IInv, NEW t \in Tasks, start_siwc(t)
  PROVE  IInv'
<1>1. TypeOK'
  BY DEF IInv, TypeOK, history, start_siwc, SiwcStart, Prepare
<1>2. NewIsBare'
  BY DEF IInv, TypeOK, NewIsBare, history, start_siwc, SiwcStart, Prepare
<1>3. RequestPlaces'
  BY Kinds DEF IInv, TypeOK, RequestPlaces, RequestOK, history, start_siwc, SiwcStart, Prepare
<1>4. MarkersReported'
  BY DEF IInv, TypeOK, MarkersReported, history, start_siwc, SiwcStart, Prepare
<1>5. UntakenUnspent'
  BY Kinds DEF IInv, TypeOK, UntakenUnspent, history, start_siwc, SiwcStart, Prepare
<1>6. DriverPlaces' /\ OnlyWaitersOpen' /\ SuccessIsKept' /\ OnlySettledAge' /\ OnlyThisSignIn'
  BY DEF IInv, DriverPlaces, OnlyWaitersOpen, SuccessIsKept, OnlySettledAge, OnlyThisSignIn,
     history, start_siwc, SiwcStart, Prepare
<1> QED BY <1>1, <1>2, <1>3, <1>4, <1>5, <1>6 DEF IInv

LEMMA start_pluginKeeps ==
  ASSUME IInv, NEW t \in Tasks, start_plugin(t)
  PROVE  IInv'
<1>1. TypeOK'
  BY Kinds DEF IInv, TypeOK, history, start_plugin, Prepare
<1>2. NewIsBare'
  BY DEF IInv, TypeOK, NewIsBare, history, start_plugin, Prepare
<1>3. DriverPlaces'
  BY Kinds DEF IInv, TypeOK, DriverPlaces, NewIsBare, history, start_plugin, Prepare
<1>4. OnlyWaitersOpen'
  BY Kinds DEF IInv, TypeOK, OnlyWaitersOpen, NewIsBare, history, start_plugin, Prepare
<1>5. RequestPlaces'
  BY Kinds DEF IInv, TypeOK, RequestPlaces, RequestOK, history, start_plugin, Prepare
<1>6. MarkersReported'
  BY DEF IInv, TypeOK, MarkersReported, history, start_plugin, Prepare
<1>7. SuccessIsKept' /\ OnlySettledAge' /\ UntakenUnspent' /\ OnlyThisSignIn'
  BY DEF IInv, SuccessIsKept, OnlySettledAge, UntakenUnspent, OnlyThisSignIn, history, start_plugin,
     Prepare
<1> QED BY <1>1, <1>2, <1>3, <1>4, <1>5, <1>6, <1>7 DEF IInv

LEMMA start_claudeKeeps ==
  ASSUME IInv, NEW t \in Tasks, NEW how \in ClaudeStarts, start_claude(t, how)
  PROVE  IInv'
<1>1. TypeOK'
  BY Kinds DEF IInv, TypeOK, history, start_claude, ClaudeStart,
     Prepare, ClaudeStarts
<1>2. NewIsBare'
  BY DEF IInv, TypeOK, NewIsBare, history, start_claude, ClaudeStart,
     Prepare, ClaudeStarts
<1>3. DriverPlaces'
  BY Kinds DEF IInv, TypeOK, DriverPlaces, NewIsBare, history, start_claude, ClaudeStart,
     Prepare, ClaudeStarts
<1>4. OnlyWaitersOpen'
  BY Kinds DEF IInv, TypeOK, OnlyWaitersOpen, history, start_claude, ClaudeStart,
     Prepare, ClaudeStarts
<1>5. RequestPlaces'
  BY Kinds DEF IInv, TypeOK, RequestPlaces, RequestOK, history, start_claude, ClaudeStart,
     Prepare, ClaudeStarts
<1>6. MarkersReported'
  BY DEF IInv, TypeOK, MarkersReported, history, start_claude, ClaudeStart,
     Prepare, ClaudeStarts
<1>7. SuccessIsKept' /\ OnlySettledAge' /\ UntakenUnspent' /\ OnlyThisSignIn'
  BY DEF IInv, SuccessIsKept, OnlySettledAge, UntakenUnspent, OnlyThisSignIn, history, start_claude,
     ClaudeStart, Prepare
<1> QED BY <1>1, <1>2, <1>3, <1>4, <1>5, <1>6, <1>7 DEF IInv

LEMMA settle_dead_startKeeps ==
  ASSUME IInv, NEW t \in Tasks, NEW how \in ClaudeStarts, settle_dead_start(t, how)
  PROVE  IInv'
<1>1. TypeOK'
  BY DEF IInv, TypeOK, history, settle_dead_start, ClaudeStarts
<1>2. NewIsBare'
  BY DEF IInv, TypeOK, NewIsBare, history, settle_dead_start, ClaudeStarts
<1>3. DriverPlaces'
  BY Kinds DEF IInv, TypeOK, DriverPlaces, history, settle_dead_start, ClaudeStarts
<1>4. OnlyWaitersOpen'
  BY Kinds DEF IInv, TypeOK, OnlyWaitersOpen, history, settle_dead_start, ClaudeStarts
<1>5. RequestPlaces'
  BY Kinds DEF IInv, TypeOK, RequestPlaces, RequestOK, history, settle_dead_start, ClaudeStarts
<1>6. MarkersReported'
  BY DEF IInv, TypeOK, MarkersReported, history, settle_dead_start, ClaudeStarts
<1>7. SuccessIsKept' /\ OnlySettledAge' /\ UntakenUnspent' /\ OnlyThisSignIn'
  BY DEF IInv, SuccessIsKept, OnlySettledAge, UntakenUnspent, OnlyThisSignIn, history,
     settle_dead_start
<1> QED BY <1>1, <1>2, <1>3, <1>4, <1>5, <1>6, <1>7 DEF IInv

LEMMA InsertKeeps ==
  ASSUME IInv, NEW t \in Tasks, Insert(t)
  PROVE  IInv'
<1>1. TypeOK'
  BY DEF IInv, TypeOK, flow, history, Insert, Pruned
<1>2. NewIsBare'
  BY DEF IInv, TypeOK, NewIsBare, flow, history, Insert, Pruned
<1>3. RequestPlaces'
  BY Kinds DEF IInv, TypeOK, RequestPlaces, RequestOK, flow, history, Insert, Pruned
<1>4. MarkersReported'
  BY DEF IInv, TypeOK, MarkersReported, flow, history, Insert, Pruned
<1>5. /\ DriverPlaces' /\ OnlyWaitersOpen' /\ SuccessIsKept' /\ OnlySettledAge'
      /\ UntakenUnspent' /\ OnlyThisSignIn'
  BY DEF IInv, DriverPlaces, OnlyWaitersOpen, SuccessIsKept, OnlySettledAge, UntakenUnspent,
     OnlyThisSignIn, flow, history, Insert
<1> QED BY <1>1, <1>2, <1>3, <1>4, <1>5 DEF IInv

LEMMA ServeCallbackKeeps ==
  ASSUME IInv, NEW t \in Tasks, ServeCallback(t)
  PROVE  IInv'
<1>1. TypeOK'
  <2>1. /\ bg' \in [Tasks -> Running \cup {"none", "ended", "aborted"}]
        /\ result' \in [Tasks -> {"none", "done", "failed"}]
    BY GoesType, ReportsType, Kinds DEF IInv, TypeOK, ServeCallback
  <2>2. listener' \in [Tasks -> {"none", "held", "serving", "closing", "closed"}]
    BY Kinds DEF IInv, TypeOK, entry, history, ServeCallback, Goes, Reports
  <2> QED BY <2>1, <2>2 DEF IInv, TypeOK, entry, history, ServeCallback
<1>2. NewIsBare'
  BY DEF IInv, TypeOK, NewIsBare, entry, history, ServeCallback, Goes, Reports
<1>3. DriverPlaces'
  BY Kinds DEF IInv, TypeOK, DriverPlaces, entry, history, ServeCallback, Goes, Reports
<1>4. OnlyWaitersOpen'
  BY Kinds DEF IInv, TypeOK, OnlyWaitersOpen, entry, history, ServeCallback, Goes, Reports
<1>5. SuccessIsKept'
  BY DEF IInv, TypeOK, SuccessIsKept, entry, history, ServeCallback, Goes, Reports
<1>6. MarkersReported'
  BY DEF IInv, TypeOK, MarkersReported, entry, history, ServeCallback, Goes, Reports
<1>7. RequestPlaces' /\ OnlySettledAge' /\ UntakenUnspent' /\ OnlyThisSignIn'
  BY DEF IInv, RequestPlaces, OnlySettledAge, UntakenUnspent, OnlyThisSignIn, RequestOK, entry,
     history, ServeCallback
<1> QED BY <1>1, <1>2, <1>3, <1>4, <1>5, <1>6, <1>7 DEF IInv

LEMMA CallbackKeeps ==
  ASSUME IInv, NEW t \in Tasks, NEW i \in Pastes, Callback(t, i)
  PROVE  IInv'
<1>1. TypeOK'
  BY DEF IInv, TypeOK, entry, history, Callback
<1>2. /\ NewIsBare' /\ DriverPlaces' /\ OnlyWaitersOpen' /\ SuccessIsKept' /\ RequestPlaces'
      /\ MarkersReported' /\ OnlySettledAge' /\ UntakenUnspent' /\ OnlyThisSignIn'
  BY DEF IInv, NewIsBare, DriverPlaces, OnlyWaitersOpen, SuccessIsKept, RequestPlaces,
     MarkersReported, OnlySettledAge, UntakenUnspent, OnlyThisSignIn, RequestOK, entry, history,
     Callback
<1> QED BY <1>1, <1>2 DEF IInv

LEMMA WokenKeeps ==
  ASSUME IInv, NEW t \in Tasks, Woken(t)
  PROVE  IInv'
<1>m. PICK i \in mail[t] :
        IF classify_callback(i) = "success" /\ session[t] = "live"
        THEN /\ session' = [session EXCEPT ![t] = "taken"]
             /\ Spend(t, i)
             /\ Goes(t, "exchange") /\ UNCHANGED result
        ELSE Reports(t, "failed") /\ UNCHANGED <<session, exchanges>>
  BY DEF Woken
<1>i. i \in Pastes /\ i \in Inputs
  BY SignInAssumption DEF IInv, TypeOK
<1>c. \/ /\ session[t] = "live" /\ session' = [session EXCEPT ![t] = "taken"]
         /\ Goes(t, "exchange") /\ UNCHANGED result
         /\ exchanges' \in [Tasks -> [times : Nat, own : BOOLEAN]]
         /\ exchanges'[t].times = exchanges[t].times + 1
         /\ exchanges'[t].own = exchanges[t].own
         /\ \A u \in Tasks \ {t} : exchanges'[u] = exchanges[u]
      \/ Reports(t, "failed") /\ UNCHANGED <<session, exchanges>>
  <2>1. CASE classify_callback(i) = "success" /\ session[t] = "live"
    <3>1. i.own /\ ~i.error
      BY <2>1, <1>i DEF classify_callback, Inputs
    <3> QED BY <1>m, <1>i, <2>1, <3>1, SpendFacts DEF IInv
  <2>2. CASE ~(classify_callback(i) = "success" /\ session[t] = "live")
    BY <1>m, <2>2
  <2> QED BY <2>1, <2>2
<1>1. TypeOK'
  <2>1. /\ bg' \in [Tasks -> Running \cup {"none", "ended", "aborted"}]
        /\ result' \in [Tasks -> {"none", "done", "failed"}]
    BY <1>c, GoesType, ReportsType, Kinds DEF IInv, TypeOK, Woken
  <2>2. listener' \in [Tasks -> {"none", "held", "serving", "closing", "closed"}]
    BY DEF IInv, TypeOK, Woken, StopServing
  <2>3. session' \in [Tasks -> {"none", "live", "taken"}] /\ exchanges' \in [Tasks -> [times : Nat, own : BOOLEAN]]
    BY <1>c DEF IInv, TypeOK
  <2>4. mail' \in [Tasks -> SUBSET Pastes]
    BY DEF IInv, TypeOK, Woken
  <2> QED BY <1>c, <2>1, <2>2, <2>3, <2>4 DEF IInv, TypeOK, entry, Woken
<1>2. NewIsBare'
  BY <1>c DEF IInv, TypeOK, NewIsBare, entry, Woken, Goes, Reports, StopServing
<1>3. DriverPlaces'
  BY <1>c, Kinds DEF IInv, TypeOK, DriverPlaces, entry, Woken, Goes, Reports, StopServing
<1>4. OnlyWaitersOpen'
  BY <1>c, Kinds DEF IInv, TypeOK, OnlyWaitersOpen, DriverPlaces, entry, Woken, Goes, Reports,
     StopServing
<1>5. SuccessIsKept'
  BY <1>c DEF IInv, TypeOK, SuccessIsKept, entry, Woken, Goes, Reports, StopServing
<1>6. MarkersReported'
  BY <1>c DEF IInv, TypeOK, MarkersReported, entry, Woken, Goes, Reports, StopServing
<1>7. UntakenUnspent'
  BY <1>c, Kinds DEF IInv, TypeOK, UntakenUnspent, entry, Woken, Goes, Reports, StopServing
<1>8. OnlyThisSignIn'
  BY <1>c DEF IInv, TypeOK, OnlyThisSignIn, entry, Woken, Goes, Reports, StopServing
<1>9. RequestPlaces' /\ OnlySettledAge'
  BY DEF IInv, RequestPlaces, OnlySettledAge, RequestOK, entry, Woken
<1> QED BY <1>1, <1>2, <1>3, <1>4, <1>5, <1>6, <1>7, <1>8, <1>9 DEF IInv

LEMMA TimesOutKeeps ==
  ASSUME IInv, NEW t \in Tasks, TimesOut(t)
  PROVE  IInv'
<1>1. TypeOK'
  BY Kinds DEF IInv, TypeOK, entry, history, TimesOut, Goes, Reports, StopServing
<1>2. NewIsBare'
  BY DEF IInv, TypeOK, NewIsBare, entry, history, TimesOut, Goes, Reports, StopServing
<1>3. DriverPlaces'
  BY Kinds DEF IInv, TypeOK, DriverPlaces, entry, history, TimesOut, Goes, Reports, StopServing
<1>4. OnlyWaitersOpen'
  BY Kinds DEF IInv, TypeOK, OnlyWaitersOpen, DriverPlaces, entry, history, TimesOut, Goes, Reports,
     StopServing
<1>5. SuccessIsKept'
  BY DEF IInv, TypeOK, SuccessIsKept, entry, history, TimesOut, Goes, Reports, StopServing
<1>6. MarkersReported'
  BY DEF IInv, TypeOK, MarkersReported, entry, history, TimesOut, Goes, Reports, StopServing
<1>7. RequestPlaces' /\ OnlySettledAge' /\ UntakenUnspent' /\ OnlyThisSignIn'
  BY DEF IInv, RequestPlaces, OnlySettledAge, UntakenUnspent, OnlyThisSignIn, RequestOK, entry,
     history, TimesOut
<1> QED BY <1>1, <1>2, <1>3, <1>4, <1>5, <1>6, <1>7 DEF IInv

LEMMA ServerStopsKeeps ==
  ASSUME IInv, NEW t \in Tasks, ServerStops(t)
  PROVE  IInv'
<1>1. TypeOK'
  BY DEF IInv, TypeOK, entry, history, ServerStops
<1>2. NewIsBare'
  BY DEF IInv, TypeOK, NewIsBare, entry, history, ServerStops
<1>3. OnlyWaitersOpen'
  BY Kinds DEF IInv, TypeOK, OnlyWaitersOpen, entry, history, ServerStops
<1>4. /\ DriverPlaces' /\ SuccessIsKept' /\ RequestPlaces' /\ MarkersReported'
      /\ OnlySettledAge' /\ UntakenUnspent' /\ OnlyThisSignIn'
  BY DEF IInv, DriverPlaces, SuccessIsKept, RequestPlaces, MarkersReported, OnlySettledAge,
     UntakenUnspent, OnlyThisSignIn, RequestOK, entry, history, ServerStops
<1> QED BY <1>1, <1>2, <1>3, <1>4 DEF IInv

LEMMA AnsweredKeeps ==
  ASSUME IInv, NEW t \in Tasks, NEW r \in Answers, Answered(t, r)
  PROVE  IInv'
<1>0. PICK res \in {"done", "failed"} : Settles(t, r, res) /\ Reports(t, res)
  BY DEF Answered
<1>s. /\ kept' \in [Tasks -> {"none", "own", "foreign"}]
      /\ res = "done" => kept'[t] # "none"
      /\ \A u \in Tasks : kept[u] # "none" => kept'[u] # "none"
      /\ \A u \in Tasks : kind[u] = "chatgpt-api" /\ kept[u] # "foreign" => kept'[u] # "foreign"
  BY <1>0, SettlesFacts DEF IInv, DriverPlaces, Answered
<1>1. TypeOK'
  <2>1. bg' \in [Tasks -> Running \cup {"none", "ended", "aborted"}]
    BY <1>0, <1>s, Kinds DEF IInv, TypeOK, entry, flow, Answered, Goes, Reports
  <2>2. result' \in [Tasks -> {"none", "done", "failed"}]
    BY <1>0, <1>s, Kinds DEF IInv, TypeOK, entry, flow, Answered, Goes, Reports
  <2> QED BY <1>0, <1>s, <2>1, <2>2 DEF IInv, TypeOK, entry, flow, Answered
<1>2. NewIsBare'
  BY <1>0, <1>s DEF IInv, TypeOK, NewIsBare, entry, flow, Answered, Goes, Reports
<1>3. DriverPlaces'
  BY <1>0, <1>s, Kinds DEF IInv, TypeOK, DriverPlaces, entry, flow, Answered, Goes, Reports
<1>4. OnlyWaitersOpen'
  BY <1>0, <1>s, Kinds DEF IInv, TypeOK, OnlyWaitersOpen, entry, flow, Answered, Goes, Reports
<1>5. SuccessIsKept'
  BY <1>0, <1>s DEF IInv, TypeOK, SuccessIsKept, entry, flow, Answered, Goes, Reports
<1>6. RequestPlaces'
  BY <1>0, <1>s, Kinds DEF IInv, TypeOK, RequestPlaces, RequestOK, entry, flow, Answered, Goes,
     Reports
<1>7. MarkersReported'
  BY <1>0, <1>s DEF IInv, TypeOK, MarkersReported, entry, flow, Answered, Goes, Reports
<1>8. OnlyThisSignIn'
  BY <1>0, <1>s DEF IInv, TypeOK, OnlyThisSignIn, entry, flow, Answered, Goes, Reports
<1>9. OnlySettledAge' /\ UntakenUnspent'
  BY DEF IInv, OnlySettledAge, UntakenUnspent, entry, flow, Answered, Settles
<1> QED BY <1>1, <1>2, <1>3, <1>4, <1>5, <1>6, <1>7, <1>8, <1>9 DEF IInv

LEMMA DeviceCodeKeeps ==
  ASSUME IInv, NEW t \in Tasks, DeviceCode(t)
  PROVE  IInv'
<1>1. TypeOK'
  <2>1. /\ bg' \in [Tasks -> Running \cup {"none", "ended", "aborted"}]
        /\ result' \in [Tasks -> {"none", "done", "failed"}]
    BY GoesType, ReportsType, Kinds DEF IInv, TypeOK, DeviceCode
  <2> QED BY <2>1 DEF IInv, TypeOK, entry, flow, history, DeviceCode
<1>2. NewIsBare'
  BY DEF IInv, TypeOK, NewIsBare, entry, flow, history, DeviceCode, Goes, Reports
<1>3. DriverPlaces'
  <2>1. bg'[t] = "wait" \/ (bg'[t] = "report" /\ result'[t] = "failed")
    BY DEF IInv, TypeOK, DeviceCode, Goes, Reports
  <2>2. \A u \in Tasks \ {t} : bg'[u] = bg[u] /\ result'[u] = result[u]
    BY DEF IInv, TypeOK, DeviceCode, Goes, Reports
  <2>3. ~early[t]
    BY DEF IInv, DriverPlaces, DeviceCode
  <2> QED BY <2>1, <2>2, <2>3 DEF IInv, DriverPlaces, DeviceCode, flow, history
<1>4. OnlyWaitersOpen'
  BY Kinds DEF IInv, TypeOK, OnlyWaitersOpen, entry, flow, history, DeviceCode, Goes, Reports
<1>5. SuccessIsKept'
  BY DEF IInv, TypeOK, SuccessIsKept, entry, flow, history, DeviceCode, Goes, Reports
<1>6. MarkersReported'
  BY DEF IInv, TypeOK, MarkersReported, entry, flow, history, DeviceCode, Goes, Reports
<1>7. RequestPlaces' /\ OnlySettledAge' /\ UntakenUnspent' /\ OnlyThisSignIn'
  BY DEF IInv, RequestPlaces, OnlySettledAge, UntakenUnspent, OnlyThisSignIn, RequestOK, entry,
     flow, history, DeviceCode
<1> QED BY <1>1, <1>2, <1>3, <1>4, <1>5, <1>6, <1>7 DEF IInv

LEMMA PollKeeps ==
  ASSUME IInv, NEW t \in Tasks, NEW p \in Polls, Poll(t, p)
  PROVE  IInv'
<1>1. TypeOK'
  <2>1. AfterPoll(p) \in {"exchange", "wait", "failed"}
    BY DEF AfterPoll
  <2>2. /\ bg' \in [Tasks -> Running \cup {"none", "ended", "aborted"}]
        /\ result' \in [Tasks -> {"none", "done", "failed"}]
    BY <2>1, GoesType, ReportsType, Kinds DEF IInv, TypeOK, Poll
  <2> QED BY <2>1, <2>2 DEF IInv, TypeOK, entry, flow, history, Poll
<1>2. NewIsBare'
  BY DEF IInv, TypeOK, NewIsBare, entry, flow, history, Poll, Goes, Reports, AfterPoll, Polls
<1>3. DriverPlaces'
  BY Kinds DEF IInv, TypeOK, DriverPlaces, entry, flow, history, Poll, Goes, Reports, AfterPoll,
     Polls
<1>4. OnlyWaitersOpen'
  BY Kinds DEF IInv, TypeOK, OnlyWaitersOpen, DriverPlaces, entry, flow, history, Poll, Goes,
     Reports, AfterPoll, Polls
<1>5. SuccessIsKept'
  BY DEF IInv, TypeOK, SuccessIsKept, entry, flow, history, Poll, Goes, Reports, AfterPoll, Polls
<1>6. MarkersReported'
  BY DEF IInv, TypeOK, MarkersReported, entry, flow, history, Poll, Goes, Reports, AfterPoll, Polls
<1>7. RequestPlaces' /\ OnlySettledAge' /\ UntakenUnspent' /\ OnlyThisSignIn'
  BY DEF IInv, RequestPlaces, OnlySettledAge, UntakenUnspent, OnlyThisSignIn, RequestOK, entry,
     flow, history, Poll
<1> QED BY <1>1, <1>2, <1>3, <1>4, <1>5, <1>6, <1>7 DEF IInv

LEMMA PluginCallbackKeeps ==
  ASSUME IInv, NEW t \in Tasks, PluginCallback(t)
  PROVE  IInv'
<1>1. TypeOK'
  <2>1. /\ bg' \in [Tasks -> Running \cup {"none", "ended", "aborted"}]
        /\ result' \in [Tasks -> {"none", "done", "failed"}]
    BY GoesType, ReportsType, Kinds DEF IInv, TypeOK, PluginCallback
  <2>2. kept' \in [Tasks -> {"none", "own", "foreign"}]
    BY Kinds DEF IInv, TypeOK, entry, flow, PluginCallback, Goes, Reports
  <2> QED BY <2>1, <2>2 DEF IInv, TypeOK, entry, flow, PluginCallback
<1>2. NewIsBare'
  BY DEF IInv, TypeOK, NewIsBare, entry, flow, PluginCallback, Goes, Reports
<1>3. DriverPlaces'
  BY Kinds DEF IInv, TypeOK, DriverPlaces, entry, flow, PluginCallback, Goes, Reports
<1>4. OnlyWaitersOpen'
  <2>1. listener[t] # "serving" /\ cli[t] = "none"
    BY Kinds DEF IInv, OnlyWaitersOpen, DriverPlaces, PluginCallback
  <2>2. \A u \in Tasks \ {t} : bg'[u] = bg[u]
    BY DEF IInv, TypeOK, PluginCallback, Goes, Reports
  <2> QED BY <2>1, <2>2 DEF IInv, OnlyWaitersOpen, PluginCallback, flow
<1>5. SuccessIsKept'
  BY DEF IInv, TypeOK, SuccessIsKept, entry, flow, PluginCallback, Goes, Reports
<1>6. RequestPlaces'
  BY Kinds DEF IInv, TypeOK, RequestPlaces, RequestOK, entry, flow, PluginCallback, Goes, Reports
<1>7. MarkersReported'
  BY DEF IInv, TypeOK, MarkersReported, entry, flow, PluginCallback, Goes, Reports
<1>8. OnlyThisSignIn'
  BY DEF IInv, TypeOK, OnlyThisSignIn, entry, flow, PluginCallback, Goes, Reports
<1>9. OnlySettledAge' /\ UntakenUnspent'
  BY DEF IInv, OnlySettledAge, UntakenUnspent, entry, flow, PluginCallback
<1> QED BY <1>1, <1>2, <1>3, <1>4, <1>5, <1>6, <1>7, <1>8, <1>9 DEF IInv

LEMMA PluginRetriesKeeps ==
  ASSUME IInv, NEW t \in Tasks, PluginRetries(t)
  PROVE  IInv'
<1>1. TypeOK'
  <2>1. /\ bg' \in [Tasks -> Running \cup {"none", "ended", "aborted"}]
        /\ result' \in [Tasks -> {"none", "done", "failed"}]
    BY GoesType, ReportsType, Kinds DEF IInv, TypeOK, PluginRetries
  <2> QED BY <2>1 DEF IInv, TypeOK, entry, flow, history, PluginRetries
<1>2. NewIsBare'
  BY DEF IInv, TypeOK, NewIsBare, entry, flow, history, PluginRetries, Goes, Reports
<1>3. DriverPlaces'
  BY Kinds DEF IInv, TypeOK, DriverPlaces, entry, flow, history, PluginRetries, Goes, Reports
<1>4. OnlyWaitersOpen'
  BY Kinds DEF IInv, TypeOK, OnlyWaitersOpen, entry, flow, history, PluginRetries, Goes, Reports
<1>5. SuccessIsKept'
  BY DEF IInv, TypeOK, SuccessIsKept, entry, flow, history, PluginRetries, Goes, Reports
<1>6. MarkersReported'
  BY DEF IInv, TypeOK, MarkersReported, entry, flow, history, PluginRetries, Goes, Reports
<1>7. RequestPlaces' /\ OnlySettledAge' /\ UntakenUnspent' /\ OnlyThisSignIn'
  BY DEF IInv, RequestPlaces, OnlySettledAge, UntakenUnspent, OnlyThisSignIn, RequestOK, entry,
     flow, history, PluginRetries
<1> QED BY <1>1, <1>2, <1>3, <1>4, <1>5, <1>6, <1>7 DEF IInv

LEMMA WaitOnCliKeeps ==
  ASSUME IInv, NEW t \in Tasks, WaitOnCli(t)
  PROVE  IInv'
<1>1. TypeOK'
  <2>1. /\ bg' \in [Tasks -> Running \cup {"none", "ended", "aborted"}]
        /\ result' \in [Tasks -> {"none", "done", "failed"}]
    BY GoesType, ReportsType, Kinds DEF IInv, TypeOK, WaitOnCli
  <2> QED BY <2>1 DEF IInv, TypeOK, entry, history, WaitOnCli
<1>2. NewIsBare'
  BY DEF IInv, TypeOK, NewIsBare, entry, history, WaitOnCli, Goes, Reports
<1>3. DriverPlaces'
  BY Kinds DEF IInv, TypeOK, DriverPlaces, entry, history, WaitOnCli, Goes, Reports
<1>4. OnlyWaitersOpen'
  BY Kinds DEF IInv, TypeOK, OnlyWaitersOpen, entry, history, WaitOnCli, Goes, Reports
<1>5. SuccessIsKept'
  BY DEF IInv, TypeOK, SuccessIsKept, entry, history, WaitOnCli, Goes, Reports
<1>6. MarkersReported'
  BY DEF IInv, TypeOK, MarkersReported, entry, history, WaitOnCli, Goes, Reports
<1>7. RequestPlaces' /\ OnlySettledAge' /\ UntakenUnspent' /\ OnlyThisSignIn'
  BY DEF IInv, RequestPlaces, OnlySettledAge, UntakenUnspent, OnlyThisSignIn, RequestOK, entry,
     history, WaitOnCli
<1> QED BY <1>1, <1>2, <1>3, <1>4, <1>5, <1>6, <1>7 DEF IInv

LEMMA CliExitsKeeps ==
  ASSUME IInv, NEW t \in Tasks, NEW well \in BOOLEAN, CliExits(t, well)
  PROVE  IInv'
<1>1. TypeOK'
  BY DEF IInv, TypeOK, entry, history, CliExits, ClaudeStarts
<1>2. NewIsBare'
  BY DEF IInv, TypeOK, NewIsBare, entry, history, CliExits, ClaudeStarts
<1>3. DriverPlaces'
  BY Kinds DEF IInv, TypeOK, DriverPlaces, entry, history, CliExits, ClaudeStarts
<1>4. OnlyWaitersOpen'
  BY Kinds DEF IInv, TypeOK, OnlyWaitersOpen, entry, history, CliExits, ClaudeStarts
<1>5. /\ SuccessIsKept' /\ RequestPlaces' /\ MarkersReported' /\ OnlySettledAge'
      /\ UntakenUnspent' /\ OnlyThisSignIn'
  BY DEF IInv, SuccessIsKept, RequestPlaces, MarkersReported, OnlySettledAge, UntakenUnspent,
     OnlyThisSignIn, RequestOK, entry, history, CliExits
<1> QED BY <1>1, <1>2, <1>3, <1>4, <1>5 DEF IInv

LEMMA CliReapedKeeps ==
  ASSUME IInv, NEW t \in Tasks, CliReaped(t)
  PROVE  IInv'
<1>1. TypeOK'
  <2>1. /\ bg' \in [Tasks -> Running \cup {"none", "ended", "aborted"}]
        /\ result' \in [Tasks -> {"none", "done", "failed"}]
    BY GoesType, ReportsType, Kinds DEF IInv, TypeOK, CliReaped
  <2> QED BY <2>1 DEF IInv, TypeOK, entry, flow, history, CliReaped
<1>2. NewIsBare'
  BY DEF IInv, TypeOK, NewIsBare, entry, flow, history, CliReaped, Goes, Reports
<1>3. DriverPlaces'
  BY Kinds DEF IInv, TypeOK, DriverPlaces, entry, flow, history, CliReaped, Goes, Reports
<1>4. OnlyWaitersOpen'
  BY Kinds DEF IInv, TypeOK, OnlyWaitersOpen, NewIsBare, DriverPlaces, entry, flow, history,
     CliReaped, Goes, Reports
<1>5. SuccessIsKept'
  BY DEF IInv, TypeOK, SuccessIsKept, entry, flow, history, CliReaped, Goes, Reports
<1>6. MarkersReported'
  BY DEF IInv, TypeOK, MarkersReported, entry, flow, history, CliReaped, Goes, Reports
<1>7. RequestPlaces' /\ OnlySettledAge' /\ UntakenUnspent' /\ OnlyThisSignIn'
  BY DEF IInv, RequestPlaces, OnlySettledAge, UntakenUnspent, OnlyThisSignIn, RequestOK, entry,
     flow, history, CliReaped
<1> QED BY <1>1, <1>2, <1>3, <1>4, <1>5, <1>6, <1>7 DEF IInv

LEMMA DriverReportsKeeps ==
  ASSUME IInv, NEW t \in Tasks, DriverReports(t)
  PROVE  IInv'
<1>1. TypeOK'
  <2>1. bg' \in [Tasks -> Running \cup {"none", "ended", "aborted"}]
    BY Kinds DEF IInv, TypeOK, DriverPlaces, flow, DriverReports, Goes, update_task
  <2>2. state' \in [Tasks -> {"waiting", "done", "failed"}]
    BY Kinds DEF IInv, TypeOK, DriverPlaces, flow, DriverReports, Goes, update_task
  <2>3. early' \in [Tasks -> BOOLEAN]
    BY Kinds DEF IInv, TypeOK, DriverPlaces, flow, DriverReports, Goes, update_task
  <2> QED BY <2>1, <2>2, <2>3 DEF IInv, TypeOK, flow, DriverReports
<1>2. NewIsBare'
  BY DEF IInv, TypeOK, NewIsBare, flow, DriverReports, Goes, update_task
<1>3. DriverPlaces'
  BY Kinds DEF IInv, TypeOK, DriverPlaces, flow, DriverReports, Goes, update_task
<1>4. OnlyWaitersOpen'
  BY Kinds DEF IInv, TypeOK, OnlyWaitersOpen, flow, DriverReports, Goes, update_task
<1>5. SuccessIsKept'
  BY DEF IInv, TypeOK, SuccessIsKept, flow, DriverReports, Goes, update_task
<1>6. RequestPlaces'
  BY Kinds DEF IInv, TypeOK, RequestPlaces, RequestOK, flow, DriverReports, Goes, update_task
<1>7. MarkersReported'
  <2>1. phase[t] # "new"
    BY DEF IInv, NewIsBare, DriverReports
  <2>2. ASSUME NEW u \in Tasks, bg'[u] = "mark"
        PROVE  phase'[u] = "gone" \/ state'[u] # "waiting" \/ early'[u]
    <3>1. CASE u = t
      <4>1. phase[t] \in {"spawned", "in", "gone"} /\ result[t] \in {"done", "failed"}
        BY <2>1 DEF IInv, TypeOK, DriverPlaces, DriverReports
      <4>2. CASE phase[t] = "in"
        BY <3>1, <4>1, <4>2 DEF IInv, TypeOK, DriverReports, update_task
      <4>3. CASE phase[t] = "spawned"
        BY <3>1, <4>3 DEF IInv, TypeOK, DriverReports
      <4>4. CASE phase[t] = "gone"
        BY <3>1, <4>4 DEF DriverReports
      <4> QED BY <4>1, <4>2, <4>3, <4>4
    <3>2. CASE u # t
      BY <2>2, <3>2 DEF IInv, TypeOK, MarkersReported, DriverReports, update_task, Goes
    <3> QED BY <3>1, <3>2
  <2> QED BY <2>2 DEF MarkersReported
<1>8. OnlySettledAge'
  <2>1. ASSUME NEW u \in Tasks, finished'[u] # "no" PROVE state'[u] # "waiting" \/ early'[u]
    <3>1. CASE u = t
      BY <2>1, <3>1 DEF IInv, TypeOK, OnlySettledAge, DriverPlaces, DriverReports, update_task
    <3>2. CASE u # t
      BY <2>1, <3>2 DEF IInv, TypeOK, OnlySettledAge, DriverReports, update_task
    <3> QED BY <3>1, <3>2
  <2> QED BY <2>1 DEF OnlySettledAge
<1>9. UntakenUnspent' /\ OnlyThisSignIn'
  BY DEF IInv, UntakenUnspent, OnlyThisSignIn, flow, DriverReports
<1> QED BY <1>1, <1>2, <1>3, <1>4, <1>5, <1>6, <1>7, <1>8, <1>9 DEF IInv

LEMMA DriverMarksKeeps ==
  ASSUME IInv, NEW t \in Tasks, DriverMarks(t)
  PROVE  IInv'
<1>1. TypeOK'
  BY Kinds DEF IInv, TypeOK, flow, history, DriverMarks, Goes, mark_finished
<1>2. NewIsBare'
  BY DEF IInv, TypeOK, NewIsBare, flow, history, DriverMarks, Goes, mark_finished
<1>3. DriverPlaces'
  BY Kinds DEF IInv, TypeOK, DriverPlaces, flow, history, DriverMarks, Goes, mark_finished
<1>4. OnlyWaitersOpen'
  BY Kinds DEF IInv, TypeOK, OnlyWaitersOpen, flow, history, DriverMarks, Goes, mark_finished
<1>5. MarkersReported'
  BY DEF IInv, TypeOK, MarkersReported, flow, history, DriverMarks, Goes, mark_finished
<1>6. OnlySettledAge'
  BY DEF IInv, TypeOK, OnlySettledAge, MarkersReported, flow, history, DriverMarks, Goes,
     mark_finished
<1>7. SuccessIsKept' /\ RequestPlaces' /\ UntakenUnspent' /\ OnlyThisSignIn'
  BY DEF IInv, SuccessIsKept, RequestPlaces, UntakenUnspent, OnlyThisSignIn, RequestOK, flow,
     history, DriverMarks
<1> QED BY <1>1, <1>2, <1>3, <1>4, <1>5, <1>6, <1>7 DEF IInv

LEMMA DriverAbortedKeeps ==
  ASSUME IInv, NEW t \in Tasks, DriverAborted(t)
  PROVE  IInv'
<1>1. TypeOK'
  BY Kinds DEF IInv, TypeOK, entry, history, DriverAborted, Goes, StopServing, Abortable
<1>2. NewIsBare'
  <2>1. phase[t] # "new"
    BY DEF IInv, NewIsBare, DriverAborted, Abortable, Suspended
  <2> QED BY <2>1 DEF IInv, TypeOK, NewIsBare, DriverAborted, Goes, StopServing, entry
<1>3. DriverPlaces'
  <2>1. ~early[t] /\ bg[t] \in Suspended
    BY DEF IInv, DriverPlaces, DriverAborted, Abortable, Suspended
  <2> QED BY <2>1 DEF IInv, TypeOK, DriverPlaces, DriverAborted, Goes, history
<1>4. OnlyWaitersOpen'
  BY Kinds DEF IInv, TypeOK, OnlyWaitersOpen, DriverPlaces, entry, history, DriverAborted, Goes,
     StopServing, Abortable
<1>5. MarkersReported'
  BY DEF IInv, TypeOK, MarkersReported, entry, history, DriverAborted, Goes, StopServing, Abortable
<1>6. SuccessIsKept' /\ RequestPlaces' /\ OnlySettledAge' /\ UntakenUnspent' /\ OnlyThisSignIn'
  BY DEF IInv, SuccessIsKept, RequestPlaces, OnlySettledAge, UntakenUnspent, OnlyThisSignIn,
     RequestOK, entry, history, DriverAborted
<1> QED BY <1>1, <1>2, <1>3, <1>4, <1>5, <1>6 DEF IInv

LEMMA TimePassesKeeps ==
  ASSUME IInv, NEW t \in Tasks, TimePasses(t)
  PROVE  IInv'
<1>1. TypeOK'
  BY DEF IInv, TypeOK, flow, history, TimePasses
<1>2. OnlySettledAge'
  BY DEF IInv, TypeOK, OnlySettledAge, flow, history, TimePasses
<1>3. /\ NewIsBare' /\ DriverPlaces' /\ OnlyWaitersOpen' /\ SuccessIsKept' /\ RequestPlaces'
      /\ MarkersReported' /\ UntakenUnspent' /\ OnlyThisSignIn'
  BY DEF IInv, NewIsBare, DriverPlaces, OnlyWaitersOpen, SuccessIsKept, RequestPlaces,
     MarkersReported, UntakenUnspent, OnlyThisSignIn, RequestOK, flow, history, TimePasses
<1> QED BY <1>1, <1>2, <1>3 DEF IInv

LEMMA DeadlinePassesKeeps ==
  ASSUME IInv, NEW t \in Tasks, DeadlinePasses(t)
  PROVE  IInv'
<1>1. TypeOK'
  BY DEF IInv, TypeOK, entry, flow, history, DeadlinePasses
<1>2. /\ NewIsBare' /\ DriverPlaces' /\ OnlyWaitersOpen' /\ SuccessIsKept' /\ RequestPlaces'
      /\ MarkersReported' /\ OnlySettledAge' /\ UntakenUnspent' /\ OnlyThisSignIn'
  BY DEF IInv, NewIsBare, DriverPlaces, OnlyWaitersOpen, SuccessIsKept, RequestPlaces,
     MarkersReported, OnlySettledAge, UntakenUnspent, OnlyThisSignIn, RequestOK, entry, flow,
     history, DeadlinePasses
<1> QED BY <1>1, <1>2 DEF IInv

LEMMA submitKeeps ==
  ASSUME IInv, NEW c \in Clients, NEW t \in Tasks, NEW i \in Pastes, submit(c, t, i)
  PROVE  IInv'
<1>0. /\ req' \in [Clients -> Request]
      /\ req'[c].pc \in {"cli", "plugin", "join", "finish"}
      /\ req'[c].task = t /\ req'[c].result = "none"
      /\ \A d \in Clients \ {c} : req'[d] = req[d]
  BY DEF IInv, TypeOK, Request, submit
<1>1. TypeOK'
  <2>1. \/ handle' = [handle EXCEPT ![t] = FALSE] /\ aborting' = [aborting EXCEPT ![t] = @ \/ handle[t]]
        \/ UNCHANGED <<handle, aborting>>
    BY DEF submit
  <2>2. handle \in [Tasks -> BOOLEAN]
    BY DEF IInv, TypeOK
  <2>3. handle' \in [Tasks -> BOOLEAN]
    BY <2>1, <2>2
  <2>4. aborting' \in [Tasks -> BOOLEAN]
    BY <2>1 DEF IInv, TypeOK
  <2> QED BY <1>0, <2>1, <2>2, <2>3, <2>4 DEF IInv, TypeOK, flow, history, submit
<1>2. RequestPlaces'
  <2>1. RequestOK(c)'
    BY <1>0, Kinds DEF IInv, TypeOK, RequestPlaces, RequestOK, flow, history, submit
  <2>2. ASSUME NEW d \in Clients \ {c} PROVE RequestOK(d)'
    BY <1>0, Kinds DEF IInv, TypeOK, RequestPlaces, RequestOK, flow, history, submit
  <2> QED BY <2>1, <2>2 DEF RequestPlaces
<1>3. /\ NewIsBare' /\ DriverPlaces' /\ OnlyWaitersOpen' /\ SuccessIsKept' /\ MarkersReported'
      /\ OnlySettledAge' /\ UntakenUnspent' /\ OnlyThisSignIn'
  BY DEF IInv, NewIsBare, DriverPlaces, OnlyWaitersOpen, SuccessIsKept, MarkersReported,
     OnlySettledAge, UntakenUnspent, OnlyThisSignIn, flow, history, submit
<1> QED BY <1>1, <1>2, <1>3 DEF IInv

LEMMA SubmitJoinedKeeps ==
  ASSUME IInv, NEW c \in Clients, SubmitJoined(c)
  PROVE  IInv'
<1>t. req[c].task \in Tasks /\ req[c].pc = "join"
  BY DEF IInv, RequestPlaces, RequestOK, SubmitJoined
<1>0. Moved(c, "finish", req[c].result)
  BY AskMoves DEF IInv, SubmitJoined
<1>1. TypeOK'
  BY <1>t, <1>0 DEF IInv, TypeOK, entry, flow, history, SubmitJoined, Moved
<1>2. RequestPlaces'
  <2>1. RequestOK(c)'
    BY <1>t, <1>0, Kinds DEF IInv, TypeOK, RequestPlaces, RequestOK, entry, flow, history,
       SubmitJoined, Moved
  <2>2. ASSUME NEW d \in Clients \ {c} PROVE RequestOK(d)'
    BY <1>t, <1>0, Kinds DEF IInv, TypeOK, RequestPlaces, RequestOK, entry, flow, history,
       SubmitJoined, Moved
  <2> QED BY <2>1, <2>2 DEF RequestPlaces
<1>3. /\ NewIsBare' /\ DriverPlaces' /\ OnlyWaitersOpen' /\ SuccessIsKept' /\ MarkersReported'
      /\ OnlySettledAge' /\ UntakenUnspent' /\ OnlyThisSignIn'
  BY DEF IInv, NewIsBare, DriverPlaces, OnlyWaitersOpen, SuccessIsKept, MarkersReported,
     OnlySettledAge, UntakenUnspent, OnlyThisSignIn, entry, flow, history, SubmitJoined
<1> QED BY <1>1, <1>2, <1>3 DEF IInv

LEMMA finish_pastedKeeps ==
  ASSUME IInv, NEW c \in Clients, finish_pasted(c)
  PROVE  IInv'
<1>t. req[c].task \in Tasks /\ req[c].pc = "finish" /\ req[c].input \in Pastes /\ req[c].input \in Inputs
  BY SignInAssumption DEF IInv, TypeOK, Request, RequestPlaces, RequestOK, finish_pasted
<1>0. \/ /\ Moved(c, "exchange", req[c].result)
         /\ session[req[c].task] = "live" /\ session' = [session EXCEPT ![req[c].task] = "taken"]
         /\ exchanges' \in [Tasks -> [times : Nat, own : BOOLEAN]]
         /\ exchanges'[req[c].task].times = exchanges[req[c].task].times + 1
         /\ exchanges'[req[c].task].own = exchanges[req[c].task].own
         /\ \A u \in Tasks \ {req[c].task} : exchanges'[u] = exchanges[u]
      \/ UNCHANGED <<session, exchanges>> /\ Moved(c, "report", "failed")
  BY <1>t, AskMoves, RefuseMoves, SpendFacts, PastedIsOwn DEF IInv, finish_pasted
<1>1. TypeOK'
  <2>1. req' \in [Clients -> Request]
    BY <1>0 DEF Moved
  <2>2. session' = session \/ session' = [session EXCEPT ![req[c].task] = "taken"]
    BY <1>0
  <2>3. session' \in [Tasks -> {"none", "live", "taken"}]
    BY <2>2, <1>t DEF IInv, TypeOK
  <2>4. exchanges' \in [Tasks -> [times : Nat, own : BOOLEAN]]
    BY <1>0 DEF IInv, TypeOK
  <2> QED BY <1>t, <1>0, <2>1, <2>2, <2>3, <2>4 DEF IInv, TypeOK, entry, finish_pasted, Moved
<1>2. NewIsBare'
  BY <1>t, <1>0 DEF IInv, TypeOK, NewIsBare, entry, finish_pasted, Moved
<1>3. RequestPlaces'
  <2>1. RequestOK(c)'
    BY <1>t, <1>0, Kinds DEF IInv, TypeOK, RequestPlaces, RequestOK, entry, finish_pasted, Moved
  <2>2. ASSUME NEW d \in Clients \ {c} PROVE RequestOK(d)'
    BY <1>t, <1>0, Kinds DEF IInv, TypeOK, RequestPlaces, RequestOK, entry, finish_pasted, Moved
  <2> QED BY <2>1, <2>2 DEF RequestPlaces
<1>4. UntakenUnspent'
  BY <1>t, <1>0, Kinds DEF IInv, TypeOK, UntakenUnspent, NewIsBare, entry, finish_pasted, Moved
<1>5. OnlyThisSignIn'
  <2>1. \A u \in Tasks : exchanges'[u].own = exchanges[u].own
    BY <1>0, <1>t
  <2> QED BY <2>1 DEF IInv, OnlyThisSignIn, finish_pasted
<1>6. DriverPlaces' /\ OnlyWaitersOpen' /\ SuccessIsKept' /\ MarkersReported' /\ OnlySettledAge'
  BY DEF IInv, DriverPlaces, OnlyWaitersOpen, SuccessIsKept, MarkersReported, OnlySettledAge, entry,
     finish_pasted
<1> QED BY <1>1, <1>2, <1>3, <1>4, <1>5, <1>6 DEF IInv

LEMMA SiwcFinishKeeps ==
  ASSUME IInv, NEW c \in Clients, SiwcFinish(c)
  PROVE  IInv'
<1>t. req[c].task \in Tasks /\ req[c].pc = "finish" /\ req[c].input \in Pastes /\ req[c].input \in Inputs
  BY SignInAssumption DEF IInv, TypeOK, Request, RequestPlaces, RequestOK, SiwcFinish
<1>0. \/ /\ Moved(c, "exchange", req[c].result)
         /\ exchanges' \in [Tasks -> [times : Nat, own : BOOLEAN]]
         /\ exchanges'[req[c].task].own = exchanges[req[c].task].own
         /\ \A u \in Tasks \ {req[c].task} : exchanges'[u] = exchanges[u]
      \/ UNCHANGED exchanges /\ Moved(c, "report", "failed")
  BY <1>t, AskMoves, RefuseMoves, SpendFacts, PastedIsOwn DEF IInv, SiwcFinish
<1>1. TypeOK'
  BY <1>t, <1>0 DEF IInv, TypeOK, entry, flow, SiwcFinish, Moved
<1>2. RequestPlaces'
  <2>1. RequestOK(c)'
    BY <1>t, <1>0, Kinds DEF IInv, TypeOK, RequestPlaces, RequestOK, entry, flow, SiwcFinish, Moved
  <2>2. ASSUME NEW d \in Clients \ {c} PROVE RequestOK(d)'
    BY <1>t, <1>0, Kinds DEF IInv, TypeOK, RequestPlaces, RequestOK, entry, flow, SiwcFinish, Moved
  <2> QED BY <2>1, <2>2 DEF RequestPlaces
<1>3. UntakenUnspent'
  <2>1. req[c].task \in Tasks /\ kind[req[c].task] \notin Pkce
    BY <1>t, Kinds DEF SiwcFinish
  <2>2. \A u \in Tasks \ {req[c].task} : exchanges'[u] = exchanges[u]
    BY <1>0
  <2> QED BY <2>1, <2>2 DEF IInv, UntakenUnspent, SiwcFinish, flow
<1>4. OnlyThisSignIn'
  BY <1>t, <1>0 DEF IInv, TypeOK, OnlyThisSignIn, entry, flow, SiwcFinish, Moved
<1>5. /\ NewIsBare' /\ DriverPlaces' /\ OnlyWaitersOpen' /\ SuccessIsKept' /\ MarkersReported'
      /\ OnlySettledAge'
  BY DEF IInv, NewIsBare, DriverPlaces, OnlyWaitersOpen, SuccessIsKept, MarkersReported,
     OnlySettledAge, entry, flow, SiwcFinish
<1> QED BY <1>1, <1>2, <1>3, <1>4, <1>5 DEF IInv

LEMMA SubmitAnsweredKeeps ==
  ASSUME IInv, NEW c \in Clients, NEW r \in Answers, SubmitAnswered(c, r)
  PROVE  IInv'
<1>t. req[c].task \in Tasks /\ req[c].pc = "exchange"
  BY DEF IInv, RequestPlaces, RequestOK, SubmitAnswered
<1>a. PICK res \in {"done", "failed"} : /\ Settles(req[c].task, r, res)
        /\ req' = [req EXCEPT ![c].pc = "report", ![c].result = res]
  BY DEF SubmitAnswered
<1>s. /\ kept' \in [Tasks -> {"none", "own", "foreign"}]
      /\ res = "done" => kept'[req[c].task] # "none"
      /\ \A u \in Tasks : kept[u] # "none" => kept'[u] # "none"
      /\ \A u \in Tasks : kind[u] = "chatgpt-api" /\ kept[u] # "foreign" => kept'[u] # "foreign"
  BY <1>t, <1>a, SettlesFacts DEF IInv, RequestPlaces, RequestOK
<1>0. Moved(c, "report", res)
  BY <1>a, ResultMoves DEF IInv
<1>1. TypeOK'
  BY <1>t, <1>0, <1>s DEF IInv, TypeOK, entry, flow, SubmitAnswered, Moved
<1>2. SuccessIsKept'
  BY <1>t, <1>0, <1>s DEF IInv, TypeOK, SuccessIsKept, entry, flow, SubmitAnswered, Moved
<1>3. RequestPlaces'
  <2>1. RequestOK(c)'
    BY <1>t, <1>0, <1>s, Kinds DEF IInv, TypeOK, RequestPlaces, RequestOK, entry, flow,
       SubmitAnswered, Moved
  <2>2. ASSUME NEW d \in Clients \ {c} PROVE RequestOK(d)'
    BY <1>t, <1>0, <1>s, Kinds DEF IInv, TypeOK, RequestPlaces, RequestOK, entry, flow,
       SubmitAnswered, Moved
  <2> QED BY <2>1, <2>2 DEF RequestPlaces
<1>4. OnlyThisSignIn'
  BY <1>t, <1>0, <1>s DEF IInv, TypeOK, OnlyThisSignIn, entry, flow, SubmitAnswered, Moved
<1>5. /\ NewIsBare' /\ DriverPlaces' /\ OnlyWaitersOpen' /\ MarkersReported'
      /\ OnlySettledAge' /\ UntakenUnspent'
  BY DEF IInv, NewIsBare, DriverPlaces, OnlyWaitersOpen, MarkersReported, OnlySettledAge,
     UntakenUnspent, entry, flow, SubmitAnswered, Settles
<1> QED BY <1>1, <1>2, <1>3, <1>4, <1>5 DEF IInv

LEMMA SubmitToPluginKeeps ==
  ASSUME IInv, NEW c \in Clients, SubmitToPlugin(c)
  PROVE  IInv'
<1>t. req[c].task \in Tasks /\ req[c].pc = "plugin"
  BY DEF IInv, RequestPlaces, RequestOK, SubmitToPlugin
<1>0. \/ kept' = [kept EXCEPT ![req[c].task] = "own"] /\ Moved(c, "report", "done")
      \/ UNCHANGED kept /\ Moved(c, "report", "failed")
  BY ResultMoves, RefuseMoves DEF IInv, SubmitToPlugin
<1>1. TypeOK'
  BY <1>t, <1>0 DEF IInv, TypeOK, DriverPlaces, RequestPlaces, RequestOK, entry, flow,
     SubmitToPlugin, Moved
<1>2. SuccessIsKept'
  BY <1>t, <1>0 DEF IInv, TypeOK, SuccessIsKept, entry, flow, SubmitToPlugin, Moved
<1>3. RequestPlaces'
  <2>1. RequestOK(c)'
    BY <1>t, <1>0, Kinds DEF IInv, TypeOK, RequestPlaces, RequestOK, entry, flow, SubmitToPlugin,
       Moved
  <2>2. ASSUME NEW d \in Clients \ {c} PROVE RequestOK(d)'
    BY <1>t, <1>0, Kinds DEF IInv, TypeOK, RequestPlaces, RequestOK, entry, flow, SubmitToPlugin,
       Moved
  <2> QED BY <2>1, <2>2 DEF RequestPlaces
<1>4. OnlyThisSignIn'
  BY <1>t, <1>0 DEF IInv, TypeOK, OnlyThisSignIn, entry, flow, SubmitToPlugin, Moved
<1>5. /\ NewIsBare' /\ DriverPlaces' /\ OnlyWaitersOpen' /\ MarkersReported'
      /\ OnlySettledAge' /\ UntakenUnspent'
  BY DEF IInv, NewIsBare, DriverPlaces, OnlyWaitersOpen, MarkersReported, OnlySettledAge,
     UntakenUnspent, entry, flow, SubmitToPlugin
<1> QED BY <1>1, <1>2, <1>3, <1>4, <1>5 DEF IInv

LEMMA SubmitToCliKeeps ==
  ASSUME IInv, NEW c \in Clients, SubmitToCli(c)
  PROVE  IInv'
<1>t. req[c].task \in Tasks /\ req[c].pc = "cli"
  BY DEF IInv, RequestPlaces, RequestOK, SubmitToCli
<1>0. Moved(c, "answer", req[c].result) \/ Moved(c, "report", "failed")
  BY AskMoves, RefuseMoves DEF IInv, SubmitToCli
<1>1. TypeOK'
  BY <1>t, <1>0 DEF IInv, TypeOK, entry, flow, history, SubmitToCli, Moved
<1>2. RequestPlaces'
  <2>1. RequestOK(c)'
    BY <1>t, <1>0, Kinds DEF IInv, TypeOK, RequestPlaces, RequestOK, entry, flow, history,
       SubmitToCli, Moved
  <2>2. ASSUME NEW d \in Clients \ {c} PROVE RequestOK(d)'
    BY <1>t, <1>0, Kinds DEF IInv, TypeOK, RequestPlaces, RequestOK, entry, flow, history,
       SubmitToCli, Moved
  <2> QED BY <2>1, <2>2 DEF RequestPlaces
<1>3. /\ NewIsBare' /\ DriverPlaces' /\ OnlyWaitersOpen' /\ SuccessIsKept' /\ MarkersReported'
      /\ OnlySettledAge' /\ UntakenUnspent' /\ OnlyThisSignIn'
  BY DEF IInv, NewIsBare, DriverPlaces, OnlyWaitersOpen, SuccessIsKept, MarkersReported,
     OnlySettledAge, UntakenUnspent, OnlyThisSignIn, entry, flow, history, SubmitToCli
<1> QED BY <1>1, <1>2, <1>3 DEF IInv

LEMMA SubmitReportsKeeps ==
  ASSUME IInv, NEW c \in Clients, SubmitReports(c)
  PROVE  IInv'
<1>t. req[c].task \in Tasks /\ req[c].pc = "report" /\ req[c].result \in {"done", "failed"}
  BY DEF IInv, TypeOK, Request, RequestPlaces, RequestOK, SubmitReports
<1>0. Moved(c, IF kind[req[c].task] = "plugin" THEN "mark" ELSE "answer", req[c].result)
  BY AskMoves DEF IInv, SubmitReports
<1>1. TypeOK'
  BY <1>t, <1>0 DEF IInv, TypeOK, flow, history, SubmitReports, update_task, Moved
<1>2. SuccessIsKept'
  BY <1>t, <1>0 DEF IInv, TypeOK, SuccessIsKept, RequestPlaces, RequestOK, flow, history,
     SubmitReports, update_task, Moved
<1>3. RequestPlaces'
  <2>1. RequestOK(c)'
    BY <1>t, <1>0, Kinds DEF IInv, TypeOK, RequestPlaces, RequestOK, flow, history, SubmitReports,
       update_task, Moved
  <2>2. ASSUME NEW d \in Clients \ {c} PROVE RequestOK(d)'
    BY <1>t, <1>0, Kinds DEF IInv, TypeOK, RequestPlaces, RequestOK, flow, history, SubmitReports,
       update_task, Moved
  <2> QED BY <2>1, <2>2 DEF RequestPlaces
<1>4. MarkersReported'
  BY <1>t, <1>0 DEF IInv, TypeOK, MarkersReported, flow, history, SubmitReports, update_task, Moved
<1>5. OnlySettledAge'
  BY <1>t, <1>0 DEF IInv, TypeOK, OnlySettledAge, flow, history, SubmitReports, update_task, Moved
<1>6. NewIsBare' /\ DriverPlaces' /\ OnlyWaitersOpen' /\ UntakenUnspent' /\ OnlyThisSignIn'
  BY DEF IInv, NewIsBare, DriverPlaces, OnlyWaitersOpen, UntakenUnspent, OnlyThisSignIn, flow,
     history, SubmitReports
<1> QED BY <1>1, <1>2, <1>3, <1>4, <1>5, <1>6 DEF IInv

LEMMA SubmitMarksKeeps ==
  ASSUME IInv, NEW c \in Clients, SubmitMarks(c)
  PROVE  IInv'
<1>t. req[c].task \in Tasks /\ req[c].pc = "mark"
  BY DEF IInv, RequestPlaces, RequestOK, SubmitMarks
<1>0. Moved(c, "answer", req[c].result)
  BY AskMoves DEF IInv, SubmitMarks
<1>1. TypeOK'
  BY <1>t, <1>0 DEF IInv, TypeOK, flow, history, SubmitMarks, mark_finished, Moved
<1>2. RequestPlaces'
  <2>1. RequestOK(c)'
    BY <1>t, <1>0, Kinds DEF IInv, TypeOK, RequestPlaces, RequestOK, flow, history, SubmitMarks,
       mark_finished, Moved
  <2>2. ASSUME NEW d \in Clients \ {c} PROVE RequestOK(d)'
    BY <1>t, <1>0, Kinds DEF IInv, TypeOK, RequestPlaces, RequestOK, flow, history, SubmitMarks,
       mark_finished, Moved
  <2> QED BY <2>1, <2>2 DEF RequestPlaces
<1>3. OnlySettledAge'
  BY <1>t, <1>0 DEF IInv, TypeOK, OnlySettledAge, RequestPlaces, RequestOK, flow, history,
     SubmitMarks, mark_finished, Moved
<1>4. /\ NewIsBare' /\ DriverPlaces' /\ OnlyWaitersOpen' /\ SuccessIsKept' /\ MarkersReported'
      /\ UntakenUnspent' /\ OnlyThisSignIn'
  BY DEF IInv, NewIsBare, DriverPlaces, OnlyWaitersOpen, SuccessIsKept, MarkersReported,
     UntakenUnspent, OnlyThisSignIn, flow, history, SubmitMarks
<1> QED BY <1>1, <1>2, <1>3, <1>4 DEF IInv

LEMMA SubmitAnswersKeeps ==
  ASSUME IInv, NEW c \in Clients, SubmitAnswers(c)
  PROVE  IInv'
<1>0. /\ req' \in [Clients -> Request] /\ req'[c] = NoRequest
      /\ \A d \in Clients \ {c} : req'[d] = req[d]
  BY DoneMoves DEF IInv, SubmitAnswers
<1>1. TypeOK'
  BY <1>0, NoRequestFacts DEF IInv, TypeOK, flow, history, SubmitAnswers, Pruned
<1>2. NewIsBare'
  BY <1>0, NoRequestFacts DEF IInv, TypeOK, NewIsBare, flow, history, SubmitAnswers, Pruned
<1>3. RequestPlaces'
  <2>1. RequestOK(c)'
    BY <1>0, NoRequestFacts, Kinds DEF IInv, TypeOK, RequestPlaces, RequestOK, flow, history,
       SubmitAnswers, Pruned
  <2>2. ASSUME NEW d \in Clients \ {c} PROVE RequestOK(d)'
    BY <1>0, NoRequestFacts, Kinds DEF IInv, TypeOK, RequestPlaces, RequestOK, flow, history,
       SubmitAnswers, Pruned
  <2> QED BY <2>1, <2>2 DEF RequestPlaces
<1>4. MarkersReported'
  BY <1>0, NoRequestFacts DEF IInv, TypeOK, MarkersReported, flow, history, SubmitAnswers, Pruned
<1>5. /\ DriverPlaces' /\ OnlyWaitersOpen' /\ SuccessIsKept' /\ OnlySettledAge'
      /\ UntakenUnspent' /\ OnlyThisSignIn'
  BY DEF IInv, DriverPlaces, OnlyWaitersOpen, SuccessIsKept, OnlySettledAge, UntakenUnspent,
     OnlyThisSignIn, flow, history, SubmitAnswers
<1> QED BY <1>1, <1>2, <1>3, <1>4, <1>5 DEF IInv

LEMMA RequestDroppedKeeps ==
  ASSUME IInv, NEW c \in Clients, RequestDropped(c)
  PROVE  IInv'
<1>0. /\ req' \in [Clients -> Request] /\ req'[c] = NoRequest
      /\ \A d \in Clients \ {c} : req'[d] = req[d]
  BY DoneMoves DEF IInv, RequestDropped
<1>1. TypeOK'
  BY <1>0, NoRequestFacts DEF IInv, TypeOK, entry, flow, RequestDropped
<1>2. RequestPlaces'
  <2>1. RequestOK(c)'
    BY <1>0, NoRequestFacts, Kinds DEF IInv, TypeOK, RequestPlaces, RequestOK, entry, flow,
       RequestDropped
  <2>2. ASSUME NEW d \in Clients \ {c} PROVE RequestOK(d)'
    BY <1>0, NoRequestFacts, Kinds DEF IInv, TypeOK, RequestPlaces, RequestOK, entry, flow,
       RequestDropped
  <2> QED BY <2>1, <2>2 DEF RequestPlaces
<1>3. /\ NewIsBare' /\ DriverPlaces' /\ OnlyWaitersOpen' /\ SuccessIsKept' /\ MarkersReported'
      /\ OnlySettledAge' /\ UntakenUnspent' /\ OnlyThisSignIn'
  BY DEF IInv, NewIsBare, DriverPlaces, OnlyWaitersOpen, SuccessIsKept, MarkersReported,
     OnlySettledAge, UntakenUnspent, OnlyThisSignIn, entry, flow, RequestDropped
<1> QED BY <1>1, <1>2, <1>3 DEF IInv

LEMMA statusKeeps ==
  ASSUME IInv, status
  PROVE  IInv'
<1>1. TypeOK'
  BY DEF IInv, TypeOK, flow, history, status, Pruned
<1>2. NewIsBare'
  BY DEF IInv, TypeOK, NewIsBare, flow, history, status, Pruned
<1>3. RequestPlaces'
  BY Kinds DEF IInv, TypeOK, RequestPlaces, RequestOK, flow, history, status, Pruned
<1>4. MarkersReported'
  BY DEF IInv, TypeOK, MarkersReported, flow, history, status, Pruned
<1>5. /\ DriverPlaces' /\ OnlyWaitersOpen' /\ SuccessIsKept' /\ OnlySettledAge'
      /\ UntakenUnspent' /\ OnlyThisSignIn'
  BY DEF IInv, DriverPlaces, OnlyWaitersOpen, SuccessIsKept, OnlySettledAge, UntakenUnspent,
     OnlyThisSignIn, flow, history, status
<1> QED BY <1>1, <1>2, <1>3, <1>4, <1>5 DEF IInv

LEMMA RemovedKeeps ==
  ASSUME IInv, NEW S \in SUBSET Tasks, Removed(S)
  PROVE  IInv'
<1>1. TypeOK'
  BY DEF IInv, TypeOK, flow, history, Removed
<1>2. NewIsBare'
  BY DEF IInv, TypeOK, NewIsBare, flow, history, Removed
<1>3. RequestPlaces'
  BY Kinds DEF IInv, TypeOK, RequestPlaces, RequestOK, flow, history, Removed
<1>4. MarkersReported'
  BY DEF IInv, TypeOK, MarkersReported, flow, history, Removed
<1>5. /\ DriverPlaces' /\ OnlyWaitersOpen' /\ SuccessIsKept' /\ OnlySettledAge'
      /\ UntakenUnspent' /\ OnlyThisSignIn'
  BY DEF IInv, DriverPlaces, OnlyWaitersOpen, SuccessIsKept, OnlySettledAge, UntakenUnspent,
     OnlyThisSignIn, flow, history, Removed
<1> QED BY <1>1, <1>2, <1>3, <1>4, <1>5 DEF IInv


(***************************************************************************)
(* The theorems.                                                           *)
(***************************************************************************)
LEMMA InitEstablishes == Init => IInv
<1> SUFFICES ASSUME Init PROVE IInv
  OBVIOUS
<1>1. TypeOK
  BY NoRequestFacts, SignInAssumption DEF Init, TypeOK
<1>2. RequestPlaces
  BY NoRequestFacts DEF Init, RequestPlaces, RequestOK
<1>3. NewIsBare /\ DriverPlaces /\ OnlyWaitersOpen /\ SuccessIsKept /\ MarkersReported
  BY DEF Init, NewIsBare, DriverPlaces, OnlyWaitersOpen, SuccessIsKept, MarkersReported
<1>4. OnlySettledAge /\ UntakenUnspent /\ OnlyThisSignIn
  BY DEF Init, OnlySettledAge, UntakenUnspent, OnlyThisSignIn
<1> QED BY <1>1, <1>2, <1>3, <1>4 DEF IInv

LEMMA StutterKeeps ==
  ASSUME IInv, UNCHANGED vars
  PROVE  IInv'
<1>1. TypeOK'
  BY DEF IInv, TypeOK, vars, entry, flow, history
<1>2. RequestPlaces'
  BY DEF IInv, RequestPlaces, RequestOK, vars, entry, flow, history
<1>3. NewIsBare' /\ DriverPlaces' /\ OnlyWaitersOpen' /\ SuccessIsKept' /\ MarkersReported'
  BY DEF IInv, NewIsBare, DriverPlaces, OnlyWaitersOpen, SuccessIsKept, MarkersReported, vars,
     entry, flow, history
<1>4. OnlySettledAge' /\ UntakenUnspent' /\ OnlyThisSignIn'
  BY DEF IInv, OnlySettledAge, UntakenUnspent, OnlyThisSignIn, vars, entry, flow, history
<1> QED BY <1>1, <1>2, <1>3, <1>4 DEF IInv

LEMMA NextKeeps ==
  ASSUME IInv, Next
  PROVE  IInv'
<1>1. ASSUME NEW t \in Tasks, handle_account_signin(t) PROVE IInv'
  BY <1>1, start_googleKeeps, start_codexKeeps, start_copilotKeeps, start_siwcKeeps,
     start_pluginKeeps, start_claudeKeeps, settle_dead_startKeeps
     DEF handle_account_signin, start_with_proxy_at
<1>2. ASSUME NEW t \in Tasks, handle_account_signin_cancel(t) PROVE IInv'
  BY <1>2, RemovedKeeps DEF handle_account_signin_cancel, cancel
<1>3. ASSUME NEW t \in Tasks, Driving(t) PROVE IInv'
  BY <1>3, InsertKeeps, ServeCallbackKeeps, WokenKeeps, TimesOutKeeps, ServerStopsKeeps,
     AnsweredKeeps, DeviceCodeKeeps, PluginCallbackKeeps, PluginRetriesKeeps, WaitOnCliKeeps,
     CliReapedKeeps, DriverReportsKeeps, DriverMarksKeeps, DriverAbortedKeeps DEF Driving
<1>4. ASSUME NEW t \in Tasks, DeadlinePasses(t) \/ Environment(t) PROVE IInv'
  BY <1>4, DeadlinePassesKeeps, CallbackKeeps, PollKeeps, CliExitsKeeps, TimePassesKeeps
     DEF Environment
<1>5. ASSUME NEW c \in Clients, handle_account_signin_submit(c) PROVE IInv'
  BY <1>5, submitKeeps DEF handle_account_signin_submit
<1>6. ASSUME NEW c \in Clients, Submitting(c) \/ RequestDropped(c) PROVE IInv'
  BY <1>6, SubmitJoinedKeeps, finish_pastedKeeps, SiwcFinishKeeps, SubmitAnsweredKeeps,
     SubmitToPluginKeeps, SubmitToCliKeeps, SubmitReportsKeeps, SubmitMarksKeeps,
     SubmitAnswersKeeps, RequestDroppedKeeps DEF Submitting
<1>7. CASE handle_account_signin_status
  BY <1>7, statusKeeps DEF handle_account_signin_status
<1>8. CASE shutdown
  <2>1. Removed({t \in Tasks : phase[t] = "in"})
    BY <1>8 DEF shutdown
  <2>2. {t \in Tasks : phase[t] = "in"} \in SUBSET Tasks
    OBVIOUS
  <2> QED BY <2>1, <2>2, RemovedKeeps
<1> QED BY <1>1, <1>2, <1>3, <1>4, <1>5, <1>6, <1>7, <1>8 DEF Next

\* What a driver, a request and the registry rely on holds throughout.
THEOREM Invariance == Spec => []IInv
<1>1. IInv /\ [Next]_vars => IInv'
  BY NextKeeps, StutterKeeps
<1> QED BY InitEstablishes, <1>1, PTL DEF Spec

\* A task that says "done" has stored a credential, whichever of its driver and
\* the submits on it settled it, in every order (settle_* of signin_task.rs).
THEOREM DoneMeansKeptAlways == Spec => []DoneMeansKept
<1>1. IInv => DoneMeansKept
  BY DEF IInv, SuccessIsKept, DoneMeansKept
<1> QED BY Invariance, <1>1, PTL

\* Callbacks and pastes, in any number and order, spend one code per PKCE
\* session and only this sign-in's (wait_inner, finish_pasted).
THEOREM CodesSpentRightlyAlways == Spec => []CodesSpentRightly
<1>1. IInv => CodesSpentRightly
  BY DEF IInv, TypeOK, UntakenUnspent, CodesSpentRightly, CodeSpentOnce
<1> QED BY Invariance, <1>1, PTL

\* Only settled tasks age, and a task that is gone and has nobody working on it
\* leaves no callback server and no CLI (prune, cancel, Drop for Running).
THEOREM TasksAgreeAlways == Spec => []TasksAgree
<1>1. IInv => NothingOutlivesTask
  BY DEF IInv, TypeOK, OnlyWaitersOpen, NothingOutlivesTask, ListenerOpen, CliRuns, Held, Running, Suspended
<1>2. IInv => TasksAgree
  BY <1>1 DEF IInv, TasksAgree
<1> QED BY Invariance, <1>2, PTL

===============================================================================
