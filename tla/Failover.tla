------------------------------- MODULE Failover -------------------------------
(***************************************************************************)
(* The failover loop of crates/server/src/handlers/chat (mod.rs, plan.rs,  *)
(* forward.rs, plugin.rs, failover.rs): a request orders its route's       *)
(* providers, flattens their accounts into a plan of seats, and tries the  *)
(* seats in turn; a 401 gets one refresh per seat before it is judged.     *)
(*                                                                         *)
(* Several requests run at once and share the revoked markers and the      *)
(* round-robin counter.  What a vendor, a plugin or a refresh answers is   *)
(* free; AccountRefresh models what a refresh does.                        *)
(***************************************************************************)
EXTENDS SeatOrder

CONSTANTS Requests, Providers, Accounts,
          NoAccount,   \* an api_key seat
          NoName,      \* an empty account id in the configuration
          Configured,  \* providers the configuration has
          Plugins,     \* those that a plugin serves
          Listed,      \* the accounts each provider's configuration lists
          Saved,       \* account-order.json
          Routes,      \* [names, strategy]: what model routes resolve to
          Statuses,    \* which of 401 and 403 the vendors answer
          MaxSignIns   \* bound: sign-ins that clear a revoked marker

Seats == [p : Providers, a : Accounts \cup {NoAccount}]
Words == {"expired", "revoked", "unknown"}
Answers == {"none", "ok", "retryable", "refusal", "revoked", "unavailable",
            "error", "exhausted"}

ASSUME FailoverAssumption ==
  /\ NoAccount \notin Accounts /\ NoName \notin Accounts
  /\ Plugins \subseteq Configured /\ Configured \subseteq Providers
  /\ Listed \in [Providers -> Seq(Accounts \cup {NoName})]
  /\ Saved \in [Providers -> Seq(Accounts)]   \* save_order refuses repeats
  /\ \A p \in Providers : \A i, j \in 1..Len(Saved[p]) : Saved[p][i] = Saved[p][j] => i = j
  /\ \A rt \in Routes : /\ rt.names \in Seq(Providers) \ {<<>>}  \* an empty one is passed over
                         /\ rt.strategy \in {"priority", "round_robin"}
  /\ Statuses \subseteq {401, 403}
  /\ MaxSignIns \in Nat

VARIABLES
  revoked,    \* revoked.json
  counter,    \* ROUND_ROBIN_COUNTER
  pc,         \* where each request is
  route,      \* the route it resolved to
  names,      \* providers not yet planned
  cands,      \* seats of the current provider not yet planned
  plan,       \* the seats to try
  attempt,    \* Failover.attempt, counted from 1
  retried,    \* Failover.expired_retried; 0: none
  status, words, \* the 401 or 403 being judged, and what classify_401 says of it
  answer,     \* what went back to the client
  sends,      \* history: how often the current seat sent the request upstream
  spent,      \* history: the seats found past their line while planning
  started,    \* history: the provider each route's last request started with
  signIns

planning == <<route, names, cands, plan>>
judging == <<retried, status, words>>
history == <<sends, spent, started>>
vars == <<revoked, counter, pc, planning, attempt, judging, answer, history, signIns>>

PCs == {"idle", "plan", "build", "send", "refresh", "judge", "done"}

TypeOK ==
  /\ revoked \subseteq Accounts
  /\ counter \in Nat
  /\ pc \in [Requests -> PCs]
  /\ route \in [Requests -> Routes]
  /\ names \in [Requests -> Seq(Providers)]
  /\ cands \in [Requests -> Seq(Seats)]
  /\ plan \in [Requests -> Seq(Seats)]
  /\ attempt \in [Requests -> Nat]
  /\ retried \in [Requests -> Nat]
  /\ status \in [Requests -> {401, 403}]
  /\ words \in [Requests -> Words]
  /\ answer \in [Requests -> Answers]
  /\ sends \in [Requests -> Nat]
  /\ spent \in [Requests -> SUBSET Seats]
  /\ started \in [Routes -> Providers \cup {NoName}]
  /\ signIns \in Nat

Init ==
  /\ revoked \in SUBSET Accounts
  /\ counter = 0
  /\ pc = [r \in Requests |-> "idle"]
  /\ route \in [Requests -> Routes]
  /\ names = [r \in Requests |-> <<>>]
  /\ cands = [r \in Requests |-> <<>>]
  /\ plan = [r \in Requests |-> <<>>]
  /\ attempt = [r \in Requests |-> 1]
  /\ retried = [r \in Requests |-> 0]
  /\ status = [r \in Requests |-> 401]
  /\ words = [r \in Requests |-> "unknown"]
  /\ answer = [r \in Requests |-> "none"]
  /\ sends = [r \in Requests |-> 0]
  /\ spent = [r \in Requests |-> {}]
  /\ started = [rt \in Routes |-> NoName]
  /\ signIns = 0

-----------------------------------------------------------------------------

Seat(r) == plan[r][attempt[r]]

\* A plugin signs for itself: the host resolves no account for it.
SignsItself(r) == Seat(r).a = NoAccount \/ Seat(r).p \in Plugins

\* An attempt counter compared with the plan's length one too low.
HasNextOffByOne(r) == attempt[r] + 1 < Len(plan[r])

HasNext(r) == attempt[r] < Len(plan[r])

Goto(r, to) == pc' = [pc EXCEPT ![r] = to]

Forget(r) ==
  /\ status' = [status EXCEPT ![r] = 401]
  /\ words' = [words EXCEPT ![r] = "unknown"]
  /\ sends' = [sends EXCEPT ![r] = 0]

\* A continue that does not count the attempt.
AdvanceInPlace(r) ==
  /\ Goto(r, "build")
  /\ Forget(r)
  /\ UNCHANGED <<attempt, answer>>

\* The loop goes on with the next seat.
Advance(r) ==
  /\ attempt' = [attempt EXCEPT ![r] = @ + 1]
  /\ Goto(r, "build")
  /\ Forget(r)
  /\ UNCHANGED answer

\* A response goes back to the client.
Finish(r, a) ==
  /\ answer' = [answer EXCEPT ![r] = a]
  /\ Goto(r, "done")
  /\ Forget(r)
  /\ UNCHANGED attempt

AdvanceOrFinish(r, a) == IF HasNext(r) THEN Advance(r) ELSE Finish(r, a)

\* The route is resolved and its providers put in order.
Arrive(r) ==
  LET rt == route[r]
      ordered == OrderProviderNames(rt.names, rt.strategy, counter)
  IN
  /\ pc[r] = "idle"
  /\ names' = [names EXCEPT ![r] = ordered]
  /\ counter' = IF Rotates(rt.names, rt.strategy) THEN counter + 1 ELSE counter
  /\ started' = [started EXCEPT ![rt] = Head(ordered)]
  /\ Goto(r, "plan")
  /\ UNCHANGED <<revoked, route, cands, plan, attempt, judging, answer, sends,
                 spent, signIns>>

\* The accounts in the user's order, and with those past their line last.
UserOrder(p) == ApplyOrder(AccountIds(Listed[p], NoName), Saved[p])

SeatsOf(p, exhausted) ==
  LET ids == OrderAccounts(UserOrder(p), exhausted)
  IN  IF ids = <<>> THEN <<[p |-> p, a |-> NoAccount]>>
      ELSE [i \in 1..Len(ids) |-> [p |-> p, a |-> ids[i]]]

\* The cached allowances, which are not looked at for a single account.
Exhaustible(p) == IF Len(UserOrder(p)) > 1 THEN Names(UserOrder(p)) ELSE {}

\* The next provider's candidates; one that is not configured has none.
PlanProvider(r) ==
  LET p == Head(names[r]) IN
  /\ pc[r] = "plan" /\ cands[r] = <<>> /\ names[r] # <<>>
  /\ names' = [names EXCEPT ![r] = Tail(@)]
  /\ \/ p \notin Configured /\ UNCHANGED <<cands, spent>>
     \/ /\ p \in Configured
        /\ \E exhausted \in SUBSET Exhaustible(p) :
             /\ cands' = [cands EXCEPT ![r] = SeatsOf(p, exhausted)]
             /\ spent' = [spent EXCEPT ![r] = @ \cup [p : {p}, a : exhausted]]
  /\ UNCHANGED <<revoked, counter, pc, route, plan, attempt, judging, answer, sends,
                 started, signIns>>

\* A revoked account is dropped; a plugin that cannot list its models ends
\* the request.
PlanSeat(r) ==
  LET seat == Head(cands[r]) IN
  /\ pc[r] = "plan" /\ cands[r] # <<>>
  /\ cands' = [cands EXCEPT ![r] = Tail(@)]
  /\ \/ /\ seat.a \in revoked
        /\ UNCHANGED <<pc, plan, answer, sends, status, words, attempt>>
     \/ /\ seat.a \notin revoked
        /\ plan' = [plan EXCEPT ![r] = Append(@, seat)]
        /\ UNCHANGED <<pc, answer, sends, status, words, attempt>>
     \/ /\ seat.a \notin revoked /\ seat.p \in Plugins
        /\ Finish(r, "error")
        /\ UNCHANGED plan
  /\ UNCHANGED <<revoked, counter, route, names, retried, spent, started, signIns>>

StartLoop(r) ==
  /\ pc[r] = "plan" /\ cands[r] = <<>> /\ names[r] = <<>>
  /\ Goto(r, "build")
  /\ UNCHANGED <<revoked, counter, planning, attempt, judging, answer, history, signIns>>

\* convert_and_build_upstream: the body is converted, which may fail, and the
\* account resolved, which a revoked account never does.
Build(r) ==
  /\ pc[r] = "build" /\ attempt[r] <= Len(plan[r])
  /\ \/ Finish(r, "error")
     \/ ~SignsItself(r) /\ AdvanceOrFinish(r, "unavailable")
     \/ /\ SignsItself(r) \/ Seat(r).a \notin revoked
        /\ Goto(r, "send")
        /\ UNCHANGED <<attempt, answer, sends, status, words>>
  /\ UNCHANGED <<revoked, counter, planning, retried, spent, started, signIns>>

\* No seat is left: upstream_error_response.
Exhausted(r) ==
  /\ pc[r] = "build" /\ attempt[r] > Len(plan[r])
  /\ Finish(r, "exhausted")
  /\ UNCHANGED <<revoked, counter, planning, retried, spent, started, signIns>>

\* The upstream, or the plugin, answers with success or an error of its own.
Answer(r) ==
  /\ pc[r] = "send"
  /\ \E a \in {"ok", "refusal", "error"} : Finish(r, a)
  /\ UNCHANGED <<revoked, counter, planning, retried, spent, started, signIns>>

\* 429, 500, 502, 503, 504, 529.
Retryable(r) ==
  /\ pc[r] = "send"
  /\ AdvanceOrFinish(r, "retryable")
  /\ UNCHANGED <<revoked, counter, planning, retried, spent, started, signIns>>

\* The connection or the plugin fails.
TransportFails(r) ==
  /\ pc[r] = "send"
  /\ Advance(r)
  /\ UNCHANGED <<revoked, counter, planning, retried, spent, started, signIns>>

\* A 401 or 403 to an account: classify_account_auth, which refreshes first
\* unless this seat had its refresh or the status is 403.
Unauthorized(r) ==
  /\ pc[r] = "send" /\ ~SignsItself(r)
  /\ sends' = [sends EXCEPT ![r] = @ + 1]
  /\ \E st \in Statuses, w \in Words :
       /\ status' = [status EXCEPT ![r] = st]
       /\ words' = [words EXCEPT ![r] = w]
       /\ Goto(r, IF st = 401 /\ retried[r] # attempt[r] THEN "refresh" ELSE "judge")
  /\ UNCHANGED <<revoked, counter, planning, attempt, retried, answer, spent, started,
                 signIns>>

\* force_refresh: it goes through and the seat is tried again, or is refused,
\* as it always is for a revoked account.
Refresh(r) ==
  /\ pc[r] = "refresh"
  /\ \/ /\ Seat(r).a \notin revoked
        /\ retried' = [retried EXCEPT ![r] = attempt[r]]
        /\ Goto(r, "build")
     \/ Goto(r, "judge") /\ UNCHANGED retried
  /\ UNCHANGED <<revoked, counter, planning, attempt, status, words, answer, sends, spent, started,
                 signIns>>

\* The words decide: marking a revoked account may fail and is only logged.
Judge(r) ==
  /\ pc[r] = "judge"
  /\ \/ /\ words[r] = "expired"
        /\ IF retried[r] = attempt[r] THEN Finish(r, "refusal") ELSE Advance(r)
        /\ UNCHANGED revoked
     \/ /\ words[r] = "revoked"
        /\ revoked' \in {revoked, revoked \cup {Seat(r).a}}
        /\ AdvanceOrFinish(r, "revoked")
     \/ /\ words[r] = "unknown"
        /\ AdvanceOrFinish(r, "refusal")
        /\ UNCHANGED revoked
  /\ UNCHANGED <<counter, planning, retried, spent, started, signIns>>

\* The user signs in again.
SignIn(a) ==
  /\ a \in revoked /\ signIns < MaxSignIns
  /\ revoked' = revoked \ {a}
  /\ signIns' = signIns + 1
  /\ UNCHANGED <<counter, pc, planning, attempt, judging, answer, history>>

Step(r) ==
  \/ PlanProvider(r) \/ PlanSeat(r) \/ StartLoop(r)
  \/ Build(r) \/ Exhausted(r)
  \/ Answer(r) \/ Retryable(r) \/ TransportFails(r) \/ Unauthorized(r)
  \/ Refresh(r) \/ Judge(r)

Next ==
  \/ \E r \in Requests : Arrive(r) \/ Step(r)
  \/ \E a \in Accounts : SignIn(a)

Spec == Init /\ [][Next]_vars

-----------------------------------------------------------------------------

(***************************************************************************)
(* A seat gets at most one refresh: it answers 401 or 403 at most twice    *)
(* before the loop moves on, so an account that keeps answering            *)
(* token_expired cannot loop forever (mod.rs 470-474, failover.rs 58-84).  *)
(***************************************************************************)
OneRetryPerSeat == \A r \in Requests : sends[r] <= 2

(***************************************************************************)
(* A failure that another seat could mend goes back to the client only     *)
(* when no seat is left (mod.rs 495-509, 541-551, 624-634, 679-688,        *)
(* failover.rs 129-133).                                                   *)
(***************************************************************************)
EverySeatHasItsTurn ==
  \A r \in Requests :
    answer[r] \in {"retryable", "unavailable", "exhausted", "revoked"} =>
      attempt[r] >= Len(plan[r])

(***************************************************************************)
(* The plan loses no seat: once the loop runs, every account listed by a   *)
(* configured provider of the route has its place, unless it is revoked,   *)
(* whatever the saved order names (mod.rs 325-432, provider_pool.rs 67-85).*)
(***************************************************************************)
NoSeatLost ==
  \A r \in Requests : pc[r] \in {"build", "send", "refresh", "judge"} /\ signIns = 0 =>
    \A p \in Names(route[r].names) \cap Configured :
      \A a \in Names(Listed[p]) \ (revoked \cup {NoName}) :
        [p |-> p, a |-> a] \in Names(plan[r])

\* The user's order: saved accounts first, as saved, then as listed.
Place(s, a) == CHOOSE i \in 1..Len(s) : s[i] = a /\ \A j \in 1..(i - 1) : s[j] # a

UserPrefers(p, a, b) ==
  IF a \in Names(Saved[p]) /\ b \in Names(Saved[p]) THEN Place(Saved[p], a) < Place(Saved[p], b)
  ELSE \/ a \in Names(Saved[p])
       \/ b \notin Names(Saved[p]) /\ Place(Listed[p], a) < Place(Listed[p], b)

Before(x, y, past) ==
  IF x \in past <=> y \in past THEN UserPrefers(x.p, x.a, y.a) ELSE y \in past

(***************************************************************************)
(* Allowance moves accounts last and never rearranges them: of two seats   *)
(* of a provider the earlier one has room, or both are past their line,    *)
(* and among equals the user's order decides; so no seat comes twice, but  *)
(* for a provider that its route names twice                               *)
(* (provider_pool.rs 67-107, docs/subsystems/providers-accounts.md 73-79). *)
(***************************************************************************)
SeatsInUserOrder ==
  \A r \in Requests : \A i, j \in 1..Len(plan[r]) :
    LET x == plan[r][i]  y == plan[r][j] IN
    i < j /\ x.p = y.p /\ NamesOnce(route[r].names, x.p) => Before(x, y, spent[r])

InLoop(r) == pc[r] \in {"build", "send", "refresh", "judge"}

\* What the current seat has left before it sends again or is left.
Ahead(r) == CASE pc[r] = "refresh" -> 2 [] pc[r] \in {"build", "judge"} -> 1 [] OTHER -> 0

(***************************************************************************)
(* Every accepted request is answered, whatever its vendors, refreshes and *)
(* the other requests do: each of its steps answers it, or leaves fewer    *)
(* providers or candidates to plan, or a later seat of a plan that no      *)
(* longer changes, or one of the sends that OneRetryPerSeat bounds behind  *)
(* it; and no other request's step sets it back (mod.rs 470-510,           *)
(* failover.rs 58-84).                                                     *)
(***************************************************************************)
StepsCloser ==
  \A r \in Requests : pc[r] # "idle" =>
       \/ UNCHANGED <<pc[r], names[r], cands[r], plan[r], attempt[r], sends[r]>>
       \/ pc[r] # "done" /\ pc'[r] = "done"
       \/ /\ pc[r] = "plan"
          /\ \/ InLoop(r)'
             \/ Len(names'[r]) < Len(names[r])
             \/ names'[r] = names[r] /\ Len(cands'[r]) < Len(cands[r])
       \/ /\ InLoop(r) /\ plan'[r] = plan[r]
          /\ \/ attempt[r] < attempt'[r] /\ attempt'[r] <= Len(plan[r]) + 1
             \/ attempt'[r] = attempt[r] /\ sends[r] < sends'[r]
             \/ UNCHANGED <<attempt[r], sends[r]>> /\ Ahead(r)' < Ahead(r)

(***************************************************************************)
(* round_robin rotates the starting provider (README.md 247): two requests *)
(* of one route in a row start with different providers, as long as it is  *)
(* the only round-robin route in use (route_strategy.rs 5: one counter).   *)
(***************************************************************************)
StartRotates ==
  \A rt \in Routes :
       Rotates(rt.names, rt.strategy) /\ started'[rt] # NoName /\
       (\E r \in Requests : route[r] = rt /\ pc[r] = "idle" /\ pc'[r] = "plan")
         => started'[rt] # started[rt]

(***************************************************************************)
(* A request moves on with each of its steps, and a route with each of its *)
(* requests.                                                               *)
(***************************************************************************)
RequestsMoveOn == [][StepsCloser /\ StartRotates]_vars

(***************************************************************************)
(* The plan is made of the seats the route has, all of them, in the order  *)
(* the user asked for (mod.rs 325-432).                                    *)
(***************************************************************************)
PlanIsTheUsers == TypeOK /\ NoSeatLost /\ SeatsInUserOrder

(***************************************************************************)
(* Every seat is used, and none twice over: one refresh-and-retry each,    *)
(* and an answer another seat could mend only after the last               *)
(* (mod.rs 479-716).                                                       *)
(***************************************************************************)
SeatsUsedRightly == OneRetryPerSeat /\ EverySeatHasItsTurn
===============================================================================
