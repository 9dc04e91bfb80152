----------------------------- MODULE SignInFlows -----------------------------
(***************************************************************************)
(* What each vendor's sign-in flow accepts: the address a browser comes    *)
(* back to, what a user pastes, and the vendor's answers                   *)
(* (crates/server/src/credentials: gemini.rs, codex_signin.rs, copilot.rs, *)
(* siwc_signin.rs, claude_signin.rs).                                      *)
(*                                                                         *)
(* An input keeps what the code tests: its form, an "error" parameter,     *)
(* whether its OAuth state (for Claude, its port and host) is this         *)
(* sign-in's, its code, and whether a client id came with it.              *)
(***************************************************************************)

Providers == {"gemini", "antigravity", "codex", "copilot", "chatgpt-api",
              "plugin", "plugin-auto", "claude"}
Google == {"gemini", "antigravity"}
Pkce == Google \cup {"codex"}

Inputs == [form : {"address", "code", "junk"}, error : BOOLEAN, own : BOOLEAN,
           code : {"none", "empty", "ok"}, client : BOOLEAN]

\* A loopback callback that says nothing usable gets a page and changes nothing.
classify_callback(i) ==
  IF i.error THEN "fatal" ELSE IF i.own /\ i.code = "ok" THEN "success" ELSE "mismatch"

\* The pasted address is split the same way, whatever else was pasted with it.
query_pairs(i) == IF i.form = "address" THEN i
                  ELSE [i EXCEPT !.error = FALSE, !.own = FALSE, !.code = "none", !.client = FALSE]

\* An empty code is still a code here, unlike in the loopback callback.
GooglePasted(i) == LET q == query_pairs(i) IN ~q.error /\ q.own /\ q.code # "none"

CodexPasted(i) == LET q == query_pairs(i) IN ~q.error /\ q.own /\ q.code # "none"

\* Sign in with ChatGPT registers a client as it goes: the address names it.
SiwcPasted(i) ==
  LET q == query_pairs(i) IN ~q.error /\ q.own /\ q.code # "none" /\ q.client

\* A vendor's answer to a code: a success status, every token (with a
\* lifetime and the scope it needs), and whom its ID token or user endpoint
\* names: somebody in this sign-in, somebody in another's, or nobody.
Replies == [ok : BOOLEAN, tokens : BOOLEAN, names : {"own", "foreign", "nobody"}]

\* complete: the exchange, then the e-mail from the user endpoint.  Each needs
\* a success status and a payload that reads, and an answer without an e-mail
\* names nobody.
exchange_code(r) == r.ok /\ r.tokens
fetch_userinfo(r) == r.names # "nobody"
GoogleComplete(r) == exchange_code(r) /\ fetch_userinfo(r)

\* account_from_claims: the ID token is decoded, its audience is not checked.
CodexComplete(r) == r.ok /\ r.tokens /\ r.names # "nobody"

\* parse_tokens: no token, no lifetime or no direct-use scope is a refusal.
parse_tokens(r) == r.ok /\ r.tokens

\* check_id_token: issuer, audience, nonce and expiry, then a name.
account_from(r) == r.names = "own"
SiwcComplete(r) == parse_tokens(r) /\ account_from(r)

\* request_device_code: a code, or a transport, status or payload error.
DeviceCodes == {"code", "error"}

\* poll_token: GitHub reports the flow's errors in a 200; a status, transport
\* or payload error is the flow's end.
PollErrors == {"unreadable"}

\* Where the device flow goes on an answer of the token endpoint.
Polls == {"token", "authorization_pending", "slow_down", "expired_token", "access_denied"}
           \cup PollErrors
AfterPoll(p) == CASE p = "token" -> "exchange"
                  [] p \in {"authorization_pending", "slow_down"} -> "wait"
                  [] OTHER -> "failed"

\* How `claude auth login` comes up: it opens a link with this process as its
\* browser, prints one, dies, or says nothing in time.
ClaudeStarts == {"opened", "printed", "dead", "silent"}

\* callback_port: only an opened link tells the CLI's callback port.
PortKnown(how) == how = "opened"

\* What a paste is to a running CLI: an address goes to its callback server,
\* a code with its state to its standard input, anything else nowhere.
ClaudeTakes(i, how) ==
  \/ i.form = "address" /\ PortKnown(how) /\ i.own /\ i.code = "ok"
  \/ i.form = "code"

\* collect_account: readable credentials and an e-mail from the profile or
\* from `claude auth status`.
CollectAccount(r) == r.tokens /\ r.names # "nobody"
===============================================================================
