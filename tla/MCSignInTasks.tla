---------------------------- MODULE MCSignInTasks ----------------------------
(***************************************************************************)
(* SignInTasks for TLC.                                                    *)
(***************************************************************************)
EXTENDS SignInTasks

Address(own, error, code, client) ==
  [form |-> "address", own |-> own, error |-> error, code |-> code, client |-> client]
SomePastes ==
  {Address(TRUE, FALSE, "ok", TRUE), Address(FALSE, FALSE, "ok", TRUE), Address(FALSE, TRUE, "none", FALSE),
   [form |-> "code", own |-> TRUE, error |-> FALSE, code |-> "ok", client |-> FALSE]}
SomeAnswers ==
  {[ok |-> TRUE, tokens |-> TRUE, names |-> "own"], [ok |-> TRUE, tokens |-> TRUE, names |-> "foreign"],
   [ok |-> FALSE, tokens |-> FALSE, names |-> "nobody"]}
\* Antigravity differs from Gemini only in its endpoints.
OneTask == [Tasks -> Providers \ {"antigravity"}]
===============================================================================
