-------------------------- MODULE MCAccountAdoption --------------------------
(* Exports and homes for TLC. *)
EXTENDS AccountAdoption, TLC
CONSTANTS ann, bob, h1

\* until is the expiry in seconds, whatever unit the file writes it in.
Item == [object |-> TRUE, platform |-> "absent", kind |-> "", type |-> "", creds |-> "object",
         hint |-> "", email |-> ann, alias |-> NoName, key |-> NoName, access |-> TRUE,
         refresh |-> TRUE, gen |-> 1, expiry |-> 1, until |-> 1]
File == [root |-> "object", encrypted |-> FALSE, holds |-> "accounts", version |-> "none", items |-> <<>>]

Swap(items) == [File EXCEPT !.version = "1", !.items = items]
Sub(items) == [File EXCEPT !.items = items]
Proxy(items) == [File EXCEPT !.holds = "map", !.items = items]

\* Each directory mixes good rows with ones to refuse.
MCExports ==
  { <<Swap(<<[Item EXCEPT !.expiry = 2000, !.until = 2, !.gen = 2], [Item EXCEPT !.kind = "codex"]>>),
      Swap(<<[Item EXCEPT !.expiry = 1000, !.until = 1]>>),
      Sub(<<[Item EXCEPT !.platform = "openai"], [Item EXCEPT !.platform = "other"]>>)>>,
    <<Proxy(<<[Item EXCEPT !.type = "codex", !.email = NoName, !.key = bob]>>),
      [File EXCEPT !.encrypted = TRUE],
      [File EXCEPT !.holds = "itself", !.items = <<[Item EXCEPT !.type = "claude", !.email = ann]>>]>> }
AtStart == {<<"codex", ann>>, <<"claude", ann>>}
OneHome == <<h1>>
===============================================================================
