----------------------------- MODULE ImportShapes -----------------------------
(***************************************************************************)
(* What another tool's export says (crates/server/src/credentials/         *)
(* import.rs): claude-swap, Sub2API and CLIProxyAPI files, told apart by   *)
(* their fields and read into rows to import or to refuse.                 *)
(*                                                                         *)
(* A file keeps the fields the code looks at: its root value, the markers  *)
(* at the top and, per entry, vendor, kind, names, tokens and expiry.      *)
(***************************************************************************)
EXTENDS Integers, Sequences, FiniteSets, SequencesExt

CONSTANTS MsThreshold,   \* an expiry above this is in milliseconds (100_000_000_000 in the code)
          NoName         \* an absent or empty name

ASSUME ThresholdAssumption == MsThreshold \in Nat

NoExpiry == -1

\* The unit of an expiry can be told: no time in seconds is above the
\* threshold, no time in milliseconds below it (the code's is in year 5138,
\* or in March 1973).  until is the expiry in seconds.
UnitIsClear(e) == \/ e.expiry = NoExpiry
                  \/ e.expiry = e.until /\ e.until <= MsThreshold
                  \/ e.expiry \div 1000 = e.until /\ e.expiry > MsThreshold

Entries(names) ==
  {e \in [object : BOOLEAN, platform : STRING, kind : STRING, type : STRING, creds : STRING,
          hint : {"", "claude", "codex"}, email : names \cup {NoName}, alias : names \cup {NoName},
          key : names \cup {NoName}, access : BOOLEAN, refresh : BOOLEAN, gen : Nat, expiry : Int,
          until : Int] : UnitIsClear(e)}
\* "itself": the root is the one account.
ExportFiles(names) ==
  {d \in [root : STRING, encrypted : BOOLEAN, holds : STRING, version : STRING,
          items : Seq(Entries(names))] : d.holds = "itself" => d.items # <<>>}

Refused == [ok |-> FALSE]
Row(provider, name, e, newer_wins) ==
  [ok |-> TRUE, id |-> <<provider, name>>, gen |-> e.gen, expiry |-> e.expiry, until |-> e.until,
   newer_wins |-> newer_wins]

\* Mutant: an expiry in milliseconds is taken for seconds.
as_written(v) == v
normalize_expiry(v) == IF v > MsThreshold THEN v \div 1000 ELSE v

first_nonempty(a, b) == IF a = NoName THEN b ELSE a
Expiry(e) == IF e.expiry = NoExpiry THEN NoExpiry ELSE normalize_expiry(e.expiry)

\* import_entry's own refusals: nobody to store it for, nothing to store.
Entry(provider, name, e, newer_wins) ==
  IF name = NoName \/ (~e.access /\ ~e.refresh) THEN Refused
  ELSE Row(provider, name, [e EXCEPT !.expiry = Expiry(e)], newer_wins)

\* claude-swap: Claude sign-ins only, and only those may replace a stored one.
import_cswap_entry(e) ==
  IF ~e.object \/ e.kind = "api_key" \/ e.creds # "object" \/ "codex" \in {e.kind, e.type}
  THEN Refused
  ELSE Entry("claude", first_nonempty(e.email, e.alias), e, TRUE)

has_platform(e) == e.object /\ e.platform # "absent"

import_sub2api_entry(e) ==
  IF ~e.object \/ e.platform \notin {"openai", "claude", "anthropic"} \/ e.type = "apikey"
     \/ e.creds # "object"
  THEN Refused
  ELSE Entry(IF e.platform = "openai" THEN "codex" ELSE "claude", e.email, e, FALSE)

\* An entry without a type is told by the fields only one vendor has.
import_cliproxy_entry(key, e) ==
  LET provider == CASE e.type \in {"claude", "codex"} -> e.type
                    [] e.type = "" -> e.hint
                    [] OTHER -> ""
  IN  IF ~e.object \/ provider = "" THEN Refused
      ELSE Entry(provider, first_nonempty(e.email, key), e, FALSE)

has_token_fields(e) == e.access \/ e.refresh

Each(F(_), items) == [i \in DOMAIN items |-> F(items[i])]
Cliproxy(e) == import_cliproxy_entry(e.key, e)
Flat(e) == import_cliproxy_entry(NoName, e)

\* The file as rows: a shape nobody knows, like a file that does not read,
\* is one refused row, and never stops the files after it.
dispatch_object(d) ==
  LET platform == \E i \in DOMAIN d.items : has_platform(d.items[i])
      known == d.items # <<>> /\ \A i \in DOMAIN d.items :
                 d.items[i].object /\ (has_token_fields(d.items[i]) \/ d.items[i].type # "")
  IN  IF d.encrypted \/ (d.holds = "accounts" /\ (d.items = <<>> \/ d.version = "other"))
      THEN <<Refused>>
      ELSE IF d.holds = "accounts" /\ d.version = "1" THEN Each(import_cswap_entry, d.items)
      ELSE IF d.holds \in {"accounts", "itself"} /\ platform
      THEN Each(import_sub2api_entry, d.items)
      ELSE IF d.holds = "map" /\ known THEN Each(Cliproxy, d.items)
      ELSE IF d.holds = "itself" /\ d.items[1].type # "" /\ has_token_fields(d.items[1])
      THEN Each(Flat, d.items)
      ELSE <<Refused>>

import_file(d) ==
  CASE d.root = "object" -> dispatch_object(d)
    [] d.root = "array" /\ \E i \in DOMAIN d.items : has_platform(d.items[i]) ->
         Each(import_sub2api_entry, d.items)
    [] OTHER -> <<Refused>>

\* import_path over a directory: its files in name order, or one refusal.
import_path(files) ==
  IF files = <<>> THEN <<Refused>> ELSE FlattenSeq([i \in DOMAIN files |-> import_file(files[i])])
===============================================================================
