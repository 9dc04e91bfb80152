------------------------------ MODULE AgentSpecs ------------------------------
(***************************************************************************)
(* What crates/agent-wiring knows about the coding agents it wires: the    *)
(* files of each agent, the keys it owns in them, and how connect and      *)
(* disconnect rewrite a document.                                          *)
(*                                                                         *)
(* A document is its owned keys, grouped by what the specification does    *)
(* with them (a role), and the rest, which is the user's.  "own" says that *)
(* its bytes are formatted as the user left them.                          *)
(***************************************************************************)
EXTENDS Naturals, Sequences

CONSTANTS
  None,        \* a key that is not in the document
  UserValues,  \* values the user gives to keys
  MaxKeys,     \* gateway keys issued, at most
  MaxCats,     \* catalogs the configuration has had, at most
  MaxRest      \* versions of the user's part of a file, at most

\* settings.json or config.toml; auth.json or .env; models.json or
\* any-converter-models.json.
File == {"main", "keys", "models"}

\* set: written, the old value stashed.  drop: removed, stashed.  cond:
\* rewritten only when present, stashed.  list: our entry is appended when the
\* list exists and stripped again.  table: written, never stashed.
Roles == {"set", "drop", "cond", "list", "table"}
StashedRoles == {"set", "drop", "cond", "list"}
RestoredRoles == {"set", "drop", "cond"}

\* files: config_files order.  writes: the order connect and disconnect go
\* through them.  whole: files that are entirely ours.  base, token: what
\* read_state looks at.
ClaudeSpec ==
  [files |-> <<"main">>, writes |-> <<"main">>, whole |-> {},
   owns |-> {<<"main", "set">>, <<"main", "drop">>},
   base |-> <<"main", "set">>, token |-> <<"main", "set">>]

CodexSpec ==
  [files |-> <<"main", "keys", "models">>, writes |-> <<"main", "keys", "models">>,
   whole |-> {"models"},
   owns |-> {<<"main", "set">>, <<"main", "table">>, <<"keys", "set">>, <<"models", "table">>},
   base |-> <<"main", "table">>, token |-> <<"keys", "set">>]

GeminiSpec ==
  [files |-> <<"keys", "main">>, writes |-> <<"keys", "main">>, whole |-> {},
   owns |-> {<<"keys", "set">>, <<"keys", "drop">>, <<"main", "cond">>},
   base |-> <<"keys", "set">>, token |-> <<"keys", "set">>]

PiSpec ==
  [files |-> <<"main", "models">>, writes |-> <<"models", "main">>, whole |-> {},
   owns |-> {<<"main", "set">>, <<"main", "list">>, <<"models", "table">>},
   base |-> <<"models", "table">>, token |-> <<"models", "table">>]

spec_for ==
  [claude |-> ClaudeSpec, codex |-> CodexSpec, gemini |-> GeminiSpec, pi |-> PiSpec]

Agents == DOMAIN spec_for

\* The values of connect: the gateway's URL, key k and models of catalog c.
\* The selected type is one constant; a list with our entry remembers the rest.
Gateway(k, c) == <<k, c>>
OurType == <<0, 0>>
Appended(v) == <<0, v>>

GatewayValues ==
  ((1..MaxKeys) \X (1..MaxCats)) \cup {OurType}
    \cup {Appended(v) : v \in UserValues}
Values == {None} \cup UserValues \cup GatewayValues

Docs == [there : BOOLEAN, own : BOOLEAN, rest : 0..MaxRest, vals : [Roles -> Values]]
NoValues == [r \in Roles |-> None]
AbsentDoc == [there |-> FALSE, own |-> TRUE, rest |-> 0, vals |-> NoValues]

\* No value of the gateway is in these values.
Clean(vals) == \A r \in Roles : vals[r] \notin GatewayValues

-----------------------------------------------------------------------------

\* One owned value as connect writes it.
WiredValue(r, v, k, c) ==
  CASE r \in {"set", "table"} -> Gateway(k, c)
    [] r = "drop" -> None
    [] r = "cond" -> IF v = None THEN None ELSE OurType
    [] r = "list" -> IF v \in UserValues THEN Appended(v) ELSE v

\* The document connect writes for file f.
Wired(spec, f, doc, k, c) ==
  LET vals == [r \in Roles |-> IF <<f, r>> \in spec.owns
                               THEN WiredValue(r, doc.vals[r], k, c) ELSE doc.vals[r]]
  IN  [there |-> TRUE, own |-> FALSE, vals |-> vals,
       rest |-> IF f \in spec.whole THEN 0 ELSE doc.rest]

\* Gemini's settings are written only when the selected type is there and not ours.
Written(spec, f, doc) ==
  <<f, "cond">> \in spec.owns => doc.vals["cond"] \notin {None, OurType}

\* A stash that takes every value again.
RecordedAgain(spec, stash, docs) ==
  [f \in File |-> [r \in Roles |->
    IF <<f, r>> \in spec.owns /\ r \in StashedRoles
      THEN docs[f].vals[r] ELSE stash[f][r]]]

\* record_old_values: a value is stashed once.
Recorded(spec, stash, docs) ==
  [f \in File |-> [r \in Roles |->
    IF <<f, r>> \in spec.owns /\ r \in StashedRoles /\ stash[f][r] = None
      THEN docs[f].vals[r] ELSE stash[f][r]]]

\* One owned value as disconnect leaves it, given the stashed one.
ExtractedValue(r, v, old) ==
  CASE r \in RestoredRoles -> old
    [] r = "list" -> IF v \in {Appended(u) : u \in UserValues} THEN v[2] ELSE v
    [] OTHER -> None

\* What disconnect makes of an existing file: our keys out, the stashed values
\* back; a file that is entirely ours is removed.
Extracted(spec, f, doc, old) ==
  LET vals == [r \in Roles |-> IF <<f, r>> \in spec.owns
                               THEN ExtractedValue(r, doc.vals[r], old[r]) ELSE doc.vals[r]]
  IN  IF ~doc.there \/ f \in spec.whole THEN AbsentDoc
      ELSE [doc EXCEPT !.vals = vals, !.own = doc.own /\ vals = doc.vals]

semantically_equal(a, b) == a.vals = b.vals /\ a.rest = b.rest

is_empty_document(doc) == doc.rest = 0 /\ doc.vals = NoValues

\* The audited keys of the agent as they are in its files.
applied_values(spec, docs) ==
  [f \in File |-> [r \in Roles |->
    IF <<f, r>> \in spec.owns /\ f \notin spec.whole THEN docs[f].vals[r] ELSE None]]

NoAudit == [f \in File |-> NoValues]

\* read_state = Connected: the base URL is the gateway's and a key is there.
ReadsConnected(spec, docs) ==
  /\ docs[spec.base[1]].vals[spec.base[2]] \in GatewayValues
  /\ docs[spec.token[1]].vals[spec.token[2]] # None

\* The audit, when there is one, decides; otherwise the files do.
agent_drifted(spec, audit, docs) ==
  IF audit # NoAudit
    THEN \E f \in File, r \in Roles :
           audit[f][r] # None /\ applied_values(spec, docs)[f][r] # audit[f][r]
    ELSE ~ReadsConnected(spec, docs)
===============================================================================
