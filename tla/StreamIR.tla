------------------------------- MODULE StreamIR -------------------------------
(***************************************************************************)
(* The canonical stream events and the per-direction StreamState of        *)
(* crates/core/src/ir/stream.rs, shared by the four stream adapters.       *)
(*                                                                         *)
(* Texts, thinking, signatures and tool arguments are sequences of pieces, *)
(* and a delta carries such a sequence (<<>> is an empty string).  An      *)
(* adapter maps a state and an event to a Result: the new state, the       *)
(* events or lines it produced, and whether it succeeded.                  *)
(***************************************************************************)
EXTENDS Integers, Sequences

\* The concatenation of a sequence of sequences.
Concat(ss) ==
  LET upTo[n \in 0..Len(ss)] == IF n = 0 THEN <<>> ELSE upTo[n - 1] \o ss[n] IN upTo[Len(ss)]

\* F of v, with v evaluated once.
With(v, F(_)) == CHOOSE y \in {F(x) : x \in {v}} : TRUE

Formats == {"claude", "chat", "responses", "gemini"}

\* Usage: input and output tokens; some = FALSE is Rust's None.
NoUsage == [some |-> FALSE, i |-> 0, o |-> 0]
Tokens(i, o) == [some |-> TRUE, i |-> i, o |-> o]
Counted(u) == u.i > 0 \/ u.o > 0

(* CanonicalStreamEvent *)
Start == [e |-> "Start"]
TextDelta(x) == [e |-> "TextDelta", x |-> x]
ToolCallStart(index, id) == [e |-> "ToolCallStart", index |-> index, id |-> id]
ToolCallDelta(index, x) == [e |-> "ToolCallDelta", index |-> index, x |-> x]
ThinkingDelta(x) == [e |-> "ThinkingDelta", x |-> x]
ThinkingSignature(by, x) == [e |-> "ThinkingSignature", by |-> by, x |-> x]
SealedThinking(by) == [e |-> "SealedThinking", by |-> by]
Done(stop, usage) == [e |-> "Done", stop |-> stop, usage |-> usage]

StreamState ==
  [started |-> FALSE,      \* response_id is set
   phase |-> "Init",
   block |-> 0,            \* block_index
   calls |-> 0,            \* tool_call_index
   finish |-> "",          \* finish_reason; "": None
   usage |-> NoUsage,      \* accumulated_usage
   text |-> <<>>,          \* accumulated_text
   acc |-> <<>>,           \* accumulated_tool_calls
   thinking |-> <<>>,      \* thinking_signature up to THINKING_TEXT_END
   signature |-> <<>>,     \* and after it
   by |-> "",              \* thinking_signature_by
   done |-> FALSE]

Ok(st, out) == [ok |-> TRUE, st |-> st, out |-> out]
Failed(st) == [ok |-> FALSE, st |-> st, out |-> <<>>]

(* StopReason, and its words in each format.  A word the format does not   *)
(* have comes back as EndTurn.                                             *)
to_openai_chat(r) ==
  CASE r = "MaxTokens" -> "length" [] r = "ToolUse" -> "tool_calls"
    [] r = "ContentFilter" -> "content_filter" [] OTHER -> "stop"
to_claude(r) ==
  CASE r = "MaxTokens" -> "max_tokens" [] r = "ToolUse" -> "tool_use"
    [] r = "StopSequence" -> "stop_sequence" [] OTHER -> "end_turn"
to_gemini(r) ==
  CASE r = "MaxTokens" -> "MAX_TOKENS" [] r = "ContentFilter" -> "SAFETY" [] OTHER -> "STOP"

from_openai_chat(w) ==
  CASE w = "length" -> "MaxTokens" [] w = "tool_calls" -> "ToolUse"
    [] w = "content_filter" -> "ContentFilter" [] OTHER -> "EndTurn"
from_claude(w) ==
  CASE w = "max_tokens" -> "MaxTokens" [] w = "tool_use" -> "ToolUse"
    [] w = "stop_sequence" -> "StopSequence" [] w = "refusal" -> "ContentFilter"
    [] OTHER -> "EndTurn"
from_gemini(w) ==
  CASE w = "MAX_TOKENS" -> "MaxTokens" [] w \in {"SAFETY", "PROHIBITED_CONTENT"} -> "ContentFilter"
    [] OTHER -> "EndTurn"
===============================================================================
