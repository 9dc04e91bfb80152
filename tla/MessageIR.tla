------------------------------ MODULE MessageIR ------------------------------
(***************************************************************************)
(* The request and response IR of crates/core/src/ir: what every reader    *)
(* (formats/<fmt>/read.rs) produces and every builder (build.rs) consumes, *)
(* with the helpers of converters/shared.rs and converters/reasoning.rs.   *)
(*                                                                         *)
(* A text is a sequence of words, so that joining texts is concatenation   *)
(* and <<>> is the empty string.  A word is a pair <<kind, value>>; a URL  *)
(* is a text too, a `data:` URL the one word <<"data:", payload>>.  An     *)
(* Option is a sequence of at most one element.  Model names, reply ids,   *)
(* timestamps, tool descriptions and schemas are left out: the converters  *)
(* move them unread.                                                       *)
(***************************************************************************)
EXTENDS StreamIR

\* The elements of s that F maps to a value: F returns an Option.
filter_map(s, F(_)) == Concat([i \in DOMAIN s |-> F(s[i])])
map_seq(s, F(_)) == [i \in DOMAIN s |-> F(s[i])]
has_part(s, P(_)) == \E i \in DOMAIN s : P(s[i])

(* IrPart.  A signature is <<>> or <<[by |-> format, v |-> what it signs]>>. *)
IrText(x, sig) == [p |-> "Text", x |-> x, sig |-> sig]
IrImage(url, data, detail) == [p |-> "Image", url |-> url, data |-> data, detail |-> detail]
IrCall(id, name, args, sig) == [p |-> "ToolCall", id |-> id, name |-> name, args |-> args, sig |-> sig]
IrResult(id, err, content) == [p |-> "ToolResult", id |-> id, err |-> err, content |-> content]
IrThinking(x, sig) == [p |-> "Thinking", x |-> x, sig |-> sig]
IrSealed(by, raw) == [p |-> "Sealed", by |-> by, raw |-> raw]
Signature(by, v) == [by |-> by, v |-> v]
signed_by(sig, by) == SelectSeq(sig, LAMBDA s : s.by = by)

plain(x) == IrText(x, <<>>)
IrMessage(role, parts) == [role |-> role, parts |-> parts]

\* The text parts joined with nothing between them.
text_of(parts) == filter_map(parts, LAMBDA part : IF part.p = "Text" THEN part.x ELSE <<>>)
texts_of(parts) == filter_map(parts, LAMBDA part : IF part.p = "Text" THEN <<part.x>> ELSE <<>>)

(* IrTool, IrToolChoice (None of Option is "absent"), Sampling, Reasoning. *)
IrTool(name, strict) == [name |-> name, strict |-> strict]
IrToolChoice == {"absent", "Auto", "None", "Required", "Named"}
Choice(k, name) == [k |-> k, name |-> name]
Sampling(max, temp, top_k, stop) == [max |-> max, temp |-> temp, top_k |-> top_k, stop |-> stop]
Off == [k |-> "Off", v |-> 0]
Budget(n) == [k |-> "Budget", v |-> n]
Effort(e) == [k |-> "Effort", v |-> e]

(* NamespacedExtra: a set of fields, each with the format that owns it. *)
PASSLIST == {"user", "stream_options", "parallel_tool_calls"}
put(owner, names) == {[owner |-> owner, name |-> n] : n \in names}
take(extra, target) == {f.name : f \in {g \in extra : g.owner = target \/ g.name \in PASSLIST}}

IrRequest(system, messages, tools, choice, sampling, stream, reasoning, extra) ==
  [system |-> system, messages |-> messages, tools |-> tools, choice |-> choice,
   sampling |-> sampling, stream |-> stream, reasoning |-> reasoning, extra |-> extra]
IrResponse(parts, stop, usage) == [parts |-> parts, stop |-> stop, usage |-> usage]

(* converters/shared.rs *)
Broken == "broken"      \* arguments that are not JSON
EmptyArgs == "{}"
parse_arguments(s) == IF s = Broken THEN EmptyArgs ELSE s
DataUrl(data) == <<<<"data:", data>>>>
parse_data_url(url) == IF url # <<>> /\ url[1][1] = "data:" THEN <<url[1][2]>> ELSE <<>>
\* An id no other part of this conversation has.
new_uuid(at) == <<"uuid", at>>

(* converters/reasoning.rs *)
at_least(n, floor) == IF n < floor THEN floor ELSE n
reasoning_effort_to_thinking(effort, max_tokens) ==
  CASE effort = "none" -> <<>>
    [] effort = "low" -> <<1024>>
    [] effort = "high" -> <<at_least(max_tokens, 4096)>>
    [] OTHER -> <<at_least(max_tokens, 2048)>>
thinking_to_reasoning_effort(budget) ==
  IF budget <= 1024 THEN "low" ELSE IF budget >= 4096 THEN "high" ELSE "medium"

from_openai_resp(w) ==
  CASE w = "max_output_tokens" -> "MaxTokens" [] w = "content_filter" -> "ContentFilter"
    [] OTHER -> "EndTurn"

\* Adjacent messages of one role become one message.
merge_same_role(messages) ==
  LET upTo[n \in 0..Len(messages)] ==
        IF n = 0 THEN <<>>
        ELSE LET out == upTo[n - 1]
                 msg == messages[n]
                 k == Len(out)
             IN IF k > 0 /\ out[k].role = msg.role
                THEN [out EXCEPT ![k].parts = @ \o msg.parts]
                ELSE Append(out, msg)
  IN upTo[Len(messages)]
===============================================================================
