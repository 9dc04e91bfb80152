---------------------------- MODULE ResponsesStream ----------------------------
(***************************************************************************)
(* crates/core/src/formats/openai_resp/stream.rs: Responses events to and  *)
(* from the canonical ones.  An item of the response is a message, a       *)
(* function call or a reasoning item; i is its output_index.               *)
(***************************************************************************)
LOCAL INSTANCE Integers
LOCAL INSTANCE Sequences
LOCAL INSTANCE StreamIR

message(xs) == [type |-> "message", xs |-> xs]
function_call(id, args) == [type |-> "function_call", id |-> id, args |-> args, name |-> "qualified"]
reasoning(xs) == [type |-> "reasoning", xs |-> xs]
added(i, item) == [k |-> "response.output_item.added", i |-> i, item |-> item]
item_done(i, item) == [k |-> "response.output_item.done", i |-> i, item |-> item]

status_to_stop_reason(s) ==
  CASE s = "incomplete" -> "MaxTokens" [] s = "failed" -> "ContentFilter" [] OTHER -> "EndTurn"
stop_reason_to_status(r) ==
  CASE r = "MaxTokens" -> "incomplete" [] r = "ContentFilter" -> "failed" [] OTHER -> "completed"

(* parse_sse_event_impl *)
parse_created(ev, st) ==
  Ok([st EXCEPT !.started = TRUE, !.phase = "Content",
                !.usage = IF ev.usage.some THEN ev.usage ELSE @], <<Start>>)

parse_item_added(ev, st) ==
  IF ev.item.type = "function_call"
  THEN Ok([st EXCEPT !.calls = @ + 1, !.phase = "ToolCalls"], <<ToolCallStart(st.calls, ev.item.id)>>)
  ELSE Ok(st, <<>>)

parse_completed(ev, st) ==
  Ok([st EXCEPT !.done = TRUE, !.phase = "Done", !.usage = ev.usage],
     <<Done(status_to_stop_reason(ev.status), ev.usage)>>)

parse_sse_event(ev, st) ==
  CASE ev.k = "response.created" -> parse_created(ev, st)
    [] ev.k = "response.output_text.delta" -> Ok(st, <<TextDelta(ev.x)>>)
    [] ev.k = "response.function_call_arguments.delta" -> Ok(st, <<ToolCallDelta(ev.i, ev.x)>>)
    [] ev.k = "response.output_item.added" -> parse_item_added(ev, st)
    [] ev.k = "response.completed" -> parse_completed(ev, st)
    [] ev.k = "garbled" -> Failed(st)   \* not JSON
    [] OTHER -> Ok(st, <<>>)

signed_by_claude(st) == st.by = "claude" /\ st.signature # <<>>
reasoning_prefix(st) == IF signed_by_claude(st) THEN 1 ELSE 0
text_offset(st) == IF st.text = <<>> THEN 0 ELSE 1

emit_signature(ev, st) ==
  IF ev.by # "claude" \/ ev.x = <<>> THEN Ok(st, <<>>)
  ELSE Ok([st EXCEPT !.by = "claude", !.signature = @ \o ev.x], <<>>)

\* A block sealed whole leaves at once, at the next free index.
emit_sealed(ev, st) ==
  LET i == text_offset(st) + Len(st.acc) + st.block IN
  IF ev.by # "claude" THEN Ok(st, <<>>)
  ELSE Ok([st EXCEPT !.block = @ + 1], <<added(i, reasoning(<<>>)), item_done(i, reasoning(<<"sealed">>))>>)

emit_start(st) ==
  Ok([st EXCEPT !.started = TRUE, !.phase = "Content"],
     <<[k |-> "response.created", usage |-> NoUsage], [k |-> "response.in_progress"]>>)

emit_text_delta(ev, st) ==
  LET i == reasoning_prefix(st) IN
  Ok([st EXCEPT !.text = @ \o ev.x],
     (IF st.text = <<>>
      THEN <<added(i, message(<<>>)), [k |-> "response.content_part.added", i |-> i]>> ELSE <<>>)
     \o <<[k |-> "response.output_text.delta", i |-> i, x |-> ev.x]>>)

emit_tool_call_start(ev, st) ==
  Ok([st EXCEPT !.acc = Append(@, [index |-> ev.index, id |-> ev.id, args |-> <<>>])],
     <<added(ev.index + text_offset(st) + reasoning_prefix(st), function_call(ev.id, <<>>))>>)

emit_tool_call_delta(ev, st) ==
  LET mine == {n \in DOMAIN st.acc : st.acc[n].index = ev.index}
      n == CHOOSE n \in mine : \A other \in mine : n <= other
  IN IF mine = {} THEN Failed(st)
     ELSE Ok([st EXCEPT !.acc[n].args = @ \o ev.x],
             <<[k |-> "response.function_call_arguments.delta", id |-> st.acc[n].id,
                i |-> ev.index + text_offset(st) + reasoning_prefix(st), x |-> ev.x]>>)

\* Everything closes here: the signed thinking, the text, each call in the order
\* it was opened, and last the response with all of it.
done_items_without_prefix(st) ==
  (IF signed_by_claude(st) THEN <<[i |-> 0, item |-> reasoning(st.thinking)]>> ELSE <<>>)
  \o (IF st.text # <<>> THEN <<[i |-> 0, item |-> message(st.text)]>> ELSE <<>>)
  \o [n \in DOMAIN st.acc |-> [i |-> st.acc[n].index + text_offset(st),
                               item |-> function_call(st.acc[n].id, st.acc[n].args)]]
done_items(st) ==
  (IF signed_by_claude(st) THEN <<[i |-> 0, item |-> reasoning(st.thinking)]>> ELSE <<>>)
  \o (IF st.text # <<>> THEN <<[i |-> reasoning_prefix(st), item |-> message(st.text)]>> ELSE <<>>)
  \o [n \in DOMAIN st.acc |-> [i |-> st.acc[n].index + text_offset(st) + reasoning_prefix(st),
                               item |-> function_call(st.acc[n].id, st.acc[n].args)]]

closing_lines(c) ==
  CASE c.item.type = "reasoning" -> <<added(c.i, reasoning(<<>>)), item_done(c.i, c.item)>>
    [] c.item.type = "message" ->
         <<[k |-> "response.output_text.done", i |-> c.i, xs |-> c.item.xs],
           [k |-> "response.content_part.done", i |-> c.i], item_done(c.i, c.item)>>
    [] c.item.type = "function_call" ->
         <<[k |-> "response.function_call_arguments.done", i |-> c.i, id |-> c.item.id, args |-> c.item.args],
           item_done(c.i, c.item)>>

emit_done(ev, st) ==
  LET items == done_items(st)
      output == IF items = <<>> THEN <<message(<<>>)>> ELSE [n \in DOMAIN items |-> items[n].item]
  IN Ok([st EXCEPT !.done = TRUE, !.phase = "Done"],
        Concat([n \in DOMAIN items |-> closing_lines(items[n])])
        \o <<[k |-> "response.completed", status |-> stop_reason_to_status(ev.stop),
              usage |-> ev.usage, output |-> output]>>)

emit_sse_event(ev, st) ==
  CASE ev.e = "ThinkingSignature" -> emit_signature(ev, st)
    [] ev.e = "SealedThinking" -> emit_sealed(ev, st)
    [] ev.e = "Start" -> emit_start(st)
    [] ev.e = "TextDelta" -> emit_text_delta(ev, st)
    [] ev.e = "ToolCallStart" -> emit_tool_call_start(ev, st)
    [] ev.e = "ToolCallDelta" -> emit_tool_call_delta(ev, st)
    [] ev.e = "ThinkingDelta" -> Ok([st EXCEPT !.thinking = @ \o ev.x], <<>>)
    [] ev.e = "Done" -> emit_done(ev, st)
===============================================================================
