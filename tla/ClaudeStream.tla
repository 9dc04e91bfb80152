----------------------------- MODULE ClaudeStream -----------------------------
(***************************************************************************)
(* crates/core/src/formats/claude/stream.rs: Claude's SSE events to and    *)
(* from the canonical ones.                                                *)
(***************************************************************************)
LOCAL INSTANCE Integers
LOCAL INSTANCE Sequences
LOCAL INSTANCE StreamIR

parse_message_start(ev, st) ==
  Ok([st EXCEPT !.started = TRUE, !.phase = "Init", !.block = 0, !.calls = 0, !.done = FALSE,
                !.usage = IF ev.usage.some THEN ev.usage ELSE st.usage],
     <<Start>>)

parse_content_block_start(ev, st) ==
  LET opened == [st EXCEPT !.block = ev.i, !.phase = "Content"] IN
  CASE ev.block = "redacted_thinking" -> Ok(opened, <<SealedThinking("claude")>>)
    [] ev.block = "tool_use" ->
         Ok([opened EXCEPT !.phase = "ToolCalls", !.calls = @ + 1], <<ToolCallStart(st.calls, ev.id)>>)
    [] OTHER -> Ok(opened, <<>>)

parse_delta_of_next_call(ev, st) ==
  LET moved == [st EXCEPT !.block = ev.i] IN
  CASE ev.delta = "text" -> Ok([moved EXCEPT !.phase = "Content"], <<TextDelta(ev.x)>>)
    [] ev.delta = "input_json" -> Ok([moved EXCEPT !.phase = "ToolCalls"], <<ToolCallDelta(st.calls, ev.x)>>)
    [] ev.delta = "thinking" -> Ok(moved, <<ThinkingDelta(ev.x)>>)
    [] ev.delta = "signature" -> Ok(moved, <<ThinkingSignature("claude", ev.x)>>)
parse_content_block_delta(ev, st) ==
  LET moved == [st EXCEPT !.block = ev.i] IN
  CASE ev.delta = "text" -> Ok([moved EXCEPT !.phase = "Content"], <<TextDelta(ev.x)>>)
    [] ev.delta = "input_json" ->
         Ok([moved EXCEPT !.phase = "ToolCalls"],
            <<ToolCallDelta(IF st.calls = 0 THEN 0 ELSE st.calls - 1, ev.x)>>)
    [] ev.delta = "thinking" -> Ok(moved, <<ThinkingDelta(ev.x)>>)
    [] ev.delta = "signature" -> Ok(moved, <<ThinkingSignature("claude", ev.x)>>)

parse_message_delta(ev, st) ==
  LET usage == IF ev.usage.some THEN Tokens(st.usage.i, ev.usage.o) ELSE st.usage IN
  Ok([st EXCEPT !.usage = usage, !.phase = "Done"], <<Done(from_claude(ev.stop), usage)>>)

\* Some providers omit message_delta: message_stop then stands for both.
parse_message_stop(st) ==
  LET stop == IF st.phase = "ToolCalls" \/ st.calls > 0 THEN "ToolUse" ELSE "EndTurn" IN
  Ok([st EXCEPT !.done = TRUE, !.phase = "Done"],
     IF st.phase = "Done" THEN <<>> ELSE <<Done(stop, st.usage)>>)

parse_sse_event(ev, st) ==
  CASE ev.k = "message_start" -> parse_message_start(ev, st)
    [] ev.k = "content_block_start" -> parse_content_block_start(ev, st)
    [] ev.k = "content_block_delta" -> parse_content_block_delta(ev, st)
    [] ev.k = "message_delta" -> parse_message_delta(ev, st)
    [] ev.k = "message_stop" -> parse_message_stop(st)
    [] ev.k \in {"content_block_stop", "ping"} -> Ok(st, <<>>)
    [] OTHER -> Failed(st)

emit_message_start(st) ==
  Ok([st EXCEPT !.started = TRUE, !.phase = "Init", !.block = 0, !.calls = 0, !.done = FALSE,
                !.usage = Tokens(0, 0)],
     <<[k |-> "message_start", usage |-> Tokens(0, 0)]>>)

\* emit_text_delta and emit_thinking_delta: the first of either opens the only
\* block that is not a tool call.
emit_delta(block, x, st) ==
  Ok([st EXCEPT !.phase = IF @ = "Init" THEN "Content" ELSE @],
     (IF st.phase = "Init" THEN <<[k |-> "content_block_start", i |-> st.block, block |-> block]>> ELSE <<>>)
     \o <<[k |-> "content_block_delta", i |-> st.block, delta |-> block, x |-> x]>>)

emit_tool_call_start(ev, st) ==
  Ok([st EXCEPT !.block = @ + 1, !.calls = ev.index + 1, !.phase = "ToolCalls"],
     <<[k |-> "content_block_start", i |-> st.block, block |-> "tool_use", id |-> ev.id]>>)

emit_tool_call_delta(ev, st) ==
  Ok(st, <<[k |-> "content_block_delta", i |-> IF st.block = 0 THEN 0 ELSE st.block - 1,
            delta |-> "input_json", x |-> ev.x]>>)

emit_done(ev, st) ==
  Ok([st EXCEPT !.usage = IF ev.usage.some THEN ev.usage ELSE @, !.done = TRUE, !.phase = "Done"],
     <<[k |-> "message_delta", stop |-> to_claude(ev.stop), usage |-> Tokens(ev.usage.i, ev.usage.o)],
       [k |-> "message_stop"]>>)

emit_sse_event(ev, st) ==
  CASE ev.e = "Start" -> emit_message_start(st)
    [] ev.e = "TextDelta" -> emit_delta("text", ev.x, st)
    [] ev.e = "ThinkingDelta" -> emit_delta("thinking", ev.x, st)
    [] ev.e = "ToolCallStart" -> emit_tool_call_start(ev, st)
    [] ev.e = "ToolCallDelta" -> emit_tool_call_delta(ev, st)
    [] ev.e = "Done" -> emit_done(ev, st)
    [] ev.e \in {"ThinkingSignature", "SealedThinking"} -> Ok(st, <<>>)
===============================================================================
