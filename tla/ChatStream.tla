------------------------------ MODULE ChatStream ------------------------------
(***************************************************************************)
(* crates/core/src/formats/openai_chat/stream.rs: Chat Completions chunks  *)
(* to and from the canonical events.  A chunk carries at most one of each: *)
(* a text piece, a reasoning piece, tool-call pieces, a finish reason and  *)
(* the usage; <<>> and "" stand for what it leaves out.                    *)
(***************************************************************************)
LOCAL INSTANCE Integers
LOCAL INSTANCE Sequences
LOCAL INSTANCE StreamIR

chunk == [k |-> "chunk", role |-> FALSE, content |-> <<>>, reasoning |-> <<>>, tools |-> <<>>,
          finish |-> "", usage |-> NoUsage]

\* One entry of delta.tool_calls: a start when it names the call, a delta when
\* it carries arguments.
tool_call_events(tc) ==
  (IF tc.id # "" THEN <<ToolCallStart(tc.index, tc.id)>> ELSE <<>>)
  \o (IF tc.x # <<>> THEN <<ToolCallDelta(tc.index, tc.x)>> ELSE <<>>)

parse_done(st) ==
  LET stop == IF st.acc # <<>> THEN "ToolUse" ELSE IF st.finish # "" THEN st.finish ELSE "EndTurn" IN
  Ok([st EXCEPT !.done = TRUE, !.phase = "Done"], <<Done(stop, st.usage)>>)

parse_chunk(ev, st) ==
  Ok([st EXCEPT !.started = TRUE,
                !.usage = IF ev.usage.some THEN ev.usage ELSE @,
                !.phase = CASE ev.tools # <<>> -> "ToolCalls" [] ev.content # <<>> -> "Content" [] OTHER -> @,
                !.finish = IF ev.finish # "" THEN from_openai_chat(ev.finish) ELSE @],
     (IF st.started THEN <<>> ELSE <<Start>>)
     \o (IF ev.content # <<>> THEN <<TextDelta(ev.content)>> ELSE <<>>)
     \o (IF ev.reasoning # <<>> THEN <<ThinkingDelta(ev.reasoning)>> ELSE <<>>)
     \o Concat([n \in 1..Len(ev.tools) |-> tool_call_events(ev.tools[n])]))

parse_sse_event(ev, st) ==
  CASE ev.k = "[DONE]" -> parse_done(st) [] ev.k = "chunk" -> parse_chunk(ev, st) [] OTHER -> Failed(st)

emit_done(ev, st) ==
  Ok([st EXCEPT !.done = TRUE, !.phase = "Done", !.usage = IF ev.usage.some THEN ev.usage ELSE @],
     <<[chunk EXCEPT !.finish = to_openai_chat(ev.stop), !.usage = ev.usage], [k |-> "[DONE]"]>>)

emit_sse_event(ev, st) ==
  CASE ev.e = "Start" -> Ok([st EXCEPT !.started = TRUE], <<[chunk EXCEPT !.role = TRUE]>>)
    [] ev.e = "TextDelta" -> Ok(st, <<[chunk EXCEPT !.content = ev.x]>>)
    [] ev.e = "ThinkingDelta" -> Ok(st, <<[chunk EXCEPT !.reasoning = ev.x]>>)
    [] ev.e = "ToolCallStart" ->
         Ok(st, <<[chunk EXCEPT !.tools = <<[index |-> ev.index, id |-> ev.id, x |-> <<>>]>>]>>)
    [] ev.e = "ToolCallDelta" ->
         Ok(st, <<[chunk EXCEPT !.tools = <<[index |-> ev.index, id |-> "", x |-> ev.x]>>]>>)
    [] ev.e = "Done" -> emit_done(ev, st)
    [] ev.e \in {"ThinkingSignature", "SealedThinking"} -> Ok(st, <<>>)
===============================================================================
