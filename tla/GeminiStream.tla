----------------------------- MODULE GeminiStream -----------------------------
(***************************************************************************)
(* crates/core/src/formats/gemini/stream.rs: Gemini's response chunks to   *)
(* and from the canonical events.  A part is text, a thought with its      *)
(* signature, or a whole function call.                                    *)
(***************************************************************************)
LOCAL INSTANCE Integers
LOCAL INSTANCE Sequences
LOCAL INSTANCE StreamIR

CONSTANT JsonTexts   \* the sequences of pieces that parse as JSON

chunk == [k |-> "chunk", parts |-> <<>>, finish |-> "", usage |-> NoUsage, enveloped |-> FALSE]
text_part(x) == [part |-> "text", x |-> x]
thought_part(x, sig) == [part |-> "thought", x |-> x, sig |-> sig]
call_part(id, args) == [part |-> "call", id |-> id, args |-> args]

parse_part(r, p) ==
  CASE p.part = "text" ->
         Ok([r.st EXCEPT !.phase = "Content"], Append(r.out, TextDelta(p.x)))
    [] p.part = "thought" ->
         Ok(r.st, Append(r.out, ThinkingDelta(p.x))
               \o (IF p.sig # <<>> THEN <<ThinkingSignature("gemini", p.sig)>> ELSE <<>>))
    [] p.part = "call" ->
         Ok([r.st EXCEPT !.phase = "ToolCalls", !.calls = @ + 1],
            Append(r.out, ToolCallStart(r.st.calls, p.id))
            \o (IF p.args # <<>> THEN <<ToolCallDelta(r.st.calls, p.args)>> ELSE <<>>))

parse_sse_event(ev, st) ==
  LET begun == Ok([st EXCEPT !.started = TRUE, !.usage = IF ev.usage.some THEN ev.usage ELSE @],
                  IF st.started THEN <<>> ELSE <<Start>>)
      upTo[n \in 0..Len(ev.parts)] == IF n = 0 THEN begun ELSE parse_part(upTo[n - 1], ev.parts[n])
      read == upTo[Len(ev.parts)]
  IN CASE ev.k # "chunk" \/ ev.enveloped -> Failed(st)
       [] ev.finish = "" -> read
       [] OTHER -> Ok([read.st EXCEPT !.done = TRUE, !.phase = "Done"],
                      Append(read.out, Done(from_gemini(ev.finish), read.st.usage)))

emit_tool_call_start(ev, st) ==
  Ok([st EXCEPT !.acc = Append(@, [index |-> ev.index, id |-> ev.id, args |-> <<>>])],
     <<[chunk EXCEPT !.parts = <<call_part(ev.id, <<>>)>>]>>)

\* The call comes out again, whole, whenever its arguments parse as JSON.
emit_tool_call_delta(ev, st) ==
  LET mine == {n \in DOMAIN st.acc : st.acc[n].index = ev.index}
      n == CHOOSE n \in mine : \A other \in mine : n <= other
      args == st.acc[n].args \o ev.x
  IN IF mine = {} THEN Ok(st, <<>>)
     ELSE Ok([st EXCEPT !.acc[n].args = args],
             IF args \in JsonTexts
             THEN <<[chunk EXCEPT !.parts = <<call_part(st.acc[n].id, args)>>]>> ELSE <<>>)

\* A thought is held until its signature comes; one Gemini did not sign is never
\* written.
emit_signature(ev, st) ==
  IF ev.by = "gemini"
  THEN Ok([st EXCEPT !.text = <<>>], <<[chunk EXCEPT !.parts = <<thought_part(st.text, ev.x)>>]>>)
  ELSE Ok(st, <<>>)

emit_done(ev, st) ==
  Ok([st EXCEPT !.done = TRUE, !.phase = "Done", !.usage = IF ev.usage.some THEN ev.usage ELSE @],
     <<[chunk EXCEPT !.finish = to_gemini(ev.stop), !.usage = ev.usage]>>)

emit_sse_event(ev, st) ==
  CASE ev.e = "Start" -> Ok([st EXCEPT !.started = TRUE], <<>>)
    [] ev.e = "TextDelta" -> Ok(st, <<[chunk EXCEPT !.parts = <<text_part(ev.x)>>]>>)
    [] ev.e = "ToolCallStart" -> emit_tool_call_start(ev, st)
    [] ev.e = "ToolCallDelta" -> emit_tool_call_delta(ev, st)
    [] ev.e = "ThinkingDelta" -> Ok([st EXCEPT !.text = @ \o ev.x], <<>>)
    [] ev.e = "ThinkingSignature" -> emit_signature(ev, st)
    [] ev.e = "Done" -> emit_done(ev, st)
    [] ev.e = "SealedThinking" -> Ok(st, <<>>)
===============================================================================
