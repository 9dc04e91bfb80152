---------------------------- MODULE GeminiMessages ----------------------------
(***************************************************************************)
(* crates/core/src/formats/gemini: types.rs, read.rs and build.rs.         *)
(*                                                                         *)
(* A function response's body is {"result": text}; read back, the text is  *)
(* the JSON of that string, so it comes with its quotes.                   *)
(***************************************************************************)
EXTENDS MessageIR

GeminiPart == [text |-> <<>>, thought |-> FALSE, sig |-> <<>>, inline_data |-> <<>>,
               function_call |-> <<>>, function_response |-> <<>>]
text_part(x) == [GeminiPart EXCEPT !.text = <<x>>]
thinking_part(x) == [GeminiPart EXCEPT !.text = <<x>>, !.thought = TRUE]
with_thought_signature(part, sig) == [part EXCEPT !.sig = sig]
inline_data(data) == [GeminiPart EXCEPT !.inline_data = <<data>>]
function_call(name, args, id) ==
  [GeminiPart EXCEPT !.function_call = <<[name |-> name, args |-> args, id |-> id]>>]
function_response(x, err, id) ==
  [GeminiPart EXCEPT !.function_response = <<[x |-> x, err |-> err, id |-> id]>>]
GeminiContent(role, parts) == [role |-> role, parts |-> parts]
GeminiRequest(system, contents, tools, choice, sampling, extra) ==
  [system |-> system, contents |-> contents, tools |-> tools, choice |-> choice,
   sampling |-> sampling, extra |-> extra]
GeminiResponse(parts, finish_reason, usage) ==
  [parts |-> parts, finish_reason |-> finish_reason, usage |-> usage]

(* ---- read.rs ---- *)
gemini_signature_of(part) == map_seq(part.sig, LAMBDA v : Signature("gemini", v))
id_or_uuid(id, at) == IF id = <<>> THEN new_uuid(at) ELSE Head(id)

text_parts(part) ==
  LET x == Concat(part.text)
      sig == gemini_signature_of(part)
  IN IF x = <<>> THEN <<>> ELSE IF part.thought THEN <<IrThinking(x, sig)>> ELSE <<IrText(x, sig)>>

call_parts(part, at) ==
  map_seq(part.function_call,
          LAMBDA fc : IrCall(id_or_uuid(fc.id, at), fc.name, fc.args, gemini_signature_of(part)))

image_parts(part) == map_seq(part.inline_data, LAMBDA data : IrImage(DataUrl(data), <<data>>, <<>>))

Quote == <<"quote", 0>>
extract_function_response_text(x) == <<Quote>> \o x \o <<Quote>>
result_parts(part, at) ==
  map_seq(part.function_response,
          LAMBDA fr : IrResult(id_or_uuid(fr.id, at), fr.err, <<plain(extract_function_response_text(fr.x))>>))

\* Tool results are hoisted above the message's own content.
read_message(content, at) ==
  LET role == IF content.role = "model" THEN "Assistant" ELSE "User"
      own(i) == IF content.parts[i].function_response # <<>> THEN <<>>
                ELSE text_parts(content.parts[i])
                       \o (IF role = "Assistant" THEN call_parts(content.parts[i], <<at, i>>)
                           ELSE image_parts(content.parts[i]))
      results(i) == IF role = "User" THEN result_parts(content.parts[i], <<at, i>>) ELSE <<>>
      parts == Concat([i \in DOMAIN content.parts |-> results(i)])
                 \o Concat([i \in DOMAIN content.parts |-> own(i)])
  IN IF parts = <<>> THEN <<>> ELSE <<IrMessage(role, parts)>>

read_system(parts) ==
  LET text == Concat(map_seq(parts, LAMBDA part : Concat(part.text)))
  IN IF text = <<>> THEN <<>> ELSE <<plain(text)>>

\* An allowed name counts whatever the mode says; only one name does.
read_tool_choice(config) ==
  CASE config.k = "absent" -> Choice("absent", <<>>)
    [] config.name # <<>> -> Choice("Named", config.name)
    [] config.k = "NONE" -> Choice("None", <<>>)
    [] config.k = "ANY" -> Choice("Required", <<>>)
    [] OTHER -> Choice("Auto", <<>>)

read(req) ==
  IrRequest(read_system(req.system),
            Concat([i \in DOMAIN req.contents |-> read_message(req.contents[i], i)]),
            map_seq(req.tools, LAMBDA tool : IrTool(tool.name, <<>>)), read_tool_choice(req.choice),
            req.sampling, FALSE, Off, put("gemini", req.extra))

\* `reply` numbers the reply, so that a made-up id is new.
read_response(resp, reply) ==
  IrResponse(Concat([i \in DOMAIN resp.parts |->
                      text_parts(resp.parts[i]) \o call_parts(resp.parts[i], <<"reply", reply, i>>)]),
             from_gemini(resp.finish_reason), [resp.usage EXCEPT !.cached = <<>>])

(* ---- build.rs ---- *)
gemini_signature(sig) == map_seq(signed_by(sig, "gemini"), LAMBDA s : s.v)

\* A URL that is not inline data degrades to text, as does unsigned thinking.
push_part(part) ==
  CASE part.p = "Text" ->
         IF part.x = <<>> THEN <<>> ELSE <<with_thought_signature(text_part(part.x), gemini_signature(part.sig))>>
    [] part.p = "Image" ->
         LET data == parse_data_url(part.url)
         IN <<IF data = <<>> THEN text_part(part.url) ELSE inline_data(Head(data))>>
    [] part.p = "ToolCall" ->
         <<with_thought_signature(function_call(part.name, part.args, <<part.id>>), gemini_signature(part.sig))>>
    [] part.p = "ToolResult" -> <<function_response(text_of(part.content), FALSE, <<part.id>>)>>
    [] part.p = "Thinking" ->
         IF part.x = <<>> THEN <<>>
         ELSE IF gemini_signature(part.sig) = <<>> THEN <<text_part(part.x)>>
         ELSE <<with_thought_signature(thinking_part(part.x), gemini_signature(part.sig))>>
    [] part.p = "Sealed" -> <<>>

build_parts(parts) == filter_map(parts, push_part)

build_tool_config(choice, has_tools) ==
  CASE choice.k = "absent" -> Choice("absent", <<>>)
    [] choice.k = "Auto" -> Choice(IF has_tools THEN "AUTO" ELSE "absent", <<>>)
    [] choice.k = "None" -> Choice("NONE", <<>>)
    [] choice.k = "Required" -> Choice("ANY", <<>>)
    [] choice.k = "Named" -> Choice("ANY", choice.name)

build(ir) ==
  GeminiRequest(
    map_seq(SelectSeq(texts_of(ir.system), LAMBDA x : x # <<>>), text_part),
    map_seq(ir.messages, LAMBDA m : GeminiContent(IF m.role = "User" THEN "user" ELSE "model", build_parts(m.parts))),
    map_seq(ir.tools, LAMBDA tool : IrTool(tool.name, <<>>)), build_tool_config(ir.choice, ir.tools # <<>>),
    ir.sampling, take(ir.extra, "gemini") \cap {"seed", "responseMimeType", "responseSchema"})

build_response(ir) ==
  GeminiResponse(build_parts(SelectSeq(ir.parts, LAMBDA q : q.p \in {"Text", "ToolCall", "Thinking"})),
                 to_gemini(ir.stop), [ir.usage EXCEPT !.cached = <<>>])
===============================================================================
