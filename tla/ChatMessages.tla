----------------------------- MODULE ChatMessages -----------------------------
(***************************************************************************)
(* crates/core/src/formats/openai_chat: types.rs, read.rs and build.rs.    *)
(*                                                                         *)
(* A message's content is a sequence of parts: a text is one text part and *)
(* an absent content none, which is how every reader takes them.           *)
(***************************************************************************)
EXTENDS MessageIR

text_part(x) == [c |-> "text", x |-> x]
image_part(url, detail) == [c |-> "image_url", url |-> url, detail |-> detail]
ToolCall(id, name, args) == [id |-> id, name |-> name, args |-> args]
OpenAIChatMessage(role, content, calls, id, reasoning) ==
  [role |-> role, content |-> content, tool_calls |-> calls, tool_call_id |-> id,
   reasoning_content |-> reasoning]
message(role, content) == OpenAIChatMessage(role, content, <<>>, <<>>, <<>>)
OpenAIChatRequest(messages, tools, choice, sampling, stream, effort, extra) ==
  [messages |-> messages, tools |-> tools, choice |-> choice, sampling |-> sampling,
   stream |-> stream, reasoning_effort |-> effort, extra |-> extra]
\* The reply's first choice; the others are not read.
OpenAIChatResponse(msg, finish_reason, usage) ==
  [message |-> msg, finish_reason |-> finish_reason, usage |-> usage]

(* ---- read.rs ---- *)
\* A `data:` URL is split: the payload is stored once and `url` left empty.
read_image(part) ==
  LET data == parse_data_url(part.url)
  IN IrImage(IF data = <<>> THEN part.url ELSE <<>>, data, part.detail)

content_part(part) == IF part.c = "text" THEN plain(part.x) ELSE read_image(part)

user_parts(content) == map_seq(content, content_part)

message_content_as_text(content) ==
  filter_map(content, LAMBDA part : IF part.c = "text" THEN part.x ELSE <<>>)

read_call(call) == IrCall(call.id, call.name, parse_arguments(call.args), <<>>)

thinking_parts(reasoning) == IF reasoning = <<>> THEN <<>> ELSE <<IrThinking(reasoning, <<>>)>>

\* Reasoning first, then content without its empty texts, then the calls.
assistant_parts(msg) ==
  thinking_parts(msg.reasoning_content)
    \o user_parts(SelectSeq(msg.content, LAMBDA part : part.c # "text" \/ part.x # <<>>))
    \o map_seq(msg.tool_calls, read_call)

tool_result_content(content) ==
  LET text == message_content_as_text(content) IN IF text = <<>> THEN <<>> ELSE <<plain(text)>>

is_instruction(msg) == msg.role \in {"system", "developer"}

read_message(msg) ==
  CASE msg.role = "assistant" -> IrMessage("Assistant", assistant_parts(msg))
    [] msg.role = "tool" ->
         IrMessage("User", <<IrResult(msg.tool_call_id, FALSE, tool_result_content(msg.content))>>)
    [] OTHER -> IrMessage("User", user_parts(msg.content))

read_tool_choice(choice) ==
  [choice EXCEPT !.k = CASE @ = "none" -> "None" [] @ = "required" -> "Required"
                         [] @ = "function" -> "Named" [] @ = "absent" -> @ [] OTHER -> "Auto"]

read(req) ==
  IrRequest(filter_map(req.messages,
              LAMBDA msg : IF is_instruction(msg) /\ msg.content # <<>>
                           THEN <<plain(message_content_as_text(msg.content))>> ELSE <<>>),
            filter_map(req.messages, LAMBDA msg : IF is_instruction(msg) THEN <<>> ELSE <<read_message(msg)>>),
            req.tools, read_tool_choice(req.choice), [req.sampling EXCEPT !.top_k = <<>>], req.stream,
            IF req.reasoning_effort = <<>> THEN Off ELSE Effort(Head(req.reasoning_effort)),
            put("chat", req.extra))

\* A reply's text comes before its reasoning.
read_response(resp) ==
  LET msg == resp.message
      text == message_content_as_text(msg.content)
  IN IrResponse((IF text = <<>> THEN <<>> ELSE <<plain(text)>>)
                  \o thinking_parts(msg.reasoning_content) \o map_seq(msg.tool_calls, read_call),
                from_openai_chat(resp.finish_reason), resp.usage)

(* ---- build.rs ---- *)
image_url(part) ==
  image_part(IF part.data # <<>> THEN DataUrl(Head(part.data)) ELSE part.url, part.detail)

\* An image anywhere forces the parts form, else the texts are concatenated.
message_content(parts) ==
  IF has_part(parts, LAMBDA q : q.p = "Image")
  THEN filter_map(parts, LAMBDA q : CASE q.p = "Text" -> <<text_part(q.x)>>
                                      [] q.p = "Image" -> <<image_url(q)>>
                                      [] OTHER -> <<>>)
  ELSE IF text_of(parts) = <<>> THEN <<>> ELSE <<text_part(text_of(parts))>>

tool_message(part) ==
  LET text == text_of(part.content)
  IN OpenAIChatMessage("tool", IF text = <<>> THEN <<>> ELSE <<text_part(text)>>, <<>>, part.id, <<>>)

\* The turn's own content as one message, then one tool message per result.
push_user_messages(parts) ==
  LET content == message_content(SelectSeq(parts, LAMBDA q : q.p # "ToolResult"))
      results == SelectSeq(parts, LAMBDA q : q.p = "ToolResult")
  IN (IF content = <<>> THEN <<>> ELSE <<message("user", content)>>) \o map_seq(results, tool_message)

tool_calls(parts) ==
  filter_map(parts, LAMBDA q : IF q.p = "ToolCall" THEN <<ToolCall(q.id, q.name, q.args)>> ELSE <<>>)

\* The last thinking part wins.
reasoning_content(parts) ==
  LET thinking == SelectSeq(parts, LAMBDA q : q.p = "Thinking")
  IN IF thinking = <<>> THEN <<>> ELSE thinking[Len(thinking)].x

assistant_message(parts) ==
  OpenAIChatMessage("assistant", message_content(SelectSeq(parts, LAMBDA q : q.p \in {"Text", "Image"})),
                    tool_calls(parts), <<>>, reasoning_content(parts))

tool_choice_value(choice) ==
  [choice EXCEPT !.k = CASE @ = "Auto" -> "auto" [] @ = "None" -> "none" [] @ = "Required" -> "required"
                         [] @ = "Named" -> "function" [] OTHER -> @]

build(ir) ==
  OpenAIChatRequest(
    map_seq(texts_of(ir.system), LAMBDA x : message("system", <<text_part(x)>>))
      \o Concat(map_seq(ir.messages, LAMBDA m : IF m.role = "Assistant" THEN <<assistant_message(m.parts)>>
                                                ELSE push_user_messages(m.parts))),
    ir.tools, tool_choice_value(ir.choice), [ir.sampling EXCEPT !.top_k = <<>>], ir.stream,
    CASE ir.reasoning.k = "Effort" -> <<ir.reasoning.v>>
      [] ir.reasoning.k = "Budget" -> <<thinking_to_reasoning_effort(ir.reasoning.v)>>
      [] OTHER -> <<>>,
    take(ir.extra, "chat") \cap {"seed", "stream_options", "response_format", "n"})

build_response(ir) ==
  LET text == text_of(ir.parts)
  IN OpenAIChatResponse(
       OpenAIChatMessage("assistant", IF text = <<>> THEN <<>> ELSE <<text_part(text)>>,
                         tool_calls(ir.parts), <<>>, reasoning_content(ir.parts)),
       to_openai_chat(ir.stop), ir.usage)
===============================================================================
