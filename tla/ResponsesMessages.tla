--------------------------- MODULE ResponsesMessages ---------------------------
(***************************************************************************)
(* crates/core/src/formats/openai_resp: types.rs, read.rs and build.rs.    *)
(*                                                                         *)
(* A reasoning item's encrypted_content is <<>>, OpenAI's own ciphertext,  *)
(* or a block of Claude's that build.rs sealed behind its mark.  Base64    *)
(* and back is the identity on what it carries.                            *)
(***************************************************************************)
EXTENDS MessageIR

CLAUDE_SEAL_MARK == "magpie-claude1:"
\* Mutant: the seal keeps the block and loses its signature.
seal_without_signature(block) ==
  <<[mark |-> CLAUDE_SEAL_MARK, block |-> IF block.b = "thinking" THEN [block EXCEPT !.sig = <<>>] ELSE block]>>
seal(block) == <<[mark |-> CLAUDE_SEAL_MARK, block |-> block]>>
seal_thinking(x, v) == seal([b |-> "thinking", x |-> x, sig |-> <<v>>])
is_sealed(encrypted) == encrypted # <<>> /\ Head(encrypted).mark = CLAUDE_SEAL_MARK
open_seal(encrypted) == IF is_sealed(encrypted) THEN <<Head(encrypted).block>> ELSE <<>>

input_message(role, content) == [i |-> "message", role |-> role, content |-> content]
function_call(id, name, args) == [i |-> "function_call", call_id |-> id, name |-> name, args |-> args]
function_call_output(id, x) == [i |-> "function_call_output", call_id |-> id, output |-> x]
reasoning_item(summary, encrypted) == [i |-> "reasoning", summary |-> summary, encrypted_content |-> encrypted]
content_text(x) == [c |-> "text", x |-> x]
content_image(url, detail) == [c |-> "input_image", url |-> url, detail |-> detail]
OpenAIResponsesRequest(instructions, input, tools, choice, sampling, stream, reasoning, extra) ==
  [instructions |-> instructions, input |-> input, tools |-> tools, choice |-> choice,
   sampling |-> sampling, stream |-> stream, reasoning |-> reasoning, extra |-> extra]
OpenAIResponsesResponse(output, status, usage) == [output |-> output, status |-> status, usage |-> usage]

(* ---- read.rs ---- *)
part_from_value(part) ==
  IF part.c = "text" THEN <<plain(part.x)>>
  ELSE IF part.url = <<>> THEN <<>>
  ELSE <<IrImage(part.url, parse_data_url(part.url), part.detail)>>

content_to_parts(content) == filter_map(content, part_from_value)

take_message_text(item) ==
  filter_map(item.content, LAMBDA part : IF part.c = "text" THEN part.x ELSE <<>>)

\* Claude's block behind the seal, if it still is one Claude can take back.
claude_sealed_part(encrypted) ==
  filter_map(open_seal(encrypted), LAMBDA block :
    CASE block.b = "thinking" /\ block.sig # <<>> ->
           <<IrThinking(block.x, <<Signature("claude", Head(block.sig))>>)>>
      [] block.b = "redacted_thinking" -> <<IrSealed("claude", block)>>
      [] OTHER -> <<>>)

take_reasoning_text(item) == item.summary

read_reasoning_item(item) ==
  LET encrypted == item.encrypted_content
      claude == claude_sealed_part(encrypted)
  IN IF claude # <<>> THEN Head(claude)
     ELSE IF encrypted # <<>> /\ ~is_sealed(encrypted) THEN IrSealed("responses", item)
     ELSE IrThinking(take_reasoning_text(item), <<>>)

is_instruction(item) == item.i = "message" /\ item.role \in {"system", "developer"}

input_item(item) ==
  CASE item.i = "message" ->
         IrMessage(IF item.role = "user" THEN "User" ELSE "Assistant", content_to_parts(item.content))
    [] item.i = "function_call" ->
         IrMessage("Assistant", <<IrCall(item.call_id, item.name, parse_arguments(item.args), <<>>)>>)
    [] item.i = "function_call_output" ->
         IrMessage("User", <<IrResult(item.call_id, FALSE, <<plain(item.output)>>)>>)
    [] item.i = "reasoning" -> IrMessage("Assistant", <<read_reasoning_item(item)>>)

\* Adjacent items of one role become one message; an empty one is skipped.
push_messages(messages) == merge_same_role(SelectSeq(messages, LAMBDA m : m.parts # <<>>))

read_input(input) ==
  push_messages(filter_map(input, LAMBDA item : IF is_instruction(item) THEN <<>> ELSE <<input_item(item)>>))

\* The input's instructions first, then `instructions`, as one text.
system_texts(req) ==
  SelectSeq(filter_map(req.input, LAMBDA item : IF is_instruction(item) THEN <<take_message_text(item)>> ELSE <<>>),
            LAMBDA x : x # <<>>) \o req.instructions

\* A tool of a namespace is named <namespace>__<tool>; "" is no namespace.
qualified(tool) == IF tool.namespace = "" THEN tool.name ELSE <<tool.namespace>> \o tool.name

read_tools(tools) == map_seq(tools, LAMBDA tool : IrTool(qualified(tool), tool.strict))

\* The namespace of the last tool with this short name.
ns_name(tools, name) ==
  LET spaced == SelectSeq(tools, LAMBDA tool : tool.namespace # "" /\ tool.name = name)
  IN IF spaced = <<>> THEN name ELSE qualified(spaced[Len(spaced)])

read_tool_choice(choice, tools) ==
  CASE choice.k = "absent" -> Choice("absent", <<>>)
    [] choice.k = "none" -> Choice("None", <<>>)
    [] choice.k = "required" -> Choice("Required", <<>>)
    [] choice.k = "function" -> Choice("Named", ns_name(tools, choice.name))
    [] OTHER -> Choice("Auto", <<>>)

read(req) ==
  IrRequest(IF system_texts(req) = <<>> THEN <<>> ELSE <<plain(Concat(system_texts(req)))>>,
            read_input(req.input), read_tools(req.tools), read_tool_choice(req.choice, req.tools),
            [req.sampling EXCEPT !.top_k = <<>>, !.stop = <<>>], req.stream,
            IF req.reasoning = <<>> THEN Off ELSE Effort(Head(req.reasoning)),
            put("responses", req.extra \cup IF req.reasoning = <<>> THEN {} ELSE {"reasoning"}))

\* A reply's reasoning is read as unsigned text, whatever it carries.
read_output_item(item) ==
  CASE item.i = "message" ->
         filter_map(item.content, LAMBDA part : IF part.x = <<>> THEN <<>> ELSE <<plain(part.x)>>)
    [] item.i = "function_call" -> <<IrCall(item.call_id, item.name, parse_arguments(item.args), <<>>)>>
    [] item.i = "reasoning" -> <<IrThinking(take_reasoning_text(item), <<>>)>>

read_response(resp) ==
  IrResponse(filter_map(resp.output, read_output_item),
             IF resp.status = "incomplete" THEN "MaxTokens" ELSE from_openai_resp(resp.status), resp.usage)

(* ---- build.rs ---- *)
\* The items of a message: text and images gather into one message item,
\* which is flushed before the item of any other part that has one.
items_of(parts, Item(_), Content(_), Flush(_)) ==
  LET upTo[n \in 0..Len(parts)] ==
        IF n = 0 THEN [items |-> <<>>, content |-> <<>>]
        ELSE LET st == upTo[n - 1]
                 item == Item(parts[n])
             IN IF item = <<>> THEN [st EXCEPT !.content = @ \o Content(parts[n])]
                ELSE [items |-> st.items \o Flush(st.content) \o item, content |-> <<>>]
      last == upTo[Len(parts)]
  IN last.items \o Flush(last.content)

\* Mutant: what is gathered is flushed as the user's, whoever said it.
flush_input_as_user(role, content) == IF content = <<>> THEN <<>> ELSE <<input_message("user", content)>>
flush_input(role, content) ==
  IF content = <<>> THEN <<>> ELSE <<input_message(IF role = "User" THEN "user" ELSE "assistant", content)>>

input_content(part) ==
  CASE part.p = "Text" -> <<content_text(part.x)>>
    [] part.p = "Image" -> <<content_image(part.url, part.detail)>>
    [] OTHER -> <<>>

\* Reasoning is not sent back: neither thinking nor a sealed block has an item.
request_item(part) ==
  CASE part.p = "ToolCall" -> <<function_call(part.id, part.name, part.args)>>
    [] part.p = "ToolResult" -> <<function_call_output(part.id, text_of(part.content))>>
    [] OTHER -> <<>>

messages_to_input(messages) ==
  filter_map(messages, LAMBDA m : items_of(m.parts, request_item, input_content, LAMBDA c : flush_input(m.role, c)))

system_to_instructions(system) ==
  IF texts_of(system) = <<>> THEN <<>> ELSE <<Concat(texts_of(system))>>

tool_to_value(tool) ==
  [namespace |-> "", name |-> tool.name, strict |-> IF tool.strict = <<>> THEN <<TRUE>> ELSE tool.strict]

tool_choice_to_value(choice) ==
  [choice EXCEPT !.k = CASE @ = "Auto" -> "auto" [] @ = "None" -> "none" [] @ = "Required" -> "required"
                         [] @ = "Named" -> "function" [] OTHER -> @]

reasoning_to_value(reasoning) ==
  CASE reasoning.k = "Effort" -> <<reasoning.v>>
    [] reasoning.k = "Budget" -> <<thinking_to_reasoning_effort(reasoning.v)>>
    [] OTHER -> <<>>

build(ir) ==
  OpenAIResponsesRequest(system_to_instructions(ir.system), messages_to_input(ir.messages),
    map_seq(ir.tools, tool_to_value), tool_choice_to_value(ir.choice),
    [ir.sampling EXCEPT !.top_k = <<>>, !.stop = <<>>], ir.stream, reasoning_to_value(ir.reasoning),
    take(ir.extra, "responses"))

flush_text(content) == IF content = <<>> THEN <<>> ELSE <<input_message("assistant", content)>>

\* Only Claude's signature and Claude's sealed block ride in encrypted_content.
response_item(part) ==
  CASE part.p = "ToolCall" -> <<function_call(part.id, part.name, part.args)>>
    [] part.p = "Thinking" ->
         LET claude == signed_by(part.sig, "claude")
         IN <<reasoning_item(part.x, IF claude = <<>> THEN <<>> ELSE seal_thinking(part.x, Head(claude).v))>>
    [] part.p = "Sealed" /\ part.by = "claude" -> <<reasoning_item(<<>>, seal(part.raw))>>
    [] OTHER -> <<>>

output_content(part) == IF part.p = "Text" THEN <<content_text(part.x)>> ELSE <<>>

build_response(ir) ==
  OpenAIResponsesResponse(items_of(ir.parts, response_item, output_content, flush_text),
                          IF ir.stop = "MaxTokens" THEN "incomplete" ELSE "completed", ir.usage)
===============================================================================
