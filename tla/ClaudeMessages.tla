---------------------------- MODULE ClaudeMessages ----------------------------
(***************************************************************************)
(* crates/core/src/formats/claude: types.rs, read.rs and build.rs.         *)
(*                                                                         *)
(* A message's content is a sequence of blocks; the bare string a lone     *)
(* text block collapses to is read back as that block, so the two are one. *)
(***************************************************************************)
EXTENDS MessageIR, FiniteSets

DEFAULT_MAX_TOKENS == 4096
CLAUDE_TEMPERATURE_MAX == 10      \* in tenths

text_block(x) == [b |-> "text", x |-> x]
image_block(source, x) == [b |-> "image", source |-> source, x |-> x]
tool_use(id, name, args) == [b |-> "tool_use", id |-> id, name |-> name, args |-> args]
tool_result(id, err, content) == [b |-> "tool_result", id |-> id, err |-> err, content |-> content]
thinking_block(x, sig) == [b |-> "thinking", x |-> x, sig |-> sig]
redacted_thinking(data) == [b |-> "redacted_thinking", data |-> data]
ClaudeMessage(role, content) == [role |-> role, content |-> content]
ClaudeRequest(system, messages, tools, choice, sampling, stream, thinking, extra) ==
  [system |-> system, messages |-> messages, tools |-> tools, choice |-> choice, sampling |-> sampling,
   stream |-> stream, thinking |-> thinking, extra |-> extra]
ClaudeResponse(content, stop_reason, usage) ==
  [content |-> content, stop_reason |-> stop_reason, usage |-> usage]

(* ---- read.rs ---- *)
claude_signature(sig) == map_seq(sig, LAMBDA v : Signature("claude", v))

read_image(block) ==
  IF block.source = "base64" THEN IrImage(DataUrl(block.x), <<block.x>>, <<>>)
  ELSE IrImage(block.x, <<>>, <<>>)

\* The blocks of a tool result are read by the same reader: text and images.
read_inner(block) == IF block.b = "text" THEN plain(block.x) ELSE read_image(block)

read_block(block) ==
  CASE block.b = "text" -> plain(block.x)
    [] block.b = "image" -> read_image(block)
    [] block.b = "tool_use" -> IrCall(block.id, block.name, block.args, <<>>)
    [] block.b = "tool_result" -> IrResult(block.id, block.err, map_seq(block.content, read_inner))
    [] block.b = "thinking" -> IrThinking(block.x, claude_signature(block.sig))
    [] block.b = "redacted_thinking" -> IrSealed("claude", block)

read_message(msg) == IrMessage(msg.role, map_seq(msg.content, read_block))

read_system(system) == map_seq(system, plain)

read_tool_choice(choice) ==
  Choice(CASE choice.k = "absent" -> "absent"
           [] choice.k = "none" -> "None"
           [] choice.k = "any" -> "Required"
           [] choice.k = "tool" -> "Named"
           [] OTHER -> "Auto", choice.name)

read_tools(tools) == map_seq(tools, LAMBDA tool : IrTool(tool.name, <<>>))

read(req) ==
  IrRequest(read_system(req.system), map_seq(req.messages, read_message), read_tools(req.tools),
            read_tool_choice(req.choice), req.sampling, req.stream,
            IF req.thinking = <<>> THEN Off ELSE Budget(Head(req.thinking)),
            put("claude", req.extra))

read_response(resp) ==
  IrResponse(map_seq(resp.content, read_block), from_claude(resp.stop_reason), resp.usage)

(* ---- build.rs ---- *)
\* Mutant: a thinking block's signature is written back whoever made it.
build_signature_of_anyone(sig) == map_seq(sig, LAMBDA s : s.v)
build_signature(sig) == map_seq(signed_by(sig, "claude"), LAMBDA s : s.v)

build_image(part) ==
  IF part.data # <<>> THEN image_block("base64", Head(part.data)) ELSE image_block("url", part.url)

build_inner(part) ==
  CASE part.p = "Text" -> <<text_block(part.x)>>
    [] part.p = "Image" -> <<build_image(part)>>
    [] OTHER -> <<>>

\* `empty` is what no parts at all become.
text_or_blocks(parts, empty, Build(_)) == IF parts = <<>> THEN empty ELSE filter_map(parts, Build)

build_part(part) ==
  CASE part.p = "Text" -> <<text_block(part.x)>>
    [] part.p = "Image" -> <<build_image(part)>>
    [] part.p = "ToolCall" -> <<tool_use(part.id, part.name, part.args)>>
    [] part.p = "ToolResult" ->
         <<tool_result(part.id, part.err,
             text_or_blocks(part.content, <<text_block(<<>>)>>, build_inner))>>
    [] part.p = "Thinking" -> <<thinking_block(part.x, build_signature(part.sig))>>
    [] part.p = "Sealed" -> IF part.by = "claude" THEN <<part.raw>> ELSE <<>>

build_message(msg) ==
  ClaudeMessage(msg.role,
    text_or_blocks(msg.parts, IF msg.role = "User" THEN <<text_block(<<>>)>> ELSE <<>>, build_part))

build_thinking(reasoning, max_tokens, messages) ==
  LET asked == CASE reasoning.k = "Off" -> <<>>
                 [] reasoning.k = "Budget" -> <<reasoning.v>>
                 [] OTHER -> reasoning_effort_to_thinking(reasoning.v, max_tokens)
      has_thinking == has_part(messages, LAMBDA m : has_part(m.parts, LAMBDA q : q.p = "Thinking"))
  IN IF asked = <<>> /\ has_thinking THEN <<at_least(max_tokens, 1024)>> ELSE asked

build_system(system) == texts_of(system)

build_tool_choice(choice) ==
  [choice EXCEPT !.k = CASE @ = "Auto" -> "auto" [] @ = "None" -> "none" [] @ = "Required" -> "any"
                         [] @ = "Named" -> "tool" [] OTHER -> @]

\* Mutant: messages are built one by one, as the client split them.
merge_nothing(messages) == messages
merge(messages) == merge_same_role(messages)

build(ir) ==
  LET max == IF ir.sampling.max = <<>> THEN DEFAULT_MAX_TOKENS ELSE Head(ir.sampling.max)
      clamp(t) == IF t > CLAUDE_TEMPERATURE_MAX THEN CLAUDE_TEMPERATURE_MAX ELSE t
  IN ClaudeRequest(build_system(ir.system), map_seq(merge(ir.messages), build_message),
       map_seq(ir.tools, LAMBDA tool : IrTool(tool.name, <<>>)), build_tool_choice(ir.choice),
       [ir.sampling EXCEPT !.max = <<max>>, !.temp = map_seq(@, clamp)], ir.stream,
       build_thinking(ir.reasoning, max, ir.messages),
       take(ir.extra, "claude") \cap {"metadata"})

\* A reply's blocks: signed or empty text is not written, nor a sealed block.
build_response_block(part) ==
  CASE part.p = "Text" /\ part.sig = <<>> /\ part.x # <<>> -> <<text_block(part.x)>>
    [] part.p = "Thinking" /\ part.x # <<>> -> <<thinking_block(part.x, build_signature(part.sig))>>
    [] part.p = "ToolCall" -> <<tool_use(part.id, part.name, part.args)>>
    [] OTHER -> <<>>

build_response(ir) ==
  ClaudeResponse(filter_map(ir.parts, build_response_block), to_claude(ir.stop), ir.usage)
===============================================================================
