------------------------------- MODULE Vendors -------------------------------
(***************************************************************************)
(* The two ends of a conversation, which are not part of the repository:   *)
(* how a client of each format writes its history, and what a vendor of    *)
(* each format answers.  Both write their own format, as the fixtures of   *)
(* crates/core/tests do.                                                   *)
(*                                                                         *)
(* Word n, thought n and result n are distinct; turn n may make the calls  *)
(* 2n - 1 and 2n.                                                          *)
(***************************************************************************)
EXTENDS MessageIR

Claude == INSTANCE ClaudeMessages
Chat == INSTANCE ChatMessages
Responses == INSTANCE ResponsesMessages
Gemini == INSTANCE GeminiMessages

Word(n) == <<"word", n>>
Thought(n) == <<"thought", n>>
ResultOf(name) == <<"result", name>>
Picture == "picture"
VendorUsage == [i |-> 3, o |-> 2, cached |-> <<1>>]
CallId(vendor, name) == <<vendor, name>>

(* What a vendor answers: thinking it signs or seals, text, and calls. *)
Kinds == {"text", "thought_text", "thought_calls", "sealed_call", "cut"}
CallsOf(kind, n) ==
  CASE kind = "thought_calls" -> <<2 * n - 1, 2 * n>> [] kind = "sealed_call" -> <<2 * n>> [] OTHER -> <<>>
HasText(kind) == kind \in {"text", "thought_text", "cut"}
HasThought(kind) == kind \in {"thought_text", "thought_calls", "sealed_call"}
Only(condition, x) == IF condition THEN <<x>> ELSE <<>>

ClaudeAnswer(kind, n) ==
  Claude!ClaudeResponse(
    Only(kind \in {"thought_text", "thought_calls"}, Claude!thinking_block(<<Thought(n)>>, <<Thought(n)>>))
      \o Only(kind = "sealed_call", Claude!redacted_thinking(Thought(n)))
      \o Only(HasText(kind), Claude!text_block(<<Word(n)>>))
      \o map_seq(CallsOf(kind, n), LAMBDA c : Claude!tool_use(CallId("claude", c), c, "args")),
    CASE kind = "cut" -> "max_tokens" [] CallsOf(kind, n) # <<>> -> "tool_use" [] OTHER -> "end_turn",
    VendorUsage)

\* A chat model may write arguments that are not JSON.
ChatAnswer(kind, n) ==
  Chat!OpenAIChatResponse(
    Chat!OpenAIChatMessage("assistant", Only(HasText(kind), Chat!text_part(<<Word(n)>>)),
      map_seq(CallsOf(kind, n), LAMBDA c : Chat!ToolCall(CallId("chat", c), c, IF kind = "sealed_call" THEN Broken ELSE "args")),
      <<>>, IF HasThought(kind) THEN <<Thought(n)>> ELSE <<>>),
    CASE kind = "cut" -> "length" [] CallsOf(kind, n) # <<>> -> "tool_calls" [] OTHER -> "stop",
    VendorUsage)

\* OpenAI encrypts its reasoning; only it can read the ciphertext back.
ResponsesAnswer(kind, n) ==
  Responses!OpenAIResponsesResponse(
    Only(HasThought(kind), Responses!reasoning_item(<<Thought(n)>>, <<[mark |-> "openai", block |-> Thought(n)]>>))
      \o Only(HasText(kind), Responses!input_message("assistant", <<Responses!content_text(<<Word(n)>>)>>))
      \o map_seq(CallsOf(kind, n), LAMBDA c : Responses!function_call(CallId("responses", c), c, "args")),
    IF kind = "cut" THEN "incomplete" ELSE "completed", VendorUsage)

\* Gemini signs the thought, or the text or first call that follows it, and
\* does not always number its calls.
GeminiAnswer(kind, n) ==
  LET Signed(part, i) == IF kind \in {"thought_text", "thought_calls"} /\ i = 1 THEN Gemini!with_thought_signature(part, <<Thought(n)>>) ELSE part
      Call(i) == LET c == CallsOf(kind, n)[i]
                 IN Signed(Gemini!function_call(c, "args", Only(kind = "thought_calls", CallId("gemini", c))), i)
  IN Gemini!GeminiResponse(
       Only(HasThought(kind), Gemini!with_thought_signature(Gemini!thinking_part(<<Thought(n)>>), Only(kind = "sealed_call", Thought(n))))
         \o Only(HasText(kind), Signed(Gemini!text_part(<<Word(n)>>), 1))
         \o [i \in DOMAIN CallsOf(kind, n) |-> Call(i)],
       IF kind = "cut" THEN "MAX_TOKENS" ELSE "STOP", VendorUsage)

VendorAnswer(vendor, kind, n) ==
  CASE vendor = "claude" -> ClaudeAnswer(kind, n) [] vendor = "chat" -> ChatAnswer(kind, n)
    [] vendor = "responses" -> ResponsesAnswer(kind, n) [] vendor = "gemini" -> GeminiAnswer(kind, n)

(* The client's history: the messages, items or contents it will send. *)
UserTurn(fmt, x, picture) ==
  CASE fmt = "claude" ->
         <<Claude!ClaudeMessage("User", <<Claude!text_block(x)>> \o Only(picture, Claude!image_block("base64", Picture)))>>
    [] fmt = "chat" ->
         <<Chat!message("user", <<Chat!text_part(x)>> \o Only(picture, Chat!image_part(DataUrl(Picture), <<>>)))>>
    [] fmt = "responses" ->
         <<Responses!input_message("user",
             <<Responses!content_text(x)>> \o Only(picture, Responses!content_image(DataUrl(Picture), <<>>)))>>
    [] fmt = "gemini" ->
         <<Gemini!GeminiContent("user", <<Gemini!text_part(x)>> \o Only(picture, Gemini!inline_data(Picture)))>>

\* A client keeps the reply as it came.
KeptReply(fmt, resp) ==
  CASE fmt = "claude" -> Only(resp.content # <<>>, Claude!ClaudeMessage("Assistant", resp.content))
    [] fmt = "chat" -> <<resp.message>>
    [] fmt = "responses" -> resp.output
    [] fmt = "gemini" -> Only(resp.parts # <<>>, Gemini!GeminiContent("model", resp.parts))

\* The calls of a reply, as the client sees them.
ReplyCalls(fmt, resp) ==
  CASE fmt = "claude" -> SelectSeq(resp.content, LAMBDA b : b.b = "tool_use")
    [] fmt = "chat" -> resp.message.tool_calls
    [] fmt = "responses" -> SelectSeq(resp.output, LAMBDA i : i.i = "function_call")
    [] fmt = "gemini" -> filter_map(resp.parts, LAMBDA part : part.function_call)

\* The results of those calls, and perhaps a remark of the user's with them.
ResultsTurn(fmt, calls, remark) ==
  CASE fmt = "claude" ->
         <<Claude!ClaudeMessage("User",
             map_seq(calls, LAMBDA c : Claude!tool_result(c.id, FALSE, <<Claude!text_block(<<ResultOf(c.name)>>)>>))
               \o map_seq(remark, Claude!text_block))>>
    [] fmt = "chat" ->
         map_seq(calls, LAMBDA c : Chat!OpenAIChatMessage("tool", <<Chat!text_part(<<ResultOf(c.name)>>)>>, <<>>, c.id, <<>>))
           \o map_seq(remark, LAMBDA x : Chat!message("user", <<Chat!text_part(x)>>))
    [] fmt = "responses" ->
         map_seq(calls, LAMBDA c : Responses!function_call_output(c.call_id, <<ResultOf(c.name)>>))
           \o map_seq(remark, LAMBDA x : Responses!input_message("user", <<Responses!content_text(x)>>))
    [] fmt = "gemini" ->
         <<Gemini!GeminiContent("user",
             map_seq(remark, Gemini!text_part)
               \o map_seq(calls, LAMBDA c : Gemini!function_response(<<ResultOf(c.name)>>, FALSE, c.id)))>>

(* The settings a client sends: two shapes, a bare one and a full one. *)
NoChoice == Choice("absent", <<>>)
FullSampling == Sampling(<<2000>>, <<15>>, <<4>>, <<"END">>)
BareSampling == Sampling(<<>>, <<>>, <<>>, <<>>)
Tool(name) == IrTool(<<name>>, <<>>)
SystemWords == <<<<"system", 1>>, <<"system", 2>>>>

ClientRequest(fmt, full, history) ==
  LET sampling == IF full THEN FullSampling ELSE BareSampling
      tools == IF full THEN <<Tool("read"), Tool("write")>> ELSE <<>>
      Named(k) == IF full THEN Choice(k, <<"read">>) ELSE NoChoice
      system == IF full THEN <<<<SystemWords[1]>>, <<SystemWords[2]>>>> ELSE <<>>
  IN CASE fmt = "claude" ->
            Claude!ClaudeRequest(system, history, tools, Named("tool"),
              [sampling EXCEPT !.max = <<2000>>], full, <<>>, IF full THEN {"metadata"} ELSE {})
       [] fmt = "chat" ->
            Chat!OpenAIChatRequest(
              map_seq(system, LAMBDA x : Chat!message("system", <<Chat!text_part(x)>>)) \o history, tools, Named("function"),
              [sampling EXCEPT !.top_k = <<>>], full, IF full THEN <<"high">> ELSE <<>>,
              IF full THEN {"seed", "stream_options"} ELSE {})
       [] fmt = "responses" ->
            Responses!OpenAIResponsesRequest(
              IF full THEN <<<<SystemWords[2]>>>> ELSE <<>>,
              Only(full, Responses!input_message("developer", <<Responses!content_text(<<SystemWords[1]>>)>>)) \o history,
              IF full THEN <<[namespace |-> "files", name |-> <<"read">>, strict |-> <<>>],
                             [namespace |-> "", name |-> <<"write">>, strict |-> <<FALSE>>]>> ELSE <<>>,
              Named("function"), [sampling EXCEPT !.top_k = <<>>, !.stop = <<>>], full,
              IF full THEN <<"low">> ELSE <<>>, IF full THEN {"store", "text"} ELSE {})
       [] fmt = "gemini" ->
            Gemini!GeminiRequest(map_seq(system, Gemini!text_part), history, tools, Named("ANY"), sampling,
              IF full THEN {"seed", "responseSchema"} ELSE {})
===============================================================================
