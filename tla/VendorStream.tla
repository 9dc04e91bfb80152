----------------------------- MODULE VendorStream -----------------------------
(***************************************************************************)
(* The vendors' side of a stream: how each upstream API writes a reply as  *)
(* SSE events.  External to the repository; modelled from the events its   *)
(* parsers accept and its tests replay.                                    *)
(*                                                                         *)
(* A reply is a sequence of blocks: thinking with its signature, sealed    *)
(* thinking, text in pieces, tool calls with their arguments in pieces.    *)
(***************************************************************************)
LOCAL INSTANCE Integers
LOCAL INSTANCE Sequences
LOCAL INSTANCE StreamIR

Thinking(xs, sig) == [b |-> "thinking", xs |-> xs, sig |-> sig]
Sealed == [b |-> "sealed"]
Text(xs) == [b |-> "text", xs |-> xs]
Call(id, args) == [b |-> "call", id |-> id, args |-> args]

ReplyText(reply) ==
  Concat([n \in DOMAIN reply |-> IF reply[n].b = "text" THEN reply[n].xs ELSE <<>>])
Calls(reply) == SelectSeq(reply, LAMBDA b : b.b = "call")
HasCalls(reply) == Calls(reply) # <<>>

\* What the vendor reports at the start and at the end of a reply.
FirstUsage == Tokens(7, 1)
LastUsage == Tokens(7, 5)

ClaudeBlock(i, b) ==
  LET start(type) == [k |-> "content_block_start", i |-> i, block |-> type,
                      id |-> IF b.b = "call" THEN b.id ELSE ""]
      deltas(type, xs) == [n \in DOMAIN xs |->
        [k |-> "content_block_delta", i |-> i, delta |-> type, x |-> <<xs[n]>>]]
      stop == [k |-> "content_block_stop", i |-> i]
  IN CASE b.b = "thinking" -> <<start("thinking")>> \o deltas("thinking", b.xs) \o deltas("signature", b.sig) \o <<stop>>
       [] b.b = "sealed" -> <<start("redacted_thinking"), stop>>
       [] b.b = "text" -> <<start("text")>> \o deltas("text", b.xs) \o <<stop>>
       [] b.b = "call" -> <<start("tool_use")>> \o deltas("input_json", b.args) \o <<stop>>

\* Some Claude-compatible vendors leave message_delta out.
ClaudeEvents(reply, brief) ==
  <<[k |-> "message_start", usage |-> FirstUsage], [k |-> "ping"]>>
  \o Concat([n \in DOMAIN reply |-> ClaudeBlock(n - 1, reply[n])])
  \o (IF ~brief
      THEN <<[k |-> "message_delta", usage |-> Tokens(0, LastUsage.o),
              stop |-> IF HasCalls(reply) THEN "tool_use" ELSE "end_turn"]>> ELSE <<>>)
  \o <<[k |-> "message_stop"]>>

ChatChunk == [k |-> "chunk", role |-> FALSE, content |-> <<>>, reasoning |-> <<>>, tools |-> <<>>,
              finish |-> "", usage |-> NoUsage]
ChatBlock(reply, n) ==
  LET b == reply[n]
      index == Len(Calls(SubSeq(reply, 1, n))) - 1
  IN CASE b.b = "thinking" -> [m \in DOMAIN b.xs |-> [ChatChunk EXCEPT !.reasoning = <<b.xs[m]>>]]
       [] b.b = "sealed" -> <<>>
       [] b.b = "text" -> [m \in DOMAIN b.xs |-> [ChatChunk EXCEPT !.content = <<b.xs[m]>>]]
       [] b.b = "call" ->
            [m \in DOMAIN b.args |-> [ChatChunk EXCEPT !.tools =
               <<[index |-> index, id |-> IF m = 1 THEN b.id ELSE "", x |-> <<b.args[m]>>]>>]]

ChatEvents(reply) ==
  <<[ChatChunk EXCEPT !.role = TRUE]>>
  \o Concat([n \in DOMAIN reply |-> ChatBlock(reply, n)])
  \o <<[ChatChunk EXCEPT !.finish = IF HasCalls(reply) THEN "tool_calls" ELSE "stop", !.usage = LastUsage],
       [k |-> "[DONE]"]>>

ResponsesItem(b) ==
  CASE b.b \in {"thinking", "sealed"} -> [type |-> "reasoning", xs |-> <<>>]
    [] b.b = "text" -> [type |-> "message", xs |-> b.xs]
    [] b.b = "call" -> [type |-> "function_call", id |-> b.id, args |-> b.args, name |-> "qualified"]
ResponsesBlock(i, b) ==
  LET deltas == CASE b.b = "text" -> [n \in DOMAIN b.xs |-> [k |-> "response.output_text.delta", i |-> i, x |-> <<b.xs[n]>>]]
                  [] b.b = "call" -> [n \in DOMAIN b.args |-> [k |-> "response.function_call_arguments.delta",
                                                               i |-> i, id |-> b.id, x |-> <<b.args[n]>>]]
                  [] OTHER -> <<>>
  IN <<[k |-> "response.output_item.added", i |-> i, item |-> ResponsesItem(b)]>> \o deltas
     \o <<[k |-> "response.output_item.done", i |-> i, item |-> ResponsesItem(b)]>>

ResponsesEvents(reply) ==
  <<[k |-> "response.created", usage |-> NoUsage], [k |-> "response.in_progress"]>>
  \o Concat([n \in DOMAIN reply |-> ResponsesBlock(n - 1, reply[n])])
  \o <<[k |-> "response.completed", status |-> "completed", usage |-> LastUsage,
        output |-> [n \in DOMAIN reply |-> ResponsesItem(reply[n])]]>>

GeminiChunk == [k |-> "chunk", parts |-> <<>>, finish |-> "", usage |-> NoUsage, enveloped |-> FALSE]
GeminiPart(b) ==
  CASE b.b = "thinking" -> <<[part |-> "thought", x |-> b.xs, sig |-> b.sig]>>
    [] b.b = "sealed" -> <<>>
    [] b.b = "text" -> [m \in DOMAIN b.xs |-> [part |-> "text", x |-> <<b.xs[m]>>]]
    [] b.b = "call" -> <<[part |-> "call", id |-> b.id, args |-> b.args]>>

\* One chunk per block; the last one brings the finish reason and the usage.
GeminiEvents(reply, enveloped) ==
  [n \in DOMAIN reply |->
    [GeminiChunk EXCEPT !.parts = GeminiPart(reply[n]), !.enveloped = enveloped,
                        !.finish = IF n = Len(reply) THEN "STOP" ELSE "",
                        !.usage = IF n = Len(reply) THEN LastUsage ELSE NoUsage]]

Events(c) ==
  CASE c.from = "claude" -> ClaudeEvents(c.reply, c.brief)
    [] c.from = "chat" -> ChatEvents(c.reply)
    [] c.from = "responses" -> ResponsesEvents(c.reply)
    [] c.from = "gemini" -> GeminiEvents(c.reply, c.api = "code_assist")
===============================================================================
