---------------------------- MODULE Conversation ----------------------------
(***************************************************************************)
(* A conversation through the gateway: a client that speaks one format     *)
(* keeps the whole history and sends it with every turn; each turn is      *)
(* converted for the upstream the router or a failover picked, which may   *)
(* speak another format than the last one did; its reply is converted      *)
(* back and becomes part of the history (crates/core/src/convert.rs, hub   *)
(* of converters/mod.rs).  Replies that stream are in StreamProxy.         *)
(***************************************************************************)
EXTENDS Vendors, FiniteSets

CONSTANTS
  MaxTurns,       \* bound: requests in a conversation
  Clients,        \* formats the client may speak
  Pictures        \* whether the first turn may carry an inline image

ASSUME ConversationAssumption ==
  MaxTurns \in Nat \ {0} /\ Clients \subseteq Formats /\ Pictures \subseteq BOOLEAN

VARIABLES
  client,         \* the client's format
  full,           \* whether it sends every setting
  history,        \* what the client sends as its messages, in its format
  pending,        \* calls of the last reply the client has to answer
  phase,          \* "user", "tools", "ready" or "asked"
  turn,           \* requests sent
  sent,           \* the last request as an upstream got it: its format, the request
  told,           \* the stop word the client got with the last reply
  said            \* what was really said so far, as the speakers said it
vars == <<client, full, history, pending, phase, turn, sent, told, said>>

(* converters/mod.rs and convert.rs *)
read_request(from, req) ==
  CASE from = "claude" -> Claude!read(req) [] from = "chat" -> Chat!read(req)
    [] from = "responses" -> Responses!read(req) [] from = "gemini" -> Gemini!read(req)
build_request(to, ir) ==
  CASE to = "claude" -> Claude!build(ir) [] to = "chat" -> Chat!build(ir)
    [] to = "responses" -> Responses!build(ir) [] to = "gemini" -> Gemini!build(ir)
read_response(from, resp, reply) ==
  CASE from = "claude" -> Claude!read_response(resp) [] from = "chat" -> Chat!read_response(resp)
    [] from = "responses" -> Responses!read_response(resp) [] from = "gemini" -> Gemini!read_response(resp, reply)
build_response(to, ir) ==
  CASE to = "claude" -> Claude!build_response(ir) [] to = "chat" -> Chat!build_response(ir)
    [] to = "responses" -> Responses!build_response(ir) [] to = "gemini" -> Gemini!build_response(ir)

\* One format is handed through as it is; two go through the hub.
convert_request(req, from, to) ==
  IF from = to THEN req ELSE build_request(to, read_request(from, req))
convert_response(resp, from, to, reply) ==
  IF from = to THEN resp ELSE build_response(to, read_response(from, resp, reply))

stop_word(fmt, resp) ==
  CASE fmt = "claude" -> resp.stop_reason [] fmt = "responses" -> resp.status [] OTHER -> resp.finish_reason

Speech(who, by, kind, x, blocks) == [who |-> who, by |-> by, kind |-> kind, x |-> x, blocks |-> blocks]

Init ==
  /\ client \in Clients
  /\ full \in BOOLEAN
  /\ history = <<>> /\ pending = <<>> /\ said = <<>>
  /\ phase = "user" /\ turn = 0
  /\ sent = <<>> /\ told = ""

\* The user says something, at first perhaps with an inline image.
UserSays(picture) ==
  /\ phase = "user" /\ turn < MaxTurns
  /\ picture => turn = 0
  /\ LET x == <<<<"user", turn>>>>
     IN /\ history' = history \o UserTurn(client, x, picture)
        /\ said' = said \o <<Speech("User", client, "", x, <<>>)>>
             \o Only(picture, Speech("Picture", client, "", DataUrl(Picture), <<>>))
  /\ phase' = "ready"
  /\ UNCHANGED <<client, full, pending, turn, sent, told>>

\* The client runs the tools, and the user may add a remark.
AnswerCalls(remark) ==
  /\ phase = "tools" /\ turn < MaxTurns
  /\ LET x == <<<<"user", turn>>>>
     IN /\ history' = history \o ResultsTurn(client, pending, Only(remark, x))
        /\ said' = said \o map_seq(pending, LAMBDA c : Speech("Result", client, "", <<ResultOf(c.name)>>, <<>>))
             \o Only(remark, Speech("User", client, "", x, <<>>))
  /\ phase' = "ready" /\ pending' = <<>>
  /\ UNCHANGED <<client, full, turn, sent, told>>

\* A turn is sent to the upstream the router picked.  When that one fails
\* the same history goes to the next.
Ask(to) ==
  /\ \/ phase = "ready" /\ turn' = turn + 1
     \/ phase = "asked" /\ turn' = turn
  /\ phase' = "asked"
  /\ sent' = <<[to |-> to, req |-> convert_request(ClientRequest(client, full, history), client, to)]>>
  /\ UNCHANGED <<client, full, history, pending, told, said>>

\* A reply that does not stream arrives whole, over HTTP or from a plugin, and
\* is converted whole.
forward_non_streaming(vendor, answer) == convert_response(answer, vendor, client, turn)

\* The upstream answers, and the client keeps what it is given.
Reply(kind) ==
  /\ phase = "asked" /\ turn < MaxTurns
  /\ LET vendor == sent[1].to
         answer == VendorAnswer(vendor, kind, turn)
         resp == forward_non_streaming(vendor, answer)
     IN /\ history' = history \o KeptReply(client, resp)
        /\ pending' = ReplyCalls(client, resp)
        /\ told' = stop_word(client, resp)
        /\ said' = Append(said, Speech("Assistant", vendor, kind, IF HasText(kind) THEN <<Word(turn)>> ELSE <<>>,
                                       IF vendor = "claude" THEN answer.content ELSE <<>>))
        /\ phase' = IF pending' = <<>> THEN "user" ELSE "tools"
  /\ UNCHANGED <<client, full, turn, sent>>

Next ==
  \/ \E picture \in Pictures : UserSays(picture)
  \/ \E remark \in BOOLEAN : AnswerCalls(remark)
  \/ \E to \in Formats : Ask(to)
  \/ \E kind \in Kinds : Reply(kind)

Spec == Init /\ [][Next]_vars

-----------------------------------------------------------------------------
(* What is on the wire, read off the request itself: its pieces in order,  *)
(* each with the role that speaks, the call it makes or answers, its words *)
(* and the seals (signatures, encrypted reasoning) it carries.             *)

Piece(k, role, id, name, x, seals) == [k |-> k, role |-> role, id |-> id, name |-> name, x |-> x, seals |-> seals]
Own(k, role, x, seals) == Piece(k, role, <<>>, 0, x, seals)
Elements(s) == {s[i] : i \in DOMAIN s}

ClaudeWords(content) == filter_map(content, LAMBDA b : IF b.b = "text" THEN b.x ELSE <<>>)
ClaudePiece(role, b) ==
  CASE b.b = "text" -> Own("text", role, b.x, {})
    [] b.b = "image" -> Own("image", role, IF b.source = "base64" THEN DataUrl(b.x) ELSE b.x, {})
    [] b.b = "tool_use" -> Piece("call", role, b.id, b.name, <<>>, {})
    [] b.b = "tool_result" -> Piece("result", role, b.id, 0, ClaudeWords(b.content), {})
    [] b.b = "thinking" -> Own("thought", role, b.x, Elements(b.sig))
    [] b.b = "redacted_thinking" -> Own("thought", role, <<>>, {b.data})
ClaudePieces(req) == Concat(map_seq(req.messages, LAMBDA m : map_seq(m.content, LAMBDA b : ClaudePiece(m.role, b))))

ChatContent(role, c) == IF c.c = "text" THEN Own("text", role, c.x, {}) ELSE Own("image", role, c.url, {})
ChatMessagePieces(m) ==
  CASE m.role = "tool" -> <<Piece("result", "User", m.tool_call_id, 0, Chat!message_content_as_text(m.content), {})>>
    [] m.role = "user" -> map_seq(m.content, LAMBDA c : ChatContent("User", c))
    [] m.role = "assistant" ->
         (IF m.reasoning_content = <<>> THEN <<>> ELSE <<Own("thought", "Assistant", m.reasoning_content, {})>>)
           \o map_seq(m.content, LAMBDA c : ChatContent("Assistant", c))
           \o map_seq(m.tool_calls, LAMBDA c : Piece("call", "Assistant", c.id, c.name, <<>>, {}))
    [] OTHER -> <<>>
ChatPieces(req) == Concat(map_seq(req.messages, ChatMessagePieces))

EncryptedSeals(e) ==
  IF e = <<>> THEN {}
  ELSE IF ~Responses!is_sealed(e) THEN {e[1].block}
  ELSE IF e[1].block.b = "thinking" THEN Elements(e[1].block.sig) ELSE {e[1].block.data}
ResponsesItemPieces(i) ==
  CASE i.i = "function_call" -> <<Piece("call", "Assistant", i.call_id, i.name, <<>>, {})>>
    [] i.i = "function_call_output" -> <<Piece("result", "User", i.call_id, 0, i.output, {})>>
    [] i.i = "reasoning" -> <<Own("thought", "Assistant", i.summary, EncryptedSeals(i.encrypted_content))>>
    [] i.i = "message" /\ i.role \in {"user", "assistant"} ->
         map_seq(i.content, LAMBDA c : ChatContent(IF i.role = "user" THEN "User" ELSE "Assistant", c))
    [] OTHER -> <<>>
ResponsesPieces(req) == Concat(map_seq(req.input, ResponsesItemPieces))

GeminiPartPieces(role, q) ==
  map_seq(q.text, LAMBDA x : Own(IF q.thought THEN "thought" ELSE "text", role, x, Elements(q.sig)))
    \o map_seq(q.inline_data, LAMBDA d : Own("image", role, DataUrl(d), {}))
    \o map_seq(q.function_call, LAMBDA c : Piece("call", role, c.id, c.name, <<>>, Elements(q.sig)))
    \o map_seq(q.function_response, LAMBDA r : Piece("result", role, r.id, 0, r.x, {}))
GeminiPieces(req) ==
  Concat(map_seq(req.contents,
    LAMBDA c : Concat(map_seq(c.parts, LAMBDA q : GeminiPartPieces(IF c.role = "model" THEN "Assistant" ELSE "User", q)))))

Pieces(fmt, req) ==
  CASE fmt = "claude" -> ClaudePieces(req) [] fmt = "chat" -> ChatPieces(req)
    [] fmt = "responses" -> ResponsesPieces(req) [] fmt = "gemini" -> GeminiPieces(req)

Upstream == sent[1].to
SentReq == sent[1].req
Converted == sent # <<>> /\ phase = "asked" /\ Upstream # client
SentPieces == Pieces(Upstream, SentReq)
Speeches(who) == SelectSeq(said, LAMBDA s : s.who = who)
\* The vendor that thought the nth thought: the nth reply's.
ThinkerOf(n) == Speeches("Assistant")[n].by
IsWord(w) == w[1] \in {"word", "user", "result"}
WordsIn(pieces) == SelectSeq(Concat(map_seq(pieces, LAMBDA q : q.x)), IsWord)
-----------------------------------------------------------------------------

StopWords(fmt) ==
  CASE fmt = "claude" -> {"end_turn", "max_tokens", "tool_use", "stop_sequence"}
    [] fmt = "chat" -> {"stop", "length", "tool_calls", "content_filter"}
    [] fmt = "responses" -> {"completed", "incomplete"}
    [] fmt = "gemini" -> {"STOP", "MAX_TOKENS", "SAFETY"}

\* Every variable keeps its type, and a client is told why a reply stopped
\* in its own format's words.
TypeOK ==
  /\ client \in Clients /\ full \in BOOLEAN /\ turn \in 0..MaxTurns
  /\ phase \in {"user", "tools", "ready", "asked"}
  /\ (phase = "tools") = (pending # <<>>)
  /\ told \in StopWords(client) \cup {""}
  /\ sent # <<>> => Upstream \in Formats

\* A signature or a sealed block goes back only to the vendor that made it
\* (ir/request.rs: "only the sealing API's builder may write them back"),
\* through any number of turns and changes of upstream.
ForeignSealsStayOut ==
  Converted => \A q \in Elements(SentPieces) : \A v \in q.seals : ThinkerOf(v[2]) = Upstream

\* The same for every request, also one handed through in the client's own
\* format.
NoForeignSeal ==
  sent # <<>> /\ phase = "asked" =>
    \A q \in Elements(SentPieces) : \A v \in q.seals : ThinkerOf(v[2]) = Upstream

\* Claude gets its own turns back block for block, signed thinking and
\* redacted thinking included, from a client that speaks Responses or
\* Claude, whoever answered in between.
IsInfix(s, t) == \E i \in 0..(Len(t) - Len(s)) : SubSeq(t, i + 1, i + Len(s)) = s
ClaudeTurnsReplayed ==
  sent # <<>> /\ phase = "asked" /\ Upstream = "claude" /\ client \in {"claude", "responses"} =>
    \A s \in Elements(Speeches("Assistant")) :
      s.by = "claude" =>
        \E m \in Elements(SentReq.messages) : m.role = "Assistant" /\ IsInfix(s.blocks, m.content)

\* A Gemini client whose history came from Gemini may hold calls without an
\* id; such a history has nothing to pair by.
HistoryHasIds ==
  client = "gemini" => \A q \in Elements(GeminiPieces([contents |-> history])) : q.k \in {"call", "result"} => q.id # <<>>
\* In what an upstream gets, every call has its own id and exactly one
\* result, which is the result of that call.
ResultsPaired ==
  Converted /\ HistoryHasIds =>
    LET calls == SelectSeq(SentPieces, LAMBDA q : q.k = "call")
        results == SelectSeq(SentPieces, LAMBDA q : q.k = "result")
    IN /\ Len(calls) = Len(results)
       /\ \A i, j \in DOMAIN calls : calls[i].id = calls[j].id => i = j
       /\ \A i \in DOMAIN calls : \E j \in DOMAIN results :
            results[j].id = calls[i].id /\ SelectSeq(results[j].x, IsWord) = <<ResultOf(calls[i].name)>>

\* Claude's Messages API takes the converted turns: roles alternate from a
\* user's, the results of a turn's calls open the next message, and a
\* history with thinking has thinking enabled (claude/build.rs header).
ClaudeAcceptsTurns ==
  Converted /\ Upstream = "claude" /\ HistoryHasIds =>
    LET ms == SentReq.messages
        Ids(m, kind) == {b.id : b \in {c \in Elements(m.content) : c.b = kind}}
    IN /\ \A i \in DOMAIN ms : ms[i].role = IF i % 2 = 1 THEN "User" ELSE "Assistant"
       /\ \A i \in 1..(Len(ms) - 1) : Ids(ms[i], "tool_use") = Ids(ms[i + 1], "tool_result")
       /\ \A m \in Elements(ms) : \A i, j \in DOMAIN m.content :
            m.content[j].b = "tool_result" /\ m.content[i].b # "tool_result" => j < i
       /\ (\E m \in Elements(ms) : \E b \in Elements(m.content) : b.b = "thinking") => SentReq.thinking # <<>>

\* Words a Claude client never got: text that Gemini signed.
LostOnClaude(s) == client = "claude" /\ s.by = "gemini" /\ s.kind = "thought_text"
\* Everything the user, the tools and the models said so far is in the
\* request, in the order it was said and under the role that said it.
WordsArrive ==
  Converted =>
    /\ WordsIn(SelectSeq(SentPieces, LAMBDA q : q.k = "text" /\ q.role = "User"))
         = WordsIn(Speeches("User"))
    /\ WordsIn(SelectSeq(SentPieces, LAMBDA q : q.k = "text" /\ q.role = "Assistant"))
         = WordsIn(SelectSeq(Speeches("Assistant"), LAMBDA s : ~LostOnClaude(s)))
    /\ WordsIn(SelectSeq(SentPieces, LAMBDA q : q.k = "result")) = WordsIn(Speeches("Result"))

\* An inline image arrives too, from any client but a chat one asking
\* Gemini or Responses: its reader leaves `url` empty and they read only that.
PicturesArrive ==
  Converted /\ ~(client = "chat" /\ Upstream \in {"gemini", "responses"}) =>
    map_seq(SelectSeq(SentPieces, LAMBDA q : q.k = "image"), LAMBDA q : q.x)
      = map_seq(Speeches("Picture"), LAMBDA s : s.x)

\* A setting no other format has stays with the format that owns it, also
\* when two formats use one name for it (NamespacedExtra).
FieldsStayHome == Converted => SentReq.extra \subseteq PASSLIST

\* A tool a request names as its choice is one of the tools it brings, under
\* the name it brings it.
ChoiceNamesATool ==
  Converted /\ SentReq.choice.name # <<>> =>
    \E tool \in Elements(SentReq.tools) : tool.name = SentReq.choice.name

\* A client learns that a reply was cut off at the token limit exactly when
\* it was, whatever the formats.
CutIsTold ==
  phase \in {"user", "tools"} /\ told # "" =>
    (told \in {"max_tokens", "length", "incomplete", "MAX_TOKENS"}) = (Speeches("Assistant")[Len(Speeches("Assistant"))].kind = "cut")

\* What goes to a vendor is a request of its format: turns it accepts, its own
\* fields only and a choice among the tools that came along.
RequestsAccepted == TypeOK /\ ClaudeAcceptsTurns /\ FieldsStayHome /\ ChoiceNamesATool

\* The conversation survives its change of format: words, pictures, results
\* under their calls, and how a reply ended.
HistoryArrives == WordsArrive /\ PicturesArrive /\ ResultsPaired /\ CutIsTold
===============================================================================
