------------------------------ MODULE StreamProxy ------------------------------
(***************************************************************************)
(* The streaming path of crates/server/src/proxy.rs over the converters of *)
(* crates/core: an upstream's SSE bytes arrive in chunks that split blocks *)
(* anywhere, a spawned task cuts them into blocks, converts each, patches  *)
(* tool namespaces, captures what it sent for the request log and feeds a  *)
(* bounded channel that the client drains or abandons.                     *)
(*                                                                         *)
(* A block is two pieces on the wire, its head and the tail that ends with *)
(* the blank line; the last tail of a body may lack the blank line.        *)
(***************************************************************************)
EXTENDS StreamIR, SequencesExt

CONSTANTS Cases,       \* what a request may meet: [from, api, brief, to, reply, limit],
                       \* limit: max_capture_bytes
          JsonTexts,
          Namespaced,  \* the request's ns_map is not empty
          Capacity,    \* of the mpsc channel (64 in the code)
          ChunkPieces  \* bound: pieces of blocks a chunk may bring

ASSUME StreamAssumption ==
  /\ Capacity \in Nat \ {0} /\ ChunkPieces \in Nat \ {0}
  /\ Namespaced \in BOOLEAN
  /\ \A c \in Cases : c.from \in Formats /\ c.to \in Formats /\ c.reply # <<>> /\ c.limit \in Nat

Claude == INSTANCE ClaudeStream
Chat == INSTANCE ChatStream
Responses == INSTANCE ResponsesStream
Gemini == INSTANCE GeminiStream
Vendor == INSTANCE VendorStream

VARIABLES
  case,      \* the request's formats, API and the reply the vendor gives
  unsent,    \* pieces the upstream has yet to send
  cut,       \* the upstream connection failed before the reply ended
  buffer,    \* the task's buffer: pieces of blocks
  blocks,    \* complete blocks of the current chunk, to be converted
  stIn, stOut, \* state_in and state_out
  lines,     \* converted lines, to be sent
  captured, truncated,  \* sse_lines, response_truncated
  channel, received, connected,  \* the client's end
  task,      \* "reading", "draining", "logged", "aborted"
  logged     \* the usage in the log record

upstream == <<unsent, cut>>
converter == <<buffer, blocks, stIn, stOut>>
capture == <<captured, truncated>>
client == <<channel, received, connected>>
vars == <<case, upstream, converter, lines, capture, client, task, logged>>

(* crates/core/src/converters/mod.rs and convert.rs *)
parse_stream(from, ev, st) ==
  CASE from = "claude" -> Claude!parse_sse_event(ev, st)
    [] from = "chat" -> Chat!parse_sse_event(ev, st)
    [] from = "responses" -> Responses!parse_sse_event(ev, st)
    [] from = "gemini" -> Gemini!parse_sse_event(ev, st)

emit_stream(to, ev, st) ==
  CASE to = "claude" -> Claude!emit_sse_event(ev, st)
    [] to = "chat" -> Chat!emit_sse_event(ev, st)
    [] to = "responses" -> Responses!emit_sse_event(ev, st)
    [] to = "gemini" -> Gemini!emit_sse_event(ev, st)

\* The hub: parse into canonical events, emit each.  The first emit that fails
\* loses the lines of the events before it, not their effect on the state.
emit_next(to, r, ev) ==
  LET e == emit_stream(to, ev, r.st) IN
  CASE ~r.ok -> r [] r.ok /\ ~e.ok -> Failed(e.st) [] OTHER -> Ok(e.st, r.out \o e.out)
hub_convert(from, to, ev, in, out) ==
  With(parse_stream(from, ev, in), LAMBDA parsed :
    LET emitted[n \in 0..Len(parsed.out)] ==
          IF n = 0 THEN Ok(out, <<>>)
          ELSE With(emitted[n - 1], LAMBDA r : emit_next(to, r, parsed.out[n]))
    IN With(emitted[Len(parsed.out)], LAMBDA e :
         [ok |-> parsed.ok /\ e.ok, in |-> parsed.st, out |-> e.st, lines |-> e.out]))

convert_stream_event(from, to, ev, in, out) ==
  IF from = to THEN [ok |-> TRUE, in |-> in, out |-> out, lines |-> <<ev>>]
  ELSE hub_convert(from, to, ev, in, out)

(* proxy.rs *)
unwrap_code_assist(ev) == IF "enveloped" \in DOMAIN ev THEN [ev EXCEPT !.enveloped = FALSE] ELSE ev

ErrorLine == [k |-> "error"]

\* [DONE] goes through as it is, whatever the client speaks; a failed conversion
\* becomes an error event.
convert_sse_block(c, ev, in, out) ==
  LET bare == IF c.api = "code_assist" THEN unwrap_code_assist(ev) ELSE ev
      guarded(r) == [in |-> r.in, out |-> r.out, lines |-> IF r.ok THEN r.lines ELSE <<ErrorLine>>]
  IN IF bare.k = "[DONE]" THEN [in |-> in, out |-> out, lines |-> <<bare>>]
     ELSE With(convert_stream_event(c.from, c.to, bare, in, out), guarded)

patch_item(item) == IF item.type = "function_call" THEN [item EXCEPT !.name = "short"] ELSE item

patch_sse_namespaces(line) ==
  CASE ~Namespaced -> line
    [] Namespaced /\ line.k = "response.completed" ->
         [line EXCEPT !.output = [n \in DOMAIN @ |-> patch_item(@[n])]]
    [] Namespaced /\ line.k \in {"response.output_item.added", "response.output_item.done"} ->
         [line EXCEPT !.item = patch_item(@)]
    [] OTHER -> line

head(n) == [n |-> n, end |-> FALSE]
tail(n) == [n |-> n, end |-> TRUE]

\* The blocks whose blank line is in the buffer, and what stays behind.
take_blocks_dropping_rest(buf) ==
  [blocks |-> [m \in 1..Len(SelectSeq(buf, LAMBDA p : p.end)) |-> SelectSeq(buf, LAMBDA p : p.end)[m].n],
   rest |-> <<>>]
take_complete_sse_blocks(buf) ==
  LET ends == {n \in DOMAIN buf : buf[n].end}
      last == IF ends = {} THEN 0 ELSE CHOOSE n \in ends : \A other \in ends : other <= n
  IN [blocks |-> [m \in 1..Len(SelectSeq(SubSeq(buf, 1, last), LAMBDA p : p.end)) |->
                    SelectSeq(buf, LAMBDA p : p.end)[m].n],
      rest |-> SubSeq(buf, last + 1, Len(buf))]
\* A body cut inside a block leaves a block that does not parse: block 0.
Garbled == [k |-> "garbled"]
Body == [c \in Cases |-> Vendor!Events(c)]
EventAt(n) == IF n = 0 THEN Garbled ELSE Body[case][n]
Total(c) == Len(Body[c])

(* request_log.rs: the usage of a streamed reply, read from the captured   *)
(* lines when they carry one.                                              *)
line_usage(line) ==
  IF "usage" \in DOMAIN line THEN line.usage ELSE NoUsage
extract_stream_usage_from_sse_lines(ls) ==
  LET telling == SelectSeq(ls, LAMBDA l : Counted(line_usage(l))) IN
  IF telling = <<>> THEN NoUsage ELSE line_usage(telling[Len(telling)])

final_usage(ls, in, out) ==
  LET streamed == extract_stream_usage_from_sse_lines(ls) IN
  CASE Counted(streamed) -> streamed
    [] ~Counted(streamed) /\ Counted(out.usage) -> out.usage
    [] OTHER -> in.usage

Init ==
  /\ case \in Cases
  /\ \E terminated \in BOOLEAN :   \* whether the body ends with a blank line
       unsent = Concat([n \in 1..Total(case) |->
                  <<head(n)>> \o (IF terminated \/ n < Total(case) THEN <<tail(n)>> ELSE <<>>)])
  /\ cut = FALSE /\ buffer = <<>> /\ blocks = <<>> /\ stIn = StreamState /\ stOut = StreamState
  /\ lines = <<>> /\ captured = <<>> /\ truncated = FALSE
  /\ channel = <<>> /\ received = <<>> /\ connected = TRUE
  /\ task = "reading" /\ logged = NoUsage

Idle == blocks = <<>> /\ lines = <<>>

\* forward_streaming's loop: a chunk arrives, and the blocks it completes are cut.
ReadChunk ==
  /\ task = "reading" /\ Idle /\ unsent # <<>>
  /\ \E n \in 1..ChunkPieces :
       /\ n <= Len(unsent)
       /\ \E cutUp \in {take_complete_sse_blocks(buffer \o SubSeq(unsent, 1, n))} :
            buffer' = cutUp.rest /\ blocks' = cutUp.blocks
       /\ unsent' = SubSeq(unsent, n + 1, Len(unsent))
  /\ UNCHANGED <<case, cut, stIn, stOut, lines, capture, client, task, logged>>

\* A chunk error is only logged; the body then yields nothing more.
ReadError ==
  /\ task = "reading" /\ Idle /\ unsent # <<>>
  /\ unsent' = <<>> /\ cut' = TRUE
  /\ UNCHANGED <<case, converter, lines, capture, client, task, logged>>

ConvertBlock ==
  /\ task \in {"reading", "draining"} /\ lines = <<>> /\ blocks # <<>>
  /\ \E r \in {convert_sse_block(case, EventAt(Head(blocks)), stIn, stOut)} :
       stIn' = r.in /\ stOut' = r.out /\ lines' = r.lines
  /\ blocks' = Tail(blocks)
  /\ UNCHANGED <<case, upstream, buffer, capture, client, task, logged>>

\* The captured copy stops for good at the first line that does not fit.
line_bytes(ls) ==
  Len(ls) + Len(SelectSeq(ls, LAMBDA l : l.k \in {"response.created", "response.in_progress", "response.completed"}))
Capture(line) ==
  LET fits == ~truncated /\ line_bytes(Append(captured, line)) <= case.limit IN
  /\ captured' = IF fits THEN Append(captured, line) ELSE captured
  /\ truncated' = ~fits

SendLine ==
  /\ task \in {"reading", "draining"} /\ lines # <<>> /\ connected /\ Len(channel) < Capacity
  /\ LET line == patch_sse_namespaces(Head(lines)) IN
     Capture(line) /\ channel' = Append(channel, line)
  /\ lines' = Tail(lines)
  /\ UNCHANGED <<case, upstream, converter, received, connected, task, logged>>

\* The client is gone: inside the loop the task returns at once, nothing is
\* logged; while the rest of the buffer drains the failed sends are ignored.
SendFailsOnlyAtEnd ==
  /\ task = "draining" /\ lines # <<>> /\ ~connected
  /\ Capture(patch_sse_namespaces(Head(lines)))
  /\ lines' = Tail(lines)
  /\ UNCHANGED <<case, upstream, converter, client, task, logged>>
SendFails ==
  /\ task \in {"reading", "draining"} /\ lines # <<>> /\ ~connected
  /\ Capture(patch_sse_namespaces(Head(lines)))
  /\ lines' = Tail(lines)
  /\ task' = IF task = "reading" THEN "aborted" ELSE task
  /\ UNCHANGED <<case, upstream, converter, client, logged>>

\* The body ended: what is left in the buffer is converted as a block.  When the
\* connection broke it may be a part of one, with or without a data line.
BodyEnds ==
  /\ task = "reading" /\ Idle /\ unsent = <<>>
  /\ task' = "draining"
  /\ blocks' \in IF buffer = <<>> THEN {<<>>}
                 ELSE {<<buffer[1].n>>} \cup (IF cut THEN {<<0>>, <<>>} ELSE {})
  /\ buffer' = <<>>
  /\ UNCHANGED <<case, upstream, stIn, stOut, lines, capture, client, logged>>

\* log_streaming; the sender is dropped with the task.
Log ==
  /\ task = "draining" /\ Idle
  /\ logged' = final_usage(captured, stIn, stOut)
  /\ task' = "logged"
  /\ UNCHANGED <<case, upstream, converter, lines, capture, client>>

ClientReads ==
  /\ connected /\ channel # <<>>
  /\ received' = Append(received, Head(channel)) /\ channel' = Tail(channel)
  /\ UNCHANGED <<case, upstream, converter, lines, capture, connected, task, logged>>

ClientLeaves ==
  /\ connected /\ connected' = FALSE
  /\ UNCHANGED <<case, upstream, converter, lines, capture, channel, received, task, logged>>

TaskStep == ReadChunk \/ ReadError \/ ConvertBlock \/ SendLine \/ SendFails \/ BodyEnds \/ Log
ClientStep == ClientReads \/ ClientLeaves
Next == TaskStep \/ ClientStep

Fairness == WF_vars(TaskStep) /\ WF_vars(ClientReads)
Spec == Init /\ [][Next]_vars /\ Fairness

-------------------------------------------------------------------------------
(* forward_plugin_streaming: the same conversion over a body that arrived  *)
(* whole.                                                                  *)
forward_plugin_streaming(c) ==
  LET upTo[n \in 0..Len(Body[c])] ==
        IF n = 0 THEN [in |-> StreamState, out |-> StreamState, lines |-> <<>>]
        ELSE LET r == upTo[n - 1]
                 b == convert_sse_block(c, Body[c][n], r.in, r.out)
             IN [in |-> b.in, out |-> b.out,
                 lines |-> r.lines \o [m \in DOMAIN b.lines |-> patch_sse_namespaces(b.lines[m])]]
  IN upTo[Len(Body[c])].lines
Buffered == [c \in Cases |-> forward_plugin_streaming(c)]

(* What a client makes of the lines. *)
Sent == received \o channel
Delivered == task = "logged" /\ connected /\ ~cut

TextIn(line) ==
  CASE line.k = "content_block_delta" /\ line.delta = "text" -> line.x
    [] line.k = "response.output_text.delta" -> line.x
    [] line.k = "chunk" /\ case.to = "chat" -> line.content
    [] line.k = "chunk" /\ case.to = "gemini" ->
         Concat([n \in DOMAIN line.parts |-> IF line.parts[n].part = "text" THEN line.parts[n].x ELSE <<>>])
    [] OTHER -> <<>>
ClientText(ls) == Concat([n \in DOMAIN ls |-> TextIn(ls[n])])

\* The arguments a client assembles for a call: Claude's by the block last opened
\* at an index, Chat's by the index announced with the id, Responses' by the item,
\* Gemini's from the last part that names the call.
ClientArgs(ls, id) ==
  LET opens(n) == ls[n].k = "content_block_start" /\ ls[n].block = "tool_use"
      mine(n) == \E m \in 1..n : /\ opens(m) /\ ls[m].id = id /\ ls[m].i = ls[n].i
                                 /\ \A later \in m + 1..n : ~(ls[later].k = "content_block_start" /\ ls[later].i = ls[n].i)
      named(n) == ls[n].k = "chunk" /\ ls[n].tools # <<>>
      parts == Concat([n \in DOMAIN ls |-> IF ls[n].k # "chunk" THEN <<>>
                        ELSE SelectSeq(ls[n].parts, LAMBDA p : p.part = "call" /\ p.id = id)])
  IN CASE case.to = "claude" ->
            Concat([n \in DOMAIN ls |-> IF ls[n].k = "content_block_delta" /\ ls[n].delta = "input_json" /\ mine(n)
                                            THEN ls[n].x ELSE <<>>])
       [] case.to = "chat" ->
            Concat([n \in DOMAIN ls |->
              IF named(n) /\ \E m \in 1..n : named(m) /\ ls[m].tools[1].id = id /\ ls[m].tools[1].index = ls[n].tools[1].index
              THEN ls[n].tools[1].x ELSE <<>>])
       [] case.to = "responses" ->
            Concat([n \in DOMAIN ls |-> IF ls[n].k = "response.function_call_arguments.delta" /\ ls[n].id = id
                                            THEN ls[n].x ELSE <<>>])
       [] case.to = "gemini" -> IF parts = <<>> THEN <<>> ELSE parts[Len(parts)].args

\* A Responses upstream counts every item in output_index, the parser counts calls.
IndexesAgree ==
  \A n \in DOMAIN case.reply : case.reply[n].b = "call" => \A m \in 1..n : case.reply[m].b = "call"

IsTerminal(line) ==
  CASE case.to = "claude" -> line.k = "message_stop"
    [] case.to = "chat" -> line.k = "[DONE]"
    [] case.to = "responses" -> line.k = "response.completed"
    [] case.to = "gemini" -> line.k = "chunk" /\ line.finish # ""

-------------------------------------------------------------------------------
(* One type invariant. *)
TypeOK ==
  /\ case \in Cases /\ cut \in BOOLEAN /\ truncated \in BOOLEAN /\ connected \in BOOLEAN
  /\ \A p \in Range(unsent \o buffer) : p.n \in 1..Total(case) /\ p.end \in BOOLEAN
  /\ \A n \in Range(blocks) : n \in 0..Total(case)
  /\ Len(channel) <= Capacity /\ line_bytes(captured) <= case.limit
  /\ task \in {"reading", "draining", "logged", "aborted"}

\* However the upstream's bytes are cut into chunks, the client sees a prefix of
\* what the buffered plugin path makes of the same body, and all of it when the
\* stream ran to its end (take_complete_sse_blocks and the leftover buffer).
ChunkingIsInvisible ==
  /\ ~cut => IsPrefix(Sent, Buffered[case])
  /\ Delivered => Sent = Buffered[case]

\* Whatever the two formats, the client's text is the vendor's text: no delta is
\* lost, repeated or moved by the hub.
TextArrives == Delivered => ClientText(Sent) = Vendor!ReplyText(case.reply)

\* Every piece of a tool call's arguments reaches the call it belongs to, for
\* every pair of formats whose call indexes agree.
ArgsReachTheirCall ==
  Delivered /\ (case.from = "responses" /\ case.to \notin {"responses", "claude"} => IndexesAgree) =>
    \A call \in Range(Vendor!Calls(case.reply)) : ClientArgs(Sent, call.id) = call.args

\* The client's own end-of-reply event comes at most once and nothing follows it;
\* it does come when the reply was delivered, except from a Chat upstream, whose
\* [DONE] never reaches the converter.
EndsOnce ==
  /\ ~cut => \A n \in DOMAIN Sent : IsTerminal(Sent[n]) => n = Len(Sent)
  /\ Delivered /\ (case.from = "chat" => case.to = "chat") => \E n \in DOMAIN Sent : IsTerminal(Sent[n])

\* A Responses client can match every item that closes with one that opened at
\* the same output_index, and the final response repeats what closed.
ItemsClose ==
  Delivered /\ case.to = "responses" =>
    LET closed == SelectSeq(Sent, LAMBDA l : l.k = "response.output_item.done" /\ l.item # Responses!reasoning(<<"sealed">>))
        final == SelectSeq(Sent, LAMBDA l : l.k = "response.completed")
    IN /\ \A n \in DOMAIN closed : \E l \in Range(Sent) :
            l.k = "response.output_item.added" /\ l.i = closed[n].i /\ l.item.type = closed[n].item.type
       /\ final # <<>> /\ closed # <<>> => final[1].output = [n \in DOMAIN closed |-> closed[n].item]

\* With a namespace map, no function call reaches a Responses client under its
\* qualified name, in an item or in the final response.
NamespacesRestored ==
  Namespaced /\ case.to = "responses" =>
    \A l \in Range(Sent) :
      /\ "item" \in DOMAIN l /\ l.item.type = "function_call" => l.item.name = "short"
      /\ "output" \in DOMAIN l => \A it \in Range(l.output) : it.type = "function_call" => it.name = "short"

\* The log counts the tokens the vendor reported, whichever side of the conversion
\* the usage is read from.  A Claude stream passed through reports its input in the
\* first event only, which the last one replaces.
LoggedUsageIsVendors ==
  Delivered /\ ~truncated /\ ~case.brief =>
    /\ logged.o = Vendor!LastUsage.o
    /\ (case.from = "claude" => case.to # "claude") => logged.i = Vendor!LastUsage.i

\* The captured copy is what was sent, up to the point where it was cut off.
CaptureIsPrefix ==
  /\ connected => IsPrefix(captured, Sent)
  /\ connected /\ ~truncated => captured = Sent

\* The task ends, logged or abandoned, whatever the client does: it reads on, or
\* leaves with the channel full.
TaskEnds == <>(task \in {"logged", "aborted"})

\* What a client reads is a stream of its own format: one end, at the end, and
\* every output item closed where it was opened (claude/stream.rs 205-227,
\* openai_resp/stream.rs 414-606).
EventsPair == TypeOK /\ EndsOnce /\ ItemsClose

\* The client and the log get the vendor's reply: its text, its tool calls under
\* the client's names and with their own arguments, and the usage it counted
\* (proxy.rs 432-565).
ReplyIsTheVendors ==
  TextArrives /\ ArgsReachTheirCall /\ NamespacesRestored /\ LoggedUsageIsVendors /\ CaptureIsPrefix
===============================================================================
