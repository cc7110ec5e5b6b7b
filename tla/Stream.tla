------------------------------- MODULE Stream ------------------------------
(***************************************************************************)
(* What the Anthropic client makes of one answer of the model, as data:    *)
(* the whole body of Chat (src/provider/anthropic/response.go), the events *)
(* of ChatStream (stream.go), and the chunks that RunTurn drains           *)
(* (src/provider/runturn.go).  Text, thinking and arguments are sequences  *)
(* of pieces, as the wire cuts them; an identifier, a signature or a       *)
(* redacted payload is a token.                                            *)
(***************************************************************************)
EXTENDS Integers, Sequences, SequencesExt, TLC

CONSTANT ExposeReasoning   \* Options.ExposeReasoning

ASSUME ExposeAssumption == ExposeReasoning \in BOOLEAN

NoToken == 0

EmptyMap == <<>>

Put(f, k, v) == (k :> v) @@ f

Without(f, k) == [j \in DOMAIN f \ {k} |-> f[j]]

-----------------------------------------------------------------------------
(* The server's side: an answer, and the events it is streamed as.         *)

Block(type, parts, token) == [type |-> type, parts |-> parts, token |-> token]

Event(name) ==
  [event |-> name, index |-> 0, type |-> "", part |-> 0, token |-> NoToken,
   stop |-> "", input |-> 0, output |-> 0, ok |-> TRUE]

DeltaType == [text |-> "text_delta", thinking |-> "thinking_delta",
              tool_use |-> "input_json_delta"]

BlockEvents(i, b) ==
  LET At(e) == [e EXCEPT !.index = i]
      Delta(type, part, token) ==
        At([Event("content_block_delta") EXCEPT !.type = type, !.part = part,
                                                !.token = token])
  IN <<At([Event("content_block_start") EXCEPT !.type = b.type,
                                               !.token = b.token])>>
     \o [n \in DOMAIN b.parts |-> Delta(DeltaType[b.type], b.parts[n], NoToken)]
     \o (IF b.type = "thinking"
         THEN <<Delta("signature_delta", 0, b.token)>> ELSE <<>>)
     \o <<At(Event("content_block_stop"))>>

\* The output count of message_delta is a running total; a ping may come
\* anywhere and stands in front of the first block.
EventsOf(m) ==
  <<[Event("message_start") EXCEPT !.input = m.input], Event("ping")>>
  \o FlattenSeq([i \in DOMAIN m.blocks |-> BlockEvents(i - 1, m.blocks[i])])
  \o <<[Event("message_delta") EXCEPT !.output = 1],
       [Event("message_delta") EXCEPT !.stop = m.stop, !.output = m.output],
       Event("message_stop")>>

-----------------------------------------------------------------------------
(* Responses.                                                              *)

Reasoning(content, signature, redacted, data) ==
  [content |-> content, signature |-> signature, redacted |-> redacted,
   data |-> data]

Call(index, id, arguments) ==
  [index |-> index, id |-> id, arguments |-> arguments]

\* The arguments of a call without any: the text {}.
NoArguments == <<0>>

OrBraces(parts) == IF parts = <<>> THEN NoArguments ELSE parts

Usage(input, output) ==
  [PromptTokens |-> input, CompletionTokens |-> output,
   TotalTokens |-> input + output]

\* decodeContent: one pass over the blocks of a whole answer.
DecodeContent(blocks) ==
  LET Take(out, i) ==
        LET b == blocks[i]
        IN CASE b.type = "text" -> [out EXCEPT !.content = @ \o b.parts]
             [] b.type = "thinking" ->
                  [out EXCEPT !.blocks =
                     Append(@, Reasoning(b.parts, b.token, FALSE, NoToken))]
             [] b.type = "redacted_thinking" ->
                  [out EXCEPT !.blocks =
                     Append(@, Reasoning(<<>>, NoToken, TRUE, b.token))]
             [] b.type = "tool_use" ->
                  [out EXCEPT !.calls =
                     Append(@, Call(i - 1, b.token, OrBraces(b.parts)))]
             [] OTHER -> out
  IN FoldLeft(Take, [content |-> <<>>, blocks |-> <<>>, calls |-> <<>>],
              [i \in DOMAIN blocks |-> i])

Response(model, decoded, usage, finish) ==
  [model |-> model, content |-> decoded.content, blocks |-> decoded.blocks,
   calls |-> decoded.calls, usage |-> usage, finish |-> finish]

\* parseResponse, of an answer that is no refusal.
ParseResponse(m) ==
  Response("served", DecodeContent(m.blocks), Usage(m.input, m.output), m.stop)

-----------------------------------------------------------------------------
(* Streamed: events to chunks.                                             *)

NewStreamState ==
  [input |-> 0, output |-> 0, stop |-> "", tools |-> EmptyMap,
   reasoning |-> EmptyMap]

Chunk(kind) ==
  [kind |-> kind, parts |-> <<>>, call |-> Call(0, NoToken, <<>>),
   block |-> Reasoning(<<>>, NoToken, FALSE, NoToken),
   usage |-> Usage(0, 0), finish |-> "", err |-> "none"]

NoChunk == Chunk("none")
ErrChunk(err) == [Chunk("err") EXCEPT !.err = err]

\* mapAPIErrorType: an error event carries no status.
MapAPIErrorType(type) ==
  CASE type \in {"authentication_error", "permission_error"} -> "ErrAuth"
    [] type = "rate_limit_error" -> "ErrRateLimited"
    [] type \in {"invalid_request_error", "not_found_error"} -> "ErrBadRequest"
    [] OTHER -> "ErrServer"

HandleErrorEvent(ev) ==
  IF ev.ok THEN ErrChunk(MapAPIErrorType(ev.type)) ELSE ErrChunk("stream error")

ContentBlockStart(s, ev) ==
  CASE ev.type = "tool_use" ->
         [s EXCEPT !.tools = Put(@, ev.index, [id |-> ev.token, args |-> <<>>])]
    [] ev.type = "thinking" ->
         [s EXCEPT !.reasoning =
            Put(@, ev.index, Reasoning(<<>>, NoToken, FALSE, NoToken))]
    [] ev.type = "redacted_thinking" ->
         [s EXCEPT !.reasoning =
            Put(@, ev.index, Reasoning(<<>>, NoToken, TRUE, ev.token))]
    [] OTHER -> s

\* reasoningBlock: a delta without a start makes a block of its own.
ReasoningBlock(s, index) ==
  IF index \in DOMAIN s.reasoning THEN s.reasoning[index]
  ELSE Reasoning(<<>>, NoToken, FALSE, NoToken)

\* What a delta does to the stream's state, and the chunk it sends.
ContentBlockDelta(s, ev) ==
  CASE ev.type = "thinking_delta" ->
         [s EXCEPT !.reasoning =
            Put(@, ev.index, [ReasoningBlock(s, ev.index) EXCEPT
                                !.content = Append(@, ev.part)])]
    [] ev.type = "signature_delta" /\ ev.index \in DOMAIN s.reasoning ->
         [s EXCEPT !.reasoning[ev.index].signature = ev.token]
    [] ev.type = "input_json_delta" /\ ev.index \in DOMAIN s.tools ->
         [s EXCEPT !.tools[ev.index].args = Append(@, ev.part)]
    [] OTHER -> s

DeltaChunk(ev) ==
  CASE ev.type = "text_delta" -> [Chunk("delta") EXCEPT !.parts = <<ev.part>>]
    [] ev.type = "thinking_delta" /\ ExposeReasoning ->
         [Chunk("reasoning") EXCEPT !.parts = <<ev.part>>]
    [] OTHER -> NoChunk

\* handleContentBlockStop: the finished call, or the finished block, which
\* leaves the map.
BlockStopChunk(s, ev) ==
  CASE ev.index \in DOMAIN s.tools ->
         [Chunk("call") EXCEPT
            !.call = Call(ev.index, s.tools[ev.index].id,
                          OrBraces(s.tools[ev.index].args))]
    [] ev.index \in DOMAIN s.reasoning \ DOMAIN s.tools ->
         [Chunk("block") EXCEPT !.block = s.reasoning[ev.index]]
    [] OTHER -> NoChunk

BlockStopState(s, ev) ==
  IF ev.index \in DOMAIN s.tools THEN s
  ELSE [s EXCEPT !.reasoning = Without(@, ev.index)]

HandleMessageStop(s) ==
  IF s.stop = "refusal" THEN ErrChunk("ErrRefused")
  ELSE [Chunk("done") EXCEPT !.usage = Usage(s.input, s.output),
                             !.finish = s.stop]

MessageDelta(s, ev) ==
  [s EXCEPT !.stop = IF ev.stop # "" THEN ev.stop ELSE @, !.output = ev.output]

\* processSSEEvent: the state after ev.  Data that does not decode changes
\* nothing.
StateAfter(s, ev) ==
  CASE ~ev.ok -> s
    [] ev.event = "message_start" -> [s EXCEPT !.input = ev.input]
    [] ev.event = "content_block_start" -> ContentBlockStart(s, ev)
    [] ev.event = "content_block_delta" -> ContentBlockDelta(s, ev)
    [] ev.event = "content_block_stop" -> BlockStopState(s, ev)
    [] ev.event = "message_delta" -> MessageDelta(s, ev)
    [] OTHER -> s

\* processSSEEvent: the chunk that ev sends.  message_stop and error answer
\* without decoding their data.
ChunkOf(s, ev) ==
  CASE ev.event = "message_stop" -> HandleMessageStop(s)
    [] ev.event = "error" -> HandleErrorEvent(ev)
    [] ev.ok /\ ev.event = "content_block_delta" -> DeltaChunk(ev)
    [] ev.ok /\ ev.event = "content_block_stop" -> BlockStopChunk(s, ev)
    [] OTHER -> NoChunk

\* The event ends the stream once its chunk is sent.
Stops(ev) == ev.event \in {"message_stop", "error"}

-----------------------------------------------------------------------------
(* Drained: chunks to a response.                                          *)

NoAggregate == [content |-> <<>>, blocks |-> <<>>, calls |-> EmptyMap]

\* mergeToolCallDelta: the first identifier stays, arguments concatenate.
MergeToolCallDelta(calls, delta) ==
  LET old == IF delta.index \in DOMAIN calls THEN calls[delta.index]
             ELSE Call(delta.index, NoToken, <<>>)
  IN Put(calls, delta.index,
         [old EXCEPT !.id = IF @ = NoToken THEN delta.id ELSE @,
                     !.arguments = @ \o delta.arguments])

\* drainStream's turn on a chunk that is neither an error nor the last.
Aggregate(agg, chunk) ==
  CASE chunk.kind = "delta" -> [agg EXCEPT !.content = @ \o chunk.parts]
    [] chunk.kind = "block" -> [agg EXCEPT !.blocks = Append(@, chunk.block)]
    [] chunk.kind = "call" ->
         [agg EXCEPT !.calls = MergeToolCallDelta(@, chunk.call)]
    [] OTHER -> agg

\* buildResponse: the calls by ascending index.
BuildResponse(agg, chunk) ==
  LET sorted == SetToSortSeq(DOMAIN agg.calls, <)
  IN Response("", [agg EXCEPT !.calls = [n \in DOMAIN sorted |->
                                           agg.calls[sorted[n]]]],
              chunk.usage, chunk.finish)

=============================================================================
