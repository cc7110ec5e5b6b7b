-------------------------------- MODULE Turn -------------------------------
(***************************************************************************)
(* One call of provider.Registry.Route (src/provider/route.go) over        *)
(* Anthropic clients: RunTurn on one completer after the other, the post   *)
(* with its retries (src/provider/anthropic/client.go), and, for a         *)
(* streamed request, the goroutine that reads the body, the goroutine that *)
(* turns events into chunks, and the drain (stream.go, runturn.go), joined *)
(* by unbuffered channels and one context.  A stream that its turn has     *)
(* given up goes on beside the next turn.  The server and the network are  *)
(* external: they answer, refuse, break off or report an error.            *)
(***************************************************************************)
EXTENDS Stream

CONSTANTS
  Order,       \* the names Route is given
  Answers,     \* answers a server may give
  Statuses,    \* HTTP statuses it may refuse with
  ErrorTypes,  \* types of a mid-stream error event
  MaxRetries   \* effectiveMaxRetries

ASSUME TurnAssumption ==
  /\ Order \in Seq(STRING) /\ MaxRetries \in Nat
  /\ Statuses \subseteq 400..599 /\ ErrorTypes \subseteq STRING

VARIABLES
  req,         \* what the caller asks: Stream, a valid request, a Retryable
  completers,  \* names the registry holds
  ctxDone,     \* the caller's context has ended
  route,       \* where the caller's goroutine stands, and what it returns
  streams,     \* per name tried: the body and its two goroutines
  agg          \* what drainStream has aggregated

turnVars == <<req, completers, ctxDone, route, streams, agg>>

Attempts == DOMAIN Order

NoResponse == Response("none", NoAggregate, Usage(0, 0), "")

NoStream ==
  [answer |-> 0, read |-> 0, reader |-> "none", ev |-> Event("none"),
   then |-> "none", decoder |-> "none", chunk |-> NoChunk,
   after |-> "none", state |-> NewStreamState]

\* The decoder may still take an event.
Heard(s) == s.decoder \in {"waiting", "sending"}

\* What the reader holds once the decoder takes no more is never seen.
Trimmed(s) ==
  IF Heard(s) THEN s
  ELSE [NoStream EXCEPT !.reader = s.reader, !.decoder = s.decoder]

\* The answer a stream carries.
Answer(i) == Answers[streams[i].answer]

-----------------------------------------------------------------------------
(* The caller's goroutine.                                                 *)

Goes(at) == route' = [route EXCEPT !.at = at]

\* answer, which the properties read, is the answer of the last post.
RouteReturns(err, resp) ==
  route' = [route EXCEPT !.at = "returned", !.err = err, !.resp = resp]

\* The errors the caller's Retryable lets fall through; none is asked when
\* it is nil.
FallsThrough(err) ==
  req.picky => err \in {"ErrServer", "ErrRateLimited", "transport"}

\* A turn has failed: stop, try the next name, or report that all failed.
TurnFails(err) ==
  IF ~FallsThrough(err) THEN RouteReturns(err, NoResponse)
  ELSE IF route.i = Len(Order) THEN RouteReturns("ErrAllFailed", NoResponse)
  ELSE route' = [route EXCEPT !.at = "try", !.i = @ + 1]

\* The head of Route's loop and of RunTurn.
Try ==
  /\ route.at = "try"
  /\ CASE Order = <<>> -> RouteReturns("ErrEmptyOrder", NoResponse)
       [] Order # <<>> /\ route.i > 1 /\ ctxDone ->
            RouteReturns("ctx", NoResponse)
       [] OTHER ->
            IF Order[route.i] \notin completers
            THEN RouteReturns("ErrUnknownName", NoResponse)
            ELSE IF ~req.valid THEN TurnFails("invalid")
            ELSE route' = [route EXCEPT !.at = "post", !.attempt = 0]
  /\ UNCHANGED <<req, completers, ctxDone, streams, agg>>

IsRetryable(code) == code \in {408, 409, 429} \cup 500..599

MapHTTPError(code) ==
  CASE code \in {400, 413, 422} -> "ErrBadRequest"
    [] code \in {401, 403} -> "ErrAuth"
    [] code = 429 -> "ErrRateLimited"
    [] code \in {408, 409} \cup 500..599 -> "ErrServer"
    [] OTHER -> "unexpected status"

\* doWithRetry after a failed attempt: back off, or give the error up.
RetryOr(retryable, err) ==
  IF retryable /\ route.attempt < MaxRetries
  THEN route' = [route EXCEPT !.at = "backoff", !.attempt = @ + 1]
  ELSE TurnFails(err)

PostFails ==
  /\ route.at = "post"
  /\ IF ctxDone THEN TurnFails("ctx") ELSE RetryOr(TRUE, "transport")
  /\ UNCHANGED <<req, completers, ctxDone, streams, agg>>

PostRefused ==
  /\ route.at = "post"
  /\ \E code \in Statuses : RetryOr(IsRetryable(code), MapHTTPError(code))
  /\ UNCHANGED <<req, completers, ctxDone, streams, agg>>

\* sleepBackoff: the delay passes or ctx ends first.
Backoff ==
  /\ route.at = "backoff"
  /\ Goes("post") \/ (ctxDone /\ TurnFails("ctx"))
  /\ UNCHANGED <<req, completers, ctxDone, streams, agg>>

\* A 2xx status: Chat goes on to read the body, ChatStream starts its
\* goroutines and returns the channel.
PostAnswered ==
  /\ route.at = "post"
  /\ \E a \in DOMAIN Answers :
       /\ streams' = [streams EXCEPT ![route.i] =
         IF req.stream
         THEN [NoStream EXCEPT !.answer = a, !.reader = "reading",
                               !.decoder = "waiting"]
         ELSE NoStream]
       /\ route' = [route EXCEPT !.at = IF req.stream THEN "drain" ELSE "body",
                                 !.attempt = 0, !.answer = a]
  /\ agg' = NoAggregate
  /\ UNCHANGED <<req, completers, ctxDone>>

\* Chat: the body arrives whole, or breaks off.
ReadBody ==
  /\ route.at = "body"
  /\ IF Answers[route.answer].stop = "refusal" THEN TurnFails("ErrRefused")
     ELSE RouteReturns("none", ParseResponse(Answers[route.answer]))
  /\ UNCHANGED <<req, completers, ctxDone, streams, agg>>

BodyBreaks ==
  /\ route.at = "body"
  /\ TurnFails("read") \/ TurnFails("parse response")
  /\ UNCHANGED <<req, completers, ctxDone, streams, agg>>

-----------------------------------------------------------------------------
(* readSSEEvents.                                                          *)

Stream(i, s) == streams' = [streams EXCEPT ![i] = Trimmed(s)]

\* The decoder has returned: done and the body are closed.
Closed(i) == streams[i].decoder = "closed"

More(i) == Heard(streams[i]) /\ streams[i].read < Len(EventsOf(Answer(i)))

NextEvent(i) == EventsOf(Answer(i))[streams[i].read + 1]

\* The next event is read whole.
ReaderReads(i) ==
  /\ streams[i].reader = "reading" /\ More(i)
  /\ Stream(i, [streams[i] EXCEPT !.reader = "sending", !.ev = NextEvent(i),
                                  !.read = @ + 1, !.then = "reading"])
  /\ UNCHANGED <<req, completers, ctxDone, route, agg>>

\* The server reports an error and ends the stream.
ReaderReadsError(i) ==
  /\ streams[i].reader = "reading" /\ More(i)
  /\ \E type \in ErrorTypes :
       Stream(i, [streams[i] EXCEPT !.reader = "sending", !.then = "closing",
                    !.ev = [Event("error") EXCEPT !.type = type]])
  /\ UNCHANGED <<req, completers, ctxDone, route, agg>>

\* The body ends or breaks off: between two events, after the name of the
\* next one, or inside its data.  What was read of an event is still sent.
ReaderBreaks(i) ==
  /\ streams[i].reader = "reading"
  /\ \E end \in {"closing", "failing"} :
       \/ Stream(i, [streams[i] EXCEPT !.reader = end])
       \/ /\ More(i)
          /\ Stream(i, [streams[i] EXCEPT
               !.reader = "sending", !.then = end,
               !.ev = [Event(NextEvent(i).event) EXCEPT !.ok = FALSE]])
  /\ UNCHANGED <<req, completers, ctxDone, route, agg>>

\* A send is over once done is closed.
ReaderGivesUp(i) ==
  /\ streams[i].reader \in {"sending", "failing"} /\ Closed(i)
  /\ Stream(i, [streams[i] EXCEPT !.reader = "closed"])
  /\ UNCHANGED <<req, completers, ctxDone, route, agg>>

ReaderCloses(i) ==
  /\ streams[i].reader = "closing"
  /\ Stream(i, [streams[i] EXCEPT !.reader = "closed"])
  /\ UNCHANGED <<req, completers, ctxDone, route, agg>>

-----------------------------------------------------------------------------
(* handleStream.                                                           *)

\* The decoder sends chunk, and goes on as after says.
Sends(s, chunk, after) ==
  IF chunk = NoChunk THEN s
  ELSE [s EXCEPT !.decoder = "sending", !.chunk = chunk, !.after = after]

\* The unbuffered channel hands an event over.
DecoderTakes(i) ==
  /\ streams[i].reader = "sending" /\ streams[i].decoder = "waiting"
  /\ LET s == streams[i]
         taken == [s EXCEPT !.reader = s.then, !.ev = Event("none"),
                            !.state = StateAfter(s.state, s.ev)]
     IN Stream(i, Sends(taken, ChunkOf(s.state, s.ev),
                        IF Stops(s.ev) THEN "returning" ELSE "waiting"))
  /\ UNCHANGED <<req, completers, ctxDone, route, agg>>

DecoderTakesErr(i) ==
  /\ streams[i].reader = "failing" /\ streams[i].decoder = "waiting"
  /\ Stream(i, Sends([streams[i] EXCEPT !.reader = "closed"],
                     ErrChunk("stream read"), "returning"))
  /\ UNCHANGED <<req, completers, ctxDone, route, agg>>

\* Mutant of DecoderCancelled: a send does not watch ctx.
DecoderCancelledWaiting(i) ==
  /\ ctxDone /\ streams[i].decoder = "waiting"
  /\ Stream(i, [streams[i] EXCEPT !.decoder = "returning"])
  /\ UNCHANGED <<req, completers, ctxDone, route, agg>>

\* The select of handleStream, or of sendChunkOrDone, finds ctx done.
DecoderCancelled(i) ==
  /\ ctxDone /\ streams[i].decoder \in {"waiting", "sending"}
  /\ Stream(i, [streams[i] EXCEPT !.decoder = "returning"])
  /\ UNCHANGED <<req, completers, ctxDone, route, agg>>

\* The reader has closed its channel, or the last chunk is sent: the deferred
\* calls close done, the body and the channel of chunks.
DecoderReturns(i) ==
  /\ \/ streams[i].decoder = "returning"
     \/ streams[i].decoder = "waiting" /\ streams[i].reader = "closed"
  /\ Stream(i, [streams[i] EXCEPT !.decoder = "closed"])
  /\ UNCHANGED <<req, completers, ctxDone, route, agg>>

-----------------------------------------------------------------------------
(* drainStream.                                                            *)

\* Chunk.Validate refuses a chunk that is an error and the last; the decoder
\* builds none.
DrainTakes ==
  LET s == streams[route.i]
  IN /\ route.at = "drain" /\ s.decoder = "sending"
     /\ Stream(route.i, [s EXCEPT !.decoder = s.after, !.chunk = NoChunk])
     /\ CASE s.chunk.kind = "err" -> TurnFails(s.chunk.err) /\ UNCHANGED agg
          [] s.chunk.kind = "done" ->
               /\ RouteReturns("none", BuildResponse(agg, s.chunk))
               /\ UNCHANGED agg
          [] OTHER -> agg' = Aggregate(agg, s.chunk) /\ UNCHANGED route
     /\ UNCHANGED <<req, completers, ctxDone>>

\* Mutant of DrainSeesClose: a closed channel ends the turn like Done.
DrainSeesCloseAsDone ==
  /\ route.at = "drain" /\ Closed(route.i)
  /\ RouteReturns("none", BuildResponse(agg, Chunk("done")))
  /\ UNCHANGED <<req, completers, ctxDone, streams, agg>>

\* The channel of chunks closes without a terminal chunk.
DrainSeesClose ==
  /\ route.at = "drain" /\ Closed(route.i)
  /\ TurnFails("ErrStreamClosedEarly")
  /\ UNCHANGED <<req, completers, ctxDone, streams, agg>>

DrainCancelled ==
  /\ route.at = "drain" /\ ctxDone
  /\ TurnFails("ctx")
  /\ UNCHANGED <<req, completers, ctxDone, streams, agg>>

-----------------------------------------------------------------------------
(* Others: the caller's cancel, and a Register beside the call.            *)

Cancel ==
  /\ ~ctxDone /\ ctxDone' = TRUE
  /\ UNCHANGED <<req, completers, route, streams, agg>>

\* Register refuses a name it holds.  The registry is read by Try alone, so
\* only what is registered before it matters.
Register(name) ==
  /\ route.at = "try" /\ name \notin completers
  /\ completers' = completers \cup {name}
  /\ UNCHANGED <<req, ctxDone, route, streams, agg>>

Init ==
  /\ req \in [stream : BOOLEAN, valid : BOOLEAN, picky : BOOLEAN]
  /\ completers \in SUBSET ToSet(Order)
  /\ ctxDone = FALSE
  /\ route = [at |-> "try", i |-> 1, attempt |-> 0, answer |-> 0,
              err |-> "none", resp |-> NoResponse]
  /\ streams = [i \in Attempts |-> NoStream]
  /\ agg = NoAggregate

Caller ==
  \/ Try \/ PostFails \/ PostRefused \/ PostAnswered \/ Backoff
  \/ ReadBody \/ BodyBreaks \/ DrainTakes \/ DrainSeesClose \/ DrainCancelled

Reader(i) ==
  \/ ReaderReads(i) \/ ReaderReadsError(i) \/ ReaderBreaks(i)
  \/ ReaderGivesUp(i) \/ ReaderCloses(i)

Decoder(i) ==
  \/ DecoderTakes(i) \/ DecoderTakesErr(i)
  \/ DecoderCancelled(i) \/ DecoderReturns(i)

Next ==
  \/ Caller \/ Cancel
  \/ \E name \in ToSet(Order) : Register(name)
  \/ \E i \in Attempts : Reader(i) \/ Decoder(i)

Spec == Init /\ [][Next]_turnVars

\* Go runs every goroutine, and the HTTP client's timeout ends a post or a
\* read that the server leaves open.
FairSpec ==
  /\ Spec /\ WF_turnVars(Caller)
  /\ \A i \in Attempts : WF_turnVars(Reader(i)) /\ WF_turnVars(Decoder(i))

-----------------------------------------------------------------------------
(* Properties.                                                             *)

\* What the answer m says: its text, its thinking with every signature and
\* redacted payload in order, its calls by index with complete arguments,
\* and the tokens the server counted last.
Content(m) ==
  LET OfType(types) == SelectSeq([i \in DOMAIN m.blocks |-> i],
                                 LAMBDA i : m.blocks[i].type \in types)
      texts == OfType({"text"})
      thoughts == OfType({"thinking", "redacted_thinking"})
      calls == OfType({"tool_use"})
  IN [content |-> FlattenSeq([n \in DOMAIN texts |-> m.blocks[texts[n]].parts]),
      blocks |-> [n \in DOMAIN thoughts |->
        LET b == m.blocks[thoughts[n]]
        IN IF b.type = "thinking"
           THEN Reasoning(b.parts, b.token, FALSE, NoToken)
           ELSE Reasoning(<<>>, NoToken, TRUE, b.token)],
      calls |-> [n \in DOMAIN calls |->
        LET b == m.blocks[calls[n]]
        IN Call(calls[n] - 1, b.token, OrBraces(b.parts))]]

\* A response that Route returns is the whole answer of the server that gave
\* it, streamed or not, whatever broke off, was retried, was given up or is
\* still running beside it; a refusal and a part of an answer are never
\* returned as one.
AnswerIsTheMessage ==
  route.resp # NoResponse =>
    LET m == Answers[route.answer]
    IN /\ m.stop # "refusal"
       /\ route.resp = Response(route.resp.model, Content(m),
                                Usage(m.input, m.output), m.stop)

\* Every call of Route returns, and the goroutines of every stream it opened
\* end, also those of a turn that was given up, without the caller's help.
TurnsEnd ==
  <>[](/\ route.at = "returned"
       /\ \A i \in Attempts : /\ streams[i].reader \in {"none", "closed"}
                              /\ streams[i].decoder \in {"none", "closed"})

=============================================================================
