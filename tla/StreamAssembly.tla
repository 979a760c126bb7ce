--------------------------- MODULE StreamAssembly ---------------------------
(***************************************************************************)
(* One generation as a stream: the endpoint sends its events to the local  *)
(* router (llm_router/http_server.go, llmrouter/openai.go), which answers  *)
(* its caller once it holds the first and then passes them on; the         *)
(* provider (llmprovider/openai_impl.go) shows them as chunks while it     *)
(* assembles the message that the session keeps.                           *)
(*                                                                         *)
(* Compatible endpoints leave events out: what one omits is its style,     *)
(* chosen at Init.  The pieces of a text are numbers, in the order in      *)
(* which they are produced.                                                *)
(***************************************************************************)
EXTENDS Integers, Sequences, SequencesExt

CONSTANTS
  MaxPieces,  \* bound on what the model produces
  WireSize    \* bound on the events in flight to the router

VARIABLES
  style,      \* [done, content, terminal, usage : BOOLEAN], what the endpoint sends
  said,       \* what the model produced: [text, thoughts, notes, calls], see SayNote
  open,       \* the item that is being sent, with its pieces of reasoning
  ended,      \* how the endpoint ended the response, "no" while it goes on
  wire,       \* from the endpoint to the router
  router,     \* "waiting" for the first event, "streaming", "closed"
  reply,      \* the status the router answered with, "none" before
  pipe,       \* from the router to the provider
  provider    \* the state of GenerateStream

vars == <<style, said, open, ended, wire, router, reply, pipe, provider>>

Styles == [done : BOOLEAN, content : BOOLEAN, terminal : BOOLEAN, usage : BOOLEAN]

NoItem    == [kind |-> "none", thoughts |-> <<>>]
NoMessage == [content |-> <<>>, reasoning |-> <<>>, calls |-> <<>>, finish |-> ""]

Init ==
  /\ style \in Styles
  /\ said = [text |-> <<>>, thoughts |-> <<>>, notes |-> <<>>, calls |-> <<>>]
  /\ open = NoItem
  /\ ended = "no"
  /\ wire = <<>>
  /\ router = "waiting"
  /\ reply = "none"
  /\ pipe = <<>>
  /\ provider = [msg |-> NoMessage, textStarted |-> FALSE, reasoningStarted |-> FALSE,
                 pending |-> <<>>, chunks |-> <<>>, result |-> "none"]

-----------------------------------------------------------------------------
(* The endpoint.  It produces one item after the other.                    *)

Produced == Len(said.text) + Len(said.thoughts) + Len(said.notes) + Len(said.calls)

Producing == ended = "no" /\ Produced < MaxPieces /\ Len(wire) < WireSize

Sends(event) == wire' = Append(wire, event)

SayText ==
  /\ Producing
  /\ open.kind \in {"none", "text"} \/ ~style.done
  /\ open' = [kind |-> "text", thoughts |-> <<>>]
  /\ said' = [said EXCEPT !.text = Append(@, Produced + 1)]
  /\ Sends([type |-> "text.delta", delta |-> Produced + 1])
  /\ UNCHANGED <<style, ended, router, reply, pipe, provider>>

EndText ==
  /\ ended = "no" /\ open.kind = "text" /\ style.done /\ Len(wire) < WireSize
  /\ open' = NoItem
  /\ Sends([type |-> "text.done"])
  /\ UNCHANGED <<style, said, ended, router, reply, pipe, provider>>

\* A piece of reasoning itself, or of its summary; the item holds the former.
SayThought ==
  /\ Producing
  /\ open.kind \in {"none", "reasoning"} \/ ~style.done
  /\ said' = [said EXCEPT !.thoughts = Append(@, Produced + 1)]
  /\ open' = [kind     |-> "reasoning",
              thoughts |-> IF open.kind = "reasoning" THEN Append(open.thoughts, Produced + 1)
                           ELSE <<Produced + 1>>]
  /\ Sends([type |-> "reasoning.delta", delta |-> Produced + 1])
  /\ UNCHANGED <<style, ended, router, reply, pipe, provider>>

SayNote ==
  /\ Producing
  /\ open.kind \in {"none", "note"} \/ ~style.done
  /\ said' = [said EXCEPT !.notes = Append(@, Produced + 1)]
  /\ open' = [kind |-> "note", thoughts |-> <<>>]
  /\ Sends([type |-> "summary.delta", delta |-> Produced + 1])
  /\ UNCHANGED <<style, ended, router, reply, pipe, provider>>

EndReasoning ==
  /\ ended = "no" /\ open.kind \in {"reasoning", "note"} /\ style.done /\ Len(wire) < WireSize
  /\ open' = NoItem
  /\ Sends([type    |-> "item.reasoning",
            content |-> IF style.content THEN open.thoughts ELSE <<>>])
  /\ UNCHANGED <<style, said, ended, router, reply, pipe, provider>>

SayCall ==
  /\ Producing
  /\ open = NoItem /\ style.done
  /\ said' = [said EXCEPT !.calls = Append(@, Produced + 1)]
  /\ Sends([type |-> "item.call", call |-> Produced + 1])
  /\ UNCHANGED <<style, open, ended, router, reply, pipe, provider>>

\* The response is over; an endpoint without terminal events just closes.
Finish ==
  /\ ended = "no" /\ Len(wire) < WireSize
  /\ open = NoItem \/ ~style.done
  /\ IF style.terminal
       THEN \E how \in {"completed", "max_output_tokens", "content_filter", "other", "failed"} :
              ended' = how /\ Sends([type |-> "terminal", how |-> how])
       ELSE ended' = "closed" /\ UNCHANGED wire
  /\ UNCHANGED <<style, said, open, router, reply, pipe, provider>>

\* The endpoint refuses the request with a status and a JSON body.
Refuse ==
  /\ ended = "no" /\ Produced = 0 /\ router = "waiting"
  /\ ended' = "refused"
  /\ UNCHANGED <<style, said, open, wire, router, reply, pipe, provider>>

\* The connection breaks and takes what was not read yet along.
Break ==
  /\ ended # "refused" /\ router # "closed"
  /\ ended' = "broken"
  /\ wire' = <<>>
  /\ UNCHANGED <<style, said, open, router, reply, pipe, provider>>

-----------------------------------------------------------------------------
(* The router: handleGenerateStream.                                       *)

Answered(status) == reply' = status

\* writePreStreamError keeps the status of an upstream refusal.
PreStreamStatus == IF ended = "refused" THEN "upstream" ELSE "bad gateway"

PrefetchFails ==
  /\ router = "waiting" /\ wire = <<>> /\ ended # "no"
  /\ Answered(PreStreamStatus)
  /\ router' = "closed"
  /\ UNCHANGED <<style, said, open, ended, wire, pipe, provider>>

Forward ==
  /\ router \in {"waiting", "streaming"} /\ wire # <<>> /\ pipe = <<>>
  /\ Answered("ok")
  /\ router' = "streaming"
  /\ pipe' = <<Head(wire)>>
  /\ wire' = Tail(wire)
  /\ UNCHANGED <<style, said, open, ended, provider>>

\* A stream that broke ends in an error event.
ClosingEvent == IF ended = "broken" THEN "error" ELSE "end"

CloseStream ==
  /\ router = "streaming" /\ wire = <<>> /\ ended # "no" /\ pipe = <<>>
  /\ router' = "closed"
  /\ pipe' = <<[type |-> ClosingEvent]>>
  /\ UNCHANGED <<style, said, open, ended, wire, reply, provider>>

-----------------------------------------------------------------------------
(* The provider: GenerateStream.                                           *)

Emit(p, kind, what) == [p EXCEPT !.chunks = Append(@, [kind |-> kind, what |-> what])]

OnTextDelta(p, piece) ==
  LET q == IF p.textStarted THEN p ELSE Emit(p, "text_start", 0)
  IN  Emit([q EXCEPT !.textStarted = TRUE, !.msg.content = Append(@, piece)],
           "text_delta", piece)

OnTextDone(p) ==
  IF p.textStarted THEN [Emit(p, "text_end", 0) EXCEPT !.textStarted = FALSE] ELSE p

OnReasoningDelta(p, piece) ==
  LET q == IF p.reasoningStarted THEN p ELSE Emit(p, "reasoning_start", 0)
  IN  Emit([q EXCEPT !.reasoningStarted = TRUE, !.pending = Append(@, piece)],
           "reasoning_delta", piece)

\* What the finished item holds replaces what was collected for it, if anything.
OnReasoningItem(p, content) ==
  LET q == IF p.reasoningStarted THEN Emit(p, "reasoning_end", 0) ELSE p
  IN  [q EXCEPT !.msg.reasoning    = @ \o (IF content # <<>> THEN content ELSE p.pending),
                !.pending          = <<>>,
                !.reasoningStarted = FALSE]

OnCall(p, call) == Emit([p EXCEPT !.msg.calls = Append(@, call)], "tool_call", call)

\* FinishReason of a terminal event; the unknown reasons of an incomplete
\* response count as truncation.
FinishReason(how, usage) ==
  CASE how = "completed"      -> IF usage THEN "stop" ELSE "usage_unavailable"
    [] how = "content_filter" -> "content_filter"
    [] how = "failed"         -> "cancelled"
    [] OTHER                  -> "max_output_tokens"

OnTerminal(p, how) ==
  [p EXCEPT !.msg.finish = FinishReason(how, style.usage),
            !.result     = IF how = "failed" THEN "error" ELSE @]

\* Mutant: what was collected for an item that never ended is dropped.
DropsPending(p, failed) ==
  [p EXCEPT !.msg.finish = CASE failed            -> "cancelled"
                             [] ~failed /\ @ = "" -> "usage_unavailable"
                             [] OTHER             -> @,
            !.result = IF failed THEN "error" ELSE "ok"]

\* The stream is over: the reasoning of an unfinished item is kept, and a stream
\* without a terminal event is no normal end.
OnEnd(p, failed) ==
  [p EXCEPT !.msg.reasoning = @ \o p.pending,
            !.msg.finish = CASE failed            -> "cancelled"
                             [] ~failed /\ @ = "" -> "usage_unavailable"
                             [] OTHER             -> @,
            !.result = IF failed THEN "error" ELSE "ok"]

Handled(p, event) ==
  CASE event.type = "text.delta"      -> OnTextDelta(p, event.delta)
    [] event.type = "text.done"       -> OnTextDone(p)
    [] event.type \in {"reasoning.delta", "summary.delta"} -> OnReasoningDelta(p, event.delta)
    [] event.type = "item.reasoning"  -> OnReasoningItem(p, event.content)
    [] event.type = "item.call"       -> OnCall(p, event.call)
    [] event.type = "terminal"        -> OnTerminal(p, event.how)
    [] event.type = "end"             -> OnEnd(p, FALSE)
    [] event.type = "error"           -> OnEnd(p, TRUE)

Running == provider.result = "none"

HandleEvent ==
  /\ Running /\ reply = "ok" /\ pipe # <<>>
  /\ provider' = Handled(provider, Head(pipe))
  /\ pipe' = Tail(pipe)
  /\ UNCHANGED <<style, said, open, ended, wire, router, reply>>

\* newResponseStream turns any other status into an error, without a message.
HandleRefusal ==
  /\ Running /\ reply \in {"upstream", "bad gateway"}
  /\ provider' = [provider EXCEPT !.result = "refused"]
  /\ UNCHANGED <<style, said, open, ended, wire, router, reply, pipe>>

\* The caller's context ends the request on both sides.
Cancel ==
  /\ Running /\ reply \in {"none", "ok"}
  /\ provider' = IF reply = "ok" THEN OnEnd(provider, TRUE)
                 ELSE [provider EXCEPT !.result = "refused"]
  /\ router' = "closed"
  /\ ended' = IF ended = "no" THEN "abandoned" ELSE ended
  /\ wire' = <<>> /\ pipe' = <<>>
  /\ UNCHANGED <<style, said, open, reply>>

Endpoint ==
  SayText \/ EndText \/ SayThought \/ SayNote \/ EndReasoning \/ SayCall
    \/ Finish \/ Refuse \/ Break

Done == ~Running /\ UNCHANGED vars

\* The result ends the connection: nothing is read after it.
Next ==
  \/ Running /\ (Endpoint \/ PrefetchFails \/ Forward \/ CloseStream)
  \/ HandleEvent \/ HandleRefusal \/ Cancel \/ Done

Spec == Init /\ [][Next]_vars

-----------------------------------------------------------------------------
(* What becomes of the message.                                            *)

\* The chunks that the event consumer makes frames of, one after the other.
Frames(chunks, kind) == {i \in DOMAIN chunks : chunks[i].kind = kind}

\* The pieces are those of the chunks at these places, one after the other.
AreAt(pieces, chunks, places) ==
  /\ Len(pieces) = Cardinality(places)
  /\ \A i \in places : pieces[Cardinality({j \in places : j <= i})] = chunks[i].what

\* Generate: the same response without a stream.  Its reasoning is that of the
\* items alone.
Generated ==
  [content   |-> said.text,
   reasoning |-> said.thoughts,
   calls     |-> said.calls,
   finish    |-> FinishReason(ended, style.usage)]

\* buildResponseParams: the message in the next request.
RequestItems(m) ==
  (IF m.reasoning # <<>> THEN <<[kind |-> "reasoning", what |-> m.reasoning]>> ELSE <<>>)
    \o (IF m.content # <<>> THEN <<[kind |-> "message", what |-> m.content]>> ELSE <<>>)
    \o [i \in DOMAIN m.calls |-> [kind |-> "function_call", what |-> <<m.calls[i]>>]]

-----------------------------------------------------------------------------
(* Properties.                                                             *)

msg == provider.msg

Shows(pieces, kind) == AreAt(pieces, provider.chunks, Frames(provider.chunks, kind))

\* Whatever happens to the stream, the message holds the text and the calls that
\* were shown, and only what the model produced was shown.
ShownIsKept ==
  /\ Shows(msg.content, "text_delta") /\ IsPrefix(msg.content, said.text)
  /\ Shows(msg.calls, "tool_call") /\ IsPrefix(msg.calls, said.calls)
  /\ \A piece \in ToSet(msg.reasoning) :
       \E i \in Frames(provider.chunks, "reasoning_delta") : provider.chunks[i].what = piece

\* A stream that ends without an error has lost nothing: neither text nor calls
\* nor reasoning, on the way or for want of the event that would have ended an
\* item; and the next request replays it with the reasoning first.
NothingLost ==
  provider.result = "ok" =>
    /\ msg.content = said.text /\ msg.calls = said.calls
    /\ Shows(msg.reasoning, "reasoning_delta")
    /\ ToSet(msg.reasoning) = ToSet(said.thoughts \o said.notes)
    /\ (said.thoughts # <<>> => RequestItems(msg)[1].kind = "reasoning")

\* A generation counts as finished exactly if the endpoint said so and told what
\* it used: a broken, cancelled, truncated or silent stream never does.
StopIsTrue ==
  /\ provider.result = "ok" =>
       (msg.finish = "stop" <=> ended = "completed" /\ style.usage)
  /\ provider.result = "error" => msg.finish = "cancelled"

\* "Semantically the same message as Generate" (openai_impl.go:207), where the
\* endpoint does not summarise its reasoning.
SameAsGenerate ==
  /\ provider.result = "ok" /\ said.notes = <<>>
  /\ ended \in {"completed", "max_output_tokens", "content_filter", "other"}
  => msg = Generated

\* A refusal reaches the caller under its own status and shows nothing.
RefusalsKept ==
  /\ reply = "upstream" => ended = "refused"
  /\ provider.result = "refused" => provider.chunks = <<>> /\ msg = NoMessage

\* A text or a reasoning that is shown has been opened, is opened once, and is
\* closed only while it is open: of its chunks those come first or follow an end
\* that open it.
Brackets == {[start |-> "text_start", delta |-> "text_delta", end |-> "text_end"],
             [start |-> "reasoning_start", delta |-> "reasoning_delta",
              end   |-> "reasoning_end"]}

Own(chunks, b) == {i \in DOMAIN chunks : chunks[i].kind \in {b.start, b.delta, b.end}}

Bracketed ==
  \A b \in Brackets : \A i \in Own(provider.chunks, b) :
    LET before == {j \in Own(provider.chunks, b) : j < i}
    IN  provider.chunks[i].kind = b.start <=>
          \A j \in before : (\A k \in before : k <= j) => provider.chunks[j].kind = b.end

\* All of it.
StreamFaithful ==
  ShownIsKept /\ NothingLost /\ StopIsTrue /\ SameAsGenerate /\ RefusalsKept /\ Bracketed
=============================================================================
