-------------------------- MODULE StreamTranslation --------------------------
(***************************************************************************)
(* One streamed answer on its way from an upstream of one wire format to a *)
(* client of another: decode_stream, the restorer of the masking engine    *)
(* when the request was masked, encode_stream and the SSE framing.         *)
(*                                                                         *)
(* The upstream sends any stream its format allows, cut off, broken or     *)
(* failing at any event.  `said' is what it said so far, apart from any    *)
(* wire format; `chunks' what the decoder made of it.                      *)
(***************************************************************************)
EXTENDS StreamChunks, FiniteSets

CONSTANTS MaxSaid,        \* bound: fragments and tool calls of one stream
          MaxMasked,      \* the same of a masked one
          Served          \* served model stamped over the upstream's, or None

O == INSTANCE OpenAiChatStream
A == INSTANCE AnthropicStream
R == INSTANCE ResponsesStream

Formats == {"openai", "anthropic", "responses"}

VARIABLES source, target, masked,
          dec, enc,       \* StreamTranslationState of decoder and encoder
          held,           \* StreamRestorer.leftover
          out,            \* events the client received
          phase,          \* open, stopped: the upstream's; done, failed: the client's
          open,           \* the upstream's open block or item
          sent,           \* blocks opened and fragments sent by the upstream
          said, chunks    \* history

streamVars == <<source, target, masked, dec, enc, held, out, phase, open, sent, said, chunks>>

NoBlock == [kind |-> None, ix |-> Closed]

StreamInit ==
    /\ source \in Formats /\ target \in Formats /\ masked \in BOOLEAN
    /\ dec = NewState
    /\ enc = [NewState EXCEPT !.targetModel = Served]
    /\ held = <<>> /\ out = <<>> /\ phase = "open" /\ open = NoBlock /\ sent = 0
    /\ said = [text |-> <<>>, reasoning |-> <<>>, tools |-> <<>>,
               stop |-> None, usage |-> NoUsage, resent |-> FALSE]
    /\ chunks = <<>>

-----------------------------------------------------------------------------
(* helpers.rs and codecs/stream.rs *)

decode_event(st, event) ==
    CASE source = "openai" -> O!decode_openai_chat_stream(st, event)
      [] source = "anthropic" -> A!decode_anthropic_stream(st, event)
      [] source = "responses" -> R!decode_responses_stream(st, event)

encode_event(st, chunk) ==
    CASE target = "openai" -> O!encode_openai_chat_stream(st, chunk)
      [] target = "anthropic" -> A!encode_anthropic_stream(st, chunk)
      [] target = "responses" -> R!encode_responses_stream(st, chunk)

finish(st) ==
    CASE target = "openai" -> O!finish_openai_chat_stream(st)
      [] target = "anthropic" -> A!finish_anthropic_stream(st)
      [] target = "responses" -> R!finish_responses_stream(st)

EncodeChunks(st, normalized) ==
    LET done[n \in 0 .. Len(normalized)] ==
            IF n = 0 THEN Nothing(st)
            ELSE AndThen(done[n - 1], LAMBDA s : encode_event(s, normalized[n]))
    IN  done[Len(normalized)]

Stops(normalized) == \E i \in DOMAIN normalized : normalized[i].c = "stop"

observe_replayed_event(st, raw, normalized) ==
    LET encoded == EncodeChunks(st, normalized).st
    IN  IF target = "anthropic" THEN A!observe_anthropic(st, raw, encoded)
        ELSE [encoded EXCEPT !.finished = @ \/ Stops(normalized)]

\* A preserved event of the client's own format is replayed as it is.
encode_response_stream_event(st, preserved, raw, normalized) ==
    IF st.errored THEN Nothing(st)
    ELSE IF preserved /\ source = target
         THEN Emit(observe_replayed_event(st, raw, normalized), <<raw>>)
         ELSE EncodeChunks(st, normalized)

stamp_streamed_response_model(event) ==
    IF Served # None /\ "model" \in DOMAIN event
    THEN [event EXCEPT !.model = Served] ELSE event

Stamped(events) == [i \in DOMAIN events |-> stamp_streamed_response_model(events[i])]

\* restore_chunk on a chunk of which the restorer sends all it has, or holds all.
HasText(chunk) == chunk.c \in {"text", "reasoning", "details"}
RestoreChunk(text, chunk, hold) ==
    LET all == IF chunk.c = "tool" THEN text \o chunk.args
               ELSE IF HasText(chunk) THEN text \o chunk.text ELSE <<>>
        ready == IF hold THEN <<>> ELSE all
    IN  IF chunk.c = "tool" THEN [chunk |-> [chunk EXCEPT !.args = ready],
                                  held |-> IF hold THEN all ELSE <<>>]
        ELSE IF HasText(chunk) THEN [chunk |-> [chunk EXCEPT !.text = ready],
                                     held |-> IF hold THEN all ELSE <<>>]
        ELSE [chunk |-> chunk, held |-> text]

restore_chunks(text, normalized, hold) ==
    FoldLeft(LAMBDA r, chunk :
                LET one == RestoreChunk(r.held, chunk, hold)
                IN  [held |-> one.held, chunks |-> Append(r.chunks, one.chunk)],
             [held |-> text, chunks |-> <<>>], normalized)

\* frame_stream ends an OpenAI client's stream with a marker, unless an item of
\* it failed: a stream that ends in an error event gets it too.
Closing == IF target = "openai" THEN <<[t |-> "[DONE]"]>> ELSE <<>>

\* One event of the upstream goes through to the client: decoded, restored when the
\* request was masked, encoded and stamped.
ToClient(decoded, restored, encoded) ==
    /\ dec' = decoded.st
    /\ enc' = encoded.st
    /\ held' = restored.held
    /\ out' = out \o Stamped(encoded.out) \o (IF encoded.st.errored THEN Closing ELSE <<>>)
    /\ chunks' = chunks \o decoded.out
    /\ UNCHANGED <<source, target, masked>>
Restored(normalized) ==
    IF masked THEN {restore_chunks(held, normalized, hold) : hold \in BOOLEAN}
    ELSE {[held |-> held, chunks |-> normalized]}
Encode(event, decoded) ==
    \E restored \in Restored(decoded.out) :
        ToClient(decoded, restored,
                 encode_response_stream_event(enc, ~masked, event, restored.chunks))
Deliver(event) == Encode(event, decode_event(dec, event))

MaySay == sent < IF masked THEN MaxMasked ELSE MaxSaid

-----------------------------------------------------------------------------
(* The upstream: what a provider of each format may send. *)

Fragment == <<sent + 1>>

Start ==
    /\ phase = "open" /\ source # "openai" /\ ~dec.sawStart
    /\ Deliver([t |-> IF source = "anthropic" THEN "message_start" ELSE "created",
                model |-> "upstream", usage |-> [in |-> 1, out |-> 0]])
    /\ UNCHANGED <<phase, open, sent, said>>

Ready == phase = "open" /\ (dec.sawStart \/ source = "openai")

SaidMore(kind, tool, fragment) ==
    CASE kind = "text" -> [said EXCEPT !.text = @ \o fragment]
      [] kind = "reasoning" -> [said EXCEPT !.reasoning = @ \o fragment]
      [] kind = "tool" -> [said EXCEPT !.tools[tool].args = @ \o fragment]

Chunk == O!OpenAi("upstream")

OpenAiSays ==
    /\ Ready /\ MaySay /\ source = "openai"
    /\ sent' = sent + 1
    /\ \/ /\ Deliver([Chunk EXCEPT !.text = Fragment])
          /\ said' = SaidMore("text", 0, Fragment)
       \/ /\ \E details \in {<<>>, <<"detail">>} :
                Deliver([Chunk EXCEPT !.reasoning = Fragment, !.details = details])
          /\ said' = SaidMore("reasoning", 0, Fragment)
       \/ \E tool \in DOMAIN said.tools :
             /\ Deliver([Chunk EXCEPT !.tools =
                    <<[ix |-> tool - 1, id |-> None, name |-> None, args |-> Fragment]>>])
             /\ said' = SaidMore("tool", tool, Fragment)
       \/ /\ Len(said.tools) < 2
          /\ Deliver([Chunk EXCEPT !.tools =
                <<[ix |-> Len(said.tools), id |-> "call", name |-> "fn", args |-> <<>>]>>])
          /\ said' = [said EXCEPT !.tools = Append(@, [name |-> "fn", args |-> <<>>])]
    /\ UNCHANGED <<phase, open>>

\* The kinds of block, in the words of each format.
Word(kind) ==
    IF source = "anthropic"
    THEN [text |-> "text", reasoning |-> "thinking", tool |-> "tool_use"][kind]
    ELSE [text |-> "message", reasoning |-> "reasoning", tool |-> "function_call"][kind]

OpenBlock(kind) ==
    /\ Ready /\ MaySay /\ source # "openai" /\ open.kind = None
    /\ sent' = sent + 1
    /\ LET id == IF kind = "tool" THEN "call" ELSE None
           name == IF kind = "tool" THEN "fn" ELSE None
       IN  Deliver(IF source = "anthropic"
                   THEN A!BlockStart(open.ix + 1, Word(kind), id, name)
                   ELSE R!ItemAdded(open.ix + 1, Word(kind), id, name, <<>>))
    /\ open' = [kind |-> kind, ix |-> open.ix + 1]
    /\ said' = IF kind = "tool"
               THEN [said EXCEPT !.tools = Append(@, [name |-> "fn", args |-> <<>>])]
               ELSE said
    /\ UNCHANGED phase

SayMore ==
    /\ Ready /\ MaySay /\ open.kind # None
    /\ sent' = sent + 1
    /\ Deliver(IF source = "anthropic"
               THEN A!BlockDelta(open.ix, Word(open.kind), Fragment)
               ELSE R!Delta(open.ix, Word(open.kind), Fragment))
    /\ said' = SaidMore(open.kind, Len(said.tools), Fragment)
    /\ UNCHANGED <<phase, open>>

\* A Responses item ends with its arguments in full: those it sent in deltas,
\* or some it sends only now.
CloseBlock ==
    /\ Ready /\ open.kind # None
    /\ LET last == Len(said.tools)
           streamed == IF open.kind = "tool" THEN said.tools[last].args ELSE <<>>
           late == source = "responses" /\ open.kind = "tool" /\ streamed = <<>>
           full == IF late THEN Fragment ELSE streamed
       IN  /\ Deliver(IF source = "anthropic" THEN A!BlockStop(open.ix)
                      ELSE R!ItemDone(open.ix, Word(open.kind), full))
           /\ said' = [said EXCEPT
                !.tools = IF late THEN [@ EXCEPT ![last].args = full] ELSE @,
                !.resent = @ \/ (source = "responses" /\ streamed # <<>>)]
    /\ open' = [open EXCEPT !.kind = None]
    /\ UNCHANGED <<phase, sent>>

Reported == {NoUsage, [in |-> 1, out |-> 2]}

\* The event with the reason to stop; usage comes with it or not.
Stop(truncated, usage) ==
    /\ Ready /\ open.kind = None
    /\ LET stop == CASE source = "openai" -> IF truncated THEN "length" ELSE "stop"
                     [] source = "anthropic" -> IF truncated THEN "max_tokens" ELSE "end_turn"
                     [] OTHER -> IF truncated THEN "incomplete" ELSE "completed"
       IN  Deliver(CASE source = "openai" ->
                            [Chunk EXCEPT !.finish = stop, !.usage = usage]
                     [] source = "anthropic" -> A!MessageDelta(stop, usage)
                     [] OTHER -> [t |-> stop, model |-> "upstream", output |-> <<>>,
                                  usage |-> usage])
    /\ said' = [said EXCEPT !.stop = IF truncated THEN "truncated" ELSE "end",
                            !.usage = IF source = "responses" /\ truncated
                                      THEN NoUsage ELSE usage]
    /\ phase' = "stopped"
    /\ UNCHANGED <<open, sent>>

\* What may follow it: message_stop, or OpenAI's chunk with the usage alone.
AfterStop ==
    /\ phase = "stopped" /\ source # "responses"
    /\ \/ /\ source = "anthropic"
          /\ Deliver([t |-> "message_stop"])
          /\ UNCHANGED said
       \/ /\ source = "openai" /\ said.usage = NoUsage
          /\ Deliver([Chunk EXCEPT !.usage = [in |-> 1, out |-> 2]])
          /\ said' = [said EXCEPT !.usage = [in |-> 1, out |-> 2]]
    /\ phase' = "ended"
    /\ UNCHANGED <<open, sent>>

\* An error event in the stream, or a frame that is no event at all.
ErrorEvent ==
    /\ Ready
    /\ \E t \in {"error"} \cup (IF source = "responses" THEN {} ELSE {"malformed"}) :
          Deliver([t |-> t])
    /\ phase' = "failed"
    /\ UNCHANGED <<open, sent, said>>

-----------------------------------------------------------------------------
\* The connection breaks: the error item ends the client's stream.
TransportError ==
    /\ phase \in {"open", "stopped", "ended"}
    /\ out' = Append(out, [t |-> "error"])
    /\ phase' = "failed"
    /\ UNCHANGED <<source, target, masked, dec, enc, held, open, sent, said, chunks>>

\* The upstream's stream is over, complete or cut off: the restorer's leftover
\* comes as a text delta, and then what the target format wants at its end.
EndOfStream ==
    /\ phase \in {"open", "stopped", "ended"}
    /\ LET flushed == IF held = <<>> THEN Nothing(enc) ELSE encode_event(enc, TextDelta(held))
           ended == AndThen(flushed, finish)
       IN  /\ enc' = ended.st
           /\ out' = out \o Stamped(ended.out) \o Closing
    /\ held' = <<>>
    /\ phase' = "done"
    /\ UNCHANGED <<source, target, masked, dec, open, sent, said, chunks>>

StreamNext ==
    \/ Start
    \/ OpenAiSays
    \/ \E kind \in {"text", "reasoning", "tool"} : OpenBlock(kind)
    \/ SayMore
    \/ CloseBlock
    \/ \E truncated \in BOOLEAN, usage \in Reported : Stop(truncated, usage)
    \/ AfterStop
    \/ ErrorEvent
    \/ TransportError
    \/ EndOfStream

StreamSpec == StreamInit /\ [][StreamNext]_streamVars

-----------------------------------------------------------------------------
(* What a client of the target format makes of the events it received. *)

\* The text or the reasoning an event adds.
Adds(event, kind) ==
    LET names == [text |-> {"text", "message"}, reasoning |-> {"thinking", "reasoning", "signature"}]
    IN  CASE event.t = "chunk" -> event[kind]
          [] event.t \in {"content_block_delta", "delta"} ->
                IF event.kind \in names[kind] THEN event.delta ELSE <<>>
          [] OTHER -> <<>>
ReadOf(kind) == FlattenSeq([i \in DOMAIN out |-> Adds(out[i], kind)])

\* What it says of a tool call: a new one, or with its key some of its arguments or all.
ToolPart(does, key, args) == [does |-> does, key |-> key, args |-> args]
ToolParts(event) ==
    CASE event.t = "chunk" ->
            [i \in DOMAIN event.tools |->
                ToolPart(IF event.tools[i].name = None THEN "more" ELSE "new",
                         event.tools[i].ix, event.tools[i].args)]
      [] event.t = "content_block_start" /\ event.kind = "tool_use" ->
            <<ToolPart("new", event.ix, <<>>)>>
      [] event.t = "output_item.added" /\ event.kind = "function_call" ->
            <<ToolPart("new", event.ix, event.full)>>
      [] event.t = "output_item.done" /\ event.kind = "function_call" ->
            <<ToolPart("all", event.ix, event.full)>>
      [] event.t \in {"content_block_delta", "delta"} /\ event.kind \in {"tool_use", "function_call"} ->
            <<ToolPart("more", event.ix, event.delta)>>
      [] OTHER -> <<>>
ToolsRead ==
    LET Add(tools, part) ==
            IF part.does = "new" THEN Append(tools, [key |-> part.key, args |-> part.args])
            ELSE [i \in DOMAIN tools |->
                    IF tools[i].key # part.key THEN tools[i]
                    ELSE [tools[i] EXCEPT !.args = IF part.does = "all" THEN part.args
                                                   ELSE @ \o part.args]]
    IN  FoldLeft(Add, <<>>, FlattenSeq([i \in DOMAIN out |-> ToolParts(out[i])]))

Of(types) == {i \in DOMAIN out : out[i].t \in types}

\* The events that end a client's stream, with their reason and usage.
Ends == {i \in DOMAIN out :
            \/ out[i].t \in {"message_stop", "completed", "incomplete"}
            \/ out[i].t = "chunk" /\ out[i].finish # None}

SaysTruncated(event) ==
    \/ event.t = "incomplete"
    \/ event.t = "message_delta" /\ event.stop = "max_tokens"
    \/ event.t = "chunk" /\ event.finish = "length"

SaysUsage(event) == "usage" \in DOMAIN event /\ event.usage = said.usage

\* A stream whose upstream said all it had to say, and no restorer in between.
Complete == phase = "done" /\ ~masked /\ said.stop # None

\* Every fragment of text and reasoning the upstream sent reaches a client of any
\* format, once and in order, in every state of an unmasked stream; a finished one also
\* carries whether the answer was truncated and what it used (encode_event and finish of
\* the three stream codecs, and the replay of codecs/stream.rs).
ContentIntact ==
    /\ ~masked => /\ ReadOf("text") = said.text
                  /\ ReadOf("reasoning") = said.reasoning
    /\ Complete =>
        /\ (said.stop = "truncated") <=> \E i \in DOMAIN out : SaysTruncated(out[i])
        /\ said.usage # NoUsage => \E i \in DOMAIN out : SaysUsage(out[i])

\* A stream that was replayed and cut off: finish ends it from what the encoder observed.
Repaired == source = target /\ ~masked /\ phase = "done" /\ said.stop = None

Arguments(tools) == [i \in DOMAIN tools |-> tools[i].args]

\* Every tool call reaches the client with the arguments the upstream sent, no fragment
\* lost, doubled or under another call.  Two cases are left out: arguments a Responses
\* upstream repeats (ArgumentsSentOnce), and the repair of a cut-off replay.
ArgumentsIntact ==
    ~masked /\ ~said.resent /\ ~Repaired => Arguments(ToolsRead) = Arguments(said.tools)

\* "Emits a final tool-call argument delta when Responses only supplies arguments at item
\* end" (codecs/responses/stream.rs:358): arguments that were streamed are not sent again.
ArgumentsSentOnce ==
    ~masked /\ ~Repaired => Arguments(ToolsRead) = Arguments(said.tools)

\* What the accumulator folds out of the decoded chunks for a caller that wants the
\* buffered response (LlmResponse::into_agg) is what the streaming client received.
BufferedAsStreamed ==
    LET agg == Accumulate(chunks)
        calls == [i \in 1..Cardinality(DOMAIN agg.calls) |->
                    agg.calls[SetToSortSeq(DOMAIN agg.calls, <)[i]].args]
    IN  /\ ~masked /\ ~said.resent /\ ~Repaired =>
              /\ agg.text = ReadOf("text") /\ agg.reasoning = ReadOf("reasoning")
              /\ calls = Arguments(ToolsRead)
        /\ into_agg(chunks) = "error" => phase = "failed"
        /\ Complete => (agg.stop = "max_tokens") <=> said.stop = "truncated"

\* The first event is the start, nothing but OpenAI's usage chunk and marker follows the end,
\* and a client whose stream is over has been told so, once: with an error or with an end.
EndsOnce ==
    /\ Cardinality(Ends) <= 1
    /\ Cardinality(Ends) = 1 => \A e \in Ends, i \in DOMAIN out : i > e =>
          \/ out[i].t \in {"error", "malformed", "[DONE]"}
          \/ target = "openai" /\ (masked \/ out[i].text = <<>>)
    /\ phase = "failed" => \E i \in Of({"error", "malformed"}) : \A j \in DOMAIN out : j > i => out[j].t = "[DONE]"
    /\ phase = "done" /\ dec.sawStart => Ends # {}
    /\ (target # "openai" /\ out # <<>> /\ phase \notin {"failed"}) =>
          out[1].t \in {"message_start", "created"}

Nested ==
    LET starts == Of({"content_block_start", "output_item.added"})
        stops == Of({"content_block_stop", "output_item.done"})
        Opens(i) == {s \in starts : s < i /\ out[s].ix = out[i].ix}
        Shut(i) == {s \in stops : s < i /\ out[s].ix = out[i].ix}
    IN  /\ \A i \in starts : Opens(i) = {}
        /\ \A i \in stops \cup Of({"content_block_delta", "delta", "part.done"}) :
                Opens(i) # {} /\ Shut(i) = {}
        /\ phase = "done" => \A i \in starts : \E s \in stops : out[s].ix = out[i].ix

\* Translated into Anthropic or Responses events, what is sent of a block or item comes
\* between its start and its end, under an index of its own, and everything that was
\* started has ended when the message has (ensure_*_block, close_*, finish_*_stream).
BlocksNested == target # "openai" /\ (source # target \/ masked) => Nested

\* What a client's parser needs of any stream: events in a legal order, and one end.
WellFormed == EndsOnce /\ BlocksNested
=============================================================================
