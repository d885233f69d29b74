--------------------------- MODULE ResponsesStream ---------------------------
(***************************************************************************)
(* codecs/responses/stream.rs: OpenAI Responses events to the neutral IR   *)
(* and back.                                                               *)
(***************************************************************************)
EXTENDS StreamChunks

\* Wire events.  kind is the type of the output item: message, reasoning or
\* function_call; an item at its end carries its full text or arguments.
ItemAdded(ix, kind, id, name, args) ==
    [t |-> "output_item.added", ix |-> ix, kind |-> kind, id |-> id,
     name |-> name, full |-> args]
ItemDone(ix, kind, full) ==
    [t |-> "output_item.done", ix |-> ix, kind |-> kind, full |-> full]
PartAdded(ix, kind) == [t |-> "part.added", ix |-> ix, kind |-> kind]
PartDone(ix, kind, full) == [t |-> "part.done", ix |-> ix, kind |-> kind, full |-> full]
Delta(ix, kind, delta) == [t |-> "delta", ix |-> ix, kind |-> kind, delta |-> delta]

decode_responses_output_item_added(event) ==
    IF event.kind # "function_call" THEN <<>>
    ELSE <<ToolCallDelta(event.ix, event.id, event.name, event.full)>>

\* Emits the arguments of a finished item unless they are those collected
\* under its index - by an encoder: no decoder writes tool states.
decode_responses_output_item_done(st, event) ==
    LET existing == IF event.ix \in DOMAIN st.tools THEN st.tools[event.ix].args ELSE <<>>
    IN  IF event.kind # "function_call" \/ event.full \in {<<>>, existing} THEN <<>>
        ELSE <<ToolCallDelta(event.ix, None, None, event.full)>>

decode_responses_stream(st, event) ==
    CASE event.t = "created" ->
            LET after == [st EXCEPT !.sawStart = TRUE, !.model = Or(event.model, @)]
            IN  Emit(after, <<MessageStart(after.model)>>)
      [] event.t = "delta" ->
            Emit(st, CASE event.kind = "message" -> <<TextDelta(event.delta)>>
                       [] event.kind = "reasoning" -> <<ReasoningDelta(event.delta)>>
                       [] event.kind = "function_call" ->
                            <<ToolCallDelta(event.ix, None, None, event.delta)>>)
      [] event.t = "output_item.added" -> Emit(st, decode_responses_output_item_added(event))
      [] event.t = "output_item.done" -> Emit(st, decode_responses_output_item_done(st, event))
      [] event.t = "completed" ->
            IF event.usage = NoUsage THEN Emit(st, <<MessageStop(None)>>)
            ELSE Emit([st EXCEPT !.usage = event.usage, !.sawUsage = TRUE],
                      <<Usage(event.usage), MessageStop(None)>>)
      [] event.t = "incomplete" -> Emit(st, <<MessageStop("max_tokens")>>)
      [] event.t = "error" -> Emit(st, <<StreamError>>)
      [] OTHER -> Nothing(st)

-----------------------------------------------------------------------------
ensure_responses_created(st) ==
    IF st.emittedStart THEN Nothing(st)
    ELSE Emit([st EXCEPT !.emittedStart = TRUE],
              <<[t |-> "created", model |-> ModelShown(st)]>>)

\* Text and reasoning each have one item for the whole stream.
open_text(st) ==
    IF st.textIx # Closed THEN Nothing(st)
    ELSE Emit([st EXCEPT !.textIx = st.nextIx, !.nextIx = @ + 1],
              <<ItemAdded(st.nextIx, "message", None, None, <<>>),
                PartAdded(st.nextIx, "message")>>)

open_reasoning(st) ==
    IF st.reasoningIx # Closed THEN Nothing(st)
    ELSE Emit([st EXCEPT !.reasoningIx = st.nextIx, !.nextIx = @ + 1],
              <<ItemAdded(st.nextIx, "reasoning", None, None, <<>>),
                PartAdded(st.nextIx, "reasoning")>>)

encode_responses_text_delta(st, text) ==
    AndThen(AndThen(ensure_responses_created(st), open_text), LAMBDA s :
        Emit([s EXCEPT !.text = @ \o text], <<Delta(s.textIx, "message", text)>>))

encode_responses_reasoning_delta(st, text) ==
    AndThen(AndThen(ensure_responses_created(st), open_reasoning), LAMBDA s :
        Emit([s EXCEPT !.reasoning = @ \o text], <<Delta(s.reasoningIx, "reasoning", text)>>))

start_tool(st, chunk) ==
    LET tool == ToolAfter(st, chunk) IN
    IF tool.started \/ tool.name = None THEN Nothing(WithTool(st, chunk.ix, tool))
    ELSE Emit(WithTool([st EXCEPT !.nextIx = @ + 1], chunk.ix,
                       [tool EXCEPT !.started = TRUE, !.ix = st.nextIx]),
              <<ItemAdded(st.nextIx, "function_call", tool.id, tool.name, <<>>)>>)

flush_tool(st, ix) ==
    LET tool == st.tools[ix] IN
    IF ~tool.started \/ tool.pending = <<>> THEN Nothing(st)
    ELSE Emit(WithTool(st, ix, [tool EXCEPT !.pending = <<>>]),
              <<Delta(tool.ix, "function_call", tool.pending)>>)

encode_responses_tool_delta(st, chunk) ==
    AndThen(AndThen(ensure_responses_created(st), LAMBDA s : start_tool(s, chunk)),
            LAMBDA s : flush_tool(s, chunk.ix))

encode_responses_stream(st, chunk) ==
    IF st.errored THEN Nothing(st) ELSE
    CASE chunk.c = "start" -> ensure_responses_created(record_source_identity(st, chunk))
      [] chunk.c = "text" -> encode_responses_text_delta(st, chunk.text)
      [] chunk.c = "reasoning" -> encode_responses_reasoning_delta(st, chunk.text)
      [] chunk.c = "details" ->
            IF chunk.text = <<>> THEN Nothing(st)
            ELSE encode_responses_reasoning_delta(st, chunk.text)
      [] chunk.c = "tool" -> encode_responses_tool_delta(st, chunk)
      [] chunk.c = "usage" ->
            Nothing([st EXCEPT !.usage = chunk.usage, !.sawUsage = TRUE])
      [] chunk.c = "stop" -> Nothing([st EXCEPT !.stop = Or(chunk.reason, @)])
      [] IsError(chunk) -> Emit(Errored(st), <<[t |-> "error"]>>)

-----------------------------------------------------------------------------
Item(ix, kind, full) == [ix |-> ix, kind |-> kind, full |-> full]

\* The items of a stream: one for reasoning, one for text, one per started tool.
FinalItems(st) ==
    LET reasoning == {Item(st.reasoningIx, "reasoning", st.reasoning)}
        text == {Item(st.textIx, "message", st.text)}
        tools == {Item(tool.ix, "function_call", tool.args) :
                    tool \in {st.tools[i] : i \in {j \in DOMAIN st.tools : st.tools[j].started}}}
    IN  InOrder({item \in reasoning \cup text \cup tools : item.ix # Closed}, LAMBDA item : item.ix)

\* The end of an item that was started, with all it holds.
Ended(ix, kind, full) ==
    IF ix = Closed THEN <<>> ELSE <<PartDone(ix, kind, full), ItemDone(ix, kind, full)>>

finish_responses_stream(st) ==
    IF st.finished THEN Nothing(st)
    ELSE LET created == ensure_responses_created(st)
             ixs == StartedTools(st)
             tools == [i \in DOMAIN ixs |-> Ended(st.tools[ixs[i]].ix, "function_call",
                                                  st.tools[ixs[i]].args)]
             truncated == st.stop \in {"length", "max_tokens"}
         IN  Emit([created.st EXCEPT !.finished = TRUE],
                  created.out \o Ended(st.textIx, "message", st.text)
                  \o Ended(st.reasoningIx, "reasoning", st.reasoning) \o FlattenSeq(tools)
                  \o <<[t |-> IF truncated THEN "incomplete" ELSE "completed",
                        model |-> ModelShown(st), output |-> FinalItems(st),
                        usage |-> st.usage]>>)
=============================================================================
