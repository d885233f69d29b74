--------------------------- MODULE AnthropicStream ---------------------------
(***************************************************************************)
(* codecs/anthropic/stream.rs: Anthropic Messages events to the neutral IR *)
(* and back.                                                               *)
(***************************************************************************)
EXTENDS StreamChunks

\* Wire events.  kind is the kind of the block: text, thinking or tool_use.
BlockStart(ix, kind, id, name) ==
    [t |-> "content_block_start", ix |-> ix, kind |-> kind, id |-> id,
     name |-> name, delta |-> <<>>]
BlockDelta(ix, kind, delta) ==
    [t |-> "content_block_delta", ix |-> ix, kind |-> kind, delta |-> delta]
BlockStop(ix) == [t |-> "content_block_stop", ix |-> ix]
MessageDelta(stop, usage) == [t |-> "message_delta", stop |-> stop, usage |-> usage]

\* A delta that carries a new count replaces it, one that has none keeps it.
capture_anthropic_usage(st, usage) ==
    [st EXCEPT !.usage = [in |-> IF usage.in = 0 THEN @.in ELSE usage.in,
                          out |-> IF usage.out = 0 THEN @.out ELSE usage.out]]

decode_content(event) ==
    CASE event.kind = "text" ->
            IF event.t = "content_block_start" /\ event.delta = <<>> THEN <<>>
            ELSE <<TextDelta(event.delta)>>
      [] event.kind = "thinking" ->
            IF event.t = "content_block_start" /\ event.delta = <<>> THEN <<>>
            ELSE <<ReasoningDelta(event.delta)>>
      [] event.kind = "tool_use" ->
            IF event.t = "content_block_start"
            THEN <<ToolCallDelta(event.ix, event.id, event.name, event.delta)>>
            ELSE <<ToolCallDelta(event.ix, None, None, event.delta)>>
      [] OTHER -> <<>>

\* message_stop carries no reason: the one remembered from message_delta is
\* repeated.
decode_anthropic_stream(st, event) ==
    CASE event.t = "malformed" -> Emit(st, <<DecodeError>>)
      [] event.t = "message_start" ->
            LET after == capture_anthropic_usage(
                            [st EXCEPT !.sawStart = TRUE, !.model = Or(event.model, @)],
                            event.usage)
            IN  Emit(after, <<MessageStart(after.model)>>)
      [] event.t \in {"content_block_start", "content_block_delta"} ->
            Emit(st, decode_content(event))
      [] event.t = "message_delta" ->
            LET used == capture_anthropic_usage(st, event.usage)
                usage == IF event.usage = NoUsage THEN <<>> ELSE <<Usage(used.usage)>>
            IN  IF event.stop = None THEN Emit(used, usage)
                ELSE Emit([used EXCEPT !.stop = event.stop],
                          usage \o <<MessageStop(event.stop)>>)
      [] event.t = "message_stop" -> Emit(st, <<MessageStop(st.stop)>>)
      [] event.t = "error" -> Emit(st, <<StreamError>>)
      [] OTHER -> Nothing(st)

-----------------------------------------------------------------------------
anthropic_stop_reason_Verbatim(reason) == Or(reason, "end_turn")

anthropic_stop_reason(reason) ==
    CASE reason = "length" -> "max_tokens"
      [] reason \in {"tool_calls", "function_call"} -> "tool_use"
      [] reason \in {"max_tokens", "tool_use", "stop_sequence"} -> reason
      [] OTHER -> "end_turn"

close_text_block_StaysOpen(st) ==
    Emit(st, IF st.textIx = Closed THEN <<>> ELSE <<BlockStop(st.textIx)>>)

close_text_block(st) ==
    IF st.textIx = Closed THEN Nothing(st)
    ELSE Emit([st EXCEPT !.textIx = Closed], <<BlockStop(st.textIx)>>)

close_anthropic_reasoning_block(st) ==
    IF st.reasoningIx = Closed THEN Nothing(st)
    ELSE Emit([st EXCEPT !.reasoningIx = Closed],
              <<BlockDelta(st.reasoningIx, "signature", <<>>), BlockStop(st.reasoningIx)>>)

Opened(st) == [st EXCEPT !.nextIx = @ + 1, !.emittedBlock = TRUE]

ensure_anthropic_text_block(st) ==
    AndThen(close_anthropic_reasoning_block(st), LAMBDA s :
        IF s.textIx # Closed THEN Nothing(s)
        ELSE Emit([Opened(s) EXCEPT !.textIx = s.nextIx],
                  <<BlockStart(s.nextIx, "text", None, None)>>))

ensure_anthropic_reasoning_block(st) ==
    AndThen(close_text_block(st), LAMBDA s :
        IF s.reasoningIx # Closed THEN Nothing(s)
        ELSE Emit([Opened(s) EXCEPT !.reasoningIx = s.nextIx],
                  <<BlockStart(s.nextIx, "thinking", None, None)>>))

encode_text(st, text) ==
    AndThen(ensure_anthropic_text_block([st EXCEPT !.tokensSeen = @ + 1]), LAMBDA s :
        Emit(s, <<BlockDelta(s.textIx, "text", text)>>))

encode_reasoning(st, text) ==
    AndThen(ensure_anthropic_reasoning_block(st), LAMBDA s :
        Emit(s, <<BlockDelta(s.reasoningIx, "thinking", text)>>))

\* Arguments of a tool whose name is not known yet are kept pending.
start_tool(st, chunk) ==
    LET tool == ToolAfter(st, chunk) IN
    IF tool.started \/ tool.name = None THEN Nothing(WithTool(st, chunk.ix, tool))
    ELSE Emit(WithTool(Opened(st), chunk.ix,
                       [tool EXCEPT !.started = TRUE, !.ix = st.nextIx]),
              <<BlockStart(st.nextIx, "tool_use", tool.id, tool.name)>>)

flush_tool_KeepsPending(st, ix) ==
    LET tool == st.tools[ix] IN
    Emit(st, IF ~tool.started \/ tool.pending = <<>> THEN <<>>
             ELSE <<BlockDelta(tool.ix, "tool_use", tool.pending)>>)

flush_tool(st, ix) ==
    LET tool == st.tools[ix] IN
    IF ~tool.started \/ tool.pending = <<>> THEN Nothing(st)
    ELSE Emit(WithTool(st, ix, [tool EXCEPT !.pending = <<>>]),
              <<BlockDelta(tool.ix, "tool_use", tool.pending)>>)

encode_anthropic_tool_delta(st, chunk) ==
    AndThen(AndThen(AndThen(close_anthropic_reasoning_block(st), close_text_block),
                    LAMBDA s : start_tool(s, chunk)),
            LAMBDA s : flush_tool(s, chunk.ix))

encode_anthropic_stream(st, chunk) ==
    IF st.errored THEN Nothing(st) ELSE
    CASE chunk.c = "start" ->
            LET known == record_source_identity(st, chunk)
            IN  IF st.emittedStart THEN Nothing(known)
                ELSE Emit([known EXCEPT !.emittedStart = TRUE],
                          <<[t |-> "message_start", model |-> ModelShown(known),
                             usage |-> NoUsage]>>)
      [] chunk.c = "text" -> encode_text(st, chunk.text)
      [] chunk.c = "reasoning" -> encode_reasoning(st, chunk.text)
      [] chunk.c = "details" ->
            IF chunk.text = <<>> THEN Nothing(st) ELSE encode_reasoning(st, chunk.text)
      [] chunk.c = "tool" -> encode_anthropic_tool_delta(st, chunk)
      [] chunk.c = "usage" ->
            Nothing([st EXCEPT !.usage = chunk.usage, !.sawUsage = TRUE])
      [] chunk.c = "stop" -> Nothing([st EXCEPT !.stop = Or(chunk.reason, @)])
      [] IsError(chunk) -> Emit(Errored(st), <<[t |-> "error"]>>)

-----------------------------------------------------------------------------
anthropic_stream_usage(st) ==
    IF st.sawUsage THEN st.usage ELSE [in |-> 0, out |-> st.tokensSeen]

close_tools(st) ==
    LET open == StartedTools(st)
    IN  Emit([st EXCEPT !.tools = [ix \in DOMAIN @ |-> [@[ix] EXCEPT !.started = FALSE]]],
             [i \in DOMAIN open |-> BlockStop(st.tools[open[i]].ix)])

\* A message without content gets one empty text block.
empty_block(st) ==
    Emit(st, IF st.emittedBlock THEN <<>>
             ELSE <<BlockStart(0, "text", None, None), BlockStop(0)>>)

end_message(st) ==
    Emit([st EXCEPT !.emittedDelta = TRUE, !.finished = TRUE],
         (IF st.emittedDelta THEN <<>>
          ELSE <<MessageDelta(anthropic_stop_reason(st.stop), anthropic_stream_usage(st))>>)
         \o <<[t |-> "message_stop"]>>)

finish_anthropic_stream(st) ==
    IF st.finished THEN Nothing(st)
    ELSE LET started == encode_anthropic_stream(st, MessageStart(st.model))
             text == AndThen(started, close_text_block)
             reasoning == AndThen(text, close_anthropic_reasoning_block)
             tools == AndThen(reasoning, close_tools)
         IN  AndThen(AndThen(tools, empty_block), end_message)

\* The encoder sees what a replayed event says, and what ends the message:
\* message_stop, after the message_delta with the reason.
observe_anthropic(st, raw, encoded) ==
    [encoded EXCEPT
        !.emittedDelta = @ \/ (raw.t = "message_delta" /\ raw.stop # None),
        !.finished = @ \/ raw.t = "message_stop"]
=============================================================================
