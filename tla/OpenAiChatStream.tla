-------------------------- MODULE OpenAiChatStream --------------------------
(***************************************************************************)
(* codecs/openai_chat/stream.rs: OpenAI Chat chunks to the neutral IR and  *)
(* back.  A wire chunk is a record with one field per delta key; it has    *)
(* one choice.                                                             *)
(***************************************************************************)
EXTENDS StreamChunks

OpenAi(model) ==
    [t |-> "chunk", model |-> model, text |-> <<>>, reasoning |-> <<>>,
     details |-> <<>>, tools |-> <<>>,
     finish |-> None, usage |-> NoUsage]

openai_finish_reason(reason) ==
    CASE reason \in {"end_turn", "stop_sequence", None} -> "stop"
      [] reason = "max_tokens" -> "length"
      [] reason = "tool_use" -> "tool_calls"
      [] OTHER -> reason

If(cond, seq) == IF cond THEN seq ELSE <<>>

\* One chunk decodes to its parts in the order the code looks at them.
decode_openai_chat_stream(st, event) ==
    CASE event.t = "malformed" -> Emit(st, <<DecodeError>>)
      [] event.t = "error" -> Emit(st, <<StreamError>>)
      [] event.t = "chunk" ->
            LET usage == event.usage # NoUsage
                after == [st EXCEPT
                            !.sawStart = TRUE,
                            !.model = IF st.sawStart THEN @ ELSE Or(event.model, @),
                            !.usage = IF usage THEN event.usage ELSE @,
                            !.sawUsage = @ \/ usage]
            IN  Emit(after,
                     If(~st.sawStart, <<MessageStart(after.model)>>)
                  \o If(usage, <<Usage(event.usage)>>)
                  \o If(event.text # <<>>, <<TextDelta(event.text)>>)
                  \o (IF event.details # <<>>
                      THEN <<ReasoningDetailsDelta(event.details, event.reasoning)>>
                      ELSE If(event.reasoning # <<>>, <<ReasoningDelta(event.reasoning)>>))
                  \o [i \in DOMAIN event.tools |->
                        LET tool == event.tools[i]
                        IN  ToolCallDelta(tool.ix, tool.id, tool.name, tool.args)]
                  \o If(event.finish # None, <<MessageStop(event.finish)>>))

openai_stream_chunk(st) == OpenAi(ModelShown(st))

Terminal(st, reason) ==
    [openai_stream_chunk(st) EXCEPT
        !.finish = openai_finish_reason(reason),
        !.usage = IF st.sawUsage THEN st.usage ELSE NoUsage]

\* A caller's encoder does not know the source format (encode_stream leaves
\* state.source unset), so the role chunk of state_source_is is never emitted.
encode_openai_chat_stream(st, chunk) ==
    LET shown == openai_stream_chunk(st) IN
    IF st.errored THEN Nothing(st) ELSE
    CASE chunk.c = "start" ->
            Nothing([record_source_identity(st, chunk) EXCEPT !.sawStart = TRUE])
      [] chunk.c = "text" ->
            Emit(st, <<[shown EXCEPT !.text = chunk.text]>>)
      [] chunk.c = "reasoning" ->
            Emit(st, <<[shown EXCEPT !.reasoning = chunk.text]>>)
      [] chunk.c = "details" ->
            Emit(st, <<[shown EXCEPT !.details = chunk.details, !.reasoning = chunk.text]>>)
      [] chunk.c = "tool" ->
            Emit(st, <<[shown EXCEPT !.tools =
                <<[ix |-> chunk.ix, id |-> chunk.id, name |-> chunk.name,
                   args |-> chunk.args]>>]>>)
      [] chunk.c = "usage" ->
            LET after == [st EXCEPT !.usage = chunk.usage, !.sawUsage = TRUE]
            IN  Emit(after, If(st.finished, <<[shown EXCEPT !.usage = chunk.usage]>>))
      [] chunk.c = "stop" ->
            IF st.finished THEN Nothing(st)
            ELSE Emit([st EXCEPT !.finished = TRUE], <<Terminal(st, chunk.reason)>>)
      [] IsError(chunk) ->
            Emit(Errored(st), <<[t |-> "error"]>>)

finish_openai_chat_stream(st) ==
    IF st.finished \/ ~st.sawStart THEN Nothing(st)
    ELSE Emit([st EXCEPT !.finished = TRUE], <<Terminal(st, st.stop)>>)
=============================================================================
