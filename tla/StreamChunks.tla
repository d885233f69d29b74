---------------------------- MODULE StreamChunks ----------------------------
(***************************************************************************)
(* The neutral streaming IR (crates/protocol/src/stream.rs): response      *)
(* chunks, the accumulator that folds them into one buffered response,     *)
(* and the synthetic stream of a buffered response.                        *)
(*                                                                         *)
(* A text is the sequence of the fragments it was sent in.  An absent      *)
(* option is "none"; absent tool arguments are the empty text, which no    *)
(* reader of the code tells apart from them.                               *)
(***************************************************************************)
EXTENDS Integers, Sequences, SequencesExt

None == "none"
NoUsage == [in |-> 0, out |-> 0]

MessageStart(model) == [c |-> "start", model |-> model]
TextDelta(text) == [c |-> "text", text |-> text]
ReasoningDelta(text) == [c |-> "reasoning", text |-> text]
ReasoningDetailsDelta(details, text) ==
    [c |-> "details", details |-> details, text |-> text]
ToolCallDelta(ix, id, name, args) ==
    [c |-> "tool", ix |-> ix, id |-> id, name |-> name, args |-> args]
Usage(usage) == [c |-> "usage", usage |-> usage]
MessageStop(reason) == [c |-> "stop", reason |-> reason]
DecodeError == [c |-> "decode_error"]
StreamError == [c |-> "stream_error"]

IsError(chunk) == chunk.c \in {"decode_error", "stream_error"}

Or(option, default) == IF option = None THEN default ELSE option

-----------------------------------------------------------------------------
(* ResponseAccumulator *)

NoCall == [id |-> None, name |-> None, args |-> <<>>]

WithCall_Replaces(calls, chunk) ==
    [ix \in DOMAIN calls \cup {chunk.ix} |->
        IF ix = chunk.ix THEN [id |-> chunk.id, name |-> chunk.name, args |-> chunk.args]
        ELSE calls[ix]]

\* BTreeMap::entry(ix).or_default() followed by the three writes of a delta.
WithCall(calls, chunk) ==
    LET old == IF chunk.ix \in DOMAIN calls THEN calls[chunk.ix] ELSE NoCall
        new == [id |-> Or(chunk.id, old.id),
                name |-> Or(chunk.name, old.name),
                args |-> old.args \o chunk.args]
    IN  [ix \in DOMAIN calls \cup {chunk.ix} |->
            IF ix = chunk.ix THEN new ELSE calls[ix]]

NewAccumulator ==
    [model |-> None, text |-> <<>>, reasoning |-> <<>>, details |-> <<>>,
     calls |-> <<>>, usage |-> NoUsage, stop |-> None]

stop_reason_from_str(reason) ==
    CASE reason \in {"length", "max_tokens"} -> "max_tokens"
      [] reason \in {"tool_calls", "function_call", "tool_use"} -> "tool_use"
      [] reason = "content_filter" -> "content_filter"
      [] reason \in {"stop", "end_turn", "stop_sequence", None} -> "end_turn"
      [] OTHER -> "unknown"

Push(acc, chunk) ==
    CASE chunk.c = "start" -> [acc EXCEPT !.model = Or(chunk.model, @)]
      [] chunk.c = "text" -> [acc EXCEPT !.text = @ \o chunk.text]
      [] chunk.c = "reasoning" -> [acc EXCEPT !.reasoning = @ \o chunk.text]
      [] chunk.c = "details" ->
            [acc EXCEPT !.details = @ \o chunk.details,
                        !.reasoning = @ \o chunk.text]
      [] chunk.c = "tool" -> [acc EXCEPT !.calls = WithCall(@, chunk)]
      [] chunk.c = "usage" -> [acc EXCEPT !.usage = chunk.usage]
      [] chunk.c = "stop" -> [acc EXCEPT !.stop = stop_reason_from_str(chunk.reason)]
      [] IsError(chunk) -> acc

Accumulate(chunks) == FoldLeft(Push, NewAccumulator, chunks)

\* LlmResponse::into_agg: an in-band error aborts, whatever came before it.
into_agg(chunks) ==
    IF \E i \in DOMAIN chunks : IsError(chunks[i]) THEN "error" ELSE "agg"

-----------------------------------------------------------------------------
(* StreamTranslationState: what a codec remembers of one stream.  The      *)
(* decoder and the encoder of a stream each have one of their own.         *)

Closed == -1

NoTool ==
    [id |-> None, name |-> None, args |-> <<>>, pending |-> <<>>,
     started |-> FALSE, ix |-> Closed]

NewState ==
    [model |-> None, targetModel |-> None, stop |-> None,
     usage |-> NoUsage, sawUsage |-> FALSE, tokensSeen |-> 0,
     sawStart |-> FALSE, emittedStart |-> FALSE, emittedDelta |-> FALSE,
     finished |-> FALSE, errored |-> FALSE,
     nextIx |-> 0, textIx |-> Closed, reasoningIx |-> Closed,
     emittedBlock |-> FALSE, tools |-> <<>>,
     text |-> <<>>, reasoning |-> <<>>]

\* The result of a codec step: the state after it and what it emits.
Emit(st, out) == [st |-> st, out |-> out]
Nothing(st) == Emit(st, <<>>)

\* Step, then Step2 on the state it leaves, with the outputs in order.
Followed(r, next) == Emit(next.st, r.out \o next.out)
AndThen(r, Step2(_)) == Followed(r, Step2(r.st))

ModelShown(st) == Or(Or(st.targetModel, st.model), "unknown")

record_source_identity(st, chunk) == [st EXCEPT !.model = Or(chunk.model, @)]

\* An in-band error is terminal: finish() adds nothing, and no later chunk is
\* encoded.
Errored(st) == [st EXCEPT !.finished = TRUE, !.errored = TRUE]

\* tool_states.entry(ix).or_default() with the three writes of a tool delta.
ToolAfter(st, chunk) ==
    LET old == IF chunk.ix \in DOMAIN st.tools THEN st.tools[chunk.ix] ELSE NoTool
    IN  [old EXCEPT !.id = Or(chunk.id, @), !.name = Or(chunk.name, @),
                    !.args = @ \o chunk.args, !.pending = @ \o chunk.args]

WithTool(st, ix, tool) ==
    [st EXCEPT !.tools = [i \in DOMAIN @ \cup {ix} |->
                            IF i = ix THEN tool ELSE @[i]]]

\* The members of a set in the ascending order of their keys: the k-th has k - 1 below it.
InOrder(S, Key(_)) ==
    [k \in 1..Cardinality(S) |->
        CHOOSE x \in S : Cardinality({y \in S : Key(y) < Key(x)}) = k - 1]

\* The started tools, in the ascending order of their delta indices.
StartedTools(st) == InOrder({ix \in DOMAIN st.tools : st.tools[ix].started}, LAMBDA ix : ix)
=============================================================================
