------------------------- MODULE ResponseTranslation -------------------------
(***************************************************************************)
(* A buffered reply on its way back: a provider of one wire format answers *)
(* with reasoning, words and calls, a finish reason and token counts; the  *)
(* body is read into AggLlmResponse, masking may restore it (which drops   *)
(* the body kept for exact replay), and it is written in the format of the *)
(* client (decode_response and encode_response of the three codecs).       *)
(***************************************************************************)
EXTENDS LlmMessages

CONSTANTS
    ReplyFormats,    \* wire formats of providers and clients
    MaxCalls,        \* calls of one reply
    TokenCounts      \* token counts a provider reports; Unreported is a count it leaves out

ASSUME ReplyAssumption ==
    /\ ReplyFormats \subseteq {"openai_chat", "anthropic_messages", "openai_responses"}
    /\ MaxCalls \in Nat
    /\ TokenCounts \subseteq Nat

VARIABLES reply,      \* what the model produced: thinks, speaks, calls, stop
          usage,      \* what the provider reports of it
          provider,   \* the provider's format
          agg,        \* the neutral reply, once read
          restored,   \* masking has restored it
          received    \* what the client reads
replyVars == <<reply, usage, provider, agg, restored, received>>

Unreported == -1
Counted == TokenCounts \cup {Unreported}
OrZero(n) == IF n = Unreported THEN 0 ELSE n
Less(a, b) == IF a > b THEN a - b ELSE 0      \* saturating_sub
NotYet == [format |-> "none"]

-----------------------------------------------------------------------------
(* Token usage: input without the cache, cache reads, cache writes, output *)

decode_openai_usage_Aggregate(u) ==
    [input |-> u.input, cached |-> u.cached, created |-> u.created, output |-> u.output]
\* OpenAI's prompt count includes the cache: reads and writes are taken out of it
decode_openai_usage(u) ==
    [input |-> IF u.input = Unreported THEN Unreported
               ELSE Less(Less(u.input, OrZero(u.cached)), OrZero(u.created)),
     cached |-> u.cached, created |-> u.created, output |-> u.output]
decode_anthropic_usage(u) == u
\* Responses report no cache writes
decode_responses_usage(u) ==
    [input |-> IF u.input = Unreported THEN Unreported ELSE Less(u.input, OrZero(u.cached)),
     cached |-> u.cached, created |-> Unreported, output |-> u.output]

Aggregate(u) == OrZero(u.input) + OrZero(u.cached) + OrZero(u.created)
encode_openai_usage(u) ==
    [input |-> Aggregate(u), output |-> OrZero(u.output),
     cached |-> IF u.cached = Unreported /\ u.created = Unreported THEN Unreported ELSE OrZero(u.cached),
     created |-> IF u.cached = Unreported /\ u.created = Unreported THEN Unreported ELSE OrZero(u.created)]
encode_anthropic_usage(u) ==
    [input |-> OrZero(u.input), output |-> OrZero(u.output), cached |-> u.cached, created |-> u.created]
encode_responses_usage(u) ==
    [input |-> Aggregate(u), output |-> OrZero(u.output), cached |-> OrZero(u.cached), created |-> Unreported]

-----------------------------------------------------------------------------
(* Reading a provider's body.  Each is given the model's reply as that     *)
(* provider writes it: its finish reason and how often arguments are JSON  *)
(* text.                                                                   *)

ReplyContent(r, arguments) ==
    (IF r.thinks THEN <<Reasoning(<<"thought">>, "plain")>> ELSE <<>>)
    \o (IF r.speaks THEN <<Text(<<"words">>)>> ELSE <<>>)
    \o [i \in 1..r.calls |-> ToolCall(i, arguments)]

\* the finish reason each provider gives
OpenAiFinish(r) ==
    CASE r.stop = "length" -> "length" [] r.stop = "filter" -> "content_filter"
      [] r.stop = "done" -> IF r.calls > 0 THEN "tool_calls" ELSE "stop"
AnthropicStop(r) ==
    CASE r.stop = "length" -> "max_tokens" [] r.stop = "filter" -> "refusal"
      [] r.stop = "done" -> IF r.calls > 0 THEN "tool_use" ELSE "end_turn"

map_openai_finish_reason(finish) ==
    CASE finish = "length" -> "MaxTokens" [] finish = "tool_calls" -> "ToolUse"
      [] finish = "content_filter" -> "ContentFilter" [] finish = "stop" -> "EndTurn"
map_anthropic_stop_reason(stop) ==
    CASE stop = "max_tokens" -> "MaxTokens" [] stop = "tool_use" -> "ToolUse"
      [] stop = "end_turn" -> "EndTurn" [] OTHER -> "Unknown"

Agg(format, content, stop, u, r) ==
    [content |-> content, stop |-> stop, usage |-> u,
     preserved |-> <<[format |-> format, content |-> ReplyContent(r, IF format = "anthropic_messages" THEN 0 ELSE 1)]>>]

\* A null content reads as an empty text before the calls
decode_openai_response(r, u) ==
    Agg("openai_chat",
        LET c == ReplyContent(r, 0)
        IN  IF r.speaks THEN c
            ELSE OfKind(c, {"reasoning"}) \o <<Text(<<>>)>> \o OfKind(c, {"tool_call"}),
        map_openai_finish_reason(OpenAiFinish(r)), decode_openai_usage(u), r)

decode_anthropic_response(r, u) ==
    Agg("anthropic_messages", NonEmpty(ReplyContent(r, 0)),
        map_anthropic_stop_reason(AnthropicStop(r)), decode_anthropic_usage(u), r)

\* The items are concatenated and the last one that has a stop reason decides
LastItemStop(r) ==
    IF r.calls > 0 THEN "ToolUse" ELSE IF r.speaks THEN "EndTurn" ELSE "none"
ResponsesStop_ItemsOnly(r) == LastItemStop(r)
\* ... unless the response itself says it is truncated, and not merely filtered; without an
\* output item it has an output of its own, which ends the turn.  Arguments stay the string
\* they are.
HasOutput(r) == r.thinks \/ r.speaks \/ r.calls > 0
ResponsesStop(r) ==
    IF ~HasOutput(r) THEN "EndTurn"
    ELSE IF r.stop = "length" THEN "MaxTokens" ELSE LastItemStop(r)
decode_responses_response(r, u) ==
    Agg("openai_responses", NonEmpty(ReplyContent(r, 1)), ResponsesStop(r),
        decode_responses_usage(u), r)

-----------------------------------------------------------------------------
(* Writing the client's body. *)

openai_finish_reason(stop) ==
    CASE stop = "MaxTokens" -> "length" [] stop = "ToolUse" -> "tool_calls"
      [] stop = "ContentFilter" -> "content_filter" [] OTHER -> "stop"
anthropic_stop_reason(stop) ==
    CASE stop = "MaxTokens" -> "max_tokens" [] stop = "ToolUse" -> "tool_use" [] OTHER -> "end_turn"

ReplyAs(format, content, stop, u) ==
    [format |-> format, content |-> content, stop |-> stop, usage |-> u]

encode_openai_response(a) ==
    ReplyAs("openai_chat",
        OfKind(a.content, {"reasoning", "text"})
        \o MapSeq(OfKind(a.content, {"tool_call"}), LAMBDA c : ToolCall(c.id, json_string(c.arguments))),
        openai_finish_reason(a.stop), encode_openai_usage(a.usage))

\* anthropic_tool_input parses a string and takes a value as it is
encode_anthropic_response(a) ==
    ReplyAs("anthropic_messages",
        NonEmpty(MapSeq(a.content, LAMBDA b :
            IF b.kind = "tool_call"
            THEN ToolCall(b.id, IF b.arguments = 0 THEN 0 ELSE b.arguments - 1) ELSE b)),
        anthropic_stop_reason(a.stop), encode_anthropic_usage(a.usage))

\* encode_responses_output: the calls' arguments are written as JSON text, a string
\* among them (json_string_python_style)
json_string_python_style(arguments) == arguments + 1
encode_responses_response(a) ==
    LET part(kind) == LET b == OfKind(a.content, {kind})
                      IN  IF JoinText(b) = <<>> THEN <<>> ELSE <<Block(kind, JoinText(b), "plain")>>
    IN  ReplyAs("openai_responses",
            part("reasoning") \o part("text")
            \o MapSeq(OfKind(a.content, {"tool_call"}),
                      LAMBDA c : ToolCall(c.id, json_string_python_style(c.arguments))),
            IF a.stop = "MaxTokens" THEN "incomplete" ELSE "completed",
            encode_responses_usage(a.usage))

decode_response(format, r, u) ==
    CASE format = "openai_chat" -> decode_openai_response(r, u)
      [] format = "anthropic_messages" -> decode_anthropic_response(r, u)
      [] OTHER -> decode_responses_response(r, u)

\* Of a Responses body "incomplete" is the status with the token limit as its reason, "filtered"
\* the same status with another.
Replayed(format, r) ==
    CASE format = "openai_chat" -> OpenAiFinish(r)
      [] format = "anthropic_messages" -> AnthropicStop(r)
      [] OTHER -> CASE r.stop = "length" -> "incomplete" [] r.stop = "filter" -> "filtered"
                    [] OTHER -> "completed"
encode_response(format, a) ==
    IF a.preserved # <<>> /\ a.preserved[1].format = format
    THEN ReplyAs(format, a.preserved[1].content, Replayed(format, reply), usage)
    ELSE CASE format = "openai_chat" -> encode_openai_response(a)
           [] format = "anthropic_messages" -> encode_anthropic_response(a)
           [] OTHER -> encode_responses_response(a)

restore_agg(a) == [a EXCEPT !.preserved = <<>>]

-----------------------------------------------------------------------------
Replies == [thinks : BOOLEAN, speaks : BOOLEAN, calls : 0..MaxCalls, stop : {"done", "length", "filter"}]

ReplyInit ==
    /\ reply \in Replies
    /\ usage \in [input : TokenCounts, cached : Counted, created : Counted, output : TokenCounts]
    /\ provider = "none" /\ agg = NotYet /\ restored = FALSE /\ received = NotYet

Read(format) == /\ agg = NotYet
                /\ (format = "openai_responses") => usage.created = Unreported
                /\ agg' = decode_response(format, reply, usage) /\ provider' = format
                /\ UNCHANGED <<reply, usage, restored, received>>
Restore == /\ agg # NotYet /\ ~restored /\ received = NotYet
           /\ agg' = restore_agg(agg) /\ restored' = TRUE
           /\ UNCHANGED <<reply, usage, provider, received>>
Write(format) == /\ agg # NotYet /\ received = NotYet
                 /\ received' = encode_response(format, agg)
                 /\ UNCHANGED <<reply, usage, provider, agg, restored>>

ReplyNext ==
    \/ \E format \in ReplyFormats : Read(format)
    \/ Restore
    \/ \E format \in ReplyFormats : Write(format)
ReplySpec == ReplyInit /\ [][ReplyNext]_replyVars

-----------------------------------------------------------------------------
Calls(content) == OfKind(content, {"tool_call"})

\* What a client reads that says the reply was cut at the token limit
CutAtLimit == {"length", "max_tokens", "incomplete"}

\* decode_response of a Responses body without an output item puts an end of turn in the place
\* of what the response says, and only an exact replay of the body still tells it.
EndIsLost == /\ provider = "openai_responses" /\ ~HasOutput(reply)
             /\ restored \/ received.format # provider

(***************************************************************************)
(* The client is told that a reply was cut at the token limit exactly when *)
(* the provider said so, but for the one reading that loses it, and that   *)
(* the model wants its tools run exactly when it called some and the reply *)
(* was neither cut nor, where the provider's format puts that in the place *)
(* of the call, filtered: across every pair of formats, with the body      *)
(* replayed or written anew.  A Responses client reads the calls           *)
(* themselves.                                                             *)
(***************************************************************************)
StopSurvives ==
    received # NotYet =>
        LET cut == reply.stop = "length" /\ ~EndIsLost
            wants == /\ reply.calls > 0
                     /\ \/ reply.stop = "done"
                        \/ (reply.stop = "filter" /\ provider = "openai_responses")
        IN  /\ received.stop \in CutAtLimit <=> cut
            /\ IF received.format = "openai_responses"
               THEN Len(Calls(received.content)) = reply.calls
               ELSE received.stop \in {"tool_calls", "tool_use"} <=> wants

(***************************************************************************)
(* codecs/responses/buffered.rs:205 says where it reads a Responses body:  *)
(* "The truncation signal is on the response, not the output items."  So a *)
(* client is told of a cut whatever the items are, none among them.        *)
(***************************************************************************)
CutIsTold ==
    received # NotYet => (received.stop \in CutAtLimit <=> reply.stop = "length")

(***************************************************************************)
(* The tokens a client reads are those the provider counted: what one      *)
(* format folds into its input count and another reports beside it is      *)
(* neither dropped nor counted twice, for every provider whose cache       *)
(* counts lie within the input count that is to include them.              *)
(***************************************************************************)
UsageConserved ==
    received # NotYet =>
        LET inside(format) == format # "anthropic_messages"
            cache(u) == OrZero(u.cached) + OrZero(u.created)
            total(format, u) == OrZero(u.input) + OrZero(u.output)
                                + (IF inside(format) THEN 0 ELSE cache(u))
        IN  (inside(provider) => cache(usage) <= usage.input) =>
                total(received.format, received.usage) = total(provider, usage)
=============================================================================
