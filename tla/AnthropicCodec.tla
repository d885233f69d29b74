--------------------------- MODULE AnthropicCodec ---------------------------
(***************************************************************************)
(* The buffered codec of crates/switchyard-translation/src/codecs/         *)
(* anthropic/buffered.rs, requests: a body is its system text and its      *)
(* messages.                                                               *)
(***************************************************************************)
EXTENDS LlmMessages

AnthropicBody(system, messages) == [system |-> system, messages |-> messages]

-----------------------------------------------------------------------------
(* Reading a request. *)

\* decode_tool_result_content
ResultPartKind(type) ==
    CASE type = "text" -> "text" [] type = "image" -> "image"
      [] type = "document" -> "file" [] OTHER -> "unknown"
decode_tool_result_content(blocks) ==
    MapSeq(blocks, LAMBDA b : Block(ResultPartKind(b.kind), b.text, b.form))

ContentKind(type) ==
    CASE type = "thinking" -> "reasoning"
      [] type \in {"image", "input_image", "image_url"} -> "image"
      [] type \in {"document", "input_file", "file"} -> "file"
      [] type = "text" -> "text"
      [] OTHER -> "unknown"

decode_anthropic_content_block(b) ==
    CASE b.kind = "tool_use" -> ToolCall(b.id, b.arguments)
      [] b.kind = "tool_result" -> ToolResult(b.id, decode_tool_result_content(b.content))
      [] OTHER -> Block(ContentKind(b.kind), b.text, b.form)

DecodeAnthropicMessage(m) ==
    Message(IF m.role = "assistant" THEN "assistant" ELSE "user",
            NonEmpty(MapSeq(m.content, decode_anthropic_content_block)))

decode_anthropic_request(body) ==
    Request("anthropic_messages",
            IF body.system = <<>> THEN <<>> ELSE <<Message("system", <<Text(body.system)>>)>>,
            MapSeq(body.messages, DecodeAnthropicMessage), body)

-----------------------------------------------------------------------------
(* Writing a request. *)

\* encode_one_anthropic_tool_result_block: only what a tool result may hold
encode_one_anthropic_tool_result_block(b) ==
    CASE b.kind \in {"text", "refusal"} -> <<Text(b.text)>>
      [] b.kind = "image" -> <<Block("image", b.text, b.form)>>
      [] b.kind = "file" -> <<Block("document", b.text, b.form)>>
      [] b.kind = "unknown" ->
           <<IF b.form = "anthropic_messages" THEN Block("other", b.text, b.form) ELSE Text(b.text)>>
      [] OTHER -> <<>>

AnthropicResult(result) ==
    [kind |-> "tool_result", id |-> sanitize_anthropic_tool_use_id(result.id),
     content |-> IF HasKind(result.content, MediaKinds \cup {"unknown"})
                 THEN FlatMap(result.content, encode_one_anthropic_tool_result_block)
                 ELSE <<Text(text_from_blocks(result.content))>>]

\* anthropic_tool_input: an object; JSON text is parsed, anything else is wrapped
anthropic_tool_input(depth) == IF depth = 0 THEN 0 ELSE depth - 1
AnthropicCall(call) ==
    [kind |-> "tool_use", id |-> sanitize_anthropic_tool_use_id(call.id),
     arguments |-> anthropic_tool_input(call.arguments)]

\* Reasoning without a signature is not replayed: it cannot be forged as thinking
encode_one_anthropic_block(b) ==
    CASE b.kind \in {"text", "refusal"} -> <<Text(b.text)>>
      [] b.kind = "reasoning" /\ b.form = "signed" -> <<Block("thinking", b.text, "signed")>>
      [] b.kind = "tool_call" -> <<AnthropicCall(b)>>
      [] b.kind = "tool_result" -> <<AnthropicResult(b)>>
      [] b.kind \in {"image", "audio", "video"} -> <<Block(b.kind, b.text, b.form)>>
      [] b.kind = "file" -> <<Block("document", b.text, b.form)>>
      [] OTHER -> <<>>

encode_anthropic_content_with_policy(content) ==
    LET blocks == FlatMap(content, LAMBDA b : IF b.kind = "unknown" THEN <<Text(b.text)>>
                                              ELSE encode_one_anthropic_block(b))
    IN  Encoded(NonEmpty(blocks), HasKind(content, {"unknown"}))

message_is_tool_result_only(m) ==
    /\ m.role \in {"tool", "user"}
    /\ m.content # <<>>
    /\ \A i \in DOMAIN m.content : m.content[i].kind = "tool_result"

EncodedRole(m) == IF m.role = "assistant" THEN "assistant" ELSE "user"

(***************************************************************************)
(* encode_anthropic_messages: a run of messages that hold only tool        *)
(* results becomes one user message, as the provider wants the answers to  *)
(* one turn's calls together.                                              *)
(***************************************************************************)
InRun(messages, i) == i > 1 /\ message_is_tool_result_only(messages[i])
                            /\ message_is_tool_result_only(messages[i - 1])
RunContent(messages, i) ==
    LET joins(j) == i <= j /\ \A k \in (i + 1)..j : InRun(messages, k)
    IN  FlattenSeq([j \in DOMAIN messages |->
            IF joins(j) THEN encode_anthropic_content_with_policy(messages[j].content).value ELSE <<>>])
encode_anthropic_messages(messages) ==
    Encoded(FlattenSeq([i \in DOMAIN messages |->
                IF InRun(messages, i) THEN <<>>
                ELSE <<Message(EncodedRole(messages[i]), RunContent(messages, i))>>]),
            \E i \in DOMAIN messages : encode_anthropic_content_with_policy(messages[i].content).lossy)

encode_anthropic_request(request) ==
    LET messages == encode_anthropic_messages(request.messages)
    IN  Encoded(AnthropicBody(SystemText(request.instructions), messages.value), messages.lossy)
=============================================================================
