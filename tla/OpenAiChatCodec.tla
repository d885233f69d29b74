--------------------------- MODULE OpenAiChatCodec ---------------------------
(***************************************************************************)
(* The buffered codec of crates/switchyard-translation/src/codecs/         *)
(* openai_chat/buffered.rs, requests: a body is its sequence of messages.  *)
(***************************************************************************)
EXTENDS LlmMessages

CONSTANT NoId    \* the tool_call_id of a message that answers no call

OpenAiMessage(role, content) ==
    [role |-> role, content |-> content, reasoning |-> <<>>, tool_calls |-> <<>>,
     tool_call_id |-> NoId]

-----------------------------------------------------------------------------
(* Reading a request. *)

PartKind(type) ==
    CASE type \in {"text", "input_text", "output_text"} -> "text"
      [] type \in {"image_url", "input_image"} -> "image"
      [] type \in {"file", "input_file"} -> "file"
      [] type = "refusal" -> "refusal"
      [] OTHER -> "unknown"

decode_openai_content(parts) ==
    NonEmpty(MapSeq(parts, LAMBDA p : Block(PartKind(p.kind), p.text, p.form)))

\* prepend_openai_reasoning_blocks: structured details, or the plain text
prepend_openai_reasoning_blocks(content, reasoning) ==
    IF JoinText(reasoning) = <<>> THEN content
    ELSE <<Reasoning(JoinText(reasoning), Head(reasoning).form)>> \o content

is_empty_text_only(content) == content = <<Text(<<>>)>>

\* parse_arguments: JSON text becomes its value, text that is no JSON is wrapped
parse_arguments(depth) == IF depth = 0 THEN 0 ELSE depth - 1
decode_openai_tool_call(call) == ToolCall(call.id, parse_arguments(call.arguments))

AssistantContent(m) ==
    LET content == prepend_openai_reasoning_blocks(decode_openai_content(m.content), m.reasoning)
        kept == IF m.tool_calls # <<>> /\ is_empty_text_only(content) THEN <<>> ELSE content
    IN  kept \o MapSeq(m.tool_calls, decode_openai_tool_call)

\* role_from_openai: known roles without a mapping of their own read as the user's
role_from_openai(role) ==
    IF role \in {"system", "developer", "assistant", "tool"} THEN role ELSE "user"

DecodeOpenAiMessage(m) ==
    LET role == role_from_openai(m.role)
        content == prepend_openai_reasoning_blocks(decode_openai_content(m.content), m.reasoning)
    IN  CASE role = "tool" ->
               Message("user", <<ToolResult(m.tool_call_id, <<Text(JoinText(OfKind(content, {"text"})))>>)>>)
          [] role = "assistant" -> Message(role, AssistantContent(m))
          [] OTHER -> Message(role, content)

IsInstruction(m) == m.role \in {"system", "developer"}
decode_openai_request(body) ==
    LET messages == MapSeq(body, DecodeOpenAiMessage)
    IN  Request("openai_chat", Those(messages, IsInstruction),
                Those(messages, LAMBDA m : ~IsInstruction(m)), body)

-----------------------------------------------------------------------------
(* Writing a request. *)

AsText(b) == Text(b.text)

\* openai_image_part, openai_raw_image_part: a provider-managed file is no image part
HasImagePart(b) == b.form \in {"url", "base64", "raw_url", "raw_base64"}
\* openai_file_part, openai_raw_file_part: of raw documents only those that carry the data
HasFilePart(b) == b.form \in {"file_id", "file_data", "raw_base64"}

openai_part(b) ==
    CASE b.kind \in {"text", "refusal"} -> Encoded(<<AsText(b)>>, FALSE)
      [] b.kind = "image" /\ HasImagePart(b) -> Encoded(<<Block("image_url", b.text, "url")>>, FALSE)
      [] b.kind = "file" /\ HasFilePart(b) ->
           Encoded(<<Block("file", b.text, IF b.form = "file_id" THEN "file_id" ELSE "file_data")>>, FALSE)
      [] OTHER -> IF b.kind \in MediaKinds \cup {"unknown"} THEN Encoded(<<AsText(b)>>, TRUE)
                  ELSE Encoded(<<>>, FALSE)

OneText(content) ==
    IF text_from_blocks(content) = <<>> THEN <<>> ELSE <<Text(text_from_blocks(content))>>

encode_openai_content(content, role) ==
    IF ~HasKind(content, MediaKinds \cup {"unknown"})
    THEN Encoded(OneText(content), FALSE)
    ELSE IF role # "user" THEN Encoded(OneText(content), TRUE)
    ELSE EncodeAll(content, openai_part)

\* encode_openai_message_reasoning: structured details if any block has them, else
\* the text of the blocks without a signature
encode_openai_message_reasoning(content) ==
    LET detailed == Those(content, LAMBDA b : b.kind = "reasoning" /\ b.form = "details")
    IN  IF detailed # <<>> THEN detailed
        ELSE Those(content, LAMBDA b : b.kind = "reasoning" /\ b.form = "plain")

encode_openai_call(b) == [id |-> b.id, arguments |-> json_string(b.arguments)]

encode_message_without_tool_results_to_openai(m) ==
    LET visible == encode_openai_content(WithoutKind(m.content, {"tool_call", "reasoning"}), m.role)
        role == IF m.role \in {"assistant", "tool"} THEN m.role ELSE "user"
    IN  Encoded(<<[OpenAiMessage(role, visible.value) EXCEPT
                    !.reasoning = encode_openai_message_reasoning(m.content),
                    !.tool_calls = MapSeq(OfKind(m.content, {"tool_call"}), encode_openai_call)]>>,
                visible.lossy)

\* A tool message holds text only: what else the result holds moves to a user
\* message behind it, with the rest of the message (push_pending_openai_message)
NonTextOf(result) == WithoutKind(result.content, {"text", "refusal"})
ToolMessage(result) ==
    [OpenAiMessage("tool", OneText(result.content)) EXCEPT !.tool_call_id = result.id]
encode_message_with_tool_results_InPlace(m) ==
    EncodeAll(m.content, LAMBDA b : IF b.kind = "tool_result"
                                    THEN Encoded(<<ToolMessage(b)>>, FALSE)
                                    ELSE encode_message_without_tool_results_to_openai(Message(m.role, <<b>>)))

encode_message_with_tool_results_to_openai(m) ==
    LET results == OfKind(m.content, {"tool_result"})
        pending == FlatMap(m.content,
                       LAMBDA b : IF b.kind = "tool_result" THEN NonTextOf(b) ELSE <<b>>)
        rest == IF pending = <<>> THEN Encoded(<<>>, FALSE)
                ELSE encode_message_without_tool_results_to_openai(Message(m.role, pending))
    IN  Encoded(MapSeq(results, ToolMessage) \o rest.value,
                rest.lossy \/ \E i \in DOMAIN results : NonTextOf(results[i]) # <<>>)

encode_message_to_openai(m) ==
    IF HasKind(m.content, {"tool_result"})
    THEN encode_message_with_tool_results_to_openai(m)
    ELSE encode_message_without_tool_results_to_openai(m)

InstructionMessage(instruction) ==
    OpenAiMessage(IF instruction.role = "developer" THEN "developer" ELSE "system",
                  OneText(instruction.content))

encode_openai_request(request) ==
    LET messages == EncodeAll(request.messages, encode_message_to_openai)
    IN  Encoded(MapSeq(request.instructions, InstructionMessage) \o messages.value, messages.lossy)
=============================================================================
