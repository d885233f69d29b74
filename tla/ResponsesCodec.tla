--------------------------- MODULE ResponsesCodec ---------------------------
(***************************************************************************)
(* The buffered codec of crates/switchyard-translation/src/codecs/         *)
(* responses/buffered.rs, requests: a body is its instructions and its     *)
(* input items.  Reasoning, calls and their outputs are items of their     *)
(* own, which reading gathers back into turns.                             *)
(***************************************************************************)
EXTENDS LlmMessages

ResponsesBody(instructions, input) == [instructions |-> instructions, input |-> input]
MessageItem(role, content) == [kind |-> "message", role |-> role, content |-> content]
ReasoningItem(text) == [kind |-> "reasoning", text |-> text]
CallItem(id, arguments) == [kind |-> "function_call", id |-> id, arguments |-> arguments]
OutputItem(id, text) == [kind |-> "function_call_output", id |-> id, text |-> text]

-----------------------------------------------------------------------------
(* Reading the input: decode_responses_input.                              *)

InputKind(type) ==
    CASE type \in {"input_text", "output_text", "text"} -> "text"
      [] type = "refusal" -> "refusal"
      [] type \in {"reasoning_text", "summary_text"} -> "reasoning"
      [] type = "input_image" -> "image"
      [] type = "input_file" -> "file"
      [] OTHER -> "unknown"
decode_responses_content(parts) ==
    NonEmpty(MapSeq(parts, LAMBDA p : Block(InputKind(p.kind), p.text, p.form)))

request_role_from_responses(role) ==
    IF role \in {"assistant", "system", "developer"} THEN role ELSE "user"

\* What has been read, and what waits for the rest of its turn
Turn == [messages |-> <<>>, calls |-> <<>>, outputs |-> <<>>, deferred |-> <<>>, reasoning |-> <<>>]
CallIds(t) == {t.calls[i].id : i \in DOMAIN t.calls}

\* An output whose call is not there degrades to the user's words
OutputMessage(t, output) ==
    Message("user", <<IF output.id \in CallIds(t) THEN output ELSE Text(text_from_blocks(output.content))>>)

flush_responses_tool_block(t) ==
    LET turn == IF t.calls = <<>> THEN <<>>
                ELSE <<Message("assistant", t.reasoning \o t.calls)>>
    IN  [Turn EXCEPT
            !.messages = t.messages \o turn \o MapSeq(t.outputs, LAMBDA o : OutputMessage(t, o))
                                    \o t.deferred,
            !.reasoning = IF t.calls = <<>> THEN t.reasoning ELSE <<>>]

push_responses_non_tool_message_NeverDefers(t, message) ==
    [flush_responses_tool_block(t) EXCEPT !.messages = Append(@, message)]
\* A message between a call and its output waits until the block is complete
push_responses_non_tool_message(t, message) ==
    IF t.calls # <<>> /\ t.outputs = <<>>
    THEN [t EXCEPT !.deferred = Append(@, message)]
    ELSE LET done == IF t.outputs # <<>> THEN flush_responses_tool_block(t) ELSE t
         IN  [done EXCEPT !.messages = Append(@, message)]

flush_unattached_responses_reasoning(t) ==
    IF t.reasoning = <<>> \/ t.calls # <<>> THEN t
    ELSE push_responses_non_tool_message([t EXCEPT !.reasoning = <<>>],
                                         Message("assistant", t.reasoning))

\* The items that open a new turn first flush a block that has its outputs
AfterBlock(t) == IF t.outputs = <<>> THEN t ELSE flush_responses_tool_block(t)

ReadMessage(t, item) ==
    LET role == request_role_from_responses(item.role)
        content == decode_responses_content(item.content)
        joins == role = "assistant" /\ t.calls = <<>>
    IN  IF joins
        THEN push_responses_non_tool_message([t EXCEPT !.reasoning = <<>>],
                                             Message(role, t.reasoning \o content))
        ELSE push_responses_non_tool_message(
                 IF role = "assistant" THEN t ELSE flush_unattached_responses_reasoning(t),
                 Message(role, content))

ReadItem(t, item) ==
    CASE item.kind = "message" -> ReadMessage(t, item)
      [] item.kind = "reasoning" ->
           [AfterBlock(t) EXCEPT !.reasoning = Append(@, Reasoning(item.text, "plain"))]
      [] item.kind = "function_call" ->
           [AfterBlock(t) EXCEPT !.calls = Append(@, ToolCall(item.id, item.arguments))]
      [] item.kind = "function_call_output" ->
           [t EXCEPT !.outputs = Append(@, ToolResult(item.id, <<Text(item.text)>>))]
      [] OTHER -> push_responses_non_tool_message(
                      flush_unattached_responses_reasoning(t),
                      Message("user", <<Block("unknown", item.text, "openai_responses")>>))

\* At the end of the input a block is written even without its outputs
EndOfInput(t) == IF t.calls # <<>> \/ t.outputs # <<>> THEN flush_responses_tool_block(t) ELSE t
MessagesOf(t) ==
    t.messages \o (IF t.reasoning = <<>> THEN <<>> ELSE <<Message("assistant", t.reasoning)>>)
decode_responses_input(items) ==
    LET read[n \in 0..Len(items)] == IF n = 0 THEN Turn ELSE ReadItem(read[n - 1], items[n])
    IN  MessagesOf(EndOfInput(read[Len(items)]))

decode_responses_request(body) ==
    Request("openai_responses",
            IF body.instructions = <<>> THEN <<>>
            ELSE <<Message("system", <<Text(body.instructions)>>)>>,
            decode_responses_input(body.input), body)

-----------------------------------------------------------------------------
(* Writing the input: encode_responses_input.                              *)

IsSpecial(b) == \/ b.kind \in {"tool_call", "tool_result"}
                \/ b.kind = "reasoning" /\ b.form # "signed"
encode_responses_special_input(b) ==
    CASE b.kind = "reasoning" -> ReasoningItem(b.text)
      [] b.kind = "tool_call" -> CallItem(b.id, json_string(b.arguments))
      [] OTHER -> OutputItem(b.id, text_from_blocks(b.content))

InputOf(kind) == CASE kind = "image" -> "input_image" [] kind = "audio" -> "input_audio"
                   [] kind = "video" -> "input_video" [] OTHER -> "input_file"
responses_part(b) ==
    CASE b.kind = "text" -> <<Block("input_text", b.text, "plain")>>
      [] b.kind = "refusal" -> <<b>>
      [] b.kind \in MediaKinds ->
           IF b.kind \in {"audio", "video"} /\ b.form = "raw" THEN <<Block("input_text", b.text, "plain")>>
           ELSE <<Block(InputOf(b.kind), b.text, b.form)>>
      [] b.kind = "unknown" -> <<Block("input_text", b.text, "plain")>>
      [] OTHER -> <<>>
encode_responses_content(content) ==
    IF HasKind(content, MediaKinds \cup {"unknown"})
    THEN Encoded(FlatMap(content, responses_part), HasKind(content, {"unknown"}))
    ELSE Encoded(<<Text(text_from_blocks(content))>>, FALSE)

role_to_responses(role) == IF role = "tool" THEN "user" ELSE role

\* Signed thinking is left out; a message that has a call or a result is written
\* as its special items alone
encode_responses_message(m) ==
    LET content == Those(m.content, LAMBDA b : ~(b.kind = "reasoning" /\ b.form = "signed"))
        special == MapSeq(Those(content, IsSpecial), encode_responses_special_input)
        visible == Those(content, LAMBDA b : ~IsSpecial(b))
        written == encode_responses_content(visible)
    IN  IF content = <<>> THEN Encoded(<<>>, FALSE)
        ELSE IF HasKind(content, {"tool_call", "tool_result"}) \/ (visible = <<>> /\ special # <<>>)
        THEN Encoded(special, FALSE)
        ELSE Encoded(special \o <<MessageItem(role_to_responses(m.role), written.value)>>,
                     written.lossy)

encode_responses_input(messages) ==
    IF Len(messages) = 1 /\ messages[1].role = "user" /\ Len(messages[1].content) = 1
       /\ messages[1].content[1].kind = "text"
    THEN Encoded(<<MessageItem("user", messages[1].content)>>, FALSE)
    ELSE EncodeAll(messages, encode_responses_message)

encode_responses_request(request) ==
    LET input == encode_responses_input(request.messages)
    IN  Encoded(ResponsesBody(SystemText(request.instructions), input.value), input.lossy)
=============================================================================
