------------------------ MODULE Translation_proofs ------------------------
(***************************************************************************)
(* What happens to the text of a message, for every conversation: findings *)
(* are merged without replacing a byte twice, kinds keep their slugs, a    *)
(* masked request is sent without secrets and behind its system prompt in  *)
(* whatever format, and a reply keeps its stop reason and its tokens.      *)
(***************************************************************************)
EXTENDS RequestTranslation, ResponseTranslation, PlaceholderKinds, FindingMerge, SumsAndSequences

(***************************************************************************)
(* Conversations over a set of atoms: the type of every block and message  *)
(* is parameterised by the atoms its text is made of, so that the same     *)
(* lemma says what a codec returns and that it brings in nothing new.      *)
(***************************************************************************)

Kinds == {"text", "refusal", "reasoning", "thinking", "image", "audio", "video", "file",
          "unknown", "image_url", "input_image", "input_audio", "input_video", "input_file",
          "input_text", "document", "other"}
Forms == {"plain", "details", "signed", "url", "base64", "file_id", "file_data", "raw",
          "raw_url", "raw_base64", "anthropic_messages", "openai_responses"}
Roles == {"system", "developer", "user", "assistant", "tool"}
Marks == {".", "_", "-"}
Ids == [stem : Int, mark : Marks]

PlainBlocks(A) == [kind : Kinds, text : Seq(A), form : Forms]
CallBlocks == [kind : {"tool_call"}, id : Ids, arguments : Nat]
ResultBlocks(A) == [kind : {"tool_result"}, id : Ids, content : Seq(PlainBlocks(A))]
Blocks(A) == PlainBlocks(A) \cup CallBlocks \cup ResultBlocks(A)
Messages(A) == [role : Roles, content : Seq(Blocks(A))]

\* The parts of a block that is not a call or a result.
LEMMA PlainParts ==
    ASSUME NEW A, NEW b \in PlainBlocks(A)
    PROVE  b.kind \in Kinds /\ b.text \in Seq(A) /\ b.form \in Forms
  BY DEF PlainBlocks

\* A block of a plain kind is a plain block.
LEMMA PlainBlock ==
    ASSUME NEW A, NEW k \in Kinds, NEW t \in Seq(A), NEW f \in Forms
    PROVE  Block(k, t, f) \in PlainBlocks(A)
  BY DEF Block, PlainBlocks

\* Calls and results are not plain kinds.
LEMMA KindsApart == "tool_call" \notin Kinds /\ "tool_result" \notin Kinds /\ "tool_use" \notin Kinds
  BY DEF Kinds

\* A text block is plain, and holds its text.
LEMMA PlainText ==
    ASSUME NEW A, NEW t \in Seq(A)
    PROVE  Text(t) \in PlainBlocks(A) /\ Text(t).kind = "text" /\ Text(t).text = t
<1>1. "text" \in Kinds /\ "plain" \in Forms
  BY DEF Kinds, Forms
<1> QED BY <1>1 DEF Text, Block, PlainBlocks

\* The kind of a block tells which of the three sorts it is.
LEMMA BlockParts ==
    ASSUME NEW A, NEW b \in Blocks(A)
    PROVE  /\ b.kind = "tool_call" => b \in CallBlocks
           /\ b.kind = "tool_result" => b \in ResultBlocks(A)
           /\ b.kind \notin {"tool_call", "tool_result"} => b \in PlainBlocks(A)
           /\ b.kind \in Kinds => b \in PlainBlocks(A)
  BY KindsApart DEF Blocks, PlainBlocks, CallBlocks, ResultBlocks

\* Plain blocks are blocks.
LEMMA PlainsAreBlocks == ASSUME NEW A PROVE PlainBlocks(A) \subseteq Blocks(A)
  BY DEF Blocks

\* A sequence over a set is one over every larger set.
LEMMA SeqIn == ASSUME NEW S, NEW T, S \subseteq T, NEW s \in Seq(S) PROVE s \in Seq(T)
  OBVIOUS

\* Two sequences over a set joined are a sequence over it.
LEMMA ConcatSeq == ASSUME NEW S, NEW s \in Seq(S), NEW t \in Seq(S) PROVE s \o t \in Seq(S)
  OBVIOUS

\* The parts of a message.
LEMMA MessageParts ==
    ASSUME NEW A, NEW m \in Messages(A) PROVE m.role \in Roles /\ m.content \in Seq(Blocks(A))
  BY DEF Messages

\* A role and blocks make a message.
LEMMA MessageOf ==
    ASSUME NEW A, NEW r \in Roles, NEW c \in Seq(Blocks(A)) PROVE Message(r, c) \in Messages(A)
  BY DEF Message, Messages

\* What is chosen of a sequence.
LEMMA OfKindType ==
    ASSUME NEW B, NEW content \in Seq(B), NEW kinds
    PROVE  /\ OfKind(content, kinds) \in Seq({b \in B : b.kind \in kinds})
           /\ WithoutKind(content, kinds) \in Seq({b \in B : b.kind \notin kinds})
<1> DEFINE In == {b \in B : b.kind \in kinds}
           NotIn == {b \in B : b.kind \notin kinds}
           some == [i \in DOMAIN content |-> IF content[i].kind \in kinds THEN <<content[i]>> ELSE <<>>]
           rest == [i \in DOMAIN content |-> IF content[i].kind \notin kinds THEN <<content[i]>> ELSE <<>>]
<1>1. \A i \in DOMAIN content : some[i] \in Seq(In) /\ rest[i] \in Seq(NotIn)
  <2> SUFFICES ASSUME NEW i \in DOMAIN content PROVE some[i] \in Seq(In) /\ rest[i] \in Seq(NotIn)
    OBVIOUS
  <2>1. content[i] \in B
    OBVIOUS
  <2>2. CASE content[i].kind \in kinds
    <3>1. content[i] \in In /\ some[i] = <<content[i]>> /\ rest[i] = <<>>
      BY <2>1, <2>2
    <3> HIDE DEF In, NotIn, some, rest
    <3> QED BY <3>1
  <2>3. CASE content[i].kind \notin kinds
    <3>1. content[i] \in NotIn /\ rest[i] = <<content[i]>> /\ some[i] = <<>>
      BY <2>1, <2>3
    <3> HIDE DEF In, NotIn, some, rest
    <3> QED BY <3>1
  <2> QED BY <2>2, <2>3
<1>2. some = [i \in DOMAIN content |-> some[i]] /\ rest = [i \in DOMAIN content |-> rest[i]]
  OBVIOUS
<1>3. FlattenSeq(some) \in Seq(In) /\ FlattenSeq(rest) \in Seq(NotIn)
  <2> HIDE DEF some, rest, In, NotIn
  <2> QED BY <1>1, <1>2, FlatType
<1>4. OfKind(content, kinds) = FlattenSeq(some) /\ WithoutKind(content, kinds) = FlattenSeq(rest)
  BY DEF OfKind, WithoutKind, Those, FlatMap, MapSeq
<1> QED BY <1>3, <1>4

\* The joined text of blocks is over their atoms.
LEMMA JoinTextType ==
    ASSUME NEW A, NEW content \in Seq(PlainBlocks(A)) PROVE JoinText(content) \in Seq(A)
<1> DEFINE texts == [i \in DOMAIN content |-> content[i].text]
<1>1. \A i \in DOMAIN content : texts[i] \in Seq(A)
  <2> SUFFICES ASSUME NEW i \in DOMAIN content PROVE content[i].text \in Seq(A)
    OBVIOUS
  <2>1. content[i] \in PlainBlocks(A)
    OBVIOUS
  <2> QED BY <2>1, PlainParts
<1>2. JoinText(content) = FlattenSeq(texts) /\ texts = [i \in DOMAIN content |-> texts[i]]
  BY DEF JoinText, FlatMap, MapSeq
<1> HIDE DEF texts
<1> QED BY <1>1, <1>2, FlatType

\* What is chosen by plain kinds is plain.
LEMMA OfPlainKinds ==
    ASSUME NEW A, NEW content \in Seq(Blocks(A)), NEW kinds, kinds \subseteq Kinds
    PROVE  OfKind(content, kinds) \in Seq(PlainBlocks(A))
<1>1. OfKind(content, kinds) \in Seq({b \in Blocks(A) : b.kind \in kinds})
  BY OfKindType
<1>2. {b \in Blocks(A) : b.kind \in kinds} \subseteq PlainBlocks(A)
  BY BlockParts
<1> QED BY <1>1, <1>2, SeqIn

\* text_from_blocks returns text over the atoms of the blocks.
LEMMA TextFromBlocksType ==
    ASSUME NEW A, NEW content \in Seq(Blocks(A)) PROVE text_from_blocks(content) \in Seq(A)
<1>1. {"text", "refusal"} \subseteq Kinds
  BY DEF Kinds
<1>2. OfKind(content, {"text", "refusal"}) \in Seq(PlainBlocks(A))
  BY <1>1, OfPlainKinds
<1> QED BY <1>2, JoinTextType DEF text_from_blocks

\* The content a codec pads so that it is never empty stays of its type.
LEMMA NonEmptyType ==
    ASSUME NEW A, NEW B, PlainBlocks(A) \subseteq B, NEW content \in Seq(B)
    PROVE  NonEmpty(content) \in Seq(B) /\ NonEmpty(content) # <<>>
<1>1. <<>> \in Seq(A)
  OBVIOUS
<1>2. Text(<<>>) \in B
  BY <1>1, PlainText
<1> QED BY <1>2 DEF NonEmpty

\* The system text of instructions is over their atoms.
LEMMA SystemTextType ==
    ASSUME NEW A, NEW instructions \in Seq(Messages(A)) PROVE SystemText(instructions) \in Seq(A)
<1> DEFINE texts == [i \in DOMAIN instructions |-> text_from_blocks(instructions[i].content)]
<1>1. \A i \in DOMAIN instructions : texts[i] \in Seq(A)
  <2> SUFFICES ASSUME NEW i \in DOMAIN instructions PROVE text_from_blocks(instructions[i].content) \in Seq(A)
    OBVIOUS
  <2>1. instructions[i] \in Messages(A)
    OBVIOUS
  <2> QED BY <2>1, MessageParts, TextFromBlocksType
<1>2. SystemText(instructions) = FlattenSeq(texts) /\ texts = [i \in DOMAIN instructions |-> texts[i]]
  BY DEF SystemText, FlatMap, MapSeq
<1> HIDE DEF texts
<1> QED BY <1>1, <1>2, FlatType

\* Elements kept or dropped one by one give a sequence over those kept.
LEMMA ChosenType ==
    ASSUME NEW B, NEW C, NEW s \in Seq(B), NEW t, t = [i \in DOMAIN s |-> t[i]],
           \A i \in DOMAIN s : t[i] = <<>> \/ (t[i] = <<s[i]>> /\ s[i] \in C)
    PROVE  FlattenSeq(t) \in Seq(C)
<1>1. \A i \in DOMAIN s : t[i] \in Seq(C)
  <2> SUFFICES ASSUME NEW i \in DOMAIN s PROVE t[i] \in Seq(C)
    OBVIOUS
  <2>1. CASE t[i] = <<>>
    BY <2>1
  <2>2. CASE t[i] = <<s[i]>> /\ s[i] \in C
    <3>1. \A x \in C : <<x>> \in Seq(C)
      OBVIOUS
    <3> QED BY <2>2, <3>1
  <2> QED BY <2>1, <2>2
<1> QED BY <1>1, FlatType

(***************************************************************************)
(* Chat Completions: decoding and encoding, over the same atoms.           *)
(***************************************************************************)

WireCalls == [id : Ids, arguments : Nat]
OpenAiMessages(A) ==
    [role : Roles, content : Seq(PlainBlocks(A)), reasoning : Seq(PlainBlocks(A)),
     tool_calls : Seq(WireCalls), tool_call_id : Ids \cup {NoId}]
OpenAiAsks(A) == {m \in OpenAiMessages(A) : m.role = "tool" => m.tool_call_id \in Ids}

\* The parts of a Chat Completions message.
LEMMA OpenAiParts ==
    ASSUME NEW A, NEW m \in OpenAiMessages(A)
    PROVE  /\ m.role \in Roles /\ m.content \in Seq(PlainBlocks(A))
           /\ m.reasoning \in Seq(PlainBlocks(A)) /\ m.tool_calls \in Seq(WireCalls)
           /\ m.tool_call_id \in Ids \cup {NoId}
  BY DEF OpenAiMessages

\* decode_openai_content returns plain blocks over the atoms it reads.
LEMMA OpenAiContentType ==
    ASSUME NEW A, NEW parts \in Seq(PlainBlocks(A))
    PROVE  decode_openai_content(parts) \in Seq(PlainBlocks(A))
<1> DEFINE read == [i \in DOMAIN parts |-> Block(PartKind(parts[i].kind), parts[i].text, parts[i].form)]
<1>1. \A i \in DOMAIN parts : read[i] \in PlainBlocks(A)
  <2> SUFFICES ASSUME NEW i \in DOMAIN parts
               PROVE  Block(PartKind(parts[i].kind), parts[i].text, parts[i].form) \in PlainBlocks(A)
    OBVIOUS
  <2>1. parts[i] \in PlainBlocks(A)
    OBVIOUS
  <2>2. PartKind(parts[i].kind) \in Kinds
    BY DEF PartKind, Kinds
  <2> QED BY <2>1, <2>2, PlainParts, PlainBlock
<1>2. decode_openai_content(parts) = NonEmpty(read) /\ read = [i \in DOMAIN parts |-> read[i]]
  BY DEF decode_openai_content, MapSeq
<1> HIDE DEF read
<1>3. read \in Seq(PlainBlocks(A))
  BY <1>1, <1>2, MapType
<1> QED BY <1>2, <1>3, NonEmptyType

\* Reasoning put before the content leaves plain blocks.
LEMMA PrependType ==
    ASSUME NEW A, NEW content \in Seq(PlainBlocks(A)), NEW reasoning \in Seq(PlainBlocks(A))
    PROVE  prepend_openai_reasoning_blocks(content, reasoning) \in Seq(PlainBlocks(A))
<1>1. JoinText(reasoning) \in Seq(A)
  BY JoinTextType
<1>2. CASE JoinText(reasoning) = <<>>
  BY <1>2 DEF prepend_openai_reasoning_blocks
<1>3. CASE JoinText(reasoning) # <<>>
  <2>1. reasoning # <<>>
    <3>1. JoinText(<<>>) = <<>>
      <4>1. MapSeq(<<>>, LAMBDA b : b.text) = <<>>
        BY DEF MapSeq
      <4> QED BY <4>1, FlattenEmpty DEF JoinText, FlatMap
    <3> QED BY <3>1, <1>3
  <2>2. Head(reasoning) \in PlainBlocks(A)
    BY <2>1
  <2>3. Head(reasoning).form \in Forms /\ "reasoning" \in Kinds
    BY <2>2, PlainParts DEF Kinds
  <2>4. Reasoning(JoinText(reasoning), Head(reasoning).form) \in PlainBlocks(A)
    BY <1>1, <2>3, PlainBlock DEF Reasoning
  <2>5. prepend_openai_reasoning_blocks(content, reasoning)
          = <<Reasoning(JoinText(reasoning), Head(reasoning).form)>> \o content
    BY <1>3 DEF prepend_openai_reasoning_blocks
  <2> QED BY <2>4, <2>5
<1> QED BY <1>2, <1>3

\* A wire call decodes to a call block.
LEMMA OpenAiCallType ==
    ASSUME NEW A, NEW c \in WireCalls PROVE decode_openai_tool_call(c) \in Blocks(A)
<1>1. parse_arguments(c.arguments) \in Nat /\ c.id \in Ids
  BY DEF WireCalls, parse_arguments
<1> QED BY <1>1 DEF decode_openai_tool_call, ToolCall, CallBlocks, Blocks

\* What an assistant message holds, over its atoms.
LEMMA AssistantContentType ==
    ASSUME NEW A, NEW m \in OpenAiMessages(A) PROVE AssistantContent(m) \in Seq(Blocks(A))
<1> DEFINE content == prepend_openai_reasoning_blocks(decode_openai_content(m.content), m.reasoning)
           stays == IF m.tool_calls # <<>> /\ is_empty_text_only(content) THEN <<>> ELSE content
           calls == [i \in DOMAIN m.tool_calls |-> decode_openai_tool_call(m.tool_calls[i])]
<1>1. content \in Seq(PlainBlocks(A))
  BY OpenAiParts, OpenAiContentType, PrependType
<1>2. stays \in Seq(Blocks(A))
  <2> HIDE DEF content
  <2>1. stays \in Seq(PlainBlocks(A))
    BY <1>1
  <2> HIDE DEF stays
  <2> QED BY <2>1, PlainsAreBlocks, SeqIn
<1>3. calls \in Seq(Blocks(A))
  <2>1. m.tool_calls \in Seq(WireCalls)
    BY OpenAiParts
  <2>2. \A i \in DOMAIN m.tool_calls : decode_openai_tool_call(m.tool_calls[i]) \in Blocks(A)
    BY <2>1, OpenAiCallType
  <2> QED BY <2>1, <2>2
<1>4. AssistantContent(m) = stays \o calls
  BY DEF AssistantContent, MapSeq
<1> HIDE DEF stays, calls
<1> QED BY <1>2, <1>3, <1>4

\* A Chat Completions message decodes to a message over the same atoms.
LEMMA DecodeOpenAiMessageType ==
    ASSUME NEW A, NEW m \in OpenAiAsks(A) PROVE DecodeOpenAiMessage(m) \in Messages(A)
<1> DEFINE content == prepend_openai_reasoning_blocks(decode_openai_content(m.content), m.reasoning)
           words == JoinText(OfKind(content, {"text"}))
           role == role_from_openai(m.role)
<1>1. content \in Seq(PlainBlocks(A)) /\ m \in OpenAiMessages(A) /\ content \in Seq(Blocks(A))
  <2>1. m \in OpenAiMessages(A)
    BY DEF OpenAiAsks
  <2>2. content \in Seq(PlainBlocks(A))
    BY <2>1, OpenAiParts, OpenAiContentType, PrependType
  <2> HIDE DEF content
  <2> QED BY <2>1, <2>2, PlainsAreBlocks, SeqIn
<1>2. role \in Roles /\ (role = "tool" => m.role = "tool")
  BY DEF role_from_openai, Roles
<1>3. DecodeOpenAiMessage(m) = CASE role = "tool" -> Message("user", <<ToolResult(m.tool_call_id, <<Text(words)>>)>>)
                                 [] role = "assistant" -> Message(role, AssistantContent(m))
                                 [] OTHER -> Message(role, content)
  BY DEF DecodeOpenAiMessage
<1> HIDE DEF content
<1>4. words \in Seq(A)
  <2>1. {"text"} \subseteq Kinds
    BY DEF Kinds
  <2>2. OfKind(content, {"text"}) \in Seq(PlainBlocks(A))
    BY <1>1, <2>1, OfPlainKinds
  <2> QED BY <2>2, JoinTextType
<1> HIDE DEF words
<1>5. CASE role = "tool"
  <2>1. <<Text(words)>> \in Seq(PlainBlocks(A))
    BY <1>4, PlainText
  <2>2. m.tool_call_id \in Ids
    BY <1>2, <1>5 DEF OpenAiAsks
  <2>3. ToolResult(m.tool_call_id, <<Text(words)>>) \in Blocks(A)
    BY <2>1, <2>2 DEF ToolResult, ResultBlocks, Blocks
  <2>4. <<ToolResult(m.tool_call_id, <<Text(words)>>)>> \in Seq(Blocks(A)) /\ "user" \in Roles
    BY <2>3 DEF Roles
  <2> QED BY <1>3, <1>5, <2>4, MessageOf
<1> HIDE DEF role
<1>6. CASE role = "assistant"
  BY <1>1, <1>2, <1>3, <1>6, AssistantContentType, MessageOf
<1>7. CASE role \notin {"tool", "assistant"}
  BY <1>1, <1>2, <1>3, <1>7, MessageOf
<1> QED BY <1>5, <1>6, <1>7

-----------------------------------------------------------------------------
\* Text parts collapsed to one string are plain.
LEMMA OneTextType ==
    ASSUME NEW A, NEW content \in Seq(Blocks(A)) PROVE OneText(content) \in Seq(PlainBlocks(A))
<1> DEFINE t == text_from_blocks(content)
<1>1. t \in Seq(A)
  BY TextFromBlocksType
<1>2. OneText(content) = IF t = <<>> THEN <<>> ELSE <<Text(t)>>
  BY DEF OneText
<1> HIDE DEF t
<1>3. Text(t) \in PlainBlocks(A)
  BY <1>1, PlainText
<1> QED BY <1>2, <1>3

\* A block encodes to plain parts, whatever its kind.
LEMMA OpenAiPartType ==
    ASSUME NEW A, NEW b \in Blocks(A) PROVE openai_part(b).value \in Seq(PlainBlocks(A))
<1>1. CASE b.kind \in {"tool_call", "tool_result"}
  <2>1. openai_part(b) = Encoded(<<>>, FALSE)
    BY <1>1 DEF openai_part, MediaKinds
  <2> QED BY <2>1 DEF Encoded
<1>2. CASE b.kind \notin {"tool_call", "tool_result"}
  <2>1. b.text \in Seq(A)
    BY <1>2, BlockParts, PlainParts
  <2>2. {"image_url", "file"} \subseteq Kinds /\ {"url", "file_id", "file_data"} \subseteq Forms
    BY DEF Kinds, Forms
  <2>3. /\ AsText(b) \in PlainBlocks(A)
        /\ Block("image_url", b.text, "url") \in PlainBlocks(A)
        /\ Block("file", b.text, IF b.form = "file_id" THEN "file_id" ELSE "file_data") \in PlainBlocks(A)
    BY <2>1, <2>2, PlainText, PlainBlock DEF AsText
  <2>4. openai_part(b).value \in {<<AsText(b)>>, <<Block("image_url", b.text, "url")>>,
                                  <<Block("file", b.text, IF b.form = "file_id" THEN "file_id" ELSE "file_data")>>, <<>>}
    BY DEF openai_part, Encoded
  <2>5. \A p \in PlainBlocks(A) : <<p>> \in Seq(PlainBlocks(A))
    OBVIOUS
  <2>6. <<>> \in Seq(PlainBlocks(A))
    OBVIOUS
  <2> QED BY <2>3, <2>4, <2>5, <2>6
<1> QED BY <1>1, <1>2

\* Content encodes to plain parts over the same atoms.
LEMMA EncodeOpenAiContentType ==
    ASSUME NEW A, NEW content \in Seq(Blocks(A)), NEW role
    PROVE  encode_openai_content(content, role).value \in Seq(PlainBlocks(A))
<1>1. OneText(content) \in Seq(PlainBlocks(A))
  BY OneTextType
<1>2. EncodeAll(content, openai_part).value \in Seq(PlainBlocks(A))
  <2> DEFINE parts == [i \in DOMAIN content |-> openai_part(content[i]).value]
  <2>1. \A i \in DOMAIN content : parts[i] \in Seq(PlainBlocks(A))
    BY OpenAiPartType
  <2>2. parts = [i \in DOMAIN content |-> parts[i]]
        /\ EncodeAll(content, openai_part).value = FlattenSeq(parts)
    BY DEF EncodeAll, Encoded, FlatMap, MapSeq
  <2> HIDE DEF parts
  <2> QED BY <2>1, <2>2, FlatType
<1>3. encode_openai_content(content, role).value \in {OneText(content), EncodeAll(content, openai_part).value}
  BY DEF encode_openai_content, Encoded
<1> QED BY <1>1, <1>2, <1>3

\* The reasoning of a message encodes to plain blocks.
LEMMA OpenAiReasoningType ==
    ASSUME NEW A, NEW content \in Seq(Blocks(A))
    PROVE  encode_openai_message_reasoning(content) \in Seq(PlainBlocks(A))
<1> DEFINE detailed == [i \in DOMAIN content |->
                IF content[i].kind = "reasoning" /\ content[i].form = "details" THEN <<content[i]>> ELSE <<>>]
           plain == [i \in DOMAIN content |->
                IF content[i].kind = "reasoning" /\ content[i].form = "plain" THEN <<content[i]>> ELSE <<>>]
<1>1. \A i \in DOMAIN content : content[i].kind = "reasoning" => content[i] \in PlainBlocks(A)
  <2>1. "reasoning" \in Kinds
    BY DEF Kinds
  <2> QED BY <2>1, BlockParts
<1>2. /\ \A i \in DOMAIN content : detailed[i] = <<>> \/ (detailed[i] = <<content[i]>> /\ content[i] \in PlainBlocks(A))
      /\ \A i \in DOMAIN content : plain[i] = <<>> \/ (plain[i] = <<content[i]>> /\ content[i] \in PlainBlocks(A))
  BY <1>1
<1>3. detailed = [i \in DOMAIN content |-> detailed[i]] /\ plain = [i \in DOMAIN content |-> plain[i]]
  OBVIOUS
<1>4. encode_openai_message_reasoning(content)
        = IF FlattenSeq(detailed) # <<>> THEN FlattenSeq(detailed) ELSE FlattenSeq(plain)
  BY DEF encode_openai_message_reasoning, Those, FlatMap, MapSeq
<1> HIDE DEF detailed, plain
<1>5. FlattenSeq(detailed) \in Seq(PlainBlocks(A)) /\ FlattenSeq(plain) \in Seq(PlainBlocks(A))
  BY <1>2, <1>3, ChosenType
<1> QED BY <1>4, <1>5

\* A message without tool results encodes to wire messages over its atoms.
LEMMA WithoutResultsType ==
    ASSUME NEW A, NEW m \in Messages(A)
    PROVE  encode_message_without_tool_results_to_openai(m).value \in Seq(OpenAiMessages(A))
<1> DEFINE visible == encode_openai_content(WithoutKind(m.content, {"tool_call", "reasoning"}), m.role)
           role == IF m.role \in {"assistant", "tool"} THEN m.role ELSE "user"
           called == OfKind(m.content, {"tool_call"})
           calls == [i \in DOMAIN called |-> encode_openai_call(called[i])]
           reasoning == encode_openai_message_reasoning(m.content)
<1>1. m.content \in Seq(Blocks(A)) /\ m.role \in Roles
  BY MessageParts
<1>2. visible.value \in Seq(PlainBlocks(A))
  <2>1. WithoutKind(m.content, {"tool_call", "reasoning"})
          \in Seq({b \in Blocks(A) : b.kind \notin {"tool_call", "reasoning"}})
    <3> DEFINE c == m.content
               B == Blocks(A)
    <3>1. c \in Seq(B)
      BY <1>1
    <3> HIDE DEF c, B
    <3>2. WithoutKind(c, {"tool_call", "reasoning"})
            \in Seq({b \in B : b.kind \notin {"tool_call", "reasoning"}})
      BY ONLY <3>1, OfKindType, Zenon
    <3> QED BY <3>2 DEF c, B
  <2>2. WithoutKind(m.content, {"tool_call", "reasoning"}) \in Seq(Blocks(A))
    <3>1. {b \in Blocks(A) : b.kind \notin {"tool_call", "reasoning"}} \subseteq Blocks(A)
      OBVIOUS
    <3> QED BY <2>1, <3>1, SeqIn
  <2> QED BY <2>2, EncodeOpenAiContentType
<1>3. calls \in Seq(WireCalls)
  <2>1. called \in Seq({b \in Blocks(A) : b.kind \in {"tool_call"}})
    BY <1>1, OfKindType
  <2>2. {b \in Blocks(A) : b.kind \in {"tool_call"}} \subseteq CallBlocks
    BY BlockParts
  <2>3. called \in Seq(CallBlocks)
    <3> HIDE DEF called
    <3> QED BY <2>1, <2>2, SeqIn
  <2>4. \A c \in CallBlocks : encode_openai_call(c) \in WireCalls
    BY DEF CallBlocks, WireCalls, encode_openai_call, json_string
  <2> HIDE DEF called
  <2> QED BY <2>3, <2>4
<1>4. reasoning \in Seq(PlainBlocks(A))
  BY <1>1, OpenAiReasoningType
<1>5. role \in Roles
  BY <1>1 DEF Roles
<1>6. encode_message_without_tool_results_to_openai(m).value
        = <<[OpenAiMessage(role, visible.value) EXCEPT !.reasoning = reasoning, !.tool_calls = calls]>>
  BY DEF encode_message_without_tool_results_to_openai, Encoded, MapSeq
<1> HIDE DEF visible, role, calls, reasoning
<1>7. [OpenAiMessage(role, visible.value) EXCEPT !.reasoning = reasoning, !.tool_calls = calls] \in OpenAiMessages(A)
  BY <1>2, <1>3, <1>4, <1>5 DEF OpenAiMessage, OpenAiMessages
<1> QED BY <1>6, <1>7

\* A tool result becomes one wire message of role tool.
LEMMA ToolMessageType ==
    ASSUME NEW A, NEW r \in ResultBlocks(A) PROVE ToolMessage(r) \in OpenAiMessages(A)
<1>1. r.content \in Seq(PlainBlocks(A)) /\ r.id \in Ids
  BY DEF ResultBlocks
<1>2. r.content \in Seq(Blocks(A))
  BY <1>1, PlainsAreBlocks, SeqIn
<1>3. OneText(r.content) \in Seq(PlainBlocks(A)) /\ "tool" \in Roles
  BY <1>2, OneTextType DEF Roles
<1>4. <<>> \in Seq(PlainBlocks(A)) /\ <<>> \in Seq(WireCalls)
  OBVIOUS
<1>5. ToolMessage(r) = [role |-> "tool", content |-> OneText(r.content), reasoning |-> <<>>,
                        tool_calls |-> <<>>, tool_call_id |-> r.id]
  BY DEF ToolMessage, OpenAiMessage
<1> QED BY <1>1, <1>3, <1>4, <1>5 DEF OpenAiMessages

\* A message with tool results encodes to wire messages over its atoms.
LEMMA WithResultsType ==
    ASSUME NEW A, NEW m \in Messages(A)
    PROVE  encode_message_with_tool_results_to_openai(m).value \in Seq(OpenAiMessages(A))
<1> DEFINE results == OfKind(m.content, {"tool_result"})
           written == [i \in DOMAIN results |-> ToolMessage(results[i])]
           parts == [i \in DOMAIN m.content |->
                       IF m.content[i].kind = "tool_result" THEN NonTextOf(m.content[i]) ELSE <<m.content[i]>>]
           others == FlattenSeq(parts)
           rest == IF others = <<>> THEN Encoded(<<>>, FALSE)
                   ELSE encode_message_without_tool_results_to_openai(Message(m.role, others))
<1>1. m.content \in Seq(Blocks(A)) /\ m.role \in Roles
  BY MessageParts
<1>2. written \in Seq(OpenAiMessages(A))
  <2>1. results \in Seq({b \in Blocks(A) : b.kind \in {"tool_result"}})
    BY <1>1, OfKindType
  <2>2. {b \in Blocks(A) : b.kind \in {"tool_result"}} \subseteq ResultBlocks(A)
    BY BlockParts
  <2>3. results \in Seq(ResultBlocks(A))
    <3> HIDE DEF results
    <3> QED BY <2>1, <2>2, SeqIn
  <2>4. \A r \in ResultBlocks(A) : ToolMessage(r) \in OpenAiMessages(A)
    BY ToolMessageType
  <2> HIDE DEF results
  <2> QED BY <2>3, <2>4
<1>3. others \in Seq(Blocks(A))
  <2>1. ASSUME NEW i \in DOMAIN m.content PROVE parts[i] \in Seq(Blocks(A))
    <3>1. m.content[i] \in Blocks(A)
      BY <1>1
    <3>2. CASE m.content[i].kind = "tool_result"
      <4>1. m.content[i].content \in Seq(PlainBlocks(A))
        BY <3>1, <3>2, BlockParts DEF ResultBlocks
      <4>2. NonTextOf(m.content[i]) \in Seq({b \in PlainBlocks(A) : b.kind \notin {"text", "refusal"}})
        <5> DEFINE c == m.content[i].content
                   B == PlainBlocks(A)
        <5>1. c \in Seq(B)
          BY <4>1
        <5> HIDE DEF c, B
        <5>2. WithoutKind(c, {"text", "refusal"}) \in Seq({b \in B : b.kind \notin {"text", "refusal"}})
          BY ONLY <5>1, OfKindType, Zenon
        <5> QED BY <5>2 DEF NonTextOf, c, B
      <4>3. {b \in PlainBlocks(A) : b.kind \notin {"text", "refusal"}} \subseteq Blocks(A)
        BY PlainsAreBlocks
      <4>4. NonTextOf(m.content[i]) \in Seq(Blocks(A))
        BY <4>2, <4>3, SeqIn
      <4> QED BY <3>2, <4>4
    <3>3. CASE m.content[i].kind # "tool_result"
      BY <3>1, <3>3
    <3> QED BY <3>2, <3>3
  <2>2. parts = [i \in DOMAIN m.content |-> parts[i]]
    OBVIOUS
  <2> HIDE DEF parts
  <2> QED BY <1>1, <2>1, <2>2, FlatType
<1>4. encode_message_with_tool_results_to_openai(m).value = written \o rest.value
  BY DEF encode_message_with_tool_results_to_openai, Encoded, MapSeq, FlatMap
<1> HIDE DEF others, written
<1>5. rest.value \in Seq(OpenAiMessages(A))
  <2>1. CASE others = <<>>
    BY <2>1 DEF Encoded
  <2>2. CASE others # <<>>
    <3>1. Message(m.role, others) \in Messages(A)
      BY <1>1, <1>3, MessageOf
    <3> QED BY <2>2, <3>1, WithoutResultsType
  <2> QED BY <2>1, <2>2
<1> HIDE DEF rest
<1> QED BY <1>2, <1>4, <1>5

\* A whole request encodes to Chat Completions messages over its atoms.
LEMMA EncodeOpenAiType ==
    ASSUME NEW A, NEW ir, ir.instructions \in Seq(Messages(A)), ir.messages \in Seq(Messages(A))
    PROVE  encode_openai_request(ir).value \in Seq(OpenAiMessages(A))
<1> DEFINE first == [i \in DOMAIN ir.instructions |-> InstructionMessage(ir.instructions[i])]
           parts == [i \in DOMAIN ir.messages |-> encode_message_to_openai(ir.messages[i]).value]
<1>1. first \in Seq(OpenAiMessages(A))
  <2>1. \A m \in Messages(A) : InstructionMessage(m) \in OpenAiMessages(A)
    <3> SUFFICES ASSUME NEW m \in Messages(A) PROVE InstructionMessage(m) \in OpenAiMessages(A)
      OBVIOUS
    <3>1. OneText(m.content) \in Seq(PlainBlocks(A)) /\ {"system", "developer"} \subseteq Roles
      BY MessageParts, OneTextType DEF Roles
    <3> QED BY <3>1 DEF InstructionMessage, OpenAiMessage, OpenAiMessages
  <2> QED BY <2>1
<1>2. FlattenSeq(parts) \in Seq(OpenAiMessages(A))
  <2>1. \A m \in Messages(A) : encode_message_to_openai(m).value \in Seq(OpenAiMessages(A))
    BY WithResultsType, WithoutResultsType DEF encode_message_to_openai
  <2>2. \A i \in DOMAIN ir.messages : parts[i] \in Seq(OpenAiMessages(A))
    BY <2>1
  <2>3. parts = [i \in DOMAIN ir.messages |-> parts[i]]
    OBVIOUS
  <2> HIDE DEF parts
  <2> QED BY <2>2, <2>3, FlatType
<1>3. encode_openai_request(ir).value = first \o FlattenSeq(parts)
  BY DEF encode_openai_request, EncodeAll, Encoded, FlatMap, MapSeq
<1> HIDE DEF first, parts
<1> QED BY <1>1, <1>2, <1>3

(***************************************************************************)
(* Anthropic Messages: decoding and encoding, over the same atoms.         *)
(***************************************************************************)

AnthropicCalls == [kind : {"tool_use"}, id : Ids, arguments : Nat]
AnthropicBlocks(A) == PlainBlocks(A) \cup AnthropicCalls \cup ResultBlocks(A)
AnthropicMessages(A) == [role : Roles, content : Seq(AnthropicBlocks(A))]

\* The kind of an Anthropic block tells which of the three sorts it is.
LEMMA AnthropicParts ==
    ASSUME NEW A, NEW b \in AnthropicBlocks(A)
    PROVE  /\ b.kind = "tool_use" => b \in AnthropicCalls
           /\ b.kind = "tool_result" => b \in ResultBlocks(A)
           /\ b.kind \notin {"tool_use", "tool_result"} => b \in PlainBlocks(A)
  BY KindsApart DEF AnthropicBlocks, PlainBlocks, AnthropicCalls, ResultBlocks

\* The parts of a tool result.
LEMMA ResultParts ==
    ASSUME NEW A, NEW r \in ResultBlocks(A) PROVE r.id \in Ids /\ r.content \in Seq(PlainBlocks(A))
  BY DEF ResultBlocks

\* An id and plain content make a tool result.
LEMMA ResultOf ==
    ASSUME NEW A, NEW id \in Ids, NEW c \in Seq(PlainBlocks(A)) PROVE ToolResult(id, c) \in ResultBlocks(A)
  BY DEF ToolResult, ResultBlocks

\* The content of a tool result decodes to plain blocks.
LEMMA ResultContentType ==
    ASSUME NEW A, NEW blocks \in Seq(PlainBlocks(A))
    PROVE  decode_tool_result_content(blocks) \in Seq(PlainBlocks(A))
<1> DEFINE read == [i \in DOMAIN blocks |-> Block(ResultPartKind(blocks[i].kind), blocks[i].text, blocks[i].form)]
<1>1. \A i \in DOMAIN blocks : read[i] \in PlainBlocks(A)
  <2> SUFFICES ASSUME NEW i \in DOMAIN blocks
               PROVE  Block(ResultPartKind(blocks[i].kind), blocks[i].text, blocks[i].form) \in PlainBlocks(A)
    OBVIOUS
  <2>1. blocks[i] \in PlainBlocks(A)
    OBVIOUS
  <2>2. ResultPartKind(blocks[i].kind) \in Kinds
    BY DEF ResultPartKind, Kinds
  <2> QED BY <2>1, <2>2, PlainParts, PlainBlock
<1>2. decode_tool_result_content(blocks) = read /\ read = [i \in DOMAIN blocks |-> read[i]]
  BY DEF decode_tool_result_content, MapSeq
<1> HIDE DEF read
<1> QED BY <1>1, <1>2, MapType

\* An Anthropic block decodes to a block over the same atoms.
LEMMA DecodeAnthropicBlockType ==
    ASSUME NEW A, NEW b \in AnthropicBlocks(A) PROVE decode_anthropic_content_block(b) \in Blocks(A)
<1>1. CASE b.kind = "tool_use"
  <2>1. b.id \in Ids /\ b.arguments \in Nat
    BY <1>1, AnthropicParts DEF AnthropicCalls
  <2> QED BY <1>1, <2>1 DEF decode_anthropic_content_block, ToolCall, CallBlocks, Blocks
<1>2. CASE b.kind = "tool_result"
  <2>1. b.id \in Ids /\ decode_tool_result_content(b.content) \in Seq(PlainBlocks(A))
    BY <1>2, AnthropicParts, ResultParts, ResultContentType
  <2>2. ToolResult(b.id, decode_tool_result_content(b.content)) \in ResultBlocks(A)
    BY <2>1, ResultOf
  <2> QED BY <1>2, <2>2 DEF decode_anthropic_content_block, Blocks
<1>3. CASE b.kind \notin {"tool_use", "tool_result"}
  <2>1. b.text \in Seq(A) /\ b.form \in Forms
    BY <1>3, AnthropicParts, PlainParts
  <2>2. ContentKind(b.kind) \in Kinds
    BY DEF ContentKind, Kinds
  <2>3. Block(ContentKind(b.kind), b.text, b.form) \in Blocks(A)
    BY <2>1, <2>2, PlainBlock, PlainsAreBlocks
  <2> QED BY <1>3, <2>3 DEF decode_anthropic_content_block
<1> QED BY <1>1, <1>2, <1>3

\* An Anthropic message decodes to a message over the same atoms.
LEMMA DecodeAnthropicMessageType ==
    ASSUME NEW A, NEW m \in AnthropicMessages(A) PROVE DecodeAnthropicMessage(m) \in Messages(A)
<1> DEFINE read == [i \in DOMAIN m.content |-> decode_anthropic_content_block(m.content[i])]
<1>1. m.content \in Seq(AnthropicBlocks(A))
  BY DEF AnthropicMessages
<1>2. \A i \in DOMAIN m.content : read[i] \in Blocks(A)
  BY <1>1, DecodeAnthropicBlockType
<1>3. /\ read = [i \in DOMAIN m.content |-> read[i]]
      /\ DecodeAnthropicMessage(m) = Message(IF m.role = "assistant" THEN "assistant" ELSE "user", NonEmpty(read))
  BY DEF DecodeAnthropicMessage, MapSeq
<1> HIDE DEF read
<1>4. read \in Seq(Blocks(A))
  BY <1>1, <1>2, <1>3, MapType
<1>5. NonEmpty(read) \in Seq(Blocks(A)) /\ (IF m.role = "assistant" THEN "assistant" ELSE "user") \in Roles
  BY <1>4, NonEmptyType, PlainsAreBlocks DEF Roles
<1> QED BY <1>3, <1>5, MessageOf

-----------------------------------------------------------------------------
\* An id sanitized for Anthropic is still an id.
LEMMA SanitizedId == ASSUME NEW id \in Ids PROVE sanitize_anthropic_tool_use_id(id) \in Ids
  BY DEF sanitize_anthropic_tool_use_id, Ids, Marks

\* A block within a tool result encodes to plain blocks.
LEMMA ResultPartType ==
    ASSUME NEW A, NEW b \in PlainBlocks(A)
    PROVE  encode_one_anthropic_tool_result_block(b) \in Seq(PlainBlocks(A))
<1>1. b.text \in Seq(A) /\ b.form \in Forms /\ {"image", "document", "other"} \subseteq Kinds
  BY PlainParts DEF Kinds
<1>2. /\ Text(b.text) \in PlainBlocks(A) /\ Block("image", b.text, b.form) \in PlainBlocks(A)
      /\ Block("document", b.text, b.form) \in PlainBlocks(A) /\ Block("other", b.text, b.form) \in PlainBlocks(A)
  BY <1>1, PlainText, PlainBlock
<1>3. encode_one_anthropic_tool_result_block(b) \in
        {<<Text(b.text)>>, <<Block("image", b.text, b.form)>>, <<Block("document", b.text, b.form)>>,
         <<Block("other", b.text, b.form)>>, <<>>}
  BY DEF encode_one_anthropic_tool_result_block
<1>4. \A p \in PlainBlocks(A) : <<p>> \in Seq(PlainBlocks(A))
  OBVIOUS
<1>5. <<>> \in Seq(PlainBlocks(A))
  OBVIOUS
<1> QED BY <1>2, <1>3, <1>4, <1>5

\* A tool result encodes to a tool result over its atoms.
LEMMA AnthropicResultType ==
    ASSUME NEW A, NEW r \in ResultBlocks(A) PROVE AnthropicResult(r) \in ResultBlocks(A)
<1> DEFINE parts == [i \in DOMAIN r.content |-> encode_one_anthropic_tool_result_block(r.content[i])]
           words == text_from_blocks(r.content)
<1>1. r.id \in Ids /\ r.content \in Seq(PlainBlocks(A)) /\ r.content \in Seq(Blocks(A))
  BY ResultParts, PlainsAreBlocks, SeqIn
<1>2. FlattenSeq(parts) \in Seq(PlainBlocks(A))
  <2>1. \A i \in DOMAIN r.content : parts[i] \in Seq(PlainBlocks(A))
    BY <1>1, ResultPartType
  <2>2. parts = [i \in DOMAIN r.content |-> parts[i]]
    OBVIOUS
  <2> HIDE DEF parts
  <2> QED BY <1>1, <2>1, <2>2, FlatType
<1>3. <<Text(words)>> \in Seq(PlainBlocks(A))
  <2>1. Text(words) \in PlainBlocks(A)
    BY <1>1, TextFromBlocksType, PlainText
  <2> HIDE DEF words
  <2> QED BY <2>1
<1>4. AnthropicResult(r)
        = ToolResult(sanitize_anthropic_tool_use_id(r.id),
                     IF HasKind(r.content, MediaKinds \cup {"unknown"}) THEN FlattenSeq(parts) ELSE <<Text(words)>>)
  BY DEF AnthropicResult, ToolResult, FlatMap, MapSeq
<1> HIDE DEF parts, words
<1>5. (IF HasKind(r.content, MediaKinds \cup {"unknown"}) THEN FlattenSeq(parts) ELSE <<Text(words)>>)
        \in Seq(PlainBlocks(A))
  BY <1>2, <1>3
<1> QED BY <1>1, <1>4, <1>5, SanitizedId, ResultOf

\* A block encodes to Anthropic blocks over its atoms.
LEMMA AnthropicBlockType ==
    ASSUME NEW A, NEW b \in Blocks(A) PROVE encode_one_anthropic_block(b) \in Seq(AnthropicBlocks(A))
<1>0. \A x \in AnthropicBlocks(A) : <<x>> \in Seq(AnthropicBlocks(A))
  OBVIOUS
<1>1. CASE b.kind = "tool_call"
  <2>1. b.id \in Ids /\ b.arguments \in Nat
    BY <1>1, BlockParts DEF CallBlocks
  <2>2. anthropic_tool_input(b.arguments) \in Nat /\ sanitize_anthropic_tool_use_id(b.id) \in Ids
    BY <2>1, SanitizedId DEF anthropic_tool_input
  <2>3. AnthropicCall(b) \in AnthropicBlocks(A)
    BY <2>2 DEF AnthropicCall, AnthropicCalls, AnthropicBlocks
  <2> QED BY <1>0, <1>1, <2>3 DEF encode_one_anthropic_block
<1>2. CASE b.kind = "tool_result"
  <2>1. AnthropicResult(b) \in AnthropicBlocks(A)
    BY <1>2, BlockParts, AnthropicResultType DEF AnthropicBlocks
  <2> QED BY <1>0, <1>2, <2>1 DEF encode_one_anthropic_block
<1>3. CASE b.kind \notin {"tool_call", "tool_result"}
  <2>1. b.kind \in Kinds /\ b.text \in Seq(A) /\ b.form \in Forms
    BY <1>3, BlockParts, PlainParts
  <2>2. {"thinking", "document"} \subseteq Kinds /\ "signed" \in Forms
    BY DEF Kinds, Forms
  <2>3. /\ Text(b.text) \in PlainBlocks(A) /\ Block("thinking", b.text, "signed") \in PlainBlocks(A)
        /\ Block("document", b.text, b.form) \in PlainBlocks(A) /\ Block(b.kind, b.text, b.form) \in PlainBlocks(A)
    BY <2>1, <2>2, PlainText, PlainBlock
  <2>4. encode_one_anthropic_block(b) \in
          {<<Text(b.text)>>, <<Block("thinking", b.text, "signed")>>, <<Block(b.kind, b.text, b.form)>>,
           <<Block("document", b.text, b.form)>>, <<>>}
    BY <1>3 DEF encode_one_anthropic_block
  <2>5. PlainBlocks(A) \subseteq AnthropicBlocks(A)
    BY DEF AnthropicBlocks
  <2>6. <<>> \in Seq(AnthropicBlocks(A))
    OBVIOUS
  <2> QED BY <1>0, <2>3, <2>4, <2>5, <2>6
<1> QED BY <1>1, <1>2, <1>3

\* Content encodes to Anthropic blocks over its atoms.
LEMMA AnthropicContentType ==
    ASSUME NEW A, NEW content \in Seq(Blocks(A))
    PROVE  encode_anthropic_content_with_policy(content).value \in Seq(AnthropicBlocks(A))
<1> DEFINE parts == [i \in DOMAIN content |-> IF content[i].kind = "unknown" THEN <<Text(content[i].text)>>
                                              ELSE encode_one_anthropic_block(content[i])]
<1>1. ASSUME NEW i \in DOMAIN content PROVE parts[i] \in Seq(AnthropicBlocks(A))
  <2>1. content[i] \in Blocks(A)
    OBVIOUS
  <2>2. CASE content[i].kind = "unknown"
    <3>1. Text(content[i].text) \in AnthropicBlocks(A)
      BY <2>1, <2>2, BlockParts, PlainParts, PlainText DEF AnthropicBlocks
    <3>2. \A x \in AnthropicBlocks(A) : <<x>> \in Seq(AnthropicBlocks(A))
      OBVIOUS
    <3> QED BY <2>2, <3>1, <3>2
  <2>3. CASE content[i].kind # "unknown"
    BY <2>1, <2>3, AnthropicBlockType
  <2> QED BY <2>2, <2>3
<1>2. /\ parts = [i \in DOMAIN content |-> parts[i]]
      /\ encode_anthropic_content_with_policy(content).value = NonEmpty(FlattenSeq(parts))
  BY DEF encode_anthropic_content_with_policy, Encoded, FlatMap, MapSeq
<1> HIDE DEF parts
<1>3. FlattenSeq(parts) \in Seq(AnthropicBlocks(A))
  BY <1>1, <1>2, FlatType
<1>4. PlainBlocks(A) \subseteq AnthropicBlocks(A)
  BY DEF AnthropicBlocks
<1> QED BY <1>2, <1>3, <1>4, NonEmptyType

\* Consecutive messages of one role, merged into one, over their atoms.
LEMMA RunContentType ==
    ASSUME NEW A, NEW messages \in Seq(Messages(A)), NEW i \in DOMAIN messages
    PROVE  RunContent(messages, i) \in Seq(AnthropicBlocks(A))
<1> DEFINE Joins(j) == i =< j /\ \A k \in (i + 1)..j : InRun(messages, k)
           parts == [j \in DOMAIN messages |->
                       IF Joins(j) THEN encode_anthropic_content_with_policy(messages[j].content).value ELSE <<>>]
<1>1. ASSUME NEW j \in DOMAIN messages PROVE parts[j] \in Seq(AnthropicBlocks(A))
  <2>1. messages[j].content \in Seq(Blocks(A))
    BY MessageParts
  <2>2. encode_anthropic_content_with_policy(messages[j].content).value \in Seq(AnthropicBlocks(A))
    BY <2>1, AnthropicContentType
  <2>3. <<>> \in Seq(AnthropicBlocks(A))
    OBVIOUS
  <2> HIDE DEF Joins
  <2> QED BY <2>2, <2>3
<1>2. parts = [j \in DOMAIN messages |-> parts[j]] /\ RunContent(messages, i) = FlattenSeq(parts)
  BY DEF RunContent
<1> HIDE DEF parts
<1> QED BY <1>1, <1>2, FlatType

\* A whole request encodes to a Messages body over its atoms, its system text first.
LEMMA EncodeAnthropicType ==
    ASSUME NEW A, NEW ir, ir.instructions \in Seq(Messages(A)), ir.messages \in Seq(Messages(A))
    PROVE  /\ encode_anthropic_request(ir).value.system = SystemText(ir.instructions)
           /\ encode_anthropic_request(ir).value.messages \in Seq(AnthropicMessages(A))
<1> DEFINE messages == ir.messages
           parts == [i \in DOMAIN messages |-> IF InRun(messages, i) THEN <<>>
                        ELSE <<Message(EncodedRole(messages[i]), RunContent(messages, i))>>]
<1>1. ASSUME NEW i \in DOMAIN messages PROVE parts[i] \in Seq(AnthropicMessages(A))
  <2>1. RunContent(messages, i) \in Seq(AnthropicBlocks(A)) /\ EncodedRole(messages[i]) \in Roles
    BY RunContentType DEF EncodedRole, Roles
  <2>2. Message(EncodedRole(messages[i]), RunContent(messages, i)) \in AnthropicMessages(A)
    BY <2>1 DEF Message, AnthropicMessages
  <2>3. \A x \in AnthropicMessages(A) : <<x>> \in Seq(AnthropicMessages(A))
    OBVIOUS
  <2>4. <<>> \in Seq(AnthropicMessages(A))
    OBVIOUS
  <2> QED BY <2>2, <2>3, <2>4
<1>2. /\ parts = [i \in DOMAIN messages |-> parts[i]]
      /\ encode_anthropic_request(ir).value.system = SystemText(ir.instructions)
      /\ encode_anthropic_request(ir).value.messages = FlattenSeq(parts)
  BY DEF encode_anthropic_request, encode_anthropic_messages, Encoded, AnthropicBody
<1> HIDE DEF parts
<1> QED BY <1>1, <1>2, FlatType

(***************************************************************************)
(* Responses: the input is read item by item into a turn, each step over   *)
(* the same atoms.                                                         *)
(***************************************************************************)

MessageItems(A) == [kind : {"message"}, role : Roles, content : Seq(PlainBlocks(A))]
ReasoningItems(A) == [kind : {"reasoning"}, text : Seq(A)]
CallItems == [kind : {"function_call"}, id : Ids, arguments : Nat]
OutputItems(A) == [kind : {"function_call_output"}, id : Ids, text : Seq(A)]
Items(A) == MessageItems(A) \cup ReasoningItems(A) \cup CallItems \cup OutputItems(A)

Turns(A) == [messages : Seq(Messages(A)), calls : Seq(CallBlocks), outputs : Seq(ResultBlocks(A)),
             deferred : Seq(Messages(A)), reasoning : Seq(PlainBlocks(A))]

\* The parts of a Responses item, by its kind.
LEMMA ItemParts ==
    ASSUME NEW A, NEW x \in Items(A)
    PROVE  /\ x.kind = "message" => x.role \in Roles /\ x.content \in Seq(PlainBlocks(A))
           /\ x.kind = "reasoning" => x.text \in Seq(A)
           /\ x.kind = "function_call" => x.id \in Ids /\ x.arguments \in Nat
           /\ x.kind = "function_call_output" => x.id \in Ids /\ x.text \in Seq(A)
           /\ x.kind \in {"message", "reasoning", "function_call", "function_call_output"}
  BY DEF Items, MessageItems, ReasoningItems, CallItems, OutputItems

\* The constructors of items.
LEMMA ItemsOf ==
    ASSUME NEW A
    PROVE  /\ \A r \in Roles, c \in Seq(PlainBlocks(A)) : MessageItem(r, c) \in Items(A)
           /\ \A t \in Seq(A) : ReasoningItem(t) \in Items(A)
           /\ \A id \in Ids, n \in Nat : CallItem(id, n) \in Items(A)
           /\ \A id \in Ids, t \in Seq(A) : OutputItem(id, t) \in Items(A)
  BY DEF Items, MessageItems, ReasoningItems, CallItems, OutputItems,
         MessageItem, ReasoningItem, CallItem, OutputItem

\* The parts of the turn that decode_responses_input assembles.
LEMMA TurnParts ==
    ASSUME NEW A, NEW t \in Turns(A)
    PROVE  /\ t.messages \in Seq(Messages(A)) /\ t.calls \in Seq(CallBlocks) /\ t.outputs \in Seq(ResultBlocks(A))
           /\ t.deferred \in Seq(Messages(A)) /\ t.reasoning \in Seq(PlainBlocks(A))
  BY DEF Turns

\* The turn it starts from.
LEMMA TurnType == ASSUME NEW A PROVE Turn \in Turns(A)
<1>1. /\ <<>> \in Seq(Messages(A)) /\ <<>> \in Seq(CallBlocks) /\ <<>> \in Seq(ResultBlocks(A))
      /\ <<>> \in Seq(PlainBlocks(A))
  OBVIOUS
<1> QED BY <1>1 DEF Turn, Turns

\* One element appended to a sequence.
LEMMA AppendType == ASSUME NEW S, NEW s \in Seq(S), NEW x \in S PROVE Append(s, x) \in Seq(S)
  OBVIOUS

\* Item content decodes to plain blocks.
LEMMA ResponsesContentType ==
    ASSUME NEW A, NEW parts \in Seq(PlainBlocks(A))
    PROVE  decode_responses_content(parts) \in Seq(PlainBlocks(A))
<1> DEFINE read == [i \in DOMAIN parts |-> Block(InputKind(parts[i].kind), parts[i].text, parts[i].form)]
<1>1. \A i \in DOMAIN parts : read[i] \in PlainBlocks(A)
  <2> SUFFICES ASSUME NEW i \in DOMAIN parts
               PROVE  Block(InputKind(parts[i].kind), parts[i].text, parts[i].form) \in PlainBlocks(A)
    OBVIOUS
  <2>1. parts[i] \in PlainBlocks(A)
    OBVIOUS
  <2>2. InputKind(parts[i].kind) \in Kinds
    BY DEF InputKind, Kinds
  <2> QED BY <2>1, <2>2, PlainParts, PlainBlock
<1>2. decode_responses_content(parts) = NonEmpty(read) /\ read = [i \in DOMAIN parts |-> read[i]]
  BY DEF decode_responses_content, MapSeq
<1> HIDE DEF read
<1>3. read \in Seq(PlainBlocks(A))
  BY <1>1, <1>2, MapType
<1> QED BY <1>2, <1>3, NonEmptyType

\* A call output becomes a message of the turn.
LEMMA OutputMessageType ==
    ASSUME NEW A, NEW t \in Turns(A), NEW o \in ResultBlocks(A) PROVE OutputMessage(t, o) \in Messages(A)
<1> DEFINE words == text_from_blocks(o.content)
           b == IF o.id \in CallIds(t) THEN o ELSE Text(words)
<1>1. o.content \in Seq(Blocks(A))
  BY ResultParts, PlainsAreBlocks, SeqIn
<1>2. words \in Seq(A)
  BY <1>1, TextFromBlocksType
<1>3. b \in Blocks(A)
  <2> HIDE DEF words
  <2>1. Text(words) \in Blocks(A)
    BY <1>2, PlainText, PlainsAreBlocks
  <2> QED BY <2>1 DEF Blocks
<1>4. OutputMessage(t, o) = Message("user", <<b>>)
  BY DEF OutputMessage
<1> HIDE DEF b
<1>5. <<b>> \in Seq(Blocks(A)) /\ "user" \in Roles
  BY <1>3 DEF Roles
<1> QED BY <1>4, <1>5, MessageOf

\* flush_responses_tool_block keeps the turn over its atoms.
LEMMA FlushType ==
    ASSUME NEW A, NEW t \in Turns(A) PROVE flush_responses_tool_block(t) \in Turns(A)
<1> DEFINE said == t.reasoning \o t.calls
           turn == IF t.calls = <<>> THEN <<>> ELSE <<Message("assistant", said)>>
           answered == [i \in DOMAIN t.outputs |-> OutputMessage(t, t.outputs[i])]
           held == IF t.calls = <<>> THEN t.reasoning ELSE <<>>
<1>1. said \in Seq(Blocks(A))
  <2>1. CallBlocks \subseteq Blocks(A)
    BY DEF Blocks
  <2>2. t.calls \in Seq(Blocks(A)) /\ t.reasoning \in Seq(Blocks(A))
    BY <2>1, TurnParts, PlainsAreBlocks, SeqIn
  <2> QED BY <2>2, ConcatSeq
<1>2. turn \in Seq(Messages(A))
  <2> HIDE DEF said
  <2>1. Message("assistant", said) \in Messages(A)
    BY <1>1, MessageOf DEF Roles
  <2> QED BY <2>1
<1>3. answered \in Seq(Messages(A))
  <2>1. t.outputs \in Seq(ResultBlocks(A))
    BY TurnParts
  <2>2. \A i \in DOMAIN t.outputs : answered[i] \in Messages(A)
    BY <2>1, OutputMessageType
  <2>3. answered = [i \in DOMAIN t.outputs |-> answered[i]]
    OBVIOUS
  <2> HIDE DEF answered
  <2> QED BY <2>1, <2>2, <2>3, MapType
<1>4. held \in Seq(PlainBlocks(A))
  BY TurnParts
<1>5. flush_responses_tool_block(t)
        = [messages |-> t.messages \o turn \o answered \o t.deferred, calls |-> <<>>, outputs |-> <<>>,
           deferred |-> <<>>, reasoning |-> held]
  <2>1. flush_responses_tool_block(t)
          = [Turn EXCEPT !.messages = t.messages \o turn \o answered \o t.deferred, !.reasoning = held]
    BY DEF flush_responses_tool_block, MapSeq
  <2> HIDE DEF turn, answered, held
  <2> QED BY <2>1 DEF Turn
<1> HIDE DEF turn, answered, held
<1>6. t.messages \o turn \o answered \o t.deferred \in Seq(Messages(A))
  BY <1>2, <1>3, TurnParts, ConcatSeq
<1>7. <<>> \in Seq(Messages(A)) /\ <<>> \in Seq(CallBlocks) /\ <<>> \in Seq(ResultBlocks(A))
  OBVIOUS
<1> QED BY <1>4, <1>5, <1>6, <1>7 DEF Turns

\* push_responses_non_tool_message keeps the turn over its atoms.
LEMMA PushType ==
    ASSUME NEW A, NEW t \in Turns(A), NEW m \in Messages(A)
    PROVE  push_responses_non_tool_message(t, m) \in Turns(A)
<1>1. CASE t.calls # <<>> /\ t.outputs = <<>>
  <2>1. Append(t.deferred, m) \in Seq(Messages(A))
    BY TurnParts, AppendType
  <2>2. push_responses_non_tool_message(t, m) = [t EXCEPT !.deferred = Append(t.deferred, m)]
    BY <1>1 DEF push_responses_non_tool_message
  <2> QED BY <2>1, <2>2 DEF Turns
<1>2. CASE ~(t.calls # <<>> /\ t.outputs = <<>>)
  <2> DEFINE done == IF t.outputs # <<>> THEN flush_responses_tool_block(t) ELSE t
  <2>1. done \in Turns(A)
    BY FlushType
  <2>2. push_responses_non_tool_message(t, m) = [done EXCEPT !.messages = Append(done.messages, m)]
    BY <1>2 DEF push_responses_non_tool_message
  <2> HIDE DEF done
  <2>3. Append(done.messages, m) \in Seq(Messages(A))
    BY <2>1, TurnParts, AppendType
  <2> QED BY <2>1, <2>2, <2>3 DEF Turns
<1> QED BY <1>1, <1>2

\* A turn whose reasoning was attached elsewhere.
LEMMA EmptyReasoningType ==
    ASSUME NEW A, NEW t \in Turns(A) PROVE [t EXCEPT !.reasoning = <<>>] \in Turns(A)
<1>1. <<>> \in Seq(PlainBlocks(A))
  OBVIOUS
<1> QED BY <1>1 DEF Turns

\* Held reasoning makes a message, alone or before content.
LEMMA ReasoningMessage ==
    ASSUME NEW A, NEW t \in Turns(A), NEW c \in Seq(PlainBlocks(A))
    PROVE  Message("assistant", t.reasoning) \in Messages(A) /\ Message("assistant", t.reasoning \o c) \in Messages(A)
<1>1. t.reasoning \in Seq(Blocks(A)) /\ c \in Seq(Blocks(A))
  BY TurnParts, PlainsAreBlocks, SeqIn
<1>2. t.reasoning \o c \in Seq(Blocks(A)) /\ "assistant" \in Roles
  BY <1>1, ConcatSeq DEF Roles
<1> QED BY <1>1, <1>2, MessageOf

\* flush_unattached_responses_reasoning keeps the turn over its atoms.
LEMMA UnattachedType ==
    ASSUME NEW A, NEW t \in Turns(A) PROVE flush_unattached_responses_reasoning(t) \in Turns(A)
<1>1. <<>> \in Seq(PlainBlocks(A))
  OBVIOUS
<1>2. push_responses_non_tool_message([t EXCEPT !.reasoning = <<>>], Message("assistant", t.reasoning)) \in Turns(A)
  BY <1>1, EmptyReasoningType, ReasoningMessage, PushType
<1> QED BY <1>2 DEF flush_unattached_responses_reasoning

\* A message item read into the turn.
LEMMA ReadMessageType ==
    ASSUME NEW A, NEW t \in Turns(A), NEW item \in Items(A), item.kind = "message"
    PROVE  ReadMessage(t, item) \in Turns(A)
<1> DEFINE role == request_role_from_responses(item.role)
           content == decode_responses_content(item.content)
           before == IF role = "assistant" THEN t ELSE flush_unattached_responses_reasoning(t)
           joins == role = "assistant" /\ t.calls = <<>>
<1>1. content \in Seq(PlainBlocks(A)) /\ content \in Seq(Blocks(A))
  <2>1. content \in Seq(PlainBlocks(A))
    BY ItemParts, ResponsesContentType
  <2> HIDE DEF content
  <2> QED BY <2>1, PlainsAreBlocks, SeqIn
<1>2. role \in Roles
  BY DEF request_role_from_responses, Roles
<1>3. before \in Turns(A)
  BY UnattachedType
<1>4. ReadMessage(t, item)
        = IF joins THEN push_responses_non_tool_message([t EXCEPT !.reasoning = <<>>],
                                                        Message(role, t.reasoning \o content))
          ELSE push_responses_non_tool_message(before, Message(role, content))
  BY DEF ReadMessage
<1> HIDE DEF role, content, before
<1>5. Message(role, content) \in Messages(A)
  BY <1>1, <1>2, MessageOf
<1>6. joins => Message(role, t.reasoning \o content) \in Messages(A)
  BY <1>1, ReasoningMessage
<1>7. push_responses_non_tool_message(before, Message(role, content)) \in Turns(A)
  BY <1>3, <1>5, PushType
<1>8. joins => push_responses_non_tool_message([t EXCEPT !.reasoning = <<>>],
                                               Message(role, t.reasoning \o content)) \in Turns(A)
  BY <1>6, EmptyReasoningType, PushType
<1> QED BY <1>4, <1>7, <1>8

\* Any item read into the turn.
LEMMA ReadItemType ==
    ASSUME NEW A, NEW t \in Turns(A), NEW item \in Items(A) PROVE ReadItem(t, item) \in Turns(A)
<1>1. AfterBlock(t) \in Turns(A)
  BY FlushType DEF AfterBlock
<1>2. CASE item.kind = "message"
  BY <1>2, ReadMessageType DEF ReadItem
<1>3. CASE item.kind = "reasoning"
  <2>1. Reasoning(item.text, "plain") \in PlainBlocks(A)
    <3>1. item.text \in Seq(A) /\ "reasoning" \in Kinds /\ "plain" \in Forms
      BY <1>3, ItemParts DEF Kinds, Forms
    <3> QED BY <3>1, PlainBlock DEF Reasoning
  <2>2. Append(AfterBlock(t).reasoning, Reasoning(item.text, "plain")) \in Seq(PlainBlocks(A))
    BY <1>1, <2>1, TurnParts, AppendType
  <2>3. ReadItem(t, item) = [AfterBlock(t) EXCEPT !.reasoning =
                               Append(AfterBlock(t).reasoning, Reasoning(item.text, "plain"))]
    BY <1>3 DEF ReadItem
  <2> QED BY <1>1, <2>2, <2>3 DEF Turns
<1>4. CASE item.kind = "function_call"
  <2>1. ToolCall(item.id, item.arguments) \in CallBlocks
    BY <1>4, ItemParts DEF ToolCall, CallBlocks
  <2>2. Append(AfterBlock(t).calls, ToolCall(item.id, item.arguments)) \in Seq(CallBlocks)
    BY <1>1, <2>1, TurnParts, AppendType
  <2>3. ReadItem(t, item) = [AfterBlock(t) EXCEPT !.calls =
                               Append(AfterBlock(t).calls, ToolCall(item.id, item.arguments))]
    BY <1>4 DEF ReadItem
  <2> QED BY <1>1, <2>2, <2>3 DEF Turns
<1>5. CASE item.kind = "function_call_output"
  <2>1. item.id \in Ids /\ Text(item.text) \in PlainBlocks(A)
    BY <1>5, ItemParts, PlainText
  <2>2. <<Text(item.text)>> \in Seq(PlainBlocks(A))
    BY <2>1
  <2>3. ToolResult(item.id, <<Text(item.text)>>) \in ResultBlocks(A)
    BY <2>1, <2>2, ResultOf
  <2>4. Append(t.outputs, ToolResult(item.id, <<Text(item.text)>>)) \in Seq(ResultBlocks(A))
    BY <2>3, TurnParts, AppendType
  <2>5. ReadItem(t, item) = [t EXCEPT !.outputs = Append(t.outputs, ToolResult(item.id, <<Text(item.text)>>))]
    BY <1>5 DEF ReadItem
  <2> QED BY <2>4, <2>5 DEF Turns
<1> QED BY <1>2, <1>3, <1>4, <1>5, ItemParts

\* The whole input, read item by item, decodes to messages over its atoms.
LEMMA DecodeResponsesType ==
    ASSUME NEW A, NEW input \in Seq(Items(A)) PROVE decode_responses_input(input) \in Seq(Messages(A))
<1> DEFINE n == Len(input)
           step == [p \in Turns(A) \X (1..n) |-> ReadItem(p[1], input[p[2]])]
           Solves(g) == g = [i \in 0..n |-> IF i = 0 THEN Turn ELSE ReadItem(g[i - 1], input[i])]
           read == CHOOSE g : Solves(g)
<1>1. n \in Nat /\ Turn \in Turns(A) /\ step \in [Turns(A) \X (1..n) -> Turns(A)]
  <2>1. \A t \in Turns(A), i \in 1..n : ReadItem(t, input[i]) \in Turns(A)
    BY ReadItemType
  <2> QED BY <2>1, TurnType
<1>2. \E g : Solves(g)
  <2> HIDE DEF n, step
  <2>1. PICK g \in [0..n -> Turns(A)] : Iterates(g, Turn, n, step)
    BY <1>1, Iteration
  <2>2. \A i \in 0..n : g[i] = IF i = 0 THEN Turn ELSE ReadItem(g[i - 1], input[i])
    <3> SUFFICES ASSUME NEW i \in 0..n PROVE g[i] = IF i = 0 THEN Turn ELSE ReadItem(g[i - 1], input[i])
      OBVIOUS
    <3>1. g[i] = IF i = 0 THEN Turn ELSE step[<<g[i - 1], i>>]
      BY <2>1 DEF Iterates
    <3>2. i # 0 => i - 1 \in 0..n /\ i \in 1..n
      BY <1>1
    <3>3. i # 0 => <<g[i - 1], i>> \in Turns(A) \X (1..n)
      BY <3>2
    <3> QED BY <3>1, <3>3 DEF step
  <2>3. Solves(g)
    BY <2>2
  <2> QED BY <2>3
<1>3. Solves(read)
  BY <1>2
<1> HIDE DEF read
<1>4. read[n] \in Turns(A)
  <2> DEFINE T == {i \in Nat : i =< n => read[i] \in Turns(A)}
  <2>1. 0 \in T
    BY <1>1, <1>3
  <2>2. ASSUME NEW i \in T PROVE i + 1 \in T
    <3>1. SUFFICES ASSUME i + 1 =< n PROVE read[i + 1] \in Turns(A)
      OBVIOUS
    <3>2. i \in Nat /\ read[i] \in Turns(A) /\ i + 1 \in 1..n /\ i + 1 \in 0..n /\ (i + 1) - 1 = i
      BY <1>1, <3>1
    <3>3. read[i + 1] = ReadItem(read[i], input[i + 1])
      BY <1>3, <3>2
    <3>4. input[i + 1] \in Items(A)
      BY <3>2
    <3> QED BY <3>2, <3>3, <3>4, ReadItemType
  <2> HIDE DEF T
  <2>3. T \in SUBSET Nat
    BY DEF T
  <2>4. T = Nat
    BY <2>1, <2>2, <2>3, SetInduction
  <2> QED BY <1>1, <2>4 DEF T
<1>5. decode_responses_input(input) = MessagesOf(EndOfInput(read[n]))
  BY DEF decode_responses_input, read
<1>6. EndOfInput(read[n]) \in Turns(A)
  BY <1>4, FlushType DEF EndOfInput
<1>7. \A t \in Turns(A) : MessagesOf(t) \in Seq(Messages(A))
  <2> SUFFICES ASSUME NEW t \in Turns(A) PROVE MessagesOf(t) \in Seq(Messages(A))
    OBVIOUS
  <2>1. <<>> \in Seq(PlainBlocks(A)) /\ <<>> \in Seq(Messages(A))
    OBVIOUS
  <2>2. <<Message("assistant", t.reasoning)>> \in Seq(Messages(A))
    <3>1. Message("assistant", t.reasoning) \in Messages(A)
      BY <2>1, ReasoningMessage
    <3> QED BY <3>1
  <2>3. (IF t.reasoning = <<>> THEN <<>> ELSE <<Message("assistant", t.reasoning)>>) \in Seq(Messages(A))
    BY <2>1, <2>2
  <2>4. t.messages \in Seq(Messages(A))
    BY TurnParts
  <2> QED BY <2>3, <2>4, ConcatSeq DEF MessagesOf
<1> QED BY <1>5, <1>6, <1>7

-----------------------------------------------------------------------------
\* A block encodes to plain input parts.
LEMMA ResponsesPartType ==
    ASSUME NEW A, NEW b \in Blocks(A) PROVE responses_part(b) \in Seq(PlainBlocks(A))
<1>0. <<>> \in Seq(PlainBlocks(A))
  OBVIOUS
<1>1. CASE b.kind \in {"tool_call", "tool_result"}
  <2>1. responses_part(b) = <<>>
    BY <1>1 DEF responses_part, MediaKinds
  <2> QED BY <1>0, <2>1
<1>2. CASE b.kind \notin {"tool_call", "tool_result"}
  <2>1. b \in PlainBlocks(A) /\ b.text \in Seq(A) /\ b.form \in Forms
    BY <1>2, BlockParts, PlainParts
  <2>2. "input_text" \in Kinds /\ "plain" \in Forms /\ InputOf(b.kind) \in Kinds
    BY DEF Kinds, Forms, InputOf
  <2>3. Block("input_text", b.text, "plain") \in PlainBlocks(A) /\ Block(InputOf(b.kind), b.text, b.form) \in PlainBlocks(A)
    BY <2>1, <2>2, PlainBlock
  <2>4. responses_part(b) \in {<<Block("input_text", b.text, "plain")>>, <<b>>,
                               <<Block(InputOf(b.kind), b.text, b.form)>>, <<>>}
    BY DEF responses_part
  <2>5. \A p \in PlainBlocks(A) : <<p>> \in Seq(PlainBlocks(A))
    OBVIOUS
  <2> QED BY <1>0, <2>1, <2>3, <2>4, <2>5
<1> QED BY <1>1, <1>2

\* Content encodes to plain input parts over its atoms.
LEMMA EncodeResponsesContentType ==
    ASSUME NEW A, NEW content \in Seq(Blocks(A))
    PROVE  encode_responses_content(content).value \in Seq(PlainBlocks(A))
<1> DEFINE parts == [i \in DOMAIN content |-> responses_part(content[i])]
           words == text_from_blocks(content)
<1>1. FlattenSeq(parts) \in Seq(PlainBlocks(A))
  <2>1. \A i \in DOMAIN content : parts[i] \in Seq(PlainBlocks(A))
    BY ResponsesPartType
  <2>2. parts = [i \in DOMAIN content |-> parts[i]]
    OBVIOUS
  <2> HIDE DEF parts
  <2> QED BY <2>1, <2>2, FlatType
<1>2. <<Text(words)>> \in Seq(PlainBlocks(A))
  <2>1. Text(words) \in PlainBlocks(A)
    BY TextFromBlocksType, PlainText
  <2> HIDE DEF words
  <2> QED BY <2>1
<1>3. encode_responses_content(content).value \in {FlattenSeq(parts), <<Text(words)>>}
  BY DEF encode_responses_content, Encoded, FlatMap, MapSeq
<1> HIDE DEF parts, words
<1> QED BY <1>1, <1>2, <1>3

\* Calls, results and reasoning encode to items of their own.
LEMMA SpecialType ==
    ASSUME NEW A, NEW b \in Blocks(A), IsSpecial(b) PROVE encode_responses_special_input(b) \in Items(A)
<1>1. CASE b.kind = "reasoning"
  <2>1. b.text \in Seq(A)
    BY <1>1, BlockParts, PlainParts DEF Kinds
  <2> QED BY <1>1, <2>1, ItemsOf DEF encode_responses_special_input
<1>2. CASE b.kind = "tool_call"
  <2>1. b.id \in Ids /\ json_string(b.arguments) \in Nat
    BY <1>2, BlockParts DEF CallBlocks, json_string
  <2> QED BY <1>2, <2>1, ItemsOf DEF encode_responses_special_input
<1>3. CASE b.kind = "tool_result"
  <2>1. b.id \in Ids /\ b.content \in Seq(Blocks(A))
    BY <1>3, BlockParts, ResultParts, PlainsAreBlocks, SeqIn
  <2>2. text_from_blocks(b.content) \in Seq(A)
    BY <2>1, TextFromBlocksType
  <2> QED BY <1>3, <2>1, <2>2, ItemsOf DEF encode_responses_special_input
<1> QED BY <1>1, <1>2, <1>3 DEF IsSpecial

\* A message encodes to items over its atoms.
LEMMA ResponsesMessageType ==
    ASSUME NEW A, NEW m \in Messages(A) PROVE encode_responses_message(m).value \in Seq(Items(A))
<1> DEFINE keeps(b) == ~(b.kind = "reasoning" /\ b.form = "signed")
           sifted == [i \in DOMAIN m.content |-> IF keeps(m.content[i]) THEN <<m.content[i]>> ELSE <<>>]
           content == FlattenSeq(sifted)
           some == [i \in DOMAIN content |-> IF IsSpecial(content[i]) THEN <<content[i]>> ELSE <<>>]
           rest == [i \in DOMAIN content |-> IF ~IsSpecial(content[i]) THEN <<content[i]>> ELSE <<>>]
           chosen == FlattenSeq(some)
           visible == FlattenSeq(rest)
           special == [i \in DOMAIN chosen |-> encode_responses_special_input(chosen[i])]
           item == MessageItem(role_to_responses(m.role), encode_responses_content(visible).value)
           B == {b \in Blocks(A) : IsSpecial(b)}
<1>1. m.content \in Seq(Blocks(A)) /\ m.role \in Roles
  BY MessageParts
<1>2. content \in Seq(Blocks(A))
  <2>1. \A i \in DOMAIN m.content : sifted[i] = <<>> \/ (sifted[i] = <<m.content[i]>> /\ m.content[i] \in Blocks(A))
    BY <1>1
  <2>2. sifted = [i \in DOMAIN m.content |-> sifted[i]]
    OBVIOUS
  <2> HIDE DEF sifted
  <2> QED BY <1>1, <2>1, <2>2, ChosenType
<1>3. /\ encode_responses_message(m).value \in {<<>>, special, special \o <<item>>}
  BY DEF encode_responses_message, Encoded, Those, FlatMap, MapSeq
<1> HIDE DEF content
<1>4. visible \in Seq(Blocks(A))
  <2>1. \A i \in DOMAIN content : rest[i] = <<>> \/ (rest[i] = <<content[i]>> /\ content[i] \in Blocks(A))
    BY <1>2
  <2>2. rest = [i \in DOMAIN content |-> rest[i]]
    OBVIOUS
  <2> HIDE DEF rest
  <2> QED BY <1>2, <2>1, <2>2, ChosenType
<1>5. chosen \in Seq(B)
  <2>1. \A i \in DOMAIN content : some[i] = <<>> \/ (some[i] = <<content[i]>> /\ content[i] \in B)
    BY <1>2
  <2>2. some = [i \in DOMAIN content |-> some[i]]
    OBVIOUS
  <2> HIDE DEF some, B
  <2> QED BY <1>2, <2>1, <2>2, ChosenType
<1> HIDE DEF visible, chosen
<1>6. special \in Seq(Items(A))
  <2>1. \A b \in B : encode_responses_special_input(b) \in Items(A)
    BY SpecialType
  <2>2. \A i \in DOMAIN chosen : special[i] \in Items(A)
    <3> HIDE DEF B
    <3> QED BY <1>5, <2>1
  <2>3. special = [i \in DOMAIN chosen |-> special[i]]
    OBVIOUS
  <2> HIDE DEF special, B
  <2> QED BY <1>5, <2>2, <2>3, MapType
<1>7. item \in Items(A)
  <2>1. encode_responses_content(visible).value \in Seq(PlainBlocks(A)) /\ role_to_responses(m.role) \in Roles
    BY <1>1, <1>4, EncodeResponsesContentType DEF role_to_responses, Roles
  <2> QED BY <2>1, ItemsOf
<1> HIDE DEF special, item
<1>8. <<item>> \in Seq(Items(A)) /\ <<>> \in Seq(Items(A))
  BY <1>7
<1> QED BY <1>3, <1>6, <1>8, ConcatSeq

\* A whole request encodes to a Responses body over its atoms, its instructions first.
LEMMA EncodeResponsesType ==
    ASSUME NEW A, NEW ir, ir.instructions \in Seq(Messages(A)), ir.messages \in Seq(Messages(A))
    PROVE  /\ encode_responses_request(ir).value.instructions = SystemText(ir.instructions)
           /\ encode_responses_request(ir).value.input \in Seq(Items(A))
<1> DEFINE messages == ir.messages
           single == <<MessageItem("user", messages[1].content)>>
           parts == [i \in DOMAIN messages |-> encode_responses_message(messages[i]).value]
           alone == Len(messages) = 1 /\ messages[1].role = "user" /\ Len(messages[1].content) = 1
                    /\ messages[1].content[1].kind = "text"
<1>1. FlattenSeq(parts) \in Seq(Items(A))
  <2>1. \A i \in DOMAIN messages : parts[i] \in Seq(Items(A))
    BY ResponsesMessageType
  <2>2. parts = [i \in DOMAIN messages |-> parts[i]]
    OBVIOUS
  <2> HIDE DEF parts
  <2> QED BY <2>1, <2>2, FlatType
<1>2. alone => single \in Seq(Items(A))
  <2> SUFFICES ASSUME alone PROVE single \in Seq(Items(A))
    OBVIOUS
  <2>1. messages[1] \in Messages(A)
    OBVIOUS
  <2>2. messages[1].content \in Seq(Blocks(A))
    BY <2>1, MessageParts
  <2> DEFINE c == messages[1].content
  <2>3. c[1] \in PlainBlocks(A)
    <3>1. c[1] \in Blocks(A)
      BY <2>2
    <3> QED BY <3>1, BlockParts DEF Kinds
  <2>4. c \in Seq(PlainBlocks(A))
    <3>1. c \in Seq(Blocks(A)) /\ Len(c) = 1
      BY <2>2
    <3> HIDE DEF c
    <3>2. c = <<c[1]>>
      BY <3>1
    <3>3. <<c[1]>> \in Seq(PlainBlocks(A))
      BY <2>3
    <3> QED BY <3>2, <3>3
  <2>5. MessageItem("user", c) \in Items(A)
    BY <2>4, ItemsOf DEF Roles
  <2> QED BY <2>5
<1>3. /\ encode_responses_request(ir).value.instructions = SystemText(ir.instructions)
      /\ encode_responses_request(ir).value.input = IF alone THEN single ELSE FlattenSeq(parts)
  BY DEF encode_responses_request, encode_responses_input, ResponsesBody, Encoded, EncodeAll, FlatMap, MapSeq
<1> HIDE DEF parts, single, alone
<1> QED BY <1>1, <1>2, <1>3

(***************************************************************************)
(* What a reader of a body sees, and what the masker leaves of a request.  *)
(***************************************************************************)

Does == {"says", "thinks", "calls", "answers", "instructs"}
Events(A) == [does : Does, text : Seq(A), id : Ids \cup {NoId}]

\* An event of a view.
LEMMA EventOf ==
    ASSUME NEW A, NEW d \in Does, NEW t \in Seq(A), NEW id \in Ids \cup {NoId}
    PROVE  Event(d, t, id) \in Events(A)
  BY DEF Event, Events

\* A plain block seen as an event.
LEMMA SaysType == ASSUME NEW A, NEW b \in PlainBlocks(A) PROVE Says(b) \in Events(A)
<1> DEFINE d == IF b.kind \in {"reasoning", "thinking"} THEN "thinks" ELSE "says"
<1>1. d \in Does /\ b.text \in Seq(A) /\ NoId \in Ids \cup {NoId}
  BY PlainParts DEF Does
<1>2. Says(b) = Event(d, b.text, NoId)
  BY DEF Says
<1> HIDE DEF d
<1> QED BY <1>1, <1>2, EventOf

\* Plain blocks seen as events.
LEMMA AllSay ==
    ASSUME NEW A, NEW s \in Seq(PlainBlocks(A)) PROVE MapSeq(s, Says) \in Seq(Events(A))
<1>1. \A i \in DOMAIN s : Says(s[i]) \in Events(A)
  BY SaysType
<1> QED BY <1>1 DEF MapSeq

\* Nothing seen.
LEMMA EmptyEvents == ASSUME NEW A PROVE <<>> \in Seq(A)
  OBVIOUS

\* What a reader of a Chat Completions message sees is over its atoms.
LEMMA ViewOpenAiType ==
    ASSUME NEW A, NEW m \in OpenAiMessages(A) PROVE ViewOpenAi(m) \in Seq(Events(A))
<1> DEFINE words == JoinText(m.content)
           said == MapSeq(m.reasoning \o m.content, Says)
           calls == [i \in DOMAIN m.tool_calls |-> Event("calls", <<>>, m.tool_calls[i].id)]
<1>1. words \in Seq(A) /\ m.tool_call_id \in Ids \cup {NoId} /\ {"instructs", "answers", "calls"} \subseteq Does
  BY OpenAiParts, JoinTextType DEF Does
<1>2. said \in Seq(Events(A))
  <2>1. m.reasoning \o m.content \in Seq(PlainBlocks(A))
    BY OpenAiParts, ConcatSeq
  <2> QED BY <2>1, AllSay
<1>3. calls \in Seq(Events(A))
  <2>1. \A i \in DOMAIN m.tool_calls : m.tool_calls[i].id \in Ids
    <3>1. m.tool_calls \in Seq(WireCalls)
      BY OpenAiParts
    <3>2. \A c \in WireCalls : c.id \in Ids
      BY DEF WireCalls
    <3> QED BY <3>1, <3>2
  <2>2. \A i \in DOMAIN m.tool_calls : calls[i] \in Events(A)
    BY <1>1, <2>1, EmptyEvents, EventOf
  <2>3. calls = [i \in DOMAIN m.tool_calls |-> calls[i]] /\ m.tool_calls \in Seq(WireCalls)
    BY OpenAiParts
  <2> HIDE DEF calls
  <2> QED BY <2>2, <2>3, MapType
<1>4. ViewOpenAi(m) = IF m.role \in {"system", "developer"} THEN <<Event("instructs", words, NoId)>>
                      ELSE IF m.role = "tool" THEN <<Event("answers", words, m.tool_call_id)>>
                      ELSE said \o calls
  BY DEF ViewOpenAi, Answer, MapSeq
<1> HIDE DEF words, said, calls
<1>5. Event("instructs", words, NoId) \in Events(A) /\ Event("answers", words, m.tool_call_id) \in Events(A)
  BY <1>1, EventOf
<1>6. /\ <<Event("instructs", words, NoId)>> \in Seq(Events(A))
      /\ <<Event("answers", words, m.tool_call_id)>> \in Seq(Events(A))
  BY <1>5
<1> QED BY <1>2, <1>3, <1>4, <1>6, ConcatSeq

\* The same for an Anthropic block.
LEMMA ViewAnthropicType ==
    ASSUME NEW A, NEW b \in AnthropicBlocks(A) PROVE ViewAnthropicBlock(b) \in Events(A)
<1>0. {"answers", "calls"} \subseteq Does /\ <<>> \in Seq(A)
  BY DEF Does
<1>1. CASE b.kind = "tool_use"
  <2>1. b.id \in Ids
    BY <1>1, AnthropicParts DEF AnthropicCalls
  <2> QED BY <1>0, <1>1, <2>1, EventOf DEF ViewAnthropicBlock
<1>2. CASE b.kind = "tool_result"
  <2>1. b.id \in Ids /\ b.content \in Seq(PlainBlocks(A))
    BY <1>2, AnthropicParts, ResultParts
  <2>2. JoinText(b.content) \in Seq(A)
    BY <2>1, JoinTextType
  <2> QED BY <1>0, <1>2, <2>1, <2>2, EventOf DEF ViewAnthropicBlock, Answer
<1>3. CASE b.kind \notin {"tool_use", "tool_result"}
  <2>1. b \in PlainBlocks(A)
    BY <1>3, AnthropicParts
  <2> QED BY <1>3, <2>1, SaysType DEF ViewAnthropicBlock
<1> QED BY <1>1, <1>2, <1>3

\* The same for a Responses item.
LEMMA ViewResponsesType ==
    ASSUME NEW A, NEW x \in Items(A) PROVE ViewResponses(x) \in Seq(Events(A))
<1>0. {"thinks", "answers", "calls"} \subseteq Does /\ <<>> \in Seq(A) /\ NoId \in Ids \cup {NoId}
  BY DEF Does
<1>1. \A e \in Events(A) : <<e>> \in Seq(Events(A))
  OBVIOUS
<1>2. CASE x.kind = "message"
  BY <1>2, ItemParts, AllSay DEF ViewResponses
<1>3. CASE x.kind = "reasoning"
  <2>1. Event("thinks", x.text, NoId) \in Events(A)
    BY <1>0, <1>3, ItemParts, EventOf
  <2> QED BY <1>1, <1>3, <2>1 DEF ViewResponses
<1>4. CASE x.kind = "function_call"
  <2>1. Event("calls", <<>>, x.id) \in Events(A)
    BY <1>0, <1>4, ItemParts, EventOf
  <2> QED BY <1>1, <1>4, <2>1 DEF ViewResponses
<1>5. CASE x.kind = "function_call_output"
  <2>1. Event("answers", x.text, x.id) \in Events(A)
    BY <1>0, <1>5, ItemParts, EventOf
  <2> QED BY <1>1, <1>5, <2>1 DEF ViewResponses
<1> QED BY <1>2, <1>3, <1>4, <1>5, ItemParts

\* A body of each format, over a set of atoms.
BodyOver(format, body, A) ==
    CASE format = "openai_chat" -> body \in Seq(OpenAiMessages(A))
      [] format = "anthropic_messages" -> body.system \in Seq(A) /\ body.messages \in Seq(AnthropicMessages(A))
      [] OTHER -> body.instructions \in Seq(A) /\ body.input \in Seq(Items(A))

\* What a reader of a body sees is over the atoms of the body, in every format.
LEMMA ViewType ==
    ASSUME NEW A, NEW format, NEW body, BodyOver(format, body, A) PROVE View(format, body) \in Seq(Events(A))
<1>1. \A t \in Seq(A) : <<Event("instructs", t, NoId)>> \in Seq(Events(A))
  <2> SUFFICES ASSUME NEW t \in Seq(A) PROVE <<Event("instructs", t, NoId)>> \in Seq(Events(A))
    OBVIOUS
  <2>1. Event("instructs", t, NoId) \in Events(A)
    BY EventOf DEF Does
  <2> QED BY <2>1
<1>2. CASE format = "openai_chat"
  <2> DEFINE parts == [i \in DOMAIN body |-> ViewOpenAi(body[i])]
  <2>1. body \in Seq(OpenAiMessages(A))
    BY <1>2 DEF BodyOver
  <2>2. \A i \in DOMAIN body : parts[i] \in Seq(Events(A))
    BY <2>1, ViewOpenAiType
  <2>3. parts = [i \in DOMAIN body |-> parts[i]] /\ View(format, body) = FlattenSeq(parts)
    BY <1>2 DEF View, FlatMap, MapSeq
  <2> HIDE DEF parts
  <2> QED BY <2>1, <2>2, <2>3, FlatType
<1>3. CASE format = "anthropic_messages"
  <2> DEFINE messages == body.messages
             parts == [i \in DOMAIN messages |-> MapSeq(messages[i].content, ViewAnthropicBlock)]
  <2>1. body.system \in Seq(A) /\ messages \in Seq(AnthropicMessages(A))
    BY <1>3 DEF BodyOver
  <2>2. ASSUME NEW i \in DOMAIN messages PROVE parts[i] \in Seq(Events(A))
    <3> DEFINE c == messages[i].content
    <3>1. c \in Seq(AnthropicBlocks(A))
      <4>1. messages[i] \in AnthropicMessages(A)
        BY <2>1
      <4> QED BY <4>1 DEF AnthropicMessages
    <3>2. \A j \in DOMAIN c : ViewAnthropicBlock(c[j]) \in Events(A)
      BY <3>1, ViewAnthropicType
    <3>3. parts[i] = [j \in DOMAIN c |-> ViewAnthropicBlock(c[j])]
      BY DEF MapSeq
    <3> HIDE DEF c, parts
    <3> QED BY <3>1, <3>2, <3>3
  <2>3. /\ parts = [i \in DOMAIN messages |-> parts[i]]
        /\ View(format, body) = <<Event("instructs", body.system, NoId)>> \o FlattenSeq(parts)
    BY <1>3 DEF View, FlatMap, MapSeq
  <2> HIDE DEF parts, messages
  <2>4. FlattenSeq(parts) \in Seq(Events(A))
    BY <2>1, <2>2, <2>3, FlatType
  <2> QED BY <1>1, <2>1, <2>3, <2>4, ConcatSeq
<1>4. CASE format \notin {"openai_chat", "anthropic_messages"}
  <2> DEFINE input == body.input
             parts == [i \in DOMAIN input |-> ViewResponses(input[i])]
  <2>1. body.instructions \in Seq(A) /\ input \in Seq(Items(A))
    BY <1>4 DEF BodyOver
  <2>2. \A i \in DOMAIN input : parts[i] \in Seq(Events(A))
    BY <2>1, ViewResponsesType
  <2>3. /\ parts = [i \in DOMAIN input |-> parts[i]]
        /\ View(format, body) = <<Event("instructs", body.instructions, NoId)>> \o FlattenSeq(parts)
    BY <1>4 DEF View, FlatMap, MapSeq
  <2> HIDE DEF parts, input
  <2>4. FlattenSeq(parts) \in Seq(Events(A))
    BY <2>1, <2>2, <2>3, FlatType
  <2> QED BY <1>1, <2>1, <2>3, <2>4, ConcatSeq
<1> QED BY <1>2, <1>3, <1>4

-----------------------------------------------------------------------------
(* Requests over a set of atoms, and their writing. *)

RequestOver(ir, A) == ir.instructions \in Seq(Messages(A)) /\ ir.messages \in Seq(Messages(A))

\* Encoding brings in no atom, in any format.
LEMMA EncodeType ==
    ASSUME NEW A, NEW format, NEW ir, RequestOver(ir, A), ir.preserved = <<>>
    PROVE  BodyOver(format, encode_request(format, ir).value, A)
<1>1. exact_preserved_request(ir, format) = <<>>
  BY DEF exact_preserved_request
<1>2. encode_request(format, ir) = CASE format = "openai_chat" -> encode_openai_request(ir)
                                     [] format = "anthropic_messages" -> encode_anthropic_request(ir)
                                     [] OTHER -> encode_responses_request(ir)
  BY <1>1 DEF encode_request
<1>3. SystemText(ir.instructions) \in Seq(A)
  BY SystemTextType DEF RequestOver
<1> QED BY <1>2, <1>3, EncodeOpenAiType, EncodeAnthropicType, EncodeResponsesType DEF RequestOver, BodyOver

Safe == Int \ {Secret}

\* scrub_string leaves no secret in a text.
LEMMA ScrubText ==
    ASSUME NEW t \in Seq(Int) PROVE scrub_string(t) \in Seq(Safe)
<1>1. \A i \in DOMAIN t : (IF t[i] = Secret THEN Token ELSE t[i]) \in Safe
  BY DEF Safe, Secret, Token
<1> QED BY <1>1 DEF scrub_string, MapSeq

\* The masker leaves no secret in a plain block.
LEMMA ScrubPlain ==
    ASSUME NEW b \in PlainBlocks(Int) PROVE scrub_block(b) \in PlainBlocks(Safe)
<1>1. b.text \in Seq(Int) /\ b.kind # "tool_call"
  BY PlainParts, KindsApart
<1>2. scrub_string(b.text) \in Seq(Safe)
  BY <1>1, ScrubText
<1>3. scrub_block(b) = [b EXCEPT !.text = scrub_string(b.text)]
  BY <1>1 DEF scrub_block
<1> QED BY <1>2, <1>3 DEF PlainBlocks

\* Nor in blocks of any kind, tool results included.
LEMMA ScrubBlocks ==
    ASSUME NEW content \in Seq(Blocks(Int)) PROVE scrub_blocks(content) \in Seq(Blocks(Safe))
<1> DEFINE scrubbed == [i \in DOMAIN content |->
                IF content[i].kind = "tool_result"
                THEN ToolResult(content[i].id, MapSeq(content[i].content, scrub_block))
                ELSE scrub_block(content[i])]
<1>1. ASSUME NEW i \in DOMAIN content PROVE scrubbed[i] \in Blocks(Safe)
  <2>1. content[i] \in Blocks(Int)
    OBVIOUS
  <2>2. CASE content[i].kind = "tool_result"
    <3> DEFINE c == content[i].content
    <3>1. content[i].id \in Ids /\ c \in Seq(PlainBlocks(Int))
      BY <2>1, <2>2, BlockParts, ResultParts
    <3>2. \A j \in DOMAIN c : scrub_block(c[j]) \in PlainBlocks(Safe)
      BY <3>1, ScrubPlain
    <3>3. MapSeq(c, scrub_block) \in Seq(PlainBlocks(Safe))
      <4> HIDE DEF c
      <4> QED BY <3>1, <3>2 DEF MapSeq
    <3>4. ToolResult(content[i].id, MapSeq(c, scrub_block)) \in Blocks(Safe)
      BY <3>1, <3>3, ResultOf DEF Blocks
    <3> QED BY <2>2, <3>4
  <2>3. CASE content[i].kind = "tool_call"
    <3>1. content[i] \in Blocks(Safe)
      BY <2>1, <2>3, BlockParts DEF Blocks
    <3> QED BY <2>3, <3>1 DEF scrub_block
  <2>4. CASE content[i].kind \notin {"tool_call", "tool_result"}
    <3>1. scrub_block(content[i]) \in Blocks(Safe)
      BY <2>1, <2>4, BlockParts, ScrubPlain DEF Blocks
    <3> QED BY <2>4, <3>1
  <2> QED BY <2>2, <2>3, <2>4
<1>2. scrubbed = [i \in DOMAIN content |-> scrubbed[i]] /\ scrub_blocks(content) = scrubbed
  BY DEF scrub_blocks, MapSeq
<1> HIDE DEF scrubbed
<1> QED BY <1>1, <1>2, MapType

\* Nor in messages.
LEMMA ScrubMessages ==
    ASSUME NEW messages \in Seq(Messages(Int)) PROVE scrub_messages(messages) \in Seq(Messages(Safe))
<1> DEFINE scrubbed == [i \in DOMAIN messages |-> Message(messages[i].role, scrub_blocks(messages[i].content))]
<1>1. ASSUME NEW i \in DOMAIN messages PROVE scrubbed[i] \in Messages(Safe)
  <2>1. messages[i].role \in Roles /\ messages[i].content \in Seq(Blocks(Int))
    BY MessageParts
  <2> QED BY <2>1, ScrubBlocks, MessageOf
<1>2. scrubbed = [i \in DOMAIN messages |-> scrubbed[i]] /\ scrub_messages(messages) = scrubbed
  BY DEF scrub_messages, MapSeq
<1> HIDE DEF scrubbed
<1> QED BY <1>1, <1>2, MapType

(***************************************************************************)
(* What clients write decodes to requests over its atoms.                  *)
(***************************************************************************)

ClientItems(format, A) ==
    CASE format = "openai_chat" -> Seq(OpenAiAsks(A))
      [] format = "anthropic_messages" -> Seq(AnthropicMessages(A))
      [] OTHER -> Seq(Items(A))

\* A message a Chat Completions client writes.
LEMMA OpenAiSays ==
    ASSUME NEW A, NEW role \in Roles \ {"tool"}, NEW content \in Seq(PlainBlocks(A))
    PROVE  OpenAiMessage(role, content) \in OpenAiAsks(A)
<1>1. <<>> \in Seq(PlainBlocks(A)) /\ <<>> \in Seq(WireCalls)
  OBVIOUS
<1> QED BY <1>1 DEF OpenAiMessage, OpenAiMessages, OpenAiAsks

\* Plain blocks are Anthropic blocks.
LEMMA PlainsAreAnthropic == ASSUME NEW A PROVE PlainBlocks(A) \subseteq AnthropicBlocks(A)
  BY DEF AnthropicBlocks

\* A sequence of one element.
LEMMA OneOf == ASSUME NEW S, NEW x \in S PROVE <<x>> \in Seq(S)
  OBVIOUS

\* What a client says, in its own format.
LEMMA SaysItems ==
    ASSUME NEW A, NEW format, NEW role \in {"user", "assistant"}, NEW content \in Seq(PlainBlocks(A))
    PROVE  ClientSays(format, role, content) \in ClientItems(format, A)
<1>1. role \in Roles \ {"tool"} /\ role \in Roles
  BY DEF Roles
<1>2. CASE format = "openai_chat"
  BY <1>1, <1>2, OpenAiSays, OneOf DEF ClientSays, ClientItems
<1>3. CASE format = "anthropic_messages"
  <2>1. content \in Seq(AnthropicBlocks(A))
    BY PlainsAreAnthropic, SeqIn
  <2>2. Message(role, content) \in AnthropicMessages(A)
    BY <1>1, <2>1 DEF Message, AnthropicMessages
  <2> QED BY <1>3, <2>2, OneOf DEF ClientSays, ClientItems
<1>4. CASE format \notin {"openai_chat", "anthropic_messages"}
  <2>1. MessageItem(role, content) \in Items(A)
    BY <1>1, ItemsOf
  <2> QED BY <1>4, <2>1, OneOf DEF ClientSays, ClientItems
<1> QED BY <1>2, <1>3, <1>4

\* The calls a client repeats of the assistant, in its own format.
LEMMA CallsItems ==
    ASSUME NEW A, NEW format, NEW thought \in Seq(A), NEW words \in Seq(PlainBlocks(A)), NEW ids \in Seq(Ids)
    PROVE  ClientCalls(format, thought, words, ids) \in ClientItems(format, A)
<1>0. /\ {"reasoning", "thinking"} \subseteq Kinds /\ {"plain", "signed"} \subseteq Forms
      /\ "assistant" \in Roles \ {"tool"} /\ "assistant" \in Roles
  BY DEF Kinds, Forms, Roles
<1>1. \A t \in A : <<t>> \in Seq(A)
  OBVIOUS
<1>2. CASE format = "openai_chat"
  <2> DEFINE reasoning == MapSeq(thought, LAMBDA t : Reasoning(<<t>>, "plain"))
             calls == MapSeq(ids, LAMBDA id : [id |-> id, arguments |-> 1])
             m == OpenAiMessage("assistant", words)
  <2>1. reasoning \in Seq(PlainBlocks(A))
    <3>1. \A t \in A : Reasoning(<<t>>, "plain") \in PlainBlocks(A)
      BY <1>0, <1>1, PlainBlock DEF Reasoning
    <3>2. reasoning = [i \in DOMAIN thought |-> reasoning[i]] /\ \A i \in DOMAIN thought : reasoning[i] \in PlainBlocks(A)
      BY <3>1 DEF MapSeq
    <3> HIDE DEF reasoning
    <3> QED BY <3>2, MapType
  <2>2. calls \in Seq(WireCalls)
    <3>1. calls = [i \in DOMAIN ids |-> calls[i]] /\ \A i \in DOMAIN ids : calls[i] \in WireCalls
      BY DEF MapSeq, WireCalls
    <3> HIDE DEF calls
    <3> QED BY <3>1, MapType
  <2>3. m \in OpenAiAsks(A) /\ m.role = "assistant"
    BY <1>0, OpenAiSays DEF OpenAiMessage
  <2>4. ClientCalls(format, thought, words, ids) = <<[m EXCEPT !.reasoning = reasoning, !.tool_calls = calls]>>
    BY <1>2 DEF ClientCalls
  <2> HIDE DEF reasoning, calls, m
  <2>5. [m EXCEPT !.reasoning = reasoning, !.tool_calls = calls] \in OpenAiAsks(A)
    BY <2>1, <2>2, <2>3 DEF OpenAiAsks, OpenAiMessages
  <2> QED BY <1>2, <2>4, <2>5, OneOf DEF ClientItems
<1>3. CASE format = "anthropic_messages"
  <2> DEFINE thoughts == MapSeq(thought, LAMBDA t : Block("thinking", <<t>>, "signed"))
             calls == MapSeq(ids, LAMBDA id : [kind |-> "tool_use", id |-> id, arguments |-> 0])
  <2>1. thoughts \in Seq(AnthropicBlocks(A))
    <3>1. \A t \in A : Block("thinking", <<t>>, "signed") \in AnthropicBlocks(A)
      BY <1>0, <1>1, PlainBlock, PlainsAreAnthropic
    <3>2. thoughts = [i \in DOMAIN thought |-> thoughts[i]] /\ \A i \in DOMAIN thought : thoughts[i] \in AnthropicBlocks(A)
      BY <3>1 DEF MapSeq
    <3> HIDE DEF thoughts
    <3> QED BY <3>2, MapType
  <2>2. calls \in Seq(AnthropicBlocks(A))
    <3>1. \A id \in Ids : [kind |-> "tool_use", id |-> id, arguments |-> 0] \in AnthropicBlocks(A)
      BY DEF AnthropicCalls, AnthropicBlocks
    <3> QED BY <3>1 DEF MapSeq
  <2>3. words \in Seq(AnthropicBlocks(A))
    BY PlainsAreAnthropic, SeqIn
  <2>4. ClientCalls(format, thought, words, ids) = <<Message("assistant", thoughts \o words \o calls)>>
    BY <1>3 DEF ClientCalls
  <2> HIDE DEF thoughts, calls
  <2>5. thoughts \o words \o calls \in Seq(AnthropicBlocks(A))
    BY <2>1, <2>2, <2>3, ConcatSeq
  <2>6. Message("assistant", thoughts \o words \o calls) \in AnthropicMessages(A)
    BY <1>0, <2>5 DEF Message, AnthropicMessages
  <2> QED BY <1>3, <2>4, <2>6, OneOf DEF ClientItems
<1>4. CASE format \notin {"openai_chat", "anthropic_messages"}
  <2> DEFINE thoughts == MapSeq(thought, LAMBDA t : ReasoningItem(<<t>>))
             said == IF words = <<>> THEN <<>> ELSE <<MessageItem("assistant", words)>>
             calls == MapSeq(ids, LAMBDA id : CallItem(id, 1))
  <2>1. thoughts \in Seq(Items(A))
    <3>1. \A t \in A : ReasoningItem(<<t>>) \in Items(A)
      BY <1>1, ItemsOf
    <3>2. thoughts = [i \in DOMAIN thought |-> thoughts[i]] /\ \A i \in DOMAIN thought : thoughts[i] \in Items(A)
      BY <3>1 DEF MapSeq
    <3> HIDE DEF thoughts
    <3> QED BY <3>2, MapType
  <2>2. calls \in Seq(Items(A))
    <3>1. \A id \in Ids : CallItem(id, 1) \in Items(A)
      BY ItemsOf
    <3> QED BY <3>1 DEF MapSeq
  <2>3. said \in Seq(Items(A))
    <3>1. MessageItem("assistant", words) \in Items(A)
      BY <1>0, ItemsOf
    <3> QED BY <3>1
  <2>4. ClientCalls(format, thought, words, ids) = thoughts \o said \o calls
    BY <1>4 DEF ClientCalls
  <2> HIDE DEF thoughts, said, calls
  <2> QED BY <1>4, <2>1, <2>2, <2>3, <2>4, ConcatSeq DEF ClientItems
<1> QED BY <1>2, <1>3, <1>4

\* Items added to a conversation.
LEMMA ItemsConcat ==
    ASSUME NEW A, NEW format, NEW s \in ClientItems(format, A), NEW t \in ClientItems(format, A)
    PROVE  s \o t \in ClientItems(format, A) /\ <<>> \in ClientItems(format, A)
<1>1. PICK S : ClientItems(format, A) = Seq(S)
  BY DEF ClientItems
<1> QED BY <1>1, ConcatSeq

\* The answers to calls, in the format of the client.
LEMMA AnswersItems ==
    ASSUME NEW A, NEW format, NEW ids \in Seq(Ids), NEW outs, \A i \in DOMAIN ids : outs[i] \in Seq(PlainBlocks(A)),
           NEW words \in Seq(PlainBlocks(A))
    PROVE  ClientAnswers(format, ids, outs, words) \in ClientItems(format, A)
<1> DEFINE more == IF words = <<>> THEN <<>> ELSE ClientSays(format, "user", words)
<1>1. more \in ClientItems(format, A)
  BY SaysItems, ItemsConcat
<1> HIDE DEF more
<1>2. CASE format = "openai_chat"
  <2> DEFINE tools == [i \in DOMAIN ids |-> [OpenAiMessage("tool", outs[i]) EXCEPT !.tool_call_id = ids[i]]]
  <2>1. ASSUME NEW i \in DOMAIN ids PROVE tools[i] \in OpenAiAsks(A)
    <3>1. <<>> \in Seq(PlainBlocks(A)) /\ <<>> \in Seq(WireCalls) /\ "tool" \in Roles /\ ids[i] \in Ids
      BY DEF Roles
    <3>2. tools[i] = [role |-> "tool", content |-> outs[i], reasoning |-> <<>>, tool_calls |-> <<>>,
                      tool_call_id |-> ids[i]]
      BY DEF OpenAiMessage
    <3> HIDE DEF tools
    <3> QED BY <3>1, <3>2 DEF OpenAiAsks, OpenAiMessages
  <2>2. /\ tools = [i \in DOMAIN ids |-> tools[i]]
        /\ ClientAnswers(format, ids, outs, words) = tools \o more
    BY <1>2 DEF ClientAnswers, more
  <2> HIDE DEF tools
  <2>3. tools \in Seq(OpenAiAsks(A))
    BY <2>1, <2>2, MapType
  <2> QED BY <1>1, <1>2, <2>2, <2>3, ConcatSeq DEF ClientItems
<1>3. CASE format = "anthropic_messages"
  <2> DEFINE results == [i \in DOMAIN ids |-> ToolResult(ids[i], outs[i])]
  <2>1. ASSUME NEW i \in DOMAIN ids PROVE results[i] \in AnthropicBlocks(A)
    <3>1. ToolResult(ids[i], outs[i]) \in ResultBlocks(A)
      BY ResultOf
    <3> QED BY <3>1 DEF AnthropicBlocks
  <2>2. /\ results = [i \in DOMAIN ids |-> results[i]]
        /\ ClientAnswers(format, ids, outs, words) = <<Message("user", results \o words)>>
    BY <1>3 DEF ClientAnswers, ToolResult
  <2> HIDE DEF results
  <2>3. results \o words \in Seq(AnthropicBlocks(A))
    <3>1. results \in Seq(AnthropicBlocks(A)) /\ words \in Seq(AnthropicBlocks(A))
      BY <2>1, <2>2, MapType, PlainsAreAnthropic, SeqIn
    <3> QED BY <3>1, ConcatSeq
  <2>4. Message("user", results \o words) \in AnthropicMessages(A)
    BY <2>3 DEF Message, AnthropicMessages, Roles
  <2> QED BY <1>3, <2>2, <2>4, OneOf DEF ClientItems
<1>4. CASE format \notin {"openai_chat", "anthropic_messages"}
  <2> DEFINE outputs == [i \in DOMAIN ids |-> OutputItem(ids[i], JoinText(outs[i]))]
  <2>1. ASSUME NEW i \in DOMAIN ids PROVE outputs[i] \in Items(A)
    <3>1. JoinText(outs[i]) \in Seq(A) /\ ids[i] \in Ids
      BY JoinTextType
    <3> QED BY <3>1, ItemsOf
  <2>2. /\ outputs = [i \in DOMAIN ids |-> outputs[i]]
        /\ ClientAnswers(format, ids, outs, words) = outputs \o more
    BY <1>4 DEF ClientAnswers, more
  <2> HIDE DEF outputs
  <2>3. outputs \in Seq(Items(A))
    BY <2>1, <2>2, MapType
  <2> QED BY <1>1, <1>4, <2>2, <2>3, ConcatSeq DEF ClientItems
<1> QED BY <1>2, <1>3, <1>4

-----------------------------------------------------------------------------
(* What the server reads of it. *)

IsRequest(ir) ==
    ir = [format |-> ir.format, instructions |-> ir.instructions, messages |-> ir.messages,
          preserved |-> ir.preserved]

\* A system text becomes at most one instruction.
LEMMA SystemInstruction ==
    ASSUME NEW A, NEW t \in Seq(A)
    PROVE  (IF t = <<>> THEN <<>> ELSE <<Message("system", <<Text(t)>>)>>) \in Seq(Messages(A))
<1>1. <<Text(t)>> \in Seq(Blocks(A))
  BY PlainText, PlainsAreBlocks, OneOf
<1>2. Message("system", <<Text(t)>>) \in Messages(A)
  BY <1>1, MessageOf DEF Roles
<1> QED BY <1>2, OneOf, EmptyEvents

\* A Chat Completions conversation decodes to a request over its atoms.
LEMMA DecodeOpenAiType ==
    ASSUME NEW A, NEW body \in Seq(OpenAiAsks(A))
    PROVE  IsRequest(decode_openai_request(body)) /\ RequestOver(decode_openai_request(body), A)
<1> DEFINE messages == [i \in DOMAIN body |-> DecodeOpenAiMessage(body[i])]
           first == [i \in DOMAIN messages |-> IF IsInstruction(messages[i]) THEN <<messages[i]>> ELSE <<>>]
           rest == [i \in DOMAIN messages |-> IF ~IsInstruction(messages[i]) THEN <<messages[i]>> ELSE <<>>]
<1>1. messages \in Seq(Messages(A))
  <2>1. \A i \in DOMAIN body : messages[i] \in Messages(A)
    BY DecodeOpenAiMessageType
  <2>2. messages = [i \in DOMAIN body |-> messages[i]]
    OBVIOUS
  <2> HIDE DEF messages
  <2> QED BY <2>1, <2>2, MapType
<1>2. decode_openai_request(body) = Request("openai_chat", FlattenSeq(first), FlattenSeq(rest), body)
  BY DEF decode_openai_request, Those, FlatMap, MapSeq
<1> HIDE DEF messages
<1>3. /\ \A i \in DOMAIN messages : first[i] = <<>> \/ (first[i] = <<messages[i]>> /\ messages[i] \in Messages(A))
      /\ \A i \in DOMAIN messages : rest[i] = <<>> \/ (rest[i] = <<messages[i]>> /\ messages[i] \in Messages(A))
      /\ first = [i \in DOMAIN messages |-> first[i]] /\ rest = [i \in DOMAIN messages |-> rest[i]]
  BY <1>1
<1> HIDE DEF first, rest
<1>4. FlattenSeq(first) \in Seq(Messages(A)) /\ FlattenSeq(rest) \in Seq(Messages(A))
  BY <1>1, <1>3, ChosenType
<1> QED BY <1>2, <1>4 DEF Request, IsRequest, RequestOver

\* The client's body, with its own instructions, over the integers.
AsBody(format, wired) ==
    CASE format = "openai_chat" -> <<OpenAiMessage("system", <<Text(<<SystemAtom>>)>>)>> \o wired
      [] format = "anthropic_messages" -> AnthropicBody(<<SystemAtom>>, wired)
      [] OTHER -> ResponsesBody(<<SystemAtom>>, wired)

\* What any client sends decodes to a request over its atoms.
LEMMA DecodeType ==
    ASSUME NEW format, NEW wired \in ClientItems(format, Int)
    PROVE  /\ IsRequest(decode_request(format, AsBody(format, wired)))
           /\ RequestOver(decode_request(format, AsBody(format, wired)), Int)
<1> DEFINE body == AsBody(format, wired)
<1>0. <<SystemAtom>> \in Seq(Int)
  BY DEF SystemAtom
<1>1. CASE format = "openai_chat"
  <2>1. Text(<<SystemAtom>>) \in PlainBlocks(Int)
    BY <1>0, PlainText
  <2>2. <<Text(<<SystemAtom>>)>> \in Seq(PlainBlocks(Int)) /\ "system" \in Roles \ {"tool"}
    BY <2>1, OneOf DEF Roles
  <2>3. <<OpenAiMessage("system", <<Text(<<SystemAtom>>)>>)>> \in Seq(OpenAiAsks(Int))
    BY <2>2, OpenAiSays, OneOf
  <2>4. wired \in Seq(OpenAiAsks(Int))
    BY <1>1 DEF ClientItems
  <2>5. body \in Seq(OpenAiAsks(Int))
    BY <1>1, <2>3, <2>4, ConcatSeq DEF AsBody
  <2> HIDE DEF body
  <2> QED BY <1>1, <2>5, DecodeOpenAiType DEF decode_request, body
<1>2. CASE format = "anthropic_messages"
  <2> DEFINE read == [i \in DOMAIN wired |-> DecodeAnthropicMessage(wired[i])]
  <2>1. wired \in Seq(AnthropicMessages(Int))
    BY <1>2 DEF ClientItems
  <2>2. \A i \in DOMAIN wired : read[i] \in Messages(Int)
    BY <2>1, DecodeAnthropicMessageType
  <2>3. /\ read = [i \in DOMAIN wired |-> read[i]]
        /\ decode_request(format, body)
             = Request("anthropic_messages",
                       IF <<SystemAtom>> = <<>> THEN <<>> ELSE <<Message("system", <<Text(<<SystemAtom>>)>>)>>,
                       read, body)
    BY <1>2 DEF decode_request, decode_anthropic_request, AsBody, AnthropicBody, MapSeq
  <2> HIDE DEF read
  <2>4. read \in Seq(Messages(Int))
    BY <2>1, <2>2, <2>3, MapType
  <2> HIDE DEF body
  <2>5. (IF <<SystemAtom>> = <<>> THEN <<>> ELSE <<Message("system", <<Text(<<SystemAtom>>)>>)>>) \in Seq(Messages(Int))
    BY <1>0, SystemInstruction
  <2> QED BY <2>3, <2>4, <2>5 DEF Request, IsRequest, RequestOver, body
<1>3. CASE format \notin {"openai_chat", "anthropic_messages"}
  <2>1. wired \in Seq(Items(Int))
    BY <1>3 DEF ClientItems
  <2>2. decode_request(format, body)
          = Request("openai_responses",
                    IF <<SystemAtom>> = <<>> THEN <<>> ELSE <<Message("system", <<Text(<<SystemAtom>>)>>)>>,
                    decode_responses_input(wired), body)
    BY <1>3 DEF decode_request, decode_responses_request, AsBody, ResponsesBody
  <2>3. decode_responses_input(wired) \in Seq(Messages(Int))
    BY <2>1, DecodeResponsesType
  <2> HIDE DEF body
  <2>4. (IF <<SystemAtom>> = <<>> THEN <<>> ELSE <<Message("system", <<Text(<<SystemAtom>>)>>)>>) \in Seq(Messages(Int))
    BY <1>0, SystemInstruction
  <2> QED BY <2>2, <2>3, <2>4 DEF Request, IsRequest, RequestOver, body
<1> QED BY <1>1, <1>2, <1>3

(***************************************************************************)
(* The system prompt of the target comes first, in every format.           *)
(***************************************************************************)

Prompted == Message("system", <<Text(<<PromptAtom>>)>>)
StartsWithPrompt(ir) == ir.instructions # <<>> /\ ir.instructions[1] = Prompted

\* Flattening from the front.
LEMMA FlattenCons ==
    ASSUME NEW X, NEW ss \in Seq(Seq(X)), ss # <<>> PROVE FlattenSeq(ss) = ss[1] \o FlattenSeq(Tail(ss))
<1>1. /\ <<ss[1]>> \in Seq(Seq(X)) /\ Tail(ss) \in Seq(Seq(X)) /\ ss[1] \in Seq(X)
  OBVIOUS
<1>2. ss = <<ss[1]>> \o Tail(ss)
  OBVIOUS
<1>3. FlattenSeq(<<ss[1]>>) = ss[1]
  BY <1>1, FlattenOne
<1>4. FlattenSeq(<<ss[1]>> \o Tail(ss)) = FlattenSeq(<<ss[1]>>) \o FlattenSeq(Tail(ss))
  BY <1>1, FlattenConcat
<1> QED BY <1>2, <1>3, <1>4

\* What a sequence of sequences starts with.
LEMMA FlattenFirst ==
    ASSUME NEW X, NEW ss \in Seq(Seq(X)), ss # <<>>, ss[1] # <<>>
    PROVE  FlattenSeq(ss) # <<>> /\ FlattenSeq(ss)[1] = ss[1][1]
<1>1. FlattenSeq(ss) = ss[1] \o FlattenSeq(Tail(ss))
  BY FlattenCons
<1>2. ss[1] \in Seq(X) /\ Tail(ss) \in Seq(Seq(X))
  OBVIOUS
<1>3. FlattenSeq(Tail(ss)) \in Seq(X)
  BY <1>2, FlattenType
<1> DEFINE a == ss[1]
           b == FlattenSeq(Tail(ss))
<1>4. a \in Seq(X) /\ b \in Seq(X) /\ a # <<>>
  BY <1>2, <1>3
<1> HIDE DEF a, b
<1>5. a \o b # <<>> /\ (a \o b)[1] = a[1]
  BY <1>4
<1> QED BY <1>1, <1>5 DEF a, b

\* The prompt, as text, is one atom in every form it takes.
LEMMA PromptText == OneText(<<Text(<<PromptAtom>>)>>) = <<Text(<<PromptAtom>>)>>
                    /\ text_from_blocks(<<Text(<<PromptAtom>>)>>) = <<PromptAtom>>
                    /\ JoinText(<<Text(<<PromptAtom>>)>>) = <<PromptAtom>>
<1> DEFINE t == Text(<<PromptAtom>>)
           content == <<t>>
<1>1. <<PromptAtom>> \in Seq(Int)
  BY DEF PromptAtom
<1>2. t \in PlainBlocks(Int) /\ t.kind = "text" /\ t.text = <<PromptAtom>>
  BY <1>1, PlainText
<1> HIDE DEF t
<1>3. OfKind(content, {"text", "refusal"}) = content
  <2>1. OfKind(content, {"text", "refusal"}) = FlattenSeq(<<content>>)
    <3>1. [i \in DOMAIN content |-> IF content[i].kind \in {"text", "refusal"} THEN <<content[i]>> ELSE <<>>] = <<content>>
      BY <1>2
    <3> QED BY <3>1 DEF OfKind, Those, FlatMap, MapSeq
  <2>2. content \in Seq(PlainBlocks(Int))
    BY <1>2, OneOf
  <2> QED BY <2>1, <2>2, FlattenOne
<1>4. JoinText(content) = <<PromptAtom>>
  <2>1. JoinText(content) = FlattenSeq(<<<<PromptAtom>>>>)
    <3>1. [i \in DOMAIN content |-> content[i].text] = <<<<PromptAtom>>>>
      BY <1>2
    <3> QED BY <3>1 DEF JoinText, FlatMap, MapSeq
  <2> QED BY <1>1, <2>1, FlattenOne
<1>5. text_from_blocks(content) = <<PromptAtom>>
  BY <1>3, <1>4 DEF text_from_blocks
<1>6. OneText(content) = content
  BY <1>5 DEF OneText, t
<1> QED BY <1>4, <1>5, <1>6 DEF t

\* A system text made of instructions that start with the prompt starts with it.
LEMMA PromptInSystemText ==
    ASSUME NEW instructions \in Seq(Messages(Int)), instructions # <<>>, instructions[1] = Prompted
    PROVE  SystemText(instructions) # <<>> /\ SystemText(instructions)[1] = PromptAtom
<1> DEFINE texts == [i \in DOMAIN instructions |-> text_from_blocks(instructions[i].content)]
<1>1. \A i \in DOMAIN instructions : texts[i] \in Seq(Int)
  <2> SUFFICES ASSUME NEW i \in DOMAIN instructions PROVE text_from_blocks(instructions[i].content) \in Seq(Int)
    OBVIOUS
  <2>1. instructions[i] \in Messages(Int)
    OBVIOUS
  <2> QED BY <2>1, MessageParts, TextFromBlocksType
<1>2. SystemText(instructions) = FlattenSeq(texts) /\ texts = [i \in DOMAIN instructions |-> texts[i]]
  BY DEF SystemText, FlatMap, MapSeq
<1>3. texts[1] = <<PromptAtom>>
  BY PromptText DEF Prompted, Message
<1> HIDE DEF texts
<1>4. texts \in Seq(Seq(Int)) /\ Len(texts) = Len(instructions)
  BY <1>1, <1>2, MapType
<1>5. texts # <<>> /\ texts[1] # <<>> /\ texts[1][1] = PromptAtom
  BY <1>3, <1>4
<1> QED BY <1>2, <1>4, <1>5, FlattenFirst

PromptLeads(view) ==
    view # <<>> /\ view[1].does = "instructs" /\ view[1].text # <<>> /\ view[1].text[1] = PromptAtom

\* An instruction that starts with the prompt leads the view.
LEMMA InstructsFirst ==
    ASSUME NEW t \in Seq(Int), t # <<>>, t[1] = PromptAtom, NEW rest \in Seq(Events(Int))
    PROVE  PromptLeads(<<Event("instructs", t, NoId)>> \o rest)
<1> DEFINE e == Event("instructs", t, NoId)
<1>1. e \in Events(Int)
  BY EventOf DEF Does
<1>2. e.does = "instructs" /\ e.text = t
  BY DEF Event
<1> HIDE DEF e
<1>3. <<e>> \o rest # <<>> /\ (<<e>> \o rest)[1] = e
  BY <1>1
<1> QED BY <1>2, <1>3 DEF PromptLeads, e

\* A request that starts with the prompt is read so in every format.
LEMMA PromptRead ==
    ASSUME NEW format, NEW ir, RequestOver(ir, Int), ir.preserved = <<>>, StartsWithPrompt(ir)
    PROVE  PromptLeads(View(format, encode_request(format, ir).value))
<1> DEFINE body == encode_request(format, ir).value
<1>1. BodyOver(format, body, Int) /\ exact_preserved_request(ir, format) = <<>>
  BY EncodeType DEF exact_preserved_request
<1>2. SystemText(ir.instructions) \in Seq(Int) /\ SystemText(ir.instructions) # <<>>
      /\ SystemText(ir.instructions)[1] = PromptAtom
  BY PromptInSystemText, SystemTextType DEF RequestOver, StartsWithPrompt
<1>3. CASE format = "openai_chat"
  <2> DEFINE parts == [i \in DOMAIN body |-> ViewOpenAi(body[i])]
             first == [i \in DOMAIN ir.instructions |-> InstructionMessage(ir.instructions[i])]
             rest == EncodeAll(ir.messages, encode_message_to_openai).value
             m == InstructionMessage(Prompted)
  <2>1. body \in Seq(OpenAiMessages(Int))
    BY <1>1, <1>3 DEF BodyOver
  <2>2. body = first \o rest
    BY <1>1, <1>3 DEF encode_request, encode_openai_request, Encoded, MapSeq
  <2>3. m = OpenAiMessage("system", <<Text(<<PromptAtom>>)>>)
    BY PromptText DEF InstructionMessage, Prompted, Message
  <2>4. ViewOpenAi(m) = <<Event("instructs", <<PromptAtom>>, NoId)>>
    BY <2>3, PromptText DEF ViewOpenAi, OpenAiMessage
  <2>5. body # <<>> /\ body[1] = m
    <3>1. first \in Seq(OpenAiMessages(Int)) /\ first # <<>> /\ first[1] = m
      <4>1. \A x \in Messages(Int) : InstructionMessage(x) \in OpenAiMessages(Int)
        <5> SUFFICES ASSUME NEW x \in Messages(Int) PROVE InstructionMessage(x) \in OpenAiMessages(Int)
          OBVIOUS
        <5>1. OneText(x.content) \in Seq(PlainBlocks(Int))
          BY MessageParts, OneTextType
        <5>2. (IF x.role = "developer" THEN "developer" ELSE "system") \in Roles \ {"tool"}
          BY DEF Roles
        <5> QED BY <5>1, <5>2, OpenAiSays DEF InstructionMessage, OpenAiAsks
      <4>2. ir.instructions \in Seq(Messages(Int)) /\ ir.instructions # <<>> /\ ir.instructions[1] = Prompted
        BY DEF RequestOver, StartsWithPrompt
      <4>3. \A i \in DOMAIN ir.instructions : first[i] \in OpenAiMessages(Int)
        BY <4>1, <4>2
      <4>4. first = [i \in DOMAIN ir.instructions |-> first[i]]
        OBVIOUS
      <4>5. first[1] = m
        BY <4>2
      <4> HIDE DEF first, m
      <4>6. ir.instructions \in Seq(Messages(Int))
        BY <4>2
      <4>7. first \in Seq(OpenAiMessages(Int)) /\ Len(first) = Len(ir.instructions)
        <5> DEFINE s == ir.instructions
                   M == Messages(Int)
                   O == OpenAiMessages(Int)
        <5>1. s \in Seq(M) /\ first = [i \in DOMAIN s |-> first[i]] /\ \A i \in DOMAIN s : first[i] \in O
          BY <4>3, <4>4, <4>6
        <5> HIDE DEF s, M, O
        <5>2. first \in Seq(O) /\ Len(first) = Len(s)
          BY <5>1, MapType
        <5> QED BY <5>2 DEF s, O
      <4> QED BY <4>2, <4>5, <4>7
    <3>2. rest \in Seq(OpenAiMessages(Int))
      <4> DEFINE each == [i \in DOMAIN ir.messages |-> encode_message_to_openai(ir.messages[i]).value]
      <4>1. ir.messages \in Seq(Messages(Int))
        BY DEF RequestOver
      <4>2. \A x \in Messages(Int) : encode_message_to_openai(x).value \in Seq(OpenAiMessages(Int))
        BY WithResultsType, WithoutResultsType DEF encode_message_to_openai
      <4>3. \A i \in DOMAIN ir.messages : each[i] \in Seq(OpenAiMessages(Int))
        BY <4>1, <4>2
      <4>4. each = [i \in DOMAIN ir.messages |-> each[i]] /\ rest = FlattenSeq(each)
        BY DEF EncodeAll, Encoded, FlatMap, MapSeq
      <4> HIDE DEF each, rest
      <4> QED BY <4>1, <4>3, <4>4, FlatType
    <3> HIDE DEF first, rest, body, m
    <3> QED BY <2>2, <3>1, <3>2
  <2>6. parts = [i \in DOMAIN body |-> parts[i]] /\ View(format, body) = FlattenSeq(parts)
        /\ \A i \in DOMAIN body : parts[i] \in Seq(Events(Int))
    <3>1. \A i \in DOMAIN body : ViewOpenAi(body[i]) \in Seq(Events(Int))
      <4> HIDE DEF body
      <4> QED BY <2>1, ViewOpenAiType
    <3> QED BY <1>3, <3>1 DEF View, FlatMap, MapSeq
  <2>7. parts[1] = <<Event("instructs", <<PromptAtom>>, NoId)>>
    <3> HIDE DEF body, m
    <3>1. 1 \in DOMAIN body
      BY <2>1, <2>5
    <3> QED BY <2>4, <2>5, <3>1
  <2> HIDE DEF parts, body, m, first, rest
  <2>8. parts \in Seq(Seq(Events(Int))) /\ Len(parts) = Len(body)
    BY <2>1, <2>6, MapType
  <2>9. parts # <<>> /\ Tail(parts) \in Seq(Seq(Events(Int)))
    BY <2>1, <2>5, <2>8
  <2>10. FlattenSeq(parts) = <<Event("instructs", <<PromptAtom>>, NoId)>> \o FlattenSeq(Tail(parts))
    BY <2>7, <2>8, <2>9, FlattenCons
  <2>11. FlattenSeq(Tail(parts)) \in Seq(Events(Int))
    BY <2>9, FlattenType
  <2>12. <<PromptAtom>> \in Seq(Int) /\ <<PromptAtom>> # <<>> /\ <<PromptAtom>>[1] = PromptAtom
    BY DEF PromptAtom
  <2> QED BY <2>6, <2>10, <2>11, <2>12, InstructsFirst DEF body
<1>4. CASE format = "anthropic_messages"
  <2>1. body.system = SystemText(ir.instructions) /\ body.messages \in Seq(AnthropicMessages(Int))
    BY <1>1, <1>4, EncodeAnthropicType DEF encode_request, RequestOver
  <2> DEFINE messages == body.messages
             parts == [i \in DOMAIN messages |-> MapSeq(messages[i].content, ViewAnthropicBlock)]
  <2> HIDE DEF body
  <2>2. ASSUME NEW i \in DOMAIN messages PROVE parts[i] \in Seq(Events(Int))
    <3> DEFINE c == messages[i].content
    <3>1. c \in Seq(AnthropicBlocks(Int))
      <4>1. messages[i] \in AnthropicMessages(Int)
        BY <2>1
      <4> QED BY <4>1 DEF AnthropicMessages
    <3>2. \A j \in DOMAIN c : ViewAnthropicBlock(c[j]) \in Events(Int)
      BY <3>1, ViewAnthropicType
    <3>3. parts[i] = [j \in DOMAIN c |-> ViewAnthropicBlock(c[j])]
      BY DEF MapSeq
    <3> HIDE DEF c, parts
    <3> QED BY <3>1, <3>2, <3>3
  <2>3. /\ parts = [i \in DOMAIN messages |-> parts[i]]
        /\ View(format, body) = <<Event("instructs", body.system, NoId)>> \o FlattenSeq(parts)
    BY <1>4 DEF View, FlatMap, MapSeq
  <2> HIDE DEF parts, messages
  <2>4. FlattenSeq(parts) \in Seq(Events(Int))
    BY <2>1, <2>2, <2>3, FlatType DEF messages
  <2> QED BY <1>2, <2>1, <2>3, <2>4, InstructsFirst DEF body
<1>5. CASE format \notin {"openai_chat", "anthropic_messages"}
  <2>1. body.instructions = SystemText(ir.instructions) /\ body.input \in Seq(Items(Int))
    BY <1>1, <1>5, EncodeResponsesType DEF encode_request, RequestOver
  <2> DEFINE input == body.input
             parts == [i \in DOMAIN input |-> ViewResponses(input[i])]
  <2> HIDE DEF body
  <2>2. \A i \in DOMAIN input : parts[i] \in Seq(Events(Int))
    BY <2>1, ViewResponsesType
  <2>3. /\ parts = [i \in DOMAIN input |-> parts[i]]
        /\ View(format, body) = <<Event("instructs", body.instructions, NoId)>> \o FlattenSeq(parts)
    BY <1>5 DEF View, FlatMap, MapSeq
  <2> HIDE DEF parts, input
  <2>4. FlattenSeq(parts) \in Seq(Events(Int))
    BY <2>1, <2>2, <2>3, FlatType DEF input
  <2> QED BY <1>2, <2>1, <2>3, <2>4, InstructsFirst DEF body
<1> QED BY <1>3, <1>4, <1>5

Instructed(view) == FlatMap(Those(view, LAMBDA e : e.does \in {"instructs"}), LAMBDA e : e.text)
\* The prompt is then the first atom of all that instructs.
LEMMA PromptAtomFirst ==
    ASSUME NEW view \in Seq(Events(Int)), PromptLeads(view)
    PROVE  Head(Instructed(view)) = PromptAtom
<1> DEFINE some == [i \in DOMAIN view |-> IF view[i].does \in {"instructs"} THEN <<view[i]>> ELSE <<>>]
           chosen == FlattenSeq(some)
           texts == [i \in DOMAIN chosen |-> chosen[i].text]
<1>1. view # <<>> /\ view[1] \in Events(Int) /\ view[1].does = "instructs"
  BY DEF PromptLeads
<1>2. some[1] = <<view[1]>>
  BY <1>1
<1>3. Instructed(view) = FlattenSeq(texts)
  BY DEF Instructed, Those, FlatMap, MapSeq
<1>4. some \in Seq(Seq(Events(Int))) /\ Len(some) = Len(view)
  <2> DEFINE E == Events(Int)
  <2>1. \A e \in E : <<e>> \in Seq(E)
    OBVIOUS
  <2> HIDE DEF E
  <2>2. <<>> \in Seq(E) /\ view \in Seq(E)
    BY DEF E
  <2>3. \A i \in DOMAIN view : some[i] \in Seq(E)
    BY <2>1, <2>2
  <2>4. some = [i \in DOMAIN view |-> some[i]]
    OBVIOUS
  <2> HIDE DEF some
  <2>5. some \in Seq(Seq(E)) /\ Len(some) = Len(view)
    BY <2>2, <2>3, <2>4, MapType
  <2> QED BY <2>5 DEF E
<1> HIDE DEF some
<1>5. some # <<>> /\ some[1] # <<>> /\ some[1][1] = view[1]
  BY <1>1, <1>2, <1>4
<1>6. chosen # <<>> /\ chosen[1] = view[1] /\ chosen \in Seq(Events(Int))
  BY <1>4, <1>5, FlattenFirst, FlattenType
<1> HIDE DEF chosen
<1>7. /\ \A i \in DOMAIN chosen : texts[i] \in Seq(Int)
      /\ texts = [i \in DOMAIN chosen |-> texts[i]] /\ texts[1] = view[1].text
  <2>1. \A e \in Events(Int) : e.text \in Seq(Int)
    BY DEF Events
  <2> QED BY <1>6, <2>1
<1> HIDE DEF texts
<1>8. texts \in Seq(Seq(Int)) /\ Len(texts) = Len(chosen)
  <2> DEFINE E == Events(Int)
             T == Seq(Int)
  <2>1. chosen \in Seq(E) /\ \A i \in DOMAIN chosen : texts[i] \in T
    BY <1>6, <1>7
  <2>2. texts = [i \in DOMAIN chosen |-> texts[i]]
    BY <1>7
  <2> HIDE DEF E, T
  <2>3. texts \in Seq(T) /\ Len(texts) = Len(chosen)
    BY <2>1, <2>2, MapType
  <2> QED BY <2>3 DEF T
<1>9. texts # <<>> /\ texts[1] # <<>> /\ texts[1][1] = PromptAtom
  BY <1>6, <1>7, <1>8 DEF PromptLeads
<1>10. FlattenSeq(texts) # <<>> /\ FlattenSeq(texts)[1] = PromptAtom /\ FlattenSeq(texts) \in Seq(Int)
  BY <1>8, <1>9, FlattenFirst, FlattenType
<1> QED BY <1>3, <1>10

(***************************************************************************)
(* The inductive invariant of a translated request.                        *)
(***************************************************************************)

Conversation ==
    /\ items \in ClientItems(client, Int)
    /\ atoms \in Nat
    /\ pending \in Seq(Ids)
Unread == stage = "talk" => edits = {} /\ wire = Unsent
Understood == stage # "talk" => IsRequest(request) /\ RequestOver(request, Int)
MaskHeld == "mask" \in edits => RequestOver(request, Safe) /\ request.preserved = <<>>
PromptHeld == "prompt" \in edits => request.preserved = <<>> /\ StartsWithPrompt(request)
RequestInv ==
    /\ Conversation /\ Unread /\ Understood /\ MaskHeld /\ PromptHeld
    /\ MaskedStaysMasked /\ PromptReachesTarget

\* The invariant holds of a client that has said nothing.
LEMMA RequestInitially == RequestInit => RequestInv
<1> SUFFICES ASSUME RequestInit PROVE RequestInv
  OBVIOUS
<1>1. <<>> \in ClientItems(client, Int) /\ <<>> \in Seq(Ids)
  BY DEF ClientItems
<1> QED BY <1>1 DEF RequestInit, RequestInv, Conversation, Unread, Understood, MaskHeld, PromptHeld,
                    MaskedStaysMasked, PromptReachesTarget

\* While the client talks nothing has been read.
LEMMA TalkKeeps ==
    ASSUME RequestInv, stage = "talk", UNCHANGED <<client, request, stage, edits, wire>>, Conversation'
    PROVE  RequestInv'
  BY DEF RequestInv, Unread, Understood, MaskHeld, PromptHeld, MaskedStaysMasked, PromptReachesTarget

\* A block of an atom not used before.
LEMMA FreshType == ASSUME atoms \in Nat, NEW n \in Nat PROVE Fresh(n) \in PlainBlocks(Int)
<1>1. <<atoms + n>> \in Seq(Int)
  OBVIOUS
<1> QED BY <1>1, PlainText DEF Fresh

\* The user writes, or shows something.
LEMMA UserTurnKeeps == ASSUME RequestInv, NEW shows \in BOOLEAN, UserTurn(shows) PROVE RequestInv'
<1> DEFINE image == CASE client = "openai_chat" -> "image_url"
                      [] client = "anthropic_messages" -> "image" [] OTHER -> "input_image"
           form == IF client = "anthropic_messages" THEN "raw_base64" ELSE "url"
           content == <<Fresh(1)>> \o (IF shows THEN <<Block(image, <<atoms + 2>>, form)>> ELSE <<>>)
<1>1. Conversation
  BY DEF RequestInv
<1>2. image \in Kinds /\ form \in Forms /\ <<atoms + 2>> \in Seq(Int)
  BY <1>1 DEF Kinds, Forms, Conversation
<1>3. items' = items \o ClientSays(client, "user", content)
  BY DEF UserTurn
<1> HIDE DEF image, form
<1>4. content \in Seq(PlainBlocks(Int))
  <2>1. Block(image, <<atoms + 2>>, form) \in PlainBlocks(Int) /\ Fresh(1) \in PlainBlocks(Int)
    BY <1>1, <1>2, PlainBlock, FreshType DEF Conversation
  <2> QED BY <2>1
<1> HIDE DEF content
<1>5. ClientSays(client, "user", content) \in ClientItems(client, Int)
  BY <1>4, SaysItems
<1>6. Conversation'
  <2>1. items' \in ClientItems(client, Int)
    BY <1>1, <1>3, <1>5, ItemsConcat DEF Conversation
  <2> QED BY <1>1, <1>3, <1>5, <2>1 DEF UserTurn, Conversation
<1> QED BY <1>6, TalkKeeps DEF UserTurn, Talking

\* The client repeats what the assistant said.
LEMMA AssistantTurnKeeps ==
    ASSUME RequestInv, NEW thinks \in BOOLEAN, NEW speaks \in BOOLEAN, NEW n \in 0..2,
           AssistantTurn(thinks, speaks, n)
    PROVE  RequestInv'
<1> DEFINE words == IF speaks THEN <<Fresh(1)>> ELSE <<>>
           thought == IF thinks THEN <<atoms + 2>> ELSE <<>>
           ids == [i \in 1..n |-> CallId(atoms + 2 + i)]
<1>1. Conversation
  BY DEF RequestInv
<1>2. words \in Seq(PlainBlocks(Int))
  <2>1. Fresh(1) \in PlainBlocks(Int)
    BY <1>1, FreshType DEF Conversation
  <2> QED BY <2>1
<1>3. thought \in Seq(Int)
  BY <1>1 DEF Conversation
<1>4. ids \in Seq(Ids)
  <2>1. \A k \in Int : CallId(k) \in Ids
    BY DEF CallId, Ids, Marks
  <2>2. \A i \in 1..n : CallId(atoms + 2 + i) \in Ids
    BY <1>1, <2>1 DEF Conversation
  <2> QED BY <2>2
<1>5. items' = items \o ClientCalls(client, thought, words, ids) /\ pending' = ids
  BY DEF AssistantTurn
<1> HIDE DEF words, thought, ids
<1>6. ClientCalls(client, thought, words, ids) \in ClientItems(client, Int)
  BY <1>2, <1>3, <1>4, CallsItems
<1>7. Conversation'
  <2>1. items' \in ClientItems(client, Int)
    BY <1>1, <1>4, <1>5, <1>6, ItemsConcat DEF Conversation
  <2>2. atoms' = atoms + 2 + n /\ client' = client
    BY DEF AssistantTurn
  <2> QED BY <1>1, <1>4, <1>5, <2>1, <2>2 DEF Conversation
<1> QED BY <1>7, TalkKeeps DEF AssistantTurn, Talking

\* The client answers the pending calls.
LEMMA AnswerTurnKeeps ==
    ASSUME RequestInv, NEW shows \in BOOLEAN, NEW speaks \in BOOLEAN, AnswerTurn(shows, speaks)
    PROVE  RequestInv'
<1> DEFINE image == IF shows THEN <<Block("image", <<atoms + 3>>, "raw_base64")>> ELSE <<>>
           outs == [i \in DOMAIN pending |-> <<Fresh(i)>> \o (IF i = 1 THEN image ELSE <<>>)]
           words == IF speaks THEN <<Fresh(4)>> ELSE <<>>
<1>1. Conversation
  BY DEF RequestInv
<1>2. image \in Seq(PlainBlocks(Int))
  <2>1. <<atoms + 3>> \in Seq(Int) /\ "image" \in Kinds /\ "raw_base64" \in Forms
    BY <1>1 DEF Conversation, Kinds, Forms
  <2>2. Block("image", <<atoms + 3>>, "raw_base64") \in PlainBlocks(Int)
    BY <2>1, PlainBlock
  <2> QED BY <2>2
<1>3. words \in Seq(PlainBlocks(Int))
  <2>1. Fresh(4) \in PlainBlocks(Int)
    BY <1>1, FreshType DEF Conversation
  <2> QED BY <2>1
<1> HIDE DEF image
<1>4. ASSUME NEW i \in DOMAIN pending PROVE outs[i] \in Seq(PlainBlocks(Int))
  <2>1. i \in Nat
    BY <1>1 DEF Conversation
  <2>2. Fresh(i) \in PlainBlocks(Int)
    BY <1>1, <2>1, FreshType DEF Conversation
  <2>3. <<Fresh(i)>> \in Seq(PlainBlocks(Int))
    BY <2>2
  <2>4. (IF i = 1 THEN image ELSE <<>>) \in Seq(PlainBlocks(Int))
    BY <1>2
  <2> QED BY <2>3, <2>4, ConcatSeq
<1>5. items' = items \o ClientAnswers(client, pending, outs, words) /\ pending' = <<>>
  BY DEF AnswerTurn, image
<1> HIDE DEF outs, words
<1>6. pending \in Seq(Ids)
  BY <1>1 DEF Conversation
<1>7. ClientAnswers(client, pending, outs, words) \in ClientItems(client, Int)
  BY <1>3, <1>4, <1>6, AnswersItems
<1>8. Conversation'
  <2>1. items' \in ClientItems(client, Int)
    BY <1>1, <1>5, <1>7, ItemsConcat DEF Conversation
  <2> QED BY <1>1, <1>5, <1>7, <2>1 DEF AnswerTurn, Conversation
<1> QED BY <1>8, TalkKeeps DEF AnswerTurn, Answering

\* The user speaks before the calls were answered.
LEMMA InterjectKeeps == ASSUME RequestInv, Interject PROVE RequestInv'
<1>1. Conversation
  BY DEF RequestInv
<1>2. <<Fresh(1)>> \in Seq(PlainBlocks(Int))
  BY <1>1, FreshType, OneOf DEF Conversation
<1>3. ClientSays(client, "user", <<Fresh(1)>>) \in ClientItems(client, Int)
  BY <1>2, SaysItems
<1>4. Conversation'
  BY <1>1, <1>3, ItemsConcat DEF Interject, Conversation
<1> QED BY <1>4, TalkKeeps DEF Interject, Talking

-----------------------------------------------------------------------------
\* An edit of the request before anything is sent.
LEMMA EditKeeps ==
    ASSUME RequestInv, UNCHANGED <<client, items, atoms, pending, turns, wire>>, wire = Unsent,
           stage' # "talk", Understood', MaskHeld', PromptHeld'
    PROVE  RequestInv'
<1>1. wire'.view = <<>>
  BY DEF Unsent
<1> QED BY <1>1 DEF RequestInv, Conversation, Unread, MaskedStaysMasked, PromptReachesTarget, Unsent

\* The masked request is over atoms without secrets, and nothing of the raw body is preserved.
LEMMA ScrubType ==
    ASSUME NEW ir, IsRequest(ir), RequestOver(ir, Int)
    PROVE  IsRequest(scrub_request(ir)) /\ RequestOver(scrub_request(ir), Safe) /\ scrub_request(ir).preserved = <<>>
<1> DEFINE first == scrub_messages(ir.instructions)
           rest == scrub_messages(ir.messages)
<1>1. first \in Seq(Messages(Safe)) /\ rest \in Seq(Messages(Safe))
  BY ScrubMessages DEF RequestOver
<1>2. scrub_request(ir) = drop_exact_replay([ir EXCEPT !.instructions = first, !.messages = rest])
  BY DEF scrub_request
<1> HIDE DEF first, rest
<1>3. scrub_request(ir) = [format |-> ir.format, instructions |-> first, messages |-> rest, preserved |-> <<>>]
  BY <1>2 DEF drop_exact_replay, IsRequest
<1> QED BY <1>1, <1>3 DEF IsRequest, RequestOver

\* What holds of the atoms of Safe holds of the integers.
LEMMA Widen == ASSUME NEW A, NEW B, A \subseteq B PROVE Seq(Messages(A)) \subseteq Seq(Messages(B))
<1>1. Seq(A) \subseteq Seq(B)
  OBVIOUS
<1>2. PlainBlocks(A) \subseteq PlainBlocks(B)
  BY <1>1 DEF PlainBlocks
<1>3. Seq(PlainBlocks(A)) \subseteq Seq(PlainBlocks(B))
  BY <1>2, SeqIn
<1>4. ResultBlocks(A) \subseteq ResultBlocks(B)
  BY <1>3 DEF ResultBlocks
<1>5. Blocks(A) \subseteq Blocks(B)
  BY <1>2, <1>4 DEF Blocks
<1>6. Seq(Blocks(A)) \subseteq Seq(Blocks(B))
  BY <1>5, SeqIn
<1>7. Messages(A) \subseteq Messages(B)
  BY <1>6 DEF Messages
<1> QED BY <1>7, SeqIn

\* The request is read, and masked or not.
LEMMA ReceiveKeeps == ASSUME RequestInv, NEW masks \in BOOLEAN, Receive(masks) PROVE RequestInv'
<1> DEFINE ir == decode_request(client, Body(client))
<1>1. Conversation /\ edits = {} /\ wire = Unsent
  BY DEF RequestInv, Unread, Receive
<1>2. Body(client) = AsBody(client, items)
  BY DEF Body, AsBody
<1>3. IsRequest(ir) /\ RequestOver(ir, Int)
  BY <1>1, <1>2, DecodeType DEF Conversation
<1>4. request' = IF masks THEN scrub_request(ir) ELSE ir
  BY DEF Receive, Masked
<1> HIDE DEF ir
<1>5. /\ IsRequest(scrub_request(ir)) /\ RequestOver(scrub_request(ir), Safe) /\ scrub_request(ir).preserved = <<>>
      /\ RequestOver(scrub_request(ir), Int)
  <2>1. Safe \subseteq Int
    BY DEF Safe
  <2> QED BY <1>3, <2>1, ScrubType, Widen DEF RequestOver
<1>6. Understood'
  BY <1>3, <1>4, <1>5 DEF Receive, Understood
<1>7. MaskHeld' /\ PromptHeld'
  BY <1>4, <1>5 DEF Receive, MaskHeld, PromptHeld
<1> QED BY <1>1, <1>6, <1>7, EditKeeps DEF Receive

\* A routing note brings in its own atom and drops the raw body.
LEMMA NoteType ==
    ASSUME NEW A, {NoteAtom} \subseteq A, NEW ir, IsRequest(ir), RequestOver(ir, A)
    PROVE  /\ IsRequest(append_note(ir)) /\ RequestOver(append_note(ir), A)
           /\ append_note(ir).preserved = <<>> /\ append_note(ir).instructions = ir.instructions
<1> DEFINE note == Text(<<NoteAtom>>)
           joins == ir.messages # <<>> /\ Last(ir.messages).role = "user"
           joined == Append(Front(ir.messages), Message("user", Append(Last(ir.messages).content, note)))
           added == Append(ir.messages, Message("user", <<note>>))
<1>1. ir.messages \in Seq(Messages(A)) /\ ir.instructions \in Seq(Messages(A))
  BY DEF RequestOver
<1>2. note \in Blocks(A)
  <2>1. <<NoteAtom>> \in Seq(A)
    OBVIOUS
  <2> QED BY <2>1, PlainText, PlainsAreBlocks
<1>3. append_note(ir) = drop_exact_replay([ir EXCEPT !.messages = IF joins THEN joined ELSE added])
  BY DEF append_note
<1> HIDE DEF note
<1>4. added \in Seq(Messages(A))
  <2>1. Message("user", <<note>>) \in Messages(A)
    BY <1>2, OneOf, MessageOf DEF Roles
  <2> QED BY <1>1, <2>1, AppendType
<1>5. joins => joined \in Seq(Messages(A))
  <2> SUFFICES ASSUME joins PROVE joined \in Seq(Messages(A))
    OBVIOUS
  <2>1. Last(ir.messages) \in Messages(A)
    BY <1>1 DEF Last
  <2>2. Front(ir.messages) \in Seq(Messages(A))
    BY <1>1 DEF Front
  <2>3. Append(Last(ir.messages).content, note) \in Seq(Blocks(A))
    BY <1>2, <2>1, MessageParts, AppendType
  <2>4. Message("user", Append(Last(ir.messages).content, note)) \in Messages(A)
    BY <2>3, MessageOf DEF Roles
  <2> QED BY <2>2, <2>4, AppendType
<1> HIDE DEF joined, added, joins
<1>6. append_note(ir) = [format |-> ir.format, instructions |-> ir.instructions,
                         messages |-> IF joins THEN joined ELSE added, preserved |-> <<>>]
  BY <1>3 DEF drop_exact_replay, IsRequest
<1> QED BY <1>1, <1>4, <1>5, <1>6 DEF IsRequest, RequestOver

\* The stage router adds its note.
LEMMA NoteKeeps == ASSUME RequestInv, Note PROVE RequestInv'
<1>1. IsRequest(request) /\ RequestOver(request, Int) /\ request' = append_note(request) /\ stage = "masked"
  BY DEF RequestInv, Understood, Note
<1>2. {NoteAtom} \subseteq Int /\ {NoteAtom} \subseteq Safe
  BY DEF NoteAtom, Safe, Secret
<1>3. Understood'
  BY <1>1, <1>2, NoteType DEF Understood
<1>4. MaskHeld'
  <2>1. "mask" \in edits' => "mask" \in edits
    BY DEF Note
  <2> QED BY <1>1, <1>2, <2>1, NoteType DEF RequestInv, MaskHeld
<1>5. PromptHeld'
  <2>1. "prompt" \in edits' => "prompt" \in edits
    BY DEF Note
  <2> QED BY <1>1, <1>2, <2>1, NoteType DEF RequestInv, PromptHeld, StartsWithPrompt
<1> QED BY <1>3, <1>4, <1>5, EditKeeps DEF Note

\* SystemPromptProcessor puts the prompt first and drops the raw body.
LEMMA PromptType ==
    ASSUME NEW A, {PromptAtom} \subseteq A, NEW ir, IsRequest(ir), RequestOver(ir, A)
    PROVE  /\ IsRequest(SystemPromptProcessor(ir)) /\ RequestOver(SystemPromptProcessor(ir), A)
           /\ SystemPromptProcessor(ir).preserved = <<>> /\ StartsWithPrompt(SystemPromptProcessor(ir))
<1> DEFINE all == <<Prompted>> \o ir.instructions
<1>1. Prompted \in Messages(A)
  <2>1. <<PromptAtom>> \in Seq(A)
    OBVIOUS
  <2>2. <<Text(<<PromptAtom>>)>> \in Seq(Blocks(A))
    BY <2>1, PlainText, PlainsAreBlocks, OneOf
  <2> QED BY <2>2, MessageOf DEF Roles, Prompted
<1>2. SystemPromptProcessor(ir) = drop_exact_replay([ir EXCEPT !.instructions = all])
  BY DEF SystemPromptProcessor, Prompted
<1>3. all \in Seq(Messages(A)) /\ all # <<>> /\ all[1] = Prompted
  BY <1>1 DEF RequestOver
<1> HIDE DEF all
<1>4. SystemPromptProcessor(ir) = [format |-> ir.format, instructions |-> all, messages |-> ir.messages,
                                   preserved |-> <<>>]
  BY <1>2 DEF drop_exact_replay, IsRequest
<1> QED BY <1>3, <1>4 DEF IsRequest, RequestOver, StartsWithPrompt

\* The system prompt processor edits the request.
LEMMA PromptKeeps == ASSUME RequestInv, Prompt PROVE RequestInv'
<1>1. IsRequest(request) /\ RequestOver(request, Int) /\ request' = SystemPromptProcessor(request)
  BY DEF RequestInv, Understood, Prompt
<1>2. {PromptAtom} \subseteq Int /\ {PromptAtom} \subseteq Safe
  BY DEF PromptAtom, Safe, Secret
<1>3. Understood' /\ PromptHeld'
  BY <1>1, <1>2, PromptType DEF Understood, PromptHeld
<1>4. MaskHeld'
  <2>1. "mask" \in edits' => "mask" \in edits
    BY DEF Prompt
  <2> QED BY <1>1, <1>2, <2>1, PromptType DEF RequestInv, MaskHeld
<1> QED BY <1>3, <1>4, EditKeeps DEF Prompt

\* The request is sent: what leaves was masked if it was to be, and has its prompt.
LEMMA SendKeeps == ASSUME RequestInv, NEW upstream \in Upstreams, Send(upstream) PROVE RequestInv'
<1> DEFINE body == encode_request(upstream, request)
           view == View(upstream, body.value)
<1>1. wire'.view = view
  BY DEF Send, Sent
<1>2. MaskedStaysMasked'
  <2> SUFFICES ASSUME "mask" \in edits PROVE \A i \in DOMAIN view : Secret \notin ToSet(view[i].text)
    BY <1>1 DEF MaskedStaysMasked, Send
  <2>1. RequestOver(request, Safe) /\ request.preserved = <<>>
    BY DEF RequestInv, MaskHeld
  <2>2. view \in Seq(Events(Safe))
    BY <2>1, EncodeType, ViewType
  <2> HIDE DEF view
  <2> SUFFICES ASSUME NEW i \in DOMAIN view PROVE Secret \notin ToSet(view[i].text)
    OBVIOUS
  <2>3. view[i] \in Events(Safe)
    BY <2>2
  <2>4. view[i].text \in Seq(Safe)
    BY <2>3 DEF Events
  <2> DEFINE t == view[i].text
  <2>5. \A j \in DOMAIN t : t[j] # Secret
    <3> HIDE DEF t
    <3>1. t \in Seq(Safe)
      BY <2>4 DEF t
    <3> QED BY <3>1 DEF Safe
  <2> HIDE DEF t
  <2>6. Secret \notin ToSet(t)
    BY <2>5 DEF ToSet
  <2> QED BY <2>6 DEF t
<1>3. PromptReachesTarget'
  <2> SUFFICES ASSUME "prompt" \in edits PROVE Head(AtomsOf({"instructs"}))' = PromptAtom
    BY DEF PromptReachesTarget, Send
  <2>1. RequestOver(request, Int) /\ request.preserved = <<>> /\ StartsWithPrompt(request)
    BY DEF RequestInv, PromptHeld, Understood, Send
  <2>2. PromptLeads(view)
    BY <2>1, PromptRead
  <2>3. view \in Seq(Events(Int))
    BY <2>1, EncodeType, ViewType
  <2> HIDE DEF view
  <2>4. wire'.view = view
    BY <1>1
  <2>5. AtomsOf({"instructs"})' = Instructed(wire'.view)
    BY DEF AtomsOf, Instructed, Those, FlatMap, MapSeq
  <2>6. Head(Instructed(view)) = PromptAtom
    BY <2>2, <2>3, PromptAtomFirst
  <2> QED BY <2>4, <2>5, <2>6
<1>4. Conversation' /\ Unread' /\ Understood' /\ MaskHeld' /\ PromptHeld'
  BY DEF RequestInv, Conversation, Unread, Understood, MaskHeld, PromptHeld, Send
<1> QED BY <1>2, <1>3, <1>4 DEF RequestInv

\* Every step keeps the invariant.
LEMMA RequestStep == RequestInv /\ [RequestNext]_requestVars => RequestInv'
<1> SUFFICES ASSUME RequestInv, [RequestNext]_requestVars PROVE RequestInv'
  OBVIOUS
<1>1. CASE \E shows \in BOOLEAN : UserTurn(shows)
  BY <1>1, UserTurnKeeps
<1>2. CASE \E thinks, speaks \in BOOLEAN, n \in 0..2 : AssistantTurn(thinks, speaks, n)
  BY <1>2, AssistantTurnKeeps
<1>3. CASE \E shows, speaks \in BOOLEAN : AnswerTurn(shows, speaks)
  BY <1>3, AnswerTurnKeeps
<1>4. CASE Interject
  BY <1>4, InterjectKeeps
<1>5. CASE \E masks \in BOOLEAN : Receive(masks)
  BY <1>5, ReceiveKeeps
<1>6. CASE Note
  BY <1>6, NoteKeeps
<1>7. CASE Prompt
  BY <1>7, PromptKeeps
<1>8. CASE \E upstream \in Upstreams : Send(upstream)
  BY <1>8, SendKeeps
<1>9. CASE UNCHANGED requestVars
  <2>1. UNCHANGED <<client, items, atoms, pending, stage, request, edits, wire>>
    BY <1>9 DEF requestVars
  <2>2. Conversation' /\ Unread' /\ Understood' /\ MaskHeld' /\ PromptHeld'
    BY <2>1 DEF RequestInv, Conversation, Unread, Understood, MaskHeld, PromptHeld
  <2>3. MaskedStaysMasked'
    BY <2>1 DEF RequestInv, MaskedStaysMasked
  <2>4. PromptReachesTarget'
    <3>1. AtomsOf({"instructs"})' = Instructed(wire'.view) /\ AtomsOf({"instructs"}) = Instructed(wire.view)
      BY DEF AtomsOf, Instructed, Those, FlatMap, MapSeq
    <3> QED BY <2>1, <3>1 DEF RequestInv, PromptReachesTarget
  <2> QED BY <2>2, <2>3, <2>4 DEF RequestInv
<1> QED BY <1>1, <1>2, <1>3, <1>4, <1>5, <1>6, <1>7, <1>8, <1>9 DEF RequestNext

\* The inductive invariant of a translated request: the request and what was sent of it are over
\* atoms without secrets once it was masked, and start with the prompt once one was set.
THEOREM RequestSafe == RequestSpec => []RequestInv
  BY RequestInitially, RequestStep, PTL DEF RequestSpec

\* What was masked stays masked: no secret of the client is in what any upstream format sends,
\* whatever the formats and the edits between (masking before translation, server.rs and codecs).
THEOREM NoSecretIsSent == RequestSpec => []MaskedStaysMasked
<1>1. RequestInv => MaskedStaysMasked
  BY DEF RequestInv
<1> QED BY <1>1, RequestSafe, PTL

\* The system prompt an operator sets leads what the target model reads, in every format.
THEOREM ThePromptIsSent == RequestSpec => []PromptReachesTarget
<1>1. RequestInv => PromptReachesTarget
  BY DEF RequestInv
<1> QED BY <1>1, RequestSafe, PTL

(***************************************************************************)
(* Replies: what is chosen by kind out of a content that was put together. *)
(***************************************************************************)

\* Elements all kept leave the sequence.
LEMMA FlattenSingles ==
    ASSUME NEW S, NEW s \in Seq(S), NEW t, t = [i \in DOMAIN s |-> <<s[i]>>] PROVE FlattenSeq(t) = s
<1>1. t \in Seq(Seq(S)) /\ Len(t) = Len(s)
  <2> DEFINE Q == Seq(S)
  <2>1. \A x \in S : <<x>> \in Q
    OBVIOUS
  <2>2. \A i \in DOMAIN s : t[i] \in Q
    BY <2>1
  <2>3. t = [i \in DOMAIN s |-> t[i]]
    OBVIOUS
  <2> HIDE DEF Q
  <2>4. t \in Seq(Q) /\ Len(t) = Len(s)
    BY <2>2, <2>3, MapType
  <2> QED BY <2>4 DEF Q
<1>2. PICK f \in [0 .. Len(t) -> Seq(S)] :
          /\ f[0] = <<>>
          /\ \A i \in 1 .. Len(t) : f[i] = f[i - 1] \o t[i]
          /\ FlattenSeq(t) = f[Len(t)]
  BY <1>1, FlattenUnfolds
<1> DEFINE n == Len(s)
           T == {i \in Nat : i =< n => f[i] = SubSeq(s, 1, i)}
<1>3. 0 \in T
  <2>1. SubSeq(s, 1, 0) = <<>>
    OBVIOUS
  <2> QED BY <1>2, <2>1
<1>4. ASSUME NEW i \in T PROVE i + 1 \in T
  <2>1. i \in Nat
    OBVIOUS
  <2>2. SUFFICES ASSUME i + 1 =< n PROVE f[i + 1] = SubSeq(s, 1, i + 1)
    BY <2>1
  <2>3. f[i] = SubSeq(s, 1, i) /\ i + 1 \in 1 .. n /\ (i + 1) - 1 = i
    BY <2>1, <2>2
  <2>4. f[i + 1] = SubSeq(s, 1, i) \o <<s[i + 1]>>
    <3>1. t[i + 1] = <<s[i + 1]>>
      BY <2>3
    <3>2. f[i + 1] = f[(i + 1) - 1] \o t[i + 1]
      BY <1>1, <1>2, <2>3
    <3> QED BY <2>3, <3>1, <3>2
  <2>5. SubSeq(s, 1, i + 1) = SubSeq(s, 1, i) \o <<s[i + 1]>>
    BY <2>1, <2>3
  <2> QED BY <2>4, <2>5
<1> HIDE DEF T
<1>5. T \in SUBSET Nat
  BY DEF T
<1>6. T = Nat
  BY <1>3, <1>4, <1>5, SetInduction
<1>7. f[n] = SubSeq(s, 1, n) /\ SubSeq(s, 1, n) = s
  BY <1>6 DEF T
<1> QED BY <1>1, <1>2, <1>7

\* All of the blocks are of the kinds.
LEMMA OfKindAll ==
    ASSUME NEW B, NEW s \in Seq(B), NEW kinds, \A i \in DOMAIN s : s[i].kind \in kinds
    PROVE  OfKind(s, kinds) = s
<1> DEFINE t == [i \in DOMAIN s |-> IF s[i].kind \in kinds THEN <<s[i]>> ELSE <<>>]
<1>1. t = [i \in DOMAIN s |-> <<s[i]>>] /\ OfKind(s, kinds) = FlattenSeq(t)
  BY DEF OfKind, Those, FlatMap, MapSeq
<1> HIDE DEF t
<1> QED BY <1>1, FlattenSingles

\* None of the blocks is of the kinds.
LEMMA OfKindNone ==
    ASSUME NEW B, NEW s \in Seq(B), NEW kinds, \A i \in DOMAIN s : s[i].kind \notin kinds
    PROVE  OfKind(s, kinds) = <<>>
<1> DEFINE t == [i \in DOMAIN s |-> IF s[i].kind \in kinds THEN <<s[i]>> ELSE <<>>]
<1>1. t = [i \in DOMAIN s |-> t[i]] /\ OfKind(s, kinds) = FlattenSeq(t) /\ \A i \in DOMAIN s : t[i] = <<>>
  BY DEF OfKind, Those, FlatMap, MapSeq
<1> HIDE DEF t
<1> QED BY <1>1, FlattenNothing

\* Choosing by kind distributes over concatenation.
LEMMA OfKindConcat ==
    ASSUME NEW B, NEW s \in Seq(B), NEW r \in Seq(B), NEW kinds
    PROVE  OfKind(s \o r, kinds) = OfKind(s, kinds) \o OfKind(r, kinds)
<1> DEFINE one(x) == IF x.kind \in kinds THEN <<x>> ELSE <<>>
           t == [i \in DOMAIN s |-> one(s[i])]
           u == [i \in DOMAIN r |-> one(r[i])]
           v == [i \in DOMAIN (s \o r) |-> one((s \o r)[i])]
<1>1. \A x \in B : one(x) \in Seq(B)
  OBVIOUS
<1>2. /\ OfKind(s, kinds) = FlattenSeq(t) /\ OfKind(r, kinds) = FlattenSeq(u)
      /\ OfKind(s \o r, kinds) = FlattenSeq(v)
  BY DEF OfKind, Those, FlatMap, MapSeq
<1> HIDE DEF one
<1>3. t \in Seq(Seq(B)) /\ Len(t) = Len(s)
  <2> DEFINE Q == Seq(B)
  <2>1. t = [i \in DOMAIN s |-> t[i]] /\ \A i \in DOMAIN s : t[i] \in Q
    BY <1>1
  <2> HIDE DEF Q, t
  <2>2. t \in Seq(Q) /\ Len(t) = Len(s)
    BY <2>1, MapType
  <2> QED BY <2>2 DEF Q
<1>4. u \in Seq(Seq(B)) /\ Len(u) = Len(r)
  <2> DEFINE Q == Seq(B)
  <2>1. u = [i \in DOMAIN r |-> u[i]] /\ \A i \in DOMAIN r : u[i] \in Q
    BY <1>1
  <2> HIDE DEF Q, u
  <2>2. u \in Seq(Q) /\ Len(u) = Len(r)
    BY <2>1, MapType
  <2> QED BY <2>2 DEF Q
<1>5. v = t \o u
  <2>1. s \o r \in Seq(B) /\ Len(s \o r) = Len(s) + Len(r)
    OBVIOUS
  <2>2. v \in Seq(Seq(B)) /\ Len(v) = Len(s) + Len(r)
    BY <1>1, <2>1
  <2>3. ASSUME NEW i \in 1 .. Len(s) + Len(r) PROVE v[i] = (t \o u)[i]
    <3>1. v[i] = one((s \o r)[i])
      BY <2>1
    <3>2. CASE i =< Len(s)
      <4>1. i \in DOMAIN s /\ (s \o r)[i] = s[i]
        BY <3>2
      <4>2. (t \o u)[i] = t[i]
        <5> HIDE DEF t, u
        <5> QED BY <1>3, <1>4, <3>2
      <4> QED BY <3>1, <4>1, <4>2
    <3>3. CASE i > Len(s)
      <4>1. i - Len(s) \in DOMAIN r /\ (s \o r)[i] = r[i - Len(s)]
        BY <3>3
      <4>2. (t \o u)[i] = u[i - Len(s)]
        <5> HIDE DEF t, u
        <5> QED BY <1>3, <1>4, <3>3
      <4> QED BY <3>1, <4>1, <4>2
    <3> QED BY <3>2, <3>3
  <2> HIDE DEF t, u, v
  <2>4. t \o u \in Seq(Seq(B)) /\ Len(t \o u) = Len(s) + Len(r)
    <3> DEFINE Q == Seq(B)
    <3>1. t \in Seq(Q) /\ u \in Seq(Q)
      BY <1>3, <1>4
    <3> HIDE DEF Q
    <3>2. t \o u \in Seq(Q) /\ Len(t \o u) = Len(t) + Len(u)
      BY <3>1
    <3> QED BY <1>3, <1>4, <3>2 DEF Q
  <2> DEFINE w == t \o u
  <2>5. w \in Seq(Seq(B)) /\ Len(w) = Len(v) /\ \A i \in 1 .. Len(v) : v[i] = w[i]
    BY <2>2, <2>3, <2>4
  <2> HIDE DEF w
  <2>6. v = w
    BY <2>2, <2>5
  <2> QED BY <2>6 DEF w
<1> HIDE DEF t, u, v
<1> QED BY <1>2, <1>3, <1>4, <1>5, FlattenConcat

(***************************************************************************)
(* The inductive invariant of a translated reply.                          *)
(***************************************************************************)

\* The calls of a content are its calls, whatever else stands before them.
LEMMA CallsBehind ==
    ASSUME NEW B, NEW first \in Seq(B), NEW calls \in Seq(B),
           \A i \in DOMAIN first : first[i].kind # "tool_call",
           \A i \in DOMAIN calls : calls[i].kind = "tool_call"
    PROVE  OfKind(first \o calls, {"tool_call"}) = calls
<1>1. OfKind(first \o calls, {"tool_call"}) = OfKind(first, {"tool_call"}) \o OfKind(calls, {"tool_call"})
  BY OfKindConcat
<1>2. OfKind(first, {"tool_call"}) = <<>>
  BY OfKindNone
<1>3. OfKind(calls, {"tool_call"}) = calls
  BY OfKindAll
<1> QED BY <1>1, <1>2, <1>3

-----------------------------------------------------------------------------
(* What a reply holds when it is read and when it is written.              *)

SpokenParts == {Reasoning(<<"thought">>, "plain"), Text(<<"words">>), Text(<<>>)}
Asked == {ToolCall(i, n) : i \in Nat, n \in Nat}
Spoken(r) == (IF r.thinks THEN <<Reasoning(<<"thought">>, "plain")>> ELSE <<>>)
             \o (IF r.speaks THEN <<Text(<<"words">>)>> ELSE <<>>)
CallsOf(r, n) == [i \in 1..r.calls |-> ToolCall(i, n)]

\* What a reply thinks and says holds no call.
LEMMA SpokenType ==
    ASSUME NEW r \in Replies
    PROVE  Spoken(r) \in Seq(SpokenParts) /\ \A i \in DOMAIN Spoken(r) : Spoken(r)[i].kind # "tool_call"
<1>1. \A x \in SpokenParts : x.kind # "tool_call"
  BY DEF SpokenParts, Reasoning, Text, Block
<1>2. Reasoning(<<"thought">>, "plain") \in SpokenParts /\ Text(<<"words">>) \in SpokenParts
  BY DEF SpokenParts
<1>3. Spoken(r) \in Seq(SpokenParts)
  <2> HIDE DEF SpokenParts
  <2>1. /\ (IF r.thinks THEN <<Reasoning(<<"thought">>, "plain")>> ELSE <<>>) \in Seq(SpokenParts)
        /\ (IF r.speaks THEN <<Text(<<"words">>)>> ELSE <<>>) \in Seq(SpokenParts)
    BY <1>2
  <2> QED BY <2>1, ConcatSeq DEF Spoken
<1> QED BY <1>1, <1>3

\* The calls of a reply.
LEMMA CallsOfType ==
    ASSUME NEW r \in Replies, NEW n \in Nat, MaxCalls \in Nat
    PROVE  /\ CallsOf(r, n) \in Seq(Asked) /\ Len(CallsOf(r, n)) = r.calls
           /\ \A i \in DOMAIN CallsOf(r, n) : CallsOf(r, n)[i].kind = "tool_call"
<1>1. r.calls \in Nat
  BY DEF Replies
<1>2. \A i \in 1..r.calls : ToolCall(i, n) \in Asked /\ ToolCall(i, n).kind = "tool_call"
  BY <1>1 DEF Asked, ToolCall
<1> QED BY <1>1, <1>2 DEF CallsOf

\* The content of a reply is what it says, and then its calls.
LEMMA ContentParts == ASSUME NEW r, NEW n PROVE ReplyContent(r, n) = Spoken(r) \o CallsOf(r, n)
  BY DEF ReplyContent, Spoken, CallsOf

\* The calls of the content are the calls of the reply.
LEMMA ContentCalls ==
    ASSUME NEW r \in Replies, NEW n \in Nat, MaxCalls \in Nat
    PROVE  /\ ReplyContent(r, n) \in Seq(SpokenParts \cup Asked)
           /\ OfKind(ReplyContent(r, n), {"tool_call"}) = CallsOf(r, n)
<1> DEFINE B == SpokenParts \cup Asked
           first == Spoken(r)
           calls == CallsOf(r, n)
<1>1. first \in Seq(B) /\ calls \in Seq(B)
  <2>1. SpokenParts \subseteq B /\ Asked \subseteq B
    OBVIOUS
  <2>2. first \in Seq(SpokenParts) /\ calls \in Seq(Asked)
    BY SpokenType, CallsOfType
  <2> HIDE DEF B, first, calls
  <2> QED BY <2>1, <2>2, SeqIn
<1>2. /\ \A i \in DOMAIN first : first[i].kind # "tool_call"
      /\ \A i \in DOMAIN calls : calls[i].kind = "tool_call"
  BY SpokenType, CallsOfType
<1> HIDE DEF B, first, calls
<1>3. OfKind(first \o calls, {"tool_call"}) = calls
  BY <1>1, <1>2, CallsBehind
<1>4. first \o calls \in Seq(B)
  BY <1>1, ConcatSeq
<1> QED BY <1>3, <1>4, ContentParts DEF first, calls, B

-----------------------------------------------------------------------------
(* What is read of each provider's body.                                   *)

Usages == [input : Counted, cached : Counted, created : Counted, output : Counted]
Wanted(p, r) == r.calls > 0 /\ (r.stop = "done" \/ (r.stop = "filter" /\ p = "openai_responses"))
EndRead(p, r) == p = "openai_responses" => HasOutput(r)
Told(a, p, r) ==
    /\ (a.stop = "MaxTokens") <=> (r.stop = "length" /\ EndRead(p, r))
    /\ (a.stop = "ToolUse") <=> Wanted(p, r)
AsksFor(content, n) == /\ OfKind(content, {"tool_call"}) \in Seq(Asked)
                       /\ Len(OfKind(content, {"tool_call"})) = n
Kept(a, p, r) ==
    \/ a.preserved = <<>>
    \/ /\ a.preserved # <<>> /\ a.preserved[1].format = p
       /\ \E n \in Nat : a.preserved[1].content = ReplyContent(r, n)
decode_usage(p, u) ==
    CASE p = "openai_chat" -> decode_openai_usage(u)
      [] p = "anthropic_messages" -> decode_anthropic_usage(u)
      [] OTHER -> decode_responses_usage(u)
Stated(p, u) == p = "openai_responses" => u.created = Unreported
ReplyForms == {"openai_chat", "anthropic_messages", "openai_responses"}

\* Padding asks for nothing.
LEMMA NonEmptyAsks ==
    ASSUME NEW B, NEW c \in Seq(B), NEW n \in Nat, AsksFor(c, n) PROVE AsksFor(NonEmpty(c), n)
<1>1. CASE c # <<>>
  BY <1>1 DEF NonEmpty
<1>2. CASE c = <<>>
  <2> DEFINE e == <<Text(<<>>)>>
  <2>1. e \in Seq({Text(<<>>)}) /\ \A i \in DOMAIN e : e[i].kind \notin {"tool_call"}
    BY DEF Text, Block
  <2>2. <<>> \in Seq({Text(<<>>)}) /\ \A i \in DOMAIN <<>> : <<>>[i].kind \notin {"tool_call"}
    OBVIOUS
  <2> HIDE DEF e
  <2>3. OfKind(e, {"tool_call"}) = <<>>
    BY <2>1, OfKindNone
  <2>4. OfKind(<<>>, {"tool_call"}) = <<>>
    BY <2>2, OfKindNone
  <2> QED BY <1>2, <2>3, <2>4 DEF NonEmpty, AsksFor, e
<1> QED BY <1>1, <1>2

\* Every decoder keeps the calls of a reply.
LEMMA ReadContent ==
    ASSUME NEW r \in Replies, NEW u, NEW p \in ReplyForms, MaxCalls \in Nat
    PROVE  AsksFor(decode_response(p, r, u).content, r.calls)
<1> DEFINE B == SpokenParts \cup Asked
<1>0. r.calls \in Nat
  BY DEF Replies
<1>1. ASSUME NEW n \in Nat PROVE ReplyContent(r, n) \in Seq(B) /\ AsksFor(ReplyContent(r, n), r.calls)
  BY <1>1, ContentCalls, CallsOfType DEF AsksFor
<1> HIDE DEF B
<1>2. ASSUME NEW n \in Nat PROVE AsksFor(NonEmpty(ReplyContent(r, n)), r.calls)
  BY <1>0, <1>1, NonEmptyAsks
<1>3. CASE p = "anthropic_messages"
  BY <1>2, <1>3 DEF decode_response, decode_anthropic_response, Agg
<1>4. CASE p = "openai_responses"
  BY <1>2, <1>4 DEF decode_response, decode_responses_response, Agg
<1>5. CASE p = "openai_chat"
  <2> DEFINE c == ReplyContent(r, 0)
             first == OfKind(c, {"reasoning"}) \o <<Text(<<>>)>>
  <2>1. c \in Seq(B) /\ OfKind(c, {"tool_call"}) = CallsOf(r, 0) /\ AsksFor(c, r.calls)
    BY <1>1, ContentCalls
  <2>2. CallsOf(r, 0) \in Seq(Asked) /\ \A i \in DOMAIN CallsOf(r, 0) : CallsOf(r, 0)[i].kind = "tool_call"
    BY CallsOfType
  <2>3. CASE r.speaks
    BY <1>5, <2>1, <2>3 DEF decode_response, decode_openai_response, Agg
  <2>4. CASE ~r.speaks
    <3> DEFINE told == {Text(<<>>)} \cup {b \in B : b.kind = "reasoning"}
    <3>1. OfKind(c, {"reasoning"}) \in Seq(told)
      <4> HIDE DEF c
      <4>1. OfKind(c, {"reasoning"}) \in Seq({b \in B : b.kind \in {"reasoning"}})
        BY <2>1, OfKindType
      <4>2. {b \in B : b.kind \in {"reasoning"}} \subseteq told
        OBVIOUS
      <4> HIDE DEF told
      <4> QED BY <4>1, <4>2, SeqIn
    <3>2. <<Text(<<>>)>> \in Seq(told)
      <4>1. Text(<<>>) \in told
        OBVIOUS
      <4> HIDE DEF told
      <4> QED BY <4>1
    <3>3. \A x \in told : x.kind # "tool_call"
      BY DEF Text, Block
    <3>4. told \subseteq told \cup Asked /\ Asked \subseteq told \cup Asked
      OBVIOUS
    <3> HIDE DEF told
    <3>5. first \in Seq(told)
      BY <3>1, <3>2, ConcatSeq
    <3> HIDE DEF first
    <3>6. first \in Seq(told \cup Asked) /\ CallsOf(r, 0) \in Seq(told \cup Asked)
      BY <2>2, <3>4, <3>5, SeqIn
    <3>7. \A i \in DOMAIN first : first[i].kind # "tool_call"
      BY <3>3, <3>5
    <3>8. OfKind(first \o CallsOf(r, 0), {"tool_call"}) = CallsOf(r, 0)
      BY <2>2, <3>6, <3>7, CallsBehind
    <3>9. decode_response(p, r, u).content = first \o OfKind(c, {"tool_call"})
      BY <1>5, <2>4 DEF decode_response, decode_openai_response, Agg, first
    <3> QED BY <2>1, <3>8, <3>9 DEF AsksFor
  <2> QED BY <2>3, <2>4
<1> QED BY <1>3, <1>4, <1>5 DEF ReplyForms

\* Every decoder keeps why the model stopped, but for a Responses body without output, and
\* reads the usage.
LEMMA ReadStop ==
    ASSUME NEW r \in Replies, NEW u, NEW p \in ReplyForms, Stated(p, u), MaxCalls \in Nat
    PROVE  LET a == decode_response(p, r, u)
           IN  /\ Told(a, p, r) /\ Kept(a, p, r)
               /\ "preserved" \in DOMAIN a /\ a.preserved # <<>>
               /\ a.usage = decode_usage(p, u)
<1>0. r.calls \in Nat /\ r.stop \in {"done", "length", "filter"}
  BY DEF Replies
<1> DEFINE a == decode_response(p, r, u)
           raw == <<[format |-> p, content |->
                        ReplyContent(r, IF p = "anthropic_messages" THEN 0 ELSE 1)]>>
<1>1. Kept(a, p, r) /\ "preserved" \in DOMAIN a /\ a.preserved # <<>>
  <2>1. a.preserved = raw /\ "preserved" \in DOMAIN a
    BY DEF decode_response, decode_openai_response, decode_anthropic_response, decode_responses_response,
           Agg, ReplyForms
  <2>2. raw # <<>> /\ raw[1].format = p
        /\ raw[1].content = ReplyContent(r, IF p = "anthropic_messages" THEN 0 ELSE 1)
    OBVIOUS
  <2>3. (IF p = "anthropic_messages" THEN 0 ELSE 1) \in Nat
    OBVIOUS
  <2> HIDE DEF a, raw
  <2> QED BY <2>1, <2>2, <2>3 DEF Kept
<1>2. a.usage = decode_usage(p, u)
  BY DEF decode_response, decode_openai_response, decode_anthropic_response, decode_responses_response,
         Agg, ReplyForms, decode_usage
<1>3. Told(a, p, r)
  <2>1. CASE p = "openai_chat"
    <3>1. a.stop = map_openai_finish_reason(OpenAiFinish(r))
      BY <2>1 DEF decode_response, decode_openai_response, Agg
    <3> HIDE DEF a
    <3>2. CASE r.stop = "length"
      BY <1>0, <2>1, <3>1, <3>2 DEF map_openai_finish_reason, OpenAiFinish, Told, Wanted, EndRead
    <3>3. CASE r.stop = "filter"
      BY <1>0, <2>1, <3>1, <3>3 DEF map_openai_finish_reason, OpenAiFinish, Told, Wanted, EndRead
    <3>4. CASE r.stop = "done" /\ r.calls > 0
      <4>1. a.stop = "ToolUse"
        BY <3>1, <3>4 DEF map_openai_finish_reason, OpenAiFinish
      <4> QED BY <3>4, <4>1 DEF Told, Wanted
    <3>5. CASE r.stop = "done" /\ ~(r.calls > 0)
      BY <1>0, <2>1, <3>1, <3>5 DEF map_openai_finish_reason, OpenAiFinish, Told, Wanted, EndRead
    <3> QED BY <1>0, <3>2, <3>3, <3>4, <3>5
  <2>2. CASE p = "anthropic_messages"
    <3>1. a.stop = map_anthropic_stop_reason(AnthropicStop(r))
      BY <2>2 DEF decode_response, decode_anthropic_response, Agg
    <3> HIDE DEF a
    <3>2. CASE r.stop = "length"
      BY <1>0, <2>2, <3>1, <3>2 DEF map_anthropic_stop_reason, AnthropicStop, Told, Wanted, EndRead
    <3>3. CASE r.stop = "filter"
      BY <1>0, <2>2, <3>1, <3>3 DEF map_anthropic_stop_reason, AnthropicStop, Told, Wanted, EndRead
    <3>4. CASE r.stop = "done" /\ r.calls > 0
      <4>1. a.stop = "ToolUse"
        BY <3>1, <3>4 DEF map_anthropic_stop_reason, AnthropicStop
      <4> QED BY <3>4, <4>1 DEF Told, Wanted
    <3>5. CASE r.stop = "done" /\ ~(r.calls > 0)
      BY <1>0, <2>2, <3>1, <3>5 DEF map_anthropic_stop_reason, AnthropicStop, Told, Wanted, EndRead
    <3> QED BY <1>0, <3>2, <3>3, <3>4, <3>5
  <2>3. CASE p = "openai_responses"
    <3>1. a.stop = ResponsesStop(r)
      BY <2>3 DEF decode_response, decode_responses_response, Agg
    <3> HIDE DEF a
    <3>2. CASE r.stop = "length"
      BY <1>0, <2>3, <3>1, <3>2 DEF ResponsesStop, LastItemStop, HasOutput, Told, Wanted, EndRead
    <3>3. CASE r.stop = "filter"
      BY <1>0, <2>3, <3>1, <3>3 DEF ResponsesStop, LastItemStop, HasOutput, Told, Wanted, EndRead
    <3>4. CASE r.stop = "done" /\ r.calls > 0
      BY <1>0, <2>3, <3>1, <3>4 DEF ResponsesStop, LastItemStop, HasOutput, Told, Wanted, EndRead
    <3>5. CASE r.stop = "done" /\ ~(r.calls > 0)
      BY <1>0, <2>3, <3>1, <3>5 DEF ResponsesStop, LastItemStop, HasOutput, Told, Wanted, EndRead
    <3> QED BY <1>0, <3>2, <3>3, <3>4, <3>5
  <2> QED BY <2>1, <2>2, <2>3 DEF ReplyForms
<1> HIDE DEF a
<1> QED BY <1>1, <1>2, <1>3 DEF a

-----------------------------------------------------------------------------
(* What is written for each client.                                        *)

Total(format, u) == OrZero(u.input) + OrZero(u.output)
                    + (IF format # "anthropic_messages" THEN 0 ELSE OrZero(u.cached) + OrZero(u.created))
Inside(p, u) == p # "anthropic_messages" => OrZero(u.cached) + OrZero(u.created) <= u.input
encode_usage(f, u) ==
    CASE f = "openai_chat" -> encode_openai_usage(u)
      [] f = "anthropic_messages" -> encode_anthropic_usage(u)
      [] OTHER -> encode_responses_usage(u)

\* Reading the usage of a provider keeps its total.
LEMMA UsageRead ==
    ASSUME NEW u \in Usages, NEW p \in ReplyForms, u.input # Unreported, TokenCounts \subseteq Nat,
           p = "openai_responses" => u.created = Unreported, Inside(p, u)
    PROVE  LET d == decode_usage(p, u)
           IN  /\ d.input \in Nat /\ d.output = u.output
               /\ d.cached \in Nat \cup {-1} /\ d.created \in Nat \cup {-1}
               /\ d.input + OrZero(d.cached) + OrZero(d.created) + OrZero(d.output) = Total(p, u)
<1>0. /\ u.input \in Nat /\ u.cached \in Nat \cup {-1} /\ u.created \in Nat \cup {-1}
      /\ u.output \in Nat \cup {-1}
  BY DEF Usages, Counted, Unreported
<1>1. CASE p = "openai_chat"
  <2>1. decode_usage(p, u) = decode_openai_usage(u)
    BY <1>1 DEF decode_usage
  <2>2. OrZero(u.cached) \in Nat /\ OrZero(u.created) \in Nat
        /\ OrZero(u.cached) + OrZero(u.created) <= u.input
    BY <1>0, <1>1 DEF OrZero, Unreported, Inside
  <2>3. /\ decode_openai_usage(u).cached = u.cached /\ decode_openai_usage(u).created = u.created
        /\ decode_openai_usage(u).output = u.output
        /\ decode_openai_usage(u).input = Less(Less(u.input, OrZero(u.cached)), OrZero(u.created))
    BY DEF decode_openai_usage
  <2>4. Less(Less(u.input, OrZero(u.cached)), OrZero(u.created))
        = u.input - OrZero(u.cached) - OrZero(u.created)
    BY <1>0, <2>2 DEF Less
  <2> QED BY <1>0, <1>1, <2>1, <2>2, <2>3, <2>4 DEF OrZero, Unreported, Total
<1>2. CASE p = "anthropic_messages"
  <2>1. decode_usage(p, u) = u
    BY <1>2 DEF decode_usage, decode_anthropic_usage
  <2> QED BY <1>0, <1>2, <2>1 DEF OrZero, Unreported, Total, Inside
<1>3. CASE p = "openai_responses"
  <2>1. decode_usage(p, u) = decode_responses_usage(u)
    BY <1>3 DEF decode_usage
  <2> QED BY <1>0, <1>3, <2>1 DEF decode_responses_usage, Less, OrZero, Unreported, Total, Inside
<1> QED BY <1>1, <1>2, <1>3 DEF ReplyForms

\* Writing the usage keeps its total, in every format.
LEMMA UsageWritten ==
    ASSUME NEW d, NEW f \in ReplyForms, d.input \in Nat, d.output \in Nat \cup {-1},
           d.cached \in Nat \cup {-1}, d.created \in Nat \cup {-1}
    PROVE  Total(f, encode_usage(f, d)) = d.input + OrZero(d.cached) + OrZero(d.created) + OrZero(d.output)
<1>1. CASE f = "openai_chat"
  <2>1. encode_usage(f, d) = encode_openai_usage(d)
    BY <1>1 DEF encode_usage
  <2> QED BY <1>1, <2>1 DEF encode_openai_usage, Aggregate, OrZero, Unreported, Total
<1>2. CASE f = "anthropic_messages"
  <2>1. encode_usage(f, d) = encode_anthropic_usage(d)
    BY <1>2 DEF encode_usage
  <2> QED BY <1>2, <2>1 DEF encode_anthropic_usage, Aggregate, OrZero, Unreported, Total
<1>3. CASE f = "openai_responses"
  <2>1. encode_usage(f, d) = encode_responses_usage(d)
    BY <1>3 DEF encode_usage
  <2> QED BY <1>3, <2>1 DEF encode_responses_usage, Aggregate, OrZero, Unreported, Total
<1> QED BY <1>1, <1>2, <1>3 DEF ReplyForms

-----------------------------------------------------------------------------
(* What is written of the calls.                                           *)

\* The items of a Responses reply keep its calls.
LEMMA WrittenCalls ==
    ASSUME NEW a, NEW n \in Nat, AsksFor(a.content, n)
    PROVE  AsksFor(encode_responses_response(a).content, n)
<1> DEFINE Part(k) == LET b == OfKind(a.content, {k})
                      IN  IF JoinText(b) = <<>> THEN <<>> ELSE <<Block(k, JoinText(b), "plain")>>
           asked == OfKind(a.content, {"tool_call"})
           written == [i \in DOMAIN asked |->
                         ToolCall(asked[i].id, json_string_python_style(asked[i].arguments))]
           told == {b \in {Block("reasoning", JoinText(OfKind(a.content, {"reasoning"})), "plain"),
                           Block("text", JoinText(OfKind(a.content, {"text"})), "plain")} : TRUE}
           first == Part("reasoning") \o Part("text")
<1>1. encode_responses_response(a).content = first \o written
  BY DEF encode_responses_response, ReplyAs, MapSeq
<1>2. first \in Seq(told)
  <2>1. Part("reasoning") \in Seq(told) /\ Part("text") \in Seq(told)
    <3>1. /\ Block("reasoning", JoinText(OfKind(a.content, {"reasoning"})), "plain") \in told
          /\ Block("text", JoinText(OfKind(a.content, {"text"})), "plain") \in told
      OBVIOUS
    <3> HIDE DEF told
    <3> QED BY <3>1
  <2> HIDE DEF told, Part
  <2> QED BY <2>1, ConcatSeq
<1>3. \A x \in told : x.kind # "tool_call"
  BY DEF Block
<1>4. asked \in Seq(Asked) /\ Len(asked) = n
  BY DEF AsksFor
<1> HIDE DEF first, told, asked
<1>5. ASSUME NEW i \in DOMAIN asked PROVE written[i] \in Asked /\ written[i].kind = "tool_call"
  <2>1. asked[i] \in Asked
    BY <1>4
  <2>2. PICK id \in Nat, k \in Nat : asked[i] = ToolCall(id, k)
    BY <2>1 DEF Asked
  <2>3. asked[i].id = id /\ asked[i].arguments = k
    BY <2>2 DEF ToolCall
  <2>4. written[i] = ToolCall(id, k + 1) /\ k + 1 \in Nat
    BY <2>3 DEF json_string_python_style
  <2> QED BY <2>4 DEF Asked, ToolCall
<1>6. written = [i \in DOMAIN asked |-> written[i]]
  OBVIOUS
<1> HIDE DEF written
<1>7. written \in Seq(Asked) /\ Len(written) = n
  BY <1>4, <1>5, <1>6, MapType
<1>8. DOMAIN written = DOMAIN asked
  BY <1>4, <1>7
<1>9. told \subseteq told \cup Asked /\ Asked \subseteq told \cup Asked
  OBVIOUS
<1>10. first \in Seq(told \cup Asked) /\ written \in Seq(told \cup Asked)
  BY <1>2, <1>7, <1>9, SeqIn
<1>11. /\ \A i \in DOMAIN first : first[i].kind # "tool_call"
       /\ \A i \in DOMAIN written : written[i].kind = "tool_call"
  <2>1. \A i \in DOMAIN first : first[i] \in told
    BY <1>2
  <2> QED BY <1>3, <1>5, <1>8, <2>1
<1>12. OfKind(first \o written, {"tool_call"}) = written
  BY <1>10, <1>11, CallsBehind
<1> QED BY <1>1, <1>7, <1>12 DEF AsksFor

-----------------------------------------------------------------------------
(* The invariant: the neutral reply says what the provider said, for as    *)
(* long as it is held, with or without the body kept for exact replay.     *)

ReplyTyped ==
    /\ reply \in Replies
    /\ usage \in Usages /\ usage.input # Unreported
ReadTrue ==
    agg # NotYet =>
        /\ provider \in ReplyFormats /\ Stated(provider, usage)
        /\ Told(agg, provider, reply) /\ AsksFor(agg.content, reply.calls)
        /\ Kept(agg, provider, reply) /\ agg.usage = decode_usage(provider, usage)
        /\ restored <=> agg.preserved = <<>>
        /\ "preserved" \in DOMAIN agg
ReplyInv == /\ ReplyTyped /\ ReadTrue /\ (received # NotYet => agg # NotYet)
            /\ agg = NotYet => ~restored
            /\ StopSurvives /\ UsageConserved

\* Every encoder keeps why the model stopped.
LEMMA WrittenStop ==
    ASSUME ReplyTyped, ReadTrue, agg # NotYet, NEW f \in ReplyFormats,
           received' = encode_response(f, agg), UNCHANGED <<reply, provider, restored>>
    PROVE  StopSurvives'
<1> USE ReplyAssumption
<1> DEFINE w == encode_response(f, agg)
<1>0. /\ f \in ReplyForms /\ provider \in ReplyForms /\ reply.calls \in Nat
      /\ reply.stop \in {"done", "length", "filter"}
  <2>1. f \in ReplyForms /\ provider \in ReplyForms
    BY DEF ReadTrue, ReplyForms
  <2>2. reply.calls \in Nat /\ reply.stop \in {"done", "length", "filter"}
    BY DEF ReplyTyped, Replies
  <2> QED BY <2>1, <2>2
<1> DEFINE lost == /\ provider = "openai_responses" /\ ~HasOutput(reply)
                   /\ restored \/ f # provider
<1>1. SUFFICES /\ (w.stop \in CutAtLimit) <=> (reply.stop = "length" /\ ~lost)
               /\ f = "openai_responses" => Len(Calls(w.content)) = reply.calls
               /\ f # "openai_responses" =>
                    ((w.stop \in {"tool_calls", "tool_use"}) <=> Wanted(provider, reply))
               /\ w.format = f
  <2>1. w.format = f => (EndIsLost' <=> lost)
    BY DEF EndIsLost, HasOutput
  <2>2. received' = w /\ UNCHANGED <<reply, provider>>
    OBVIOUS
  <2> HIDE DEF w, lost
  <2>3. (received'.stop \in CutAtLimit) <=> (reply.stop = "length" /\ ~EndIsLost')
    BY <1>1, <2>1, <2>2
  <2>4. /\ received'.format = "openai_responses" => Len(Calls(received'.content)) = reply.calls
        /\ received'.format # "openai_responses" =>
             ((received'.stop \in {"tool_calls", "tool_use"}) <=> Wanted(provider, reply))
    BY <1>1, <2>1, <2>2
  <2> QED BY <2>2, <2>3, <2>4 DEF StopSurvives, Wanted, CutAtLimit, Calls
<1>2. CASE agg.preserved # <<>> /\ agg.preserved[1].format = f
  <2>1. w = ReplyAs(f, agg.preserved[1].content, Replayed(f, reply), usage)
    BY <1>2 DEF encode_response
  <2>2. PICK n \in Nat : agg.preserved[1].content = ReplyContent(reply, n)
    BY <1>2 DEF ReadTrue, Kept
  <2>0. ~restored /\ f = provider /\ ~lost
    BY <1>2 DEF ReadTrue, Kept
  <2>3. w.format = f /\ w.stop = Replayed(f, reply) /\ w.content = ReplyContent(reply, n)
    BY <2>1, <2>2 DEF ReplyAs
  <2>4. Len(Calls(w.content)) = reply.calls
    BY <2>3, ContentCalls, CallsOfType DEF ReplyTyped, Calls
  <2> HIDE DEF w, lost
  <2>5. CASE f = "openai_responses"
    <3>1. w.stop = CASE reply.stop = "length" -> "incomplete" [] reply.stop = "filter" -> "filtered"
                     [] OTHER -> "completed"
      BY <2>3, <2>5 DEF Replayed
    <3> QED BY <1>0, <2>0, <2>3, <2>4, <2>5, <3>1 DEF CutAtLimit
  <2>6. CASE f = "openai_chat"
    <3>1. w.stop = OpenAiFinish(reply)
      BY <2>3, <2>6 DEF Replayed
    <3>2. CASE reply.stop = "done" /\ reply.calls > 0
      BY <2>0, <2>3, <2>6, <3>1, <3>2 DEF OpenAiFinish, CutAtLimit, Wanted
    <3>3. CASE reply.stop = "done" /\ ~(reply.calls > 0)
      BY <2>0, <2>3, <2>6, <3>1, <3>3 DEF OpenAiFinish, CutAtLimit, Wanted
    <3>4. CASE reply.stop \in {"length", "filter"}
      BY <2>0, <2>3, <2>6, <3>1, <3>4 DEF OpenAiFinish, CutAtLimit, Wanted
    <3> QED BY <1>0, <3>2, <3>3, <3>4
  <2>7. CASE f = "anthropic_messages"
    <3>1. w.stop = AnthropicStop(reply)
      BY <2>3, <2>7 DEF Replayed
    <3>2. CASE reply.stop = "done" /\ reply.calls > 0
      BY <2>0, <2>3, <2>7, <3>1, <3>2 DEF AnthropicStop, CutAtLimit, Wanted
    <3>3. CASE reply.stop = "done" /\ ~(reply.calls > 0)
      BY <2>0, <2>3, <2>7, <3>1, <3>3 DEF AnthropicStop, CutAtLimit, Wanted
    <3>4. CASE reply.stop \in {"length", "filter"}
      BY <2>0, <2>3, <2>7, <3>1, <3>4 DEF AnthropicStop, CutAtLimit, Wanted
    <3> QED BY <1>0, <3>2, <3>3, <3>4
  <2> QED BY <1>0, <2>5, <2>6, <2>7 DEF ReplyForms
<1>3. CASE ~(agg.preserved # <<>> /\ agg.preserved[1].format = f)
  <2>1. Told(agg, provider, reply) /\ AsksFor(agg.content, reply.calls)
    BY DEF ReadTrue
  <2>5. ~lost <=> EndRead(provider, reply)
    BY <1>3 DEF ReadTrue, Kept, EndRead
  <2> HIDE DEF lost
  <2>2. CASE f = "openai_responses"
    <3>1. w = encode_responses_response(agg)
      BY <1>3, <2>2 DEF encode_response
    <3>2. AsksFor(w.content, reply.calls)
      BY <1>0, <2>1, <3>1, WrittenCalls
    <3>3. w.format = f /\ w.stop = IF agg.stop = "MaxTokens" THEN "incomplete" ELSE "completed"
      BY <2>2, <3>1 DEF encode_responses_response, ReplyAs
    <3> HIDE DEF w
    <3> QED BY <2>1, <2>2, <2>5, <3>2, <3>3 DEF Told, AsksFor, Calls, CutAtLimit
  <2>3. CASE f = "openai_chat"
    <3>1. w = encode_openai_response(agg)
      BY <1>3, <2>3 DEF encode_response
    <3>2. w.format = f /\ w.stop = openai_finish_reason(agg.stop)
      BY <2>3, <3>1 DEF encode_openai_response, ReplyAs
    <3> HIDE DEF w
    <3> QED BY <1>0, <2>1, <2>3, <2>5, <3>2 DEF Told, openai_finish_reason, CutAtLimit
  <2>4. CASE f = "anthropic_messages"
    <3>1. w = encode_anthropic_response(agg)
      BY <1>3, <2>4 DEF encode_response
    <3>2. w.format = f /\ w.stop = anthropic_stop_reason(agg.stop)
      BY <2>4, <3>1 DEF encode_anthropic_response, ReplyAs
    <3> HIDE DEF w
    <3> QED BY <1>0, <2>1, <2>4, <2>5, <3>2 DEF Told, anthropic_stop_reason, CutAtLimit
  <2> QED BY <1>0, <2>2, <2>3, <2>4 DEF ReplyForms
<1> QED BY <1>2, <1>3

\* Every encoder keeps the total of tokens.
LEMMA WrittenUsage ==
    ASSUME ReplyTyped, ReadTrue, agg # NotYet, NEW f \in ReplyFormats,
           received' = encode_response(f, agg), UNCHANGED <<reply, usage, provider>>
    PROVE  UsageConserved'
<1> USE ReplyAssumption
<1> DEFINE w == encode_response(f, agg)
<1>0. /\ f \in ReplyForms /\ provider \in ReplyForms /\ usage \in Usages /\ usage.input # Unreported
      /\ provider = "openai_responses" => usage.created = Unreported
  BY DEF ReadTrue, ReplyTyped, ReplyForms, Stated
<1>1. SUFFICES ASSUME Inside(provider, usage)
               PROVE  w.format = f /\ Total(f, w.usage) = Total(provider, usage)
  BY DEF UsageConserved, Inside, Total
<1>2. CASE agg.preserved # <<>> /\ agg.preserved[1].format = f
  <2>1. w = ReplyAs(f, agg.preserved[1].content, Replayed(f, reply), usage)
    BY <1>2 DEF encode_response
  <2>2. f = provider
    BY <1>2 DEF ReadTrue, Kept
  <2> QED BY <2>1, <2>2 DEF ReplyAs
<1>3. CASE ~(agg.preserved # <<>> /\ agg.preserved[1].format = f)
  <2> DEFINE d == decode_usage(provider, usage)
  <2>1. w.format = f /\ w.usage = encode_usage(f, d)
    <3>1. agg.usage = d
      BY DEF ReadTrue
    <3>2. CASE f = "openai_chat"
      BY <1>3, <3>1, <3>2 DEF encode_response, encode_openai_response, ReplyAs, encode_usage
    <3>3. CASE f = "anthropic_messages"
      BY <1>3, <3>1, <3>3 DEF encode_response, encode_anthropic_response, ReplyAs, encode_usage
    <3>4. CASE f = "openai_responses"
      BY <1>3, <3>1, <3>4 DEF encode_response, encode_responses_response, ReplyAs, encode_usage
    <3> QED BY <1>0, <3>2, <3>3, <3>4 DEF ReplyForms
  <2>2. /\ d.input \in Nat /\ d.output = usage.output
        /\ d.cached \in Nat \cup {-1} /\ d.created \in Nat \cup {-1}
        /\ d.input + OrZero(d.cached) + OrZero(d.created) + OrZero(d.output) = Total(provider, usage)
    <3> HIDE DEF w
    <3> QED BY <1>0, <1>1, UsageRead
  <2>3. usage.output \in Nat \cup {-1}
    BY <1>0 DEF Usages, Counted, Unreported
  <2> HIDE DEF w, d
  <2>4. Total(f, encode_usage(f, d)) = d.input + OrZero(d.cached) + OrZero(d.created) + OrZero(d.output)
    BY <1>0, <2>2, <2>3, UsageWritten
  <2> QED BY <2>1, <2>2, <2>4
<1> QED BY <1>2, <1>3

\* Every step keeps the invariant.
LEMMA ReplyStep == ReplyInv /\ [ReplyNext]_replyVars => ReplyInv'
<1> SUFFICES ASSUME ReplyInv, [ReplyNext]_replyVars PROVE ReplyInv'
  OBVIOUS
<1> USE ReplyAssumption
<1>1. ASSUME NEW format \in ReplyFormats, Read(format) PROVE ReplyInv'
  <2>1. agg = NotYet /\ received = NotYet /\ received' = received /\ ~restored
        /\ UNCHANGED <<reply, usage, restored>> /\ provider' = format /\ agg' = decode_response(format, reply, usage)
    BY <1>1 DEF Read, ReplyInv
  <2>2. format \in ReplyForms /\ Stated(format, usage) /\ reply \in Replies
    BY <1>1 DEF Read, ReplyForms, Stated, ReplyInv, ReplyTyped
  <2>3. AsksFor(decode_response(format, reply, usage).content, reply.calls)
    BY <2>2, ReadContent
  <2>4. LET a == decode_response(format, reply, usage)
        IN  /\ Told(a, format, reply) /\ Kept(a, format, reply)
            /\ "preserved" \in DOMAIN a /\ a.preserved # <<>>
            /\ a.usage = decode_usage(format, usage)
    BY <2>2, ReadStop
  <2>5. ReadTrue'
    BY <2>1, <2>2, <2>3, <2>4 DEF ReadTrue
  <2>6. StopSurvives' /\ UsageConserved'
    BY <2>1 DEF StopSurvives, UsageConserved, NotYet
  <2> QED BY <2>1, <2>5, <2>6 DEF ReplyInv, ReplyTyped
<1>2. CASE Restore
  <2>1. agg # NotYet /\ UNCHANGED <<reply, usage, provider, received>> /\ agg' = restore_agg(agg)
        /\ received = NotYet /\ restored' = TRUE
    BY <1>2 DEF Restore
  <2>2. ReadTrue'
    <3>1. /\ Stated(provider, usage) /\ Told(agg, provider, reply) /\ AsksFor(agg.content, reply.calls)
          /\ provider \in ReplyFormats /\ agg.usage = decode_usage(provider, usage)
      BY <2>1 DEF ReplyInv, ReadTrue
    <3>2. /\ agg'.preserved = <<>> /\ agg'.stop = agg.stop /\ agg'.content = agg.content
          /\ agg'.usage = agg.usage /\ "preserved" \in DOMAIN agg'
      BY <2>1 DEF restore_agg, ReplyInv, ReadTrue
    <3> QED BY <2>1, <3>1, <3>2 DEF ReadTrue, Told, Kept, AsksFor
  <2>3. StopSurvives' /\ UsageConserved'
    BY <2>1 DEF StopSurvives, UsageConserved, NotYet
  <2>4. agg' # NotYet
    <3>1. "preserved" \in DOMAIN agg'
      BY <2>1 DEF restore_agg, ReplyInv, ReadTrue
    <3>2. "preserved" \notin DOMAIN NotYet
      BY DEF NotYet
    <3> QED BY <3>1, <3>2
  <2> QED BY <2>1, <2>2, <2>3, <2>4 DEF ReplyInv, ReplyTyped
<1>3. ASSUME NEW format \in ReplyFormats, Write(format) PROVE ReplyInv'
  <2>1. /\ agg # NotYet /\ UNCHANGED <<reply, usage, provider, agg, restored>>
        /\ received' = encode_response(format, agg)
    BY <1>3 DEF Write
  <2>2. ReplyTyped /\ ReadTrue
    BY DEF ReplyInv
  <2>3. StopSurvives' /\ UsageConserved'
    BY <2>1, <2>2, WrittenStop, WrittenUsage
  <2>4. ReadTrue' /\ ReplyTyped'
    BY <2>1, <2>2 DEF ReadTrue, ReplyTyped
  <2> QED BY <2>1, <2>3, <2>4 DEF ReplyInv
<1>4. CASE UNCHANGED replyVars
  BY <1>4 DEF replyVars, ReplyInv, ReplyTyped, ReadTrue, StopSurvives, EndIsLost, UsageConserved
<1> QED BY <1>1, <1>2, <1>3, <1>4 DEF ReplyNext

\* The invariant holds before the provider answered.
LEMMA ReplyFirst == ReplyInit => ReplyInv
<1> SUFFICES ASSUME ReplyInit PROVE ReplyInv
  OBVIOUS
<1> USE ReplyAssumption
<1>1. ReplyTyped
  BY DEF ReplyInit, ReplyTyped, Usages, Counted, Unreported
<1> QED BY <1>1 DEF ReplyInit, ReplyInv, ReadTrue, StopSurvives, UsageConserved

\* The inductive invariant of a translated reply.
LEMMA ReplySafe == ReplySpec => []ReplyInv
  BY ReplyFirst, ReplyStep, PTL DEF ReplySpec

(***************************************************************************)
(* The client is told that a reply was cut exactly when the provider said  *)
(* so, but for a Responses body without output that is not replayed, and   *)
(* that the model wants its tools run exactly when the provider's format   *)
(* says so: whatever formats the two speak, whether masking restored the   *)
(* reply, whatever stopped it and however many calls it makes.             *)
(***************************************************************************)
THEOREM TheStopIsTold == ReplySpec => []StopSurvives
<1>1. ReplyInv => StopSurvives
  BY DEF ReplyInv
<1> QED BY <1>1, ReplySafe, PTL

(***************************************************************************)
(* The tokens a client reads are those the provider counted, for every     *)
(* count and every pair of formats.                                        *)
(***************************************************************************)
THEOREM NoTokenIsLost == ReplySpec => []UsageConserved
<1>1. ReplyInv => UsageConserved
  BY DEF ReplyInv
<1> QED BY <1>1, ReplySafe, PTL

(***************************************************************************)
(* The slug of a kind: sanitize_kind, one symbol at a time.                *)
(***************************************************************************)

\* The separator between the words of a slug
Gap == "_"
Word == Alnum \cup {Gap}
\* A text that cleaning leaves as it is: it neither starts with a separator nor has two in a row
Clean(s) == /\ s \in Seq(Word)
            /\ s # <<>> => s[1] # Gap
            /\ \A i \in 1 .. Len(s) - 1 : ~(s[i] = Gap /\ s[i + 1] = Gap)

\* The separator is no letter of a slug, and cleaning puts one between words.
LEMMA Separated ==
    /\ Gap \notin Alnum /\ data # <<>> /\ \E a \in Alnum : data = <<a>>
    /\ \A out, c : Cleaned(out, c) =
          IF c \in Alnum THEN Append(out, c)
          ELSE IF out # <<>> /\ Last(out) # Gap THEN Append(out, Gap) ELSE out
<1>1. Gap \notin Alnum
  BY LetterAssumption DEF Gap, Alnum
<1>2. data # <<>> /\ \E a \in Alnum : data = <<a>>
  BY LetterAssumption DEF data, Alnum
<1> QED BY <1>1, <1>2 DEF Cleaned, Gap

\* The recursion of sanitize_kind is defined, and stays within the clean texts.
LEMMA CleanedStaysClean == ASSUME NEW s, Clean(s), NEW c PROVE Clean(Cleaned(s, c))
<1>0. s \in Seq(Word)
  BY DEF Clean
<1>1. ASSUME NEW w \in Word, w = Gap => s # <<>> /\ Last(s) # Gap PROVE Clean(Append(s, w))
  <2> DEFINE t == Append(s, w)
  <2>1. t \in Seq(Word) /\ Len(t) = Len(s) + 1 /\ (\A i \in 1 .. Len(s) : t[i] = s[i]) /\ t[Len(s) + 1] = w
    BY <1>0
  <2>2. t[1] # Gap
    <3>1. CASE s = <<>>
      BY <1>1, <2>1, <3>1
    <3>2. CASE s # <<>>
      <4>1. 1 \in 1 .. Len(s) /\ s[1] # Gap
        BY <1>0, <3>2 DEF Clean
      <4> QED BY <2>1, <4>1
    <3> QED BY <3>1, <3>2
  <2>3. ASSUME NEW i \in 1 .. Len(t) - 1 PROVE ~(t[i] = Gap /\ t[i + 1] = Gap)
    <3>1. CASE i < Len(s)
      <4>1. i \in 1 .. Len(s) - 1 /\ t[i] = s[i] /\ t[i + 1] = s[i + 1]
        BY <1>0, <2>1, <3>1
      <4> QED BY <4>1 DEF Clean
    <3>2. CASE i = Len(s)
      <4>1. t[i] = s[Len(s)] /\ t[i + 1] = w /\ Last(s) = s[Len(s)]
        BY <1>0, <2>1, <3>2 DEF Last
      <4> QED BY <1>1, <4>1
    <3> QED BY <1>0, <2>1, <3>1, <3>2
  <2> HIDE DEF t
  <2>4. Clean(t)
    BY <2>1, <2>2, <2>3 DEF Clean
  <2> QED BY <2>4 DEF t
<1>2. CASE c \in Alnum
  BY <1>1, <1>2, Separated DEF Word
<1>3. CASE c \notin Alnum /\ s # <<>> /\ Last(s) # Gap
  BY <1>1, <1>3, Separated DEF Word
<1>4. CASE c \notin Alnum /\ ~(s # <<>> /\ Last(s) # Gap)
  BY <1>4, Separated
<1> QED BY <1>2, <1>3, <1>4

\* What sanitize_kind computes, one symbol at a time.
LEMMA CleanUnfolds ==
    ASSUME NEW S, NEW s \in Seq(S)
    PROVE  \E f : /\ f[0] = <<>> /\ \A i \in 1 .. Len(s) : f[i] = Cleaned(f[i - 1], s[i])
                  /\ \A i \in 0 .. Len(s) : Clean(f[i])
                  /\ sanitize_kind(s) = IF f[Len(s)] = <<>> THEN data ELSE f[Len(s)]
<1> DEFINE n == Len(s)
           V == {t \in Seq(Word) : Clean(t)}
           step == [p \in V \X (1 .. n) |-> Cleaned(p[1], s[p[2]])]
           Solves(g) == g = [i \in 0 .. n |-> IF i = 0 THEN <<>> ELSE Cleaned(g[i - 1], s[i])]
           clean == CHOOSE g : Solves(g)
<1>1. n \in Nat /\ <<>> \in V /\ step \in [V \X (1 .. n) -> V]
  <2>1. <<>> \in V
    BY DEF Clean
  <2>2. \A t \in V : \A c : Cleaned(t, c) \in V
    <3>1. \A t, c : Clean(t) => Cleaned(t, c) \in V
      BY CleanedStaysClean DEF Clean
    <3> QED BY <3>1
  <2> QED BY <2>1, <2>2
<1>2. PICK g \in [0 .. n -> V] : Solves(g)
  <2> HIDE DEF n, V, step
  <2>1. PICK g \in [0 .. n -> V] : Iterates(g, <<>>, n, step)
    BY <1>1, Iteration
  <2>2. ASSUME NEW i \in 0 .. n PROVE g[i] = IF i = 0 THEN <<>> ELSE Cleaned(g[i - 1], s[i])
    <3>1. g[i] = IF i = 0 THEN <<>> ELSE step[<<g[i - 1], i>>]
      BY <2>1 DEF Iterates
    <3>2. i # 0 => i - 1 \in 0 .. n /\ i \in 1 .. n
      BY <1>1
    <3>3. i # 0 => <<g[i - 1], i>> \in V \X (1 .. n)
      BY <3>2
    <3> QED BY <3>1, <3>3 DEF step
  <2>3. Solves(g)
    BY <2>2
  <2> QED BY <2>3
<1>3. Solves(clean)
  BY <1>2
<1>4. sanitize_kind(s) = IF clean[n] = <<>> THEN data ELSE clean[n]
  BY DEF sanitize_kind
<1> HIDE DEF clean
<1>5. clean[0] = <<>> /\ \A i \in 1 .. n : clean[i] = Cleaned(clean[i - 1], s[i])
  BY <1>1, <1>3
<1>6. \A i \in 0 .. n : Clean(clean[i])
  <2> DEFINE T == {i \in Nat : i =< n => Clean(clean[i])}
  <2>1. 0 \in T
    BY <1>1, <1>5
  <2>2. ASSUME NEW i \in T PROVE i + 1 \in T
    <3>1. i \in Nat
      OBVIOUS
    <3>2. SUFFICES ASSUME i + 1 =< n PROVE Clean(clean[i + 1])
      BY <3>1
    <3>3. i + 1 \in 1 .. n /\ (i + 1) - 1 = i /\ Clean(clean[i])
      BY <1>1, <3>1, <3>2
    <3>4. clean[i + 1] = Cleaned(clean[i], s[i + 1])
      BY <1>5, <3>3
    <3> QED BY <3>3, <3>4, CleanedStaysClean
  <2> HIDE DEF T
  <2>3. T \in SUBSET Nat
    BY DEF T
  <2>4. T = Nat
    BY <2>1, <2>2, <2>3, SetInduction
  <2> QED BY <1>1, <2>4 DEF T
<1> QED BY <1>4, <1>5, <1>6

\* A clean text is its own slug.
LEMMA CleanIsItself == ASSUME NEW s, Clean(s), s # <<>> PROVE sanitize_kind(s) = s
<1>0. s \in Seq(Word) /\ Len(s) \in Nat /\ s[1] # Gap /\ Gap \notin Alnum
  BY Separated DEF Clean
<1>1. PICK f : /\ f[0] = <<>> /\ \A i \in 1 .. Len(s) : f[i] = Cleaned(f[i - 1], s[i])
               /\ sanitize_kind(s) = IF f[Len(s)] = <<>> THEN data ELSE f[Len(s)]
  BY <1>0, CleanUnfolds
<1> DEFINE n == Len(s)
           T == {i \in Nat : i =< n => f[i] = SubSeq(s, 1, i)}
<1>2. 0 \in T
  <2>1. SubSeq(s, 1, 0) = <<>>
    BY <1>0
  <2> QED BY <1>1, <2>1
<1>3. ASSUME NEW i \in T PROVE i + 1 \in T
  <2>1. i \in Nat
    OBVIOUS
  <2>2. SUFFICES ASSUME i + 1 =< n PROVE f[i + 1] = SubSeq(s, 1, i + 1)
    BY <2>1
  <2> DEFINE t == SubSeq(s, 1, i)
  <2>3. f[i] = t /\ i + 1 \in 1 .. n /\ (i + 1) - 1 = i
    BY <2>1, <2>2
  <2>4. f[i + 1] = Cleaned(t, s[i + 1])
    <3>1. f[i + 1] = Cleaned(f[(i + 1) - 1], s[i + 1])
      BY <1>1, <2>3
    <3> QED BY <2>3, <3>1
  <2>5. t \in Seq(Word) /\ Len(t) = i /\ (i > 0 => t[i] = s[i]) /\ s[i + 1] \in Word
    BY <1>0, <2>1, <2>3
  <2>6. Append(t, s[i + 1]) = SubSeq(s, 1, i + 1)
    BY <1>0, <2>1, <2>3
  <2>7. s[i + 1] = Gap => t # <<>> /\ Last(t) # Gap
    <3>1. CASE i = 0
      BY <1>0, <3>1
    <3>2. CASE i > 0
      <4>1. i \in 1 .. Len(s) - 1
        BY <1>0, <2>1, <2>3, <3>2
      <4>2. ~(s[i] = Gap /\ s[i + 1] = Gap)
        BY <4>1 DEF Clean
      <4>3. Last(t) = s[i] /\ t # <<>>
        BY <2>5, <3>2 DEF Last
      <4> QED BY <4>2, <4>3
    <3> QED BY <2>1, <3>1, <3>2
  <2> HIDE DEF t
  <2>8. Cleaned(t, s[i + 1]) = Append(t, s[i + 1])
    BY <2>5, <2>7, Separated DEF Word
  <2> QED BY <2>4, <2>6, <2>8
<1> HIDE DEF T
<1>4. T \in SUBSET Nat
  BY DEF T
<1>5. T = Nat
  BY <1>2, <1>3, <1>4, SetInduction
<1>6. f[n] = SubSeq(s, 1, n) /\ SubSeq(s, 1, n) = s
  BY <1>0, <1>5 DEF T
<1> QED BY <1>1, <1>6

\* The slug of every kind is its own slug.
LEMMA EverySlugIsStable == ASSUME NEW S, NEW s \in Seq(S) PROVE SlugStable(s)
<1>0. Clean(data) /\ data # <<>>
  <2>1. PICK a \in Alnum : data = <<a>>
    BY Separated
  <2>2. a \in Word /\ a # Gap
    BY Separated DEF Word
  <2>3. <<a>> \in Seq(Word) /\ Len(<<a>>) = 1 /\ <<a>>[1] = a
    BY <2>2
  <2> QED BY <2>1, <2>2, <2>3, Separated DEF Clean
<1>1. Clean(sanitize_kind(s)) /\ sanitize_kind(s) # <<>>
  <2>1. PICK f : /\ \A i \in 0 .. Len(s) : Clean(f[i])
                 /\ sanitize_kind(s) = IF f[Len(s)] = <<>> THEN data ELSE f[Len(s)]
    BY CleanUnfolds
  <2>2. Len(s) \in 0 .. Len(s)
    OBVIOUS
  <2> QED BY <1>0, <2>1, <2>2
<1> QED BY <1>1, CleanIsItself DEF SlugStable

\* The slug of a kind is its own slug, for every kind a detector may name: sanitizing twice
\* changes nothing, so a minted placeholder is found again by the kind it shows.
THEOREM SlugsAreStable == KindSpec => []SlugsStable
<1>1. KindInit => kind \in Seq(Symbol)
  BY DEF KindInit
<1>2. kind \in Seq(Symbol) /\ [Grow]_kind => (kind \in Seq(Symbol))'
  BY DEF Grow
<1>3. kind \in Seq(Symbol) => SlugsStable
  BY EverySlugIsStable DEF SlugsStable
<1> QED BY <1>1, <1>2, <1>3, PTL DEF KindSpec

(***************************************************************************)
(* Merging findings: last_end is the end of the last finding kept, no kept *)
(* finding ends after it, and everything kept is sorted before everything  *)
(* the loop has still to reach.                                            *)
(***************************************************************************)

Shaped == \A f \in found : f.start < f.end

Frontier ==
    /\ \A f \in kept : f.end <= last_end /\ Retained(f)
    /\ \A f \in left : Retained(f)
    /\ kept = {} => last_end = 0
    /\ kept # {} => \E g \in kept : g.end = last_end
    /\ \A g \in kept, f \in left : Before(g, f)

Covered ==
    \A f \in found : Retained(f) /\ f \notin kept /\ f \notin left =>
        \E g \in kept : Before(g, f) /\ ~Apart(At(f), At(g))

MergeInv == MergeTypeOK /\ Shaped /\ Frontier /\ Disjoint /\ Covered

\* The invariant holds where the loop starts: nothing kept, all that is retained left.
LEMMA MergeInitInv == MergeInit => MergeInv
<1> SUFFICES ASSUME MergeInit PROVE MergeInv
    OBVIOUS
<1>1. \A f \in found : f \in Finding /\ f.start < f.end
    <2> SUFFICES ASSUME NEW f \in found PROVE f \in Finding /\ f.start < f.end
        OBVIOUS
    <2>1. PICK d \in Detector : \E r \in Reports(d) : f \in r
        BY DEF MergeInit
    <2>2. f \in detect(d)
        BY <2>1 DEF Reports
    <2>3. PICK s \in Span : f = [start |-> s[1], end |-> s[2], by |-> d]
        BY <2>2 DEF detect
    <2> QED
        BY <2>3 DEF Span, Finding
<1>2. MergeTypeOK
    BY <1>1, MergeAssumption DEF MergeInit, MergeTypeOK
<1>3. Shaped
    BY <1>1 DEF Shaped
<1>4. Frontier
    BY DEF MergeInit, Frontier
<1>5. Disjoint /\ Covered
    BY DEF MergeInit, Disjoint, Covered
<1> QED
    BY <1>2, <1>3, <1>4, <1>5 DEF MergeInv

\* One turn of the loop keeps it.
LEMMA MergeStepInv == MergeInv /\ [MergeNext]_mergeVars => MergeInv'
<1> SUFFICES ASSUME MergeInv, [MergeNext]_mergeVars PROVE MergeInv'
    OBVIOUS
<1> USE DEF MergeInv
<1>1. CASE Keep
    <2>1. PICK f \in left : /\ \A g \in left \ {f} : Before(f, g)
                            /\ Clear(f)
                            /\ left' = left \ {f}
                            /\ kept' = kept \cup {f}
                            /\ last_end' = f.end
                            /\ UNCHANGED <<found, placed, allowed>>
        BY <1>1 DEF Keep
    <2>2. f \in Finding /\ f.start < f.end /\ Retained(f)
        BY DEF MergeTypeOK, Shaped, Frontier
    <2>3. /\ f.start \in Nat /\ f.end \in Nat /\ last_end \in Nat
          /\ f.end <= Length /\ last_end <= f.start
        BY <2>1, <2>2, MergeAssumption DEF Finding, MergeTypeOK, Clear
    <2>4. MergeTypeOK' /\ Shaped'
        BY <2>1, <2>2, <2>3, MergeAssumption DEF MergeTypeOK, Shaped
    <2>5. \A g \in found : Retained(g)' = Retained(g)
        BY <2>1 DEF Retained, overlaps_placeholder
    <2>6. \A g \in kept : g.end \in Nat /\ g.end <= last_end
        BY MergeAssumption DEF Frontier, MergeTypeOK, Finding
    <2>7. Frontier'
        <3>1. \A g \in kept' : g.end <= f.end /\ Retained(g)'
            BY <2>1, <2>2, <2>3, <2>5, <2>6 DEF Frontier, MergeTypeOK
        <3>2. \A g \in left' : Retained(g)'
            BY <2>1, <2>5 DEF Frontier, MergeTypeOK
        <3>3. \A g \in kept', h \in left' : Before(g, h)
            BY <2>1 DEF Frontier
        <3> QED
            BY <2>1, <3>1, <3>2, <3>3 DEF Frontier, Before, len
    <2>8. Disjoint'
        <3>1. \A g \in kept : Apart(At(f), At(g)) /\ Apart(At(g), At(f))
            BY <2>3, <2>6 DEF Apart, At
        <3>2. ~overlaps_placeholder(f)
            BY <2>2 DEF Retained
        <3> QED
            BY <2>1, <3>1, <3>2 DEF Disjoint, overlaps_placeholder
    <2>9. Covered'
        <3> SUFFICES ASSUME NEW h \in found, Retained(h), h \notin kept', h \notin left'
                     PROVE  \E g \in kept' : Before(g, h) /\ ~Apart(At(h), At(g))
            BY <2>1, <2>5 DEF Covered, Before, len, Apart, At
        <3>1. h \notin kept /\ h \notin left
            BY <2>1
        <3> QED
            BY <2>1, <3>1 DEF Covered
    <2> QED
        BY <2>4, <2>7, <2>8, <2>9
<1>2. CASE Drop
    <2>1. PICK f \in left : /\ \A g \in left \ {f} : Before(f, g)
                            /\ ~Clear(f)
                            /\ left' = left \ {f}
                            /\ UNCHANGED <<found, placed, allowed, kept, last_end>>
        BY <1>2 DEF Drop
    <2>2. f \in Finding /\ f.start < f.end
        BY DEF MergeTypeOK, Shaped
    <2>3. f.start \in Nat /\ f.end \in Nat /\ last_end \in Nat /\ f.start < last_end
        BY <2>1, <2>2, MergeAssumption DEF Finding, MergeTypeOK, Clear
    <2>4. MergeTypeOK' /\ Shaped' /\ Disjoint'
        BY <2>1 DEF MergeTypeOK, Shaped, Disjoint, overlaps_placeholder
    <2>5. Frontier'
        BY <2>1 DEF Frontier, Retained, overlaps_placeholder, Before, len
    <2>6. PICK g \in kept : g.end = last_end
        BY <2>3 DEF Frontier
    <2>7. Before(g, f) /\ g \in Finding
        BY DEF Frontier, MergeTypeOK
    <2>8. g.start \in Nat /\ g.start <= f.start
        BY <2>2, <2>7, MergeAssumption DEF Before, Finding
    <2>9. ~Apart(At(f), At(g))
        BY <2>2, <2>3, <2>6, <2>8 DEF Apart, At
    <2>10. Covered'
        <3> SUFFICES ASSUME NEW h \in found, Retained(h), h \notin kept, h \notin left'
                     PROVE  \E k \in kept : Before(k, h) /\ ~Apart(At(h), At(k))
            BY <2>1 DEF Covered, Retained, overlaps_placeholder, Before, len, Apart, At
        <3>1. CASE h = f
            BY <3>1, <2>7, <2>9
        <3>2. CASE h # f
            BY <3>2, <2>1 DEF Covered
        <3> QED
            BY <3>1, <3>2
    <2> QED
        BY <2>4, <2>5, <2>10
<1>3. CASE UNCHANGED mergeVars
    BY <1>3 DEF mergeVars, MergeTypeOK, Shaped, Frontier, Disjoint, Covered, Retained,
                overlaps_placeholder, Before, len, Apart, At
<1> QED
    BY <1>1, <1>2, <1>3 DEF MergeNext

\* It holds throughout every merge.
LEMMA MergeInvariant == MergeSpec => []MergeInv
BY MergeInitInv, MergeStepInv, PTL DEF MergeSpec

\* What is kept is pairwise apart and apart from every placeholder, for every text and detector:
\* the replacements scrub_string makes never cut one another.
THEOREM MergeKeepsDisjoint == MergeSpec => []Disjoint
<1>1. MergeInv => Disjoint
    BY DEF MergeInv
<1> QED
    BY <1>1, MergeInvariant, PTL

\* A finding that is neither allowlisted nor inside a placeholder is dropped only for a kept one
\* that overlaps it and is sorted before it.
THEOREM MergeDropsOnlyForKept == MergeSpec => []DroppedOnlyForKept
<1>1. MergeInv => DroppedOnlyForKept
    <2> SUFFICES ASSUME MergeInv, left = {}, NEW f \in found, Retained(f), f \notin kept
                 PROVE  \E g \in kept :
                           /\ ~Apart(At(f), At(g))
                           /\ g.start < f.start \/ (g.start = f.start /\ len(g) >= len(f))
        BY DEF DroppedOnlyForKept
    <2>1. PICK g \in kept : Before(g, f) /\ ~Apart(At(f), At(g))
        BY DEF MergeInv, Covered
    <2>2. g.start < f.start \/ (g.start = f.start /\ len(g) >= len(f))
        BY <2>1, MergeAssumption DEF Before, MergeInv, MergeTypeOK, Finding, len
    <2> QED
        BY <2>1, <2>2
<1> QED
    BY <1>1, MergeInvariant, PTL

\* Both together, what scrub_string relies on.
THEOREM MergeIsSound == MergeSpec => []MergeSound
<1>1. Disjoint /\ DroppedOnlyForKept => MergeSound
    BY DEF MergeSound
<1> QED
    BY <1>1, MergeKeepsDisjoint, MergeDropsOnlyForKept, PTL

=============================================================================
