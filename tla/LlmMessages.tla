---------------------------- MODULE LlmMessages ----------------------------
(***************************************************************************)
(* The provider-neutral request of crates/protocol/src/llm.rs, as the      *)
(* buffered codecs read and write it, and the helpers the three codecs     *)
(* share (codecs/common.rs, util.rs).                                      *)
(*                                                                         *)
(* A text is a sequence of atoms: joining texts concatenates them and the  *)
(* separator is layout.  The payload of an image, a file or an unknown     *)
(* block is its `text' and `form' says in which shape it is held.  Tool    *)
(* arguments are the number of times they are written as JSON text: 0 for  *)
(* a parsed value, 1 for the string a provider sends.                      *)
(***************************************************************************)
EXTENDS Integers, Sequences, SequencesExt

Block(kind, text, form) == [kind |-> kind, text |-> text, form |-> form]
Text(text) == Block("text", text, "plain")
Reasoning(text, form) == Block("reasoning", text, form)
ToolCall(id, arguments) == [kind |-> "tool_call", id |-> id, arguments |-> arguments]
ToolResult(id, content) == [kind |-> "tool_result", id |-> id, content |-> content]
Message(role, content) == [role |-> role, content |-> content]

MediaKinds == {"image", "audio", "video", "file"}

MapSeq(s, Op(_)) == [i \in DOMAIN s |-> Op(s[i])]
FlatMap(s, Op(_)) == FlattenSeq(MapSeq(s, Op))
Those(s, Test(_)) == FlatMap(s, LAMBDA x : IF Test(x) THEN <<x>> ELSE <<>>)

OfKind(content, kinds) == Those(content, LAMBDA b : b.kind \in kinds)
WithoutKind(content, kinds) == Those(content, LAMBDA b : b.kind \notin kinds)
HasKind(content, kinds) == \E i \in DOMAIN content : content[i].kind \in kinds
JoinText(content) == FlatMap(content, LAMBDA b : b.text)

\* text_from_blocks: texts and refusals; an unknown block is an object, never a string
text_from_blocks(content) == JoinText(OfKind(content, {"text", "refusal"}))

(***************************************************************************)
(* What an encoder returns: the wire value, and whether it recorded a      *)
(* lossy conversion, which LossyConversionPolicy::Reject turns into an     *)
(* error.                                                                  *)
(***************************************************************************)
Encoded(value, lossy) == [value |-> value, lossy |-> lossy]
EncodeAll(s, Op(_)) ==
    Encoded(FlatMap(s, LAMBDA x : Op(x).value), \E i \in DOMAIN s : Op(s[i]).lossy)

NonEmpty(content) == IF content = <<>> THEN <<Text(<<>>)>> ELSE content
SystemText(instructions) == FlatMap(instructions, LAMBDA m : text_from_blocks(m.content))

(***************************************************************************)
(* A request: instructions, messages, and the exact wire bodies kept for   *)
(* the formats it has been read from (PreservationMetadata.requests), here *)
(* as the sequence of bodies kept for the client's format: none or one.    *)
(***************************************************************************)
Request(format, instructions, messages, body) ==
    [format |-> format, instructions |-> instructions, messages |-> messages,
     preserved |-> <<body>>]
exact_preserved_request(request, format) ==
    IF request.format = format THEN request.preserved ELSE <<>>
drop_exact_replay(request) == [request EXCEPT !.preserved = <<>>]

(***************************************************************************)
(* A tool-use id: its letters, and the mark that separates them.  Only     *)
(* letters, digits, _ and - are kept for Anthropic.                        *)
(***************************************************************************)
sanitize_anthropic_tool_use_id(id) ==
    [id EXCEPT !.mark = IF @ \in {"_", "-"} THEN @ ELSE "_"]
json_string(arguments) == IF arguments = 0 THEN 1 ELSE arguments
=============================================================================
