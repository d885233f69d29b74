------------------------- MODULE RequestTranslation -------------------------
(***************************************************************************)
(* The life of one request between its client and the providers: a client  *)
(* of some wire format grows a conversation turn by turn; its body is read *)
(* into the neutral request, the server masks it, routing may add a note   *)
(* to the conversation and a system prompt for the target, and the model   *)
(* client writes it in the format of each candidate it tries.              *)
(*                                                                         *)
(* Reading keeps the exact body, and a candidate of the client's own       *)
(* format is sent that body again unless an edit has dropped it.           *)
(***************************************************************************)
EXTENDS OpenAiChatCodec, AnthropicCodec, ResponsesCodec

CONSTANTS
    Clients,     \* the wire formats clients write in
    Upstreams,   \* the wire formats candidates read
    MaxTurns     \* turns of a conversation; calls of the last one are still answered

VARIABLES client,    \* the client's format
          items,     \* the messages or items of the client's body
          atoms,     \* atoms the conversation has used so far: 1 is the secret
          pending,   \* ids of the calls that wait for their answer
          turns,
          request,   \* the neutral request, once the body is read
          stage,     \* "talk", "masked", "noted", "prompted": how far it has come
          edits,     \* which edits were made: a subset of {"mask", "note", "prompt"}
          wire       \* the last body written: its format and what the provider reads
requestVars == <<client, items, atoms, pending, turns, request, stage, edits, wire>>

Secret == 1
Token == 0          \* the placeholder that stands for the secret
SystemAtom == -1    \* the client's own instructions
PromptAtom == -2    \* the target's system prompt
NoteAtom == -3      \* the note of the routing algorithm
Unsent == [format |-> "none", view |-> <<>>, lossy |-> FALSE]

-----------------------------------------------------------------------------
(* How clients of each format write a turn. *)

CallId(k) == [stem |-> k, mark |-> "."]

ClientSays(format, who, content) ==
    CASE format = "openai_chat" -> <<OpenAiMessage(who, content)>>
      [] format = "anthropic_messages" -> <<Message(who, content)>>
      [] OTHER -> <<MessageItem(who, content)>>

ClientCalls(format, thought, words, ids) ==
    CASE format = "openai_chat" ->
           <<[OpenAiMessage("assistant", words) EXCEPT
               !.reasoning = MapSeq(thought, LAMBDA t : Reasoning(<<t>>, "plain")),
               !.tool_calls = MapSeq(ids, LAMBDA id : [id |-> id, arguments |-> 1])]>>
      [] format = "anthropic_messages" ->
           <<Message("assistant",
               MapSeq(thought, LAMBDA t : Block("thinking", <<t>>, "signed")) \o words
               \o MapSeq(ids, LAMBDA id : [kind |-> "tool_use", id |-> id, arguments |-> 0]))>>
      [] OTHER ->
           MapSeq(thought, LAMBDA t : ReasoningItem(<<t>>))
           \o (IF words = <<>> THEN <<>> ELSE <<MessageItem("assistant", words)>>)
           \o MapSeq(ids, LAMBDA id : CallItem(id, 1))

ClientAnswers(format, ids, outs, words) ==
    LET more == IF words = <<>> THEN <<>> ELSE ClientSays(format, "user", words)
        result(i) == [kind |-> "tool_result", id |-> ids[i], content |-> outs[i]]
    IN  CASE format = "openai_chat" ->
               [i \in DOMAIN ids |->
                   [OpenAiMessage("tool", outs[i]) EXCEPT !.tool_call_id = ids[i]]] \o more
          [] format = "anthropic_messages" ->
               <<Message("user", [i \in DOMAIN ids |-> result(i)] \o words)>>
          [] OTHER -> [i \in DOMAIN ids |-> OutputItem(ids[i], JoinText(outs[i]))] \o more

Body(format) ==
    CASE format = "openai_chat" ->
           <<OpenAiMessage("system", <<Text(<<SystemAtom>>)>>)>> \o items
      [] format = "anthropic_messages" -> AnthropicBody(<<SystemAtom>>, items)
      [] OTHER -> ResponsesBody(<<SystemAtom>>, items)

-----------------------------------------------------------------------------
(* What a provider of each format reads in a body, in order.               *)

Event(does, text, id) == [does |-> does, text |-> text, id |-> id]
Says(b) == Event(IF b.kind \in {"reasoning", "thinking"} THEN "thinks" ELSE "says", b.text, NoId)
Answer(id, content) == Event("answers", JoinText(content), id)

ViewOpenAi(m) ==
    IF m.role \in {"system", "developer"} THEN <<Event("instructs", JoinText(m.content), NoId)>>
    ELSE IF m.role = "tool" THEN <<Answer(m.tool_call_id, m.content)>>
    ELSE MapSeq(m.reasoning \o m.content, Says)
         \o MapSeq(m.tool_calls, LAMBDA c : Event("calls", <<>>, c.id))
ViewAnthropicBlock(b) ==
    CASE b.kind = "tool_use" -> Event("calls", <<>>, b.id)
      [] b.kind = "tool_result" -> Answer(b.id, b.content)
      [] OTHER -> Says(b)
ViewResponses(item) ==
    CASE item.kind = "message" -> MapSeq(item.content, Says)
      [] item.kind = "reasoning" -> <<Event("thinks", item.text, NoId)>>
      [] item.kind = "function_call" -> <<Event("calls", <<>>, item.id)>>
      [] OTHER -> <<Event("answers", item.text, item.id)>>

View(format, body) ==
    CASE format = "openai_chat" -> FlatMap(body, ViewOpenAi)
      [] format = "anthropic_messages" ->
           <<Event("instructs", body.system, NoId)>>
           \o FlatMap(body.messages, LAMBDA m : MapSeq(m.content, ViewAnthropicBlock))
      [] OTHER -> <<Event("instructs", body.instructions, NoId)>> \o FlatMap(body.input, ViewResponses)

-----------------------------------------------------------------------------
(* The codecs behind one name each: TranslationEngine.                     *)

decode_request(format, body) ==
    CASE format = "openai_chat" -> decode_openai_request(body)
      [] format = "anthropic_messages" -> decode_anthropic_request(body)
      [] OTHER -> decode_responses_request(body)

encode_request(format, ir) ==
    LET exact == exact_preserved_request(ir, format)
    IN  IF exact # <<>> THEN Encoded(exact[1], FALSE)
        ELSE CASE format = "openai_chat" -> encode_openai_request(ir)
               [] format = "anthropic_messages" -> encode_anthropic_request(ir)
               [] OTHER -> encode_responses_request(ir)

\* scrub_blocks: every text a block carries, those inside tool results too; the blocks here
\* have no reasoning details, data URLs, files or media, which it leaves as they are
scrub_string(text) == MapSeq(text, LAMBDA a : IF a = Secret THEN Token ELSE a)
scrub_block(b) == IF b.kind = "tool_call" THEN b ELSE [b EXCEPT !.text = scrub_string(@)]
scrub_blocks(content) ==
    MapSeq(content, LAMBDA b : IF b.kind = "tool_result"
                               THEN ToolResult(b.id, MapSeq(b.content, scrub_block))
                               ELSE scrub_block(b))
scrub_messages(messages) == MapSeq(messages, LAMBDA m : Message(m.role, scrub_blocks(m.content)))
scrub_request_KeepsReplay(ir) ==
    [ir EXCEPT !.instructions = scrub_messages(@), !.messages = scrub_messages(@)]
\* MaskclawEngine::scrub_request: mask in place, then drop what could be replayed
scrub_request(ir) ==
    drop_exact_replay([ir EXCEPT !.instructions = scrub_messages(@), !.messages = scrub_messages(@)])

\* append_note: into the trailing user message, or a message of its own
append_note(ir) ==
    LET note == Text(<<NoteAtom>>)
        joins == ir.messages # <<>> /\ Last(ir.messages).role = "user"
    IN  drop_exact_replay([ir EXCEPT !.messages =
            IF joins THEN Append(Front(@), Message("user", Append(Last(@).content, note)))
            ELSE Append(@, Message("user", <<note>>))])

SystemPromptProcessor_KeepsReplay(ir) ==
    [ir EXCEPT !.instructions = <<Message("system", <<Text(<<PromptAtom>>)>>)>> \o @]
SystemPromptProcessor(ir) ==
    drop_exact_replay([ir EXCEPT !.instructions = <<Message("system", <<Text(<<PromptAtom>>)>>)>> \o @])

-----------------------------------------------------------------------------
RequestInit ==
    /\ client \in Clients
    /\ items = <<>> /\ atoms = 0 /\ pending = <<>> /\ turns = 0
    /\ request = <<>> /\ stage = "talk" /\ edits = {} /\ wire = Unsent

Talking == stage = "talk" /\ turns < MaxTurns
Answering == stage = "talk" /\ pending # <<>>
Fresh(n) == Text(<<atoms + n>>)

\* The user speaks, with or without an image
UserTurn(shows) ==
    /\ Talking /\ pending = <<>>
    /\ LET image == CASE client = "openai_chat" -> "image_url"
                      [] client = "anthropic_messages" -> "image" [] OTHER -> "input_image"
           form == IF client = "anthropic_messages" THEN "raw_base64" ELSE "url"
       IN  items' = items \o ClientSays(client, "user",
                        <<Fresh(1)>> \o (IF shows THEN <<Block(image, <<atoms + 2>>, form)>> ELSE <<>>))
    /\ atoms' = atoms + (IF shows THEN 2 ELSE 1)
    /\ turns' = turns + 1
    /\ UNCHANGED <<client, pending, request, stage, edits, wire>>

\* The assistant thinks or not, speaks or not, and calls n tools
AssistantTurn(thinks, speaks, n) ==
    /\ Talking /\ pending = <<>> /\ items # <<>> /\ (speaks \/ n > 0)
    /\ LET words == IF speaks THEN <<Fresh(1)>> ELSE <<>>
           thought == IF thinks THEN <<atoms + 2>> ELSE <<>>
           ids == [i \in 1..n |-> CallId(atoms + 2 + i)]
       IN  /\ items' = items \o ClientCalls(client, thought, words, ids)
           /\ pending' = ids
    /\ atoms' = atoms + 2 + n
    /\ turns' = turns + 1
    /\ UNCHANGED <<client, request, stage, edits, wire>>

\* The client's next request answers every call, and may add words of the user; an
\* Anthropic answer may hold an image
AnswerTurn(shows, speaks) ==
    /\ Answering /\ (shows => client = "anthropic_messages")
    /\ LET image == IF shows THEN <<Block("image", <<atoms + 3>>, "raw_base64")>> ELSE <<>>
           outs == [i \in DOMAIN pending |-> <<Fresh(i)>> \o (IF i = 1 THEN image ELSE <<>>)]
           words == IF speaks THEN <<Fresh(4)>> ELSE <<>>
       IN  items' = items \o ClientAnswers(client, pending, outs, words)
    /\ pending' = <<>> /\ atoms' = atoms + 4
    /\ turns' = turns + 1
    /\ UNCHANGED <<client, request, stage, edits, wire>>

\* A Responses client may put a message between a call and its output
Interject ==
    /\ Talking /\ pending # <<>> /\ client = "openai_responses"
    /\ items' = items \o ClientSays(client, "user", <<Fresh(1)>>)
    /\ atoms' = atoms + 1
    /\ turns' = turns + 1
    /\ UNCHANGED <<client, pending, request, stage, edits, wire>>

\* The server reads the body, and masks the request when masking is on
Masked(masks, ir) == IF masks THEN scrub_request(ir) ELSE ir
Receive(masks) ==
    /\ stage = "talk" /\ items # <<>>
    /\ request' = Masked(masks, decode_request(client, Body(client)))
    /\ edits' = IF masks THEN {"mask"} ELSE {}
    /\ stage' = "masked"
    /\ UNCHANGED <<client, items, atoms, pending, turns, wire>>

\* Routing adds its note to the conversation
Note == /\ stage = "masked" /\ wire = Unsent
        /\ request' = append_note(request)
        /\ edits' = edits \cup {"note"} /\ stage' = "noted"
        /\ UNCHANGED <<client, items, atoms, pending, turns, wire>>

\* The target has a system prompt
Prompt == /\ stage \in {"masked", "noted"} /\ wire = Unsent
          /\ request' = SystemPromptProcessor(request)
          /\ edits' = edits \cup {"prompt"} /\ stage' = "prompted"
          /\ UNCHANGED <<client, items, atoms, pending, turns, wire>>

\* The model client writes the request for a candidate, and for the next when it fails
Sent(upstream, body) ==
    [format |-> upstream, view |-> View(upstream, body.value), lossy |-> body.lossy]
Send(upstream) ==
    /\ stage # "talk"
    /\ wire' = Sent(upstream, encode_request(upstream, request))
    /\ UNCHANGED <<client, items, atoms, pending, turns, request, stage, edits>>

RequestNext ==
    \/ \E shows \in BOOLEAN : UserTurn(shows)
    \/ \E thinks, speaks \in BOOLEAN, n \in 0..2 : AssistantTurn(thinks, speaks, n)
    \/ \E shows, speaks \in BOOLEAN : AnswerTurn(shows, speaks)
    \/ Interject
    \/ \E masks \in BOOLEAN : Receive(masks)
    \/ Note \/ Prompt
    \/ \E upstream \in Upstreams : Send(upstream)

RequestSpec == RequestInit /\ [][RequestNext]_requestVars

-----------------------------------------------------------------------------
(* Properties of what the provider reads. *)

AtomsOf(does) == FlatMap(Those(wire.view, LAMBDA e : e.does \in does), LAMBDA e : e.text)
Written == FlatMap(View(client, Body(client)), LAMBDA e : IF e.does \in {"says", "answers"} THEN e.text ELSE <<>>)
EditAtoms == {Token, PromptAtom, NoteAtom}

(***************************************************************************)
(* A request that was masked reaches no candidate with the secret in it,   *)
(* in any format, however often it is written: the body kept for exact     *)
(* replay still holds the secret when a codec is asked for the client's    *)
(* own format.                                                             *)
(***************************************************************************)
MaskedStaysMasked ==
    "mask" \in edits => \A i \in DOMAIN wire.view : Secret \notin ToSet(wire.view[i].text)

(***************************************************************************)
(* A target's system prompt is the first thing the target reads, in every  *)
(* format, the client's own included (SWITCH-1224 of the module comment of *)
(* util/prompts.rs).                                                       *)
(***************************************************************************)
PromptReachesTarget ==
    "prompt" \in edits /\ wire # Unsent => Head(AtomsOf({"instructs"})) = PromptAtom

(***************************************************************************)
(* Every answer a provider reads follows the calls it belongs to with only *)
(* calls and answers between, and a call that was answered is read with    *)
(* its answer: the adjacency providers insist on, which the codecs must    *)
(* restore when the client's format does not keep it.  An exact replay is  *)
(* the client's own ordering.                                              *)
(***************************************************************************)
AnswersFollowCalls ==
    (wire # Unsent /\ (wire.format # client \/ edits # {})) =>
        LET v == wire.view
            answers(i, j) == v[i].does = "answers" /\ v[j].does = "calls" /\ v[i].id = v[j].id
        IN  /\ \A i \in DOMAIN v : v[i].does = "answers" =>
                   \E j \in 1..(i - 1) :
                       answers(i, j) /\ \A k \in j..i : v[k].does \in {"calls", "answers"}
            /\ pending = <<>> => \A j \in DOMAIN v : v[j].does = "calls" =>
                                  \E i \in DOMAIN v : answers(i, j)

(***************************************************************************)
(* Between formats whose messages may mix words with calls and answers no  *)
(* word of the conversation is lost or said twice, unless the encoder      *)
(* reported a lossy conversion.                                            *)
(***************************************************************************)
NoWordLost ==
    wire.format \in {"openai_chat", "anthropic_messages"} /\ ~wire.lossy =>
        LET read == Those(AtomsOf({"says", "answers"}), LAMBDA a : a \notin EditAtoms)
            written == Those(Written, LAMBDA a : "mask" \in edits => a # Secret)
        IN  ToSet(read) = ToSet(written) /\ Len(read) = Len(written)

(***************************************************************************)
(* The note routing adds reaches the model: util/prompts.rs says of an     *)
(* addition that it joins the trailing user message behind its tool        *)
(* results.  The Responses encoder writes a message that has a tool result *)
(* as its special items alone, and drops the note.                         *)
(***************************************************************************)
NoteReachesTarget ==
    "note" \in edits /\ wire # Unsent => NoteAtom \in ToSet(AtomsOf({"says"}))
=============================================================================
