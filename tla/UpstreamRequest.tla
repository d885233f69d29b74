-------------------------- MODULE UpstreamRequest --------------------------
(***************************************************************************)
(* What one HTTP attempt sends (libsy-llm-client/src/client.rs             *)
(* send_encoded and send_once, backend.rs): the encoded body after the     *)
(* target's defaults and the provider's fixes, and the headers after the   *)
(* caller's, the backend's own and the credential are put together.        *)
(*                                                                         *)
(* A body is the set of its top-level fields that matter here and the      *)
(* content of its last message, which blocks are at which of its           *)
(* positions, "marked" one with the caller's own cache_control; a header   *)
(* is its name and whose value it carries.                                 *)
(***************************************************************************)
EXTENDS Naturals, Sequences, FiniteSetsExt

CONSTANTS
    Providers,    \* the kinds of backend: "openai_chat", "openai_responses", "anthropic"
    CallerHeaders,  \* the header sets callers send
    ExtraHeaders, ExtraFields,  \* the sets of static headers and of default fields
    MaxBlocks     \* bound: blocks of the last message

VARIABLES backend,  \* the backend's configuration
          caller,   \* the body the codec wrote and the headers the caller sent
          posted    \* the request of the last attempt
upstreamVars == <<backend, caller, posted>>

OpenAiSide == {"openai_chat", "openai_responses"}

\* What is asked of the constants
ASSUME UpstreamAssumption == Providers \subseteq OpenAiSide \cup {"anthropic"} /\ MaxBlocks \in Nat

\* The headers that bear on credentials, and one that does not
Credentials == {"authorization", "x-api-key", "chatgpt-account-id", "x-openai-fedramp"}
Headers == Credentials \cup {"anthropic-beta", "anthropic-version", "x-trace"}

\* RESERVED_HEADERS without the credential Anthropic takes
RESERVED_HEADERS_NoApiKey == Headers \ {"x-trace", "x-api-key"}
\* RESERVED_HEADERS: client-owned names a caller's header never sets
RESERVED_HEADERS == Headers \ {"x-trace"}

\* Backend::validate_extra_headers: the names a static header may not have
ProviderOwned(provider, forwards) ==
    IF provider \in OpenAiSide
    THEN {"authorization"} \cup (IF forwards THEN {"chatgpt-account-id", "x-openai-fedramp"} ELSE {})
    ELSE {"x-api-key", "anthropic-version"}
         \cup (IF forwards THEN {"authorization", "anthropic-beta"} ELSE {})

HeaderFrom(name, from) == [name |-> name, from |-> from]

\* forward_metadata_headers
forward_metadata_headers(sent) == {HeaderFrom(n, "caller") : n \in sent \ RESERVED_HEADERS}

\* Backend::apply_forwarded_auth: only the credential this provider accepts, and
\* of the caller's betas the OAuth markers
apply_forwarded_auth(b, sent) ==
    LET accepted == IF b.provider \in OpenAiSide
                    THEN {"authorization", "chatgpt-account-id", "x-openai-fedramp"}
                    ELSE {"authorization", "x-api-key", "anthropic-beta"}
    IN  IF b.forwards THEN {HeaderFrom(n, "caller") : n \in sent \cap accepted} ELSE {}

\* Backend::apply_auth: the configured key, unless the caller's is forwarded
apply_auth(b) ==
    LET named == IF b.provider \in OpenAiSide THEN "authorization" ELSE "x-api-key"
        key == IF b.key /\ ~b.forwards THEN {HeaderFrom(named, "key")} ELSE {}
    IN  key \cup (IF b.provider = "anthropic" THEN {HeaderFrom("anthropic-version", "client")} ELSE {})

HeadersOf(b, sent) ==
    forward_metadata_headers(sent) \cup apply_forwarded_auth(b, sent)
    \cup {HeaderFrom(n, "backend") : n \in b.extra_headers} \cup apply_auth(b)

-----------------------------------------------------------------------------
(* The body.                                                               *)

\* strip_anthropic_incompatible_fields
strip_anthropic_incompatible_fields(body) ==
    [body EXCEPT !.fields = @ \ {"reasoning_effort", "context_management"}]

\* strip_unsigned_thinking_from_message: content left without a block becomes ""
strip_unsigned_thinking_blocks(body) ==
    LET kept == {i \in DOMAIN body.content : body.content[i] # "unsigned"}
    IN  [body EXCEPT !.content = IF kept = {} THEN <<"empty">> ELSE [i \in kept |-> @[i]]]

\* merge_extra_body: a default never replaces a field the caller supplied
merge_extra_body(body, extra) ==
    [body EXCEPT !.fields = @ \cup extra,
                 !.defaulted = extra \ body.fields]

\* enable_anthropic_prompt_caching: the last block of the last message is a breakpoint, next
\* to those the caller placed
enable_anthropic_prompt_caching(body) ==
    [body EXCEPT !.breakpoints = {i \in DOMAIN body.content : body.content[i] = "marked"}
                                 \cup {Max(DOMAIN body.content)}]

\* ensure_openai_stream_usage: a streamed chat reports its usage unless the caller chose
ensure_openai_stream_usage(body) ==
    IF "stream" \notin body.fields \/ body.usage # "unset" THEN body
    ELSE [body EXCEPT !.usage = "asked"]

\* send_encoded up to its first attempt
send_encoded(b, body) ==
    LET own == IF b.provider = "anthropic"
               THEN strip_unsigned_thinking_blocks(strip_anthropic_incompatible_fields(body))
               ELSE body
        merged == merge_extra_body(own, b.extra_body)
    IN  CASE b.provider = "anthropic" -> enable_anthropic_prompt_caching(merged)
          [] b.provider = "openai_chat" -> ensure_openai_stream_usage(merged)
          [] OTHER -> merged

\* UpstreamEndpoint: counting tokens is never streamed, whatever the body asks
Streams(endpoint, body) == endpoint = "completion" /\ "stream" \in body.fields

-----------------------------------------------------------------------------
Fields == {"context_management", "stream", "temperature"}
Bodies == [fields : SUBSET Fields, usage : {"unset", "declined"}, defaulted : {{}}, breakpoints : {{}},
           content : UNION {[1..n -> {"text", "marked", "signed", "unsigned"}] : n \in 1..MaxBlocks}]
Unposted == [endpoint |-> "none", headers |-> {}, body |-> {}, streaming |-> FALSE]

\* TranslatingLlmClient::new accepts a backend only with additional headers
Configured(b) == b.extra_headers \cap ProviderOwned(b.provider, b.forwards) = {}

UpstreamInit ==
    /\ backend \in [provider : Providers, forwards : BOOLEAN, key : BOOLEAN,
                    extra_headers : ExtraHeaders, extra_body : ExtraFields]
    /\ Configured(backend)
    /\ caller = [headers |-> {}, body |-> <<>>]
    /\ posted = Unposted

\* A request for this backend comes with its caller's headers and an encoded body
Encode(headers, body) ==
    /\ caller.body = <<>>
    /\ caller' = [headers |-> headers, body |-> <<body>>]
    /\ UNCHANGED <<backend, posted>>

\* One attempt: a completion, or a token count for the one provider that has it
Post(endpoint) ==
    /\ caller.body # <<>>
    /\ endpoint = "count_tokens" => backend.provider = "anthropic"
    /\ LET body == send_encoded(backend, caller.body[1])
       IN  posted' = [endpoint |-> endpoint, headers |-> HeadersOf(backend, caller.headers),
                      body |-> body, streaming |-> Streams(endpoint, body)]
    /\ UNCHANGED <<backend, caller>>

UpstreamNext ==
    \/ \E headers \in CallerHeaders, body \in Bodies : Encode(headers, body)
    \/ \E endpoint \in {"completion", "count_tokens"} : Post(endpoint)

UpstreamSpec == UpstreamInit /\ [][UpstreamNext]_upstreamVars

-----------------------------------------------------------------------------
(***************************************************************************)
(* A credential header is sent once and is the right one: no header of the *)
(* provider's own set carries two values (a caller's authorization and     *)
(* x-api-key may both be forwarded), the configured key never goes out     *)
(* beside a forwarded one, and without forwarding no credential of the     *)
(* caller leaves (RESERVED_HEADERS, validate_extra_headers,                *)
(* apply_forwarded_auth and apply_auth must agree for that).               *)
(***************************************************************************)
OneCredential ==
    \A h \in posted.headers :
        /\ h.name \in RESERVED_HEADERS \cup Credentials =>
               \A g \in posted.headers : g.name = h.name => g = h
        /\ h.from = "key" => ~backend.forwards
        /\ h.from = "caller" /\ h.name \in Credentials \cup {"anthropic-beta"} => backend.forwards

(***************************************************************************)
(* What the provider reads is what the comments of client.rs promise: an   *)
(* Anthropic body has no unsigned thinking and a breakpoint on its last    *)
(* block, any other being the caller's, a field that is stripped comes     *)
(* back only as the target's own default, a default replaces nothing of    *)
(* the caller's, and a reply is read as a stream exactly when the body     *)
(* that was sent asks for one.                                             *)
(***************************************************************************)
BodyAsPromised ==
    posted.endpoint # "none" =>
        LET body == posted.body
            mine == caller.body[1]
        IN  /\ backend.provider = "anthropic" =>
                   /\ \A i \in DOMAIN body.content : body.content[i] # "unsigned"
                   /\ \E last \in body.breakpoints :
                         /\ last \in DOMAIN body.content /\ \A i \in DOMAIN body.content : i =< last
                         /\ \A i \in body.breakpoints \ {last} : body.content[i] = "marked"
                   /\ "context_management" \in body.fields <=> "context_management" \in backend.extra_body
            /\ body.defaulted \subseteq backend.extra_body
            /\ "temperature" \in mine.fields <=> "temperature" \in body.fields \ body.defaulted
            /\ posted.endpoint = "completion" => (posted.streaming <=> "stream" \in body.fields)
            /\ backend.provider = "openai_chat" /\ posted.streaming => body.usage # "unset"

\* A request carries one credential, the right one, and the body its backend was promised
\* (backend.rs).
UpstreamSound == OneCredential /\ BodyAsPromised
=============================================================================
