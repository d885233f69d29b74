--------------------------- MODULE RequestMetadata ---------------------------
(***************************************************************************)
(* Who a request comes from, read from its HTTP headers                    *)
(* (protocol/src/metadata.rs Metadata::from_headers): the coding agents    *)
(* and hosts each have header names of their own, an explicit x-switchyard *)
(* header outranks them all, and only some of them say that a request is   *)
(* a child agent's, or that a child carries delegated work.                *)
(*                                                                         *)
(* A request's headers are a function from the paths it sends to their     *)
(* values; a path into Codex's turn metadata is a path like any other.     *)
(***************************************************************************)
EXTENDS Requests, Naturals, Sequences

CONSTANT Blank   \* a header value of nothing but whitespace

Codex(field) == "x-codex-turn-metadata." \o field

\* Where each field is looked for, in order
HEADER_CONFIG ==
    [session |-> <<"x-switchyard-session-id", "x-claude-code-session-id",
                   "x-nemo-relay-session-id", "x-session-id", Codex("session_id"), "session-id">>,
     agent   |-> <<"x-switchyard-agent-id", "x-claude-code-agent-id", "x-nemo-relay-subagent-id",
                   "x-dynamo-session-id", Codex("thread_id"), "thread-id">>,
     parent  |-> <<"x-switchyard-parent-agent-id", "x-dynamo-parent-session-id",
                   Codex("parent_thread_id"), "x-codex-parent-thread-id">>,
     kind    |-> <<"x-switchyard-agent-kind", Codex("subagent_kind"), "x-openai-subagent">>,
     final   |-> <<"x-switchyard-session-final", "x-dynamo-session-final">>]

SUBAGENT_WORK_KINDS == {"collab_spawn", "review"}

\* A header's trimmed value; a blank one is as good as none
header(h, path) == IF path \in DOMAIN h /\ h[path] # Blank THEN h[path] ELSE None

\* The first of the paths that has a value
First(h, paths) ==
    LET valued == {i \in 1..Len(paths) : header(h, paths[i]) # None}
    IN  IF valued = {} THEN None
        ELSE header(h, paths[CHOOSE i \in valued : \A j \in valued : i =< j])
sy_header(h, field) == First(h, HEADER_CONFIG[field])

\* "unsaid" for an absent header and for a spelling that is neither
parse_bool(value) ==
    CASE value \in {"1", "true", "yes", "on"}  -> "true"
      [] value \in {"0", "false", "no", "off"} -> "false"
      [] OTHER                                 -> "unsaid"

\* Whether Claude Code marks a child, and the parent it names or spawned it under
claude_subagent(h) == header(h, "x-claude-code-agent-id") # None
claude_parent(h) ==
    IF claude_subagent(h)
    THEN First(h, <<"x-claude-code-parent-agent-id", "x-claude-code-session-id">>) ELSE None

\* The kind the harness itself gives a child
harness_kind(h) == First(h, <<Codex("subagent_kind"), "x-openai-subagent">>)

is_subagent(h) ==
    CASE parse_bool(header(h, "x-switchyard-is-subagent")) = "true"   -> TRUE
      [] parse_bool(header(h, "x-switchyard-is-subagent")) = "false"  -> FALSE
      [] parse_bool(header(h, "x-switchyard-is-subagent")) = "unsaid" ->
            claude_subagent(h) \/ harness_kind(h) # None

is_delegated_work(h) ==
    CASE parse_bool(header(h, "x-switchyard-is-subagent")) = "true"   ->
            harness_kind(h) \in SUBAGENT_WORK_KINDS \cup {None}
      [] parse_bool(header(h, "x-switchyard-is-subagent")) = "false"  -> FALSE
      [] parse_bool(header(h, "x-switchyard-is-subagent")) = "unsaid" ->
            claude_subagent(h) \/ harness_kind(h) \in SUBAGENT_WORK_KINDS

parse_sub_agent(h) ==
    [parent   |-> IF sy_header(h, "parent") # None THEN sy_header(h, "parent") ELSE claude_parent(h),
     subagent |-> is_subagent(h),
     work     |-> is_delegated_work(h)]

from_headers(h) ==
    [session  |-> sy_header(h, "session"),
     agent    |-> sy_header(h, "agent"),
     parent   |-> parse_sub_agent(h).parent,
     subagent |-> parse_sub_agent(h).subagent,
     work     |-> parse_sub_agent(h).work,
     final    |-> parse_bool(sy_header(h, "final"))]
=============================================================================
