----------------------------- MODULE MCServices -----------------------------
(***************************************************************************)
(* The components around the masking engine and the run driver, for TLC.   *)
(* They share no state, so one run checks them side by side: `part' is the *)
(* component that moves, the others stay where they start.                 *)
(***************************************************************************)
EXTENDS FindingMerge, ModelClient, AffinityRouting, EscalationRouting, StageRouting, UpstreamRequest,
        JudgeContext, RouterStats, DesktopLifecycle, ServerConfig

MCPlaced == {{}, {<<1, 2>>}, {<<3, 4>>}}
MCAllowed == {{}, {<<0, 2>>}}

VARIABLE part

-----------------------------------------------------------------------------
\* Two calls, one of them streamed, of two candidates; one has no second backend.
MCMaxRetries == <<1, 0>>
MCHeader == [n \in 0..4 |-> IF n < 2 THEN 3 ELSE 4]
MCUnrouted == {<<"a", 2>>}

MCCallerHeaders == {{}, {"x-api-key", "anthropic-beta"},
                    {"authorization", "chatgpt-account-id", "x-api-key", "x-trace"}}
MCExtraHeaders == {{}, {"authorization"}, {"anthropic-beta"}}
MCExtraFields == {{}, {"context_management", "temperature", "stream"}}
OneBackend == [provider |-> "openai_chat", forwards |-> FALSE, key |-> TRUE,
               extra_headers |-> {}, extra_body |-> {}]

-----------------------------------------------------------------------------
\* A session, its child agents in the words of three harnesses, and one that is none.
MCHeaders == {
    "x-claude-code-session-id" :> "s",
    ("x-claude-code-session-id" :> "s") @@ ("x-claude-code-agent-id" :> "a"),
    (Codex("session_id") :> "s") @@ (Codex("thread_id") :> "b")
        @@ (Codex("subagent_kind") :> "compact"),
    ("session-id" :> "s") @@ ("x-openai-subagent" :> "review"),
    ("x-switchyard-is-subagent" :> "no") @@ ("x-claude-code-agent-id" :> Blank)}

Options(children, hash, latched, overrides) ==
    [subagents_only |-> children, hash_fallback |-> hash, latch_only |-> latched,
     overrides |-> overrides]

MCConfigs == {Options(FALSE, TRUE, {}, TRUE), Options(TRUE, FALSE, {}, FALSE),
              Options(FALSE, FALSE, {"w"}, FALSE)}

-----------------------------------------------------------------------------
Says(role, blocks, length) == [role |-> role, blocks |-> blocks, length |-> length]
Block(kind, id) == [kind |-> kind, id |-> id]

MCWindows == {-1, 0, 1, 2}
MCMessage == {
    Says("system", <<>>, 9), Says("user", <<>>, 2), Says("user", <<>>, 9),
    Says("assistant", <<>>, 2), Says("assistant", <<Block("call", 1)>>, 9),
    Says("assistant", <<Block("call", 2)>>, 2), Says("tool", <<Block("result", 1)>>, 9),
    Says("tool", <<Block("result", 2)>>, 2),
    Says("user", <<Block("result", 1), Block("call", 1)>>, 2)}

\* One of the requests has no session
MCSessionOf == ("r1" :> "s") @@ ("r2" :> "s") @@ ("r3" :> None)
MCTokens == ("r1" :> 3) @@ ("r2" :> 1) @@ ("r3" :> 1)
MCMaxCalls == ("r1" :> 2) @@ ("r2" :> 1) @@ ("r3" :> 1)

-----------------------------------------------------------------------------
(* The documents the server is started with: ten good routes and eight bad ones. *)

ModelClientEntry(format, forward) ==
    [format |-> format, base_url |-> TRUE, max_retries |-> 2, forward_auth |-> forward,
     api_key_env |-> "unset"]
Noop == [kind |-> "noop", id |-> "r", context_window |-> 8, given |-> {}, mode |-> "unset",
         targets |-> << >>, weights |-> << >>, strong_target |-> "a", weak_target |-> "b",
         judge |-> "j", default_target |-> "a", base_threshold |-> 5, threshold_step |-> 1,
         max_output_tokens |-> 1, confirmations |-> 2, confidence_threshold |-> 5]
Tiers == {"strong_target", "weak_target", "judge"}
Classifier == [Noop EXCEPT !.kind = "llm_classifier", !.given = Tiers \cup {"base_threshold"}]
Escalating == [Classifier EXCEPT !.given = Tiers \cup {"escalation"}]
Custom == [Classifier EXCEPT !.mode = "custom", !.targets = <<"a", "b">>,
                             !.given = {"targets", "default_target", "response_schema", "policy", "prompt", "judge"}]
RandomRoute == [Noop EXCEPT !.kind = "random", !.targets = <<"a", "b">>]
StageRoute == [Noop EXCEPT !.kind = "stage_router"]
Passthrough(name) == [Noop EXCEPT !.kind = "passthrough", !.targets = <<name>>]
Good == {Noop, Passthrough("a"), RandomRoute,
         [RandomRoute EXCEPT !.given = {"weights"}, !.weights = <<0, 1>>],
         Classifier, Escalating, [Escalating EXCEPT !.given = @ \cup {"threshold_step"}],
         Custom, StageRoute, [StageRoute EXCEPT !.given = {"judge"}]}
Bad == {[Escalating EXCEPT !.mode = "escalation", !.given = @ \cup {"threshold_step"}],
        [Escalating EXCEPT !.mode = "capability"],
        [Classifier EXCEPT !.given = @ \ {"weak_target"}],
        [Classifier EXCEPT !.threshold_step = 3],
        [RandomRoute EXCEPT !.given = {"weights"}, !.weights = <<0, 0>>],
        Passthrough("nobody"), [Noop EXCEPT !.context_window = 0],
        [Custom EXCEPT !.given = @ \cup {"message_hash_fallback"}]}

MCClientTables ==
    [c1 : {ModelClientEntry(f, g) : f \in {"chat", "responses", "messages"}, g \in BOOLEAN},
     c2 : {ModelClientEntry("chat", FALSE), ModelClientEntry("messages", TRUE)}]
MCTargetTables == [a : [id : {"x"}, client : {"c1", "c2"}],
                   b : [id : {"x", "y"}, client : {"c1", "c2"}],
                   j : [id : {"x", "y"}, client : {"c1", "c2"}]]
MCRouteTables == {[main |-> route, local |-> [Passthrough("b") EXCEPT !.id = "local"]] :
                      route \in Good \cup Bad}
MCTier == [a |-> 2, b |-> 4, j |-> 4, x |-> 3, y |-> 1]

-----------------------------------------------------------------------------
Parts == {"client", "upstream", "stage", "affinity", "escalation", "judge", "stats",
          "desktop", "merge", "config"}

\* A component that does not move starts in one of its initial states, or nowhere.
ServicesInit ==
    /\ part \in Parts
    /\ ClientInit /\ StageInit /\ EscalationInit /\ JudgeInit /\ StatsInit
    /\ DesktopInit
    /\ Init /\ (part # "affinity" => config.overrides)
    /\ UpstreamInit /\ (part # "upstream" => backend = OneBackend)
    /\ IF part = "config" THEN ConfigInit ELSE document = 0 /\ server = 0 /\ exchange = Idle
    /\ IF part = "merge" THEN MergeInit 
       ELSE found = {} /\ placed = {} /\ allowed = {} /\ left = {} /\ kept = {} /\ last_end = 0

ServicesNext ==
    \/ /\ part = "client" /\ ClientNext
       /\ UNCHANGED <<part, upstreamVars, stageVars, affinityVars, escalationVars, judgeVars,
                      statsVars, desktopVars, mergeVars, configVars>>
    \/ /\ part = "upstream" /\ UpstreamNext
       /\ UNCHANGED <<part, clientVars, stageVars, affinityVars, escalationVars, judgeVars,
                      statsVars, desktopVars, mergeVars, configVars>>
    \/ /\ part = "stage" /\ StageNext
       /\ UNCHANGED <<part, clientVars, upstreamVars, affinityVars, escalationVars, judgeVars,
                      statsVars, desktopVars, mergeVars, configVars>>
    \/ /\ part = "affinity" /\ Next
       /\ UNCHANGED <<part, clientVars, upstreamVars, stageVars, escalationVars, judgeVars,
                      statsVars, desktopVars, mergeVars, configVars>>
    \/ /\ part = "escalation" /\ EscalationNext
       /\ UNCHANGED <<part, clientVars, upstreamVars, stageVars, affinityVars, judgeVars,
                      statsVars, desktopVars, mergeVars, configVars>>
    \/ /\ part = "judge" /\ JudgeNext
       /\ UNCHANGED <<part, clientVars, upstreamVars, stageVars, affinityVars, escalationVars,
                      statsVars, desktopVars, mergeVars, configVars>>
    \/ /\ part = "stats" /\ StatsNext
       /\ UNCHANGED <<part, clientVars, upstreamVars, stageVars, affinityVars, escalationVars,
                      judgeVars, desktopVars, mergeVars, configVars>>
    \/ /\ part = "desktop" /\ DesktopNext
       /\ UNCHANGED <<part, clientVars, upstreamVars, stageVars, affinityVars, escalationVars,
                      judgeVars, statsVars, mergeVars, configVars>>
    \/ /\ part = "merge" /\ MergeNext
       /\ UNCHANGED <<part, clientVars, upstreamVars, stageVars, affinityVars, escalationVars,
                      judgeVars, statsVars, desktopVars, configVars>>
    \/ /\ part = "config" /\ ConfigNext
       /\ UNCHANGED <<part, clientVars, upstreamVars, stageVars, affinityVars, escalationVars,
                      judgeVars, statsVars, desktopVars, mergeVars>>

ServicesSpec == ServicesInit /\ [][ServicesNext]_<<part, clientVars, upstreamVars, stageVars, affinityVars, escalationVars,
                           judgeVars, statsVars, desktopVars, mergeVars, configVars>>
=============================================================================
