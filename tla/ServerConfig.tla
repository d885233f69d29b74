---------------------------- MODULE ServerConfig ----------------------------
(***************************************************************************)
(* The server's configuration and the two handlers that use what it builds *)
(* (switchyard-server config.rs and lib.rs): a TOML document of model      *)
(* clients, targets and routes is checked and turned into a routing table; *)
(* a completion or a token count then names a route, passes the check on   *)
(* the caller's login, may be moved to the masking engine's local route,   *)
(* and makes a call to a target through the client the table holds for it. *)
(*                                                                         *)
(* A document is a record of three functions; a refusal is a Boolean (its  *)
(* wording is left out). An optional field of a route is present when its  *)
(* name is in "given". Thresholds are tenths.                              *)
(***************************************************************************)
EXTENDS Integers, Sequences, FiniteSets, SequencesExt, FiniteSetsExt

CONSTANTS
    ClientTables, TargetTables, RouteTables,
                \* the [llm_clients], [targets] and [routes] a document may hold
    Tier,       \* of a target name or id: 1 opus, 2 sonnet, 3 haiku, 4 neither
    Untidy,     \* the names and ids that are empty or have outer whitespace
    LocalRoute  \* the id of the masking engine's local route

VARIABLES
    document,   \* what the server is started with
    server,     \* [status, routes]: the routing table, once it is built
    exchange    \* the last request and what became of it

configVars == <<document, server, exchange>>

Formats == {"chat", "responses", "messages"}

Kinds == {"noop", "passthrough", "random", "stage_router", "llm_classifier"}
Modes == {"unset", "capability", "escalation", "custom"}

(* What serde and the type of each field leave of a document: kinds and     *)
(* modes of those enumerations, targets by name, weights one per draw; the *)
(* families of every target's name and id.                                 *)
ASSUME ConfigAssumption ==
    /\ \A tables \in RouteTables : \A name \in DOMAIN tables :
          LET r == tables[name] IN
          /\ r.kind \in Kinds /\ r.mode \in Modes
          /\ r.targets \in Seq(STRING)
          /\ {r.strong_target, r.weak_target, r.judge} \subseteq STRING
    /\ \A tables \in TargetTables : \A name \in DOMAIN tables :
          {Tier[name], Tier[tables[name].id]} \subseteq 1..4

-----------------------------------------------------------------------------
(* The document.                                                           *)

caller_auth_kind(format) == IF format = "messages" THEN "anthropic" ELSE "openai"
accepts(kind, format) == kind = caller_auth_kind(format)

selected_mode(r) ==
    CASE r.mode # "unset"                                  -> r.mode
      [] r.mode = "unset" /\ "escalation" \in r.given      -> "escalation"
      [] r.mode = "unset" /\ "escalation" \notin r.given   -> "capability"

Given(r, slot) == IF slot \in r.given THEN <<r[slot]>> ELSE << >>

(* The targets a route completes with, in the algorithm's order.           *)
routing_target_names(r) ==
    CASE r.kind = "noop" -> << >>
      [] r.kind \in {"random", "passthrough"} -> r.targets
      [] r.kind = "stage_router" -> <<r.strong_target, r.weak_target>>
      [] r.kind = "llm_classifier" ->
            CASE selected_mode(r) = "capability" -> Given(r, "weak_target") \o Given(r, "strong_target")
              [] selected_mode(r) = "escalation" -> Given(r, "strong_target") \o Given(r, "weak_target")
              [] selected_mode(r) = "custom" -> IF "targets" \in r.given THEN r.targets ELSE << >>

(* With the judge's, which is called but never completes.                  *)
callable_target_names(r) ==
    routing_target_names(r)
        \o (IF r.kind \in {"llm_classifier", "stage_router"} THEN Given(r, "judge") ELSE << >>)

(* An endpoint's optional fields, by the modes that read them.             *)
CustomOnly == {"targets", "default_target", "response_schema", "policy"}
CapabilityOnly == {"base_threshold", "threshold_step", "session_affinity",
                   "message_hash_fallback", "recent_turn_window"}

classifier_mode(r) ==
    LET mode == selected_mode(r) IN
    /\ mode = "capability" =>
          /\ r.given \cap (CustomOnly \cup {"escalation"}) = {}
          /\ {"strong_target", "weak_target", "base_threshold"} \subseteq r.given
    /\ mode = "escalation" =>
          /\ r.given \cap CustomOnly = {}
          /\ r.mode # "unset" => r.given \cap CapabilityOnly = {}
          /\ {"strong_target", "weak_target", "escalation"} \subseteq r.given
    /\ mode = "custom" =>
          /\ r.given \cap {"strong_target", "weak_target", "base_threshold", "threshold_step",
                           "escalation", "response_format_type"} = {}
          /\ CustomOnly \cup {"prompt"} \subseteq r.given

-----------------------------------------------------------------------------
(* The algorithms' own checks.                                             *)

HashNeedsAffinity(r) == "message_hash_fallback" \in r.given => "session_affinity" \in r.given

validate_task_classifier(r) ==
    /\ r.base_threshold \in 0..10
    /\ r.threshold_step >= 0
    /\ r.base_threshold + 2 * r.threshold_step <= 10
    /\ r.max_output_tokens > 0
    /\ HashNeedsAffinity(r)

build_escalation(r) == r.confirmations > 0 /\ r.max_output_tokens > 0

build_custom(d, r) ==
    /\ Len(r.targets) >= 2
    /\ IsInjective([i \in 1..Len(r.targets) |-> d.targets[r.targets[i]].id])
    /\ r.default_target \in ToSet(r.targets)
    /\ r.max_output_tokens > 0
    /\ HashNeedsAffinity(r)

random_new(d, r) ==
    /\ r.targets # << >>
    /\ IsInjective([i \in 1..Len(r.targets) |-> d.targets[r.targets[i]].id])
    /\ "weights" \in r.given =>
          /\ Len(r.weights) = Len(r.targets)
          /\ \A i \in 1..Len(r.weights) : r.weights[i] >= 0
          /\ \E i \in 1..Len(r.weights) : r.weights[i] > 0

build_stage(r) ==
    /\ r.confidence_threshold \in 0..10
    /\ "judge" \in r.given => validate_task_classifier(r)

build_algorithm(d, r) ==
    /\ ToSet(callable_target_names(r)) \subseteq DOMAIN d.targets
    /\ CASE r.kind \in {"noop", "passthrough"} -> TRUE
         [] r.kind = "random" -> random_new(d, r)
         [] r.kind = "stage_router" -> build_stage(r)
         [] r.kind = "llm_classifier" ->
               /\ classifier_mode(r)
               /\ CASE selected_mode(r) = "capability" -> validate_task_classifier(r)
                    [] selected_mode(r) = "escalation" -> build_escalation(r)
                    [] selected_mode(r) = "custom" -> build_custom(d, r)

(* The targets its draw or its verdict can land on, from the fields the    *)
(* algorithm is built with: a weight of zero disables a random target.     *)
Completes(d, r) ==
    LET Live(i) == "weights" \in r.given => r.weights[i] > 0
        names == CASE r.kind = "noop" -> {}
                   [] r.kind = "passthrough" -> ToSet(r.targets)
                   [] r.kind = "random" -> {r.targets[i] : i \in {j \in 1..Len(r.targets) : Live(j)}}
                   [] r.kind = "llm_classifier" /\ selected_mode(r) = "custom" -> ToSet(r.targets)
                   [] OTHER -> {r.strong_target, r.weak_target}
    IN  {d.targets[name].id : name \in names}

(* The ids an algorithm of the route may send a call for.                  *)
Callable(d, r) ==
    Completes(d, r)
        \cup (IF r.kind \in {"llm_classifier", "stage_router"} /\ "judge" \in r.given
              THEN {d.targets[r.judge].id} ELSE {})

-----------------------------------------------------------------------------
(* The clients and what a route keeps of them.                             *)

build_backend(client) ==
    /\ client.base_url
    /\ client.max_retries <= 10
    /\ client.forward_auth => client.api_key_env = "unset"
    /\ client.api_key_env \in {"unset", "set"}

build_clients(d) ==
    /\ DOMAIN d.clients \cap Untidy = {}
    /\ \A name \in DOMAIN d.targets :
          /\ d.targets[name].client \in DOMAIN d.clients
          /\ build_backend(d.clients[d.targets[name].client])

(* The client registered for each id: a later target of the route with the *)
(* same id replaces an earlier one's, whichever client it names.           *)
by_model(d, r) ==
    LET names == callable_target_names(r)
        last(id) == Max({i \in 1..Len(names) : d.targets[names[i]].id = id})
    IN  [id \in {d.targets[names[i]].id : i \in 1..Len(names)} |->
            d.targets[names[last(id)]].client]

ForwardedKinds(d, r) ==
    {caller_auth_kind(d.clients[c].format) :
        c \in {k \in {d.targets[callable_target_names(r)[i]].client :
                         i \in 1..Len(callable_target_names(r))} : d.clients[k].forward_auth}}

(* Whether the route's forwarding clients agree, and on which family.      *)
OneFamily_Unchecked(d, r) == TRUE
OneFamily(d, r) == Cardinality(ForwardedKinds(d, r)) <= 1
caller_auth(d, r) ==
    IF ForwardedKinds(d, r) = {} THEN "none" ELSE CHOOSE kind \in ForwardedKinds(d, r) : TRUE

supports_count_tokens(d, name) == d.clients[d.targets[name].client].format = "messages"
count_tokens_priority(d, name) == Min({Tier[name], Tier[d.targets[name].id]})

(* The place in the route's order of the target token counts go to; 0 when *)
(* it has none.                                                            *)
build_count_tokens_target(d, r) ==
    LET names == routing_target_names(r)
        can == {i \in 1..Len(names) : supports_count_tokens(d, names[i])}
        best == {i \in can : \A j \in can :
                    count_tokens_priority(d, names[i]) <= count_tokens_priority(d, names[j])}
    IN  IF can = {} THEN 0 ELSE Min(best)

-----------------------------------------------------------------------------
(* Building the table: any refusal stops the server.                       *)

RouteBuilds(d, r) ==
    /\ r.id \notin Untidy
    /\ r.context_window # 0
    /\ build_algorithm(d, r)
    /\ OneFamily(d, r)

build(d) ==
    /\ d.schema_version = 1
    /\ \A name \in DOMAIN d.targets : {name, d.targets[name].id} \cap Untidy = {}
    /\ build_clients(d)
    /\ DOMAIN d.routes \cap Untidy = {}
    /\ \A name \in DOMAIN d.routes : RouteBuilds(d, d.routes[name])
    /\ d.routes # << >>
    /\ \A m, n \in DOMAIN d.routes : d.routes[m].id = d.routes[n].id => m = n

RouteEntry(d, r) ==
    [route         |-> r,
     clients       |-> by_model(d, r),
     caller_auth   |-> caller_auth(d, r),
     count_tokens  |-> LET at == build_count_tokens_target(d, r)
                       IN  IF at = 0 THEN "none" ELSE routing_target_names(r)[at]]

routes_of(d) ==
    [id \in {d.routes[name].id : name \in DOMAIN d.routes} |->
        RouteEntry(d, d.routes[CHOOSE name \in DOMAIN d.routes : d.routes[name].id = id])]

load_server_state ==
    /\ server.status = "starting"
    /\ server' = IF build(document)
                 THEN [status |-> "serving", routes |-> routes_of(document)]
                 ELSE [status |-> "refused", routes |-> << >>]
    /\ UNCHANGED <<document, exchange>>

-----------------------------------------------------------------------------
(* The handlers. A request is its endpoint, the route it names and whether *)
(* masking forces it local; nothing a request does changes the table, so   *)
(* one request of each kind shows what any number of them meet.            *)

Idle == [endpoint |-> "none", asked |-> "none", forced |-> FALSE, served |-> "none",
         outcome |-> "none", model |-> "none", client |-> "none"]

resolve_route(endpoint, asked) ==
    CASE asked \notin DOMAIN server.routes -> "model_not_found"
      [] asked \in DOMAIN server.routes ->
            LET kind == server.routes[asked].caller_auth
            IN  IF kind # "none" /\ ~accepts(kind, endpoint) THEN "wrong_endpoint" ELSE "resolved"

(* Asked for sensitive content, the local route takes over when the table  *)
(* has it; the check on the caller's login is not made again.              *)
select_route(asked, forced) ==
    IF forced /\ LocalRoute \in DOMAIN server.routes THEN LocalRoute ELSE asked

Refuse(endpoint, asked, forced) ==
    /\ server.status = "serving" /\ exchange = Idle
    /\ resolve_route(endpoint, asked) # "resolved"
    /\ exchange' = [Idle EXCEPT !.endpoint = endpoint, !.asked = asked, !.forced = forced,
                                !.outcome = resolve_route(endpoint, asked)]
    /\ UNCHANGED <<document, server>>

(* One of the calls a completion makes, for its judge or its answer.       *)
Call(endpoint, asked, forced) ==
    /\ server.status = "serving" /\ exchange = Idle
    /\ resolve_route(endpoint, asked) = "resolved"
    /\ LET served == select_route(asked, forced)
           entry == server.routes[served]
       IN  \E model \in Callable(document, entry.route) :
              exchange' =
                 [endpoint |-> endpoint, asked |-> asked, forced |-> forced, served |-> served,
                  outcome |-> IF model \in DOMAIN entry.clients THEN "called" ELSE "unrouted",
                  model |-> model,
                  client |-> IF model \in DOMAIN entry.clients THEN entry.clients[model] ELSE "none"]
    /\ UNCHANGED <<document, server>>

anthropic_count_tokens(asked, forced) ==
    /\ server.status = "serving" /\ exchange = Idle
    /\ resolve_route("messages", asked) = "resolved"
    /\ LET served == select_route(asked, forced)
           name == server.routes[served].count_tokens
       IN  exchange' =
              [endpoint |-> "messages", asked |-> asked, forced |-> forced, served |-> served,
               outcome |-> IF name = "none" THEN "count_tokens_unsupported" ELSE "counted",
               model |-> IF name = "none" THEN "none" ELSE document.targets[name].id,
               client |-> IF name = "none" THEN "none" ELSE document.targets[name].client]
    /\ UNCHANGED <<document, server>>

ConfigInit ==
    /\ document \in [schema_version : {1, 2}, clients : ClientTables, targets : TargetTables,
                     routes : RouteTables]
    /\ server = [status |-> "starting", routes |-> << >>]
    /\ exchange = Idle

RouteIds == {document.routes[name].id : name \in DOMAIN document.routes} \cup {"unlisted"}

ConfigNext ==
    \/ load_server_state
    \/ \E asked \in RouteIds, forced \in BOOLEAN :
          \/ \E endpoint \in Formats : Refuse(endpoint, asked, forced)
          \/ \E endpoint \in Formats : Call(endpoint, asked, forced)
          \/ anthropic_count_tokens(asked, forced)

ConfigSpec == ConfigInit /\ [][ConfigNext]_configVars

-----------------------------------------------------------------------------
(* Properties.                                                             *)

(* Every call an accepted route makes, its judge's included, finds a       *)
(* client, and one that was given a backend for that model id: no accepted *)
(* configuration fails a request for want of one (build_route_clients maps *)
(* callable_target_names, the algorithm is built from the fields           *)
(* themselves).                                                            *)
EveryCallServed ==
    exchange.outcome \in {"called", "unrouted"} =>
        \E name \in DOMAIN document.targets :
            /\ document.targets[name].id = exchange.model
            /\ document.targets[name].client = exchange.client

(* A caller's own login goes only to a provider of its family: when a call *)
(* leaves through a client that forwards logins, the request came in       *)
(* through an endpoint of that client's family. A request masking moves to *)
(* the local route is the exception the code makes: the check was made for *)
(* the route it named.                                                     *)
LoginReachesItsProvider ==
    (exchange.outcome \in {"called", "counted"} /\ exchange.served = exchange.asked) =>
        LET client == document.clients[exchange.client]
        IN  client.forward_auth => accepts(caller_auth_kind(client.format), exchange.endpoint)

(* A token count is taken on a model the same body could be answered with: *)
(* a completion target, never the judge, of the route the completion would *)
(* be served by once masking has had its say, in the first Claude family   *)
(* that route offers (build_count_tokens_target, anthropic_count_tokens).  *)
CountedWhereCompleted ==
    exchange.outcome = "counted" =>
        LET r == server.routes[select_route(exchange.asked, exchange.forced)].route
            names == ToSet(routing_target_names(r))
        IN  \E name \in names :
               /\ document.targets[name].id = exchange.model
               /\ \A other \in names : supports_count_tokens(document, other) =>
                     count_tokens_priority(document, name) <= count_tokens_priority(document, other)

(* A configuration that loads can serve every call its routes make, and    *)
(* sends no caller's login to another provider (config.rs).                *)
ConfigSound == EveryCallServed /\ LoginReachesItsProvider /\ CountedWhereCompleted
=============================================================================
