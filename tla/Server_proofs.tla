--------------------------- MODULE Server_proofs ----------------------------
(***************************************************************************)
(* What the server promises: of its configuration, for every set of        *)
(* documents it may be started with; of the requests it posts upstream,    *)
(* for every backend, caller and body; and of what it counts, for any      *)
(* number of requests, sessions, calls and resets.  Then what the desktop  *)
(* application promises of the engine processes it starts, and the model   *)
(* client of the calls it makes for the server.                            *)
(***************************************************************************)
EXTENDS ServerConfig, UpstreamRequest, RouterStats, DesktopLifecycle, ModelClient, SumsAndSequences

-----------------------------------------------------------------------------
(* The configuration.                                                      *)

-----------------------------------------------------------------------------
(* What the table holds for a route. *)

DocumentOK(d) ==
    /\ \A name \in DOMAIN d.routes :
          LET r == d.routes[name] IN
          /\ r.kind \in Kinds /\ r.mode \in Modes
          /\ r.targets \in Seq(STRING)
          /\ {r.strong_target, r.weak_target, r.judge} \subseteq STRING
    /\ \A name \in DOMAIN d.targets :
          {Tier[name], Tier[d.targets[name].id]} \subseteq 1..4

\* The targets a route completes with and the judge's, after one another.
LEMMA NamesSeq ==
    ASSUME NEW d, DocumentOK(d), NEW name \in DOMAIN d.routes, NEW r, r = d.routes[name]
    PROVE  /\ routing_target_names(r) \in Seq(STRING)
           /\ callable_target_names(r) \in Seq(STRING)
           /\ \A i \in 1 .. Len(routing_target_names(r)) :
                /\ i \in 1 .. Len(callable_target_names(r))
                /\ callable_target_names(r)[i] = routing_target_names(r)[i]
           /\ r.kind \in {"llm_classifier", "stage_router"} /\ "judge" \in r.given =>
                \E i \in 1 .. Len(callable_target_names(r)) :
                    callable_target_names(r)[i] = r.judge
<1> DEFINE S == STRING
<1>1. /\ r.kind \in Kinds /\ r.mode \in Modes /\ r.targets \in Seq(S)
      /\ r.strong_target \in S /\ r.weak_target \in S /\ r.judge \in S
  BY DEF DocumentOK
<1> HIDE DEF S
<1>2. /\ Given(r, "strong_target") \in Seq(S) /\ Given(r, "weak_target") \in Seq(S)
      /\ Given(r, "judge") \in Seq(S)
  BY <1>1 DEF Given
<1>3. selected_mode(r) \in {"capability", "escalation", "custom"}
  BY <1>1 DEF selected_mode, Modes
<1>4. routing_target_names(r) \in Seq(S)
  <2>1. CASE r.kind = "llm_classifier"
    <3>1. \A s, t \in Seq(S) : s \o t \in Seq(S)
      OBVIOUS
    <3>2. << >> \in Seq(S)
      OBVIOUS
    <3>3. routing_target_names(r) \in
            {Given(r, "weak_target") \o Given(r, "strong_target"),
             Given(r, "strong_target") \o Given(r, "weak_target"), r.targets, << >>}
      BY <1>3, <2>1 DEF routing_target_names
    <3>4. /\ Given(r, "weak_target") \in Seq(S) /\ Given(r, "strong_target") \in Seq(S)
          /\ r.targets \in Seq(S)
      BY <1>1, <1>2
    <3>5. /\ Given(r, "weak_target") \o Given(r, "strong_target") \in Seq(S)
          /\ Given(r, "strong_target") \o Given(r, "weak_target") \in Seq(S)
      BY <3>1, <3>4
    <3> QED BY <3>2, <3>3, <3>4, <3>5
  <2>2. CASE r.kind # "llm_classifier"
    <3>1. routing_target_names(r) \in
            {<< >>, r.targets, <<r.strong_target, r.weak_target>>}
      BY <1>1, <2>2 DEF routing_target_names, Kinds
    <3>2. \A x, y \in S : <<x, y>> \in Seq(S)
      OBVIOUS
    <3>3. << >> \in Seq(S)
      OBVIOUS
    <3> QED BY <1>1, <3>1, <3>2, <3>3
  <2> QED BY <2>1, <2>2
<1> DEFINE names == routing_target_names(r)
           judges == IF r.kind \in {"llm_classifier", "stage_router"}
                     THEN Given(r, "judge") ELSE << >>
<1>5. judges \in Seq(S)
  BY <1>2
<1>6. r.kind \in {"llm_classifier", "stage_router"} /\ "judge" \in r.given =>
        judges = <<r.judge>>
  BY DEF Given
<1>7. callable_target_names(r) = names \o judges
  BY DEF callable_target_names
<1> HIDE DEF names, judges
<1>8. names \in Seq(S) /\ names = routing_target_names(r)
  BY <1>4 DEF names
<1>9. judges = <<r.judge>> => (names \o judges)[Len(names) + 1] = r.judge
                              /\ Len(names) + 1 \in 1 .. Len(names \o judges)
  BY <1>5, <1>8
<1> HIDE DEF S
<1>10. names \o judges \in Seq(S)
  BY <1>5, <1>8
<1>11. \A i \in 1 .. Len(names) : i \in 1 .. Len(names \o judges) /\ (names \o judges)[i] = names[i]
  BY <1>5, <1>8
<1> QED BY <1>6, <1>7, <1>8, <1>9, <1>10, <1>11 DEF S

\* The i-th target of the route has this id, and its client is the one registered for it.
ServesId(d, r, id, i) ==
    /\ d.targets[callable_target_names(r)[i]].id = id
    /\ d.targets[callable_target_names(r)[i]].client = by_model(d, r)[id]

\* The client of an id is that of a target of the route that has the id.
LEMMA ClientOf ==
    ASSUME NEW d, DocumentOK(d), NEW name \in DOMAIN d.routes, NEW r, r = d.routes[name],
           NEW id \in DOMAIN by_model(d, r)
    PROVE  \E i \in 1 .. Len(callable_target_names(r)) : ServesId(d, r, id, i)
<1> DEFINE names == callable_target_names(r)
           S == {j \in 1 .. Len(names) : d.targets[names[j]].id = id}
<1>1. Len(names) \in Nat
  BY NamesSeq
<1>2. id \in {d.targets[names[i]].id : i \in 1 .. Len(names)}
  BY DEF by_model
<1>3. S \in SUBSET (0 .. Len(names)) /\ S # {}
  BY <1>2
<1>4. Max(S) \in S
  BY <1>1, <1>3, MaxGreatest
<1>5. by_model(d, r)[id] = d.targets[names[Max(S)]].client
  BY <1>2 DEF by_model
<1> QED BY <1>4, <1>5 DEF ServesId

\* The targets a route's algorithm is built with are those it is listed to complete with.
LEMMA CompletesIsListed ==
    ASSUME NEW d, DocumentOK(d), NEW name \in DOMAIN d.routes, NEW r, r = d.routes[name],
           build_algorithm(d, r), NEW id \in Completes(d, r)
    PROVE  \E i \in 1 .. Len(routing_target_names(r)) : id = d.targets[routing_target_names(r)[i]].id
<1> DEFINE names == routing_target_names(r)
<1>1. r.kind \in Kinds /\ r.mode \in Modes /\ r.targets \in Seq(STRING)
  BY DEF DocumentOK
<1>2. \A x, y : \A z \in {x, y} : \E i \in 1 .. Len(<<x, y>>) : z = <<x, y>>[i]
  OBVIOUS
<1>3. CASE r.kind \in {"passthrough", "random"}
  <2>1. names = r.targets
    BY <1>3 DEF routing_target_names
  <2>2. PICK i \in 1 .. Len(r.targets) : id = d.targets[r.targets[i]].id
    BY <1>1, <1>3 DEF Completes, ToSet
  <2> QED BY <2>1, <2>2
<1>4. CASE r.kind = "stage_router"
  <2>1. names = <<r.strong_target, r.weak_target>>
    BY <1>4 DEF routing_target_names
  <2>2. PICK z \in {r.strong_target, r.weak_target} : id = d.targets[z].id
    BY <1>4 DEF Completes
  <2> QED BY <1>2, <2>1, <2>2
<1>5. CASE r.kind = "llm_classifier" /\ selected_mode(r) = "custom"
  <2>1. "targets" \in r.given
    BY <1>5 DEF build_algorithm, classifier_mode, CustomOnly
  <2>2. names = r.targets
    BY <1>5, <2>1 DEF routing_target_names
  <2>3. PICK i \in 1 .. Len(r.targets) : id = d.targets[r.targets[i]].id
    BY <1>1, <1>5 DEF Completes, ToSet
  <2> QED BY <2>2, <2>3
<1>6. CASE r.kind = "llm_classifier" /\ selected_mode(r) # "custom"
  <2>1. selected_mode(r) \in {"capability", "escalation"}
    BY <1>1, <1>6 DEF selected_mode, Modes
  <2>2. {"strong_target", "weak_target"} \subseteq r.given
    BY <1>6, <2>1 DEF build_algorithm, classifier_mode
  <2>3. /\ Given(r, "weak_target") = <<r.weak_target>>
        /\ Given(r, "strong_target") = <<r.strong_target>>
    BY <2>2 DEF Given
  <2>4. \A z \in {r.strong_target, r.weak_target} : \E i \in 1 .. Len(names) : z = names[i]
    <3>1. ASSUME NEW S, NEW x \in S, NEW y \in S
          PROVE  LET both == <<x>> \o <<y>>
                 IN  1 \in 1 .. Len(both) /\ 2 \in 1 .. Len(both) /\ both[1] = x /\ both[2] = y
      OBVIOUS
    <3>2. names \in {<<r.weak_target>> \o <<r.strong_target>>, <<r.strong_target>> \o <<r.weak_target>>}
      BY <1>6, <2>1, <2>3 DEF routing_target_names
    <3>3. r.strong_target \in STRING /\ r.weak_target \in STRING
      BY DEF DocumentOK
    <3> HIDE DEF names
    <3>4. CASE names = <<r.weak_target>> \o <<r.strong_target>>
      BY <3>1, <3>3, <3>4
    <3>5. CASE names = <<r.strong_target>> \o <<r.weak_target>>
      BY <3>1, <3>3, <3>5
    <3> QED BY <3>2, <3>4, <3>5
  <2>5. PICK z \in {r.strong_target, r.weak_target} : id = d.targets[z].id
    BY <1>6 DEF Completes
  <2> QED BY <2>4, <2>5
<1> QED BY <1>1, <1>3, <1>4, <1>5, <1>6 DEF Completes, Kinds

\* Every id an algorithm of the route may call has a client.
LEMMA CallableHasClient ==
    ASSUME NEW d, DocumentOK(d), NEW name \in DOMAIN d.routes, NEW r, r = d.routes[name],
           build_algorithm(d, r), NEW id \in Callable(d, r)
    PROVE  id \in DOMAIN by_model(d, r)
<1> DEFINE names == callable_target_names(r)
<1>1. DOMAIN by_model(d, r) = {d.targets[names[i]].id : i \in 1 .. Len(names)}
  BY DEF by_model
<1>2. CASE id \in Completes(d, r)
  <2>1. \E i \in 1 .. Len(routing_target_names(r)) : id = d.targets[routing_target_names(r)[i]].id
    BY ONLY CompletesIsListed, <1>2, DocumentOK(d), name \in DOMAIN d.routes, r = d.routes[name],
            build_algorithm(d, r)
  <2>2. PICK i \in 1 .. Len(routing_target_names(r)) :
          id = d.targets[routing_target_names(r)[i]].id
    BY <2>1
  <2>3. i \in 1 .. Len(names) /\ names[i] = routing_target_names(r)[i]
    BY NamesSeq
  <2> QED BY <1>1, <2>2, <2>3
<1>3. CASE id \notin Completes(d, r)
  <2>1. /\ r.kind \in {"llm_classifier", "stage_router"} /\ "judge" \in r.given
        /\ id = d.targets[r.judge].id
    BY <1>3 DEF Callable
  <2>2. PICK i \in 1 .. Len(names) : names[i] = r.judge
    BY <2>1, NamesSeq
  <2> QED BY <1>1, <2>1, <2>2
<1> QED BY <1>2, <1>3

\* In a route whose forwarding clients are of one family, that family is the route's.
LEMMA OneFamilyIs ==
    ASSUME NEW d, NEW r, OneFamily(d, r), NEW kind \in ForwardedKinds(d, r)
    PROVE  caller_auth(d, r) = kind
<1>1. ForwardedKinds(d, r) \subseteq {"anthropic", "openai"}
  BY DEF ForwardedKinds, caller_auth_kind
<1>2. IsFiniteSet({"anthropic", "openai"})
  <2>1. IsFiniteSet({"anthropic"} \cup {"openai"})
    BY FS_Singleton, FS_AddElement
  <2>2. {"anthropic"} \cup {"openai"} = {"anthropic", "openai"}
    OBVIOUS
  <2> QED BY <2>1, <2>2
<1>3. IsFiniteSet(ForwardedKinds(d, r))
  BY <1>1, <1>2, FS_Subset
<1>4. ASSUME NEW other \in ForwardedKinds(d, r), other # kind PROVE FALSE
  <2>1. {kind, other} \subseteq ForwardedKinds(d, r)
    BY <1>4
  <2>2. IsFiniteSet({kind}) /\ Cardinality({kind}) = 1
    BY FS_Singleton
  <2>3. Cardinality({kind} \cup {other}) = 2
    <3>1. other \notin {kind}
      BY <1>4
    <3>2. Cardinality({kind} \cup {other}) = Cardinality({kind}) + 1
      BY <2>2, <3>1, FS_AddElement
    <3> QED BY ONLY <2>2, <3>2
  <2>4. Cardinality({kind} \cup {other}) <= Cardinality(ForwardedKinds(d, r))
    BY <1>3, <2>1, FS_Subset
  <2>5. Cardinality(ForwardedKinds(d, r)) \in Nat
    BY <1>3, FS_CardinalityType
  <2> QED BY <2>3, <2>4, <2>5 DEF OneFamily
<1>5. ForwardedKinds(d, r) = {kind}
  BY <1>4
<1> QED BY <1>5 DEF caller_auth

\* Token counts go to a target the route completes with, of the first family it offers.
LEMMA CountTarget ==
    ASSUME NEW d, DocumentOK(d), NEW name \in DOMAIN d.routes, NEW r, r = d.routes[name],
           ToSet(callable_target_names(r)) \subseteq DOMAIN d.targets,
           build_count_tokens_target(d, r) # 0
    PROVE  LET spot == build_count_tokens_target(d, r)
               names == routing_target_names(r)
           IN  /\ spot \in 1 .. Len(names)
               /\ \A other \in ToSet(names) : supports_count_tokens(d, other) =>
                    count_tokens_priority(d, names[spot]) <= count_tokens_priority(d, other)
<1> DEFINE names == routing_target_names(r)
           can == {i \in 1 .. Len(names) : supports_count_tokens(d, names[i])}
           rank == [i \in can |-> count_tokens_priority(d, names[i])]
           best == {i \in can : \A j \in can : rank[i] <= rank[j]}
<1>1. names \in Seq(STRING) /\ Len(names) \in Nat
  BY NamesSeq
<1>2. \A i \in 1 .. Len(names) : names[i] \in DOMAIN d.targets
  <2>1. \A i \in 1 .. Len(callable_target_names(r)) :
          callable_target_names(r)[i] \in DOMAIN d.targets
    BY NamesSeq DEF ToSet
  <2> QED BY <2>1, NamesSeq
<1>3. \A n \in DOMAIN d.targets : count_tokens_priority(d, n) \in Nat
  <2> TAKE n \in DOMAIN d.targets
  <2> DEFINE both == {Tier[n], Tier[d.targets[n].id]}
  <2>1. both \in SUBSET Nat /\ both # {}
    BY DEF DocumentOK
  <2>2. Min(both) \in Nat
    BY <2>1, MinLeast
  <2> QED BY <2>2 DEF count_tokens_priority
<1>4. rank \in [can -> Nat]
  BY <1>2, <1>3
<1>5. build_count_tokens_target(d, r) = IF can = {} THEN 0 ELSE Min(best)
  BY DEF build_count_tokens_target
<1>6. can # {} /\ build_count_tokens_target(d, r) = Min(best)
  BY <1>5
<1>7. best # {}
  <2> HIDE DEF rank, can
  <2> DEFINE ranks == {rank[i] : i \in can}
  <2>1. ranks \in SUBSET Nat /\ ranks # {}
    BY <1>4, <1>6
  <2>2. PICK least \in ranks : \A x \in ranks : least <= x
    BY <2>1, LeastExists
  <2>3. PICK i \in can : least = rank[i]
    OBVIOUS
  <2>4. i \in best
    BY <2>2, <2>3
  <2> QED BY <2>4
<1>8. best \in SUBSET Nat
  BY <1>1
<1>9. Min(best) \in best
  <2> HIDE DEF best
  <2> QED BY <1>7, <1>8, MinLeast
<1>10. ASSUME NEW other \in ToSet(names), supports_count_tokens(d, other)
       PROVE  count_tokens_priority(d, names[Min(best)]) <= count_tokens_priority(d, other)
  <2>1. PICK j \in 1 .. Len(names) : other = names[j]
    BY <1>1 DEF ToSet
  <2>2. j \in can /\ Min(best) \in can
    BY <1>9, <1>10, <2>1
  <2>3. rank[Min(best)] <= rank[j]
    BY <1>9, <2>2
  <2> QED BY <2>1, <2>2, <2>3
<1> QED BY <1>6, <1>9, <1>10

-----------------------------------------------------------------------------
(* The server and its exchanges. *)

\* The table is that of an accepted document, and nothing is exchanged before it is built.
TableInv ==
    /\ DocumentOK(document)
    /\ server.status = "serving" =>
          /\ \A name \in DOMAIN document.routes : RouteBuilds(document, document.routes[name])
          /\ server.routes = routes_of(document)
    /\ server.status # "serving" => exchange = Idle

ConfigInv == TableInv /\ ConfigSound

\* What the table of a serving server holds for a route id.
LEMMA EntryOf ==
    ASSUME NEW d, NEW id \in DOMAIN routes_of(d)
    PROVE  \E name \in DOMAIN d.routes : routes_of(d)[id] = RouteEntry(d, d.routes[name])
<1>1. id \in {d.routes[name].id : name \in DOMAIN d.routes}
  BY DEF routes_of
<1> DEFINE it == CHOOSE name \in DOMAIN d.routes : d.routes[name].id = id
<1>2. it \in DOMAIN d.routes
  BY <1>1
<1>3. routes_of(d)[id] = RouteEntry(d, d.routes[it])
  BY <1>1 DEF routes_of
<1> QED BY <1>2, <1>3

\* A target's client that forwards logins is of the family the route checks for.
LEMMA LoginChecked ==
    ASSUME NEW d, DocumentOK(d), NEW name \in DOMAIN d.routes, NEW r, r = d.routes[name],
           RouteBuilds(d, r), NEW i \in 1 .. Len(callable_target_names(r)),
           NEW client, client = d.targets[callable_target_names(r)[i]].client,
           d.clients[client].forward_auth
    PROVE  caller_auth(d, r) = caller_auth_kind(d.clients[client].format)
<1>1. caller_auth_kind(d.clients[client].format) \in ForwardedKinds(d, r)
  BY DEF ForwardedKinds
<1> QED BY <1>1, OneFamilyIs DEF RouteBuilds

\* A route that resolved accepts the login the endpoint carries.
LEMMA Resolved ==
    ASSUME NEW endpoint, NEW asked, resolve_route(endpoint, asked) = "resolved"
    PROVE  /\ asked \in DOMAIN server.routes
           /\ server.routes[asked].caller_auth = "none"
                \/ accepts(server.routes[asked].caller_auth, endpoint)
<1>1. asked \in DOMAIN server.routes
  BY DEF resolve_route
<1> QED BY <1>1 DEF resolve_route

\* The exchanges of a server that serves keep the three properties.
LEMMA ExchangeStep ==
    ASSUME ConfigInv, NEW asked, NEW forced, NEW endpoint,
           Call(endpoint, asked, forced) \/ (endpoint = "messages" /\ anthropic_count_tokens(asked, forced))
    PROVE  ConfigInv'
<1> DEFINE routed == select_route(asked, forced)
           d == document
<1>1. /\ server.status = "serving" /\ resolve_route(endpoint, asked) = "resolved"
      /\ document' = d /\ server' = server
      /\ exchange'.served = routed /\ exchange'.asked = asked
      /\ exchange'.forced = forced /\ exchange'.endpoint = endpoint
  BY DEF Call, anthropic_count_tokens
<1>2. /\ DocumentOK(d) /\ server.routes = routes_of(d)
      /\ \A name \in DOMAIN d.routes : RouteBuilds(d, d.routes[name])
  BY <1>1 DEF ConfigInv, TableInv
<1>3. TableInv'
  BY <1>1, <1>2 DEF TableInv, DocumentOK
<1>4. routed \in DOMAIN server.routes
  BY <1>1, Resolved DEF select_route
<1>5. PICK name \in DOMAIN d.routes : server.routes[routed] = RouteEntry(d, d.routes[name])
  BY <1>2, <1>4, EntryOf
<1> DEFINE r == d.routes[name]
           names == callable_target_names(r)
<1> HIDE DEF d
<1>6. /\ server.routes[routed].route = r
      /\ server.routes[routed].clients = by_model(d, r)
      /\ server.routes[routed].caller_auth = caller_auth(d, r)
      /\ server.routes[routed].count_tokens =
           IF build_count_tokens_target(d, r) = 0 THEN "none"
           ELSE routing_target_names(r)[build_count_tokens_target(d, r)]
  BY <1>5 DEF RouteEntry
<1>7. RouteBuilds(d, r) /\ build_algorithm(d, r) /\ ToSet(names) \subseteq DOMAIN d.targets
  BY <1>2 DEF RouteBuilds, build_algorithm
\* What the three properties ask of an exchange that used the i-th target.
<1>8. ASSUME NEW i \in 1 .. Len(names), exchange'.model = d.targets[names[i]].id,
             exchange'.client = d.targets[names[i]].client
      PROVE  EveryCallServed' /\ LoginReachesItsProvider'
  <2>1. names[i] \in DOMAIN d.targets
    BY <1>2, <1>7, <1>8, NamesSeq DEF ToSet
  <2>2. EveryCallServed'
    BY <1>1, <1>8, <2>1 DEF EveryCallServed, d
  <2>3. ASSUME routed = asked, d.clients[exchange'.client].forward_auth
        PROVE  accepts(caller_auth_kind(d.clients[exchange'.client].format), endpoint)
    <3>1. caller_auth(d, r) = caller_auth_kind(d.clients[exchange'.client].format)
      BY <1>2, <1>7, <1>8, <2>3, LoginChecked
    <3>2. caller_auth(d, r) # "none"
      BY <3>1 DEF caller_auth_kind
    <3> QED BY <1>1, <1>6, <2>3, <3>1, <3>2, Resolved
  <2>4. LoginReachesItsProvider'
    BY <1>1, <2>3 DEF LoginReachesItsProvider, d
  <2> QED BY <2>2, <2>4
<1>9. CASE Call(endpoint, asked, forced)
  <2>1. PICK model \in Callable(d, r) :
          exchange' =
             [endpoint |-> endpoint, asked |-> asked, forced |-> forced, served |-> routed,
              outcome |-> IF model \in DOMAIN by_model(d, r) THEN "called" ELSE "unrouted",
              model |-> model,
              client |-> IF model \in DOMAIN by_model(d, r) THEN by_model(d, r)[model] ELSE "none"]
    BY <1>6, <1>9 DEF Call, d
  <2>2. model \in DOMAIN by_model(d, r)
    BY <1>2, <1>7, <2>1, CallableHasClient
  <2>3. PICK i \in 1 .. Len(names) : ServesId(d, r, model, i)
    BY <1>2, <2>2, ClientOf
  <2>4. EveryCallServed' /\ LoginReachesItsProvider'
    BY <1>8, <2>1, <2>2, <2>3 DEF ServesId
  <2>5. exchange'.outcome = "called"
    BY <2>1, <2>2
  <2>6. CountedWhereCompleted'
    BY <2>5 DEF CountedWhereCompleted
  <2> QED BY <1>3, <2>4, <2>6 DEF ConfigInv, ConfigSound
<1>10. CASE anthropic_count_tokens(asked, forced)
  <2> DEFINE target == server.routes[routed].count_tokens
             spot == build_count_tokens_target(d, r)
  <2>1. /\ exchange'.outcome =
              IF target = "none" THEN "count_tokens_unsupported" ELSE "counted"
        /\ exchange'.model = IF target = "none" THEN "none" ELSE d.targets[target].id
        /\ exchange'.client = IF target = "none" THEN "none" ELSE d.targets[target].client
    BY <1>10 DEF anthropic_count_tokens, d
  <2>2. CASE target = "none"
    BY <1>3, <2>1, <2>2
       DEF ConfigInv, ConfigSound, EveryCallServed, LoginReachesItsProvider, CountedWhereCompleted
  <2>3. CASE target # "none"
    <3>1. spot # 0 /\ target = routing_target_names(r)[spot]
      BY <1>6, <2>3
    <3>2. /\ spot \in 1 .. Len(routing_target_names(r))
          /\ \A other \in ToSet(routing_target_names(r)) : supports_count_tokens(d, other) =>
               count_tokens_priority(d, target) <= count_tokens_priority(d, other)
      BY <1>2, <1>7, <3>1, CountTarget
    <3>3. spot \in 1 .. Len(names) /\ names[spot] = target
      BY <1>2, <3>1, <3>2, NamesSeq
    <3>4. EveryCallServed' /\ LoginReachesItsProvider'
      BY <1>8, <2>1, <2>3, <3>3
    <3>5. target \in ToSet(routing_target_names(r))
      BY <1>2, <3>1, <3>2, NamesSeq DEF ToSet
    <3>6. CountedWhereCompleted'
      <4>1. select_route(asked, forced)' = routed
        BY <1>1 DEF select_route
      <4>2. server'.routes[routed].route = r
        BY <1>1, <1>6
      <4> QED BY <1>1, <2>1, <2>3, <3>2, <3>5, <4>1, <4>2
            DEF CountedWhereCompleted, d, select_route
    <3> QED BY <1>3, <3>4, <3>6 DEF ConfigInv, ConfigSound
  <2> QED BY <2>2, <2>3
<1> QED BY <1>9, <1>10

\* In any configuration that loads every call finds its client, logins stay with their
\* provider's family, and tokens are counted where the request would be completed.
THEOREM ConfigServes == ConfigSpec => []ConfigSound
<1>1. ConfigInit => ConfigInv
  <2> SUFFICES ASSUME ConfigInit PROVE ConfigInv
    OBVIOUS
  <2>1. document.routes \in RouteTables /\ document.targets \in TargetTables
    BY DEF ConfigInit
  <2>2. DocumentOK(document)
    BY <2>1, ConfigAssumption DEF DocumentOK
  <2>3. server.status = "starting" /\ exchange = Idle /\ Idle.outcome = "none"
    BY DEF ConfigInit, Idle
  <2> QED BY <2>2, <2>3
      DEF ConfigInv, TableInv, ConfigSound, EveryCallServed, LoginReachesItsProvider,
          CountedWhereCompleted
<1>2. ConfigInv /\ [ConfigNext]_configVars => ConfigInv'
  <2> SUFFICES ASSUME ConfigInv, [ConfigNext]_configVars PROVE ConfigInv'
    OBVIOUS
  <2>1. CASE load_server_state
    <3>1. document' = document /\ exchange' = exchange /\ exchange = Idle
      BY <2>1 DEF load_server_state, ConfigInv, TableInv
    <3>2. exchange'.outcome = "none"
      BY <3>1 DEF Idle
    <3>3. ConfigSound'
      BY <3>2 DEF ConfigSound, EveryCallServed, LoginReachesItsProvider, CountedWhereCompleted
    <3>4. server'.status = "serving" =>
            build(document) /\ server'.routes = routes_of(document)
      BY <2>1 DEF load_server_state
    <3>5. DocumentOK(document)'
      BY <3>1 DEF ConfigInv, TableInv, DocumentOK
    <3>6. routes_of(document)' = routes_of(document)
      BY <3>1
    <3>7. build(document) => \A name \in DOMAIN document.routes : RouteBuilds(document, document.routes[name])
      BY DEF build
    <3> QED BY <3>1, <3>3, <3>4, <3>5, <3>6, <3>7 DEF ConfigInv, TableInv
  <2>2. ASSUME NEW endpoint, NEW asked, NEW forced, Refuse(endpoint, asked, forced)
        PROVE  ConfigInv'
    <3>1. /\ document' = document /\ server' = server /\ server.status = "serving"
          /\ exchange'.outcome = resolve_route(endpoint, asked)
      BY <2>2 DEF Refuse, Idle
    <3>2. resolve_route(endpoint, asked) \in {"model_not_found", "wrong_endpoint", "resolved"}
      BY DEF resolve_route
    <3>3. TableInv'
      BY <3>1 DEF ConfigInv, TableInv, DocumentOK
    <3> QED BY <3>1, <3>2, <3>3
        DEF ConfigInv, ConfigSound, EveryCallServed, LoginReachesItsProvider, CountedWhereCompleted
  <2>3. CASE UNCHANGED configVars
    <3>1. document' = document /\ server' = server /\ exchange' = exchange
      BY <2>3 DEF configVars
    <3> QED BY <3>1
        DEF ConfigInv, TableInv, DocumentOK, ConfigSound, EveryCallServed, LoginReachesItsProvider,
            CountedWhereCompleted, select_route
  <2> QED BY <2>1, <2>2, <2>3, ExchangeStep DEF ConfigNext
<1>3. ConfigInv => ConfigSound
  BY DEF ConfigInv
<1> QED BY <1>1, <1>2, <1>3, PTL DEF ConfigSpec

-----------------------------------------------------------------------------
(***************************************************************************)
(* The request sent upstream.                                              *)
(*                                                                         *)
(* What was posted is what the configured backend makes of the caller's    *)
(* request (PostFollows). The rest is about that operator: every reserved  *)
(* header has one source (OneSource), and the body's fields come from the  *)
(* caller or from the backend's defaults.                                  *)
(***************************************************************************)

OfBackend == [provider : Providers, forwards : BOOLEAN, key : BOOLEAN,
              extra_headers : ExtraHeaders, extra_body : ExtraFields]

\* The request that Post makes of a body
PostOf(endpoint, wire, sent) ==
    [endpoint |-> endpoint, headers |-> HeadersOf(backend, sent),
     body |-> send_encoded(backend, wire), streaming |-> Streams(endpoint, send_encoded(backend, wire))]

\* What was posted is what this backend makes of the caller's request
PostFollows ==
    posted = Unposted \/
    \E wire \in Bodies, endpoint \in {"completion", "count_tokens"} :
        /\ caller.body = <<wire>>
        /\ posted = PostOf(endpoint, wire, caller.headers)
        /\ endpoint = "count_tokens" => backend.provider = "anthropic"

UpstreamInv ==
    /\ backend \in OfBackend /\ Configured(backend)
    /\ caller.body = <<>> \/ \E wire \in Bodies : caller.body = <<wire>>
    /\ PostFollows

\* A server that has posted nothing yet satisfies the invariant.
LEMMA UpstreamStarts == UpstreamInit => UpstreamInv
  BY DEF UpstreamInit, UpstreamInv, OfBackend, PostFollows

\* Every step keeps the invariant
LEMMA UpstreamSteps == UpstreamInv /\ [UpstreamNext]_upstreamVars => UpstreamInv'
<1> SUFFICES ASSUME UpstreamInv, [UpstreamNext]_upstreamVars PROVE UpstreamInv'
  OBVIOUS
<1>1. ASSUME NEW headers \in CallerHeaders, NEW wire \in Bodies, Encode(headers, wire)
      PROVE  UpstreamInv'
  <2>1. posted = Unposted
    <3>1. ASSUME NEW other PROVE caller.body # <<other>>
      BY <1>1 DEF Encode
    <3> QED BY <3>1 DEF UpstreamInv, PostFollows
  <2>2. /\ caller' = [headers |-> headers, body |-> <<wire>>]
        /\ backend' = backend /\ posted' = Unposted
    BY <1>1, <2>1 DEF Encode
  <2> QED BY <2>2 DEF UpstreamInv, PostFollows
<1>2. ASSUME NEW endpoint \in {"completion", "count_tokens"}, Post(endpoint) PROVE UpstreamInv'
  <2>1. PICK wire \in Bodies : caller.body = <<wire>>
    BY <1>2 DEF Post, UpstreamInv
  <2>2. /\ posted' = PostOf(endpoint, wire, caller.headers)
        /\ endpoint = "count_tokens" => backend.provider = "anthropic"
        /\ backend' = backend /\ caller' = caller
    <3>1. caller.body[1] = wire
      BY <2>1
    <3> QED BY <1>2, <3>1 DEF Post, PostOf
  <2>3. PostFollows'
    <3>1. PostOf(endpoint, wire, caller.headers) = PostOf(endpoint, wire, caller.headers)'
      BY <2>2 DEF PostOf
    <3> QED BY <2>1, <2>2, <3>1 DEF PostFollows
  <2> QED BY <2>1, <2>2, <2>3 DEF UpstreamInv
<1>3. CASE UNCHANGED upstreamVars
  BY <1>3 DEF upstreamVars, UpstreamInv, PostFollows, PostOf
<1> QED BY <1>1, <1>2, <1>3 DEF UpstreamNext

-----------------------------------------------------------------------------
(* The headers.                                                            *)

\* The one source a name of the client's own set has
SourceOf(b, name) ==
    IF name \notin ProviderOwned(b.provider, b.forwards) THEN "backend"
    ELSE IF name = "anthropic-version" THEN "client"
    ELSE IF b.forwards THEN "caller" ELSE "key"

\* RESERVED_HEADERS, validate_extra_headers, apply_forwarded_auth and apply_auth agree.
LEMMA OneSource ==
    ASSUME NEW b \in OfBackend, Configured(b), NEW sent, NEW h \in HeadersOf(b, sent),
           h.name \in RESERVED_HEADERS
    PROVE  h = HeaderFrom(h.name, SourceOf(b, h.name))
<1> DEFINE owned == ProviderOwned(b.provider, b.forwards)
<1>0. b.provider \in OpenAiSide \/ (b.provider = "anthropic" /\ b.provider \notin OpenAiSide)
  <2>1. b.provider \in Providers
    BY DEF OfBackend
  <2>2. "anthropic" \notin OpenAiSide
    BY DEF OpenAiSide
  <2> QED BY <2>1, <2>2, UpstreamAssumption
<1>1. CASE h \in forward_metadata_headers(sent)
  BY <1>1 DEF forward_metadata_headers, HeaderFrom
<1>2. CASE h \in apply_forwarded_auth(b, sent)
  <2>1. PICK n : n \in owned /\ n # "anthropic-version" /\ b.forwards /\ h = HeaderFrom(n, "caller")
    <3>1. CASE b.provider \in OpenAiSide
      BY <1>2, <3>1 DEF apply_forwarded_auth, ProviderOwned
    <3>2. CASE b.provider = "anthropic" /\ b.provider \notin OpenAiSide
      BY <1>2, <3>2 DEF apply_forwarded_auth, ProviderOwned
    <3> QED BY <1>0, <3>1, <3>2
  <2> QED BY <2>1 DEF HeaderFrom, SourceOf
<1>3. CASE h \in {HeaderFrom(n, "backend") : n \in b.extra_headers}
  <2>1. h.name \notin owned /\ h = HeaderFrom(h.name, "backend")
    BY <1>3 DEF Configured, HeaderFrom
  <2> QED BY <2>1 DEF SourceOf
<1>4. CASE h \in apply_auth(b)
  <2>1. CASE h = HeaderFrom(IF b.provider \in OpenAiSide THEN "authorization" ELSE "x-api-key", "key")
             /\ ~b.forwards
    <3>1. h.name \in owned /\ h.name # "anthropic-version"
      BY <1>0, <2>1 DEF HeaderFrom, ProviderOwned
    <3> QED BY <2>1, <3>1 DEF HeaderFrom, SourceOf
  <2>2. CASE h = HeaderFrom("anthropic-version", "client") /\ b.provider = "anthropic"
             /\ b.provider \notin OpenAiSide
    <3>1. h.name = "anthropic-version" /\ "anthropic-version" \in owned
      BY <2>2 DEF HeaderFrom, ProviderOwned
    <3> QED BY <2>2, <3>1 DEF SourceOf
  <2>3. \/ h \in (IF b.key /\ ~b.forwards
                  THEN {HeaderFrom(IF b.provider \in OpenAiSide THEN "authorization" ELSE "x-api-key", "key")}
                  ELSE {})
        \/ h \in (IF b.provider = "anthropic" THEN {HeaderFrom("anthropic-version", "client")} ELSE {})
    BY <1>4 DEF apply_auth
  <2>4. b.provider = "anthropic" => b.provider \notin OpenAiSide
    BY DEF OpenAiSide
  <2> HIDE DEF owned
  <2> QED BY <2>1, <2>2, <2>3, <2>4
<1> QED BY <1>1, <1>2, <1>3, <1>4 DEF HeadersOf

\* No upstream request carries two credentials.
LEMMA CredentialHolds == UpstreamInv => OneCredential
<1> SUFFICES ASSUME UpstreamInv, NEW h \in posted.headers
             PROVE  /\ h.name \in RESERVED_HEADERS \cup Credentials =>
                           \A g \in posted.headers : g.name = h.name => g = h
                    /\ h.from = "key" => ~backend.forwards
                    /\ h.from = "caller" /\ h.name \in Credentials \cup {"anthropic-beta"} => backend.forwards
  BY DEF OneCredential
<1>1. posted.headers = HeadersOf(backend, caller.headers)
  BY DEF UpstreamInv, PostFollows, PostOf, Unposted
<1>2. RESERVED_HEADERS \cup Credentials = RESERVED_HEADERS /\ "anthropic-beta" \in RESERVED_HEADERS
  BY DEF RESERVED_HEADERS, Headers, Credentials
<1>3. \A g \in posted.headers :
        g.name \in RESERVED_HEADERS => g = HeaderFrom(g.name, SourceOf(backend, g.name))
  BY <1>1, OneSource DEF UpstreamInv
<1>4. \A g \in posted.headers : g.from = "key" => ~backend.forwards
  BY <1>1 DEF HeadersOf, forward_metadata_headers, apply_forwarded_auth, apply_auth, HeaderFrom
<1>5. h.name \in RESERVED_HEADERS /\ h.from = "caller" => backend.forwards
  BY <1>3 DEF HeaderFrom, SourceOf
<1> QED BY <1>2, <1>3, <1>4, <1>5

-----------------------------------------------------------------------------
(* The body.                                                               *)

\* What stripping leaves of a content has a last block, and none that is unsigned.
LEMMA Stripped ==
    ASSUME NEW wire \in Bodies
    PROVE  LET stripped == strip_unsigned_thinking_blocks(wire) IN
           /\ stripped.fields = wire.fields /\ stripped.usage = wire.usage
           /\ Max(DOMAIN stripped.content) \in DOMAIN stripped.content
           /\ \A i \in DOMAIN stripped.content :
                stripped.content[i] # "unsigned" /\ i =< Max(DOMAIN stripped.content)
<1> DEFINE kept == {i \in DOMAIN wire.content : wire.content[i] # "unsigned"}
           content == IF kept = {} THEN <<"empty">> ELSE [i \in kept |-> wire.content[i]]
<1>1. PICK n \in 1..MaxBlocks : wire.content \in [1..n -> {"text", "marked", "signed", "unsigned"}]
  BY DEF Bodies
<1>2. strip_unsigned_thinking_blocks(wire) = [wire EXCEPT !.content = content]
  BY DEF strip_unsigned_thinking_blocks
<1>3. DOMAIN content \in SUBSET (0..n) /\ DOMAIN content # {}
  BY <1>1
<1>4. \A i \in DOMAIN content : content[i] # "unsigned"
  BY <1>1
<1>5. Max(DOMAIN content) \in DOMAIN content /\ \A i \in DOMAIN content : Max(DOMAIN content) >= i
  <2>1. n \in Nat
    BY UpstreamAssumption
  <2> HIDE DEF content
  <2> QED BY <1>3, <2>1, MaxGreatest
<1> HIDE DEF content
<1> QED BY <1>2, <1>3, <1>4, <1>5 DEF Bodies

\* The body of an upstream request is the caller's but for what the backend is configured to change.
LEMMA BodyHolds == UpstreamInv => BodyAsPromised
<1> SUFFICES ASSUME UpstreamInv, posted.endpoint # "none" PROVE BodyAsPromised
  BY DEF BodyAsPromised
<1>1. PICK mine \in Bodies, endpoint \in {"completion", "count_tokens"} :
        /\ caller.body = <<mine>> /\ posted = PostOf(endpoint, mine, caller.headers)
        /\ endpoint = "count_tokens" => backend.provider = "anthropic"
  BY DEF UpstreamInv, PostFollows, Unposted
<1> DEFINE anthropic == backend.provider = "anthropic"
           own == IF anthropic
                  THEN strip_unsigned_thinking_blocks(strip_anthropic_incompatible_fields(mine))
                  ELSE mine
           merged == merge_extra_body(own, backend.extra_body)
           wire == send_encoded(backend, mine)
<1>2. posted.body = wire /\ posted.endpoint = endpoint /\ caller.body[1] = mine
      /\ posted.streaming = (endpoint = "completion" /\ "stream" \in wire.fields)
  BY <1>1 DEF PostOf, Streams
<1>3. merged = [own EXCEPT !.fields = own.fields \cup backend.extra_body,
                           !.defaulted = backend.extra_body \ own.fields]
  BY DEF merge_extra_body
<1>4. strip_anthropic_incompatible_fields(mine) \in Bodies
      /\ strip_anthropic_incompatible_fields(mine).fields
           = mine.fields \ {"reasoning_effort", "context_management"}
  BY DEF strip_anthropic_incompatible_fields, Bodies
<1>5. /\ own.fields = IF anthropic THEN mine.fields \ {"reasoning_effort", "context_management"}
                      ELSE mine.fields
      /\ anthropic => \A i \in DOMAIN own.content :
                        own.content[i] # "unsigned" /\ i =< Max(DOMAIN own.content)
      /\ anthropic => Max(DOMAIN own.content) \in DOMAIN own.content
  BY <1>4, Stripped
<1>6. DOMAIN own = {"fields", "usage", "defaulted", "breakpoints", "content"}
  BY <1>4 DEF Bodies, strip_unsigned_thinking_blocks
<1> HIDE DEF own
<1>7. /\ merged.fields = own.fields \cup backend.extra_body
      /\ merged.defaulted = backend.extra_body \ own.fields /\ merged.content = own.content
      /\ DOMAIN merged = {"fields", "usage", "defaulted", "breakpoints", "content"}
  BY <1>3, <1>6
<1> HIDE DEF merged
<1>8. wire = IF anthropic THEN enable_anthropic_prompt_caching(merged)
             ELSE IF backend.provider = "openai_chat" THEN ensure_openai_stream_usage(merged)
             ELSE merged
  BY DEF send_encoded, own, merged
<1>9. /\ wire.fields = merged.fields /\ wire.defaulted = merged.defaulted
      /\ wire.content = merged.content
      /\ anthropic => wire.breakpoints = {i \in DOMAIN merged.content : merged.content[i] = "marked"}
                                         \cup {Max(DOMAIN merged.content)}
      /\ backend.provider = "openai_chat" /\ "stream" \in wire.fields => wire.usage # "unset"
  BY <1>7, <1>8 DEF enable_anthropic_prompt_caching, ensure_openai_stream_usage
<1> HIDE DEF wire
<1>10. /\ anthropic => ("context_management" \in wire.fields <=> "context_management" \in backend.extra_body)
       /\ wire.defaulted \subseteq backend.extra_body
       /\ "temperature" \in mine.fields <=> "temperature" \in wire.fields \ wire.defaulted
  BY <1>5, <1>7, <1>9
<1>11. anthropic =>
         /\ \A i \in DOMAIN wire.content : wire.content[i] # "unsigned"
         /\ \E last \in wire.breakpoints :
               /\ last \in DOMAIN wire.content /\ \A i \in DOMAIN wire.content : i =< last
               /\ \A i \in wire.breakpoints \ {last} : wire.content[i] = "marked"
  BY <1>5, <1>7, <1>9
<1>12. /\ posted.endpoint = "completion" => (posted.streaming <=> "stream" \in wire.fields)
       /\ backend.provider = "openai_chat" /\ posted.streaming => wire.usage # "unset"
  BY <1>2, <1>9
<1> QED BY <1>2, <1>10, <1>11, <1>12 DEF BodyAsPromised

(***************************************************************************)
(* Whatever a backend's configuration and its callers' headers, a request  *)
(* carries one credential, the right one, and whatever the codec wrote,    *)
(* the body its provider was promised (client.rs, backend.rs).             *)
(***************************************************************************)
THEOREM UpstreamIsSound == UpstreamSpec => []UpstreamSound
<1>1. UpstreamInv => UpstreamSound
  BY CredentialHolds, BodyHolds DEF UpstreamSound
<1> QED BY <1>1, UpstreamStarts, UpstreamSteps, PTL DEF UpstreamSpec

-----------------------------------------------------------------------------
(***************************************************************************)
(* The statistics.                                                         *)
(*                                                                         *)
(* An answer's usage is recorded when the request is done, and a request   *)
(* is done once (RecordedAtEnd): so a step either records nothing that     *)
(* counts (Quiet) or the end of one request (Ending). Each end adds one    *)
(* request to those answered in this epoch and its tokens to the counter   *)
(* (TokensCountedOnce), one line to the log and its tokens to its session  *)
(* (SessionAccounted, IsLog), and one sample to the ring (RingInv); a      *)
(* reset begins an epoch in which nobody ended.                            *)
(***************************************************************************)

\* What the counters, the log and the ring are made of
Counters == [total_requests: Nat, total_errors: Nat, calls: Nat, tokens: Nat,
             classifier_requests: Nat, classifier_errors: Nat, classifier_tokens: Nat]
StatsTypeOK ==
    /\ progress \in [Request -> {"routing", "answered", "streaming", "done", "failed", "gone"}]
    /\ calls \in [Request -> Nat] /\ usage \in [Request -> Nat] /\ judged \in [Request -> Nat]
    /\ stats \in Counters
    /\ epoch \in Nat \ {0} /\ ended \in [Request -> Nat]
    /\ samples \in Seq(Nat)

\* An answer is recorded in an epoch that has begun, at its end.
RecordedAtEnd == \A r \in Request : ended[r] =< epoch /\ (ended[r] > 0 => progress[r] = "done")

\* A step that records nothing: requests that had not ended go on
Quiet(r) ==
    /\ progress[r] # "done" /\ \A q \in Request \ {r} : progress'[q] = progress[q] /\ usage'[q] = usage[q]
    /\ stats'.tokens = stats.tokens
    /\ UNCHANGED <<latency, ended, epoch, samples>>

\* A step that records a request's answer at its end
Ending(r) ==
    /\ progress[r] # "done" /\ progress'[r] = "done"
    /\ \A q \in Request \ {r} : progress'[q] = progress[q] /\ usage'[q] = usage[q]
    /\ RecordTerminal(r, usage'[r])
    /\ UNCHANGED <<epoch, judged>>

\* Every step but a reset is one or the other.
LEMMA QuietOrEnding ==
    ASSUME StatsTypeOK, NEW r \in Request,
           \/ \E tier \in {"answer", "classifier"}, success, reports \in BOOLEAN :
                Observe(r, tier, success, reports)
           \/ RunFails(r) \/ Buffered(r) \/ StreamStarts(r) \/ StreamFails(r) \/ StreamEnds(r)
           \/ HangsUp(r) \/ \E tokens \in {1, Tokens[r]} : UsageChunk(r, tokens)
    PROVE  Quiet(r) \/ Ending(r)
<1>1. ASSUME NEW tier \in {"answer", "classifier"},
             NEW success \in BOOLEAN, NEW reports \in BOOLEAN, Observe(r, tier, success, reports)
      PROVE  Quiet(r)
  <2>1. stats'.tokens = stats.tokens
    BY <1>1 DEF Observe, StatsTypeOK, Counters
  <2> QED BY <1>1, <2>1 DEF Observe, Quiet, StatsTypeOK
<1>2. RunFails(r) \/ StreamStarts(r) \/ HangsUp(r) => Quiet(r)
  BY DEF RunFails, StreamStarts, HangsUp, Quiet, StatsTypeOK
<1>3. StreamFails(r) => Quiet(r)
  BY DEF StreamFails, Quiet, StatsTypeOK
<1>4. ASSUME NEW tokens \in {1, Tokens[r]}, UsageChunk(r, tokens) PROVE Quiet(r)
  BY <1>4 DEF UsageChunk, Quiet, StatsTypeOK
<1>5. Buffered(r) => Ending(r)
  <2> SUFFICES ASSUME Buffered(r) PROVE Ending(r)
    OBVIOUS
  <2>1. usage'[r] = Tokens[r]
    BY DEF Buffered, StatsTypeOK
  <2> QED BY <2>1 DEF Buffered, Ending, StatsTypeOK
<1>6. StreamEnds(r) => Ending(r)
  BY DEF StreamEnds, Ending, StatsTypeOK
<1> QED BY <1>1, <1>2, <1>3, <1>4, <1>5, <1>6

\* Setting counters to numbers keeps them numbers.
LEMMA CountersSet ==
    \A c \in Counters : \A i, j, k \in Nat :
        /\ [c EXCEPT !.total_requests = i, !.calls = j, !.total_errors = k] \in Counters
        /\ [c EXCEPT !.classifier_requests = i, !.classifier_errors = j, !.classifier_tokens = k]
             \in Counters
  BY DEF Counters

\* The counters start as numbers.
LEMMA StatsTypeInit == StatsInit => StatsTypeOK
  BY DEF StatsInit, StatsTypeOK, NoStats, Counters

\* They stay numbers.
LEMMA StatsTypeStep == StatsTypeOK /\ [StatsNext]_statsVars => StatsTypeOK'
<1> SUFFICES ASSUME StatsTypeOK, [StatsNext]_statsVars PROVE StatsTypeOK'
  OBVIOUS
<1> USE StatsAssumption DEF StatsTypeOK
<1>1. ASSUME NEW r \in Request, NEW tier \in {"answer", "classifier"},
             NEW success \in BOOLEAN, NEW reports \in BOOLEAN, Observe(r, tier, success, reports)
      PROVE  StatsTypeOK'
  <2>1. stats' \in Counters
    <3> DEFINE Plus(count, by) == IF success THEN count + by ELSE count
               Judged(count) == IF Judges(tier, success, reports) THEN count + JudgeTokens ELSE count
               Errs(count) == IF success THEN count ELSE count + 1
    <3>1. CASE tier = "answer"
      <4>1. stats' = [stats EXCEPT !.total_requests = stats.total_requests + 1,
                                   !.calls = Plus(stats.calls, 1),
                                   !.total_errors = Errs(stats.total_errors)]
        BY <1>1, <3>1 DEF Observe, Counters
      <4>2. /\ stats.total_requests + 1 \in Nat /\ Plus(stats.calls, 1) \in Nat
            /\ Errs(stats.total_errors) \in Nat
        <5>1. stats.total_requests \in Nat /\ stats.calls \in Nat /\ stats.total_errors \in Nat
          BY DEF Counters
        <5> QED BY ONLY <5>1
      <4> HIDE DEF Plus, Errs
      <4> QED BY ONLY <4>1, <4>2, stats \in Counters, CountersSet, Zenon
    <3>2. CASE tier = "classifier"
      <4>1. stats' = [stats EXCEPT !.classifier_requests = stats.classifier_requests + 1,
                                   !.classifier_errors = Errs(stats.classifier_errors),
                                   !.classifier_tokens = Judged(stats.classifier_tokens)]
        BY <1>1, <3>2 DEF Observe, Counters
      <4>2. /\ stats.classifier_requests + 1 \in Nat /\ Errs(stats.classifier_errors) \in Nat
            /\ Judged(stats.classifier_tokens) \in Nat
        <5>1. /\ stats.classifier_requests \in Nat /\ stats.classifier_errors \in Nat
              /\ stats.classifier_tokens \in Nat /\ JudgeTokens \in Nat
          BY DEF Counters
        <5> QED BY ONLY <5>1
      <4> HIDE DEF Plus, Errs, Judged
      <4> QED BY ONLY <4>1, <4>2, stats \in Counters, CountersSet, Zenon
    <3> QED BY <3>1, <3>2
  <2>2. progress' \in [Request -> {"routing", "answered", "streaming", "done", "failed", "gone"}]
    BY <1>1 DEF Observe
  <2>3. calls' \in [Request -> Nat] /\ judged' \in [Request -> Nat]
    BY <1>1 DEF Observe
  <2> QED BY <1>1, <2>1, <2>2, <2>3 DEF Observe
<1>2. ASSUME NEW r \in Request, NEW tokens \in Nat, RecordTerminal(r, tokens)
      PROVE  stats' \in Counters /\ samples' \in Seq(Nat) /\ ended' \in [Request -> Nat]
  <2>1. stats' \in Counters
    <3>1. stats' = [stats EXCEPT !.tokens = @ + tokens]
      BY <1>2 DEF RecordTerminal
    <3> QED BY ONLY <3>1, tokens \in Nat, stats \in Counters DEF Counters
  <2>2. samples' \in Seq(Nat)
    BY <1>2 DEF RecordTerminal
  <2>3. ended' \in [Request -> Nat]
    BY <1>2 DEF RecordTerminal
  <2> QED BY <2>1, <2>2, <2>3
<1>3. ASSUME NEW r \in Request, Buffered(r) PROVE StatsTypeOK'
  BY <1>2, <1>3 DEF Buffered
<1>4. ASSUME NEW r \in Request, StreamEnds(r) PROVE StatsTypeOK'
  BY <1>2, <1>4 DEF StreamEnds
<1>5. ASSUME NEW r \in Request, RunFails(r) \/ StreamStarts(r) \/ HangsUp(r) PROVE StatsTypeOK'
  BY <1>5 DEF RunFails, StreamStarts, HangsUp
<1>6. ASSUME NEW r \in Request, StreamFails(r) PROVE StatsTypeOK'
  <2>1. stats' \in Counters
    <3>1. stats' = [stats EXCEPT !.total_errors = @ + 1]
      BY <1>6 DEF StreamFails
    <3> QED BY ONLY <3>1, stats \in Counters DEF Counters
  <2> QED BY <1>6, <2>1 DEF StreamFails
<1>7. ASSUME NEW r \in Request, NEW tokens \in {1, Tokens[r]}, UsageChunk(r, tokens)
      PROVE  StatsTypeOK'
  BY <1>7 DEF UsageChunk
<1>8. Reset => StatsTypeOK'
  BY DEF Reset, NoStats, Counters
<1>9. UNCHANGED statsVars => StatsTypeOK'
  BY DEF statsVars
<1> QED BY <1>1, <1>3, <1>4, <1>5, <1>6, <1>7, <1>8, <1>9 DEF StatsNext

\* Every step keeps the record of when answers ended.
LEMMA RecordedStep ==
    ASSUME StatsTypeOK, RecordedAtEnd, [StatsNext]_statsVars PROVE RecordedAtEnd'
<1>1. ASSUME NEW r \in Request, Quiet(r) PROVE RecordedAtEnd'
  <2>1. ended[r] = 0
    BY <1>1 DEF Quiet, RecordedAtEnd, StatsTypeOK
  <2> QED BY <1>1, <2>1 DEF Quiet, RecordedAtEnd, StatsTypeOK
<1>2. ASSUME NEW r \in Request, Ending(r) PROVE RecordedAtEnd'
  BY <1>2 DEF Ending, RecordTerminal, RecordedAtEnd, StatsTypeOK
<1>3. Reset => RecordedAtEnd'
  BY DEF Reset, RecordedAtEnd, StatsTypeOK
<1>4. UNCHANGED statsVars => RecordedAtEnd'
  BY DEF statsVars, RecordedAtEnd
<1> QED BY <1>1, <1>2, <1>3, <1>4, QuietOrEnding DEF StatsNext

-----------------------------------------------------------------------------
(* The counters.                                                           *)

\* A set of requests is finite.
LEMMA SomeRequests == ASSUME NEW S \in SUBSET Request PROVE IsFiniteSet(S)
  BY StatsAssumption, FS_Subset

\* Every step keeps the counters of answered requests right.
LEMMA CountedStep ==
    ASSUME StatsTypeOK, RecordedAtEnd, TokensCountedOnce, [StatsNext]_statsVars
    PROVE  TokensCountedOnce'
<1> DEFINE answered == {r \in Request : ended[r] = epoch}
           counted == [r \in Request |-> usage[r]]
<1>1. IsFiniteSet(answered) /\ IsFiniteSet(answered') /\ \A r \in answered : counted[r] \in Nat
  BY SomeRequests DEF StatsTypeOK
<1>2. stats.tokens = Sum(counted, answered) /\ latency.count = Cardinality(answered)
  BY DEF TokensCountedOnce
<1>3. ASSUME NEW r \in Request, progress[r] # "done" PROVE r \notin answered
  BY <1>3 DEF RecordedAtEnd, StatsTypeOK
<1>4. ASSUME answered' = answered, \A r \in answered : counted'[r] = counted[r],
             stats'.tokens = stats.tokens, latency' = latency
      PROVE  stats'.tokens = Sum(counted', answered') /\ latency'.count = Cardinality(answered')
  <2>1. Sum(counted', answered) = Sum(counted, answered)
    BY <1>1, <1>4, SumOfSame DEF Sum
  <2> QED BY <1>2, <1>4, <2>1
<1>5. ASSUME NEW r \in Request, Quiet(r)
      PROVE  stats'.tokens = Sum(counted', answered') /\ latency'.count = Cardinality(answered')
  <2>1. answered' = answered
    BY <1>5 DEF Quiet
  <2>2. \A q \in answered : counted'[q] = counted[q]
    BY <1>3, <1>5 DEF Quiet
  <2> QED BY <1>4, <1>5, <2>1, <2>2 DEF Quiet
<1>6. ASSUME NEW r \in Request, Ending(r), StatsTypeOK'
      PROVE  stats'.tokens = Sum(counted', answered') /\ latency'.count = Cardinality(answered')
  <2>1. answered' = answered \cup {r} /\ r \notin answered
    BY <1>3, <1>6 DEF Ending, RecordTerminal, StatsTypeOK
  <2>2. counted'[r] = usage'[r] /\ counted'[r] \in Nat
    BY <1>6 DEF StatsTypeOK
  <2>3. \A q \in answered : counted'[q] = counted[q]
    BY <1>6, <2>1 DEF Ending
  <2>4. Sum(counted', answered \cup {r}) = Sum(counted, answered) + counted'[r]
    <3> HIDE DEF answered, counted
    <3> QED BY <1>1, <2>1, <2>2, <2>3, SumWithOne DEF Sum
  <2>5. stats'.tokens = stats.tokens + usage'[r] /\ latency'.count = latency.count + 1
    BY <1>6 DEF Ending, RecordTerminal, record, StatsTypeOK
  <2>6. Cardinality(answered \cup {r}) = Cardinality(answered) + 1
    BY <1>1, <2>1, FS_AddElement
  <2> QED BY <1>2, <2>1, <2>2, <2>4, <2>5, <2>6
<1>7. Reset => stats'.tokens = Sum(counted', answered') /\ latency'.count = Cardinality(answered')
  <2> SUFFICES ASSUME Reset
               PROVE  stats'.tokens = Sum(counted', answered') /\ latency'.count = Cardinality(answered')
    OBVIOUS
  <2>1. answered' = {}
    BY DEF Reset, RecordedAtEnd, StatsTypeOK
  <2>2. Sum(counted', {}) = 0 /\ Cardinality({}) = 0
    BY SumUnfolds, FS_EmptySet DEF Sum
  <2>3. stats'.tokens = 0 /\ latency'.count = 0
    BY DEF Reset, NoStats, NoLatency
  <2> QED BY <2>1, <2>2, <2>3
<1>8. UNCHANGED statsVars
      => stats'.tokens = Sum(counted', answered') /\ latency'.count = Cardinality(answered')
  BY <1>2 DEF statsVars
<1>9. stats'.tokens = Sum(counted', answered') /\ latency'.count = Cardinality(answered')
  BY <1>5, <1>6, <1>7, <1>8, QuietOrEnding, StatsTypeStep DEF StatsNext
<1>10. RecordedAtEnd' /\ StatsTypeOK'
  BY RecordedStep, StatsTypeStep
<1>11. \A r \in answered' : progress'[r] = "done"
  BY <1>10 DEF RecordedAtEnd, StatsTypeOK
<1> QED BY <1>9, <1>11 DEF TokensCountedOnce

-----------------------------------------------------------------------------
(* The routing log.                                                        *)

\* What a log's lines of a session add up to
Uses(lines, s) == SumFunctionOnSet([line \in DOMAIN lines |-> lines[line] * line.tokens],
                                   {line \in DOMAIN lines : line.session = s})

\* A log is finitely many lines, each of which counts tokens.
IsLog(lines) == /\ IsFiniteSet(DOMAIN lines)
                /\ \A line \in DOMAIN lines : lines[line] \in Nat /\ line.tokens \in Nat

\* A line adds its tokens to its session, whether or not the log has one like it.
LEMMA LineAdds ==
    ASSUME NEW lines, IsLog(lines), NEW line, line.tokens \in Nat, NEW s
    PROVE  /\ IsLog(lines (+) SetToBag({line}))
           /\ Uses(lines (+) SetToBag({line}), s)
                = Uses(lines, s) + (IF line.session = s THEN line.tokens ELSE 0)
<1> DEFINE more == lines (+) SetToBag({line})
           f == [l \in DOMAIN lines |-> lines[l] * l.tokens]
           g == [l \in DOMAIN more |-> more[l] * l.tokens]
           own == {l \in DOMAIN lines : l.session = s}
           own1 == {l \in DOMAIN more : l.session = s}
<1>1. /\ DOMAIN more = DOMAIN lines \cup {line}
      /\ \A l \in DOMAIN lines : more[l] = IF l = line THEN lines[l] + 1 ELSE lines[l]
      /\ line \notin DOMAIN lines => more[line] = 1
  BY DEF (+), SetToBag, IsLog
<1>2. Uses(more, s) = SumFunctionOnSet(g, own1) /\ Uses(lines, s) = SumFunctionOnSet(f, own)
  BY DEF Uses
<1> HIDE DEF more
<1>3. IsLog(more)
  BY <1>1, FS_AddElement DEF IsLog
<1>4. IsFiniteSet(own)
  BY FS_Subset DEF IsLog
<1>5. \A l \in own : f[l] \in Nat
  <2> TAKE l \in own
  <2>1. lines[l] \in Nat /\ l.tokens \in Nat
    BY DEF IsLog
  <2> QED BY <2>1
<1>6. \A l \in own : l # line => g[l] = f[l]
  BY <1>1
<1>7. ASSUME line.session # s
      PROVE  SumFunctionOnSet(g, own1) = SumFunctionOnSet(f, own)
  <2>1. own1 = own
    BY <1>1, <1>7
  <2>2. \A l \in own : g[l] = f[l]
    BY <1>6, <1>7
  <2> HIDE DEF f, g, own, own1
  <2> QED BY <1>4, <2>1, <2>2, SumOfSame
<1>8. ASSUME line.session = s, line \in DOMAIN lines
      PROVE  SumFunctionOnSet(g, own1) = SumFunctionOnSet(f, own) + line.tokens
  <2>1. own1 = own /\ line \in own
    BY <1>1, <1>8
  <2>2. g[line] = f[line] + line.tokens
    <3>1. lines[line] \in Nat
      BY <1>8 DEF IsLog
    <3>2. \A a \in Nat, c \in Nat : (a + 1) * c = a * c + c
      OBVIOUS
    <3>3. (lines[line] + 1) * line.tokens = lines[line] * line.tokens + line.tokens
      BY <3>1, <3>2
    <3>4. g[line] = more[line] * line.tokens /\ f[line] = lines[line] * line.tokens
      BY <1>1, <1>8
    <3>5. more[line] = lines[line] + 1
      BY <1>1, <1>8
    <3> QED BY <3>3, <3>4, <3>5
  <2> HIDE DEF f, g, own, own1
  <2>3. \A l \in own : f[l] \in Nat /\ g[l] = IF l = line THEN f[l] + line.tokens ELSE f[l]
    BY <1>5, <1>6, <2>2
  <2>4. SumFunctionOnSet(g, own) = SumFunctionOnSet(f, own) + line.tokens
    BY <1>4, <2>1, <2>3, SumGrows
  <2> QED BY <2>1, <2>4
<1>9. ASSUME line.session = s, line \notin DOMAIN lines
      PROVE  SumFunctionOnSet(g, own1) = SumFunctionOnSet(f, own) + line.tokens
  <2>1. own1 = own \cup {line} /\ line \notin own
    BY <1>1, <1>9
  <2>2. g[line] = line.tokens
    <3>1. g[line] = 1 * line.tokens
      BY <1>1, <1>9
    <3> QED BY <3>1
  <2>3. \A l \in own : f[l] \in Nat /\ g[l] = f[l]
    BY <1>5, <1>6, <2>1
  <2> HIDE DEF f, g, own, own1
  <2>4. SumFunctionOnSet(g, own \cup {line}) = SumFunctionOnSet(f, own) + g[line]
    BY <1>4, <2>1, <2>2, <2>3, SumWithOne
  <2> QED BY <2>1, <2>2, <2>4
<1>10. SumFunctionOnSet(f, own) \in Nat
  <2> HIDE DEF f, own
  <2> QED BY <1>4, <1>5, SumIsNat
<1>11. Uses(more, s) = Uses(lines, s) + (IF line.session = s THEN line.tokens ELSE 0)
  <2> HIDE DEF f, g, own, own1
  <2> QED BY <1>2, <1>7, <1>8, <1>9, <1>10
<1> QED BY <1>3, <1>11 DEF more

\* No line adds nothing.
LEMMA NoLineAdds ==
    ASSUME NEW lines, IsLog(lines), NEW s
    PROVE  IsLog(lines (+) EmptyBag) /\ Uses(lines (+) EmptyBag, s) = Uses(lines, s)
<1> DEFINE more == lines (+) EmptyBag
           f == [l \in DOMAIN lines |-> lines[l] * l.tokens]
           g == [l \in DOMAIN more |-> more[l] * l.tokens]
           own == {l \in DOMAIN lines : l.session = s}
<1>1. DOMAIN more = DOMAIN lines /\ \A l \in DOMAIN lines : more[l] = lines[l]
  BY DEF (+), EmptyBag, SetToBag, IsLog
<1>2. own = {l \in DOMAIN more : l.session = s} /\ \A l \in own : g[l] = f[l]
  BY <1>1
<1>3. IsFiniteSet(own)
  BY FS_Subset DEF IsLog
<1>4. Uses(more, s) = SumFunctionOnSet(g, own) /\ Uses(lines, s) = SumFunctionOnSet(f, own)
  BY <1>2 DEF Uses
<1>5. IsLog(more)
  BY <1>1 DEF IsLog
<1> HIDE DEF f, g, own
<1>6. Uses(more, s) = Uses(lines, s)
  BY <1>2, <1>3, <1>4, SumOfSame
<1> QED BY <1>5, <1>6

\* What the requests of a session used: their answers and their judge calls
Own(s) == {r \in Request : SessionOf[r] = s}
Answers == [r \in Request |-> IF ended[r] > 0 THEN usage[r] ELSE 0]

\* The account, in the words of the lemmas below.
LEMMA AccountIs ==
    SessionAccounted <=> \A s \in Session : Uses(log, s) = Sum(Answers, Own(s)) + JudgeTokens * Sum(judged, Own(s))
  BY DEF SessionAccounted, snapshot, Uses, Own, Answers

\* A step that logs nothing, answers nothing and judges nothing leaves the account.
LEMMA AccountKept ==
    ASSUME StatsTypeOK, SessionAccounted, IsLog(log), NEW lines, lines \in {log, log (+) EmptyBag},
           log' = lines, judged' = judged,
           \A r \in Request : ended[r] > 0 => usage'[r] = usage[r], ended' = ended
    PROVE  SessionAccounted' /\ IsLog(log')
<1>1. IsLog(lines) /\ \A s \in Session : Uses(lines, s) = Uses(log, s)
  BY NoLineAdds
<1>2. ASSUME NEW s \in Session PROVE Sum(Answers', Own(s)) = Sum(Answers, Own(s))
  <2>1. IsFiniteSet(Own(s)) /\ \A r \in Own(s) : Answers'[r] = Answers[r]
    BY SomeRequests DEF Own, Answers
  <2> QED BY <2>1, SumOfSame DEF Sum
<1>3. \A s \in Session : Uses(log', s) = Sum(Answers', Own(s)) + JudgeTokens * Sum(judged', Own(s))
  BY <1>1, <1>2, AccountIs
<1>4. SessionAccounted'
  BY <1>3 DEF SessionAccounted, snapshot, Uses, Own, Answers
<1> QED BY <1>1, <1>4

\* A judge's line, and an answer's, adds to both sides.
LEMMA AccountJudged ==
    ASSUME StatsTypeOK, SessionAccounted, IsLog(log), NEW r \in Request,
           log' = log (+) SetToBag({Record(r, "classifier", JudgeTokens)}),
           judged' = [judged EXCEPT ![r] = @ + 1], UNCHANGED <<usage, ended>>
    PROVE  SessionAccounted' /\ IsLog(log')
<1> DEFINE line == Record(r, "classifier", JudgeTokens)
<1>1. line.tokens = JudgeTokens /\ line.session = SessionOf[r] /\ line.tokens \in Nat
  BY StatsAssumption DEF Record
<1> HIDE DEF line
<1>2. IsLog(log')
  BY <1>1, LineAdds DEF line
<1>3. ASSUME NEW s \in Session
      PROVE  Uses(log', s) = Sum(Answers', Own(s)) + JudgeTokens * Sum(judged', Own(s))
  <2>1. Uses(log', s) = Uses(log, s) + (IF SessionOf[r] = s THEN JudgeTokens ELSE 0)
    BY <1>1, LineAdds DEF line
  <2>2. IsFiniteSet(Own(s)) /\ \A q \in Own(s) : judged[q] \in Nat /\ Answers[q] \in Nat
    BY SomeRequests DEF Own, Answers, StatsTypeOK
  <2>3. Sum(judged', Own(s)) = Sum(judged, Own(s)) + (IF SessionOf[r] = s THEN 1 ELSE 0)
    <3>1. CASE r \in Own(s)
      <4>1. \A q \in Own(s) : judged[q] \in Nat
                              /\ judged'[q] = IF q = r THEN judged[q] + 1 ELSE judged[q]
        BY DEF Own, StatsTypeOK
      <4>2. SumFunctionOnSet(judged', Own(s)) = SumFunctionOnSet(judged, Own(s)) + 1
        <5>1. 1 \in Nat
          OBVIOUS
        <5> QED BY ONLY <2>2, <3>1, <4>1, <5>1, SumGrows
      <4> QED BY <3>1, <4>2 DEF Own, Sum
    <3>2. CASE r \notin Own(s)
      <4>1. \A q \in Own(s) : judged'[q] = judged[q]
        BY <3>2 DEF Own, StatsTypeOK
      <4>2. SumFunctionOnSet(judged', Own(s)) = SumFunctionOnSet(judged, Own(s))
        BY ONLY <2>2, <4>1, SumOfSame
      <4>3. SumFunctionOnSet(judged, Own(s)) \in Nat
        BY <2>2, SumIsNat
      <4> QED BY <3>2, <4>2, <4>3 DEF Own, Sum
    <3> QED BY <3>1, <3>2
  <2>4. Answers' = Answers
    BY DEF Answers
  <2>5. Sum(judged, Own(s)) \in Nat /\ Sum(Answers, Own(s)) \in Nat /\ JudgeTokens \in Nat
    BY <2>2, SumIsNat, StatsAssumption DEF Sum
  <2>6. Uses(log, s) = Sum(Answers, Own(s)) + JudgeTokens * Sum(judged, Own(s))
    BY AccountIs
  <2> DEFINE a == Sum(Answers, Own(s))
             j == Sum(judged, Own(s))
  <2>7. \A k \in Nat : JudgeTokens * (k + 1) = JudgeTokens * k + JudgeTokens
    BY StatsAssumption
  <2>8. JudgeTokens * j \in Nat
    BY <2>5
  <2> HIDE DEF a, j
  <2>9. CASE SessionOf[r] = s
    <3>1. Sum(judged', Own(s)) = j + 1 /\ Uses(log', s) = (a + JudgeTokens * j) + JudgeTokens
      BY <2>1, <2>3, <2>6, <2>9 DEF a, j
    <3>2. JudgeTokens * (j + 1) = JudgeTokens * j + JudgeTokens
      BY <2>5, <2>7 DEF j
    <3>3. a \in Nat /\ Sum(Answers', Own(s)) = a
      BY <2>4, <2>5 DEF a
    <3>4. (a + JudgeTokens * j) + JudgeTokens = a + (JudgeTokens * j + JudgeTokens)
      BY <2>5, <2>8, <3>3
    <3> QED BY <3>1, <3>2, <3>3, <3>4
  <2>10. CASE SessionOf[r] # s
    <3>1. Sum(judged', Own(s)) = j /\ Uses(log', s) = a + JudgeTokens * j
      BY <2>1, <2>3, <2>5, <2>6, <2>8, <2>10 DEF a, j
    <3> QED BY <2>4, <3>1 DEF a
  <2> QED BY <2>9, <2>10
<1>4. SessionAccounted'
  BY <1>3 DEF SessionAccounted, snapshot, Uses, Own, Answers
<1> QED BY <1>2, <1>4

\* The line of an answer adds its tokens to its session on both sides.
LEMMA AccountAnswered ==
    ASSUME StatsTypeOK, StatsTypeOK', RecordedAtEnd, SessionAccounted, IsLog(log),
           NEW r \in Request, Ending(r)
    PROVE  SessionAccounted' /\ IsLog(log')
<1> DEFINE used == usage'[r]
           line == Record(r, "answer", used)
<1>1. line.tokens = used /\ line.session = SessionOf[r] /\ used \in Nat
  BY DEF Record, StatsTypeOK
<1>2. log' = log (+) SetToBag({line}) /\ judged' = judged
  BY DEF Ending, RecordTerminal
<1>3. ended[r] = 0
  <2>1. ended[r] \in Nat
    BY DEF StatsTypeOK
  <2> QED BY <2>1 DEF Ending, RecordedAtEnd
<1>4. ended' = [ended EXCEPT ![r] = epoch] /\ epoch > 0
  BY DEF Ending, RecordTerminal, StatsTypeOK
<1>5. \A q \in Request : q # r => usage'[q] = usage[q]
  BY DEF Ending
<1>6. Answers[r] = 0 /\ Answers'[r] = used
  BY <1>3, <1>4 DEF Answers, StatsTypeOK
<1>7. \A q \in Request : Answers[q] \in Nat /\ (q # r => Answers'[q] = Answers[q])
  BY <1>4, <1>5 DEF Answers, StatsTypeOK
<1> HIDE DEF line, used
<1>8. IsLog(log')
  BY <1>1, <1>2, LineAdds
<1>9. ASSUME NEW s \in Session
      PROVE  Uses(log', s) = Sum(Answers', Own(s)) + JudgeTokens * Sum(judged', Own(s))
  <2>1. Uses(log', s) = Uses(log, s) + (IF SessionOf[r] = s THEN used ELSE 0)
    BY <1>1, <1>2, LineAdds
  <2>2. IsFiniteSet(Own(s)) /\ Own(s) \subseteq Request /\ (r \in Own(s) <=> SessionOf[r] = s)
    BY SomeRequests DEF Own
  <2>3. Sum(Answers', Own(s)) = Sum(Answers, Own(s)) + (IF SessionOf[r] = s THEN used ELSE 0)
    <3>1. CASE r \in Own(s)
      <4>1. \A q \in Own(s) : Answers[q] \in Nat
                              /\ Answers'[q] = IF q = r THEN Answers[q] + used ELSE Answers[q]
        BY <1>1, <1>6, <1>7, <2>2
      <4>2. SumFunctionOnSet(Answers', Own(s)) = SumFunctionOnSet(Answers, Own(s)) + used
        BY <1>1, <2>2, <3>1, <4>1, SumGrows
      <4> QED BY <2>2, <3>1, <4>2 DEF Sum
    <3>2. CASE r \notin Own(s)
      <4>1. \A q \in Own(s) : Answers[q] \in Nat /\ Answers'[q] = Answers[q]
        BY <1>7, <2>2, <3>2
      <4>2. SumFunctionOnSet(Answers', Own(s)) = SumFunctionOnSet(Answers, Own(s))
        BY <2>2, <4>1, SumOfSame
      <4>3. SumFunctionOnSet(Answers, Own(s)) \in Nat
        BY <2>2, <4>1, SumIsNat
      <4> QED BY <2>2, <3>2, <4>2, <4>3 DEF Sum
    <3> QED BY <3>1, <3>2
  <2>4. Sum(Answers, Own(s)) \in Nat /\ Sum(judged, Own(s)) \in Nat
    BY <1>7, <2>2, SumIsNat DEF Sum, StatsTypeOK
  <2>5. Uses(log, s) = Sum(Answers, Own(s)) + JudgeTokens * Sum(judged, Own(s))
    BY AccountIs
  <2> DEFINE a == Sum(Answers, Own(s))
             j == JudgeTokens * Sum(judged, Own(s))
             more == IF SessionOf[r] = s THEN used ELSE 0
  <2>6. a \in Nat /\ j \in Nat /\ more \in Nat
    BY <1>1, <2>4, StatsAssumption
  <2>7. /\ Uses(log', s) = (a + j) + more /\ Sum(Answers', Own(s)) = a + more
        /\ j = JudgeTokens * Sum(judged', Own(s))
    BY <1>2, <2>1, <2>3, <2>5
  <2> HIDE DEF a, j, more
  <2>8. (a + j) + more = (a + more) + j
    BY <2>6
  <2> QED BY <2>7, <2>8
<1>10. SessionAccounted'
  BY <1>9 DEF SessionAccounted, snapshot, Uses, Own, Answers
<1> QED BY <1>8, <1>10

\* Every step keeps the account of every session.
LEMMA AccountedStep ==
    ASSUME StatsTypeOK, RecordedAtEnd, SessionAccounted, IsLog(log), [StatsNext]_statsVars
    PROVE  SessionAccounted' /\ IsLog(log')
<1>1. StatsTypeOK'
  BY StatsTypeStep
<1>2. ASSUME NEW r \in Request, progress[r] # "done" PROVE ended[r] = 0
  BY <1>2 DEF RecordedAtEnd, StatsTypeOK
<1>3. ASSUME NEW r \in Request, NEW tier \in {"answer", "classifier"},
             NEW success \in BOOLEAN, NEW reports \in BOOLEAN, Observe(r, tier, success, reports)
      PROVE  SessionAccounted' /\ IsLog(log')
  <2>1. UNCHANGED <<usage, ended>>
    BY <1>3 DEF Observe
  <2>2. CASE Judges(tier, success, reports)
    <3>1. log' = log (+) SetToBag({Record(r, "classifier", JudgeTokens)})
      BY <1>3, <2>2 DEF Observe, CallLines
    <3>2. judged' = [judged EXCEPT ![r] = @ + 1]
      BY <1>3, <2>2 DEF Observe, StatsTypeOK
    <3> QED BY <2>1, <3>1, <3>2, AccountJudged
  <2>3. CASE ~Judges(tier, success, reports)
    <3>1. log' = log (+) EmptyBag
      BY <1>3, <2>3 DEF Observe, CallLines
    <3>2. judged' = judged
      BY <1>3, <2>3 DEF Observe, StatsTypeOK
    <3> QED BY <2>1, <3>1, <3>2, AccountKept
  <2> QED BY <2>2, <2>3
<1>4. ASSUME NEW r \in Request, RunFails(r) \/ StreamStarts(r) \/ StreamFails(r) \/ HangsUp(r)
      PROVE  SessionAccounted' /\ IsLog(log')
  <2>1. UNCHANGED <<usage, ended, log, judged>>
    BY <1>4 DEF RunFails, StreamStarts, StreamFails, HangsUp
  <2> QED BY <2>1, AccountKept
<1>5. ASSUME NEW r \in Request, NEW tokens \in {1, Tokens[r]}, UsageChunk(r, tokens)
      PROVE  SessionAccounted' /\ IsLog(log')
  <2>1. ended[r] = 0 /\ UNCHANGED <<ended, log, judged>>
    BY <1>2, <1>5 DEF UsageChunk
  <2>2. \A q \in Request : ended[q] > 0 => usage'[q] = usage[q]
    BY <1>5, <2>1 DEF UsageChunk, StatsTypeOK
  <2> QED BY <2>1, <2>2, AccountKept
<1>6. ASSUME NEW r \in Request, Buffered(r) \/ StreamEnds(r) PROVE SessionAccounted' /\ IsLog(log')
  <2>1. progress[r] \in {"answered", "streaming"}
    BY <1>6 DEF Buffered, StreamEnds
  <2>2. ~Quiet(r)
    <3>1. ended'[r] = epoch
      BY <1>6 DEF Buffered, StreamEnds, RecordTerminal, StatsTypeOK
    <3> QED BY <1>2, <2>1, <3>1 DEF Quiet, StatsTypeOK
  <2>3. Ending(r)
    BY <1>6, <2>2, QuietOrEnding
  <2> QED BY <1>1, <2>3, AccountAnswered
<1>7. Reset => SessionAccounted' /\ IsLog(log')
  BY AccountKept DEF Reset
<1>8. UNCHANGED statsVars => SessionAccounted' /\ IsLog(log')
  BY AccountKept DEF statsVars
<1> QED BY <1>3, <1>4, <1>5, <1>6, <1>7, <1>8 DEF StatsNext
-----------------------------------------------------------------------------
(* The latency ring.                                                       *)

\* A remainder is below the divisor, and the rest is a multiple of it.
LEMMA RemainderIs ==
    ASSUME NEW m \in Nat \ {0}, NEW a \in Nat
    PROVE  a % m \in 0..m-1 /\ \E q \in Int : a = m * q + (a % m)
<1>1. a % m \in 0..m-1
  OBVIOUS
<1>2. a = m * (a \div m) + (a % m)
  OBVIOUS
<1>3. a \div m \in Int
  OBVIOUS
<1> QED BY <1>1, <1>2, <1>3

\* There is one such remainder.
LEMMA RemainderUnique ==
    ASSUME NEW m \in Nat \ {0}, NEW q \in Int, NEW p \in Int, NEW r \in 0..m-1, NEW s \in 0..m-1,
           m * q + r = m * p + s
    PROVE  r = s /\ q = p
<1>1. m * (q - p) = s - r
  OBVIOUS
<1>2. ~(q - p >= 1)
  <2>1. q - p >= 1 => m * (q - p) >= m
    OBVIOUS
  <2> QED BY <1>1, <2>1
<1>3. ~(p - q >= 1)
  <2>1. p - q >= 1 => m * (p - q) >= m
    OBVIOUS
  <2>2. m * (p - q) = r - s
    OBVIOUS
  <2> QED BY <2>1, <2>2
<1> QED BY <1>1, <1>2, <1>3

\* Numbers one divisor apart have the same remainder.
LEMMA RemainderRepeats ==
    ASSUME NEW m \in Nat \ {0}, NEW a \in Nat, NEW b \in Nat, b = a + m PROVE b % m = a % m
<1> DEFINE r == a % m
           s == b % m
<1>1. PICK q \in Int : a = m * q + r
  BY RemainderIs
<1>2. PICK p \in Int : b = m * p + s
  BY RemainderIs
<1>3. r \in 0..m-1 /\ s \in 0..m-1
  BY RemainderIs
<1> HIDE DEF r, s
<1>4. PICK k \in Int : k = q + 1
  OBVIOUS
<1>5. m * k = m * q + m
  BY <1>4
<1>6. m * k + r = m * p + s
  BY <1>1, <1>2, <1>3, <1>5
<1>7. r = s
  BY <1>3, <1>6, RemainderUnique
<1> QED BY <1>7 DEF r, s

\* Different numbers less than one divisor apart have different remainders.
LEMMA RemaindersApart ==
    ASSUME NEW m \in Nat \ {0}, NEW a \in Nat, NEW b \in Nat, a < b, b - a < m
    PROVE  a % m # b % m
<1> SUFFICES ASSUME a % m = b % m PROVE FALSE
  OBVIOUS
<1> DEFINE r == a % m
<1>1. PICK q \in Int : a = m * q + r
  BY RemainderIs
<1>2. PICK p \in Int : b = m * p + r
  BY RemainderIs
<1>3. r \in 0..m-1
  BY RemainderIs
<1> HIDE DEF r
<1>4. b - a = m * (p - q)
  BY <1>1, <1>2, <1>3
<1>5. p - q >= 1
  BY <1>4
<1>6. m * (p - q) >= m
  BY <1>5
<1> QED BY <1>4, <1>6

\* A number below the divisor is its own remainder.
LEMMA RemainderOfLess == ASSUME NEW m \in Nat \ {0}, NEW a \in 0..m-1 PROVE a % m = a
<1> DEFINE r == a % m
<1>0. a \in Nat
  OBVIOUS
<1>1. PICK q \in Int : a = m * q + r
  BY <1>0, RemainderIs
<1>2. r \in 0..m-1
  BY <1>0, RemainderIs
<1> HIDE DEF r
<1>3. m * 0 + a = m * q + r
  BY <1>1
<1>4. a = r
  BY <1>2, <1>3, RemainderUnique
<1> QED BY <1>4 DEF r

\* After n samples the ring has as many as it has room for, each slot one of the newest that
\* belongs there, and every one of the newest is in its slot.
Slot(k) == 1 + ((k - 1) % MAX_LATENCY_SAMPLES)
RingOf(ring, n) ==
    /\ ring \in Seq(Nat)
    /\ Len(ring) = IF n < MAX_LATENCY_SAMPLES THEN n ELSE MAX_LATENCY_SAMPLES
    /\ \A i \in 1..Len(ring) : ring[i] \in 1..n /\ n < ring[i] + MAX_LATENCY_SAMPLES
                                /\ Slot(ring[i]) = i
    /\ \A k \in 1..n : n < k + MAX_LATENCY_SAMPLES => Slot(k) \in 1..Len(ring) /\ ring[Slot(k)] = k
RingInv == latency.count = Len(samples) /\ RingOf(latency.samples, Len(samples))

\* Slots of samples less than a ring apart differ.
LEMMA SlotsApart ==
    ASSUME NEW k \in Nat \ {0}, NEW n \in Nat \ {0}, k < n, n < k + MAX_LATENCY_SAMPLES
    PROVE  Slot(k) # Slot(n)
<1>1. MAX_LATENCY_SAMPLES \in Nat \ {0} /\ k - 1 \in Nat /\ n - 1 \in Nat
  BY StatsAssumption
<1>2. k - 1 < n - 1 /\ (n - 1) - (k - 1) < MAX_LATENCY_SAMPLES
  BY <1>1
<1>3. (k - 1) % MAX_LATENCY_SAMPLES # (n - 1) % MAX_LATENCY_SAMPLES
  BY <1>1, <1>2, RemaindersApart
<1>4. (k - 1) % MAX_LATENCY_SAMPLES \in Nat /\ (n - 1) % MAX_LATENCY_SAMPLES \in Nat
  BY <1>1, RemainderIs
<1> QED BY <1>3, <1>4 DEF Slot

\* Samples a whole ring apart have the same slot.
LEMMA SlotRepeats ==
    ASSUME NEW k \in Nat \ {0} PROVE Slot(k + MAX_LATENCY_SAMPLES) = Slot(k)
<1>1. MAX_LATENCY_SAMPLES \in Nat \ {0} /\ k - 1 \in Nat
  BY StatsAssumption
<1>2. (k + MAX_LATENCY_SAMPLES) - 1 = (k - 1) + MAX_LATENCY_SAMPLES
      /\ (k + MAX_LATENCY_SAMPLES) - 1 \in Nat
  BY <1>1
<1>3. ((k + MAX_LATENCY_SAMPLES) - 1) % MAX_LATENCY_SAMPLES = (k - 1) % MAX_LATENCY_SAMPLES
  BY <1>1, <1>2, RemainderRepeats
<1> QED BY <1>3 DEF Slot

\* Every sample has a slot of the ring.
LEMMA SlotInRing == ASSUME NEW k \in Nat \ {0} PROVE Slot(k) \in 1..MAX_LATENCY_SAMPLES
<1>1. MAX_LATENCY_SAMPLES \in Nat \ {0} /\ k - 1 \in Nat
  BY StatsAssumption
<1>2. (k - 1) % MAX_LATENCY_SAMPLES \in 0..MAX_LATENCY_SAMPLES-1
  BY <1>1, RemainderIs
<1> QED BY <1>1, <1>2 DEF Slot

\* The first samples fill the ring in order.
LEMMA SlotOfFirst == ASSUME NEW k \in 1..MAX_LATENCY_SAMPLES PROVE Slot(k) = k
<1>1. MAX_LATENCY_SAMPLES \in Nat \ {0} /\ k - 1 \in 0..MAX_LATENCY_SAMPLES-1
  BY StatsAssumption
<1>2. (k - 1) % MAX_LATENCY_SAMPLES = k - 1
  BY <1>1, RemainderOfLess
<1> QED BY <1>2 DEF Slot

\* While there is room, a sample goes behind the others.
LEMMA RingFills ==
    ASSUME NEW ring, NEW n \in Nat, RingOf(ring, n), n < MAX_LATENCY_SAMPLES
    PROVE  RingOf(Append(ring, n + 1), n + 1)
<1> DEFINE next == Append(ring, n + 1)
<1>1. MAX_LATENCY_SAMPLES \in Nat \ {0}
  BY StatsAssumption
<1>2. ring \in Seq(Nat) /\ Len(ring) = n
  BY DEF RingOf
<1>3. /\ next \in Seq(Nat) /\ Len(next) = n + 1 /\ next[n + 1] = n + 1
      /\ \A i \in 1..n : next[i] = ring[i]
  BY <1>2
<1> HIDE DEF next
<1>4. \A k \in 1..(n + 1) : Slot(k) = k
  BY <1>1, SlotOfFirst
<1>5. \A i \in 1..n : ring[i] = i
  <2> TAKE i \in 1..n
  <2>1. i \in 1..n /\ n < i + MAX_LATENCY_SAMPLES
    BY <1>1
  <2>2. ring[Slot(i)] = i
    BY <2>1 DEF RingOf
  <2> QED BY <1>4, <2>2
<1>6. \A i \in 1..(n + 1) : next[i] = i
  BY <1>3, <1>5
<1>7. Len(next) = IF n + 1 < MAX_LATENCY_SAMPLES THEN n + 1 ELSE MAX_LATENCY_SAMPLES
  BY <1>1, <1>3
<1>8. \A i \in 1..Len(next) : next[i] \in 1..(n + 1) /\ n + 1 < next[i] + MAX_LATENCY_SAMPLES
                              /\ Slot(next[i]) = i
  BY <1>1, <1>3, <1>4, <1>6
<1>9. \A k \in 1..(n + 1) : n + 1 < k + MAX_LATENCY_SAMPLES =>
          Slot(k) \in 1..Len(next) /\ next[Slot(k)] = k
  BY <1>3, <1>4, <1>6
<1>10. RingOf(next, n + 1)
  BY <1>3, <1>7, <1>8, <1>9 DEF RingOf
<1> QED BY <1>10 DEF next

\* When there is none it replaces the oldest, whose slot is its own.
LEMMA RingWraps ==
    ASSUME NEW ring, NEW n \in Nat, RingOf(ring, n), MAX_LATENCY_SAMPLES =< n
    PROVE  RingOf([ring EXCEPT ![Slot(n + 1)] = n + 1], n + 1)
<1> DEFINE M == MAX_LATENCY_SAMPLES
           next == [ring EXCEPT ![Slot(n + 1)] = n + 1]
           j == Slot(n + 1)
<1>1. M \in Nat \ {0}
  BY StatsAssumption
<1>2. ring \in Seq(Nat) /\ Len(ring) = M
  BY <1>1 DEF RingOf
<1>3. j \in 1..M
  BY SlotInRing
<1>4. /\ next \in Seq(Nat) /\ Len(next) = M /\ next[j] = n + 1
      /\ \A i \in 1..M : i # j => next[i] = ring[i]
  BY <1>2, <1>3
<1> HIDE DEF next
<1>5. ASSUME NEW i \in 1..M, i # j
      PROVE  next[i] \in 1..(n + 1) /\ n + 1 < next[i] + M /\ Slot(next[i]) = i
  <2>1. next[i] = ring[i] /\ ring[i] \in 1..n /\ n < ring[i] + M /\ Slot(ring[i]) = i
    BY <1>2, <1>4, <1>5 DEF RingOf
  <2>2. n + 1 # ring[i] + M
    BY <1>1, <1>5, <2>1, SlotRepeats
  <2> HIDE DEF M
  <2> QED BY <1>1, <2>1, <2>2
<1>6. n + 1 \in 1..(n + 1) /\ n + 1 < (n + 1) + M
  BY <1>1
<1>7. ASSUME NEW k \in 1..(n + 1), n + 1 < k + M PROVE Slot(k) \in 1..M /\ next[Slot(k)] = k
  <2>1. CASE k = n + 1
    BY <1>3, <1>4, <2>1
  <2>2. CASE k # n + 1
    <3>1. k \in 1..n /\ n < k + M /\ k < n + 1
      BY <1>1, <1>7, <2>2
    <3>2. Slot(k) # j
      BY <1>7, <3>1, SlotsApart
    <3>3. Slot(k) \in 1..Len(ring) /\ ring[Slot(k)] = k
      BY <3>1 DEF RingOf
    <3> QED BY <1>2, <1>4, <3>2, <3>3
  <2> QED BY <2>1, <2>2
<1>8. ~(n + 1 < M)
  BY <1>1
<1> HIDE DEF j, M
<1>9. \A i \in 1..M : next[i] \in 1..(n + 1) /\ n + 1 < next[i] + M /\ Slot(next[i]) = i
  BY <1>3, <1>4, <1>5, <1>6 DEF j
<1>10. RingOf(next, n + 1)
  BY <1>4, <1>7, <1>8, <1>9 DEF RingOf, M
<1> QED BY <1>10 DEF next

\* Every step keeps the ring.
LEMMA RingStep ==
    ASSUME StatsTypeOK, RingInv, [StatsNext]_statsVars PROVE RingInv'
<1>1. ASSUME NEW r \in Request, Quiet(r) PROVE RingInv'
  BY <1>1 DEF Quiet, RingInv
<1>2. ASSUME NEW r \in Request, Ending(r) PROVE RingInv'
  <2> DEFINE n == Len(samples)
             ring == latency.samples
  <2>1. n \in Nat /\ Len(samples') = n + 1
    BY <1>2 DEF Ending, RecordTerminal, StatsTypeOK
  <2>2. latency' = record(latency, n + 1) /\ latency.count = n /\ RingOf(ring, n)
    BY <1>2 DEF Ending, RecordTerminal, RingInv
  <2>3. MAX_LATENCY_SAMPLES \in Nat \ {0}
    BY StatsAssumption
  <2>4. latency'.count = n + 1
    BY <2>2 DEF record
  <2>5. Slot(n + 1) = 1 + (((n + 1) - 1) % MAX_LATENCY_SAMPLES)
    BY DEF Slot
  <2>6. latency'.samples = IF Len(ring) < MAX_LATENCY_SAMPLES THEN Append(ring, n + 1)
                           ELSE [ring EXCEPT ![Slot(n + 1)] = n + 1]
    BY <2>2, <2>5 DEF record
  <2>7. Len(ring) < MAX_LATENCY_SAMPLES <=> n < MAX_LATENCY_SAMPLES
    BY <2>1, <2>2, <2>3 DEF RingOf
  <2> HIDE DEF n, ring
  <2>8. RingOf(latency'.samples, n + 1)
    BY <2>1, <2>2, <2>3, <2>6, <2>7, RingFills, RingWraps
  <2> QED BY <2>1, <2>4, <2>8 DEF RingInv
<1>3. Reset => RingInv'
  <2> SUFFICES ASSUME Reset PROVE RingInv'
    OBVIOUS
  <2>1. latency'.count = 0 /\ latency'.samples = <<>> /\ samples' = <<>>
    BY DEF Reset, NoLatency
  <2> QED BY <2>1, StatsAssumption DEF RingInv, RingOf
<1>4. UNCHANGED statsVars => RingInv'
  BY DEF statsVars, RingInv
<1> QED BY <1>1, <1>2, <1>3, <1>4, QuietOrEnding DEF StatsNext

\* Such a ring holds the newest samples.
LEMMA RingIsNewest == ASSUME StatsTypeOK, RingInv PROVE RingHoldsNewest
<1> DEFINE n == Len(samples)
           M == MAX_LATENCY_SAMPLES
           ring == latency.samples
           newest == (IF n > M THEN n - M + 1 ELSE 1)..n
<1>1. M \in Nat \ {0} /\ n \in Nat
  BY StatsAssumption DEF StatsTypeOK
<1>2. latency.count = n /\ RingOf(ring, n)
  BY DEF RingInv
<1> HIDE DEF n, ring
<1>3. \A k : k \in newest <=> k \in 1..n /\ n < k + M
  BY <1>1
<1>4. Cardinality(newest) = IF n < M THEN n ELSE M
  BY <1>1, FS_Interval
<1>5. ToSet(ring) = newest
  <2>1. ToSet(ring) = {ring[i] : i \in 1..Len(ring)}
    BY <1>2 DEF ToSet, RingOf
  <2>2. \A i \in 1..Len(ring) : ring[i] \in newest
    BY <1>2, <1>3 DEF RingOf
  <2>3. \A k \in newest : \E i \in 1..Len(ring) : ring[i] = k
    <3> TAKE k \in newest
    <3>1. Slot(k) \in 1..Len(ring) /\ ring[Slot(k)] = k
      BY <1>2, <1>3 DEF RingOf
    <3> QED BY <3>1
  <2> HIDE DEF newest
  <2> QED BY <2>1, <2>2, <2>3
<1>6. Len(ring) = Cardinality(newest)
  BY <1>2, <1>4 DEF RingOf
<1> QED BY <1>2, <1>5, <1>6 DEF RingHoldsNewest, n, ring

-----------------------------------------------------------------------------
(* What holds at every step.                                               *)
StatsInv == /\ StatsTypeOK /\ RecordedAtEnd /\ TokensCountedOnce
            /\ SessionAccounted /\ IsLog(log) /\ RingInv

\* The server starts with nothing counted.
LEMMA StatsInvInit == StatsInit => StatsInv
<1> SUFFICES ASSUME StatsInit PROVE StatsInv
  OBVIOUS
<1>1. StatsTypeOK
  BY StatsTypeInit
<1>2. RecordedAtEnd
  <2>1. epoch = 1 /\ \A r \in Request : ended[r] = 0
    BY DEF StatsInit
  <2>2. ASSUME NEW r \in Request PROVE ended[r] =< epoch /\ ~(ended[r] > 0)
    <3>1. ended[r] = 0
      BY <2>1
    <3>2. 0 =< 1 /\ ~(0 > 0)
      OBVIOUS
    <3> QED BY <2>1, <3>1, <3>2
  <2> QED BY <2>2 DEF RecordedAtEnd
<1>3. TokensCountedOnce
  <2>1. {r \in Request : ended[r] = epoch} = {}
    BY DEF StatsInit
  <2>2. \A f : Sum(f, {}) = 0 /\ Cardinality({}) = 0
    BY SumUnfolds, FS_EmptySet DEF Sum
  <2>3. stats.tokens = 0 /\ latency.count = 0
    BY DEF StatsInit, NoStats, NoLatency
  <2> QED BY <2>1, <2>2, <2>3 DEF TokensCountedOnce
<1>4. IsLog(log) /\ DOMAIN log = {}
  BY FS_EmptySet DEF StatsInit, EmptyBag, SetToBag, IsLog
<1>5. SessionAccounted
  <2>1. ASSUME NEW s \in Session
        PROVE  Uses(log, s) = Sum(Answers, Own(s)) + JudgeTokens * Sum(judged, Own(s))
    <3>1. IsFiniteSet(Own(s)) /\ IsFiniteSet({}) /\ Own(s) \subseteq Request
      BY SomeRequests, FS_EmptySet DEF Own
    <3>2. Uses(log, s) = 0
      <4>1. {line \in DOMAIN log : line.session = s} = {}
        BY <1>4
      <4> QED BY <3>1, <4>1, SumUnfolds DEF Uses
    <3>3. \A r \in Own(s) : Answers[r] = 0 /\ judged[r] = 0
      BY <3>1 DEF StatsInit, Answers
    <3>4. Sum(Answers, Own(s)) = 0 /\ Sum(judged, Own(s)) = 0
      BY <3>1, <3>3, SumOfZeros DEF Sum
    <3> QED BY <3>2, <3>4, StatsAssumption
  <2> QED BY <2>1, AccountIs
<1>6. RingInv
  <2>1. latency.count = 0 /\ latency.samples = <<>> /\ samples = <<>>
    BY DEF StatsInit, NoLatency
  <2> QED BY <2>1, StatsAssumption DEF RingInv, RingOf
<1> QED BY <1>1, <1>2, <1>3, <1>4, <1>5, <1>6 DEF StatsInv

\* Counters, routing log and latency ring agree on what the requests used, whatever resets
\* and hang-ups come between, for any number of requests, sessions, calls and resets and
\* any ring (stats/accumulator.rs, usage_metrics.rs, routing_log.rs).
THEOREM StatsAreSound == StatsSpec => []StatsSound
<1>1. StatsInv /\ [StatsNext]_statsVars => StatsInv'
  BY StatsTypeStep, RecordedStep, CountedStep, AccountedStep, RingStep DEF StatsInv
<1>2. StatsInv => StatsSound
  BY RingIsNewest DEF StatsInv, StatsSound
<1> QED BY <1>1, <1>2, StatsInvInit, PTL DEF StatsSpec

-----------------------------------------------------------------------------
(***************************************************************************)
(* The desktop application, for any number of starting threads and engine  *)
(* processes and any number of saves.                                      *)
(***************************************************************************)
AppType ==
    [child : Engine \cup {NoEngine}, foreign : BOOLEAN,
     process : [Engine -> {"unborn", "booting", "serving", "gone"}]]

\* The shapes of the application's state; a starter remembers a version that was written.
DesktopTypeOK ==
    /\ app \in AppType
    /\ written \in 0 .. MaxSaves
    /\ env \in [Starter -> {NoEngine} \cup 0 .. MaxSaves]
    /\ boot \in [Engine -> (0 .. MaxSaves) \X (0 .. MaxSaves)]
    /\ exit \in {"running", "stopped"}
    /\ overtaken \subseteq Starter
    /\ stale \subseteq Engine /\ abandoned \subseteq Engine /\ spared \subseteq Engine
    /\ unsynced \in BOOLEAN

-----------------------------------------------------------------------------
(* The locked parts: what each may do to the engine processes. *)

\* The manager holds every engine that lives and is not among the lost ones.
Sole(a, lost) == \A e \in Engine : Live(a, e) => e \in lost \/ a.child = e

\* No process of b does what it does not do in a.
NoNewLife(a, b) == \A e \in Engine : Live(b, e) => b.process[e] = a.process[e]

\* Nothing moves from a process that did not live before, and a serving one served before.
LEMMA LiveBefore ==
    ASSUME NEW a, NEW b, NoNewLife(a, b), NEW e \in Engine, Live(b, e)
    PROVE  Live(a, e) /\ b.process[e] = a.process[e]
BY DEF NoNewLife, Live

\* Freeing the port ends processes and starts none.
LEMMA FreeEnds ==
    ASSUME NEW a \in AppType
    PROVE  /\ free_listen_port(a) \in AppType
           /\ free_listen_port(a).child = a.child
           /\ NoNewLife(a, free_listen_port(a))
BY DEF free_listen_port, NoNewLife, Live, AppType

\* stop leaves no child, or the child as it was when the system refuses the kill.
LEMMA StopEnds ==
    ASSUME NEW a \in AppType, NEW end \in stop(a)
    PROVE  /\ end.app \in AppType /\ NoNewLife(a, end.app)
           /\ end.how \in {"ok", "refused"}
           /\ end.how = "ok" =>
                /\ end.app.child = NoEngine
                /\ \A e \in Engine : Live(end.app, e) => a.child # e
           /\ end.how = "refused" => end.app.child = a.child /\ a.child \in Engine
<1>1. CASE a.child = NoEngine
  BY <1>1, DesktopAssumption DEF stop, Ended, NoNewLife, AppType
<1>2. CASE a.child # NoEngine
  <2>1. PICK b :
          /\ \/ /\ end.how = "ok"
                /\ b = [a EXCEPT !.child = NoEngine, !.process[a.child] = "gone"]
             \/ end.how = "refused" /\ b = a
          /\ end.app = b
    BY <1>2 DEF stop, Ended
  <2>2. CASE end.how = "ok"
    <3>1. b = [child |-> NoEngine, foreign |-> a.foreign,
               process |-> [a.process EXCEPT ![a.child] = "gone"]]
      BY <2>1, <2>2 DEF AppType
    <3>2. a.child \in Engine
      BY <1>2 DEF AppType
    <3> QED BY <2>1, <2>2, <3>1, <3>2 DEF AppType, NoNewLife, Live
  <2>3. CASE end.how = "refused"
    BY <1>2, <2>1, <2>3 DEF AppType, NoNewLife, Live
  <2> QED BY <2>1, <2>2, <2>3
<1> QED BY <1>1, <1>2

\* prepare_start finds a live child and leaves it, or has none.
LEMMA PrepareEnds ==
    ASSUME NEW a \in AppType, NEW end \in prepare_start(a)
    PROVE  /\ end.app \in AppType /\ NoNewLife(a, end.app)
           /\ end.how \in {"finished", "error", "spawn"}
           /\ end.how = "finished" => end.app.child = a.child /\ child_is_live(a)
           /\ end.how # "finished" => end.app.child = NoEngine /\ ~child_is_live(a)
<1>1. CASE child_is_live(a)
  <2>1. end.how = "finished" /\ end.app = a
    BY <1>1 DEF prepare_start, Ended
  <2> QED BY <1>1, <2>1 DEF AppType, NoNewLife, Live
<1>2. CASE ~child_is_live(a)
  <2> DEFINE known == [a EXCEPT !.child = NoEngine]
             ready == free_listen_port(known)
  <2>1. known \in AppType /\ known.child = NoEngine /\ known.process = a.process
    BY DEF AppType
  <2>2. Forgotten(a) = known
    BY <1>2 DEF Forgotten
  <2>3. ready \in AppType /\ ready.child = NoEngine /\ NoNewLife(known, ready)
    BY <2>1, FreeEnds
  <2>4. \/ end = Ended("error", ready)
        \/ end = Ended("spawn", ready)
    BY <1>2, <2>2 DEF prepare_start
  <2> HIDE DEF known, ready
  <2>5. end.app \in AppType /\ end.app.child = NoEngine /\ end.app.process = ready.process
    BY <2>3, <2>4 DEF Ended, AppType
  <2>6. end.how \in {"error", "spawn"}
    BY <2>4 DEF Ended
  <2>7. NoNewLife(a, end.app)
    BY <2>1, <2>3, <2>5 DEF NoNewLife, Live
  <2> QED BY <1>2, <2>5, <2>6, <2>7
<1> QED BY <1>1, <1>2

\* spawn_locked starts one engine, which becomes the child, or leaves no child or the same.
LEMMA SpawnEnds ==
    ASSUME NEW a \in AppType, NEW end \in spawn_locked(a)
    PROVE  /\ end.app \in AppType
           /\ end.how \in {"error", "spawned"}
           /\ end.how = "error" =>
                end.app.child \in {NoEngine, a.child} /\ NoNewLife(a, end.app)
           /\ end.how = "spawned" =>
                /\ end.app.child \in Engine
                /\ a.process[end.app.child] = "unborn"
                /\ end.app.process[end.app.child] = "booting"
                /\ \A e \in Engine : e # end.app.child /\ Live(end.app, e) =>
                     end.app.process[e] = a.process[e]
<1> DEFINE ready == free_listen_port(a)
<1>1. ready \in AppType /\ NoNewLife(a, ready) /\ ready.child = a.child
  BY FreeEnds
<1>2. \/ end \in {Ended("error", ready), Ended("error", mark_failed(ready))}
      \/ \E e \in Unborn(a) : end = Ended("spawned", attach_running(ready, e))
  BY DEF spawn_locked
<1> HIDE DEF ready
<1>3. CASE end \in {Ended("error", ready), Ended("error", mark_failed(ready))}
  <2>1. /\ end.how = "error"
        /\ \/ end.app = ready
           \/ end.app = [ready EXCEPT !.child = NoEngine]
    BY <1>3 DEF Ended, mark_failed
  <2> QED BY <1>1, <2>1 DEF AppType, NoNewLife, Live
<1>4. ASSUME NEW n \in Unborn(a), end = Ended("spawned", attach_running(ready, n))
      PROVE  /\ end.app \in AppType /\ end.how = "spawned"
             /\ end.app.child \in Engine
             /\ a.process[end.app.child] = "unborn"
             /\ end.app.process[end.app.child] = "booting"
             /\ \A e \in Engine : e # end.app.child /\ Live(end.app, e) =>
                  end.app.process[e] = a.process[e]
  <2>1. n \in Engine /\ a.process[n] = "unborn"
    BY DEF Unborn
  <2>2. end.how = "spawned"
        /\ end.app = [child |-> n, foreign |-> ready.foreign,
                      process |-> [ready.process EXCEPT ![n] = "booting"]]
    BY <1>1, <1>4 DEF Ended, attach_running, AppType
  <2> QED BY <1>1, <2>1, <2>2 DEF AppType, NoNewLife, Live
<1> QED BY <1>2, <1>3, <1>4

\* A restart stops the child before it starts another, whatever it ends with.
LEMMA RestartEnds ==
    ASSUME NEW a \in AppType, NEW dry_run \in BOOLEAN,
           NEW end \in restart_locked_with_dry_run(a, dry_run), NEW lost
    PROVE  /\ end.app \in AppType
           /\ end.how \in {"error", "refused", "spawned"}
           /\ end.how # "spawned" => NoNewLife(a, end.app)
           /\ end.how = "error" => end.app.child = NoEngine
           /\ end.how \in {"refused", "spawned"} => end.app.child \in Engine
           /\ end.how = "spawned" => end.app.process[end.app.child] = "booting"
           /\ Sole(a, lost) => Sole(end.app, lost)
<1>1. PICK s \in stop(a) :
        IF s.how = "ok" THEN end \in start_locked_with_dry_run(s.app, dry_run) ELSE end = s
  BY DEF restart_locked_with_dry_run
<1>2. /\ s.app \in AppType /\ NoNewLife(a, s.app) /\ s.how \in {"ok", "refused"}
      /\ s.how = "ok" => /\ s.app.child = NoEngine
                         /\ \A e \in Engine : Live(s.app, e) => a.child # e
      /\ s.how = "refused" => s.app.child = a.child /\ a.child \in Engine
  BY StopEnds
<1>3. CASE s.how = "refused"
  <2>1. end = s
    BY <1>1, <1>3
  <2> QED BY <1>2, <1>3, <2>1, LiveBefore DEF Sole
<1>4. CASE s.how = "ok"
  <2>1. Sole(a, lost) => \A e \in Engine : Live(s.app, e) => e \in lost
    BY <1>2, <1>4, LiveBefore DEF Sole
  <2>2. ~child_is_live(s.app)
    BY <1>2, <1>4 DEF child_is_live
  <2>3. PICK p \in prepare_start(s.app) :
          IF p.how # "spawn" THEN end = p
          ELSE end \in spawn_locked(p.app) \/ end = Ended("error", mark_failed(p.app))
    BY <1>1, <1>4 DEF start_locked_with_dry_run
  <2>4. /\ p.app \in AppType /\ NoNewLife(s.app, p.app) /\ p.app.child = NoEngine
        /\ p.how \in {"error", "spawn"}
    BY <1>2, <2>2, PrepareEnds
  <2>5. NoNewLife(a, p.app)
    BY <1>2, <2>4 DEF NoNewLife, Live
  <2>6. Sole(a, lost) => \A e \in Engine : Live(p.app, e) => e \in lost
    BY <2>1, <2>4, LiveBefore
  <2>7. CASE p.how = "error"
    <3>1. end = p
      BY <2>3, <2>7
    <3> QED BY <2>4, <2>5, <2>6, <2>7, <3>1 DEF Sole
  <2>8. CASE p.how = "spawn" /\ end = Ended("error", mark_failed(p.app))
    <3>1. end.how = "error" /\ end.app = [p.app EXCEPT !.child = NoEngine]
      BY <2>8 DEF Ended, mark_failed
    <3>2. end.app \in AppType /\ end.app.child = NoEngine /\ end.app.process = p.app.process
      BY <2>4, <3>1 DEF AppType
    <3> QED BY <2>5, <2>6, <3>1, <3>2 DEF Sole, NoNewLife, Live
  <2>9. CASE p.how = "spawn" /\ end \in spawn_locked(p.app)
    <3>1. /\ end.app \in AppType
          /\ end.how \in {"error", "spawned"}
          /\ end.how = "error" => end.app.child = NoEngine /\ NoNewLife(p.app, end.app)
          /\ end.how = "spawned" =>
               /\ end.app.child \in Engine
               /\ end.app.process[end.app.child] = "booting"
               /\ \A e \in Engine : e # end.app.child /\ Live(end.app, e) =>
                    end.app.process[e] = p.app.process[e]
      BY <2>4, <2>9, SpawnEnds
    <3>2. end.how = "error" => NoNewLife(a, end.app)
      BY <2>5, <3>1 DEF NoNewLife, Live
    <3>3. Sole(a, lost) => \A e \in Engine :
             (e # end.app.child \/ end.how = "error") /\ Live(end.app, e) => e \in lost
      BY <2>6, <3>1 DEF NoNewLife, Live
    <3> QED BY <3>1, <3>2, <3>3 DEF Sole
  <2> QED BY <2>3, <2>4, <2>7, <2>8, <2>9
<1> QED BY <1>2, <1>3, <1>4

-----------------------------------------------------------------------------
(* The inductive invariant, engine by engine. *)

SoleInv == Sole(app, abandoned)

\* A start that nothing overtook comes back to the manager and the files it left.
StartInv ==
    \A s \in Starter : env[s] # NoEngine /\ s \notin overtaken =>
        app.child = NoEngine /\ env[s] = written

\* After the last stop the child, while it lives, is one that stop had to spare.
QuitInv ==
    exit = "stopped" =>
        \A e \in Engine : Live(app, e) /\ app.child = e => e \in spared

\* An engine that lives was spawned for the files last written, and has read them.
BootInv ==
    \A e \in Engine : Live(app, e) =>
        \/ unsynced
        \/ e \in stale \cup abandoned
        \/ /\ boot[e][1] = written
           /\ app.process[e] = "serving" => boot[e][2] = written

DesktopInv == DesktopTypeOK /\ SoleInv /\ StartInv /\ QuitInv /\ BootInv

\* Leaves records what an engine was spawned for and whether the last stop spared it.
LEMMA LeavesBoot ==
    ASSUME DesktopTypeOK, NEW end, end.app \in AppType, NEW for \in 0 .. MaxSaves,
           end.how \in {"spawned", "refused"} => end.app.child \in Engine, Leaves(end, for)
    PROVE  /\ app' = end.app /\ app' \in AppType
           /\ boot' \in [Engine -> (0 .. MaxSaves) \X (0 .. MaxSaves)]
           /\ spared' \subseteq Engine /\ spared \subseteq spared'
           /\ end.how = "refused" \/ (end.how = "spawned" /\ exit = "stopped") =>
                end.app.child \in spared'
           /\ \A e \in Engine :
                boot'[e] = IF end.how = "spawned" /\ e = end.app.child
                           THEN <<for, boot[e][2]>> ELSE boot[e]
<1>1. /\ app' = end.app
      /\ spared' = IF end.how = "refused" \/ (end.how = "spawned" /\ exit = "stopped")
                   THEN spared \cup {end.app.child} ELSE spared
      /\ end.how = "spawned" => boot' = [boot EXCEPT ![end.app.child] = <<for, @[2]>>]
      /\ end.how # "spawned" => boot' = boot
  BY DEF Leaves
<1>2. boot \in [Engine -> (0 .. MaxSaves) \X (0 .. MaxSaves)] /\ spared \subseteq Engine
  BY DEF DesktopTypeOK
<1>3. \A e \in Engine : boot[e][2] \in 0 .. MaxSaves
  BY <1>2
<1>4. /\ spared' \subseteq Engine /\ spared \subseteq spared'
      /\ end.how = "refused" \/ (end.how = "spawned" /\ exit = "stopped") =>
           end.app.child \in spared'
  BY <1>1, <1>2
<1>5. CASE end.how = "spawned"
  <2>1. end.app.child \in Engine
    BY <1>5
  <2>2. boot' = [boot EXCEPT ![end.app.child] = <<for, boot[end.app.child][2]>>]
    BY <1>1, <1>2, <1>5, <2>1
  <2> QED BY <1>1, <1>2, <1>3, <1>4, <1>5, <2>1, <2>2
<1> QED BY <1>1, <1>2, <1>4, <1>5

\* Whoever takes the lock overtakes every start but its own.
LEMMA LockOvertakes ==
    ASSUME DesktopTypeOK, NEW who \in SUBSET Starter, TakeLock(who),
           \A s \in Starter : s \notin who => env'[s] = env[s]
    PROVE  /\ overtaken' \subseteq Starter
           /\ \A s \in Starter : env'[s] # NoEngine /\ s \notin overtaken' => s \in who
BY DEF TakeLock, InDryRun, DesktopTypeOK

\* What Prepare, a start up to its dry run, keeps.
LEMMA PrepareStep ==
    ASSUME DesktopInv, NEW s \in Starter, Prepare(s) PROVE DesktopInv'
<1> USE DEF DesktopInv
<1>1. PICK end \in prepare_start(app) :
        /\ Leaves(end, written)
        /\ env' = [env EXCEPT ![s] = IF end.how = "spawn" THEN written ELSE NoEngine]
  BY DEF Prepare
<1>2. TakeLock({s}) /\ UNCHANGED <<written, exit, stale, abandoned, unsynced>>
  BY DEF Prepare
<1>3. /\ app \in AppType /\ written \in 0 .. MaxSaves
      /\ env \in [Starter -> {NoEngine} \cup 0 .. MaxSaves]
  BY DEF DesktopTypeOK
<1>4. /\ end.app \in AppType /\ NoNewLife(app, end.app)
      /\ end.how \in {"finished", "error", "spawn"}
      /\ end.how = "finished" => end.app.child = app.child /\ child_is_live(app)
      /\ end.how # "finished" => end.app.child = NoEngine /\ ~child_is_live(app)
  BY <1>3, PrepareEnds
<1>5. /\ app' = end.app /\ app' \in AppType
      /\ boot' \in [Engine -> (0 .. MaxSaves) \X (0 .. MaxSaves)]
      /\ spared' \subseteq Engine /\ spared \subseteq spared'
      /\ \A e \in Engine : boot'[e] = boot[e]
  BY <1>1, <1>3, <1>4, LeavesBoot
<1>6. /\ overtaken' \subseteq Starter
      /\ \A q \in Starter : env'[q] # NoEngine /\ q \notin overtaken' => q = s
  BY <1>1, <1>2, <1>3, LockOvertakes
<1>7. env' \in [Starter -> {NoEngine} \cup 0 .. MaxSaves]
  BY <1>1, <1>3
<1>8. DesktopTypeOK'
  BY <1>2, <1>5, <1>6, <1>7 DEF DesktopTypeOK
<1>9. \A e \in Engine : Live(app', e) =>
        /\ Live(app, e) /\ app'.process[e] = app.process[e]
        /\ app.child = e => app'.child = e
  <2> SUFFICES ASSUME NEW e \in Engine, Live(app', e)
               PROVE  /\ Live(app, e) /\ app'.process[e] = app.process[e]
                      /\ app.child = e => app'.child = e
    OBVIOUS
  <2>1. Live(app, e) /\ app'.process[e] = app.process[e]
    BY <1>4, <1>5, LiveBefore
  <2>2. app.child = e => child_is_live(app)
    BY <2>1, DesktopAssumption DEF child_is_live
  <2> QED BY <1>4, <1>5, <2>1, <2>2
<1>10. SoleInv'
  BY <1>2, <1>9 DEF SoleInv, Sole
<1>11. StartInv'
  <2>1. env'[s] # NoEngine => end.how = "spawn" /\ env'[s] = written
    BY <1>1, <1>3
  <2> QED BY <1>2, <1>4, <1>5, <1>6, <2>1 DEF StartInv
<1>12. QuitInv'
  <2>1. app'.child \in {app.child, NoEngine}
    BY <1>4, <1>5
  <2> QED BY <1>2, <1>5, <1>9, <2>1, DesktopAssumption DEF QuitInv
<1>13. BootInv'
  BY <1>2, <1>5, <1>9 DEF BootInv
<1> QED BY <1>8, <1>10, <1>11, <1>12, <1>13

\* A start that comes back from its dry run with no child, or after it was overtaken.
LEMMA SpawnStep ==
    ASSUME DesktopInv, NEW s \in Starter, DryRunFails(s) \/ Spawn(s) PROVE DesktopInv'
<1> USE DEF DesktopInv
<1>1. /\ env[s] # NoEngine
      /\ env' = [env EXCEPT ![s] = NoEngine]
      /\ TakeLock({s})
      /\ UNCHANGED <<written, exit>>
  BY DEF DryRunFails, Spawn
<1>2. /\ app \in AppType /\ written \in 0 .. MaxSaves
      /\ env \in [Starter -> {NoEngine} \cup 0 .. MaxSaves]
      /\ exit \in {"running", "stopped"}
      /\ stale \subseteq Engine /\ abandoned \subseteq Engine /\ spared \subseteq Engine
      /\ unsynced \in BOOLEAN
      /\ boot \in [Engine -> (0 .. MaxSaves) \X (0 .. MaxSaves)]
  BY DEF DesktopTypeOK
<1>3. /\ \A e \in Engine : /\ e \in abandoned' <=> \/ e \in abandoned
                                                  \/ /\ s \in overtaken /\ app.child = e
                                                     /\ Live(app', e) /\ app'.child # e
                           /\ e \in stale' <=> \/ e \in stale
                                               \/ /\ s \in overtaken /\ Live(app', e)
                                                  /\ app.process[e] = "unborn"
      /\ abandoned' \subseteq Engine /\ stale' \subseteq Engine
  BY <1>2 DEF DryRunFails, Spawn, Overtakes
<1>4. s \notin overtaken => app.child = NoEngine /\ env[s] = written
  BY <1>1 DEF StartInv
<1>5. /\ overtaken' \subseteq Starter
      /\ \A q \in Starter : env'[q] # NoEngine /\ q \notin overtaken' => q = s
  BY <1>1, <1>2, LockOvertakes
<1>6. env' \in [Starter -> {NoEngine} \cup 0 .. MaxSaves] /\ env'[s] = NoEngine
  BY <1>1, <1>2
<1>7. StartInv'
  BY <1>5, <1>6 DEF StartInv
\* An engine that lived before and is not the child any more is an abandoned one.
<1>8. ASSUME NEW e \in Engine, Live(app, e), Live(app', e), app'.child # e
      PROVE  e \in abandoned'
  <2>1. e \in abandoned \/ app.child = e
    BY <1>8 DEF SoleInv, Sole
  <2>2. app.child = e => s \in overtaken
    BY <1>4, DesktopAssumption
  <2> QED BY <1>3, <1>8, <2>1, <2>2
<1>9. CASE DryRunFails(s)
  <2>1. app' = mark_failed(app) /\ UNCHANGED <<boot, spared, unsynced>>
    BY <1>9 DEF DryRunFails
  <2>2. app' \in AppType /\ app'.child = NoEngine /\ app'.process = app.process
    BY <1>2, <2>1 DEF mark_failed, AppType
  <2>3. DesktopTypeOK'
    BY <1>1, <1>2, <1>3, <1>5, <1>6, <2>1, <2>2 DEF DesktopTypeOK
  <2>4. \A e \in Engine : Live(app', e) => Live(app, e) /\ app'.child # e
    BY <2>2, DesktopAssumption DEF Live
  <2>5. SoleInv' /\ QuitInv'
    BY <1>8, <2>4 DEF SoleInv, Sole, QuitInv
  <2>6. BootInv'
    BY <1>8, <2>4 DEF BootInv
  <2> QED BY <1>7, <2>3, <2>5, <2>6
<1>10. CASE Spawn(s)
  <2>1. PICK end \in spawn_locked(app) :
          /\ Leaves(end, env[s])
          /\ unsynced' = (unsynced /\ (end.how # "spawned" \/ s \in overtaken))
    BY <1>10 DEF Spawn
  <2>2. /\ end.app \in AppType
        /\ end.how \in {"error", "spawned"}
        /\ end.how = "error" =>
             end.app.child \in {NoEngine, app.child} /\ NoNewLife(app, end.app)
        /\ end.how = "spawned" =>
             /\ end.app.child \in Engine
             /\ app.process[end.app.child] = "unborn"
             /\ end.app.process[end.app.child] = "booting"
             /\ \A e \in Engine : e # end.app.child /\ Live(end.app, e) =>
                  end.app.process[e] = app.process[e]
    BY <1>2, SpawnEnds
  <2>3. env[s] \in 0 .. MaxSaves
    BY <1>1, <1>2
  <2>4. /\ app' = end.app /\ app' \in AppType
        /\ boot' \in [Engine -> (0 .. MaxSaves) \X (0 .. MaxSaves)]
        /\ spared' \subseteq Engine /\ spared \subseteq spared'
        /\ end.how = "spawned" /\ exit = "stopped" => end.app.child \in spared'
        /\ \A e \in Engine :
             boot'[e] = IF end.how = "spawned" /\ e = end.app.child
                        THEN <<env[s], boot[e][2]>> ELSE boot[e]
    BY <2>1, <2>2, <2>3, LeavesBoot
  <2>5. unsynced' \in BOOLEAN
    BY <1>2, <2>1
  <2>6. DesktopTypeOK'
    BY <1>1, <1>2, <1>3, <1>5, <1>6, <2>4, <2>5 DEF DesktopTypeOK
  \* The new engine, or one that lived before and is the child or abandoned.
  <2>7. ASSUME NEW e \in Engine, Live(app', e)
        PROVE  \/ end.how = "spawned" /\ e = app'.child /\ app.process[e] = "unborn"
               \/ /\ Live(app, e) /\ app'.process[e] = app.process[e] /\ boot'[e] = boot[e]
                  /\ app'.child = e => end.how = "error" /\ app.child = e
                  /\ app'.child # e => e \in abandoned'
    <3>1. CASE end.how = "spawned" /\ e = end.app.child
      BY <2>2, <2>4, <3>1
    <3>2. CASE end.how = "spawned" /\ e # end.app.child
      <4>1. Live(app, e) /\ app'.process[e] = app.process[e] /\ boot'[e] = boot[e]
        BY <2>2, <2>4, <2>7, <3>2 DEF Live
      <4> QED BY <1>8, <2>4, <2>7, <3>2, <4>1
    <3>3. CASE end.how = "error"
      <4>1. Live(app, e) /\ app'.process[e] = app.process[e] /\ boot'[e] = boot[e]
        BY <2>2, <2>4, <2>7, <3>3, LiveBefore
      <4>2. app'.child = e => app.child = e
        BY <2>2, <2>4, <3>3, DesktopAssumption
      <4> QED BY <1>8, <2>7, <3>3, <4>1, <4>2
    <3> QED BY <2>2, <3>1, <3>2, <3>3
  <2>8. SoleInv'
    BY <2>7 DEF SoleInv, Sole
  <2>9. QuitInv'
    BY <1>1, <1>2, <2>4, <2>7 DEF QuitInv
  <2>10. BootInv'
    <3> SUFFICES ASSUME NEW e \in Engine, Live(app', e), ~unsynced', e \notin stale' \cup abandoned'
                 PROVE  /\ boot'[e][1] = written
                        /\ app'.process[e] = "serving" => boot'[e][2] = written
      BY <1>1 DEF BootInv
    <3>1. CASE end.how = "spawned" /\ e = app'.child /\ app.process[e] = "unborn"
      <4>1. s \notin overtaken
        BY <1>3, <3>1
      <4>2. boot'[e] = <<written, boot[e][2]>> /\ app'.process[e] = "booting"
        BY <1>4, <2>2, <2>4, <3>1, <4>1
      <4> QED BY <4>2
    <3>2. CASE /\ Live(app, e) /\ app'.process[e] = app.process[e] /\ boot'[e] = boot[e]
               /\ app'.child = e => end.how = "error" /\ app.child = e
               /\ app'.child # e => e \in abandoned'
      <4>1. end.how = "error"
        BY <3>2
      <4>2. ~unsynced /\ e \notin stale \cup abandoned
        BY <1>2, <1>3, <2>1, <4>1
      <4> QED BY <3>2, <4>2 DEF BootInv
    <3> QED BY <2>7, <3>1, <3>2
  <2> QED BY <1>7, <2>6, <2>8, <2>9, <2>10
<1> QED BY <1>9, <1>10

\* A command under the lock that ends in Leaves, saves version n and leaves the manager
\* with no engine but its child, keeps the invariant.
LEMMA CommandStep ==
    ASSUME DesktopInv, NEW end, NEW n \in 0 .. MaxSaves, n >= written,
           end.app \in AppType, end.how \in {"spawned", "refused"} => end.app.child \in Engine,
           Leaves(end, n), TakeLock({}), written' = n, UNCHANGED <<env, stale, abandoned>>,
           exit' \in {"running", "stopped"}, unsynced' \in BOOLEAN,
           Sole(end.app, abandoned),
           end.how \notin {"spawned", "refused"} => end.app.child = NoEngine,
           end.how = "spawned" => /\ end.app.process[end.app.child] = "booting"
                                  /\ exit' = exit,
           ~unsynced' /\ end.how # "spawned" =>
               ~unsynced /\ n = written /\ NoNewLife(app, end.app)
    PROVE  DesktopInv'
<1> USE DEF DesktopInv
<1>1. /\ app' = end.app /\ app' \in AppType
      /\ boot' \in [Engine -> (0 .. MaxSaves) \X (0 .. MaxSaves)]
      /\ spared' \subseteq Engine /\ spared \subseteq spared'
      /\ end.how = "refused" \/ (end.how = "spawned" /\ exit = "stopped") =>
           end.app.child \in spared'
      /\ \A e \in Engine :
           boot'[e] = IF end.how = "spawned" /\ e = end.app.child
                      THEN <<n, boot[e][2]>> ELSE boot[e]
  BY LeavesBoot
<1>2. /\ overtaken' \subseteq Starter
      /\ \A q \in Starter : env'[q] # NoEngine /\ q \notin overtaken' => q \in {}
  BY LockOvertakes
<1>3. DesktopTypeOK'
  BY <1>1, <1>2 DEF DesktopTypeOK
<1>4. SoleInv'
  BY <1>1 DEF SoleInv, Sole
<1>5. StartInv'
  BY <1>2 DEF StartInv
<1>6. QuitInv'
  BY <1>1, DesktopAssumption DEF QuitInv
<1>7. BootInv'
  <2> SUFFICES ASSUME NEW e \in Engine, Live(app', e), ~unsynced', e \notin stale \cup abandoned
               PROVE  boot'[e][1] = n /\ (app'.process[e] = "serving" => boot'[e][2] = n)
    BY DEF BootInv
  <2>1. CASE end.how = "spawned"
    <3>1. e = end.app.child
      BY <1>1 DEF Sole
    <3>2. boot'[e] = <<n, boot[e][2]>> /\ app'.process[e] = "booting"
      BY <1>1, <2>1, <3>1
    <3> QED BY <3>2
  <2>2. CASE end.how # "spawned"
    <3>1. Live(app, e) /\ app'.process[e] = app.process[e]
      BY <1>1, <2>2, LiveBefore
    <3> QED BY <1>1, <2>2, <3>1 DEF BootInv
  <2> QED BY <2>1, <2>2
<1> QED BY <1>3, <1>4, <1>5, <1>6, <1>7

\* Stopping leaves no engine behind, unless the system refuses.
LEMMA StopSole ==
    ASSUME NEW a \in AppType, NEW lost, Sole(a, lost), NEW end \in stop(a)
    PROVE  Sole(end.app, lost)
<1>1. /\ NoNewLife(a, end.app) /\ end.how \in {"ok", "refused"}
      /\ end.how = "ok" => \A e \in Engine : Live(end.app, e) => a.child # e
      /\ end.how = "refused" => end.app.child = a.child
  BY StopEnds
<1> QED BY <1>1, LiveBefore DEF Sole

\* Every step of the application keeps the invariant.
LEMMA DesktopStep ==
    ASSUME DesktopInv, [DesktopNext]_desktopVars PROVE DesktopInv'
<1> USE DEF DesktopInv
<1>1. /\ app \in AppType /\ written \in 0 .. MaxSaves /\ unsynced \in BOOLEAN
      /\ exit \in {"running", "stopped"} /\ MaxSaves \in Nat
  BY DesktopAssumption DEF DesktopTypeOK
<1>2. ASSUME NEW s \in Starter, Prepare(s) \/ DryRunFails(s) \/ Spawn(s) PROVE DesktopInv'
  BY <1>2, PrepareStep, SpawnStep
\* What a stop of the application's engine ends in
<1>3. ASSUME NEW end \in stop(app)
      PROVE  /\ end.app \in AppType /\ NoNewLife(app, end.app) /\ end.how \in {"ok", "refused"}
             /\ end.how = "ok" => end.app.child = NoEngine
             /\ end.how = "refused" => end.app.child \in Engine
             /\ Sole(end.app, abandoned)
  <2>1. Sole(end.app, abandoned)
    BY <1>1, StopSole DEF SoleInv
  <2> QED BY <1>1, <2>1, StopEnds
\* and a restart
<1>4. ASSUME NEW dry_run \in BOOLEAN, NEW end \in restart_locked_with_dry_run(app, dry_run)
      PROVE  /\ end.app \in AppType /\ end.how \in {"error", "refused", "spawned"}
             /\ end.how # "spawned" => NoNewLife(app, end.app)
             /\ end.how = "error" => end.app.child = NoEngine
             /\ end.how \in {"refused", "spawned"} => end.app.child \in Engine
             /\ end.how = "spawned" => end.app.process[end.app.child] = "booting"
             /\ Sole(end.app, abandoned)
  BY <1>1, RestartEnds DEF SoleInv
<1>5. CASE StopEngine
  <2>1. PICK end \in stop(app) : Leaves(end, written)
    BY <1>5 DEF StopEngine
  <2>2. /\ TakeLock({})
        /\ UNCHANGED <<env, written, exit, stale, abandoned, unsynced>>
    BY <1>5 DEF StopEngine
  <2> QED BY <1>1, <1>3, <2>1, <2>2, CommandStep
<1>6. CASE Restart
  <2>1. PICK end \in restart_locked_with_dry_run(app, TRUE) :
          Leaves(end, written) /\ unsynced' = (unsynced /\ end.how # "spawned")
    BY <1>6 DEF Restart
  <2>2. /\ TakeLock({})
        /\ UNCHANGED <<env, written, exit, stale, abandoned>>
    BY <1>6 DEF Restart
  <2>3. unsynced' \in BOOLEAN /\ (~unsynced' /\ end.how # "spawned" => ~unsynced)
    BY <1>1, <2>1
  <2>4. /\ end.app \in AppType
        /\ end.how # "spawned" => NoNewLife(app, end.app)
        /\ end.how \notin {"spawned", "refused"} => end.app.child = NoEngine
        /\ end.how \in {"spawned", "refused"} => end.app.child \in Engine
        /\ end.how = "spawned" => end.app.process[end.app.child] = "booting"
        /\ Sole(end.app, abandoned)
    BY <1>4, <2>1
  <2> QED BY <1>1, <2>1, <2>2, <2>3, <2>4, CommandStep
<1>7. ASSUME NEW dry_run \in BOOLEAN, Save(dry_run) PROVE DesktopInv'
  <2>1. PICK end \in restart_locked_with_dry_run(app, dry_run) :
          Leaves(end, written') /\ unsynced' = (end.how \in {"error", "refused"})
    BY <1>7 DEF Save
  <2>2. /\ TakeLock({}) /\ written < MaxSaves /\ written' = written + 1
        /\ UNCHANGED <<env, exit, stale, abandoned>>
    BY <1>7 DEF Save
  <2>3. unsynced' \in BOOLEAN /\ ~(~unsynced' /\ end.how # "spawned")
    <3>1. unsynced' <=> end.how \in {"error", "refused"}
      BY <2>1
    <3>2. unsynced' \in BOOLEAN
      BY <2>1
    <3> QED BY <1>4, <3>1, <3>2
  <2>4. written' \in 0 .. MaxSaves /\ written' >= written
    BY <1>1, <2>2
  <2> QED BY <1>1, <1>4, <2>1, <2>2, <2>3, <2>4, CommandStep
<1>8. CASE SaveFailsHalfway
  <2>1. /\ written' \in 0 .. MaxSaves /\ unsynced' = TRUE /\ TakeLock({})
        /\ UNCHANGED <<app, env, boot, exit, stale, abandoned, spared>>
    BY <1>1, <1>8 DEF SaveFailsHalfway
  <2>2. /\ overtaken' \subseteq Starter
        /\ \A q \in Starter : env'[q] # NoEngine /\ q \notin overtaken' => q \in {}
    BY <2>1, LockOvertakes
  <2>3. DesktopTypeOK'
    BY <2>1, <2>2 DEF DesktopTypeOK
  <2> QED BY <2>1, <2>2, <2>3 DEF SoleInv, Sole, StartInv, QuitInv, BootInv
<1>9. CASE Quit
  <2>1. PICK end \in stop(app) : Leaves(end, written)
    BY <1>9 DEF Quit
  <2>2. /\ TakeLock({}) /\ exit' = "stopped"
        /\ UNCHANGED <<env, written, stale, abandoned, unsynced>>
    BY <1>9 DEF Quit
  <2> QED BY <1>1, <1>3, <2>1, <2>2, CommandStep
\* The engines and the rest of the machine start no process and leave the manager alone.
<1>10. ASSUME app' \in AppType, app'.child = app.child,
              \A e \in Engine : Live(app', e) => Live(app, e),
              boot' \in [Engine -> (0 .. MaxSaves) \X (0 .. MaxSaves)],
              \A e \in Engine : boot'[e][1] = boot[e][1],
              \A e \in Engine : app'.process[e] = "serving" =>
                  \/ boot'[e][2] = written
                  \/ app.process[e] = "serving" /\ boot'[e] = boot[e],
              UNCHANGED <<env, written, exit, overtaken, stale, abandoned, spared, unsynced>>
       PROVE  DesktopInv'
  <2>1. DesktopTypeOK'
    BY <1>10 DEF DesktopTypeOK
  <2>2. SoleInv' /\ StartInv' /\ QuitInv'
    BY <1>10 DEF SoleInv, Sole, StartInv, QuitInv
  <2>3. BootInv'
    BY <1>10 DEF BootInv
  <2> QED BY <2>1, <2>2, <2>3
<1>11. ASSUME NEW e \in Engine, Boot(e) \/ Die(e) PROVE DesktopInv'
  <2>1. PICK p \in {"serving", "gone"} : app' = [app EXCEPT !.process[e] = p]
    BY <1>11 DEF Boot, Die
  <2>2. /\ Live(app, e)
        /\ boot' = boot \/ boot' = [boot EXCEPT ![e] = <<boot[e][1], written>>]
        /\ p = "serving" => boot' = [boot EXCEPT ![e] = <<boot[e][1], written>>]
        /\ UNCHANGED <<env, written, exit, overtaken, stale, abandoned, spared, unsynced>>
    <3>1. CASE Die(e)
      BY <1>1, <2>1, <3>1 DEF Die, AppType
    <3>2. CASE Boot(e)
      <4>1. boot[e] \in (0 .. MaxSaves) \X (0 .. MaxSaves)
        BY DEF DesktopTypeOK
      <4>2. [boot[e] EXCEPT ![2] = written] = <<boot[e][1], written>>
        BY <4>1
      <4>3. boot' = [boot EXCEPT ![e] = [boot[e] EXCEPT ![2] = written]]
        BY <3>2 DEF Boot
      <4> QED BY <3>2, <4>2, <4>3 DEF Boot, Live
    <3> QED BY <1>11, <3>1, <3>2
  <2>3. /\ app' \in AppType /\ app'.child = app.child
        /\ \A q \in Engine : app'.process[q] = IF q = e THEN p ELSE app.process[q]
    BY <1>1, <2>1 DEF AppType
  <2>4. boot \in [Engine -> (0 .. MaxSaves) \X (0 .. MaxSaves)]
    BY DEF DesktopTypeOK
  <2>5. /\ boot' \in [Engine -> (0 .. MaxSaves) \X (0 .. MaxSaves)]
        /\ \A q \in Engine : q # e => boot'[q] = boot[q]
        /\ boot'[e][1] = boot[e][1] /\ (p = "serving" => boot'[e][2] = written)
    BY <1>1, <2>2, <2>4
  <2> QED BY <1>10, <2>2, <2>3, <2>5 DEF Live
<1>12. CASE Foreign
  <2>1. /\ app' = [app EXCEPT !.foreign = ~@]
        /\ UNCHANGED <<env, written, boot, exit, overtaken, stale, abandoned, spared, unsynced>>
    BY <1>12 DEF Foreign
  <2>2. app' \in AppType /\ app'.child = app.child /\ app'.process = app.process
    BY <1>1, <2>1 DEF AppType
  <2>3. boot \in [Engine -> (0 .. MaxSaves) \X (0 .. MaxSaves)]
    BY DEF DesktopTypeOK
  <2> QED BY <1>10, <2>1, <2>2, <2>3 DEF Live
<1>13. CASE UNCHANGED desktopVars
  BY <1>13 DEF desktopVars, DesktopTypeOK, SoleInv, Sole, Live, StartInv, QuitInv, BootInv
<1> QED
  BY <1>2, <1>5, <1>6, <1>7, <1>8, <1>9, <1>11, <1>12, <1>13 DEF DesktopNext

\* An engine that is alive is the one the manager holds, or one that an overtaken start dropped;
\* after the last stop it is one whose kill was refused or one spawned behind that stop; and but
\* for a save that failed or an overtaken start, what serves is what was saved: for any number of
\* starting threads, engines and saves, with commands before, between and after the two stops of
\* a quit, and wherever the unlocked dry runs fall among them.
THEOREM DesktopKeepsEngines == DesktopSpec => []DesktopSound
<1>1. DesktopInit => DesktopInv
  <2> SUFFICES ASSUME DesktopInit PROVE DesktopInv
    OBVIOUS
  <2>1. DesktopTypeOK
    <3>1. 0 \in 0 .. MaxSaves
      BY DesktopAssumption
    <3>2. boot \in [Engine -> (0 .. MaxSaves) \X (0 .. MaxSaves)]
      BY <3>1 DEF DesktopInit
    <3>3. app \in AppType
      BY DEF DesktopInit, AppType
    <3> QED BY <3>1, <3>2, <3>3 DEF DesktopInit, DesktopTypeOK
  <2>2. \A e \in Engine : ~Live(app, e)
    BY DEF DesktopInit, Live
  <2> QED BY <2>1, <2>2
      DEF DesktopInit, DesktopInv, SoleInv, Sole, StartInv, QuitInv, BootInv
<1>2. DesktopInv /\ [DesktopNext]_desktopVars => DesktopInv'
  BY DesktopStep
<1>3. DesktopInv => DesktopSound
  <2> SUFFICES ASSUME DesktopInv PROVE DesktopSound
    OBVIOUS
  <2>1. NoEngineLost
    BY DEF DesktopInv, SoleInv, Sole, QuitInv, NoEngineLost
  <2>2. ASSUME NEW e \in Engine, app.process[e] = "serving", ~unsynced,
               e \notin stale \cup abandoned
        PROVE  boot[e] = <<written, written>>
    <3>1. Live(app, e)
      BY <2>2 DEF Live
    <3>2. boot[e][1] = written /\ boot[e][2] = written
      BY <2>2, <3>1 DEF DesktopInv, BootInv
    <3>3. boot[e] \in (0 .. MaxSaves) \X (0 .. MaxSaves)
      BY DEF DesktopInv, DesktopTypeOK
    <3> QED BY <3>2, <3>3
  <2> QED BY <2>1, <2>2 DEF DesktopSound, ServesWhatWasSaved
<1> QED BY <1>1, <1>2, <1>3, PTL DEF DesktopSpec

-----------------------------------------------------------------------------
(***************************************************************************)
(* The model client: retries, fallback, spans and the routing overhead,    *)
(* for any number of calls and candidates and any retry budgets.           *)
(*                                                                         *)
(* The calls of a run do not touch each other's records, so the invariant  *)
(* is one of a single call (CallOK, SpanOK) and every step is looked at    *)
(* from the one call that takes it.                                        *)
(***************************************************************************)

Phases == {"new", "trying", "backoff", "streaming", "done"}
Failures == HttpFailures \cup {"transport", "timeout", "context_window", "configuration",
                               "response_translation"}
Outcomes == {"open", "ok", "error", "cancelled"}
Items == {"stop", "error", "end", "left"}

\* A call at candidate a, with its attempts t and the verdicts v of the candidates
CallOK(p, a, t, v) ==
    /\ p \in Phases /\ a \in 0..Candidates
    /\ t \in [Models -> Nat] /\ v \in [Models -> Failures \cup {"none", "ok"}]
    /\ p = "new" <=> a = 0
    /\ p \in {"trying", "backoff"} => v[a] = "none" /\ t[a] =< MaxRetries[a]
    /\ p = "streaming" => v[a] = "ok"
    /\ p = "done" => v[a] # "none" /\ (a < Candidates => v[a] \notin RoutableAround)
    /\ \A m \in Models :
         /\ t[m] =< MaxRetries[m] + 1
         /\ m < a => v[m] \in RoutableAround
         /\ v[m] \in RoutableAround \ {"context_window", "http_403"} => t[m] = MaxRetries[m] + 1
         /\ m > a => v[m] = "none" /\ t[m] = 0

\* A streamed call's span s follows what the reader has seen of its body b
SpanOK(p, a, v, s, b) ==
    /\ s \in Outcomes /\ b \subseteq Items
    /\ p \in {"new", "trying", "backoff"} => b = {}
    /\ p = "streaming" => /\ b \subseteq {"stop", "error"}
                          /\ s = IF "error" \in b THEN "error"
                                 ELSE IF "stop" \in b THEN "ok" ELSE "open"
    /\ p = "done" /\ v[a] = "ok" =>
         s = IF "error" \in b THEN "error"
             ELSE IF {"stop", "end"} \cap b # {} THEN "ok" ELSE "cancelled"

ClientInv ==
    /\ \A c \in Calls : CallOK(phase[c], at[c], attempts[c], verdict[c])
    /\ \A c \in StreamCalls : SpanOK(phase[c], at[c], verdict[c], span[c], body[c])
    /\ phase \in [Calls -> Phases] /\ at \in [Calls -> 0..Candidates]
    /\ attempts \in [Calls -> [Models -> Nat]]
    /\ verdict \in [Calls -> [Models -> Failures \cup {"none", "ok"}]]
    /\ span \in [Calls -> Outcomes] /\ body \in [Calls -> SUBSET Items]

-----------------------------------------------------------------------------
(* One call.                                                               *)

\* The two classifications of a failure agree
LEMMA RoutedAround ==
    \A failure \in Failures : fallback_reason(failure) # "none" <=> failure \in RoutableAround
  BY DEF Failures, HttpFailures, fallback_reason, is_retryable, RoutableAround

\* A failure worth routing around is retried first, but for a full window and a refusal (client.rs).
LEMMA RetriedOrNot ==
    \A failure \in RoutableAround \ {"context_window", "http_403"} : is_retryable(failure)
  BY DEF is_retryable, RoutableAround

\* A candidate that fails for good leaves its call with the next one, or done
LEMMA CandidateFails ==
    ASSUME NEW a, NEW t, NEW v, CallOK("trying", a, t, v),
           NEW failure \in Failures, NEW u \in [Models -> Nat],
           u = t \/ u = [t EXCEPT ![a] = t[a] + 1],
           failure \in RoutableAround \ {"context_window", "http_403"} => u[a] = MaxRetries[a] + 1
    PROVE  LET w == [v EXCEPT ![a] = failure]
           IN  IF a < Candidates /\ fallback_reason(failure) # "none"
               THEN CallOK("trying", a + 1, u, w)
               ELSE CallOK("done", a, u, w)
<1> DEFINE w == [v EXCEPT ![a] = failure]
<1>0. Candidates \in Nat /\ MaxRetries \in [Models -> Nat]
  BY ClientAssumption DEF Models
<1>1. a \in Models /\ a \in Nat /\ v[a] = "none" /\ t[a] =< MaxRetries[a] /\ t[a] \in Nat
  BY <1>0 DEF CallOK, Models
<1>2. w \in [Models -> Failures \cup {"none", "ok"}] /\ w[a] = failure
      /\ \A m \in Models \ {a} : w[m] = v[m] /\ u[m] = t[m]
  BY <1>1 DEF CallOK
<1>3. u[a] =< MaxRetries[a] + 1
  BY <1>0, <1>1 DEF CallOK
<1>4. \A m \in Models :
        /\ u[m] =< MaxRetries[m] + 1
        /\ w[m] \in RoutableAround \ {"context_window", "http_403"} => u[m] = MaxRetries[m] + 1
        /\ m < a => w[m] \in RoutableAround
        /\ m > a => w[m] = "none" /\ u[m] = 0
  <2> SUFFICES ASSUME NEW m \in Models
               PROVE  /\ u[m] =< MaxRetries[m] + 1
                      /\ w[m] \in RoutableAround \ {"context_window", "http_403"} => u[m] = MaxRetries[m] + 1
                      /\ m < a => w[m] \in RoutableAround
                      /\ m > a => w[m] = "none" /\ u[m] = 0
    OBVIOUS
  <2>1. CASE m = a
    BY <1>1, <1>2, <1>3, <2>1
  <2>2. CASE m # a
    BY <1>2, <2>2 DEF CallOK
  <2> QED BY <2>1, <2>2
<1> HIDE DEF w
<1>5. CASE a < Candidates /\ fallback_reason(failure) # "none"
  <2>1. failure \in RoutableAround
    BY <1>5, RoutedAround
  <2>2. a + 1 \in 0..Candidates /\ a + 1 \in Models /\ a + 1 > a /\ a + 1 # 0
    BY <1>0, <1>1, <1>5 DEF Models
  <2>3. w[a + 1] = "none" /\ u[a + 1] = 0 /\ u[a + 1] =< MaxRetries[a + 1]
    BY <1>0, <1>4, <2>2
  <2>4. \A m \in Models : /\ m < a + 1 => w[m] \in RoutableAround
                          /\ m > a + 1 => w[m] = "none" /\ u[m] = 0
    <3> SUFFICES ASSUME NEW m \in Models
                 PROVE  /\ m < a + 1 => w[m] \in RoutableAround
                        /\ m > a + 1 => w[m] = "none" /\ u[m] = 0
      OBVIOUS
    <3>1. m \in Nat /\ (m < a + 1 => m < a \/ m = a) /\ (m > a + 1 => m > a)
      BY <1>1, <1>0 DEF Models
    <3> QED BY <1>2, <1>4, <2>1, <3>1
  <2> QED BY <1>2, <1>4, <1>5, <2>2, <2>3, <2>4 DEF CallOK, Phases, w
<1>6. CASE ~(a < Candidates /\ fallback_reason(failure) # "none")
  <2>1. w[a] # "none" /\ (a < Candidates => w[a] \notin RoutableAround)
    BY <1>2, <1>6, RoutedAround DEF Failures, HttpFailures
  <2>2. a # 0 /\ a \in 0..Candidates
    BY <1>0, <1>1 DEF Models
  <2> QED BY <1>2, <1>4, <1>6, <2>1, <2>2 DEF CallOK, Phases, w
<1> QED BY <1>5, <1>6 DEF w

\* A retryable failure within the budget, and the end of its backoff
LEMMA AttemptRetried ==
    ASSUME NEW a, NEW t, NEW v, CallOK("trying", a, t, v), t[a] < MaxRetries[a]
    PROVE  CallOK("backoff", a, [t EXCEPT ![a] = t[a] + 1], v)
<1> DEFINE u == [t EXCEPT ![a] = t[a] + 1]
<1>0. Candidates \in Nat /\ MaxRetries \in [Models -> Nat]
  BY ClientAssumption DEF Models
<1>1. a \in Models /\ a # 0 /\ v[a] = "none" /\ t[a] \in Nat
  BY <1>0 DEF CallOK, Models
<1>2. u \in [Models -> Nat] /\ u[a] = t[a] + 1 /\ u[a] =< MaxRetries[a] /\ u[a] =< MaxRetries[a] + 1
      /\ \A m \in Models \ {a} : u[m] = t[m]
  BY <1>0, <1>1 DEF CallOK
<1>3. \A m \in Models :
        /\ u[m] =< MaxRetries[m] + 1
        /\ v[m] \in RoutableAround \ {"context_window", "http_403"} => u[m] = MaxRetries[m] + 1
        /\ m < a => v[m] \in RoutableAround
        /\ m > a => v[m] = "none" /\ u[m] = 0
  <2> SUFFICES ASSUME NEW m \in Models
               PROVE  /\ u[m] =< MaxRetries[m] + 1
                      /\ v[m] \in RoutableAround \ {"context_window", "http_403"} => u[m] = MaxRetries[m] + 1
                      /\ m < a => v[m] \in RoutableAround
                      /\ m > a => v[m] = "none" /\ u[m] = 0
    OBVIOUS
  <2>1. CASE m = a
    BY <1>0, <1>1, <1>2, <2>1 DEF RoutableAround, Models
  <2>2. CASE m # a
    BY <1>2, <2>2 DEF CallOK
  <2> QED BY <2>1, <2>2
<1> HIDE DEF u
<1>4. CallOK("backoff", a, u, v)
  BY <1>1, <1>2, <1>3 DEF CallOK, Phases
<1> QED BY <1>4 DEF u

\* After its back-off a call is where it was before it (client.rs).
LEMMA BackoffOver ==
    ASSUME NEW a, NEW t, NEW v, CallOK("backoff", a, t, v) PROVE CallOK("trying", a, t, v)
  BY DEF CallOK, Phases

\* An answer
LEMMA CandidateAnswers ==
    ASSUME NEW a, NEW t, NEW v, CallOK("trying", a, t, v),
           NEW p \in {"streaming", "done"}
    PROVE  CallOK(p, a, [t EXCEPT ![a] = t[a] + 1], [v EXCEPT ![a] = "ok"])
<1> DEFINE u == [t EXCEPT ![a] = t[a] + 1] w == [v EXCEPT ![a] = "ok"]
<1>0. Candidates \in Nat /\ MaxRetries \in [Models -> Nat]
  BY ClientAssumption DEF Models
<1>1. a \in Models /\ a # 0 /\ t[a] \in Nat /\ t[a] =< MaxRetries[a]
  BY <1>0 DEF CallOK, Models
<1>2. /\ u \in [Models -> Nat] /\ u[a] = t[a] + 1 /\ u[a] =< MaxRetries[a] + 1
      /\ w \in [Models -> Failures \cup {"none", "ok"}] /\ w[a] = "ok"
      /\ \A m \in Models \ {a} : u[m] = t[m] /\ w[m] = v[m]
  BY <1>0, <1>1 DEF CallOK
<1>3. "ok" \notin RoutableAround /\ "ok" # "none"
  BY DEF RoutableAround
<1>4. \A m \in Models :
        /\ u[m] =< MaxRetries[m] + 1
        /\ w[m] \in RoutableAround \ {"context_window", "http_403"} => u[m] = MaxRetries[m] + 1
        /\ m < a => w[m] \in RoutableAround
        /\ m > a => w[m] = "none" /\ u[m] = 0
  <2> SUFFICES ASSUME NEW m \in Models
               PROVE  /\ u[m] =< MaxRetries[m] + 1
                      /\ w[m] \in RoutableAround \ {"context_window", "http_403"} => u[m] = MaxRetries[m] + 1
                      /\ m < a => w[m] \in RoutableAround
                      /\ m > a => w[m] = "none" /\ u[m] = 0
    OBVIOUS
  <2>1. CASE m = a
    BY <1>0, <1>1, <1>2, <1>3, <2>1 DEF Models
  <2>2. CASE m # a
    BY <1>2, <2>2 DEF CallOK
  <2> QED BY <2>1, <2>2
<1> HIDE DEF u, w
<1>5. CallOK(p, a, u, w)
  BY <1>1, <1>2, <1>3, <1>4 DEF CallOK, Phases
<1> QED BY <1>5 DEF u, w

\* One more item of a body
LEMMA ItemSeen ==
    ASSUME NEW a, NEW v, NEW s, NEW b, SpanOK("streaming", a, v, s, b), NEW item \in Items
    PROVE  SpanOK(IF item \in {"end", "left"} THEN "done" ELSE "streaming", a, v,
                  observe(s, item), b \cup {item})
<1>1. /\ s \in Outcomes /\ b \subseteq {"stop", "error"}
      /\ s = IF "error" \in b THEN "error" ELSE IF "stop" \in b THEN "ok" ELSE "open"
  BY DEF SpanOK
<1>2. b \cup {item} \subseteq Items /\ observe(s, item) \in Outcomes
  BY <1>1 DEF Items, Outcomes, observe
<1>3. CASE item \in {"stop", "error"}
  <2>1. b \cup {item} \subseteq {"stop", "error"}
    BY <1>1, <1>3
  <2>2. observe(s, item) = IF "error" \in b \cup {item} THEN "error"
                           ELSE IF "stop" \in b \cup {item} THEN "ok" ELSE "open"
    BY <1>1, <1>3 DEF observe
  <2> QED BY <1>2, <1>3, <2>1, <2>2 DEF SpanOK
<1>4. CASE item \in {"end", "left"}
  <2>1. observe(s, item) = IF "error" \in b \cup {item} THEN "error"
                           ELSE IF {"stop", "end"} \cap (b \cup {item}) # {} THEN "ok" ELSE "cancelled"
    <3>1. CASE "error" \in b
      BY <1>1, <1>4, <3>1 DEF observe
    <3>2. CASE "error" \notin b /\ "stop" \in b
      BY <1>1, <1>4, <3>2 DEF observe
    <3>3. CASE b = {} /\ item = "end"
      BY <1>1, <3>3 DEF observe
    <3>4. CASE b = {} /\ item = "left"
      BY <1>1, <3>4 DEF observe
    <3> QED BY <1>1, <1>4, <3>1, <3>2, <3>3, <3>4
  <2> QED BY <1>2, <1>4, <2>1 DEF SpanOK
<1> QED BY <1>3, <1>4 DEF Items

-----------------------------------------------------------------------------
(* Every step.                                                             *)

\* What a step of call c may leave of it, and of the other calls
OnlyCall(c, p, a, t, v, s, b) ==
    /\ phase' = [phase EXCEPT ![c] = p] /\ at' = [at EXCEPT ![c] = a]
    /\ attempts' = [attempts EXCEPT ![c] = t] /\ verdict' = [verdict EXCEPT ![c] = v]
    /\ span' = [span EXCEPT ![c] = s] /\ body' = [body EXCEPT ![c] = b]

\* A step that keeps its own call in order keeps the invariant
LEMMA CallKeeps ==
    ASSUME ClientInv, NEW c \in Calls, NEW p, NEW a, NEW t, NEW v, NEW s, NEW b,
           OnlyCall(c, p, a, t, v, s, b), CallOK(p, a, t, v), s \in Outcomes, b \subseteq Items,
           c \in StreamCalls => SpanOK(p, a, v, s, b)
    PROVE  ClientInv'
<1>1. /\ phase'[c] = p /\ at'[c] = a /\ attempts'[c] = t /\ verdict'[c] = v
      /\ span'[c] = s /\ body'[c] = b
  BY DEF ClientInv, OnlyCall
<1>2. \A d \in Calls \ {c} : /\ phase'[d] = phase[d] /\ at'[d] = at[d]
                             /\ attempts'[d] = attempts[d] /\ verdict'[d] = verdict[d]
                             /\ span'[d] = span[d] /\ body'[d] = body[d]
  BY DEF ClientInv, OnlyCall
<1>3. \A d \in Calls : CallOK(phase'[d], at'[d], attempts'[d], verdict'[d])
  <2> SUFFICES ASSUME NEW d \in Calls PROVE CallOK(phase'[d], at'[d], attempts'[d], verdict'[d])
    OBVIOUS
  <2>1. CASE d = c
    BY <1>1, <2>1
  <2>2. CASE d # c
    <3>1. CallOK(phase[d], at[d], attempts[d], verdict[d])
      BY DEF ClientInv
    <3> QED BY <1>2, <2>2, <3>1
  <2> QED BY <2>1, <2>2
<1>4. \A d \in StreamCalls : SpanOK(phase'[d], at'[d], verdict'[d], span'[d], body'[d])
  <2> SUFFICES ASSUME NEW d \in StreamCalls
               PROVE  SpanOK(phase'[d], at'[d], verdict'[d], span'[d], body'[d])
    OBVIOUS
  <2>0. d \in Calls
    BY ClientAssumption
  <2>1. CASE d = c
    BY <1>1, <2>1
  <2>2. CASE d # c
    <3>1. SpanOK(phase[d], at[d], verdict[d], span[d], body[d])
      BY DEF ClientInv
    <3> QED BY <1>2, <2>0, <2>2, <3>1
  <2> QED BY <2>1, <2>2
<1>5. /\ p \in Phases /\ a \in 0..Candidates /\ t \in [Models -> Nat]
      /\ v \in [Models -> Failures \cup {"none", "ok"}]
  BY DEF CallOK
<1>6. /\ phase' \in [Calls -> Phases] /\ at' \in [Calls -> 0..Candidates]
      /\ attempts' \in [Calls -> [Models -> Nat]]
      /\ verdict' \in [Calls -> [Models -> Failures \cup {"none", "ok"}]]
      /\ span' \in [Calls -> Outcomes] /\ body' \in [Calls -> SUBSET Items]
  BY <1>5 DEF ClientInv, OnlyCall
<1>7. /\ (\A d \in Calls : CallOK(phase[d], at[d], attempts[d], verdict[d]))'
      /\ (\A d \in StreamCalls : SpanOK(phase[d], at[d], verdict[d], span[d], body[d]))'
  BY <1>3, <1>4 DEF CallOK, SpanOK
<1> QED BY <1>6, <1>7 DEF ClientInv

\* A candidate fails for good
LEMMA FailKeeps ==
    ASSUME ClientInv, NEW c \in Calls, NEW failure \in Failures,
           phase[c] = "trying", Fail(c, failure), UNCHANGED body,
           \/ UNCHANGED attempts
           \/ attempts' = [attempts EXCEPT ![c] = [attempts[c] EXCEPT ![at[c]] = attempts[c][at[c]] + 1]],
           failure \in RoutableAround \ {"context_window", "http_403"} =>
               attempts'[c][at[c]] = MaxRetries[at[c]] + 1
    PROVE  ClientInv'
<1> DEFINE a == at[c] t == attempts[c] v == verdict[c]
           w == [v EXCEPT ![a] = failure] u == attempts'[c]
<1>1. CallOK("trying", a, t, v) /\ a \in Models
  BY ClientAssumption DEF ClientInv, CallOK, Models
<1>2. u \in [Models -> Nat] /\ (u = t \/ u = [t EXCEPT ![a] = t[a] + 1])
      /\ attempts' = [attempts EXCEPT ![c] = u]
  <2>1. t \in [Models -> Nat] /\ attempts \in [Calls -> [Models -> Nat]]
    BY DEF ClientInv
  <2>2. CASE UNCHANGED attempts
    BY <2>1, <2>2
  <2>3. CASE attempts' = [attempts EXCEPT ![c] = [t EXCEPT ![a] = t[a] + 1]]
    <3>1. u = [t EXCEPT ![a] = t[a] + 1]
      BY <2>1, <2>3
    <3>2. [t EXCEPT ![a] = t[a] + 1] \in [Models -> Nat]
      BY <1>1, <2>1
    <3> QED BY <2>3, <3>1, <3>2, Zenon
  <2> QED BY <2>2, <2>3
<1>3. IF a < Candidates /\ fallback_reason(failure) # "none"
      THEN CallOK("trying", a + 1, u, w) ELSE CallOK("done", a, u, w)
  BY <1>1, <1>2, CandidateFails
<1>4. verdict' = [verdict EXCEPT ![c] = w] /\ span' = [span EXCEPT ![c] = "error"]
      /\ body' = [body EXCEPT ![c] = body[c]]
  BY DEF Fail, ClientInv
<1>5. body[c] \subseteq Items /\ "error" \in Outcomes
  BY DEF ClientInv, Outcomes
<1>6. c \in StreamCalls => body[c] = {}
  BY DEF ClientInv, SpanOK
<1>7. w[a] = failure /\ failure # "ok"
  BY <1>1 DEF CallOK, Failures, HttpFailures
<1>8. c \in StreamCalls => /\ SpanOK("trying", a + 1, w, "error", body[c])
                           /\ SpanOK("done", a, w, "error", body[c])
  BY <1>5, <1>6, <1>7 DEF SpanOK
<1> HIDE DEF w, u
<1>9. CASE a < Candidates /\ fallback_reason(failure) # "none"
  <2>1. OnlyCall(c, "trying", a + 1, u, w, "error", body[c])
    BY <1>2, <1>4, <1>9 DEF OnlyCall, Fail, Stamp
  <2> QED BY <1>3, <1>5, <1>8, <1>9, <2>1, CallKeeps
<1>10. CASE ~(a < Candidates /\ fallback_reason(failure) # "none")
  <2>1. phase' = [phase EXCEPT ![c] = "done"] /\ at' = at
    BY <1>10 DEF Fail
  <2>2. at' = [at EXCEPT ![c] = a]
    BY <2>1 DEF ClientInv
  <2>3. OnlyCall(c, "done", a, u, w, "error", body[c])
    BY <1>2, <1>4, <2>1, <2>2 DEF OnlyCall
  <2> QED BY <1>3, <1>5, <1>8, <1>10, <2>3, CallKeeps
<1> QED BY <1>9, <1>10

\* The failures an attempt may meet
LEMMA FaultsAreFailures == Faults \subseteq Failures
  BY ClientAssumption DEF Failures

\* Every step keeps the invariant.
LEMMA ClientStep ==
    ASSUME ClientInv, [ClientNext]_clientVars PROVE ClientInv'
<1>1. CASE UNCHANGED clientVars \/ Tick \/ RunEnds
  <2>1. UNCHANGED <<phase, at, attempts, verdict, span, body>>
    BY <1>1 DEF clientVars, Tick, RunEnds
  <2> QED BY <2>1 DEF ClientInv, CallOK, SpanOK
<1>2. ASSUME NEW c \in Calls, Offload(c) PROVE ClientInv'
  <2>1. CallOK("new", 0, attempts[c], verdict[c])
    BY <1>2 DEF Offload, ClientInv, CallOK
  <2>2. Candidates \in Nat /\ Candidates > 0 /\ MaxRetries \in [Models -> Nat]
    BY <1>2, ClientAssumption DEF Offload, Models
  <2>3. 1 \in Models /\ 1 \in 0..Candidates /\ \A m \in Models : ~(m < 1) /\ m > 0
    BY <2>2 DEF Models
  <2>4. \A m \in Models : verdict[c][m] = "none" /\ attempts[c][m] = 0
    BY <2>1, <2>3 DEF CallOK
  <2>5. CallOK("trying", 1, attempts[c], verdict[c])
    BY <2>1, <2>2, <2>3, <2>4 DEF CallOK, Phases, RoutableAround
  <2>6. OnlyCall(c, "trying", 1, attempts[c], verdict[c], span[c], body[c])
    BY <1>2 DEF Offload, Stamp, OnlyCall, ClientInv
  <2>7. c \in StreamCalls => SpanOK("trying", 1, verdict[c], span[c], body[c])
    BY <1>2 DEF Offload, ClientInv, SpanOK
  <2> QED BY <2>5, <2>6, <2>7, CallKeeps DEF ClientInv
<1>3. ASSUME NEW c \in Calls, Unconfigured(c) PROVE ClientInv'
  <2>1. "configuration" \in Failures /\ "configuration" \notin RoutableAround
    BY DEF Failures, RoutableAround
  <2> QED BY <1>3, <2>1, FailKeeps DEF Unconfigured
<1>4. ASSUME NEW c \in Calls, NEW failure \in Faults, AttemptFails(c, failure) PROVE ClientInv'
  <2>1. /\ attempts' = [attempts EXCEPT ![c] = [attempts[c] EXCEPT ![at[c]] = attempts[c][at[c]] + 1]]
        /\ phase[c] = "trying" /\ failure \in Failures /\ UNCHANGED body
    BY <1>4, FaultsAreFailures DEF AttemptFails, ClientInv
  <2>2. CallOK("trying", at[c], attempts[c], verdict[c]) /\ at[c] \in Models
    <3>1. CallOK("trying", at[c], attempts[c], verdict[c])
      BY <2>1 DEF ClientInv
    <3>2. at[c] \in 0..Candidates /\ at[c] # 0 /\ Candidates \in Nat
      BY <3>1, ClientAssumption DEF CallOK
    <3> QED BY <3>1, <3>2 DEF Models
  <2>3. CASE attempts[c][at[c]] < MaxRetries[at[c]] /\ is_retryable(failure)
    <3>1. OnlyCall(c, "backoff", at[c], [attempts[c] EXCEPT ![at[c]] = attempts[c][at[c]] + 1],
                   verdict[c], span[c], body[c])
      BY <1>4, <2>1, <2>3 DEF AttemptFails, OnlyCall, ClientInv
    <3>2. CallOK("backoff", at[c], [attempts[c] EXCEPT ![at[c]] = attempts[c][at[c]] + 1], verdict[c])
      BY <2>2, <2>3, AttemptRetried
    <3>3. c \in StreamCalls => SpanOK("backoff", at[c], verdict[c], span[c], body[c])
      BY <2>1 DEF ClientInv, SpanOK
    <3> QED BY <3>1, <3>2, <3>3, CallKeeps DEF ClientInv
  <2>4. CASE ~(attempts[c][at[c]] < MaxRetries[at[c]] /\ is_retryable(failure))
    <3>1. Fail(c, failure)
      BY <1>4, <2>4 DEF AttemptFails
    <3>2. attempts'[c][at[c]] = attempts[c][at[c]] + 1
      BY <2>1, <2>2 DEF ClientInv
    <3>3. failure \in RoutableAround \ {"context_window", "http_403"} =>
            attempts'[c][at[c]] = MaxRetries[at[c]] + 1
      <4>1. attempts[c][at[c]] \in Nat /\ MaxRetries[at[c]] \in Nat
            /\ attempts[c][at[c]] =< MaxRetries[at[c]]
        BY <2>2, ClientAssumption DEF CallOK, Models
      <4> QED BY <2>4, <3>2, <4>1, RetriedOrNot
    <3> QED BY <2>1, <3>1, <3>3, FailKeeps
  <2> QED BY <2>3, <2>4
<1>5. ASSUME NEW c \in Calls, Retry(c) PROVE ClientInv'
  <2>1. OnlyCall(c, "trying", at[c], attempts[c], verdict[c], span[c], body[c])
    BY <1>5 DEF Retry, OnlyCall, ClientInv
  <2>2. CallOK("trying", at[c], attempts[c], verdict[c])
    BY <1>5, BackoffOver DEF Retry, ClientInv
  <2>3. c \in StreamCalls => SpanOK("trying", at[c], verdict[c], span[c], body[c])
    BY <1>5 DEF Retry, ClientInv, SpanOK
  <2> QED BY <2>1, <2>2, <2>3, CallKeeps DEF ClientInv
<1>6. ASSUME NEW c \in Calls, AttemptSucceeds(c) PROVE ClientInv'
  <2> DEFINE p == IF c \in StreamCalls THEN "streaming" ELSE "done"
             s == IF c \in StreamCalls THEN "open" ELSE "ok"
             u == [attempts[c] EXCEPT ![at[c]] = attempts[c][at[c]] + 1]
             w == [verdict[c] EXCEPT ![at[c]] = "ok"]
  <2>1. OnlyCall(c, p, at[c], u, w, s, body[c])
    BY <1>6 DEF AttemptSucceeds, OnlyCall, ClientInv
  <2>2. CallOK(p, at[c], u, w)
    BY <1>6, CandidateAnswers DEF AttemptSucceeds, ClientInv
  <2>3. c \in StreamCalls => body[c] = {}
    BY <1>6 DEF AttemptSucceeds, ClientInv, SpanOK
  <2>4. c \in StreamCalls => SpanOK(p, at[c], w, s, body[c])
    BY <2>3 DEF SpanOK, Outcomes
  <2>5. s \in Outcomes
    BY DEF Outcomes
  <2> HIDE DEF p, s, u, w
  <2> QED BY <2>1, <2>2, <2>4, <2>5, CallKeeps DEF ClientInv
<1>7. ASSUME NEW c \in Calls, BodyUnreadable(c) PROVE ClientInv'
  <2>1. attempts' = [attempts EXCEPT ![c] = [attempts[c] EXCEPT ![at[c]] = attempts[c][at[c]] + 1]]
    BY <1>7 DEF BodyUnreadable, ClientInv
  <2>2. "response_translation" \in Failures /\ "response_translation" \notin RoutableAround
    BY DEF Failures, RoutableAround
  <2> QED BY <1>7, <2>1, <2>2, FailKeeps DEF BodyUnreadable
<1>8. ASSUME NEW c \in Calls, NEW item \in Items, StreamItem(c, item) PROVE ClientInv'
  <2> DEFINE p == IF item \in {"end", "left"} THEN "done" ELSE "streaming"
  <2>1. OnlyCall(c, p, at[c], attempts[c], verdict[c], observe(span[c], item), body[c] \cup {item})
    BY <1>8 DEF StreamItem, OnlyCall, ClientInv
  <2>2. CallOK("streaming", at[c], attempts[c], verdict[c])
    BY <1>8 DEF StreamItem, ClientInv
  <2>3. CallOK(p, at[c], attempts[c], verdict[c])
    BY <2>2 DEF CallOK, Phases, RoutableAround
  <2>4. c \in StreamCalls => SpanOK(p, at[c], verdict[c], observe(span[c], item), body[c] \cup {item})
    <3>1. c \in StreamCalls => SpanOK("streaming", at[c], verdict[c], span[c], body[c])
      BY <1>8 DEF StreamItem, ClientInv
    <3> QED BY <3>1, ItemSeen
  <2>5. observe(span[c], item) \in Outcomes /\ body[c] \cup {item} \subseteq Items
    BY DEF ClientInv, observe, Outcomes
  <2> HIDE DEF p
  <2> QED BY <2>1, <2>3, <2>4, <2>5, CallKeeps
<1> QED BY <1>1, <1>2, <1>3, <1>4, <1>5, <1>6, <1>7, <1>8 DEF ClientNext, Items

\* The invariant holds before any call.
LEMMA ClientStarts == ASSUME ClientInit PROVE ClientInv
<1>1. Candidates \in Nat /\ MaxRetries \in [Models -> Nat] /\ StreamCalls \subseteq Calls
      /\ \A m \in Models : m \in Nat /\ m > 0
  BY ClientAssumption DEF Models
<1>2. \A c \in Calls : CallOK(phase[c], at[c], attempts[c], verdict[c])
  <2> SUFFICES ASSUME NEW c \in Calls PROVE CallOK(phase[c], at[c], attempts[c], verdict[c])
    OBVIOUS
  <2>1. phase[c] = "new" /\ at[c] = 0 /\ attempts[c] = [m \in Models |-> 0]
        /\ verdict[c] = [m \in Models |-> "none"]
    BY DEF ClientInit
  <2>2. \A m \in Models : /\ attempts[c][m] = 0 /\ verdict[c][m] = "none" /\ ~(m < 0)
                          /\ 0 =< MaxRetries[m] + 1
    BY <1>1, <2>1
  <2>3. /\ attempts[c] \in [Models -> Nat] /\ 0 \in 0..Candidates
        /\ verdict[c] \in [Models -> Failures \cup {"none", "ok"}]
    BY <1>1, <2>1
  <2> QED BY <2>1, <2>2, <2>3 DEF CallOK, Phases, RoutableAround
<1>3. \A c \in StreamCalls : SpanOK(phase[c], at[c], verdict[c], span[c], body[c])
  BY <1>1 DEF ClientInit, SpanOK, Outcomes
<1>4. /\ phase \in [Calls -> Phases] /\ at \in [Calls -> 0..Candidates]
      /\ attempts \in [Calls -> [Models -> Nat]]
      /\ verdict \in [Calls -> [Models -> Failures \cup {"none", "ok"}]]
      /\ span \in [Calls -> Outcomes] /\ body \in [Calls -> SUBSET Items]
  BY <1>1 DEF ClientInit, Phases, Outcomes
<1> QED BY <1>2, <1>3, <1>4 DEF ClientInv

-----------------------------------------------------------------------------
(* What the invariant says of every behaviour.                             *)

\* A candidate is tried only after every one before it failed with a failure worth routing
\* around, with its retry budget spent if the failure could be retried
THEOREM FallbackIsJustified ==
    ClientSpec => []FallbackJustified
<1>1. ClientInit => ClientInv
  BY ClientStarts
<1>2. ClientInv /\ [ClientNext]_clientVars => ClientInv'
  BY ClientStep
<1>3. ClientInv => FallbackJustified
  <2> SUFFICES ASSUME ClientInv, NEW c \in Calls
               PROVE  /\ \A m \in Models :
                           /\ attempts[c][m] =< MaxRetries[m] + 1
                           /\ m < at[c] => verdict[c][m] \in RoutableAround
                           /\ verdict[c][m] \in RoutableAround \ {"context_window", "http_403"} =>
                                  attempts[c][m] = MaxRetries[m] + 1
                           /\ m > at[c] => verdict[c][m] = "none" /\ attempts[c][m] = 0
                      /\ phase[c] = "done" /\ at[c] < Candidates =>
                            verdict[c][at[c]] \notin RoutableAround
    BY DEF FallbackJustified
  <2>1. CallOK(phase[c], at[c], attempts[c], verdict[c])
    BY DEF ClientInv
  <2> QED BY <2>1 DEF CallOK
<1> QED BY <1>1, <1>2, <1>3, PTL DEF ClientSpec

\* The span of a streamed call says how its body ended
THEOREM SpanTells ==
    ClientSpec => []SpanTellsEnd
<1>1. ClientInit => ClientInv
  BY ClientStarts
<1>2. ClientInv /\ [ClientNext]_clientVars => ClientInv'
  BY ClientStep
<1>3. ClientInv => SpanTellsEnd
  BY DEF ClientInv, SpanTellsEnd, SpanOK
<1> QED BY <1>1, <1>2, <1>3, PTL DEF ClientSpec

\* Nothing is called again for a candidate that answered
THEOREM AnswersOnce ==
    ClientSpec => AnsweredOnce
<1>1. ClientInit => ClientInv
  BY ClientStarts
<1>2. ClientInv /\ [ClientNext]_clientVars => ClientInv'
  BY ClientStep
<1>3. ASSUME ClientInv, [ClientNext]_clientVars, NEW d \in Calls, at[d] # 0, verdict[d][at[d]] = "ok"
      PROVE  at'[d] = at[d] /\ attempts'[d] = attempts[d]
  <2>1. phase[d] \notin {"new", "trying", "backoff"}
    BY <1>3 DEF ClientInv, CallOK
  <2>2. ASSUME NEW c \in Calls, NEW failure, Fail(c, failure), phase[c] = "trying"
        PROVE  at'[d] = at[d]
    BY <1>3, <2>1, <2>2 DEF Fail, Stamp, ClientInv
  <2>3. CASE UNCHANGED <<at, attempts>>
    BY <2>3
  <2>4. ASSUME NEW c \in Calls,
               \/ Offload(c) \/ Unconfigured(c) \/ AttemptSucceeds(c) \/ BodyUnreadable(c)
               \/ \E failure \in Faults : AttemptFails(c, failure)
        PROVE  at'[d] = at[d] /\ attempts'[d] = attempts[d]
    <3>1. c # d
      BY <2>1, <2>4 DEF Offload, Unconfigured, AttemptSucceeds, BodyUnreadable, AttemptFails
    <3>2. attempts'[d] = attempts[d]
      <4>1. \/ UNCHANGED attempts
            \/ attempts' = [attempts EXCEPT ![c][at[c]] = @ + 1]
        <5>1. CASE Offload(c) \/ Unconfigured(c)
          BY <5>1 DEF Offload, Unconfigured
        <5>2. CASE AttemptSucceeds(c) \/ BodyUnreadable(c)
          <6>1. CASE AttemptSucceeds(c)
            BY <6>1 DEF AttemptSucceeds
          <6>2. CASE BodyUnreadable(c)
            BY <6>2 DEF BodyUnreadable
          <6> QED BY <5>2, <6>1, <6>2
        <5>3. CASE \E failure \in Faults : AttemptFails(c, failure)
          BY <5>3 DEF AttemptFails
        <5> QED BY <2>4, <5>1, <5>2, <5>3
      <4> QED BY <1>3, <3>1, <4>1 DEF ClientInv
    <3>3. at'[d] = at[d]
      <4>1. CASE Offload(c)
        BY <3>1, <4>1 DEF Offload, Stamp, ClientInv
      <4>2. CASE \E failure : Fail(c, failure) /\ phase[c] = "trying"
        BY <2>2, <4>2
      <4>3. CASE UNCHANGED at
        BY <4>3
      <4>4. Offload(c) \/ (\E failure : Fail(c, failure) /\ phase[c] = "trying") \/ UNCHANGED at
        BY <2>4 DEF Unconfigured, AttemptSucceeds, BodyUnreadable, AttemptFails
      <4> QED BY <4>1, <4>2, <4>3, <4>4
    <3> QED BY <3>2, <3>3
  <2> QED BY <1>3, <2>3, <2>4 DEF ClientNext, clientVars, Retry, StreamItem, Tick, RunEnds
<1>4. ClientInv /\ [ClientNext]_clientVars =>
        [\A c \in Calls : at[c] # 0 /\ verdict[c][at[c]] = "ok" =>
             at'[c] = at[c] /\ attempts'[c] = attempts[c]]_clientVars
  BY <1>3
<1> QED BY <1>1, <1>2, <1>4, PTL DEF ClientSpec, AnsweredOnce

-----------------------------------------------------------------------------
(***************************************************************************)
(* The sweep over the windows of the recorded calls.                       *)
(*                                                                         *)
(* `served' is a CHOOSE of a function that is its own unfolding.  What the *)
(* sweep arrives at can be told without it: its cursor is at the last end  *)
(* of a window (Reach), its total is the number of ticks in some window    *)
(* (Covers).  That is such a function, and the only one.                   *)
(***************************************************************************)

\* Windows of the calls S, no later than n
WindowsOK(ws, S, n) ==
    /\ IsFiniteSet(S) /\ n \in Nat
    /\ \A c \in S : ws[c].from \in 0..n /\ ws[c].to \in 0..n /\ ws[c].from =< ws[c].to

\* The ticks in some window, the end of the last one, and what the sweep comes to
Covers(ws, S) == UNION {(ws[c].from + 1)..ws[c].to : c \in S}
Reach(ws, S) == IF S = {} THEN 0
                ELSE CHOOSE r \in {ws[c].to : c \in S} : \A c \in S : ws[c].to =< r
Swept(ws, S) == [covered |-> Reach(ws, S), total |-> Cardinality(Covers(ws, S))]
Unfolding(ws, S, g) ==
    [T \in SUBSET S |-> IF T = {} THEN [covered |-> 0, total |-> 0]
                        ELSE sweep(ws[Latest(ws, T)], g[T \ {Latest(ws, T)}])]

\* The latest start is that of one of the calls.
LEMMA LatestIn ==
    ASSUME NEW ws, NEW n, NEW S, WindowsOK(ws, S, n), S # {}
    PROVE  Latest(ws, S) \in S /\ \A d \in S : ws[d].from =< ws[Latest(ws, S)].from
<1> DEFINE Starts == {ws[c].from : c \in S}
<1>1. n \in Nat /\ Starts \in SUBSET (0..n) /\ Starts # {}
  BY DEF WindowsOK
<1>2. PICK x \in Starts : \A y \in Starts : y =< x
  BY <1>1, GreatestExists
<1>3. PICK c \in S : ws[c].from = x
  OBVIOUS
<1>4. \A d \in S : ws[d].from =< ws[c].from
  BY <1>2, <1>3
<1> QED BY <1>4 DEF Latest

\* The end of the last window is one of the ends.
LEMMA ReachIn ==
    ASSUME NEW ws, NEW n, NEW S, WindowsOK(ws, S, n)
    PROVE  /\ Reach(ws, S) \in 0..n
           /\ S # {} => \E c \in S : Reach(ws, S) = ws[c].to
           /\ \A c \in S : ws[c].to =< Reach(ws, S)
<1>1. n \in Nat /\ 0 \in 0..n
  BY DEF WindowsOK
<1>2. CASE S = {}
  BY <1>1, <1>2 DEF Reach
<1>3. CASE S # {}
  <2> DEFINE Ends == {ws[c].to : c \in S}
  <2>1. Ends \in SUBSET (0..n) /\ Ends # {}
    BY <1>3 DEF WindowsOK
  <2>2. PICK x \in Ends : \A y \in Ends : y =< x
    BY <1>1, <2>1, GreatestExists
  <2>3. \A c \in S : ws[c].to =< x
    BY <2>2
  <2>4. Reach(ws, S) = CHOOSE r \in Ends : \A c \in S : ws[c].to =< r
    BY <1>3 DEF Reach
  <2>5. Reach(ws, S) \in Ends /\ \A c \in S : ws[c].to =< Reach(ws, S)
    BY <2>3, <2>4
  <2> QED BY <2>1, <2>5
<1> QED BY <1>2, <1>3

\* The end of the last window is the only number that is one.
LEMMA ReachIs ==
    ASSUME NEW ws, NEW n, NEW S, WindowsOK(ws, S, n), NEW e \in S,
           \A c \in S : ws[c].to =< ws[e].to
    PROVE  Reach(ws, S) = ws[e].to
<1>1. ws[e].to \in 0..n /\ \A c \in S : ws[c].to \in 0..n
  BY DEF WindowsOK
<1>2. PICK c \in S : Reach(ws, S) = ws[c].to
  BY ReachIn
<1>3. ws[e].to =< Reach(ws, S)
  BY ReachIn
<1> QED BY <1>1, <1>2, <1>3

\* The ticks in the windows of finitely many calls are finitely many.
LEMMA CoversFinite ==
    ASSUME NEW ws, NEW n, NEW S, WindowsOK(ws, S, n)
    PROVE  Covers(ws, S) \subseteq 1..n /\ IsFiniteSet(Covers(ws, S))
<1>1. n \in Nat /\ \A c \in S : (ws[c].from + 1)..ws[c].to \subseteq 1..n
  <2>1. n \in Nat
    BY DEF WindowsOK
  <2>2. ASSUME NEW c \in S PROVE (ws[c].from + 1)..ws[c].to \subseteq 1..n
    <3>1. ws[c].from \in 0..n /\ ws[c].to \in 0..n
      BY DEF WindowsOK
    <3> QED BY <2>1, <3>1
  <2> QED BY <2>1, <2>2
<1>2. Covers(ws, S) \subseteq 1..n
  BY <1>1 DEF Covers
<1>3. IsFiniteSet(1..n)
  BY <1>1, FS_Interval
<1> QED BY <1>2, <1>3, FS_Subset

\* Fewer calls, the same windows
LEMMA WindowsOfFewer ==
    ASSUME NEW ws, NEW n, NEW S, WindowsOK(ws, S, n), NEW T \in SUBSET S
    PROVE  WindowsOK(ws, T, n)
  BY FS_Subset DEF WindowsOK

\* One more window, the latest to start, brings the sweep from what it was without it to what
\* it is with it.
LEMMA SweepOne ==
    ASSUME NEW ws, NEW n, NEW T, WindowsOK(ws, T, n), T # {}
    PROVE  Swept(ws, T) = sweep(ws[Latest(ws, T)], Swept(ws, T \ {Latest(ws, T)}))
<1> DEFINE c == Latest(ws, T)  U == T \ {c}  R == Reach(ws, U)
           from == ws[c].from  to == ws[c].to
           cursor == IF R > from THEN R ELSE from
<1>1. c \in T /\ \A d \in T : ws[d].from =< from
  BY LatestIn
<1>2. n \in Nat /\ from \in 0..n /\ to \in 0..n /\ from =< to
  BY <1>1 DEF WindowsOK
<1>3. WindowsOK(ws, U, n)
  BY WindowsOfFewer
<1>4. R \in 0..n /\ (U # {} => \E e \in U : R = ws[e].to) /\ (U = {} => R = 0)
      /\ \A e \in U : ws[e].to =< R
  BY <1>3, ReachIn DEF Reach
<1>5. Covers(ws, T) = Covers(ws, U) \cup ((from + 1)..to)
  BY <1>1 DEF Covers
<1>6. (from + 1)..R \subseteq Covers(ws, U)
  <2>1. CASE U = {}
    BY <1>2, <1>4, <2>1
  <2>2. CASE U # {}
    <3>1. PICK e \in U : R = ws[e].to
      BY <1>4, <2>2
    <3>2. ws[e].from =< from /\ ws[e].from \in 0..n
      BY <1>1, <1>3 DEF WindowsOK
    <3>3. (from + 1)..R \subseteq (ws[e].from + 1)..ws[e].to
      BY <1>2, <1>4, <3>1, <3>2
    <3>4. (ws[e].from + 1)..ws[e].to \subseteq Covers(ws, U)
      BY DEF Covers
    <3> QED BY <3>3, <3>4
  <2> QED BY <2>1, <2>2
<1>7. \A t \in Covers(ws, U) : t \in Nat /\ t =< R
  <2> SUFFICES ASSUME NEW e \in U, NEW t \in (ws[e].from + 1)..ws[e].to
               PROVE  t \in Nat /\ t =< R
    BY DEF Covers
  <2>1. ws[e].from \in 0..n /\ ws[e].to \in 0..n /\ ws[e].to =< R
    BY <1>3, <1>4 DEF WindowsOK
  <2> QED BY <1>4, <2>1
<1>8. IsFiniteSet(Covers(ws, U)) /\ Cardinality(Covers(ws, U)) \in Nat
  BY <1>3, CoversFinite, FS_CardinalityType
<1> HIDE DEF c, U, R, from, to
<1>9. CASE to > cursor
  <2>1. Reach(ws, T) = to
    <3>1. \A e \in T : ws[e].to =< ws[c].to
      <4> SUFFICES ASSUME NEW e \in T PROVE ws[e].to =< to
        BY DEF to
      <4>1. CASE e = c
        BY <1>2, <4>1 DEF to
      <4>2. CASE e # c
        <5>1. e \in U /\ ws[e].to =< R /\ ws[e].to \in 0..n
          BY <1>4, <4>2 DEF U, WindowsOK
        <5> QED BY <1>2, <1>4, <1>9, <5>1
      <4> QED BY <4>1, <4>2
    <3> QED BY <1>1, <3>1, ReachIs DEF to
  <2>2. Covers(ws, T) = Covers(ws, U) \cup ((cursor + 1)..to)
    <3>1. (from + 1)..to \subseteq Covers(ws, U) \cup ((cursor + 1)..to)
      <4> SUFFICES ASSUME NEW t \in (from + 1)..to, t \notin (cursor + 1)..to
                   PROVE  t \in Covers(ws, U)
        OBVIOUS
      <4>1. t \in (from + 1)..R
        BY <1>2, <1>4
      <4> QED BY <1>6, <4>1
    <3>2. (cursor + 1)..to \subseteq (from + 1)..to
      BY <1>2, <1>4
    <3> QED BY <1>5, <3>1, <3>2
  <2>3. Covers(ws, U) \cap ((cursor + 1)..to) = {}
    BY <1>2, <1>4, <1>7
  <2>4. IsFiniteSet((cursor + 1)..to) /\ Cardinality((cursor + 1)..to) = to - cursor
    <3>1. cursor + 1 \in Int /\ to \in Int /\ ~(cursor + 1 > to) /\ to - (cursor + 1) + 1 = to - cursor
      BY <1>2, <1>4, <1>9
    <3> QED BY <3>1, FS_Interval
  <2>5. Cardinality(Covers(ws, T)) = Cardinality(Covers(ws, U)) + (to - cursor)
    <3> HIDE DEF cursor
    <3> QED BY <1>8, <2>2, <2>3, <2>4, DisjointUnion
  <2>6. Swept(ws, U).covered = R /\ Swept(ws, U).total = Cardinality(Covers(ws, U))
    BY DEF Swept, R
  <2>7. sweep(ws[c], Swept(ws, U)) =
          [covered |-> to, total |-> Cardinality(Covers(ws, U)) + (to - cursor)]
    BY <1>9, <2>6 DEF sweep, from, to
  <2>8. Swept(ws, T) = [covered |-> to, total |-> Cardinality(Covers(ws, U)) + (to - cursor)]
    BY <2>1, <2>5 DEF Swept
  <2> QED BY <2>7, <2>8 DEF U, c
<1>10. CASE ~(to > cursor)
  <2>1. Reach(ws, T) = cursor
    <3>1. CASE R > from
      <4>1. U # {}
        BY <1>2, <1>4, <3>1
      <4>2. PICK e \in U : R = ws[e].to
        BY <1>4, <4>1
      <4>3. \A d \in T : ws[d].to =< ws[e].to
        <5> SUFFICES ASSUME NEW d \in T PROVE ws[d].to =< R
          BY <4>2
        <5>1. CASE d = c
          BY <1>2, <1>4, <1>10, <3>1, <5>1 DEF to
        <5>2. CASE d # c
          BY <1>4, <5>2 DEF U
        <5> QED BY <5>1, <5>2
      <4> QED BY <3>1, <4>2, <4>3, ReachIs DEF U
    <3>2. CASE ~(R > from)
      <4>1. to = from /\ cursor = from
        BY <1>2, <1>4, <1>10, <3>2
      <4>2. \A d \in T : ws[d].to =< ws[c].to
        <5> SUFFICES ASSUME NEW d \in T PROVE ws[d].to =< to
          BY DEF to
        <5>1. CASE d = c
          BY <1>2, <5>1 DEF to
        <5>2. CASE d # c
          <6>1. ws[d].to =< R /\ ws[d].to \in 0..n
            BY <1>4, <5>2 DEF U, WindowsOK
          <6> QED BY <1>2, <1>4, <3>2, <4>1, <6>1
        <5> QED BY <5>1, <5>2
      <4> QED BY <1>1, <4>1, <4>2, ReachIs DEF to
    <3> QED BY <3>1, <3>2
  <2>2. Covers(ws, T) = Covers(ws, U)
    <3>1. (from + 1)..to \subseteq (from + 1)..R
      BY <1>2, <1>4, <1>10
    <3> QED BY <1>5, <1>6, <3>1
  <2>3. Swept(ws, U).covered = R /\ Swept(ws, U).total = Cardinality(Covers(ws, U))
    BY DEF Swept, R
  <2>4. sweep(ws[c], Swept(ws, U)) = [covered |-> cursor, total |-> Cardinality(Covers(ws, U))]
    BY <1>10, <2>3 DEF sweep, from, to
  <2> QED BY <2>1, <2>2, <2>4 DEF Swept, U, c
<1> QED BY <1>9, <1>10

\* What the sweep comes to, over every set of calls, is its own unfolding.
LEMMA SweptUnfolds ==
    ASSUME NEW ws, NEW n, NEW S, WindowsOK(ws, S, n)
    PROVE  \A T \in SUBSET S :
             Swept(ws, T) = IF T = {} THEN [covered |-> 0, total |-> 0]
                            ELSE sweep(ws[Latest(ws, T)], Swept(ws, T \ {Latest(ws, T)}))
<1> SUFFICES ASSUME NEW T \in SUBSET S
             PROVE  Swept(ws, T) = IF T = {} THEN [covered |-> 0, total |-> 0]
                                   ELSE sweep(ws[Latest(ws, T)], Swept(ws, T \ {Latest(ws, T)}))
  OBVIOUS
<1>1. CASE T = {}
  <2>1. Covers(ws, T) = {}
    BY <1>1 DEF Covers
  <2> QED BY <1>1, <2>1, FS_EmptySet DEF Swept, Reach
<1>2. CASE T # {}
  BY <1>2, WindowsOfFewer, SweepOne
<1> QED BY <1>1, <1>2

\* The chosen function is the sweep's, so what is served is the number of ticks covered.
LEMMA ServedIsCovered ==
    ASSUME NEW ws, NEW n, NEW S, WindowsOK(ws, S, n)
    PROVE  served(ws, S) = Cardinality(Covers(ws, S))
<1> DEFINE g == CHOOSE g : g = Unfolding(ws, S, g)
           h == [T \in SUBSET S |-> Swept(ws, T)]
<1>1. served(ws, S) = g[S].total
  BY Zenon DEF served, MapThenFoldSet, Unfolding
<1>2. h = Unfolding(ws, S, h)
  <2>1. ASSUME NEW T \in SUBSET S PROVE h[T] = Unfolding(ws, S, h)[T]
    <3>1. h[T] = Swept(ws, T) /\ h[T \ {Latest(ws, T)}] = Swept(ws, T \ {Latest(ws, T)})
      OBVIOUS
    <3>2. Unfolding(ws, S, h)[T] = IF T = {} THEN [covered |-> 0, total |-> 0]
                                   ELSE sweep(ws[Latest(ws, T)], h[T \ {Latest(ws, T)}])
      BY DEF Unfolding
    <3> QED BY <3>1, <3>2, SweptUnfolds
  <2> QED BY <2>1 DEF Unfolding
<1> HIDE DEF h
<1>3. g = Unfolding(ws, S, g)
  BY <1>2
<1> HIDE DEF g
<1>4. ASSUME NEW T \in SUBSET S
      PROVE  g[T] = IF T = {} THEN [covered |-> 0, total |-> 0]
                    ELSE sweep(ws[Latest(ws, T)], g[T \ {Latest(ws, T)}])
  <2>1. Unfolding(ws, S, g)[T] = IF T = {} THEN [covered |-> 0, total |-> 0]
                                 ELSE sweep(ws[Latest(ws, T)], g[T \ {Latest(ws, T)}])
    BY DEF Unfolding
  <2> QED BY <1>3, <2>1
<1>5. g[S] = Swept(ws, S)
  <2> SUFFICES ASSUME g[S] # Swept(ws, S) PROVE FALSE
    OBVIOUS
  <2> DEFINE Wrong == {T \in SUBSET S : g[T] # Swept(ws, T)}
             Sizes == {Cardinality(T) : T \in Wrong}
  <2>1. \A T \in SUBSET S : IsFiniteSet(T) /\ Cardinality(T) \in Nat
    BY FS_Subset, FS_CardinalityType DEF WindowsOK
  <2>2. Sizes \in SUBSET Nat /\ Sizes # {}
    BY <2>1
  <2>3. PICK m \in Sizes : \A k \in Sizes : m <= k
    BY <2>2, LeastExists
  <2>4. PICK T \in Wrong : m = Cardinality(T)
    OBVIOUS
  <2>5. T # {}
    BY <1>4, SweptUnfolds
  <2>6. Latest(ws, T) \in T
    BY <2>5, WindowsOfFewer, LatestIn
  <2>7. Cardinality(T \ {Latest(ws, T)}) = m - 1 /\ m \in Nat
    BY <2>1, <2>4, <2>6, FS_RemoveElement
  <2>8. T \ {Latest(ws, T)} \notin Wrong
    BY <2>3, <2>7
  <2>9. g[T \ {Latest(ws, T)}] = Swept(ws, T \ {Latest(ws, T)})
    BY <2>8
  <2>10. g[T] = sweep(ws[Latest(ws, T)], g[T \ {Latest(ws, T)}])
    BY <1>4, <2>5
  <2>11. Swept(ws, T) = sweep(ws[Latest(ws, T)], Swept(ws, T \ {Latest(ws, T)}))
    BY <2>5, SweptUnfolds
  <2>12. g[T] = Swept(ws, T)
    BY ONLY <2>9, <2>10, <2>11
  <2> QED BY <2>12
<1> QED BY <1>1, <1>5 DEF Swept

-----------------------------------------------------------------------------
(***************************************************************************)
(* The clock, the windows and who was in flight at each tick.              *)
(*                                                                         *)
(* A call that is trying has been in flight, at its candidate, since its   *)
(* window began; one that was answered was, at that candidate, in its      *)
(* window and at no other tick.                                            *)
(***************************************************************************)
FlightsOf(c, p, a, v, w) ==
    /\ w.from \in Nat /\ w.to \in Nat /\ w.from =< w.to /\ w.to =< clock
    /\ \A t \in 1..clock :
         /\ \A m \in Models : <<c, m>> \in flights[t] => m =< a
         /\ p \in {"trying", "backoff"} => (<<c, a>> \in flights[t] <=> w.from < t)
         /\ p \in {"streaming", "done"} /\ v[a] = "ok" =>
              (<<c, a>> \in flights[t] <=> w.from < t /\ t =< w.to)

FlightInv ==
    /\ clock \in 0..Horizon /\ flights \in [1..Horizon -> SUBSET (Calls \X Models)]
    /\ windows \in [Calls -> [from : Nat, to : Nat]]
    /\ \A c \in Calls : FlightsOf(c, phase[c], at[c], verdict[c], windows[c])
    /\ IsFiniteSet({c \in Calls : at[c] # 0})

\* Once the run is over no call is on its way, and what was reported stays true
OverInv == over => /\ \A c \in Calls : phase[c] \in {"new", "streaming", "done"}
                   /\ OverheadIsUnserved

\* A step of call c that leaves the clock alone
OnlyFlight(c, p, a, v, w) ==
    /\ phase' = [phase EXCEPT ![c] = p] /\ at' = [at EXCEPT ![c] = a]
    /\ verdict' = [verdict EXCEPT ![c] = v] /\ windows' = [windows EXCEPT ![c] = w]
    /\ UNCHANGED <<clock, flights>>

\* Such a step keeps the invariant when it keeps its own call in order.
LEMMA OneFlightKeeps ==
    ASSUME ClientInv, FlightInv, NEW c \in Calls, NEW p, NEW a, NEW v, NEW w,
           OnlyFlight(c, p, a, v, w), w \in [from : Nat, to : Nat], FlightsOf(c, p, a, v, w)
    PROVE  FlightInv'
<1>1. phase'[c] = p /\ at'[c] = a /\ verdict'[c] = v /\ windows'[c] = w
  BY DEF ClientInv, FlightInv, OnlyFlight
<1>2. \A d \in Calls \ {c} : /\ phase'[d] = phase[d] /\ at'[d] = at[d]
                             /\ verdict'[d] = verdict[d] /\ windows'[d] = windows[d]
  BY DEF ClientInv, FlightInv, OnlyFlight
<1>3. clock' = clock /\ flights' = flights
  BY DEF OnlyFlight
<1>4. ASSUME NEW d \in Calls PROVE FlightsOf(d, phase[d], at[d], verdict[d], windows[d])'
  <2>1. FlightsOf(d, phase'[d], at'[d], verdict'[d], windows'[d])
    <3>1. CASE d = c
      BY <1>1, <3>1
    <3>2. CASE d # c
      BY <1>2, <3>2 DEF FlightInv
    <3> QED BY <3>1, <3>2
  <2> QED BY <1>3, <2>1 DEF FlightsOf
<1>5. IsFiniteSet({d \in Calls : at'[d] # 0})
  <2>1. IsFiniteSet({d \in Calls : at[d] # 0} \cup {c})
    BY FS_AddElement DEF FlightInv
  <2>2. {d \in Calls : at'[d] # 0} \in SUBSET ({d \in Calls : at[d] # 0} \cup {c})
    BY <1>2
  <2> QED BY <2>1, <2>2, FS_Subset
<1>6. windows' \in [Calls -> [from : Nat, to : Nat]]
  BY DEF FlightInv, OnlyFlight
<1> QED BY <1>3, <1>4, <1>5, <1>6 DEF FlightInv

\* A call that is stamped with the next candidate starts its window now.
LEMMA StampedNow ==
    ASSUME FlightInv, NEW c \in Calls, NEW v, at[c] \in Nat, at[c] + 1 \in Models
    PROVE  LET w == [from |-> clock, to |-> clock]
           IN  w \in [from : Nat, to : Nat] /\ FlightsOf(c, "trying", at[c] + 1, v, w)
<1> DEFINE w == [from |-> clock, to |-> clock]
<1>1. clock \in Nat /\ w.from = clock /\ w.to = clock /\ w \in [from : Nat, to : Nat]
  BY ClientAssumption DEF FlightInv
<1>2. ASSUME NEW t \in 1..clock
      PROVE  /\ \A m \in Models : <<c, m>> \in flights[t] => m =< at[c] + 1
             /\ <<c, at[c] + 1>> \notin flights[t] /\ ~(clock < t)
  <2>1. \A m \in Models : m \in Nat
    BY ClientAssumption DEF Models
  <2>2. FlightsOf(c, phase[c], at[c], verdict[c], windows[c])
    BY DEF FlightInv
  <2>3. \A m \in Models : <<c, m>> \in flights[t] => m =< at[c]
    BY <2>2 DEF FlightsOf
  <2> QED BY <1>1, <2>1, <2>3
<1> HIDE DEF w
<1>3. FlightsOf(c, "trying", at[c] + 1, v, w)
  BY <1>1, <1>2 DEF FlightsOf
<1> QED BY <1>1, <1>3 DEF w

\* A candidate that fails for good was never one whose window counts.
LEMMA FailedFlight ==
    ASSUME ClientInv, FlightInv, NEW c \in Calls, NEW failure \in Failures,
           phase[c] = "trying", Fail(c, failure), UNCHANGED <<clock, flights>>
    PROVE  FlightInv'
<1> DEFINE v == [verdict[c] EXCEPT ![at[c]] = failure]
<1>1. at[c] \in Models /\ at[c] \in Nat /\ verdict[c] \in [Models -> Failures \cup {"none", "ok"}]
      /\ Candidates \in Nat
  BY ClientAssumption DEF ClientInv, CallOK, Models
<1>2. verdict' = [verdict EXCEPT ![c] = v] /\ v[at[c]] = failure /\ failure # "ok"
  BY <1>1 DEF Fail, ClientInv, Failures, HttpFailures
<1> HIDE DEF v
<1>3. CASE at[c] < Candidates /\ fallback_reason(failure) # "none"
  <2>1. at[c] + 1 \in Models
    BY <1>1, <1>3 DEF Models
  <2>2. OnlyFlight(c, "trying", at[c] + 1, v, [from |-> clock, to |-> clock])
    BY <1>2, <1>3 DEF OnlyFlight, Fail, Stamp
  <2> QED BY <1>1, <2>1, <2>2, StampedNow, OneFlightKeeps
<1>4. CASE ~(at[c] < Candidates /\ fallback_reason(failure) # "none")
  <2>1. OnlyFlight(c, "done", at[c], v, windows[c])
    <3>1. phase' = [phase EXCEPT ![c] = "done"] /\ at' = at /\ windows' = windows
      BY <1>4 DEF Fail
    <3>2. at' = [at EXCEPT ![c] = at[c]] /\ windows' = [windows EXCEPT ![c] = windows[c]]
      BY <3>1 DEF ClientInv, FlightInv
    <3> QED BY <1>2, <3>1, <3>2 DEF OnlyFlight
  <2>2. FlightsOf(c, "trying", at[c], verdict[c], windows[c])
    BY DEF FlightInv
  <2>3. FlightsOf(c, "done", at[c], v, windows[c])
    BY <1>2, <2>2 DEF FlightsOf
  <2>4. windows[c] \in [from : Nat, to : Nat]
    BY DEF FlightInv
  <2> QED BY <2>1, <2>3, <2>4, OneFlightKeeps
<1> QED BY <1>3, <1>4

\* A tick adds the calls on their way, at the candidates they are at.
LEMMA TickKeeps ==
    ASSUME ClientInv, FlightInv, Tick PROVE FlightInv'
<1>1. /\ clock \in Nat /\ clock' = clock + 1 /\ clock + 1 \in 1..Horizon /\ Horizon \in Nat
      /\ UNCHANGED <<phase, at, verdict, windows>>
  BY ClientAssumption DEF Tick, FlightInv
<1> DEFINE Now == {<<c, at[c]>> : c \in {d \in Calls : phase[d] \in {"trying", "backoff"}}}
<1>2. /\ flights' = [flights EXCEPT ![clock + 1] = Now] /\ flights'[clock + 1] = Now
      /\ \A t \in 1..clock : flights'[t] = flights[t]
  <2>1. flights' = [flights EXCEPT ![clock + 1] = Now]
    BY <1>1 DEF Tick
  <2>2. \A t \in 1..clock : t # clock + 1 /\ t \in 1..Horizon
    BY <1>1
  <2> QED BY <1>1, <2>1, <2>2 DEF FlightInv
<1>3. Now \subseteq Calls \X Models
  <2>1. \A d \in Calls : phase[d] \in {"trying", "backoff"} => at[d] \in Models
    BY ClientAssumption DEF ClientInv, CallOK, Models
  <2> QED BY <2>1
<1>4. flights' \in [1..Horizon -> SUBSET (Calls \X Models)] /\ clock' \in 0..Horizon
  BY <1>1, <1>2, <1>3 DEF FlightInv
<1>5. ASSUME NEW c \in Calls PROVE FlightsOf(c, phase[c], at[c], verdict[c], windows[c])'
  <2> DEFINE w == windows[c]
  <2>1. FlightsOf(c, phase[c], at[c], verdict[c], w)
    BY DEF FlightInv
  <2>2. \A m : <<c, m>> \in Now <=> m = at[c] /\ phase[c] \in {"trying", "backoff"}
    OBVIOUS
  <2>3. w.from \in Nat /\ w.to \in Nat /\ w.from =< w.to /\ w.to =< clock
    BY <2>1 DEF FlightsOf
  <2>4. at[c] \in Nat
    BY ClientAssumption DEF ClientInv
  <2> HIDE DEF Now, w
  <2>5. ASSUME NEW t \in 1..(clock + 1)
        PROVE  /\ \A m \in Models : <<c, m>> \in flights'[t] => m =< at[c]
               /\ phase[c] \in {"trying", "backoff"} => (<<c, at[c]>> \in flights'[t] <=> w.from < t)
               /\ phase[c] \in {"streaming", "done"} /\ verdict[c][at[c]] = "ok" =>
                    (<<c, at[c]>> \in flights'[t] <=> w.from < t /\ t =< w.to)
    <3>1. CASE t \in 1..clock
      BY <1>2, <2>1, <3>1 DEF FlightsOf
    <3>2. CASE t = clock + 1
      <4>1. w.from < t /\ ~(t =< w.to)
        BY <1>1, <2>3, <3>2
      <4>2. flights'[t] = Now
        BY <1>2, <3>2
      <4> QED BY <2>2, <2>4, <4>1, <4>2
    <3> QED BY <1>1, <3>1, <3>2
  <2>6. w.to =< clock + 1
    BY <1>1, <2>3
  <2> QED BY <1>1, <2>3, <2>5, <2>6 DEF FlightsOf, w
<1>6. IsFiniteSet({c \in Calls : at[c] # 0})' /\ windows' \in [Calls -> [from : Nat, to : Nat]]
  BY <1>1 DEF FlightInv
<1> QED BY <1>4, <1>5, <1>6 DEF FlightInv

\* Every step keeps the windows in order.
LEMMA FlightStep ==
    ASSUME ClientInv, FlightInv, [ClientNext]_clientVars PROVE FlightInv'
<1>1. CASE UNCHANGED clientVars \/ RunEnds
  <2>1. UNCHANGED <<phase, at, verdict, windows, clock, flights>>
    BY <1>1 DEF clientVars, RunEnds
  <2> QED BY <2>1 DEF FlightInv, FlightsOf
<1>2. ASSUME NEW c \in Calls, Offload(c) PROVE FlightInv'
  <2>1. at[c] = 0 /\ 1 \in Models /\ at[c] + 1 = 1
    BY <1>2, ClientAssumption DEF Offload, ClientInv, CallOK, Models
  <2>2. OnlyFlight(c, "trying", 1, verdict[c], [from |-> clock, to |-> clock])
    BY <1>2 DEF Offload, Stamp, OnlyFlight, ClientInv
  <2> QED BY <2>1, <2>2, StampedNow, OneFlightKeeps
<1>3. ASSUME NEW c \in Calls, NEW failure \in Failures, phase[c] = "trying",
             Fail(c, failure), UNCHANGED <<clock, flights>>
      PROVE  FlightInv'
  BY <1>3, FailedFlight
<1>4. ASSUME NEW c \in Calls, Unconfigured(c) \/ BodyUnreadable(c) PROVE FlightInv'
  <2>1. "configuration" \in Failures /\ "response_translation" \in Failures
    BY DEF Failures
  <2> QED BY <1>3, <1>4, <2>1 DEF Unconfigured, BodyUnreadable
<1>5. ASSUME NEW c \in Calls, NEW failure \in Faults, AttemptFails(c, failure) PROVE FlightInv'
  <2>1. CASE attempts[c][at[c]] < MaxRetries[at[c]] /\ is_retryable(failure)
    <3>1. OnlyFlight(c, "backoff", at[c], verdict[c], windows[c])
      BY <1>5, <2>1 DEF AttemptFails, OnlyFlight, ClientInv, FlightInv
    <3>2. FlightsOf(c, "trying", at[c], verdict[c], windows[c]) /\ windows[c] \in [from : Nat, to : Nat]
      BY <1>5 DEF AttemptFails, FlightInv
    <3>3. FlightsOf(c, "backoff", at[c], verdict[c], windows[c])
      BY <3>2 DEF FlightsOf
    <3> QED BY <3>1, <3>2, <3>3, OneFlightKeeps
  <2>2. CASE ~(attempts[c][at[c]] < MaxRetries[at[c]] /\ is_retryable(failure))
    BY <1>3, <1>5, <2>2, FaultsAreFailures DEF AttemptFails
  <2> QED BY <2>1, <2>2
<1>6. ASSUME NEW c \in Calls, Retry(c) PROVE FlightInv'
  <2>1. OnlyFlight(c, "trying", at[c], verdict[c], windows[c])
    BY <1>6 DEF Retry, OnlyFlight, ClientInv, FlightInv
  <2>2. FlightsOf(c, "backoff", at[c], verdict[c], windows[c]) /\ windows[c] \in [from : Nat, to : Nat]
    BY <1>6 DEF Retry, FlightInv
  <2>3. FlightsOf(c, "trying", at[c], verdict[c], windows[c])
    BY <2>2 DEF FlightsOf
  <2> QED BY <2>1, <2>2, <2>3, OneFlightKeeps
<1>7. ASSUME NEW c \in Calls, AttemptSucceeds(c) PROVE FlightInv'
  <2> DEFINE p == IF c \in StreamCalls THEN "streaming" ELSE "done"
             v == [verdict[c] EXCEPT ![at[c]] = "ok"]
             w == [windows[c] EXCEPT !.to = clock]
  <2>1. OnlyFlight(c, p, at[c], v, w)
    BY <1>7 DEF AttemptSucceeds, OnlyFlight, ClientInv, FlightInv
  <2>2. FlightsOf(c, "trying", at[c], verdict[c], windows[c]) /\ windows[c] \in [from : Nat, to : Nat]
    BY <1>7 DEF AttemptSucceeds, FlightInv
  <2>3. w.from = windows[c].from /\ w.to = clock /\ clock \in Nat /\ w \in [from : Nat, to : Nat]
    <3>1. clock \in Nat
      BY ClientAssumption DEF FlightInv
    <3> QED BY ONLY <2>2, <3>1
  <2>4. w.from =< w.to
    BY <2>2, <2>3 DEF FlightsOf
  <2>5. p \in {"streaming", "done"}
    OBVIOUS
  <2> HIDE DEF p, v, w
  <2>6. FlightsOf(c, p, at[c], v, w)
    BY <2>2, <2>3, <2>4, <2>5 DEF FlightsOf
  <2> QED BY <2>1, <2>3, <2>6, OneFlightKeeps
<1>8. ASSUME NEW c \in Calls, NEW item \in Items, StreamItem(c, item) PROVE FlightInv'
  <2> DEFINE p == IF item \in {"end", "left"} THEN "done" ELSE "streaming"
  <2>1. OnlyFlight(c, p, at[c], verdict[c], windows[c])
    BY <1>8 DEF StreamItem, OnlyFlight, ClientInv, FlightInv
  <2>2. FlightsOf(c, "streaming", at[c], verdict[c], windows[c]) /\ windows[c] \in [from : Nat, to : Nat]
    BY <1>8 DEF StreamItem, FlightInv
  <2>3. p \in {"streaming", "done"}
    OBVIOUS
  <2> HIDE DEF p
  <2>4. FlightsOf(c, p, at[c], verdict[c], windows[c])
    BY <2>2, <2>3 DEF FlightsOf
  <2> QED BY <2>1, <2>2, <2>4, OneFlightKeeps
<1> QED BY <1>1, <1>2, <1>4, <1>5, <1>6, <1>7, <1>8, TickKeeps DEF ClientNext, Items

\* It holds before any call.
LEMMA FlightStarts == ASSUME ClientInit PROVE FlightInv /\ OverInv
<1>1. clock = 0 /\ over = FALSE /\ 0 \in 0..Horizon
  BY ClientAssumption DEF ClientInit
<1>2. windows \in [Calls -> [from : Nat, to : Nat]]
      /\ flights \in [1..Horizon -> SUBSET (Calls \X Models)]
  BY DEF ClientInit
<1>3. \A c \in Calls : FlightsOf(c, phase[c], at[c], verdict[c], windows[c])
  BY <1>1 DEF ClientInit, FlightsOf
<1>4. IsFiniteSet({c \in Calls : at[c] # 0})
  <2>1. {c \in Calls : at[c] # 0} = {}
    BY DEF ClientInit
  <2> QED BY <2>1, FS_EmptySet
<1> QED BY <1>1, <1>2, <1>3, <1>4 DEF FlightInv, OverInv

-----------------------------------------------------------------------------
(* What the run reports.                                                   *)

\* A recorded call is at the candidate that answered it, and its window is in order.
LEMMA RecordedWindows ==
    ASSUME ClientInv, FlightInv
    PROVE  /\ WindowsOK(windows, Recorded, clock)
           /\ \A c \in Recorded : /\ c \in Calls /\ phase[c] \in {"streaming", "done"}
                                  /\ verdict[c][at[c]] = "ok" /\ at[c] \in Models
           /\ \A c \in AnswerCalls, m \in Models : verdict[c][m] = "ok" => m = at[c]
<1>1. AnswerCalls \subseteq Calls /\ "ok" \notin RoutableAround
  BY ClientAssumption DEF RoutableAround
<1>2. ASSUME NEW c \in AnswerCalls, NEW m \in Models, verdict[c][m] = "ok"
      PROVE  m = at[c] /\ phase[c] \in {"streaming", "done"} /\ at[c] # 0
  <2>1. CallOK(phase[c], at[c], attempts[c], verdict[c])
    BY <1>1 DEF ClientInv
  <2>2. m \in Nat /\ m # 0 /\ at[c] \in Nat /\ ~(m < at[c]) /\ ~(m > at[c])
    <3>1. m \in Nat /\ m # 0
      BY DEF Models
    <3>2. /\ at[c] \in 0..Candidates
          /\ m < at[c] => verdict[c][m] \in RoutableAround
          /\ m > at[c] => verdict[c][m] = "none"
      BY <2>1 DEF CallOK
    <3> QED BY <1>1, <1>2, <3>1, <3>2, ClientAssumption
  <2>3. m = at[c]
    BY <2>2
  <2> QED BY <1>2, <2>1, <2>2, <2>3 DEF CallOK, Phases
<1>3. \A c \in Recorded : /\ c \in Calls /\ phase[c] \in {"streaming", "done"} /\ at[c] # 0
                          /\ verdict[c][at[c]] = "ok" /\ at[c] \in Models
  BY <1>1, <1>2 DEF Recorded
<1>4. IsFiniteSet(Recorded)
  <2>1. Recorded \in SUBSET {c \in Calls : at[c] # 0}
    BY <1>3
  <2> QED BY <2>1, FS_Subset DEF FlightInv
<1>5. clock \in Nat
  BY ClientAssumption DEF FlightInv
<1>6. ASSUME NEW c \in Recorded
      PROVE  /\ windows[c].from \in 0..clock /\ windows[c].to \in 0..clock
             /\ windows[c].from =< windows[c].to
  <2>1. FlightsOf(c, phase[c], at[c], verdict[c], windows[c])
    BY <1>3 DEF FlightInv
  <2> QED BY <1>5, <2>1 DEF FlightsOf
<1> QED BY <1>2, <1>3, <1>4, <1>5, <1>6 DEF WindowsOK

\* The ticks at which a candidate was in flight whose answer was used are those the windows cover.
LEMMA CoveredIsInFlight ==
    ASSUME ClientInv, FlightInv
    PROVE  Covers(windows, Recorded) =
             {t \in 1..clock : \E f \in flights[t] : f[1] \in AnswerCalls /\ verdict[f[1]][f[2]] = "ok"}
<1> DEFINE Used == {t \in 1..clock : \E f \in flights[t] :
                        f[1] \in AnswerCalls /\ verdict[f[1]][f[2]] = "ok"}
<1>1. clock \in Nat /\ \A t \in 1..clock : flights[t] \subseteq Calls \X Models
  BY ClientAssumption DEF FlightInv
<1>2. \A c \in Recorded, t \in 1..clock :
        <<c, at[c]>> \in flights[t] <=> t \in (windows[c].from + 1)..windows[c].to
  <2> SUFFICES ASSUME NEW c \in Recorded, NEW t \in 1..clock
               PROVE  <<c, at[c]>> \in flights[t] <=> t \in (windows[c].from + 1)..windows[c].to
    OBVIOUS
  <2>1. FlightsOf(c, phase[c], at[c], verdict[c], windows[c])
    BY RecordedWindows DEF FlightInv
  <2>2. <<c, at[c]>> \in flights[t] <=> windows[c].from < t /\ t =< windows[c].to
    BY <2>1, RecordedWindows DEF FlightsOf
  <2>3. windows[c].from \in Nat /\ windows[c].to \in Nat
    BY <2>1 DEF FlightsOf
  <2> QED BY <2>2, <2>3
<1>3. ASSUME NEW t \in Covers(windows, Recorded) PROVE t \in Used
  <2>1. PICK c \in Recorded : t \in (windows[c].from + 1)..windows[c].to
    BY DEF Covers
  <2>2. t \in 1..clock
    BY RecordedWindows, CoversFinite
  <2>3. <<c, at[c]>> \in flights[t] /\ c \in AnswerCalls /\ verdict[c][at[c]] = "ok"
    BY <1>2, <2>1, <2>2, RecordedWindows DEF Recorded
  <2> QED BY <2>2, <2>3
<1>4. ASSUME NEW t \in Used PROVE t \in Covers(windows, Recorded)
  <2>1. PICK f \in flights[t] : f[1] \in AnswerCalls /\ verdict[f[1]][f[2]] = "ok"
    OBVIOUS
  <2>2. f = <<f[1], f[2]>> /\ f[2] \in Models
    BY <1>1
  <2>3. f[2] = at[f[1]] /\ f[1] \in Recorded
    BY <2>1, <2>2, RecordedWindows DEF Recorded
  <2>4. t \in (windows[f[1]].from + 1)..windows[f[1]].to
    BY <1>2, <2>2, <2>3
  <2> QED BY <2>3, <2>4 DEF Covers
<1> QED BY <1>3, <1>4

\* So what is left of the clock is the number of the other ticks.
LEMMA UnservedIsLeft ==
    ASSUME ClientInv, FlightInv
    PROVE  clock - served(windows, Recorded) =
             Cardinality({t \in 1..clock : ~\E f \in flights[t] :
                             f[1] \in AnswerCalls /\ verdict[f[1]][f[2]] = "ok"})
<1> DEFINE Used == {t \in 1..clock : \E f \in flights[t] :
                        f[1] \in AnswerCalls /\ verdict[f[1]][f[2]] = "ok"}
           Unused == {t \in 1..clock : ~\E f \in flights[t] :
                        f[1] \in AnswerCalls /\ verdict[f[1]][f[2]] = "ok"}
<1>1. served(windows, Recorded) = Cardinality(Used)
  BY RecordedWindows, ServedIsCovered, CoveredIsInFlight
<1>2. clock \in Nat /\ IsFiniteSet(1..clock) /\ Cardinality(1..clock) = clock
  <2>1. clock \in Nat
    BY ClientAssumption DEF FlightInv
  <2> QED BY <2>1, FS_Interval
<1>3. Used \in SUBSET (1..clock) /\ Unused \in SUBSET (1..clock)
      /\ Used \cup Unused = 1..clock /\ Used \cap Unused = {}
  OBVIOUS
<1> HIDE DEF Used, Unused
<1>4. IsFiniteSet(Used) /\ IsFiniteSet(Unused)
  BY <1>2, <1>3, FS_Subset
<1>5. clock = Cardinality(Used) + Cardinality(Unused)
  BY <1>2, <1>3, <1>4, DisjointUnion
<1>6. Cardinality(Used) \in Nat /\ Cardinality(Unused) \in Nat
  BY <1>4, FS_CardinalityType
<1>7. clock - served(windows, Recorded) = Cardinality(Unused)
  BY <1>1, <1>2, <1>5, <1>6
<1> QED BY <1>7 DEF Unused

\* The run reports it once, and no later step changes what it is about.
LEMMA OverStep ==
    ASSUME ClientInv, FlightInv, OverInv, [ClientNext]_clientVars PROVE OverInv'
<1>1. CASE RunEnds
  <2>1. /\ overhead' = clock - served(windows, Recorded)
        /\ UNCHANGED <<phase, verdict, clock, flights>>
        /\ \A c \in Calls : phase[c] \in {"new", "streaming", "done"}
    BY <1>1 DEF RunEnds
  <2>2. overhead' = Cardinality({t \in 1..clock : ~\E f \in flights[t] :
                                    f[1] \in AnswerCalls /\ verdict[f[1]][f[2]] = "ok"})
    BY <2>1, UnservedIsLeft
  <2>3. OverheadIsUnserved'
    BY <2>1, <2>2 DEF OverheadIsUnserved
  <2> QED BY <2>1, <2>3 DEF OverInv
<1>2. CASE ~RunEnds
  <2>1. CASE ~over
    <3>1. ~over'
      BY <1>2, <2>1 DEF ClientNext, clientVars, Offload, Unconfigured, AttemptFails, Retry,
                        AttemptSucceeds, BodyUnreadable, StreamItem, Tick
    <3> QED BY <3>1 DEF OverInv
  <2>2. CASE over
    <3>1. \A c \in Calls : phase[c] \in {"new", "streaming", "done"}
      BY <2>2 DEF OverInv
    <3>2. ASSUME NEW c \in Calls, NEW item \in Items, StreamItem(c, item) PROVE OverInv'
      <4>1. UNCHANGED <<verdict, clock, flights, over, overhead>>
        BY <3>2 DEF StreamItem
      <4>2. \A d \in Calls : phase'[d] \in {"new", "streaming", "done"}
        BY <3>1, <3>2 DEF StreamItem, ClientInv
      <4> QED BY <4>1, <4>2 DEF OverInv, OverheadIsUnserved
    <3>3. CASE UNCHANGED clientVars
      BY <3>3 DEF clientVars, OverInv, OverheadIsUnserved
    <3>4. \A c \in Calls : ~(Offload(c) \/ Unconfigured(c) \/ Retry(c) \/ AttemptSucceeds(c)
                             \/ BodyUnreadable(c) \/ \E failure \in Faults : AttemptFails(c, failure))
      BY <2>2, <3>1 DEF Offload, Unconfigured, AttemptFails, Retry, AttemptSucceeds, BodyUnreadable
    <3>5. ~Tick
      BY <2>2 DEF Tick
    <3> QED BY <1>2, <3>2, <3>3, <3>4, <3>5 DEF ClientNext, Items
  <2> QED BY <2>1, <2>2
<1> QED BY <1>1, <1>2

\* The routing overhead a run reports is the time no used candidate was in flight.
THEOREM OverheadTells == ClientSpec => []OverheadIsUnserved
<1>1. ClientInit => ClientInv /\ FlightInv /\ OverInv
  BY ClientStarts, FlightStarts
<1>2. ClientInv /\ FlightInv /\ OverInv /\ [ClientNext]_clientVars =>
        ClientInv' /\ FlightInv' /\ OverInv'
  BY ClientStep, FlightStep, OverStep
<1>3. OverInv => OverheadIsUnserved
  BY DEF OverInv, OverheadIsUnserved
<1> QED BY <1>1, <1>2, <1>3, PTL DEF ClientSpec

\* All the client promises, for any calls, candidates, budgets and failures.
THEOREM ClientIsSound == ClientSpec => ClientSound
<1> QED BY FallbackIsJustified, OverheadTells, SpanTells, AnswersOnce, PTL DEF ClientSound
=============================================================================
