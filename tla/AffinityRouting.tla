--------------------------- MODULE AffinityRouting ---------------------------
(***************************************************************************)
(* A cascade with model affinity (libsy/src/algorithms/util/affinity.rs,   *)
(* util/subagent.rs, util/target_selector.rs, llm_class.rs                 *)
(* from_classifier, fall_through.rs route): an override for delegated      *)
(* work, the retained assignment of the request's identity, a judge that   *)
(* may have no usable verdict, and a default target.  The assignments are  *)
(* one map under a lock of its own, read when a request classifies and     *)
(* written when its decision is published; between the two a request with  *)
(* a session holds that session's state.  Who a request comes from is read *)
(* from its headers (RequestMetadata).                                     *)
(***************************************************************************)
EXTENDS Requests, RequestMetadata, Naturals, FiniteSets

CONSTANTS HeaderSets,        \* the headers requests come with
          Texts,             \* the hashes of their first user messages, or None
          Configs,           \* the affinity and override options a server may have
          Endpoints, Worker, Default,         \* Worker: the override's target
          MAX_ASSIGNMENTS

\* What is asked of the constants
AffinityAssumption ==
    /\ {Worker, Default} \subseteq Endpoints /\ MAX_ASSIGNMENTS \in Nat \ {0}
    /\ \A h \in HeaderSets : sy_header(h, "session") \in Session \cup {None}
    /\ \A c \in Configs : c.hash_fallback => ~c.subagents_only
    /\ None \notin Endpoints \cup Request /\ Texts \cap Session = {}
ASSUME AffinityAssumed == AffinityAssumption

VARIABLES
    config,       \* subagents_only, hash_fallback, latch_only, overrides
    who,          \* per request, its metadata, once it is there
    step,         \* "idle", "waiting", "classified", "judging", "decided", "gone"
    choice,       \* per request, the target its cascade scored
    lock,         \* per session, the request that holds its state
    assignments   \* identity -> model
affinityVars == <<config, who, step, choice, lock, assignments>>

-----------------------------------------------------------------------------
\* What a request's identity is read from
Metadata ==
    {[session |-> from_headers(h).session, agent |-> from_headers(h).agent,
      subagent |-> from_headers(h).subagent, work |-> from_headers(h).work, hash |-> t] :
        h \in HeaderSets, t \in Texts}

\* RoutingIdentity::from_request: a root by its session, a child by session and agent
RoutingIdentity(m) ==
    IF m.session = None THEN <<>>
    ELSE IF ~m.subagent THEN <<"session", m.session>>
    ELSE IF m.agent = None THEN <<>>
    ELSE <<"subagent", m.session, m.agent>>

\* AffinityRouter::affinity_key; <<>> is a request without an identity
affinity_key(m) ==
    IF config.subagents_only /\ ~m.subagent THEN <<>>
    ELSE IF RoutingIdentity(m) # <<>> THEN RoutingIdentity(m)
    ELSE IF ~m.subagent /\ config.hash_fallback /\ m.hash # None THEN <<"session", m.hash>>
    ELSE <<>>

\* The identities a key can be
Key == ({RoutingIdentity(m) : m \in Metadata} \cup {<<"session", m.hash>> : m \in {x \in Metadata : x.hash # None}}) \ {<<>>}
Held == {k \in Key : assignments[k] # None}

should_latch(model) == config.latch_only = {} \/ model \in config.latch_only

Init == /\ config \in Configs
        /\ who = [r \in Request |-> None] /\ step = [r \in Request |-> "idle"]
        /\ choice = [r \in Request |-> None] /\ lock = [s \in Session |-> None]
        /\ assignments = [k \in Key |-> None]

\* A request enters execute; without a session it has a state of its own
Enter(r, m) ==
    /\ step[r] = "idle"
    /\ who' = [who EXCEPT ![r] = m] /\ step' = [step EXCEPT ![r] = "waiting"]
    /\ UNCHANGED <<config, choice, lock, assignments>>

\* Waiting requests that read the session's assignment before they have its state
Takes_Late(r) == UNCHANGED lock

\* execute_session locks the session's state
Takes(r) == LET s == who[r].session
            IN  IF s = None THEN UNCHANGED lock
                ELSE lock[s] = None /\ lock' = [lock EXCEPT ![s] = r]
Releases(r) == LET s == who[r].session
               IN  IF s = None THEN UNCHANGED lock
                   ELSE lock' = [lock EXCEPT ![s] = None]

\* SubagentOverride score: a child's delegated work
Overridden(m) == config.overrides /\ m.subagent /\ m.work
\* AffinityRouter score: the retained assignment, if there is one
Assigned(m) == IF affinity_key(m) \in Held THEN assignments[affinity_key(m)] ELSE None

\* The cascade up to the judge, which is called when both abstain
Classify(r) ==
    /\ step[r] = "waiting" /\ Takes(r)
    /\ choice' = [choice EXCEPT ![r] = IF Overridden(who[r]) THEN Worker ELSE Assigned(who[r])]
    /\ step' = [step EXCEPT ![r] = IF choice'[r] = None THEN "judging" ELSE "classified"]
    /\ UNCHANGED <<config, who, assignments>>

\* The judge's verdict names a target, or is Ambiguous and the default closes
Judged(r, verdict) ==
    /\ step[r] = "judging"
    /\ choice' = [choice EXCEPT ![r] = IF verdict = None THEN Default ELSE verdict]
    /\ step' = [step EXCEPT ![r] = "classified"]
    /\ UNCHANGED <<config, who, lock, assignments>>

\* AffinityRouter::process with evict_if_full, which removes any one entry of a full map
Assign(key, model) ==
    IF key = <<>> \/ ~should_latch(model) \/ key \in Held
    THEN UNCHANGED assignments
    ELSE \E kept \in IF Cardinality(Held) < MAX_ASSIGNMENTS THEN {Held}
                     ELSE {Held \ {k} : k \in Held} :
           assignments' = [k \in Key |-> IF k = key THEN model
                                         ELSE IF k \in kept THEN assignments[k] ELSE None]

\* The decision is published and every processor sees it; the state is given back
\* before the answer call
Decide(r) ==
    /\ step[r] = "classified"
    /\ Assign(affinity_key(who[r]), choice[r])
    /\ Releases(r)
    /\ step' = [step EXCEPT ![r] = "decided"]
    /\ UNCHANGED <<config, who, choice>>

\* The run is dropped while the judge is called
Cancel(r) ==
    /\ step[r] = "judging" /\ Releases(r)
    /\ step' = [step EXCEPT ![r] = "gone"]
    /\ UNCHANGED <<config, who, choice, assignments>>

Next == \E r \in Request : \/ \E m \in Metadata : Enter(r, m)
                           \/ Classify(r) \/ Decide(r) \/ Cancel(r)
                           \/ \E verdict \in Endpoints \cup {None} : Judged(r, verdict)

Spec == Init /\ [][Next]_affinityVars

-----------------------------------------------------------------------------
\* A turn of a session, or of an agent in it, goes to the model its identity is
\* assigned.  Only an override outranks it.
FollowsAssignment ==
    \A r \in Request :
        LET m == who[r] key == affinity_key(m)
        IN  step[r] = "classified" /\ step'[r] = "decided" /\ m.session # None
            /\ key \in Held /\ ~Overridden(m)
            => choice[r] = assignments[key]

\* The first assignment of an identity stays until it is evicted, and only a full map evicts
KeepsFirst ==
    /\ \A k \in Held : assignments'[k] \in {assignments[k], None}
    /\ Cardinality(Held') =< MAX_ASSIGNMENTS
    /\ Held \ Held' # {} => Cardinality(Held) = MAX_ASSIGNMENTS

\* An identity is bound to a model some turn of that very identity was sent to
AssignedByItsOwn ==
    \A k \in Held : \E r \in Request :
        /\ step[r] = "decided" /\ choice[r] = assignments[k]
        /\ IF k[1] = "subagent" THEN who[r].subagent /\ who[r].session = k[2] /\ who[r].agent = k[3]
           ELSE ~who[r].subagent /\ k[2] \in {who[r].session, who[r].hash}

(***************************************************************************)
(* Affinity is sound under concurrent turns (AffinityRouter's doc): a turn *)
(* goes where its identity is assigned whatever other turns of it were     *)
(* being judged at the same time, because the session's state is held from *)
(* reading the assignment to writing it; the first assignment wins and is  *)
(* kept within the map's bound; and a child never binds its parent's       *)
(* session nor a sibling's agent.                                          *)
(***************************************************************************)
AffinitySound ==
    /\ []AssignedByItsOwn
    /\ [][FollowsAssignment /\ KeepsFirst]_affinityVars

=============================================================================
