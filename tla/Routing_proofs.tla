--------------------------- MODULE Routing_proofs ---------------------------
(***************************************************************************)
(* What the routing algorithms promise: affinity, escalation and the       *)
(* stage router, each for any number of requests and sessions, and what    *)
(* the judges of the last two are shown, for conversations of any length.  *)
(***************************************************************************)
EXTENDS AffinityRouting, EscalationRouting, StageRouting, JudgeContext, SumsAndSequences

-----------------------------------------------------------------------------
(***************************************************************************)
(* Affinity is sound for any number of requests, sessions, headers,        *)
(* options and assignments.                                                *)
(*                                                                         *)
(* The argument: a request with a session holds its state from reading the *)
(* assignment of its identity to writing it (HoldsState), and two requests *)
(* of one identity, one of which has a session, are of the same session    *)
(* (SameSession).  So nobody assigns a request's identity while it is      *)
(* being judged, and what it read is still there when it decides           *)
(* (ReadStands).                                                           *)
(***************************************************************************)
Steps == {"idle", "waiting", "classified", "judging", "decided", "gone"}

\* What each variable holds
AffinityTypeOK ==
    /\ config \in Configs
    /\ step \in [Request -> Steps]
    /\ DOMAIN who = Request
    /\ \A r \in Request : step[r] # "idle" => who[r] \in Metadata
    /\ choice \in [Request -> Endpoints \cup {None}]
    /\ lock \in [Session -> Request \cup {None}]
    /\ assignments \in [Key -> Endpoints \cup {None}]

Reading(r) == step[r] \in {"classified", "judging"} /\ who[r].session # None

\* A request that has read its session's assignment still has the session's state
HoldsState == \A r \in Request : Reading(r) => lock[who[r].session] = r

\* What such a request read still holds
ReadStands ==
    \A r \in Request :
        Reading(r) /\ affinity_key(who[r]) \in Held /\ ~Overridden(who[r])
        => step[r] = "classified" /\ choice[r] = assignments[affinity_key(who[r])]

Bounded == IsFiniteSet(Held) /\ Cardinality(Held) =< MAX_ASSIGNMENTS

AffinityInv == AffinityTypeOK /\ HoldsState /\ ReadStands /\ Bounded /\ AssignedByItsOwn

-----------------------------------------------------------------------------
(* Identities.                                                             *)

\* Identities and metadata depend on the constants alone (affinity.rs).
LEMMA KeyIsConstant == Key' = Key /\ Metadata' = Metadata
  BY DEF Key, Metadata, RoutingIdentity

\* A session the headers name is one of the sessions
LEMMA SessionKnown == \A m \in Metadata : m.session \in Session \cup {None} /\ m.hash \in Texts
  BY AffinityAssumed DEF AffinityAssumption, Metadata, from_headers

\* An identity is one the request's headers spell, or none (affinity_key).
LEMMA KeyKnown == \A m \in Metadata : affinity_key(m) \in Key \cup {<<>>}
<1> TAKE m \in Metadata
<1>1. CASE affinity_key(m) = <<>>
  BY <1>1
<1>2. CASE affinity_key(m) = RoutingIdentity(m)
  BY <1>2 DEF Key
<1>3. CASE affinity_key(m) = <<"session", m.hash>> /\ m.hash # None
  BY <1>3 DEF Key
<1> QED BY <1>1, <1>2, <1>3 DEF affinity_key

\* An identity that comes with a session names it
LEMMA KeyNamesSession ==
    \A m \in Metadata : m.session # None /\ affinity_key(m) # <<>> =>
        /\ affinity_key(m)[2] = m.session
  BY DEF affinity_key, RoutingIdentity

\* Two requests of one identity are of one session, if one of them has a session
LEMMA SameSession ==
    \A m, n \in Metadata :
        m.session # None /\ affinity_key(m) # <<>> /\ affinity_key(n) = affinity_key(m)
        => n.session = m.session
<1> SUFFICES ASSUME NEW m \in Metadata, NEW n \in Metadata,
                    m.session # None, affinity_key(m) # <<>>, affinity_key(n) = affinity_key(m)
             PROVE  n.session = m.session
  OBVIOUS
<1>1. affinity_key(m)[2] = m.session
  BY KeyNamesSession
<1>2. CASE n.session # None
  BY <1>1, <1>2, KeyNamesSession
<1>3. CASE n.session = None
  <2>1. affinity_key(n) = <<"session", n.hash>>
    BY <1>3 DEF affinity_key, RoutingIdentity
  <2>2. n.hash = m.session
    BY <1>1, <2>1
  <2> QED BY <2>2, SessionKnown, AffinityAssumed DEF AffinityAssumption
<1> QED BY <1>2, <1>3

-----------------------------------------------------------------------------
(* Assigning.                                                              *)

\* What one assignment may change
LEMMA AssignOnly ==
    ASSUME assignments \in [Key -> Endpoints \cup {None}],
           NEW key \in Key \cup {<<>>}, NEW model \in Endpoints \cup {None}, Assign(key, model)
    PROVE  /\ assignments' \in [Key -> Endpoints \cup {None}]
           /\ \A k \in Held : assignments'[k] \in {assignments[k], None}
           /\ \A k \in Held' : \/ k \in Held /\ assignments'[k] = assignments[k]
                               \/ k = key /\ k \notin Held /\ assignments'[k] = model
<1>1. CASE UNCHANGED assignments
  BY <1>1, KeyIsConstant DEF Held
<1>2. CASE ~(key = <<>> \/ ~should_latch(model) \/ key \in Held)
  <2>1. PICK kept \in (IF Cardinality(Held) < MAX_ASSIGNMENTS THEN {Held}
                        ELSE {Held \ {k} : k \in Held}) :
          assignments' = [k \in Key |-> IF k = key THEN model
                                        ELSE IF k \in kept THEN assignments[k] ELSE None]
    BY <1>2 DEF Assign
  <2>2. kept \subseteq Held /\ Held \subseteq Key
    BY <2>1 DEF Held
  <2>3. \A k \in Held' : k \in Key /\ assignments'[k] # None
    BY KeyIsConstant DEF Held
  <2> QED BY <1>2, <2>1, <2>2, <2>3, KeyIsConstant
<1> QED BY <1>1, <1>2 DEF Assign

\* The map stays within its bound, and only a full one loses an entry
LEMMA AssignBounded ==
    ASSUME assignments \in [Key -> Endpoints \cup {None}], Bounded,
           NEW key \in Key \cup {<<>>}, NEW model \in Endpoints \cup {None}, Assign(key, model)
    PROVE  Bounded' /\ (Held \ Held' # {} => Cardinality(Held) = MAX_ASSIGNMENTS)
<1>0. MAX_ASSIGNMENTS \in Nat \ {0} /\ IsFiniteSet(Held) /\ Cardinality(Held) \in Nat
      /\ Cardinality(Held) =< MAX_ASSIGNMENTS
  BY AffinityAssumed, FS_CardinalityType DEF AffinityAssumption, Bounded
<1>1. CASE UNCHANGED assignments
  <2>1. Held' = Held
    BY <1>1, KeyIsConstant DEF Held
  <2> QED BY <2>1 DEF Bounded
<1>2. CASE ~(key = <<>> \/ ~should_latch(model) \/ key \in Held)
  <2>1. PICK kept \in (IF Cardinality(Held) < MAX_ASSIGNMENTS THEN {Held}
                        ELSE {Held \ {k} : k \in Held}) :
          assignments' = [k \in Key |-> IF k = key THEN model
                                        ELSE IF k \in kept THEN assignments[k] ELSE None]
    BY <1>2 DEF Assign
  <2>2. kept \subseteq Held /\ Held \subseteq Key
    BY <2>1 DEF Held
  <2>3. Held' \subseteq kept \cup {key}
    BY <2>1, <2>2, KeyIsConstant DEF Held
  <2>4. IsFiniteSet(kept) /\ Cardinality(kept) \in Nat /\ Cardinality(kept) =< MAX_ASSIGNMENTS - 1
    <3>1. CASE Cardinality(Held) < MAX_ASSIGNMENTS
      BY <1>0, <2>1, <3>1
    <3>2. CASE ~(Cardinality(Held) < MAX_ASSIGNMENTS)
      <4>1. PICK k \in Held : kept = Held \ {k}
        BY <2>1, <3>2
      <4>2. IsFiniteSet(kept) /\ Cardinality(kept) = Cardinality(Held) - 1
        BY <1>0, <4>1, FS_RemoveElement
      <4> QED BY <1>0, <4>2, FS_CardinalityType
    <3> QED BY <3>1, <3>2
  <2>5. IsFiniteSet(kept \cup {key}) /\ Cardinality(kept \cup {key}) =< MAX_ASSIGNMENTS
    <3>1. IsFiniteSet(kept \cup {key})
          /\ Cardinality(kept \cup {key}) = (IF key \in kept THEN Cardinality(kept) ELSE Cardinality(kept) + 1)
      BY <2>4, FS_AddElement
    <3> QED BY <1>0, <2>4, <3>1
  <2>6. IsFiniteSet(Held') /\ Cardinality(Held') =< Cardinality(kept \cup {key})
    BY <2>3, <2>5, FS_Subset
  <2>7. Bounded'
    <3>1. Cardinality(Held') \in Nat /\ Cardinality(kept \cup {key}) \in Nat
      BY <2>5, <2>6, FS_CardinalityType
    <3> QED BY <1>0, <2>5, <2>6, <3>1 DEF Bounded
  <2>8. ASSUME Held \ Held' # {} PROVE Cardinality(Held) = MAX_ASSIGNMENTS
    <3>1. CASE Cardinality(Held) < MAX_ASSIGNMENTS
      <4>1. kept = Held
        BY <2>1, <3>1
      <4>2. \A k \in Held : k \in Key /\ k # key /\ assignments'[k] = assignments[k]
        BY <1>2, <2>1, <2>2, <4>1
      <4>3. \A k \in Held : assignments[k] # None
        BY DEF Held
      <4>4. \A k \in Held : k \in Held'
        BY <4>2, <4>3, KeyIsConstant DEF Held
      <4> QED BY <2>8, <4>4
    <3> QED BY <1>0, <3>1
  <2> QED BY <2>7, <2>8
<1> QED BY <1>1, <1>2 DEF Assign

-----------------------------------------------------------------------------
(* Steps.                                                                  *)

\* A request that stays as it is keeps its identity
LEMMA SameRequest ==
    ASSUME NEW q \in Request, config' = config, who'[q] = who[q]
    PROVE  /\ affinity_key(who[q])' = affinity_key(who[q])
           /\ Overridden(who[q])' = Overridden(who[q])
<1>1. RoutingIdentity(who[q])' = RoutingIdentity(who[q])
  BY DEF RoutingIdentity
<1> QED BY <1>1 DEF affinity_key, Overridden

\* A step is of one request, and no other request changes by it
LEMMA OfOneRequest ==
    ASSUME AffinityTypeOK, [Next]_affinityVars
    PROVE  /\ config' = config
           /\ \/ UNCHANGED affinityVars
              \/ \E r \in Request :
                    /\ \/ \E m \in Metadata : Enter(r, m)
                       \/ Classify(r) \/ Decide(r) \/ Cancel(r)
                       \/ \E verdict \in Endpoints \cup {None} : Judged(r, verdict)
                    /\ \A q \in Request \ {r} :
                          step'[q] = step[q] /\ choice'[q] = choice[q] /\ who'[q] = who[q]
  BY DEF AffinityTypeOK, Next, affinityVars, Enter, Classify, Decide, Cancel, Judged

\* What a request's cascade reads is a target or nothing
LEMMA AssignedKnown ==
    ASSUME AffinityTypeOK, NEW m
    PROVE  Assigned(m) \in Endpoints \cup {None}
  BY DEF AffinityTypeOK, Assigned, Held

\* Every variable keeps holding what AffinityTypeOK says
THEOREM TypeCorrect == AffinityTypeOK /\ [Next]_affinityVars => AffinityTypeOK'
<1> SUFFICES ASSUME AffinityTypeOK, [Next]_affinityVars PROVE AffinityTypeOK'
  OBVIOUS
<1> USE KeyIsConstant
<1>1. CASE UNCHANGED affinityVars
  BY <1>1 DEF AffinityTypeOK, affinityVars
<1>2. ASSUME NEW r \in Request, NEW m \in Metadata, Enter(r, m) PROVE AffinityTypeOK'
  BY <1>2 DEF AffinityTypeOK, Enter, Steps
<1>3. ASSUME NEW r \in Request, Classify(r) PROVE AffinityTypeOK'
  <2>1. who[r] \in Metadata /\ who[r].session \in Session \cup {None}
    BY <1>3, SessionKnown DEF AffinityTypeOK, Classify
  <2>2. lock' \in [Session -> Request \cup {None}]
    BY <1>3, <2>1 DEF AffinityTypeOK, Classify, Takes
  <2>3. choice' \in [Request -> Endpoints \cup {None}]
    BY <1>3, AssignedKnown, AffinityAssumed DEF AffinityTypeOK, Classify, AffinityAssumption
  <2> QED BY <1>3, <2>2, <2>3 DEF AffinityTypeOK, Classify, Steps
<1>4. ASSUME NEW r \in Request, Decide(r) PROVE AffinityTypeOK'
  <2>1. who[r] \in Metadata /\ who[r].session \in Session \cup {None}
    BY <1>4, SessionKnown DEF AffinityTypeOK, Decide
  <2>2. lock' \in [Session -> Request \cup {None}]
    BY <1>4, <2>1 DEF AffinityTypeOK, Decide, Releases
  <2>3. affinity_key(who[r]) \in Key \cup {<<>>} /\ choice[r] \in Endpoints \cup {None}
    BY <2>1, KeyKnown DEF AffinityTypeOK
  <2>4. assignments' \in [Key -> Endpoints \cup {None}]
    BY <1>4, <2>3, AssignOnly DEF AffinityTypeOK, Decide
  <2> QED BY <1>4, <2>2, <2>4 DEF AffinityTypeOK, Decide, Steps
<1>5. ASSUME NEW r \in Request, Cancel(r) PROVE AffinityTypeOK'
  <2>1. who[r] \in Metadata /\ who[r].session \in Session \cup {None}
    BY <1>5, SessionKnown DEF AffinityTypeOK, Cancel
  <2>2. lock' \in [Session -> Request \cup {None}]
    BY <1>5, <2>1 DEF AffinityTypeOK, Cancel, Releases
  <2> QED BY <1>5, <2>2 DEF AffinityTypeOK, Cancel, Steps
<1>6. ASSUME NEW r \in Request, NEW verdict \in Endpoints \cup {None}, Judged(r, verdict)
      PROVE AffinityTypeOK'
  BY <1>6, AffinityAssumed DEF AffinityTypeOK, Judged, Steps, AffinityAssumption
<1> QED BY <1>1, <1>2, <1>3, <1>4, <1>5, <1>6 DEF Next

\* From reading its session's assignment to writing it, a request has the session's state
LEMMA AffinityHeld ==
    ASSUME AffinityTypeOK, HoldsState, [Next]_affinityVars PROVE HoldsState'
<1>1. CASE UNCHANGED affinityVars
  BY <1>1 DEF HoldsState, Reading, affinityVars
<1>2. ASSUME NEW r \in Request, \A q \in Request \ {r} : step'[q] = step[q] /\ who'[q] = who[q],
             UNCHANGED lock, Reading(r)' => Reading(r) /\ who'[r] = who[r]
      PROVE  HoldsState'
  BY <1>2 DEF HoldsState, Reading
<1>3. ASSUME NEW r \in Request, \A q \in Request \ {r} : step'[q] = step[q] /\ who'[q] = who[q],
             ~Reading(r)', Releases(r), step[r] \in {"classified", "judging"}
      PROVE  HoldsState'
  <2> SUFFICES ASSUME NEW q \in Request, Reading(q)' PROVE lock'[who'[q].session] = q
    BY DEF HoldsState
  <2>1. q # r /\ Reading(q) /\ who'[q] = who[q] /\ lock[who[q].session] = q
    BY <1>3 DEF Reading, HoldsState
  <2>2. CASE who[r].session = None
    BY <1>3, <2>1, <2>2 DEF Releases
  <2>3. CASE who[r].session # None
    <3>1. lock[who[r].session] = r
      BY <1>3, <2>3 DEF HoldsState, Reading
    <3>2. who[q].session # who[r].session
      BY <2>1, <3>1
    <3>3. who[q] \in Metadata /\ who[q].session \in Session \cup {None} /\ who[q].session # None
      BY <2>1, SessionKnown DEF AffinityTypeOK, Reading
    <3> QED BY <1>3, <2>1, <2>3, <3>2, <3>3 DEF Releases, AffinityTypeOK
  <2> QED BY <2>2, <2>3
<1>4. ASSUME NEW r \in Request, \A q \in Request \ {r} : step'[q] = step[q] /\ who'[q] = who[q],
             Classify(r)
      PROVE  HoldsState'
  <2> SUFFICES ASSUME NEW q \in Request, Reading(q)' PROVE lock'[who'[q].session] = q
    BY DEF HoldsState
  <2>1. who'[q] = who[q] /\ who[q].session # None
    BY <1>4 DEF Classify, Reading
  <2>2. CASE q = r
    <3>1. who[r] \in Metadata
      BY <1>4 DEF AffinityTypeOK, Classify
    <3>2. who[r].session \in Session
      BY <2>1, <2>2, <3>1, SessionKnown
    <3> QED BY <1>4, <2>1, <2>2, <3>2 DEF Classify, Takes, AffinityTypeOK
  <2>3. CASE q # r
    <3>1. Reading(q) /\ lock[who[q].session] = q
      BY <1>4, <2>1, <2>3 DEF Reading, HoldsState
    <3>2. q # None
      BY AffinityAssumed DEF AffinityAssumption
    <3>3. who[q] \in Metadata
      BY <3>1 DEF AffinityTypeOK, Reading
    <3>4. who[q].session \in Session
      BY <2>1, <3>3, SessionKnown
    <3> QED BY <1>4, <2>1, <3>1, <3>2, <3>4 DEF Classify, Takes, AffinityTypeOK
  <2> QED BY <2>2, <2>3
<1>5. ASSUME NEW r \in Request,
             \/ \E m \in Metadata : Enter(r, m)
             \/ \E verdict \in Endpoints \cup {None} : Judged(r, verdict)
      PROVE  UNCHANGED lock /\ (Reading(r)' => Reading(r) /\ who'[r] = who[r])
  BY <1>5 DEF AffinityTypeOK, Enter, Judged, Reading
<1>6. ASSUME NEW r \in Request, Decide(r) \/ Cancel(r)
      PROVE  ~Reading(r)' /\ Releases(r) /\ step[r] \in {"classified", "judging"}
  BY <1>6 DEF AffinityTypeOK, Decide, Cancel, Reading
<1> QED BY <1>1, <1>2, <1>3, <1>4, <1>5, <1>6, OfOneRequest

\* Nobody assigns an identity while a request of its session has read it and not yet decided
LEMMA ReadStays ==
    ASSUME AffinityInv, [Next]_affinityVars PROVE ReadStands'
<1> USE DEF AffinityInv
<1>1. CASE UNCHANGED affinityVars
  <2>1. Held' = Held
    BY <1>1, KeyIsConstant DEF Held, affinityVars
  <2> QED BY <1>1, <2>1, SameRequest DEF ReadStands, Reading, affinityVars
<1>2. ASSUME NEW r \in Request,
             \A q \in Request \ {r} :
                step'[q] = step[q] /\ choice'[q] = choice[q] /\ who'[q] = who[q],
             config' = config,
             \/ \E m \in Metadata : Enter(r, m)
             \/ Classify(r) \/ Decide(r) \/ Cancel(r)
             \/ \E verdict \in Endpoints \cup {None} : Judged(r, verdict)
      PROVE  ReadStands'
  <2> SUFFICES ASSUME NEW q \in Request, Reading(q)', affinity_key(who[q])' \in Held',
                      ~Overridden(who[q])'
               PROVE  step'[q] = "classified" /\ choice'[q] = assignments'[affinity_key(who[q])']
    BY DEF ReadStands
  <2>1. ~\E m \in Metadata : Enter(q, m)
    BY DEF Enter, AffinityTypeOK, Reading
  <2>2. who'[q] = who[q]
    BY <1>2, <2>1 DEF Classify, Decide, Cancel, Judged
  <2>3. affinity_key(who[q])' = affinity_key(who[q]) /\ Overridden(who[q])' = Overridden(who[q])
    BY <1>2, <2>2, SameRequest
  <2>4. ASSUME ~Decide(r) PROVE UNCHANGED assignments /\ Held' = Held
    <3>1. UNCHANGED assignments
      BY <1>2, <2>4 DEF Enter, Classify, Cancel, Judged
    <3> QED BY <3>1, KeyIsConstant DEF Held
  <2>5. CASE q = r
    <3>1. Classify(r) \/ \E verdict \in Endpoints \cup {None} : Judged(r, verdict)
      BY <1>2, <2>1, <2>5 DEF Decide, Cancel, Reading, AffinityTypeOK
    <3>2. ~Decide(r)
      BY <3>1 DEF Classify, Judged, Decide
    <3>3. CASE Classify(r)
      <4>1. choice'[r] = assignments[affinity_key(who[r])] /\ choice'[r] # None
        BY <2>3, <2>4, <2>5, <3>2, <3>3 DEF Classify, Assigned, AffinityTypeOK, Held
      <4>2. step'[r] = "classified"
        BY <3>3, <4>1 DEF Classify, AffinityTypeOK
      <4> QED BY <2>3, <2>4, <2>5, <3>2, <4>1, <4>2
    <3>4. CASE \E verdict \in Endpoints \cup {None} : Judged(r, verdict)
      <4>1. Reading(r) /\ step[r] = "judging"
        BY <2>2, <2>5, <3>4 DEF Judged, Reading
      <4>2. affinity_key(who[r]) \in Held /\ ~Overridden(who[r])
        BY <2>3, <2>4, <2>5, <3>2
      <4> QED BY <4>1, <4>2 DEF ReadStands
    <3> QED BY <3>1, <3>3, <3>4
  <2>6. CASE q # r
    <3>1. Reading(q) /\ step'[q] = step[q] /\ choice'[q] = choice[q]
      BY <1>2, <2>2, <2>6 DEF Reading
    <3>2. CASE ~Decide(r)
      BY <2>3, <2>4, <3>1, <3>2 DEF ReadStands
    <3>3. CASE Decide(r)
      <4>1. who[q] \in Metadata /\ who[r] \in Metadata /\ who[q].session # None
            /\ step[r] = "classified"
        BY <3>1, <3>3 DEF Reading, AffinityTypeOK, Decide
      <4>2. affinity_key(who[r]) \in Key \cup {<<>>} /\ choice[r] \in Endpoints \cup {None}
        BY <4>1, KeyKnown DEF AffinityTypeOK
      <4>3. \/ affinity_key(who[q]) \in Held
               /\ assignments'[affinity_key(who[q])] = assignments[affinity_key(who[q])]
            \/ affinity_key(who[q]) = affinity_key(who[r]) /\ affinity_key(who[q]) # <<>>
        <5>1. \A k \in Held' : \/ k \in Held /\ assignments'[k] = assignments[k]
                               \/ k = affinity_key(who[r]) /\ k \notin Held /\ assignments'[k] = choice[r]
          BY <3>3, <4>2, AssignOnly DEF AffinityTypeOK, Decide
        <5>2. \A k \in Held' : k # <<>>
          BY KeyIsConstant DEF Held, Key
        <5> QED BY <2>3, <5>1, <5>2
      <4>4. ASSUME affinity_key(who[q]) = affinity_key(who[r]), affinity_key(who[q]) # <<>>
            PROVE  FALSE
        <5>1. who[r].session = who[q].session
          BY <4>1, <4>4, SameSession
        <5>2. Reading(r)
          BY <4>1, <5>1 DEF Reading
        <5>3. lock[who[q].session] = q /\ lock[who[r].session] = r
          BY <3>1, <5>2 DEF HoldsState
        <5> QED BY <2>6, <5>1, <5>3
      <4> QED BY <2>3, <3>1, <4>3, <4>4 DEF ReadStands
    <3> QED BY <3>2, <3>3
  <2> QED BY <2>5, <2>6
<1> QED BY <1>1, <1>2, OfOneRequest

\* The identity of a child is its own, and of a root its session's or its message's
LEMMA KeyIsOwn ==
    \A m \in Metadata :
        LET k == affinity_key(m)
        IN  k # <<>> => IF k[1] = "subagent" THEN m.subagent /\ m.session = k[2] /\ m.agent = k[3]
                        ELSE ~m.subagent /\ k[2] \in {m.session, m.hash}
  BY DEF affinity_key, RoutingIdentity

\* The map changes with a decision alone
LEMMA StepAssigns ==
    ASSUME AffinityTypeOK, Bounded, [Next]_affinityVars
    PROVE  /\ KeepsFirst /\ Bounded'
           /\ \A k \in Held' :
                 \/ k \in Held /\ assignments'[k] = assignments[k]
                 \/ \E r \in Request :
                       Decide(r) /\ k = affinity_key(who[r]) /\ assignments'[k] = choice[r]
<1>1. CASE UNCHANGED assignments
  <2>1. Held' = Held
    BY <1>1, KeyIsConstant DEF Held
  <2> QED BY <1>1, <2>1 DEF Bounded, KeepsFirst
<1>2. ASSUME NEW r \in Request, Decide(r)
      PROVE  /\ KeepsFirst /\ Bounded'
             /\ \A k \in Held' :
                   \/ k \in Held /\ assignments'[k] = assignments[k]
                   \/ k = affinity_key(who[r]) /\ assignments'[k] = choice[r]
  <2>1. who[r] \in Metadata
    BY <1>2 DEF AffinityTypeOK, Decide
  <2>2. affinity_key(who[r]) \in Key \cup {<<>>} /\ choice[r] \in Endpoints \cup {None}
    BY <2>1, KeyKnown DEF AffinityTypeOK
  <2>3. assignments \in [Key -> Endpoints \cup {None}] /\ Assign(affinity_key(who[r]), choice[r])
    BY <1>2 DEF AffinityTypeOK, Decide
  <2>4. Bounded' /\ (Held \ Held' # {} => Cardinality(Held) = MAX_ASSIGNMENTS)
    BY <2>2, <2>3, AssignBounded
  <2>5. /\ \A k \in Held : assignments'[k] \in {assignments[k], None}
        /\ \A k \in Held' : \/ k \in Held /\ assignments'[k] = assignments[k]
                            \/ k = affinity_key(who[r]) /\ k \notin Held /\ assignments'[k] = choice[r]
    BY <2>2, <2>3, AssignOnly
  <2> QED BY <2>4, <2>5 DEF KeepsFirst, Bounded
<1>3. UNCHANGED assignments \/ \E r \in Request : Decide(r)
  BY DEF Next, affinityVars, Enter, Classify, Cancel, Judged
<1> QED BY <1>1, <1>2, <1>3

\* An identity's assignment is a model one of its own turns was sent to
LEMMA OwnAssigned ==
    ASSUME AffinityInv, [Next]_affinityVars PROVE AssignedByItsOwn'
<1> SUFFICES ASSUME NEW k \in Held'
             PROVE  \E r \in Request :
                      /\ step'[r] = "decided" /\ choice'[r] = assignments'[k]
                      /\ IF k[1] = "subagent"
                         THEN who'[r].subagent /\ who'[r].session = k[2] /\ who'[r].agent = k[3]
                         ELSE ~who'[r].subagent /\ k[2] \in {who'[r].session, who'[r].hash}
  BY DEF AssignedByItsOwn
<1> USE DEF AffinityInv
<1>1. \A r \in Request : step[r] = "decided" =>
        step'[r] = "decided" /\ choice'[r] = choice[r] /\ who'[r] = who[r]
  BY DEF AffinityTypeOK, Next, affinityVars, Enter, Classify, Decide, Cancel, Judged
<1>2. CASE k \in Held /\ assignments'[k] = assignments[k]
  <2>1. PICK r \in Request :
          /\ step[r] = "decided" /\ choice[r] = assignments[k]
          /\ IF k[1] = "subagent" THEN who[r].subagent /\ who[r].session = k[2] /\ who[r].agent = k[3]
             ELSE ~who[r].subagent /\ k[2] \in {who[r].session, who[r].hash}
    BY <1>2 DEF AssignedByItsOwn
  <2> QED BY <1>1, <1>2, <2>1
<1>3. ASSUME NEW r \in Request, Decide(r), k = affinity_key(who[r]), assignments'[k] = choice[r]
      PROVE  /\ step'[r] = "decided" /\ choice'[r] = assignments'[k]
             /\ IF k[1] = "subagent"
                THEN who'[r].subagent /\ who'[r].session = k[2] /\ who'[r].agent = k[3]
                ELSE ~who'[r].subagent /\ k[2] \in {who'[r].session, who'[r].hash}
  <2>1. step'[r] = "decided" /\ choice'[r] = choice[r] /\ who' = who /\ who[r] \in Metadata
    BY <1>3 DEF AffinityTypeOK, Decide
  <2>2. k # <<>>
    BY KeyIsConstant DEF Held, Key
  <2> QED BY <1>3, <2>1, <2>2, KeyIsOwn
<1> QED BY <1>2, <1>3, StepAssigns

-----------------------------------------------------------------------------
(* The invariant, and what it says of every behaviour.                     *)

\* It holds before any request.
LEMMA AffinityStarts == Init => AffinityInv
<1> SUFFICES ASSUME Init PROVE AffinityInv
  OBVIOUS
<1>1. AffinityTypeOK
  BY DEF Init, AffinityTypeOK, Steps
<1>2. HoldsState /\ ReadStands
  BY DEF Init, HoldsState, ReadStands, Reading
<1>3. Held = {}
  BY DEF Init, Held
<1>4. Bounded
  BY <1>3, FS_EmptySet, AffinityAssumed DEF Bounded, AffinityAssumption
<1> QED BY <1>1, <1>2, <1>3, <1>4 DEF AffinityInv, AssignedByItsOwn

\* A turn goes where its identity is assigned, the first assignment of an identity stays
\* until a full map evicts it, and it names a model one of the identity's own turns went
\* to, whatever the requests, their headers, the options and the map's limit
THEOREM AffinityIsSound == Spec => AffinitySound
<1>1. Init => AffinityInv
  BY AffinityStarts
<1>2. AffinityInv /\ [Next]_affinityVars => AffinityInv'
  BY TypeCorrect, AffinityHeld, ReadStays, StepAssigns, OwnAssigned DEF AffinityInv
<1>3. AffinityInv /\ [Next]_affinityVars => [FollowsAssignment /\ KeepsFirst]_affinityVars
  <2>1. AffinityInv => FollowsAssignment
    BY DEF AffinityInv, FollowsAssignment, ReadStands, Reading
  <2> QED BY <2>1, StepAssigns DEF AffinityInv
<1>4. AffinityInv => AssignedByItsOwn
  BY DEF AffinityInv
<1> QED BY <1>1, <1>2, <1>3, <1>4, PTL DEF Spec, AffinitySound

-----------------------------------------------------------------------------
(***************************************************************************)
(* What the escalation classifier promises, for any number of turns,       *)
(* sessions and confirmations.                                             *)
(*                                                                         *)
(* The argument: a turn with a session holds its state from before it      *)
(* reads the streak until the verdict is written (StateHeld), so a streak  *)
(* that was short of the confirmations when the turn was sent to the       *)
(* efficient model still is when the turn is judged (Short).  The streak   *)
(* is therefore written by one turn after the other (Counted), never grows *)
(* past the confirmations, and once it got there nobody writes it again,   *)
(* which is what an escalated turn relies on (Paid).                       *)
(***************************************************************************)
Step == {"idle", "waiting", "scoring", "efficient", "buffering", "judging", "done", "failed", "gone"}
Verdict == {"escalate", "decline", "unavailable"}
Turn == [session : Session \cup {None}, step : Step, paid : Seq({"efficient", "capable"}),
         served : {"none", "efficient", "capable"},
         why : {"none", "latched", "unusable", "judged"} \cup Verdict]

\* What each variable holds
EscalationTypeOK ==
    /\ streak \in [Session -> Nat]
    /\ held_by \in [Session -> Request \cup {None}]
    /\ turns \in [Request -> Turn]
    /\ verdicts \in [Session -> Seq({"escalate", "decline"})]

\* The turns that may read or write the streak
HasState(r) == turns[r].step \in {"scoring", "efficient", "buffering", "judging"}

\* Such a turn has its session's state
StateHeld == \A r \in Request : HasState(r) => \A s \in Own(r) : held_by[s] = r

\* A turn sent to the efficient model is of a session that is not yet confirmed
Short == \A r \in Request :
            turns[r].step \in {"efficient", "buffering", "judging"} => Streak(r) < confirmations

\* The positions of the declines among a session's verdicts, and its last one
Declines(s) == {i \in DOMAIN verdicts[s] : verdicts[s][i] = "decline"}
LastDecline(s, i) == i \in Declines(s) /\ \A j \in Declines(s) : j =< i

\* The streak counts the verdicts after the last decline
Counted ==
    \A s \in Session :
        /\ streak[s] =< confirmations
        /\ \/ Declines(s) = {} /\ streak[s] = Len(verdicts[s])
           \/ \E i \in Declines(s) : LastDecline(s, i) /\ streak[s] = Len(verdicts[s]) - i

\* What a turn has paid for, and why
PaidFor(t) ==
    /\ t.step \in {"idle", "waiting", "scoring"} => Len(t.paid) = 0 /\ t.why = "none"
    /\ t.step \in {"efficient", "buffering", "judging"} =>
         Len(t.paid) = 1 /\ t.paid[1] = "efficient" /\ t.why = "none"
    /\ t.step \in {"failed", "gone"} => Len(t.paid) =< 1 /\ t.why = "none"
    /\ t.step = "done" =>
         \/ Len(t.paid) = 1 /\ t.paid[1] = "capable" /\ t.served = "capable" /\ t.why = "latched"
         \/ Len(t.paid) = 1 /\ t.paid[1] = "efficient" /\ t.served = "efficient" /\ t.why \in Verdict
         \/ Len(t.paid) = 2 /\ t.paid[2] = "capable" /\ t.served = "capable"
            /\ t.why \in {"unusable", "judged"}

\* A turn the judge escalated is of a session that is confirmed, or needs one verdict
Confirms(r) ==
    turns[r].why = "judged" =>
        IF Own(r) = {} THEN confirmations = 1 ELSE streak[turns[r].session] = confirmations

Paid == \A r \in Request : PaidFor(turns[r]) /\ Confirms(r)

EscalationInv == EscalationTypeOK /\ StateHeld /\ Short /\ Counted /\ Paid

-----------------------------------------------------------------------------
(* Steps.                                                                  *)

\* The steps of one turn
TurnStep(r) ==
    \/ \E s \in Session \cup {None} : Arrive(r, s)
    \/ Start(r) \/ Score(r) \/ EfficientAnswers(r) \/ Leave(r)
    \/ \E error \in {"context_window", "transport", "timeout"} : Fails(r, error)
    \/ \E verdict \in Verdict : VerdictGiven(r, verdict)

\* A turn becomes t, and no other turn changes
Changed(r, t) == turns' = [turns EXCEPT ![r] = t] /\ t \in Turn

\* A turn that changed is the only one that did.
LEMMA Frame ==
    ASSUME EscalationTypeOK, NEW r \in Request, NEW t, Changed(r, t)
    PROVE  /\ turns' \in [Request -> Turn] /\ turns'[r] = t
           /\ \A q \in Request \ {r} : turns'[q] = turns[q]
  BY DEF Changed, EscalationTypeOK

\* What the session and the step of a turn become
LEMMA Becomes ==
    ASSUME EscalationTypeOK, NEW r \in Request,
           NEW s \in Session \cup {None}, NEW then \in Step,
           Changed(r, [turns[r] EXCEPT !.session = s, !.step = then])
    PROVE  /\ turns'[r].session = s /\ turns'[r].step = then
           /\ turns'[r].paid = turns[r].paid /\ turns'[r].served = turns[r].served
           /\ turns'[r].why = turns[r].why
<1> DEFINE t == [turns[r] EXCEPT !.session = s, !.step = then]
<1>1. turns[r] \in Turn
  BY DEF EscalationTypeOK
<1>2. turns'[r] = t
  BY Frame
<1> QED BY <1>1, <1>2 DEF Turn

\* What entering a turn changes (escalation.rs).
LEMMA EnterChanges ==
    ASSUME EscalationTypeOK, NEW r \in Request, NEW s \in Session \cup {None}, Arrive(r, s)
    PROVE  Changed(r, [turns[r] EXCEPT !.session = s, !.step = "waiting"])
  BY DEF Arrive, EscalationTypeOK, Turn, Step, Changed

\* A turn that goes on, fails or is dropped
LEMMA GoesOn ==
    ASSUME EscalationTypeOK, NEW r \in Request, NEW then \in Step,
           turns' = [turns EXCEPT ![r].step = then]
    PROVE  /\ turns' \in [Request -> Turn]
           /\ \A q \in Request \ {r} : turns'[q] = turns[q]
           /\ turns'[r].session = turns[r].session /\ turns'[r].step = then
           /\ turns'[r].paid = turns[r].paid /\ turns'[r].served = turns[r].served
           /\ turns'[r].why = turns[r].why
<1> DEFINE t == [turns[r] EXCEPT !.step = then]
<1>1. turns[r] \in Turn
  BY DEF EscalationTypeOK
<1>2. t \in Turn
  BY <1>1 DEF Turn
<1>3. Changed(r, t)
  BY <1>2 DEF Changed, EscalationTypeOK
<1>4. turns' \in [Request -> Turn] /\ turns'[r] = t /\ \A q \in Request \ {r} : turns'[q] = turns[q]
  BY <1>3, Frame
<1> QED BY <1>1, <1>4 DEF Turn

\* A turn that is sent to the efficient model, or that was served its answer
LEMMA EfficientChanges ==
    ASSUME EscalationTypeOK, NEW r \in Request,
           turns' = [turns EXCEPT ![r].step = "efficient", ![r].paid = <<"efficient">>]
    PROVE  /\ turns' \in [Request -> Turn]
           /\ \A q \in Request \ {r} : turns'[q] = turns[q]
           /\ turns'[r].session = turns[r].session /\ turns'[r].step = "efficient"
           /\ turns'[r].paid = <<"efficient">> /\ turns'[r].why = turns[r].why
<1> DEFINE t == [turns[r] EXCEPT !.step = "efficient", !.paid = <<"efficient">>]
<1>1. turns[r] \in Turn
  BY DEF EscalationTypeOK
<1>2. t \in Turn
  <2>1. <<"efficient">> \in Seq({"efficient", "capable"})
    OBVIOUS
  <2> QED BY <1>1, <2>1 DEF Turn, Step
<1>3. turns' = [turns EXCEPT ![r] = t]
  BY DEF EscalationTypeOK
<1>4. Changed(r, t)
  BY <1>2, <1>3 DEF Changed
<1>5. turns' \in [Request -> Turn] /\ turns'[r] = t /\ \A q \in Request \ {r} : turns'[q] = turns[q]
  BY <1>4, Frame
<1> QED BY <1>1, <1>5 DEF Turn

\* What serving a turn changes (escalation.rs).
LEMMA ServedChanges ==
    ASSUME EscalationTypeOK, NEW r \in Request, NEW verdict \in Verdict,
           turns' = [turns EXCEPT ![r].step = "done", ![r].served = "efficient", ![r].why = verdict]
    PROVE  /\ turns' \in [Request -> Turn]
           /\ \A q \in Request \ {r} : turns'[q] = turns[q]
           /\ turns'[r].session = turns[r].session /\ turns'[r].step = "done"
           /\ turns'[r].paid = turns[r].paid /\ turns'[r].served = "efficient"
           /\ turns'[r].why = verdict
<1> DEFINE t == [turns[r] EXCEPT !.step = "done", !.served = "efficient", !.why = verdict]
<1>1. turns[r] \in Turn
  BY DEF EscalationTypeOK
<1>2. t \in Turn
  BY <1>1 DEF Turn, Step
<1>3. turns' = [turns EXCEPT ![r] = t]
  BY DEF EscalationTypeOK
<1>4. Changed(r, t)
  BY <1>2, <1>3 DEF Changed
<1>5. turns' \in [Request -> Turn] /\ turns'[r] = t /\ \A q \in Request \ {r} : turns'[q] = turns[q]
  BY <1>4, Frame
<1> QED BY <1>1, <1>5 DEF Turn

\* What a turn served by the capable model changes (escalation.rs).
LEMMA CapableChanges ==
    ASSUME EscalationTypeOK, NEW r \in Request, NEW why \in {"latched", "unusable", "judged"},
           Capable(r, why)
    PROVE  /\ turns' \in [Request -> Turn]
           /\ \A q \in Request \ {r} : turns'[q] = turns[q]
           /\ turns'[r].session = turns[r].session /\ turns'[r].step = "done"
           /\ turns'[r].paid = Append(turns[r].paid, "capable") /\ turns'[r].served = "capable"
           /\ turns'[r].why = why
<1> DEFINE t == [turns[r] EXCEPT !.step = "done", !.served = "capable", !.why = why,
                                 !.paid = Append(turns[r].paid, "capable")]
<1>1. turns[r] \in Turn /\ Append(turns[r].paid, "capable") \in Seq({"efficient", "capable"})
  BY DEF EscalationTypeOK, Turn
<1>2. t \in Turn
  BY <1>1 DEF Turn, Step
<1>3. turns' = [turns EXCEPT ![r] = t]
  BY DEF Capable, EscalationTypeOK
<1>4. Changed(r, t)
  BY <1>2, <1>3 DEF Changed
<1>5. turns' \in [Request -> Turn] /\ turns'[r] = t /\ \A q \in Request \ {r} : turns'[q] = turns[q]
  BY <1>4, Frame
<1> QED BY <1>1, <1>5 DEF Turn

\* What a step makes of its turn: the ways of the code, in the order of EscalationNext
Entered(r) == /\ turns[r].step = "idle" /\ turns'[r].step = "waiting"
              /\ turns'[r].paid = turns[r].paid /\ turns'[r].why = turns[r].why
              /\ UNCHANGED <<held_by, streak, verdicts>>
Same(r) == turns'[r].session = turns[r].session
Waited(r, from, to) == /\ turns[r].step \in from /\ turns'[r].step = to
                       /\ Same(r) /\ turns'[r].paid = turns[r].paid /\ turns'[r].why = turns[r].why
Sent(r) == /\ turns[r].step = "scoring" /\ turns'[r].step = "efficient" /\ Same(r)
           /\ turns'[r].paid = <<"efficient">> /\ turns'[r].why = turns[r].why
           /\ Streak(r) < confirmations
Escalated(r, from, why) ==
    /\ turns[r].step \in from /\ turns'[r].step = "done" /\ Same(r)
    /\ turns'[r].paid = Append(turns[r].paid, "capable") /\ turns'[r].served = "capable"
    /\ turns'[r].why = why
Served(r, verdict) ==
    /\ turns[r].step = "judging" /\ turns'[r].step = "done" /\ Same(r)
    /\ turns'[r].paid = turns[r].paid /\ turns'[r].served = "efficient" /\ turns'[r].why = verdict
Evidence(r, verdict) ==
    /\ streak' = [s \in Session |-> IF s \in Own(r) THEN Pending(streak[s], verdict) ELSE streak[s]]
    /\ verdicts' = [s \in Session |-> IF s \in Own(r) /\ verdict # "unavailable"
                                      THEN Append(verdicts[s], verdict) ELSE verdicts[s]]

\* What a turn's step is, by what it does to the turn, the held_by, the streak and the verdicts.
LEMMA StepCases ==
    ASSUME EscalationAssumption, EscalationTypeOK, NEW r \in Request, TurnStep(r)
    PROVE  /\ turns' \in [Request -> Turn]
           /\ \A q \in Request \ {r} : turns'[q] = turns[q]
           /\ \/ Entered(r)
              \/ Waited(r, {"waiting"}, "scoring") /\ TakeState(r) /\ UNCHANGED <<streak, verdicts>>
              \/ Sent(r) /\ UNCHANGED <<held_by, streak, verdicts>>
              \/ \E to \in {"buffering", "judging"} :
                    Waited(r, {"efficient", "buffering"}, to) /\ UNCHANGED <<held_by, streak, verdicts>>
              \/ \E to \in {"failed", "gone"} :
                    Waited(r, {"waiting", "efficient", "buffering", "judging"}, to)
                    /\ GiveBack(r) /\ UNCHANGED <<streak, verdicts>>
              \/ \/ Escalated(r, {"scoring"}, "latched")
                 \/ Escalated(r, {"efficient", "buffering"}, "unusable")
                 /\ GiveBack(r) /\ UNCHANGED <<streak, verdicts>>
              \/ \E verdict \in Verdict :
                    /\ \/ Served(r, verdict)
                       \/ Escalated(r, {"judging"}, "judged") /\ Confirmed(Streak(r), verdict)
                    /\ GiveBack(r) /\ Evidence(r, verdict)
<1>1. ASSUME NEW s \in Session \cup {None}, Arrive(r, s)
      PROVE  turns' \in [Request -> Turn] /\ (\A q \in Request \ {r} : turns'[q] = turns[q]) /\ Entered(r)
  <2>1. Changed(r, [turns[r] EXCEPT !.session = s, !.step = "waiting"])
    BY <1>1, EnterChanges
  <2>2. turns' \in [Request -> Turn] /\ \A q \in Request \ {r} : turns'[q] = turns[q]
    BY <2>1, Frame
  <2> QED BY <1>1, <2>1, <2>2, Becomes DEF Step, Arrive, Entered
<1>2. CASE Start(r)
  <2>1. turns' = [turns EXCEPT ![r].step = "scoring"] /\ "scoring" \in Step
    BY <1>2 DEF Start, Step
  <2> QED BY <1>2, <2>1, GoesOn DEF Start, Waited, Same
<1>3. CASE Score(r) /\ Streak(r) >= confirmations
  <2>1. Capable(r, "latched") /\ UNCHANGED <<streak, verdicts>> /\ turns[r].step = "scoring"
    BY <1>3 DEF Score
  <2> QED BY <2>1, CapableChanges DEF Escalated, Same, Capable
<1>4. CASE Score(r) /\ ~(Streak(r) >= confirmations)
  <2>1. /\ turns' = [turns EXCEPT ![r].step = "efficient", ![r].paid = <<"efficient">>]
        /\ UNCHANGED <<held_by, streak, verdicts>> /\ turns[r].step = "scoring"
    BY <1>4 DEF Score
  <2>2. Streak(r) < confirmations
    BY <1>4 DEF Streak, EscalationTypeOK, EscalationAssumption, Own
  <2> QED BY <2>1, <2>2, EfficientChanges DEF Sent, Same
<1>5. CASE EfficientAnswers(r)
  <2>1. PICK to \in {"buffering", "judging"} : turns' = [turns EXCEPT ![r].step = to]
    BY <1>5 DEF EfficientAnswers, EscalationTypeOK
  <2>2. to \in Step
    BY DEF Step
  <2> QED BY <1>5, <2>1, <2>2, GoesOn DEF EfficientAnswers, Waited, Same
<1>6. CASE Leave(r)
  <2>1. turns' = [turns EXCEPT ![r].step = "gone"] /\ "gone" \in Step
    BY <1>6 DEF Leave, Step
  <2> QED BY <1>6, <2>1, GoesOn DEF Leave, Waited, Same
<1>7. ASSUME NEW error \in {"context_window", "transport", "timeout"}, Fails(r, error)
      PROVE  /\ turns' \in [Request -> Turn]
             /\ \A q \in Request \ {r} : turns'[q] = turns[q]
             /\ \/ Waited(r, {"waiting", "efficient", "buffering", "judging"}, "failed")
                \/ Escalated(r, {"efficient", "buffering"}, "unusable")
             /\ GiveBack(r) /\ UNCHANGED <<streak, verdicts>>
  <2>1. CASE Capable(r, "unusable")
    BY <1>7, <2>1, CapableChanges DEF Fails, Escalated, Same, Capable
  <2>2. CASE turns' = [turns EXCEPT ![r].step = "failed"] /\ GiveBack(r)
    BY <1>7, <2>2, GoesOn DEF Fails, Step, Waited, Same
  <2> QED BY <1>7, <2>1, <2>2 DEF Fails
<1>8. ASSUME NEW verdict \in Verdict, VerdictGiven(r, verdict)
      PROVE  /\ turns' \in [Request -> Turn]
             /\ \A q \in Request \ {r} : turns'[q] = turns[q]
             /\ \/ Served(r, verdict)
                \/ Escalated(r, {"judging"}, "judged") /\ Confirmed(Streak(r), verdict)
             /\ GiveBack(r) /\ Evidence(r, verdict)
  <2>1. CASE Confirmed(Streak(r), verdict) /\ Capable(r, "judged")
    BY <1>8, <2>1, CapableChanges DEF VerdictGiven, Escalated, Same, Capable, Evidence
  <2>2. CASE /\ turns' = [turns EXCEPT ![r].step = "done", ![r].served = "efficient", ![r].why = verdict]
             /\ GiveBack(r)
    BY <1>8, <2>2, ServedChanges DEF VerdictGiven, Served, Same, Evidence
  <2> QED BY <1>8, <2>1, <2>2 DEF VerdictGiven
<1> QED BY <1>1, <1>2, <1>3, <1>4, <1>5, <1>6, <1>7, <1>8 DEF TurnStep

\* Every step of the system is one of a turn, or changes nothing
LEMMA SomeTurn ==
    ASSUME [EscalationNext]_escalationVars
    PROVE  UNCHANGED escalationVars \/ \E r \in Request : TurnStep(r)
  BY DEF EscalationNext, TurnStep, Verdict

\* The session a turn has, if it has one
LEMMA OwnIs ==
    ASSUME EscalationTypeOK, EscalationAssumption, NEW r \in Request
    PROVE  /\ Own(r) = {} => Streak(r) = 0
           /\ \A s \in Session : s \in Own(r) <=> turns[r].session = s
           /\ \A s \in Own(r) : s \in Session /\ Streak(r) = streak[s]
           /\ Own(r) # {} => turns[r].session \in Own(r)
  BY DEF Own, Streak

\* Streaks, locks and turns keep their types (escalation.rs).
THEOREM EscalationTypeCorrect ==
    ASSUME EscalationAssumption, EscalationTypeOK, [EscalationNext]_escalationVars
    PROVE  EscalationTypeOK'
<1>1. CASE UNCHANGED escalationVars
  BY <1>1 DEF EscalationTypeOK, escalationVars
<1>2. ASSUME NEW r \in Request, TurnStep(r) PROVE EscalationTypeOK'
  <2>1. turns' \in [Request -> Turn]
    BY <1>2, StepCases
  <2>2. held_by' \in [Session -> Request \cup {None}]
    <3>1. UNCHANGED held_by \/ TakeState(r) \/ GiveBack(r)
      BY <1>2, StepCases DEF Entered
    <3> QED BY <3>1 DEF EscalationTypeOK, TakeState, GiveBack
  <2>3. CASE UNCHANGED <<streak, verdicts>>
    BY <2>1, <2>2, <2>3 DEF EscalationTypeOK
  <2>4. ASSUME NEW verdict \in Verdict, Evidence(r, verdict) PROVE EscalationTypeOK'
    <3>1. \A s \in Session : Pending(streak[s], verdict) \in Nat
      BY DEF EscalationTypeOK, Pending
    <3>2. \A s \in Session : verdict # "unavailable" =>
            Append(verdicts[s], verdict) \in Seq({"escalate", "decline"})
      BY DEF EscalationTypeOK, Verdict
    <3>3. streak' \in [Session -> Nat]
      BY <2>4, <3>1 DEF EscalationTypeOK, Evidence
    <3>4. verdicts' \in [Session -> Seq({"escalate", "decline"})]
      BY <2>4, <3>2 DEF EscalationTypeOK, Evidence
    <3> QED BY <2>1, <2>2, <3>3, <3>4 DEF EscalationTypeOK
  <2> QED BY <1>2, <2>3, <2>4, StepCases DEF Entered
<1> QED BY <1>1, <1>2, SomeTurn

\* From before it reads the streak until its verdict is written, a turn has its session's state
LEMMA StateStaysHeld ==
    ASSUME EscalationAssumption, EscalationTypeOK, StateHeld, NEW r \in Request, TurnStep(r)
    PROVE  StateHeld'
<1> SUFFICES ASSUME NEW q \in Request, HasState(q)', NEW s \in Own(q)' PROVE held_by'[s] = q
  BY DEF StateHeld
<1>0. s \in Session
  BY DEF Own
<1>1. CASE q # r
  <2>1. turns'[q] = turns[q]
    BY <1>1, StepCases
  <2>2. HasState(q) /\ s \in Own(q)
    BY <2>1 DEF HasState, Own
  <2>3. held_by[s] = q /\ q # None
    BY <2>2 DEF StateHeld, EscalationAssumption
  <2>4. UNCHANGED held_by \/ TakeState(r) \/ GiveBack(r)
    BY StepCases DEF Entered
  <2> QED BY <1>0, <1>1, <2>3, <2>4 DEF TakeState, GiveBack
<1>2. CASE q = r
  <2>1. turns'[r].step \in {"scoring", "efficient", "buffering", "judging"}
    BY <1>2 DEF HasState
  <2>2. Same(r) /\ (TakeState(r) \/ (HasState(r) /\ UNCHANGED held_by))
    <3>1. CASE Waited(r, {"waiting"}, "scoring") /\ TakeState(r)
      BY <3>1 DEF Waited
    <3>2. CASE Sent(r) /\ UNCHANGED held_by
      BY <3>2 DEF Sent, HasState
    <3>3. CASE \E to \in {"buffering", "judging"} :
                  Waited(r, {"efficient", "buffering"}, to) /\ UNCHANGED held_by
      BY <3>3 DEF Waited, HasState
    <3>4. \/ Waited(r, {"waiting"}, "scoring") /\ TakeState(r)
          \/ Sent(r) /\ UNCHANGED held_by
          \/ \E to \in {"buffering", "judging"} :
                Waited(r, {"efficient", "buffering"}, to) /\ UNCHANGED held_by
          \/ turns'[r].step \in {"waiting", "failed", "gone", "done"}
      BY StepCases DEF Entered, Waited, Escalated, Served
    <3> QED BY <2>1, <3>1, <3>2, <3>3, <3>4
  <2>3. s \in Own(r)
    BY <1>2, <2>2 DEF Own, Same
  <2> QED BY <1>0, <1>2, <2>2, <2>3 DEF TakeState, StateHeld
<1> QED BY <1>1, <1>2

\* Only the turn that has a session's state writes its streak, and only one short of confirmed
LEMMA OnlyItsOwn ==
    ASSUME EscalationAssumption, EscalationTypeOK, StateHeld, Short, NEW r \in Request,
           TurnStep(r), NEW s \in Session
    PROVE  \/ streak'[s] = streak[s]
           \/ s \in Own(r) /\ held_by[s] = r /\ streak[s] < confirmations
<1>1. CASE UNCHANGED streak
  BY <1>1
<1>2. ASSUME NEW verdict \in Verdict, Evidence(r, verdict), turns[r].step = "judging"
      PROVE  \/ streak'[s] = streak[s]
             \/ s \in Own(r) /\ held_by[s] = r /\ streak[s] < confirmations
  <2>1. CASE s \notin Own(r)
    BY <1>2, <2>1 DEF Evidence
  <2>2. CASE s \in Own(r)
    BY <1>2, <2>2, OwnIs DEF StateHeld, HasState, Short
  <2> QED BY <2>1, <2>2
<1> QED BY <1>1, <1>2, StepCases DEF Entered, Served, Escalated

\* A turn that has not been escalated has a streak short of the confirmations (EscalationPolicy).
LEMMA ShortStays ==
    ASSUME EscalationAssumption, EscalationTypeOK, StateHeld, Short, NEW r \in Request, TurnStep(r)
    PROVE  Short'
<1> SUFFICES ASSUME NEW q \in Request, turns'[q].step \in {"efficient", "buffering", "judging"}
             PROVE  Streak(q)' < confirmations
  BY DEF Short
<1>1. CASE q # r
  <2>1. turns'[q] = turns[q]
    BY <1>1, StepCases
  <2>2. Streak(q) < confirmations /\ HasState(q)
    BY <2>1 DEF Short, HasState
  <2>3. CASE Own(q) = {}
    <3>1. Streak(q)' = 0
      BY <2>1, <2>3 DEF Own, Streak
    <3> QED BY <3>1 DEF EscalationAssumption
  <2>4. ASSUME NEW s \in Own(q) PROVE Streak(q)' < confirmations
    <3>1. s \in Session /\ turns[q].session = s /\ held_by[s] = q
      BY <2>2, <2>4, OwnIs DEF StateHeld
    <3>2. streak'[s] = streak[s]
      BY <1>1, <3>1, OnlyItsOwn
    <3>3. Streak(q)' = streak'[s] /\ Streak(q) = streak[s]
      BY <2>1, <3>1 DEF Streak, Own
    <3> QED BY <2>2, <3>2, <3>3
  <2> QED BY <2>3, <2>4
<1>2. CASE q = r
  <2>1. Same(r) /\ Streak(r) < confirmations /\ UNCHANGED streak
    BY <1>2, StepCases DEF Entered, Waited, Sent, Escalated, Served, Short
  <2> QED BY <1>2, <2>1 DEF Same, Streak, Own
<1> QED BY <1>1, <1>2

\* A verdict is counted as the code counts it
LEMMA CountStays ==
    ASSUME EscalationAssumption, EscalationTypeOK, StateHeld, Short, Counted,
           NEW r \in Request, TurnStep(r)
    PROVE  Counted'
<1> DEFINE CountedAt(s) ==
        /\ streak[s] =< confirmations
        /\ \/ Declines(s) = {} /\ streak[s] = Len(verdicts[s])
           \/ \E i \in Declines(s) : LastDecline(s, i) /\ streak[s] = Len(verdicts[s]) - i
<1> SUFFICES ASSUME NEW s \in Session PROVE CountedAt(s)'
  BY DEF Counted
<1>0. CountedAt(s) /\ streak[s] \in Nat /\ verdicts[s] \in Seq({"escalate", "decline"})
  BY DEF Counted, EscalationTypeOK
<1>1. CASE streak'[s] = streak[s] /\ verdicts'[s] = verdicts[s]
  <2>1. Declines(s)' = Declines(s)
    BY <1>1 DEF Declines
  <2> QED BY <1>0, <1>1, <2>1 DEF LastDecline
<1>2. ASSUME NEW verdict \in {"escalate", "decline"}, streak[s] < confirmations,
             streak'[s] = Pending(streak[s], verdict), verdicts'[s] = Append(verdicts[s], verdict)
      PROVE  CountedAt(s)'
  <2>1. /\ Len(verdicts'[s]) = Len(verdicts[s]) + 1 /\ Len(verdicts[s]) \in Nat
        /\ DOMAIN verdicts[s] = 1..Len(verdicts[s])
        /\ DOMAIN verdicts'[s] = 1..Len(verdicts[s]) + 1
        /\ verdicts'[s][Len(verdicts[s]) + 1] = verdict
        /\ \A i \in 1..Len(verdicts[s]) : verdicts'[s][i] = verdicts[s][i]
    BY <1>0, <1>2
  <2>2. CASE verdict = "escalate"
    <3>1. Declines(s)' = Declines(s)
      BY <2>1, <2>2 DEF Declines
    <3>2. streak'[s] = streak[s] + 1 /\ streak'[s] =< confirmations
      BY <1>0, <1>2, <2>2 DEF Pending, EscalationAssumption
    <3>3. CASE Declines(s) = {} /\ streak[s] = Len(verdicts[s])
      BY <2>1, <3>1, <3>2, <3>3
    <3>4. ASSUME NEW i \in Declines(s), LastDecline(s, i), streak[s] = Len(verdicts[s]) - i
          PROVE  CountedAt(s)'
      <4>1. i \in Declines(s)' /\ (\A j \in Declines(s)' : j =< i) /\ i \in Nat
        BY <2>1, <3>1, <3>4 DEF LastDecline, Declines
      <4>2. streak'[s] = Len(verdicts'[s]) - i
        BY <1>0, <2>1, <3>2, <3>4, <4>1
      <4> QED BY <3>2, <4>1, <4>2 DEF LastDecline
    <3> QED BY <1>0, <3>3, <3>4
  <2>3. CASE verdict = "decline"
    <3>1. Declines(s)' = Declines(s) \cup {Len(verdicts[s]) + 1}
      BY <2>1, <2>3 DEF Declines
    <3>2. \A i \in Declines(s)' : i =< Len(verdicts[s]) + 1
      BY <2>1, <3>1 DEF Declines
    <3>3. streak'[s] = 0 /\ streak'[s] =< confirmations
      BY <1>2, <2>3 DEF Pending, EscalationAssumption
    <3> DEFINE n == Len(verdicts'[s])
    <3>4. n \in Declines(s)' /\ (\A j \in Declines(s)' : j =< n) /\ streak'[s] = n - n
      BY <2>1, <3>1, <3>2, <3>3
    <3> QED BY <3>3, <3>4 DEF LastDecline
  <2> QED BY <2>2, <2>3
<1>3. ASSUME NEW verdict \in Verdict, Evidence(r, verdict), turns[r].step = "judging", s \in Own(r)
      PROVE  CountedAt(s)'
  <2>1. streak[s] < confirmations
    BY <1>3, OwnIs DEF Short
  <2>2. CASE verdict = "unavailable"
    BY <1>1, <1>3, <2>2 DEF Evidence, Pending
  <2>3. CASE verdict \in {"escalate", "decline"}
    BY <1>2, <1>3, <2>1, <2>3 DEF Evidence
  <2> QED BY <2>2, <2>3 DEF Verdict
<1>4. ASSUME NEW verdict \in Verdict, Evidence(r, verdict), s \notin Own(r) PROVE CountedAt(s)'
  BY <1>1, <1>4 DEF Evidence
<1> HIDE DEF CountedAt
<1>5. CASE UNCHANGED <<streak, verdicts>>
  BY <1>1, <1>5
<1>6. CASE \E verdict \in Verdict : Evidence(r, verdict) /\ turns[r].step = "judging"
  BY <1>3, <1>4, <1>6
<1> QED BY <1>5, <1>6, StepCases DEF Entered, Served, Escalated

\* A turn pays a second time for a reason, and an escalation stays confirmed
LEMMA PaidStays ==
    ASSUME EscalationAssumption, EscalationTypeOK, StateHeld, Short, Paid,
           NEW r \in Request, TurnStep(r)
    PROVE  Paid'
<1>0. \A q \in Request : PaidFor(turns[q]) /\ Confirms(q)
  BY DEF Paid
<1> SUFFICES ASSUME NEW q \in Request PROVE PaidFor(turns'[q]) /\ Confirms(q)'
  BY DEF Paid, PaidFor
<1>1. CASE q # r
  <2>1. turns'[q] = turns[q]
    BY <1>1, StepCases
  <2>2. PaidFor(turns'[q])
    BY <1>0, <2>1
  <2>3. ASSUME turns[q].why = "judged", Own(q) # {} PROVE streak'[turns[q].session] = confirmations
    <3>1. turns[q].session \in Session
      BY <2>3, OwnIs
    <3>2. streak[turns[q].session] = confirmations
      BY <1>0, <2>3 DEF Confirms
    <3> QED BY <3>1, <3>2, OnlyItsOwn DEF EscalationTypeOK, EscalationAssumption
  <2>4. Confirms(q)'
    BY <1>0, <2>1, <2>3 DEF Own, Confirms
  <2> QED BY <2>2, <2>4
<1>2. CASE q = r
  <2> DEFINE paid == turns[r].paid
  <2>1. paid \in Seq({"efficient", "capable"}) /\ Len(paid) \in Nat
    BY DEF EscalationTypeOK, Turn
  <2>2. /\ Len(Append(paid, "capable")) = Len(paid) + 1
        /\ Append(paid, "capable")[Len(paid) + 1] = "capable"
    BY <2>1
  <2>3. Len(<<"efficient">>) = 1 /\ <<"efficient">>[1] = "efficient"
    OBVIOUS
  <2>4. ASSUME turns'[r].why # "judged" PROVE Confirms(r)'
    BY <2>4 DEF Confirms
  <2>5. CASE Entered(r)
    <3>1. PaidFor(turns'[r]) /\ turns'[r].why = "none"
      BY <1>0, <2>5 DEF Entered, PaidFor
    <3> QED BY <1>2, <2>4, <3>1
  <2>6. ASSUME NEW to \in {"scoring", "buffering", "judging", "failed", "gone"},
               NEW from, Waited(r, from, to),
               \/ from = {"waiting"} /\ to = "scoring"
               \/ from = {"efficient", "buffering"} /\ to \in {"buffering", "judging"}
               \/ from = {"waiting", "efficient", "buffering", "judging"} /\ to \in {"failed", "gone"}
        PROVE  PaidFor(turns'[q]) /\ Confirms(q)'
    <3>1. turns'[r].step = to /\ turns[r].step \in from
          /\ turns'[r].paid = turns[r].paid /\ turns'[r].why = turns[r].why
      BY <2>6 DEF Waited
    <3>2. CASE from = {"waiting"} /\ to = "scoring"
      <4>1. PaidFor(turns'[r]) /\ turns'[r].why = "none"
        BY <1>0, <3>1, <3>2 DEF PaidFor
      <4> QED BY <1>2, <2>4, <4>1
    <3>3. CASE from = {"efficient", "buffering"} /\ to \in {"buffering", "judging"}
      <4>1. PaidFor(turns'[r]) /\ turns'[r].why = "none"
        BY <1>0, <3>1, <3>3 DEF PaidFor
      <4> QED BY <1>2, <2>4, <4>1
    <3>4. CASE from = {"waiting", "efficient", "buffering", "judging"} /\ to \in {"failed", "gone"}
      <4>1. (Len(turns[r].paid) = 0 \/ Len(turns[r].paid) = 1) /\ turns[r].why = "none"
        BY <1>0, <3>1, <3>4 DEF PaidFor
      <4>2. Len(turns'[r].paid) =< 1 /\ turns'[r].why = "none"
        <5>1. turns'[r].paid = turns[r].paid /\ turns'[r].why = turns[r].why
          BY <3>1
        <5>2. Len(turns[r].paid) =< 1
          <6>1. CASE Len(turns[r].paid) = 0
            BY <6>1
          <6>2. CASE Len(turns[r].paid) = 1
            BY <6>2
          <6> QED BY <4>1, <6>1, <6>2
        <5> QED BY <4>1, <5>1, <5>2, Zenon
      <4>3. PaidFor(turns'[r])
        BY <3>1, <3>4, <4>2 DEF PaidFor
      <4> QED BY <1>2, <2>4, <4>2, <4>3
    <3> QED BY <2>6, <3>2, <3>3, <3>4
  <2>7. CASE Sent(r)
    <3>1. turns'[r].paid = <<"efficient">> /\ turns'[r].step = "efficient"
      BY <2>7 DEF Sent
    <3>2. Len(turns'[r].paid) = 1 /\ turns'[r].paid[1] = "efficient"
      BY <2>3, <3>1, Zenon
    <3>3. turns'[r].why = "none"
      BY <1>0, <2>7 DEF Sent, PaidFor
    <3>4. PaidFor(turns'[r])
      BY <3>1, <3>2, <3>3 DEF PaidFor
    <3> QED BY <1>2, <2>4, <3>3, <3>4
  <2>8. CASE Escalated(r, {"scoring"}, "latched")
    <3>1. Len(paid) = 0
      BY <1>0, <2>8 DEF Escalated, PaidFor
    <3>2. PaidFor(turns'[r]) /\ turns'[r].why = "latched"
      BY <2>2, <2>8, <3>1 DEF Escalated, PaidFor
    <3> QED BY <1>2, <2>4, <3>2
  <2>9. ASSUME NEW from, NEW why \in {"unusable", "judged"}, Escalated(r, from, why),
               from \subseteq {"efficient", "buffering", "judging"}
        PROVE  PaidFor(turns'[r])
    <3>1. Len(paid) = 1
      BY <1>0, <2>9 DEF Escalated, PaidFor
    <3> QED BY <2>2, <2>9, <3>1 DEF Escalated, PaidFor
  <2>10. CASE Escalated(r, {"efficient", "buffering"}, "unusable")
    <3>1. PaidFor(turns'[r]) /\ turns'[r].why = "unusable"
      BY <2>9, <2>10 DEF Escalated
    <3> QED BY <1>2, <2>4, <3>1
  <2>11. ASSUME NEW verdict \in Verdict, Served(r, verdict) PROVE PaidFor(turns'[q]) /\ Confirms(q)'
    <3>1. PaidFor(turns'[r])
      BY <1>0, <2>11 DEF Served, PaidFor
    <3>2. turns'[r].why # "judged"
      BY <2>11 DEF Served, Verdict
    <3> QED BY <1>2, <2>4, <3>1, <3>2
  <2>12. ASSUME NEW verdict \in Verdict, Escalated(r, {"judging"}, "judged"),
                Confirmed(Streak(r), verdict), Evidence(r, verdict)
         PROVE  PaidFor(turns'[q]) /\ Confirms(q)'
    <3>1. PaidFor(turns'[r])
      BY <2>9, <2>12
    <3>2. Streak(r) < confirmations /\ Streak(r) \in Nat
      BY <2>12 DEF Escalated, Short, Streak, EscalationTypeOK, Own
    <3>3. verdict = "escalate" /\ Streak(r) + 1 = confirmations
      BY <2>12, <3>2 DEF Confirmed, Pending, EscalationAssumption
    <3>4. CASE Own(r) = {}
      <4>1. confirmations = 1
        BY <3>3, <3>4, OwnIs
      <4>2. Own(r)' = {}
        BY <2>12, <3>4 DEF Escalated, Same, Own
      <4> QED BY <1>2, <3>1, <4>1, <4>2 DEF Confirms
    <3>5. CASE Own(r) # {}
      <4>1. turns[r].session \in Session /\ turns[r].session \in Own(r)
            /\ streak[turns[r].session] = Streak(r)
        BY <3>5, OwnIs
      <4>2. streak'[turns[r].session] = confirmations
        BY <2>12, <3>3, <4>1 DEF Evidence, Pending
      <4>3. Own(r)' # {} /\ turns'[r].session = turns[r].session
        BY <2>12, <3>5 DEF Escalated, Same, Own
      <4> QED BY <1>2, <3>1, <4>2, <4>3 DEF Confirms
    <3> QED BY <3>4, <3>5
  <2>13. ASSUME \E to \in {"buffering", "judging"} : Waited(r, {"efficient", "buffering"}, to)
         PROVE  PaidFor(turns'[q]) /\ Confirms(q)'
    BY <2>6, <2>13
  <2>14. ASSUME \E to \in {"failed", "gone"} :
                    Waited(r, {"waiting", "efficient", "buffering", "judging"}, to)
         PROVE  PaidFor(turns'[q]) /\ Confirms(q)'
    BY <2>6, <2>14
  <2>15. ASSUME Waited(r, {"waiting"}, "scoring") PROVE PaidFor(turns'[q]) /\ Confirms(q)'
    BY <2>6, <2>15
  <2> QED BY <2>5, <2>7, <2>8, <2>10, <2>11, <2>12, <2>13, <2>14, <2>15, StepCases
<1> QED BY <1>1, <1>2

-----------------------------------------------------------------------------
(* The invariant, and what it says of every behaviour.                     *)

\* The invariant holds before any turn.
LEMMA EscalationStarts ==
    ASSUME EscalationAssumption, EscalationInit PROVE EscalationInv
<1>1. NewTurn \in Turn
  BY DEF NewTurn, Turn, Step
<1>2. EscalationTypeOK
  BY <1>1 DEF EscalationInit, EscalationTypeOK
<1>3. \A r \in Request : turns[r] = NewTurn
  BY DEF EscalationInit
<1>4. StateHeld /\ Short
  BY <1>3 DEF StateHeld, HasState, Short, NewTurn
<1>5. Counted
  BY DEF EscalationInit, Counted, Declines, EscalationAssumption
<1>6. Paid
  <2>1. Len(<<>>) = 0
    OBVIOUS
  <2>2. NewTurn.paid = <<>> /\ NewTurn.why = "none" /\ NewTurn.step = "idle"
    BY DEF NewTurn
  <2>3. Len(NewTurn.paid) = 0
    BY <2>1, <2>2, Zenon
  <2>4. PaidFor(NewTurn)
    BY <2>2, <2>3 DEF PaidFor
  <2> QED BY <1>3, <2>2, <2>4 DEF Paid, Confirms
<1> QED BY <1>2, <1>4, <1>5, <1>6 DEF EscalationInv

\* Every step keeps the invariant.
LEMMA EscalationStays ==
    ASSUME EscalationAssumption, EscalationInv, [EscalationNext]_escalationVars PROVE EscalationInv'
<1>1. EscalationTypeOK'
  BY EscalationTypeCorrect DEF EscalationInv
<1>2. CASE UNCHANGED escalationVars
  <2>1. StateHeld' /\ Short'
    BY <1>2 DEF EscalationInv, StateHeld, Short, HasState, Own, Streak, escalationVars
  <2>2. Counted'
    BY <1>2 DEF EscalationInv, Counted, Declines, LastDecline, escalationVars
  <2>3. Paid'
    BY <1>2 DEF EscalationInv, Paid, PaidFor, Confirms, Own, escalationVars
  <2> QED BY <1>1, <2>1, <2>2, <2>3 DEF EscalationInv
<1>3. ASSUME NEW r \in Request, TurnStep(r) PROVE EscalationInv'
  BY <1>1, <1>3, StateStaysHeld, ShortStays, CountStays, PaidStays DEF EscalationInv
<1> QED BY <1>2, <1>3, SomeTurn

\* The invariant gives the streak's meaning.
LEMMA CountedMeans ==
    ASSUME EscalationAssumption, EscalationInv PROVE StreakIsConsecutive
<1> SUFFICES ASSUME NEW s \in Session
             PROVE  /\ streak[s] = Trailing(s) /\ streak[s] =< confirmations
                    /\ streak[s] = confirmations =>
                         ~\E r \in Request : turns[r].session = s
                             /\ turns[r].step \in {"efficient", "buffering", "judging"}
  BY DEF StreakIsConsecutive
<1> USE DEF EscalationInv
<1>1. streak[s] =< confirmations
  BY DEF Counted
<1>2. streak[s] = Trailing(s)
  <2>1. verdicts[s] \in Seq({"escalate", "decline"}) /\ Len(verdicts[s]) \in Nat
    BY DEF EscalationTypeOK
  <2>2. CASE Declines(s) = {} /\ streak[s] = Len(verdicts[s])
    BY <2>1, <2>2 DEF Trailing, Declines
  <2>3. ASSUME NEW i \in Declines(s), LastDecline(s, i), streak[s] = Len(verdicts[s]) - i
        PROVE  streak[s] = Trailing(s)
    <3>1. \A j \in Declines(s) : j \in Nat
      BY <2>1 DEF Declines
    <3>2. (CHOOSE k \in Declines(s) : \A j \in Declines(s) : j =< k) = i
      BY <2>3, <3>1 DEF LastDecline
    <3> QED BY <2>3, <3>2 DEF Trailing, Declines
  <2> QED BY <2>2, <2>3 DEF Counted
<1>3. ASSUME streak[s] = confirmations, NEW r \in Request, turns[r].session = s,
             turns[r].step \in {"efficient", "buffering", "judging"}
      PROVE  FALSE
  BY <1>3, OwnIs DEF Short, EscalationAssumption
<1> QED BY <1>1, <1>2, <1>3

\* The invariant gives what a turn paid for.
LEMMA PaidMeans ==
    ASSUME EscalationAssumption, EscalationInv PROVE PaidOnce
<1> SUFFICES ASSUME NEW r \in Request
             PROVE  LET t == turns[r] IN
                    /\ t.step = "done" => t.paid[Len(t.paid)] = t.served
                    /\ Len(t.paid) =< (IF t.why \in {"unusable", "judged"} THEN 2 ELSE 1)
                    /\ t.why = "judged" =>
                           IF Own(r) = {} THEN confirmations = 1 ELSE streak[t.session] = confirmations
  BY DEF PaidOnce
<1>1. turns[r].step \in Step /\ Len(turns[r].paid) \in Nat
  BY DEF EscalationInv, EscalationTypeOK, Turn
<1>2. PaidFor(turns[r]) /\ Confirms(r)
  BY DEF EscalationInv, Paid
<1>3. Len(turns[r].paid) =< 2
      /\ (Len(turns[r].paid) =< 1 \/ turns[r].why \in {"unusable", "judged"})
  <2>1. \/ Len(turns[r].paid) = 0
        \/ Len(turns[r].paid) = 1
        \/ Len(turns[r].paid) =< 1
        \/ Len(turns[r].paid) = 2 /\ turns[r].why \in {"unusable", "judged"}
    BY <1>1, <1>2, Zenon DEF PaidFor, Step
  <2>2. CASE Len(turns[r].paid) = 0
    BY <2>2
  <2>3. CASE Len(turns[r].paid) = 1
    BY <2>3
  <2>4. CASE Len(turns[r].paid) =< 1
    <3>1. \A n \in Nat : n =< 1 => n =< 2
      OBVIOUS
    <3> QED BY <1>1, <2>4, <3>1, Zenon
  <2>5. CASE Len(turns[r].paid) = 2 /\ turns[r].why \in {"unusable", "judged"}
    <3>1. \A n \in Nat : n = 2 => n =< 2
      OBVIOUS
    <3> QED BY <1>1, <2>5, <3>1, Zenon
  <2> QED BY <2>1, <2>2, <2>3, <2>4, <2>5
<1>4. ASSUME turns[r].step = "done" PROVE turns[r].paid[Len(turns[r].paid)] = turns[r].served
  <2> DEFINE t == turns[r]
  <2>1. CASE Len(t.paid) = 1 /\ t.paid[1] = "capable" /\ t.served = "capable"
    BY <2>1
  <2>2. CASE Len(t.paid) = 1 /\ t.paid[1] = "efficient" /\ t.served = "efficient"
    BY <2>2
  <2>3. CASE Len(t.paid) = 2 /\ t.paid[2] = "capable" /\ t.served = "capable"
    BY <2>3
  <2> QED BY <1>2, <1>4, <2>1, <2>2, <2>3 DEF PaidFor
<1> QED BY <1>2, <1>3, <1>4 DEF Confirms

\* The streak is the number of escalate verdicts in a row of the session's own turns, never
\* exceeds the confirmations, and a confirmed session gets no further judge
THEOREM StreakConsecutive ==
    ASSUME EscalationAssumption PROVE EscalationSpec => []StreakIsConsecutive
<1>1. EscalationInit => EscalationInv
  BY EscalationStarts
<1>2. EscalationInv /\ [EscalationNext]_escalationVars => EscalationInv'
  BY EscalationStays
<1>3. EscalationInv => StreakIsConsecutive
  BY CountedMeans
<1> QED BY <1>1, <1>2, <1>3, PTL DEF EscalationSpec

\* A turn pays for a second answer only when its efficient one was not usable or a judge
\* confirmed the escalation, and is otherwise served the one it paid for
THEOREM TurnPaysOnce ==
    ASSUME EscalationAssumption PROVE EscalationSpec => []PaidOnce
<1>1. EscalationInit => EscalationInv
  BY EscalationStarts
<1>2. EscalationInv /\ [EscalationNext]_escalationVars => EscalationInv'
  BY EscalationStays
<1>3. EscalationInv => PaidOnce
  BY PaidMeans
<1> QED BY <1>1, <1>2, <1>3, PTL DEF EscalationSpec

\* Both together, which is what the run of MCServices checks on its small instance
THEOREM EscalationIsSound == EscalationSpec => []EscalationSound
<1>1. EscalationSpec => []StreakIsConsecutive
  BY StreakConsecutive, EscalationAssumed
<1>2. EscalationSpec => []PaidOnce
  BY TurnPaysOnce, EscalationAssumed
<1>3. StreakIsConsecutive /\ PaidOnce => EscalationSound
  BY DEF EscalationSound
<1> QED BY <1>1, <1>2, <1>3, PTL

-----------------------------------------------------------------------------
(***************************************************************************)
(* What the stage router promises of every conversation, for any windows,  *)
(* thresholds, default tier and fallback.                                  *)
(*                                                                         *)
(* The argument: nothing is added to a conversation between a decision and *)
(* its reply, so the turn in flight is what Route makes of the             *)
(* conversation as it is now (TurnFollows), and a summary, once there, is  *)
(* only ever replaced by another one (SummaryStays).  What is left is      *)
(* about the one operator pick_tier: a severity among the recent results   *)
(* bounds the signal's, and the signal's tier follows.                     *)
(***************************************************************************)
Category == {"write", "read", "other"}
Result == {"empty", "clean", "passed", "soft", "hard", "critical"}
StageMessage == [kind : {"text", "call", "result", "empty"}, of : {"words", "summary"} \cup Category \cup Result]
Opinion == {"capable", "efficient", "ambiguous"}

\* The turn that Route makes of a conversation
TurnOf(talk, verdict) ==
    LET pick == pick_tier(build_signal(talk))
        chosen == IF pick.tier # "none" THEN pick ELSE Behind(verdict)
    IN  [tier |-> chosen.tier, source |-> chosen.source, note |-> Handoff(pick, chosen),
         signal |-> IF pick.tier # "none" THEN "decided" ELSE "abstained"]

StageTypeOK == messages \in Seq(StageMessage)

\* A turn in flight is what its conversation, unchanged since, was routed to
TurnFollows ==
    turn = NoTurn \/ \E verdict \in Opinion : turn = TurnOf(messages, verdict) /\ source = turn.source

\* A compacted conversation holds a summary
SummaryStays == compactions => \E i \in DOMAIN messages : messages[i] = Text(TRUE)

StageInv == StageTypeOK /\ TurnFollows /\ SummaryStays

-----------------------------------------------------------------------------
(* The signal of a conversation.                                           *)

Severities == {0, 18, 42, 60}

\* Every result has one of four severities.
LEMMA SeverityIs == \A result : Severity(result) \in Severities
  BY DEF Severity, Severities

\* The worst of a set of severities is in it and no other is above it.
LEMMA MaxSeverity ==
    ASSUME NEW S, S \subseteq Severities, S # {}
    PROVE  MaxOf(S) \in S /\ \A y \in S : y =< MaxOf(S)
<1>1. \E x \in S : \A y \in S : y =< x
  <2>1. CASE 60 \in S
    BY <2>1 DEF Severities
  <2>2. CASE 60 \notin S /\ 42 \in S
    BY <2>2 DEF Severities
  <2>3. CASE 60 \notin S /\ 42 \notin S /\ 18 \in S
    BY <2>3 DEF Severities
  <2>4. CASE 60 \notin S /\ 42 \notin S /\ 18 \notin S
    <3>1. \A y \in S : y = 0
      BY <2>4 DEF Severities
    <3>2. 0 \in S
      BY <3>1
    <3> QED BY <3>1, <3>2
  <2> QED BY <2>1, <2>2, <2>3, <2>4
<1> QED BY <1>1 DEF MaxOf

Results(talk) ==
    Recent(talk, "result", IF RecentWindow > 1 THEN RecentWindow ELSE 1)
Writes(talk) == {i \in Recent(talk, "call", RecentWindow) : talk[i].of = "write"}

\* A positive window of results is the one the signal is built from (build_signal).
LEMMA WindowOfResults ==
    ASSUME NEW talk \in Seq(StageMessage)
    PROVE  Recent(talk, "result", RecentWindow) \subseteq Results(talk)
<1>1. RecentWindow \in Nat
  BY StageAssumption
<1>2. ASSUME NEW i \in DOMAIN talk
      PROVE  Cardinality({j \in DOMAIN talk : j > i /\ talk[j].kind = "result"}) \in Nat
  <2>1. IsFiniteSet(1..Len(talk)) /\ DOMAIN talk = 1..Len(talk)
    BY FS_Interval
  <2>2. IsFiniteSet({j \in DOMAIN talk : j > i /\ talk[j].kind = "result"})
    BY <2>1, FS_Subset
  <2> QED BY <2>2, FS_CardinalityType
<1> QED BY <1>1, <1>2 DEF Results, Recent

\* What the signal's parts are.
LEMMA SignalIs ==
    ASSUME NEW talk \in Seq(StageMessage)
    PROVE  LET signal == build_signal(talk) IN
           /\ signal.severity \in Severities
           /\ \A i \in Results(talk) : Severity(talk[i].of) =< signal.severity
           /\ signal.writes \in Nat /\ signal.reads \in Nat /\ signal.turn_depth \in Nat
           /\ signal.writes = 0 <=> Writes(talk) = {}
           /\ signal.compacted <=> \E i \in DOMAIN talk : talk[i] = Text(TRUE)
<1> DEFINE S == {0} \cup {Severity(talk[i].of) : i \in Results(talk)}
           R == {i \in Recent(talk, "call", RecentWindow) : talk[i].of = "read"}
           signal == build_signal(talk)
<1>1. /\ signal.severity = MaxOf(S)
      /\ signal.writes = Cardinality(Writes(talk)) /\ signal.reads = Cardinality(R)
      /\ signal.turn_depth = Len(talk)
      /\ signal.compacted = \E i \in DOMAIN talk : talk[i] = Text(TRUE)
  BY DEF build_signal, Results, Writes
<1>2. S \subseteq Severities /\ S # {}
  BY SeverityIs DEF Severities
<1>3. MaxOf(S) \in S /\ \A y \in S : y =< MaxOf(S)
  BY <1>2, MaxSeverity
<1>4. IsFiniteSet(1..Len(talk)) /\ DOMAIN talk = 1..Len(talk)
  BY FS_Interval
<1>5. IsFiniteSet(Writes(talk)) /\ IsFiniteSet(R)
  <2>1. Writes(talk) \subseteq DOMAIN talk /\ R \subseteq DOMAIN talk
    BY DEF Writes, Recent
  <2> QED BY <1>4, <2>1, FS_Subset
<1>6. Cardinality(Writes(talk)) \in Nat /\ Cardinality(R) \in Nat
      /\ (Cardinality(Writes(talk)) = 0 <=> Writes(talk) = {})
  BY <1>5, FS_CardinalityType, FS_EmptySet
<1>7. signal.severity \in Severities
  BY <1>1, <1>2, <1>3
<1>8. \A i \in Results(talk) : Severity(talk[i].of) =< signal.severity
  BY <1>1, <1>3
<1>9. Len(talk) \in Nat
  OBVIOUS
<1> HIDE DEF S, R, signal
<1> QED BY <1>1, <1>6, <1>7, <1>8, <1>9 DEF signal

-----------------------------------------------------------------------------
(* The tier of a signal.                                                   *)

\* A critical error, or a compaction, is decided before anything else (should_escalate).
LEMMA EscalationDecides ==
    ASSUME NEW signal, should_escalate(signal)
    PROVE  pick_tier(signal) = Pick("capable", "override")
  BY DEF pick_tier

\* A hard error that no write followed scores at least its own weight (score_signal).
LEMMA HardErrorDecides ==
    ASSUME NEW talk \in Seq(StageMessage), Threshold =< Unit,
           build_signal(talk).severity >= 42, build_signal(talk).writes = 0
    PROVE  pick_tier(build_signal(talk)).tier = "capable"
<1> DEFINE signal == build_signal(talk)
           ops == signal.writes + signal.reads
           production == IF ops = 0 THEN 0 ELSE (Unit * signal.writes) \div ops
           stalled == signal.turn_depth >= STALL_MIN_TURN_DEPTH /\ signal.writes = 0
<1>0. Threshold \in Nat
  BY StageAssumption
<1>1. signal.severity \in {42, 60} /\ signal.reads \in Nat /\ signal.writes = 0
  <2>1. signal.severity \in Severities /\ signal.reads \in Nat
    BY SignalIs
  <2> HIDE DEF signal
  <2>2. signal.severity >= 42 /\ signal.writes = 0
    BY DEF signal
  <2> QED BY <2>1, <2>2 DEF Severities
<1>2. production = 0
  <2>1. ops = signal.reads /\ Unit * signal.writes = 0
    BY <1>1 DEF Unit
  <2>2. \A n \in Nat : n # 0 => 0 \div n = 0
    OBVIOUS
  <2> HIDE DEF signal
  <2> QED BY <1>1, <2>1, <2>2
<1>3. score_signal(signal) = signal.severity + (IF stalled THEN Unit ELSE 0) - production
  BY DEF score_signal
<1> HIDE DEF production, stalled
<1>4. score_signal(signal) \in Int /\ score_signal(signal) >= Unit /\ score_signal(signal) > 0
  BY <1>1, <1>2, <1>3 DEF Unit
<1>5. Confidence(score_signal(signal)) >= Threshold
  BY <1>0, <1>4 DEF Confidence, Unit
<1>6. ~should_deescalate(signal)
  BY <1>1 DEF should_deescalate
<1> HIDE DEF signal
<1> QED BY <1>4, <1>5, <1>6 DEF pick_tier, Pick, signal

\* A decided tier is one of two, and its source tells how; the rest is the cascade's.
LEMMA PickIs ==
    ASSUME NEW signal
    PROVE  LET pick == pick_tier(signal) IN
           \/ pick.tier = "capable" /\ pick.source \in {"override", "dimensions"}
           \/ pick.tier = "efficient" /\ pick.source \in {"tests_passed", "dimensions"}
           \/ pick.tier = "none" /\ pick.source = "ambiguous"
  BY DEF pick_tier, Pick

\* What is behind the signals decides for one of the two tiers as well.
LEMMA BehindIs ==
    ASSUME NEW verdict \in Opinion
    PROVE  /\ Behind(verdict).tier \in {"capable", "efficient"}
           /\ Behind(verdict).source \in {"llm-classifier", "fall_open"}
  BY StageAssumption DEF Behind, Pick, Opinion

-----------------------------------------------------------------------------
(* The invariant.                                                          *)

\* The conversation starts empty, with no turn in flight.
LEMMA StageStarts == StageInit => StageInv
  BY DEF StageInit, StageInv, StageTypeOK, TurnFollows, SummaryStays

\* Longer conversations keep the messages they had.
LEMMA Longer ==
    ASSUME StageInv, NEW more \in Seq(StageMessage), messages' = messages \o more, UNCHANGED compactions,
           turn = NoTurn, UNCHANGED turn
    PROVE  StageInv'
<1>1. messages' \in Seq(StageMessage)
  BY DEF StageInv, StageTypeOK
<1>2. \A i \in DOMAIN messages : i \in DOMAIN messages' /\ messages'[i] = messages[i]
  BY DEF StageInv, StageTypeOK
<1>3. SummaryStays'
  BY <1>2 DEF StageInv, SummaryStays
<1> QED BY <1>1, <1>3 DEF StageInv, StageTypeOK, TurnFollows

\* Every step of a conversation keeps the invariant.
LEMMA StageSteps == StageInv /\ [StageNext]_stageVars => StageInv'
<1> SUFFICES ASSUME StageInv, [StageNext]_stageVars PROVE StageInv'
  OBVIOUS
<1>1. ASSUME NEW category \in Category, NEW result \in Result, Work(category, result)
      PROVE  StageInv'
  <2>1. <<ToolCall(category), ToolResult(result)>> \in Seq(StageMessage)
    BY DEF ToolCall, ToolResult, StageMessage
  <2> QED BY <1>1, <2>1, Longer DEF Work, Room
<1>2. CASE Speak
  <2>1. <<Text(FALSE)>> \in Seq(StageMessage)
    BY DEF Text, StageMessage
  <2>2. messages' = messages \o <<Text(FALSE)>>
    BY <1>2 DEF Speak, StageInv, StageTypeOK, Text, StageMessage
  <2> QED BY <1>2, <2>1, <2>2, Longer DEF Speak, Room
<1>3. CASE Compact
  <2>1. messages' = <<Text(TRUE)>> /\ turn' = NoTurn
    BY <1>3 DEF Compact
  <2>2. messages' \in Seq(StageMessage) /\ 1 \in DOMAIN messages' /\ messages'[1] = Text(TRUE)
    BY <2>1 DEF Text, StageMessage
  <2> QED BY <2>1, <2>2 DEF StageInv, StageTypeOK, TurnFollows, SummaryStays
<1>4. ASSUME NEW verdict \in Opinion, Route(verdict) PROVE StageInv'
  <2>1. /\ turn' = TurnOf(messages, verdict) /\ source' = turn'.source
        /\ messages' = messages /\ compactions' = compactions
    BY <1>4 DEF Route, TurnOf
  <2> QED BY <2>1 DEF StageInv, StageTypeOK, TurnFollows, SummaryStays
<1>5. CASE Cancelled
  BY <1>5 DEF Cancelled, StageInv, StageTypeOK, TurnFollows, SummaryStays
<1>6. CASE Replied
  BY <1>6 DEF Replied, StageInv, StageTypeOK, TurnFollows, SummaryStays
<1>7. CASE UNCHANGED stageVars
  BY <1>7 DEF stageVars, StageInv, StageTypeOK, TurnFollows, SummaryStays
<1> QED BY <1>1, <1>2, <1>3, <1>4, <1>5, <1>6, <1>7 DEF StageNext, Category, Result, Opinion

-----------------------------------------------------------------------------
(* What the invariant says of a turn.                                      *)

\* An error among the recent results holds the capable tier (build_signal).
LEMMA ErrorHolds == StageInv => ErrorPersists
<1> SUFFICES ASSUME StageInv, turn # NoTurn
             PROVE  LET calls == {messages[i].of : i \in Recent(messages, "call", RecentWindow)}
                        results == {messages[i].of : i \in Recent(messages, "result", RecentWindow)}
                    IN  /\ "critical" \in results => turn.tier = "capable"
                        /\ "hard" \in results /\ "write" \notin calls /\ Threshold =< Unit
                               => turn.tier = "capable"
  BY DEF ErrorPersists
<1> DEFINE signal == build_signal(messages)
<1>1. messages \in Seq(StageMessage)
  BY DEF StageInv, StageTypeOK
<1>2. pick_tier(signal).tier = "capable" => turn.tier = "capable"
  BY DEF StageInv, TurnFollows, TurnOf
<1>3. ASSUME NEW i \in Recent(messages, "result", RecentWindow), messages[i].of = "critical"
      PROVE  turn.tier = "capable"
  <2>1. 60 =< signal.severity /\ Severity("critical") = 60
    BY <1>1, <1>3, WindowOfResults, SignalIs DEF Severity
  <2>2. should_escalate(signal)
    BY <2>1, SignalIs, <1>1 DEF should_escalate, Severities
  <2> QED BY <1>2, <2>2, EscalationDecides DEF Pick
<1>4. ASSUME NEW i \in Recent(messages, "result", RecentWindow), messages[i].of = "hard",
             "write" \notin {messages[k].of : k \in Recent(messages, "call", RecentWindow)},
             Threshold =< Unit
      PROVE  turn.tier = "capable"
  <2>1. 42 =< signal.severity
    BY <1>1, <1>4, WindowOfResults, SignalIs DEF Severity
  <2>2. Writes(messages) = {}
    BY <1>4 DEF Writes
  <2>3. signal.writes = 0
    BY <1>1, <2>2, SignalIs
  <2>4. signal.severity >= 42
    BY <1>1, <2>1, SignalIs DEF Severities
  <2> QED BY <1>1, <1>2, <1>4, <2>3, <2>4, HardErrorDecides
<1> QED BY <1>3, <1>4

\* A compacted conversation stays with the capable tier (should_escalate).
LEMMA CompactionHolds == StageInv => CompactedStaysCapable
<1> SUFFICES ASSUME StageInv, turn # NoTurn, compactions PROVE turn.tier = "capable"
  BY DEF CompactedStaysCapable
<1>1. build_signal(messages).compacted
  BY SignalIs DEF StageInv, StageTypeOK, SummaryStays
<1>2. pick_tier(build_signal(messages)) = Pick("capable", "override")
  BY <1>1, EscalationDecides DEF should_escalate
<1> QED BY <1>2 DEF StageInv, TurnFollows, TurnOf, Pick

\* Notes are the signals' own (note_for, apply_handoff_note).
LEMMA NoteHolds == StageInv => NoteTellsWhy
<1> SUFFICES ASSUME StageInv PROVE NoteTellsWhy
  OBVIOUS
<1>1. CASE turn = NoTurn
  BY <1>1 DEF NoTurn, NoteTellsWhy
<1>2. ASSUME NEW verdict \in Opinion, turn = TurnOf(messages, verdict), source = turn.source
      PROVE  NoteTellsWhy
  <2> DEFINE pick == pick_tier(build_signal(messages))
  <2>1. CASE pick.tier = "none"
    <3>1. turn.note = "none" /\ turn.source = Behind(verdict).source
      BY <1>2, <2>1 DEF TurnOf, Handoff
    <3> QED BY <1>2, <3>1, BehindIs DEF NoteTellsWhy
  <2>2. CASE pick.tier # "none"
    <3>1. turn.tier = pick.tier /\ turn.source = pick.source /\ turn.note = note_for(pick)
          /\ turn.signal = "decided"
      BY <1>2, <2>2 DEF TurnOf, Handoff
    <3>2. \/ pick.tier = "capable" /\ pick.source \in {"override", "dimensions"}
          \/ pick.tier = "efficient" /\ pick.source \in {"tests_passed", "dimensions"}
      BY <2>2, PickIs
    <3> HIDE DEF pick
    <3> QED BY <1>2, <3>1, <3>2 DEF NoteTellsWhy, note_for
  <2> QED BY <2>1, <2>2
<1> QED BY <1>1, <1>2 DEF StageInv, TurnFollows

(***************************************************************************)
(* Every turn of every conversation is routed as its tool results, its     *)
(* compactions and its tests say, with a note that tells why, for any      *)
(* windows, thresholds, default tier and fallback (stage.rs).              *)
(***************************************************************************)
THEOREM StageIsSound == StageSpec => []StageSound
<1>1. StageInv => StageSound
  BY ErrorHolds, CompactionHolds, NoteHolds DEF StageSound
<1> QED BY <1>1, StageStarts, StageSteps, PTL DEF StageSpec

-----------------------------------------------------------------------------
(***************************************************************************)
(* What a judge is shown.                                                  *)
(*                                                                         *)
(* The conversation stands still once a judge was asked, so a view is what *)
(* the code makes of it (JudgeInv), and the rest is about that.  The pass  *)
(* over a window leaves an id waiting exactly when a result of it stands   *)
(* before every call of it: so for the ids of one message (Waits) and then *)
(* of a set of messages (Waiting), of each of which the fold makes what is *)
(* said here of it.  What the transcript gives up first is the newest of   *)
(* what it leaves out (NewestMore), whose line the sum of the rest has no  *)
(* room for.                                                               *)
(***************************************************************************)

\* Results of one message, of the blocks K, that no call of their id stands before, and the ids
\* that wait behind it, of which ids waited
Opens(blocks, K, k) ==
    /\ blocks[k].kind = "result"
    /\ \A l \in K : l < k /\ blocks[l].kind = "call" => blocks[l].id # blocks[k].id
Waits(blocks, K, ids) ==
    {blocks[k].id : k \in {k \in K : Opens(blocks, K, k)}} \cup
    {id \in ids : \A k \in K : blocks[k].kind = "call" => blocks[k].id # id}

\* The same of the messages S
OpensAt(said, S, i, k) ==
    /\ Opens(said[i].blocks, DOMAIN said[i].blocks, k)
    /\ \A j \in S : j < i => \A l \in DOMAIN said[j].blocks :
           said[j].blocks[l].kind = "call" => said[j].blocks[l].id # said[i].blocks[k].id
Waiting(said, S) ==
    UNION {{said[i].blocks[k].id : k \in {k \in DOMAIN said[i].blocks : OpensAt(said, S, i, k)}}
           : i \in S}

\* One block more, older than the others
LEMMA WaitsOne ==
    ASSUME NEW blocks, NEW ids, NEW T \in SUBSET Nat, T # {},
           \A k \in T : blocks[k].kind \in {"call", "result"}
    PROVE  Waits(blocks, T, ids) = Pair(blocks[Min(T)], Waits(blocks, T \ {Min(T)}, ids))
<1> DEFINE m == Min(T)  U == T \ {m}
<1>1. T \in SUBSET Nat /\ m \in T /\ \A y \in T : m <= y
  BY MinLeast
<1> HIDE DEF m
<1>2. \A k \in U : m < k /\ k \in Nat /\ m \in Nat
  BY <1>1
<1>3. CASE blocks[m].kind = "result"
  <2>1. Opens(blocks, T, m)
    BY <1>1, <1>3 DEF Opens
  <2>2. \A k \in U : Opens(blocks, T, k) <=> Opens(blocks, U, k)
    BY <1>3 DEF Opens
  <2>3. \A id : (\A k \in T : blocks[k].kind = "call" => blocks[k].id # id)
                <=> (\A k \in U : blocks[k].kind = "call" => blocks[k].id # id)
    BY <1>3
  <2>4. Waits(blocks, T, ids) = Waits(blocks, U, ids) \cup {blocks[m].id}
    <3> DEFINE Kept(K, id) == \A k \in K : blocks[k].kind = "call" => blocks[k].id # id
    <3>1. ASSUME NEW id PROVE id \in Waits(blocks, T, ids) <=> id \in Waits(blocks, U, ids) \cup {blocks[m].id}
      <4>1. (\E k \in T : Opens(blocks, T, k) /\ blocks[k].id = id)
            <=> (\E k \in U : Opens(blocks, U, k) /\ blocks[k].id = id) \/ id = blocks[m].id
        BY <1>1, <2>1, <2>2
      <4>2. Kept(T, id) <=> Kept(U, id)
        BY <2>3
      <4>3. \A K : id \in Waits(blocks, K, ids) <=>
              (\E k \in K : Opens(blocks, K, k) /\ blocks[k].id = id) \/ (id \in ids /\ Kept(K, id))
        BY DEF Waits
      <4> HIDE DEF Kept
      <4>4. id \in Waits(blocks, T, ids) <=>
              (\E k \in T : Opens(blocks, T, k) /\ blocks[k].id = id) \/ (id \in ids /\ Kept(T, id))
        BY <4>3
      <4>5. id \in Waits(blocks, U, ids) <=>
              (\E k \in U : Opens(blocks, U, k) /\ blocks[k].id = id) \/ (id \in ids /\ Kept(U, id))
        BY <4>3
      <4> QED BY <4>1, <4>2, <4>4, <4>5
    <3> QED BY <3>1
  <2> QED BY <1>3, <2>4 DEF Pair, m
<1>4. CASE blocks[m].kind = "call"
  <2>1. ~Opens(blocks, T, m)
    BY <1>4 DEF Opens
  <2>2. \A k \in U : Opens(blocks, T, k) <=> Opens(blocks, U, k) /\ blocks[m].id # blocks[k].id
    BY <1>1, <1>2, <1>4 DEF Opens
  <2>3. \A id : (\A k \in T : blocks[k].kind = "call" => blocks[k].id # id)
                <=> (\A k \in U : blocks[k].kind = "call" => blocks[k].id # id) /\ blocks[m].id # id
    BY <1>1, <1>4
  <2>4. Waits(blocks, T, ids) = Waits(blocks, U, ids) \ {blocks[m].id}
    <3> DEFINE Kept(K, id) == \A k \in K : blocks[k].kind = "call" => blocks[k].id # id
    <3>1. ASSUME NEW id PROVE id \in Waits(blocks, T, ids) <=> id \in Waits(blocks, U, ids) \ {blocks[m].id}
      <4>1. (\E k \in T : Opens(blocks, T, k) /\ blocks[k].id = id)
            <=> (\E k \in U : Opens(blocks, U, k) /\ blocks[k].id = id) /\ id # blocks[m].id
        BY <1>1, <2>1, <2>2
      <4>2. Kept(T, id) <=> Kept(U, id) /\ id # blocks[m].id
        BY <2>3
      <4>3. \A K : id \in Waits(blocks, K, ids) <=>
              (\E k \in K : Opens(blocks, K, k) /\ blocks[k].id = id) \/ (id \in ids /\ Kept(K, id))
        BY DEF Waits
      <4> HIDE DEF Kept
      <4>4. id \in Waits(blocks, T, ids) <=>
              (\E k \in T : Opens(blocks, T, k) /\ blocks[k].id = id) \/ (id \in ids /\ Kept(T, id))
        BY <4>3
      <4>5. id \in Waits(blocks, U, ids) <=>
              (\E k \in U : Opens(blocks, U, k) /\ blocks[k].id = id) \/ (id \in ids /\ Kept(U, id))
        BY <4>3
      <4> QED BY <4>1, <4>2, <4>4, <4>5
    <3> QED BY <3>1
  <2>5. blocks[m].kind # "result"
    BY <1>4
  <2> QED BY <2>4, <2>5 DEF Pair, m
<1>5. blocks[m].kind \in {"call", "result"}
  BY <1>1
<1> QED BY <1>3, <1>4, <1>5

\* The pass over one message.
LEMMA UnpairIs ==
    ASSUME NEW message \in Message, NEW ids
    PROVE  Unpair(message, ids) = Waits(message.blocks, DOMAIN message.blocks, ids)
<1> DEFINE blocks == message.blocks  D == DOMAIN blocks
           Pass(g) == [T \in SUBSET D |-> IF T = {} THEN ids ELSE Pair(blocks[Min(T)], g[T \ {Min(T)}])]
           g == CHOOSE g : g = Pass(g)
           h == [T \in SUBSET D |-> Waits(blocks, T, ids)]
<1>1. /\ Len(blocks) \in Nat /\ D = 1..Len(blocks) /\ IsFiniteSet(D) /\ D \in SUBSET Nat
      /\ \A k \in D : blocks[k].kind \in {"call", "result"}
  <2>1. /\ Len(blocks) \in Nat /\ D = 1..Len(blocks)
        /\ \A k \in D : blocks[k].kind \in {"call", "result"}
    BY JudgeAssumption
  <2>2. IsFiniteSet(1..Len(blocks)) /\ 1..Len(blocks) \in SUBSET Nat
    BY <2>1, FS_Interval
  <2> QED BY <2>1, <2>2
<1>2. Unpair(message, ids) = g[D]
  BY Zenon DEF Unpair, FoldRight, MapThenFoldSet
<1> HIDE DEF blocks, D
<1>3. \A T \in SUBSET D :
        h[T] = IF T = {} THEN ids ELSE Pair(blocks[Min(T)], h[T \ {Min(T)}])
  <2> SUFFICES ASSUME NEW T \in SUBSET D
               PROVE  h[T] = IF T = {} THEN ids ELSE Pair(blocks[Min(T)], h[T \ {Min(T)}])
    OBVIOUS
  <2>1. CASE T = {}
    BY <2>1 DEF Waits
  <2>2. CASE T # {}
    <3>1. Waits(blocks, T, ids) = Pair(blocks[Min(T)], Waits(blocks, T \ {Min(T)}, ids))
      <4>1. T \in SUBSET Nat /\ T # {} /\ \A k \in T : blocks[k].kind \in {"call", "result"}
        BY <1>1, <2>2
      <4> QED BY <4>1, WaitsOne
    <3> QED BY <2>2, <3>1
  <2> QED BY <2>1, <2>2
<1>4. h = Pass(h)
  <2>1. h = [T \in SUBSET D |-> h[T]] /\ Pass(h) = [T \in SUBSET D |-> Pass(h)[T]]
    OBVIOUS
  <2>2. \A T \in SUBSET D : h[T] = Pass(h)[T]
    BY <1>3
  <2> QED BY <2>1, <2>2
<1> HIDE DEF h
<1>5. g = Pass(g)
  BY <1>4
<1> HIDE DEF g
<1>6. \A T \in SUBSET D : g[T] = IF T = {} THEN ids ELSE Pair(blocks[Min(T)], g[T \ {Min(T)}])
  BY <1>5
<1>7. \A T \in SUBSET D : T # {} /\ g[T \ {Min(T)}] = h[T \ {Min(T)}] => g[T] = h[T]
  BY <1>3, <1>6
<1>8. g[{}] = h[{}]
  BY <1>3, <1>6
<1>9. g[D] = h[D]
  BY <1>1, <1>7, <1>8, FoldsAgree
<1> QED BY <1>2, <1>9 DEF h, blocks, D

\* What waits, by its members
LEMMA WaitingIs ==
    ASSUME NEW said, NEW S, NEW id
    PROVE  id \in Waiting(said, S) <=>
             \E i \in S : \E k \in DOMAIN said[i].blocks :
                 id = said[i].blocks[k].id /\ OpensAt(said, S, i, k)
<1> DEFINE At(i) == {said[i].blocks[k].id : k \in {k \in DOMAIN said[i].blocks : OpensAt(said, S, i, k)}}
<1>1. \A i : id \in At(i) <=> \E k \in DOMAIN said[i].blocks :
                 id = said[i].blocks[k].id /\ OpensAt(said, S, i, k)
  OBVIOUS
<1>2. Waiting(said, S) = UNION {At(i) : i \in S}
  BY DEF Waiting
<1> HIDE DEF At
<1>3. id \in Waiting(said, S) <=> \E i \in S : id \in At(i)
  BY <1>2
<1> QED BY <1>1, <1>3

\* One message more, older than the others
LEMMA WaitingOne ==
    ASSUME NEW n \in Nat, NEW said \in [1..n -> Message], NEW T \in SUBSET (1..n), T # {}
    PROVE  Waiting(said, T) = Unpair(said[Min(T)], Waiting(said, T \ {Min(T)}))
<1> DEFINE m == Min(T)  U == T \ {m}  B(i) == said[i].blocks
<1>1. T \in SUBSET Nat /\ m \in T /\ \A y \in T : m <= y
  BY MinLeast
<1> HIDE DEF m
<1>2. \A k \in U : m < k /\ ~(k < m) /\ k \in Nat /\ m \in Nat
  BY <1>1
<1>3. \A k \in DOMAIN B(m) : OpensAt(said, T, m, k) <=> Opens(B(m), DOMAIN B(m), k)
  <2>1. \A j \in T : ~(j < m)
    BY <1>1
  <2> HIDE DEF B
  <2>2. \A k : OpensAt(said, T, m, k) <=>
          /\ Opens(B(m), DOMAIN B(m), k)
          /\ \A j \in T : j < m => \A l \in DOMAIN B(j) : B(j)[l].kind = "call" => B(j)[l].id # B(m)[k].id
    BY DEF OpensAt, B
  <2> QED BY <2>1, <2>2
<1>4. \A i \in U : \A k \in DOMAIN B(i) :
        OpensAt(said, T, i, k) <=>
          /\ OpensAt(said, U, i, k)
          /\ \A l \in DOMAIN B(m) : B(m)[l].kind = "call" => B(m)[l].id # B(i)[k].id
  <2> SUFFICES ASSUME NEW i \in U, NEW k \in DOMAIN B(i)
               PROVE  OpensAt(said, T, i, k) <=>
                        /\ OpensAt(said, U, i, k)
                        /\ \A l \in DOMAIN B(m) : B(m)[l].kind = "call" => B(m)[l].id # B(i)[k].id
    OBVIOUS
  <2> DEFINE Away(j) == \A l \in DOMAIN B(j) : B(j)[l].kind = "call" => B(j)[l].id # B(i)[k].id
  <2>1. \A V : OpensAt(said, V, i, k) <=>
                  Opens(B(i), DOMAIN B(i), k) /\ \A j \in V : j < i => Away(j)
    BY DEF OpensAt
  <2>2. m < i /\ T = U \cup {m}
    BY <1>1, <1>2
  <2> HIDE DEF Away
  <2>3. (\A j \in T : j < i => Away(j)) <=> (\A j \in U : j < i => Away(j)) /\ Away(m)
    BY <2>2
  <2>4. OpensAt(said, T, i, k) <=> OpensAt(said, U, i, k) /\ Away(m)
    BY <2>1, <2>3
  <2> QED BY <2>4 DEF Away
<1>5. Unpair(said[m], Waiting(said, U)) = Waits(B(m), DOMAIN B(m), Waiting(said, U))
  BY <1>1, UnpairIs
<1>6. ASSUME NEW id
      PROVE  id \in Waiting(said, T) <=> id \in Waits(B(m), DOMAIN B(m), Waiting(said, U))
  <2> DEFINE Now == \E k \in DOMAIN B(m) : id = B(m)[k].id /\ Opens(B(m), DOMAIN B(m), k)
             Later == \E i \in U : \E k \in DOMAIN B(i) : id = B(i)[k].id /\ OpensAt(said, U, i, k)
             NoCall == \A l \in DOMAIN B(m) : B(m)[l].kind = "call" => B(m)[l].id # id
  <2>1. id \in Waiting(said, T) <=>
          \E i \in T : \E k \in DOMAIN B(i) : id = B(i)[k].id /\ OpensAt(said, T, i, k)
    BY WaitingIs
  <2>2. id \in Waiting(said, U) <=> Later
    BY WaitingIs
  <2>3. id \in Waits(B(m), DOMAIN B(m), Waiting(said, U)) <=> Now \/ (Later /\ NoCall)
    BY <2>2 DEF Waits
  <2>4. id \in Waiting(said, T) <=> Now \/ (Later /\ NoCall)
    <3> DEFINE At(V, i) == \E k \in DOMAIN B(i) : id = B(i)[k].id /\ OpensAt(said, V, i, k)
    <3>1. id \in Waiting(said, T) <=> At(T, m) \/ \E i \in U : At(T, i)
      BY <1>1, <2>1
    <3>2. At(T, m) <=> Now
      BY <1>3
    <3>3. \A i \in U : At(T, i) <=> At(U, i) /\ NoCall
      <4> HIDE DEF B
      <4> SUFFICES ASSUME NEW i \in U
                   PROVE  (\E k \in DOMAIN B(i) : id = B(i)[k].id /\ OpensAt(said, T, i, k)) <=>
                            (\E k \in DOMAIN B(i) : id = B(i)[k].id /\ OpensAt(said, U, i, k)) /\ NoCall
        OBVIOUS
      <4>1. \A k \in DOMAIN B(i) : id = B(i)[k].id =>
              (OpensAt(said, T, i, k) <=> OpensAt(said, U, i, k) /\ NoCall)
        <5> SUFFICES ASSUME NEW k \in DOMAIN B(i), id = B(i)[k].id
                     PROVE  OpensAt(said, T, i, k) <=> OpensAt(said, U, i, k) /\ NoCall
          OBVIOUS
        <5>1. NoCall <=> \A l \in DOMAIN B(m) : B(m)[l].kind = "call" => B(m)[l].id # B(i)[k].id
          OBVIOUS
        <5>2. OpensAt(said, T, i, k) <=>
                /\ OpensAt(said, U, i, k)
                /\ \A l \in DOMAIN B(m) : B(m)[l].kind = "call" => B(m)[l].id # B(i)[k].id
          BY <1>4
        <5> HIDE DEF NoCall
        <5> QED BY <5>1, <5>2
      <4> HIDE DEF NoCall
      <4> QED BY <4>1
    <3>4. (\E i \in U : At(U, i)) <=> Later
      OBVIOUS
    <3> HIDE DEF At, Now, Later, NoCall
    <3> QED BY <3>1, <3>2, <3>3, <3>4
  <2> QED BY <2>3, <2>4
<1>7. Waiting(said, T) = Unpair(said[m], Waiting(said, U))
  BY <1>5, <1>6
<1> QED BY <1>7 DEF m

\* The pass over the messages of a window.
LEMMA UnpairedIs ==
    ASSUME NEW n \in Nat, NEW said \in [1..n -> Message], NEW S \in SUBSET (1..n)
    PROVE  Unpaired(said, S) = Waiting(said, S)
<1> DEFINE Pass(g) == [T \in SUBSET S |-> IF T = {} THEN {} ELSE Unpair(said[Min(T)], g[T \ {Min(T)}])]
           g == CHOOSE g : g = Pass(g)
           h == [T \in SUBSET S |-> Waiting(said, T)]
<1>1. IsFiniteSet(S) /\ S \in SUBSET Nat
  <2>1. IsFiniteSet(1..n)
    BY FS_Interval
  <2>2. S \in SUBSET Nat
    OBVIOUS
  <2> QED BY <2>1, <2>2, FS_Subset
<1>2. Unpaired(said, S) = g[S]
  BY Zenon DEF Unpaired, MapThenFoldSet
<1>3. \A T \in SUBSET S :
        h[T] = IF T = {} THEN {} ELSE Unpair(said[Min(T)], h[T \ {Min(T)}])
  <2> SUFFICES ASSUME NEW T \in SUBSET S
               PROVE  h[T] = IF T = {} THEN {} ELSE Unpair(said[Min(T)], h[T \ {Min(T)}])
    OBVIOUS
  <2>1. CASE T = {}
    BY <2>1 DEF Waiting
  <2>2. CASE T # {}
    <3>1. Waiting(said, T) = Unpair(said[Min(T)], Waiting(said, T \ {Min(T)}))
      BY <2>2, WaitingOne
    <3> QED BY <2>2, <3>1
  <2> QED BY <2>1, <2>2
<1>4. h = Pass(h)
  <2>1. h = [T \in SUBSET S |-> h[T]] /\ Pass(h) = [T \in SUBSET S |-> Pass(h)[T]]
    OBVIOUS
  <2>2. \A T \in SUBSET S : h[T] = Pass(h)[T]
    BY <1>3
  <2> QED BY <2>1, <2>2
<1> HIDE DEF h
<1>5. g = Pass(g)
  BY <1>4
<1> HIDE DEF g
<1>6. \A T \in SUBSET S : g[T] = IF T = {} THEN {} ELSE Unpair(said[Min(T)], g[T \ {Min(T)}])
  BY <1>5
<1>7. \A T \in SUBSET S : T # {} /\ g[T \ {Min(T)}] = h[T \ {Min(T)}] => g[T] = h[T]
  BY <1>3, <1>6
<1>8. g[{}] = h[{}]
  BY <1>3, <1>6
<1>9. g[S] = h[S]
  BY <1>1, <1>7, <1>8, FoldsAgree
<1> QED BY <1>2, <1>9 DEF h

\* So the pass leaves nothing waiting exactly when every result stands behind a call of its id.
LEMMA PairedIsUnpaired ==
    ASSUME conversation \in Seq(Message), NEW S \in SUBSET DOMAIN conversation
    PROVE  Unpaired(conversation, S) = {} <=> Paired(S)
<1> DEFINE B(i) == conversation[i].blocks
           Lone(i, k) == /\ B(i)[k].kind = "result"
                         /\ ~\E j \in S : \E l \in DOMAIN B(j) :
                               /\ j < i \/ (j = i /\ l < k)
                               /\ B(j)[l].kind = "call" /\ B(j)[l].id = B(i)[k].id
<1>1. /\ Len(conversation) \in Nat /\ DOMAIN conversation = 1..Len(conversation)
      /\ conversation \in [1..Len(conversation) -> Message]
  OBVIOUS
<1>2. Unpaired(conversation, S) = Waiting(conversation, S)
  BY <1>1, UnpairedIs
<1>3. \A i \in S : \A k \in DOMAIN B(i) : OpensAt(conversation, S, i, k) <=> Lone(i, k)
  BY DEF OpensAt, Opens
<1>4. Waiting(conversation, S) = {} <=> \A i \in S : \A k \in DOMAIN B(i) : ~OpensAt(conversation, S, i, k)
  <2>1. \A id : id \in Waiting(conversation, S) <=>
                  \E i \in S : \E k \in DOMAIN B(i) : id = B(i)[k].id /\ OpensAt(conversation, S, i, k)
    BY WaitingIs
  <2> HIDE DEF B
  <2> QED BY <2>1
<1>5. Paired(S) <=> \A i \in S : \A k \in DOMAIN B(i) : ~Lone(i, k)
  BY DEF Paired
<1> HIDE DEF Lone, B
<1> QED BY <1>2, <1>3, <1>4, <1>5

\* The newest of a set of positions: what is newer than one of them is among them, they are as
\* many as asked for at most, and all of them when that is as many as there are.
LEMMA NewestIs ==
    ASSUME NEW S \in SUBSET Nat, IsFiniteSet(S), NEW n \in Int
    PROVE  /\ \A i \in Newest(S, n), j \in S : j > i => j \in Newest(S, n)
           /\ n = 0 => Newest(S, n) = {}
           /\ n \in Nat => Cardinality(Newest(S, n)) =< n
           /\ n = Cardinality(S) => Newest(S, n) = S
<1> DEFINE Above(i) == {j \in S : j > i}  L == Newest(S, n)
<1>1. \A i : Above(i) \in SUBSET S
  OBVIOUS
<1>2. L \in SUBSET S /\ \A i \in S : i \in L <=> Cardinality(Above(i)) < n
  BY DEF Newest
<1> HIDE DEF Above, L
<1>3. \A T \in SUBSET S : IsFiniteSet(T) /\ Cardinality(T) \in Nat
  BY FS_Subset, FS_CardinalityType
<1>4. ASSUME NEW i \in L, NEW j \in S, j > i PROVE j \in L
  <2>1. Above(j) \in SUBSET Above(i)
    <3>1. i \in Nat /\ j \in Nat
      BY <1>2
    <3>2. \A k \in S : k > j => k > i
      BY <1>4, <3>1
    <3> QED BY <3>2 DEF Above
  <2>2. IsFiniteSet(Above(i)) /\ Cardinality(Above(i)) \in Nat /\ Cardinality(Above(j)) \in Nat
    BY <1>1, <1>3
  <2>3. Cardinality(Above(j)) <= Cardinality(Above(i))
    BY <2>1, <2>2, FS_Subset
  <2> QED BY <1>2, <2>2, <2>3
<1>5. ASSUME n = 0 PROVE L = {}
  BY <1>1, <1>2, <1>3, <1>5
<1>6. ASSUME n \in Nat PROVE Cardinality(L) =< n
  <2>1. CASE L = {}
    BY <1>6, <2>1, FS_EmptySet
  <2>2. CASE L # {}
    <3> DEFINE l == Min(L)
    <3>1. l \in L /\ \A y \in L : l <= y
      BY <1>2, <2>2, MinLeast
    <3> HIDE DEF l
    <3>2. L \in SUBSET (Above(l) \cup {l}) /\ l \notin Above(l)
      BY <1>2, <3>1 DEF Above
    <3>3. IsFiniteSet(Above(l)) /\ Cardinality(Above(l)) \in Nat /\ Cardinality(Above(l)) < n
      BY <1>1, <1>2, <1>3, <3>1
    <3>4. IsFiniteSet(Above(l) \cup {l}) /\ Cardinality(Above(l) \cup {l}) = Cardinality(Above(l)) + 1
      BY <3>2, <3>3, FS_AddElement
    <3>5. Cardinality(L) <= Cardinality(Above(l) \cup {l}) /\ Cardinality(L) \in Nat
      BY <1>2, <1>3, <3>2, <3>4, FS_Subset
    <3> QED BY <1>6, <3>3, <3>4, <3>5
  <2> QED BY <2>1, <2>2
<1>7. ASSUME n = Cardinality(S) PROVE L = S
  <2>1. ASSUME NEW i \in S PROVE Cardinality(Above(i)) < n
    <3>1. Above(i) \in SUBSET (S \ {i})
      BY DEF Above
    <3>2. IsFiniteSet(S \ {i}) /\ Cardinality(S \ {i}) = Cardinality(S) - 1
      BY FS_RemoveElement
    <3>3. Cardinality(Above(i)) <= Cardinality(S \ {i})
      BY <3>1, <3>2, FS_Subset
    <3>4. Cardinality(Above(i)) \in Nat /\ Cardinality(S) \in Nat
      BY <1>1, <1>3
    <3> QED BY <1>7, <3>2, <3>3, <3>4
  <2> QED BY <1>2, <2>1
<1> QED BY <1>4, <1>5, <1>6, <1>7 DEF L

\* One more of them is the newest of the rest.
LEMMA NewestMore ==
    ASSUME NEW S \in SUBSET Nat, IsFiniteSet(S), NEW n \in Nat, NEW x \in S \ Newest(S, n),
           \A y \in S \ Newest(S, n) : y =< x
    PROVE  Newest(S, n + 1) = Newest(S, n) \cup {x}
<1> DEFINE Above(i) == {j \in S : j > i}  L == Newest(S, n)  M == Newest(S, n + 1)
<1>1. \A i : Above(i) \in SUBSET S
  OBVIOUS
<1>2. L \in SUBSET S /\ \A i \in S : i \in L <=> Cardinality(Above(i)) < n
  BY DEF Newest
<1>3. M \in SUBSET S /\ \A i \in S : i \in M <=> Cardinality(Above(i)) < n + 1
  BY DEF Newest
<1>4. \A i \in L, j \in S : j > i => j \in L
  BY NewestIs
<1>5. Cardinality(L) =< n
  BY NewestIs
<1>6. x \in S /\ x \notin L /\ \A y \in S : y \notin L => y =< x
  OBVIOUS
<1>7. \A T \in SUBSET S : IsFiniteSet(T) /\ Cardinality(T) \in Nat
  BY FS_Subset, FS_CardinalityType
<1> HIDE DEF Above, L, M
<1>8. Above(x) = L
  <2>1. ASSUME NEW i \in L PROVE i \in Above(x)
    <3>1. i \in S /\ ~(x > i) /\ x # i
      BY <1>2, <1>4, <1>6
    <3> QED BY <3>1, <1>6 DEF Above
  <2>2. ASSUME NEW i \in Above(x) PROVE i \in L
    BY <1>6 DEF Above
  <2> QED BY <2>1, <2>2
<1>9. Cardinality(L) = n
  <2>1. ~(Cardinality(L) < n) /\ Cardinality(L) \in Nat
    BY <1>2, <1>6, <1>7, <1>8
  <2> QED BY <1>5, <2>1
<1>10. x \in M
  BY <1>3, <1>6, <1>8, <1>9
<1>11. ASSUME NEW i \in L PROVE i \in M
  <2>1. i \in S /\ Cardinality(Above(i)) < n /\ Cardinality(Above(i)) \in Nat
    BY <1>1, <1>2, <1>7
  <2> QED BY <1>3, <2>1
<1>12. ASSUME NEW i \in M, i \notin L, i # x PROVE FALSE
  <2>1. i \in S /\ i < x /\ Cardinality(Above(i)) < n + 1
    BY <1>3, <1>6, <1>12
  <2>2. L \cup {x} \in SUBSET Above(i)
    <3>1. \A j \in L : j \in S /\ j > x
      BY <1>2, <1>8 DEF Above
    <3>2. x \in S /\ x > i
      BY <1>6, <2>1
    <3>3. \A j \in L : j \in S /\ j > i
      <4>1. \A j \in S : j > x => j > i
        BY <2>1, <3>2
      <4> QED BY <3>1, <4>1
    <3> QED BY <3>2, <3>3 DEF Above
  <2>3. IsFiniteSet(L \cup {x}) /\ Cardinality(L \cup {x}) = n + 1
    BY <1>2, <1>6, <1>7, <1>9, FS_AddElement
  <2>4. IsFiniteSet(Above(i)) /\ Cardinality(Above(i)) \in Nat
    BY <1>1, <1>7
  <2>5. Cardinality(L \cup {x}) <= Cardinality(Above(i))
    BY <2>2, <2>4, FS_Subset
  <2> QED BY <2>1, <2>3, <2>4, <2>5
<1>13. M = L \cup {x}
  BY <1>10, <1>11, <1>12
<1> QED BY <1>13 DEF L, M

\* What the window leaves, and that it is whole.
Whole(tail, window, read) ==
    LET counted == Newest(tail, window)
        Wider == {start \in tail : counted \subseteq From(tail, start)}
    IN  /\ counted \subseteq read
        /\ \A i \in read, j \in tail : j > i => j \in read
        /\ \A start \in Wider : Paired(From(tail, start)) => read \subseteq From(tail, start)
        /\ ~Paired(read) => read = counted /\ \A start \in Wider : ~Paired(From(tail, start))

LEMMA WindowIsWhole ==
    ASSUME conversation \in Seq(Message), NEW tail \in SUBSET DOMAIN conversation, NEW window \in Nat,
           NEW read, read = window_start(conversation, tail, window)
    PROVE  Whole(tail, window, read)
<1> DEFINE counted == Newest(tail, window)
           Wider == {start \in tail : counted \subseteq From(tail, start)}
           whole == {start \in Wider : Paired(From(tail, start))}
<1> SUFFICES /\ counted \subseteq read
             /\ \A i \in read, j \in tail : j > i => j \in read
             /\ \A start \in Wider : Paired(From(tail, start)) => read \subseteq From(tail, start)
             /\ ~Paired(read) => read = counted /\ \A start \in Wider : ~Paired(From(tail, start))
  BY DEF Whole
<1>1. /\ Len(conversation) \in Nat /\ tail \in SUBSET (1..Len(conversation))
      /\ tail \in SUBSET Nat /\ IsFiniteSet(tail)
  <2>1. Len(conversation) \in Nat /\ tail \in SUBSET (1..Len(conversation))
    OBVIOUS
  <2>2. IsFiniteSet(1..Len(conversation)) /\ tail \in SUBSET Nat
    BY <2>1, FS_Interval
  <2> QED BY <2>1, <2>2, FS_Subset
<1>2. \A start : From(tail, start) \in SUBSET DOMAIN conversation
  BY DEF From
<1>3. \A start : Unpaired(conversation, From(tail, start)) = {} <=> Paired(From(tail, start))
  BY <1>2, PairedIsUnpaired
<1>4. read = IF counted = {} \/ whole = {} THEN counted ELSE From(tail, Max(whole))
  <2>1. whole = {start \in tail : /\ counted \subseteq From(tail, start)
                                  /\ Unpaired(conversation, From(tail, start)) = {}}
    BY <1>3
  <2> HIDE DEF whole
  <2> QED BY <2>1 DEF window_start
<1>5. counted \subseteq tail /\ \A i \in counted, j \in tail : j > i => j \in counted
  <2>1. counted \subseteq tail
    BY DEF Newest
  <2>2. \A i \in counted, j \in tail : j > i => j \in counted
    BY <1>1, NewestIs
  <2> QED BY <2>1, <2>2
<1>6. Paired({})
  BY DEF Paired
<1> HIDE DEF counted
<1>7. CASE counted = {}
  BY <1>4, <1>6, <1>7
<1>8. CASE counted # {} /\ whole = {}
  BY <1>4, <1>5, <1>8
<1>9. CASE counted # {} /\ whole # {}
  <2> DEFINE m == Max(whole)
  <2>1. whole \in SUBSET (0..Len(conversation))
    BY <1>1
  <2>2. m \in whole /\ \A y \in whole : m >= y
    BY <1>1, <1>9, <2>1, MaxGreatest
  <2>3. read = From(tail, m)
    BY <1>4, <1>9
  <2> HIDE DEF m
  <2>4. m \in Nat /\ counted \subseteq read /\ Paired(read)
    BY <1>1, <2>2, <2>3
  <2>5. \A i \in read, j \in tail : j > i => j \in read
    BY <1>1, <2>3, <2>4 DEF From
  <2>6. ASSUME NEW start \in Wider, Paired(From(tail, start)) PROVE read \subseteq From(tail, start)
    <3>1. m >= start /\ start \in Nat
      BY <1>1, <2>2, <2>6
    <3> QED BY <1>1, <2>3, <2>4, <3>1 DEF From
  <2> QED BY <2>4, <2>5, <2>6
<1> QED BY <1>7, <1>8, <1>9

\* A line takes two units at least.
LEMMA LineTakes ==
    ASSUME NEW message \in Message,
           NEW limit \in {SYSTEM_CHARS, FIRST_USER_CHARS, window_message_chars}
    PROVE  line(message, limit) \in Nat /\ line(message, limit) >= 2
<1>1. message.length \in Nat /\ limit \in Nat /\ Label \in Nat \ {0} /\ TRIM_MARKER \in Nat /\ MinKeep \in Nat
  BY JudgeAssumption
<1>2. truncate_middle(message.length, limit) \in Nat
  BY <1>1 DEF truncate_middle
<1> QED BY <1>1, <1>2 DEF line

\* What the transcript leaves out.
LEMMA SummaryKeeps ==
    ASSUME conversation \in Seq(Message), conversation # <<>>, Len(conversation) =< MaxSaid,
           NEW window \in Nat \ {0}, summary = summarize_for_judge(conversation, window)
    PROVE  NewestEvidenceKept
<1> DEFINE N == Len(conversation)
           anchors == Anchors(conversation)
           recent == Newest(DOMAIN conversation \ anchors, window)
           fits == {n \in 0..Cardinality(recent) :
                       assemble(conversation, Newest(recent, n)) =< MAX_REQUEST_CHARS}
           n == Max(fits \cup {0})
           left == Newest(recent, n)
           total == assemble(conversation, left)
<1>1. /\ summary.anchors = anchors /\ summary.recent = recent /\ summary.left = left
      /\ summary.length = IF total =< MAX_REQUEST_CHARS THEN total ELSE MAX_REQUEST_CHARS - 1
      /\ summary.whole = (total =< MAX_REQUEST_CHARS)
  BY Zenon DEF summarize_for_judge
<1>2. N \in Nat \ {0} /\ DOMAIN conversation = 1..N /\ IsFiniteSet(DOMAIN conversation)
  <2>1. N \in Nat \ {0} /\ DOMAIN conversation = 1..N
    OBVIOUS
  <2> QED BY <2>1, FS_Interval
<1>3. anchors \in SUBSET DOMAIN conversation /\ Instructions(conversation) \subseteq anchors
  BY DEF Anchors, Instructions, Users
<1> HIDE DEF N, anchors
<1>4. recent \in SUBSET (DOMAIN conversation \ anchors)
  BY DEF Newest
<1>5. N \in anchors \cup recent
  <2>1. SUFFICES ASSUME N \notin anchors PROVE N \in recent
    OBVIOUS
  <2>2. {j \in DOMAIN conversation \ anchors : j > N} = {}
    BY <1>2
  <2>3. Cardinality({j \in DOMAIN conversation \ anchors : j > N}) = 0
    BY <2>2, FS_EmptySet
  <2> QED BY <1>2, <2>1, <2>3 DEF Newest
<1> HIDE DEF recent
<1>6. /\ recent \in SUBSET Nat /\ recent \in SUBSET (1..N) /\ IsFiniteSet(recent) /\ IsFiniteSet(anchors)
      /\ Cardinality(recent) \in Nat
  BY <1>2, <1>3, <1>4, FS_Subset, FS_CardinalityType
<1>7. n \in 0..Cardinality(recent) /\ n \in fits \cup {0} /\ \A k \in fits : k =< n
  <2>1. fits \cup {0} \in SUBSET (0..Cardinality(recent)) /\ fits \cup {0} # {}
    BY <1>6
  <2>2. n \in fits \cup {0} /\ \A k \in fits \cup {0} : n >= k
    BY <1>6, <2>1, MaxGreatest
  <2> QED BY <1>6, <2>1, <2>2
<1>8. \A k : k \in fits <=> /\ k \in 0..Cardinality(recent)
                            /\ assemble(conversation, Newest(recent, k)) =< MAX_REQUEST_CHARS
  OBVIOUS
<1> HIDE DEF fits, n
<1>9. left \in SUBSET recent /\ \A i \in left, j \in recent : j > i => j \in left
  <2>1. left \in SUBSET recent
    BY DEF Newest
  <2>2. n \in Int
    BY <1>6, <1>7
  <2> QED BY <1>6, <2>1, <2>2, NewestIs
<1>10. /\ IsFiniteSet(anchors \cup left) /\ anchors \cup left \in SUBSET DOMAIN conversation
       /\ \A i \in DOMAIN conversation : Lines(conversation)[i] \in Nat
       /\ MAX_REQUEST_CHARS \in Nat \ {0}
  <2>1. \A i \in DOMAIN conversation : Lines(conversation)[i] \in Nat
    <3>1. \A i \in DOMAIN conversation : conversation[i] \in Message
      OBVIOUS
    <3> QED BY <3>1, LineTakes DEF Lines
  <2>2. anchors \cup left \in SUBSET DOMAIN conversation
    BY <1>3, <1>4, <1>9
  <2> QED BY <1>2, <2>1, <2>2, FS_Subset, JudgeAssumption
\* The header of what is left, and of one line more.
<1> DEFINE shown_lines == Cardinality(left)
<1>16. /\ shown_lines \in Nat /\ Header[shown_lines] \in Nat /\ IsFiniteSet(left)
       /\ left # recent => Header[shown_lines + 1] \in Nat /\ Header[shown_lines + 1] >= Header[shown_lines]
  <2>1. IsFiniteSet(left) /\ shown_lines =< Cardinality(recent) /\ shown_lines \in Nat
        /\ (left # recent => shown_lines < Cardinality(recent))
    BY <1>6, <1>9, FS_Subset, FS_CardinalityType
  <2>2. Cardinality(recent) =< N
    <3>1. N \in Nat \ {0} /\ recent \in SUBSET (1..N)
      BY <1>2, <1>6
    <3>2. IsFiniteSet(1..N) /\ Cardinality(1..N) = N
      BY <3>1, FS_Interval
    <3>3. Cardinality(recent) =< Cardinality(1..N)
      BY <3>1, <3>2, FS_Subset
    <3> QED BY <3>2, <3>3
  <2>3. N =< MaxSaid /\ MaxSaid \in Nat
    BY JudgeAssumption DEF N
  <2> HIDE DEF shown_lines
  <2>4. shown_lines \in 0..MaxSaid /\ (left # recent => shown_lines + 1 \in 0..MaxSaid)
    BY <1>2, <1>6, <2>1, <2>2, <2>3
  <2>5. \A k \in 0..MaxSaid : Header[k] \in Nat /\ (k > 0 => Header[k] >= Header[k - 1])
    BY JudgeAssumption
  <2>6. ASSUME left # recent
        PROVE  Header[shown_lines + 1] \in Nat /\ Header[shown_lines + 1] >= Header[shown_lines]
    <3>1. shown_lines + 1 > 0 /\ (shown_lines + 1) - 1 = shown_lines
      BY <2>1
    <3> QED BY <2>4, <2>5, <2>6, <3>1
  <2> QED BY <2>1, <2>4, <2>5, <2>6
<1> HIDE DEF shown_lines
<1>11. total \in Nat
  <2>1. SumFunctionOnSet(Lines(conversation), anchors \cup left) \in Nat
    BY <1>10, SumIsNat
  <2> QED BY <1>16, <2>1 DEF assemble, shown_lines, anchors
<1>12. ~summary.whole => left = {}
  <2>1. SUFFICES ASSUME ~(total =< MAX_REQUEST_CHARS) PROVE n = 0
    <3>1. n = 0 => left = {}
      <4>1. n \in Int
        BY <1>6, <1>7
      <4> QED BY <1>6, <4>1, NewestIs
    <3> HIDE DEF left
    <3> QED BY <1>1, <3>1
  <2> QED BY <1>7, <1>8, <2>1
<1>13. ASSUME left # recent
       PROVE  summary.length + line(conversation[Max(recent \ left)], window_message_chars)
                  + (Header[shown_lines + 1] - Header[shown_lines]) > MAX_REQUEST_CHARS
  <2> DEFINE x == Max(recent \ left)
  <2>1. x \in recent \ left /\ \A y \in recent \ left : x >= y
    <3>1. recent \ left \in SUBSET (0..N) /\ recent \ left # {} /\ N \in Nat
      <4> HIDE DEF left
      <4>1. recent \ left # {}
        BY <1>9, <1>13
      <4>2. N \in Nat
        BY <1>2
      <4>3. \A i \in recent : i \in 0..N
        BY <1>6, <4>2
      <4> QED BY <4>1, <4>2, <4>3
    <3> QED BY <1>2, <3>1, MaxGreatest
  <2> HIDE DEF x
  <2>2. x \in DOMAIN conversation /\ conversation[x] \in Message /\ x \notin anchors /\ x \notin left
    BY <1>4, <2>1
  <2>3. line(conversation[x], window_message_chars) \in Nat
        /\ line(conversation[x], window_message_chars) >= 2
    BY <2>2, LineTakes
  <2>4. CASE ~(total =< MAX_REQUEST_CHARS)
    BY <1>1, <1>10, <1>13, <1>16, <2>3, <2>4 DEF x
  <2>5. CASE total =< MAX_REQUEST_CHARS
    <3>1. n \in Nat /\ n # Cardinality(recent) /\ n + 1 \in 0..Cardinality(recent)
      BY <1>6, <1>7, <1>13, NewestIs
    <3>2. n + 1 \notin fits
      BY <1>7, <3>1
    <3>3. Newest(recent, n + 1) = left \cup {x}
      <4>1. \A y \in recent \ Newest(recent, n) : y =< x
        BY <1>6, <2>1
      <4> QED BY <1>6, <2>1, <3>1, <4>1, NewestMore
    <3>4. ~(assemble(conversation, left \cup {x}) =< MAX_REQUEST_CHARS)
      BY <1>8, <3>1, <3>2, <3>3
    <3>5. Lines(conversation)[x] = line(conversation[x], window_message_chars)
      BY <1>3, <2>2 DEF Lines, anchors
    <3>6. SumFunctionOnSet(Lines(conversation), (anchors \cup left) \cup {x})
            = SumFunctionOnSet(Lines(conversation), anchors \cup left) + Lines(conversation)[x]
      <4> DEFINE S == (anchors \cup left) \cup {x}
      <4>1. IsFiniteSet(S) /\ S \ {x} = anchors \cup left /\ x \in S
        <5>1. IsFiniteSet((anchors \cup left) \cup {x})
          BY <1>10, FS_AddElement
        <5> QED BY <2>2, <5>1
      <4>2. \A i \in S : Lines(conversation)[i] \in Nat
        BY <1>10, <2>2
      <4>3. /\ SumFunctionOnSet(Lines(conversation), anchors \cup left) \in Nat
            /\ Lines(conversation)[x] \in Nat
        BY <1>10, <2>2, SumIsNat
      <4> HIDE DEF S
      <4>4. SumFunctionOnSet(Lines(conversation), S)
              = Lines(conversation)[x] + SumFunctionOnSet(Lines(conversation), S \ {x})
        BY <4>1, <4>2, SumOfParts
      <4>5. SumFunctionOnSet(Lines(conversation), S \ {x}) = SumFunctionOnSet(Lines(conversation), anchors \cup left)
        BY <4>1
      <4>6. SumFunctionOnSet(Lines(conversation), S)
              = SumFunctionOnSet(Lines(conversation), anchors \cup left) + Lines(conversation)[x]
        BY <4>3, <4>4, <4>5
      <4> QED BY <4>6 DEF S
    <3>7. assemble(conversation, left \cup {x})
            = total + line(conversation[x], window_message_chars)
              + (Header[shown_lines + 1] - Header[shown_lines])
      <4>1. SumFunctionOnSet(Lines(conversation), anchors \cup left) \in Nat
        BY <1>10, SumIsNat
      <4>2. Cardinality(left \cup {x}) = shown_lines + 1
        BY <1>16, <2>2, FS_AddElement DEF shown_lines
      <4>3. anchors \cup (left \cup {x}) = (anchors \cup left) \cup {x}
        OBVIOUS
      <4>4. assemble(conversation, left \cup {x})
              = Header[shown_lines + 1] + SumFunctionOnSet(Lines(conversation), (anchors \cup left) \cup {x})
        BY <4>2, <4>3 DEF assemble, anchors
      <4>5. total = Header[shown_lines] + SumFunctionOnSet(Lines(conversation), anchors \cup left)
        BY DEF assemble, anchors, shown_lines
      <4> HIDE DEF total
      <4> QED BY <1>13, <1>16, <2>3, <3>5, <3>6, <4>1, <4>4, <4>5
    <3>8. total + line(conversation[x], window_message_chars)
            + (Header[shown_lines + 1] - Header[shown_lines]) > MAX_REQUEST_CHARS
      <4> HIDE DEF total
      <4> QED BY <1>10, <1>11, <1>13, <1>16, <2>3, <3>4, <3>7
    <3> QED BY <1>1, <2>5, <3>8 DEF x
  <2> QED BY <2>4, <2>5
<1>14. summary.length =< MAX_REQUEST_CHARS
  BY <1>1, <1>10, <1>11
<1>15. summary.anchors \cup summary.recent \subseteq DOMAIN conversation
       /\ Len(conversation) \in summary.anchors \cup summary.recent
  BY <1>1, <1>3, <1>4, <1>5 DEF N
<1> HIDE DEF left
<1> QED BY <1>1, <1>9, <1>12, <1>13, <1>14, <1>15 DEF NewestEvidenceKept, shown_lines

-----------------------------------------------------------------------------
\* The conversation stands still once a judge was asked, so what is shown is what the code makes of it.
JudgeInv ==
    /\ conversation \in Seq(Message) /\ Len(conversation) =< MaxSaid
    /\ shown = NoView \/ \E window \in Windows : shown = build_messages(conversation, window)
    /\ \/ summary = NoSummary
       \/ conversation # <<>> /\ \E window \in Windows :
              window > 0 /\ summary = summarize_for_judge(conversation, window)

LEMMA JudgeHolds == JudgeSpec => []JudgeInv
<1>1. JudgeInit => JudgeInv
  BY JudgeAssumption DEF JudgeInit, JudgeInv
<1>2. ASSUME JudgeInv, [JudgeNext]_judgeVars PROVE JudgeInv'
  <2>1. ASSUME NEW message \in Message, Say(message) PROVE JudgeInv'
    BY <1>2, <2>1, JudgeAssumption DEF JudgeInv, Say, Unasked
  <2>2. ASSUME NEW window \in Windows, Consult(window) PROVE JudgeInv'
    BY <1>2, <2>2 DEF JudgeInv, Consult
  <2>3. ASSUME NEW window \in Windows, Summarize(window) PROVE JudgeInv'
    BY <1>2, <2>3 DEF JudgeInv, Summarize
  <2>4. ASSUME UNCHANGED judgeVars PROVE JudgeInv'
    BY <1>2, <2>4 DEF JudgeInv, judgeVars
  <2> QED BY <1>2, <2>1, <2>2, <2>3, <2>4 DEF JudgeNext
<1> QED BY <1>1, <1>2, PTL DEF JudgeSpec

\* A judge never reads a tool result whose call was cut off unless no start of the window could have
\* kept the pair, and its transcript keeps the newest lines that fit (llm_class.rs, escalation.rs).
THEOREM JudgeIsSound == JudgeSpec => []JudgeSound
<1>1. ASSUME JudgeInv PROVE PairsStayWhole
  <2> DEFINE tail == {i \in DOMAIN conversation : i > Min(Users(conversation))} \ Instructions(conversation)
  <2>1. SUFFICES ASSUME shown.window >= 0 PROVE PairsStayWhole
    BY DEF PairsStayWhole
  <2>2. PICK window \in Windows : shown = build_messages(conversation, window)
    BY <1>1, <2>1 DEF JudgeInv, NoView
  <2>3. window \in Int /\ shown = trim_messages(conversation, window) /\ window >= 0
    BY <2>1, <2>2, JudgeAssumption DEF build_messages, task_messages, trim_messages
  <2>4. CASE Users(conversation) = {}
    <3>1. shown.tail = {} /\ shown.read = {}
      BY <2>3, <2>4 DEF trim_messages
    <3>2. Paired({}) /\ \A n : Newest({}, n) = {}
      BY DEF Paired, Newest
    <3> QED BY <3>1, <3>2 DEF PairsStayWhole
  <2>5. CASE Users(conversation) # {}
    <3>1. shown.tail = tail /\ shown.window = window /\ shown.read = window_start(conversation, tail, window)
      BY <2>3, <2>5 DEF trim_messages
    <3>2. conversation \in Seq(Message) /\ tail \in SUBSET DOMAIN conversation /\ window \in Nat
      BY <1>1, <2>3 DEF JudgeInv
    <3> HIDE DEF tail
    <3>3. Whole(shown.tail, shown.window, shown.read)
      BY <3>1, <3>2, WindowIsWhole
    <3> QED BY <3>3 DEF PairsStayWhole, Whole
  <2> QED BY <2>4, <2>5
<1>2. ASSUME JudgeInv PROVE NewestEvidenceKept
  <2>1. CASE summary = NoSummary
    BY <2>1, JudgeAssumption DEF NewestEvidenceKept, NoSummary
  <2>2. CASE summary # NoSummary
    BY <1>2, <2>2, SummaryKeeps, JudgeAssumption DEF JudgeInv
  <2> QED BY <2>1, <2>2
<1>3. JudgeInv => JudgeSound
  BY <1>1, <1>2 DEF JudgeSound
<1> QED BY <1>3, JudgeHolds, PTL
=============================================================================
