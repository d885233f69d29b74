----------------------------- MODULE MaskEngine -----------------------------
(***************************************************************************)
(* Requests going through MaskClaw: scrubbed on the way in, routed, sent   *)
(* upstream, and restored on the way back, many at a time over one         *)
(* SessionStore (engine.rs, stats.rs, policy.rs, and the server's          *)
(* maskclaw_hook.rs).  Requests interleave wherever the code drops a lock  *)
(* or awaits: after with_session, during the upstream call, between the    *)
(* chunks of a streamed response.                                          *)
(*                                                                         *)
(* A text is the set of what the properties tell apart in it: findings the *)
(* detectors recognise, placeholders it already carries (a client repeats  *)
(* what it was shown), and high-entropy tokens no detector recognises; a   *)
(* glued one runs into a placeholder: nothing between them ends a token.   *)
(***************************************************************************)
EXTENDS SessionStore

CONSTANTS
  Request,               \* handler invocations
  SessionId,             \* keys made of the session and correlation ids clients send
  MaxAnon,               \* bound: requests without either id
  HighEntropy,           \* tokens that look like secrets and no detector knows
  Glued,                 \* those that run into a placeholder of their text
  Critical,              \* findings of detectors configured critical
  ForceLocal,            \* the configured force_local policy
  LocalRouteSet,         \* local_route_id is configured
  LocalRouteRegistered,  \* ... and routes.toml has a route of that name
  SnapshotMax            \* bound: stats snapshots taken

AnonKey(n) == <<"anon", n>>
NoKey == AnonKey(0)      \* ANON_SESSION starts at 1: never a session's key

\* A session id is used as it is, so one a client chose may be an anonymous key.
ASSUME KeyAssumption ==
  /\ MaxAnon \in Nat
  /\ Key = SessionId \cup {AnonKey(n) : n \in 1 .. MaxAnon}
ASSUME PolicyAssumption ==
  /\ ForceLocal \in {"never", "on_unmaskable", "always"}
  /\ Critical \subseteq Finding
  /\ Glued \subseteq HighEntropy
  /\ LocalRouteSet \in BOOLEAN /\ LocalRouteRegistered \in BOOLEAN

VARIABLES
  anon_session,  \* ANON_SESSION, the next anonymous key
  phase,         \* where each request is in handle_llm_request
  session_key,   \* ScrubOutcome.session_key
  found,         \* findings in the request's text
  minted,        \* placeholders scrub wrote in their place
  carried,       \* what scrub leaves alone: old placeholders, opaque tokens
  masked_at,     \* when with_session ran
  route,         \* the route select_route returned
  map,           \* the cloned restore map the response is read through
  restored_at,   \* when snapshot_map ran
  restored,      \* <<placeholder, secret>> substitutions the client received
  unrestored,    \* placeholders the client received as they are
  totals,        \* stats.rs Totals
  gauges,        \* SessionGauges read, not yet joined with the totals
  snapshot,      \* the last StatsSnapshot
  snapshots      \* how many were taken

requestVars == <<phase, session_key, found, minted, carried, masked_at, route,
                 map, restored_at, restored, unrestored>>
statsVars == <<gauges, snapshot, snapshots>>
vars == <<storeVars, anon_session, requestVars, totals, statsVars>>

Phase == {"idle",      \* not yet received
          "masked",    \* with_session done, stats.record not yet
          "routed",    \* route selected, upstream call running
          "answered",  \* run() returned the response (or the stream's head)
          "restoring", \* snapshot_map hit: chunks go out through the map
          "missed",    \* snapshot_map missed: chunks go out as they are
          "done", "failed"}

\* What has left the box: the texts of the requests that were sent upstream.
Sent == {r \in Request : route[r] # "none"}
Upstream == UNION {minted[r] \cup carried[r] : r \in Sent}

-----------------------------------------------------------------------------
(* Scrub: Engine::scrub_request on the blocking pool. *)

\* session_key_for, and the counter it takes an anonymous key from.
SessionKeyFor(k) ==
  \/ k \in SessionId /\ UNCHANGED anon_session
  \/ /\ anon_session <= MaxAnon
     /\ k = AnonKey(anon_session)
     /\ anon_session' = anon_session + 1

\* The texts a client may send: secrets, opaque tokens, and at most one
\* placeholder it was once shown (MaxRepeat = 1 bounds the text).
Repeatable == {{}} \cup {{p} : p \in UNION {unrestored[q] : q \in Request}}

\* What the detectors may find in one text.
Findings == {F \in SUBSET Finding : IsFiniteSet(F)}

Scrub(r, k, F, rest) ==
  /\ phase[r] = "idle"
  /\ SessionKeyFor(k)
  /\ WithSession(k, F)
  /\ phase' = [phase EXCEPT ![r] = "masked"]
  /\ session_key' = [session_key EXCEPT ![r] = k]
  /\ found' = [found EXCEPT ![r] = F]
  /\ minted' = [minted EXCEPT ![r] =
                  {sessions'[k].secret_to_placeholder[f] : f \in F}]
  /\ carried' = [carried EXCEPT ![r] = rest]
  /\ masked_at' = [masked_at EXCEPT ![r] = now]
  /\ UNCHANGED <<route, map, restored_at, restored, unrestored, totals, statsVars>>

\* The blocking task dies part-way: parking_lot releases the store as it was
\* left, with the findings before the failure minted, and the client gets 500.
ScrubFails(r, k, F) ==
  /\ phase[r] = "idle"
  /\ SessionKeyFor(k)
  /\ WithSession(k, F)
  /\ phase' = [phase EXCEPT ![r] = "failed"]
  /\ session_key' = [session_key EXCEPT ![r] = k]
  /\ found' = [found EXCEPT ![r] = F]
  /\ minted' = [minted EXCEPT ![r] =
                  {sessions'[k].secret_to_placeholder[f] : f \in F}]
  /\ UNCHANGED <<carried, masked_at, route, map, restored_at, restored,
                 unrestored, totals, statsVars>>

\* ScanStats.critical > 0: a critical detector hit (and its hit was replaced).
CriticalHit(r) == found[r] \cap Critical # {}

\* ScanStats.residual > 0: residual_high_entropy_count looks at whole tokens, and at none
\* in which the placeholder pattern matches.
Residual(r) == carried[r] \cap (HighEntropy \ Glued) # {}

\* ForceLocalPolicy::decide on the request's scan.
Decide(r) ==
  \/ ForceLocal = "always"
  \/ ForceLocal = "on_unmaskable" /\ (CriticalHit(r) \/ Residual(r))

ScrubOutcomeForceLocal(r) == LocalRouteSet /\ Decide(r)

\* Mutant of RecordAndRoute: one match per request, however many replaced.
RecordAndRoute_PerRequest(r) ==
  /\ phase[r] = "masked"
  /\ totals' = [totals EXCEPT
       !.requests = @ + 1,
       !.matches = @ + (IF found[r] # {} THEN 1 ELSE 0)]
  /\ route' = [route EXCEPT ![r] = "current"]
  /\ phase' = [phase EXCEPT ![r] = "routed"]
  /\ UNCHANGED <<storeVars, anon_session, session_key, found, minted, carried,
                 masked_at, map, restored_at, restored, unrestored, statsVars>>

\* stats.record, the end of the blocking task, and select_route.
RecordAndRoute(r) ==
  /\ phase[r] = "masked"
  /\ totals' = [totals EXCEPT
       !.requests = @ + 1,
       !.requests_with_matches = @ + (IF found[r] # {} THEN 1 ELSE 0),
       !.matches = @ + Cardinality(found[r]),
       !.force_local_overrides =
          @ + (IF ScrubOutcomeForceLocal(r) THEN 1 ELSE 0)]
  /\ route' = [route EXCEPT ![r] =
       IF ScrubOutcomeForceLocal(r) /\ LocalRouteRegistered
       THEN "local" ELSE "current"]
  /\ phase' = [phase EXCEPT ![r] = "routed"]
  /\ UNCHANGED <<storeVars, anon_session, session_key, found, minted, carried,
                 masked_at, map, restored_at, restored, unrestored, statsVars>>

-----------------------------------------------------------------------------
(* The upstream call and the way back. *)

\* switchyard_llm_client::run returns a response.
Answer(r) ==
  /\ phase[r] = "routed"
  /\ phase' = [phase EXCEPT ![r] = "answered"]
  /\ UNCHANGED <<storeVars, anon_session, session_key, found, minted, carried,
                 masked_at, route, map, restored_at, restored, unrestored,
                 totals, statsVars>>

\* The call fails, or the client goes away and the handler is dropped.  (One that
\* is dropped while it awaits the scrub ends here too: the blocking task runs on
\* and records, and the route it would have been given is never used.)
GiveUp(r) ==
  /\ phase[r] = "routed"
  /\ phase' = [phase EXCEPT ![r] = "failed"]
  /\ UNCHANGED <<storeVars, anon_session, session_key, found, minted, carried,
                 masked_at, route, map, restored_at, restored, unrestored,
                 totals, statsVars>>

\* Mutant of Restore: the maps of all live sessions instead of the request's.
Restore_AllSessions(r) ==
  /\ phase[r] = "answered"
  /\ SnapshotHit(session_key[r])
  /\ map' = [map EXCEPT ![r] =
       [p \in UNION {DOMAIN restore_map(k) : k \in Unexpired} |->
          restore_map(CHOOSE k \in Unexpired : p \in DOMAIN restore_map(k))[p]]]
  /\ restored_at' = [restored_at EXCEPT ![r] = now]
  /\ phase' = [phase EXCEPT ![r] = "restoring"]
  /\ UNCHANGED <<anon_session, session_key, found, minted, carried, masked_at,
                 route, restored, unrestored, totals, statsVars>>

\* restore_response when the session's map is there: it is cloned once.
Restore(r) ==
  /\ phase[r] = "answered"
  /\ SnapshotHit(session_key[r])
  /\ map' = [map EXCEPT ![r] = restore_map(session_key[r])]
  /\ restored_at' = [restored_at EXCEPT ![r] = now]
  /\ phase' = [phase EXCEPT ![r] = "restoring"]
  /\ UNCHANGED <<anon_session, session_key, found, minted, carried, masked_at,
                 route, restored, unrestored, totals, statsVars>>

\* restore_response when it is not: the miss is counted, the response passes.
RestoreMiss(r) ==
  /\ phase[r] = "answered"
  /\ SnapshotMiss(session_key[r])
  /\ totals' = [totals EXCEPT !.restore_misses = @ + 1]
  /\ restored_at' = [restored_at EXCEPT ![r] = now]
  /\ phase' = [phase EXCEPT ![r] = "missed"]
  /\ UNCHANGED <<anon_session, session_key, found, minted, carried, masked_at,
                 route, map, restored, unrestored, statsVars>>

\* Mutant of Deliver: each chunk looks the live session up again.
Deliver_LiveMap(r, p) ==
  /\ phase[r] \in {"restoring", "missed"}
  /\ LET k == session_key[r]
         live == IF k \in Unexpired THEN restore_map(k) ELSE EmptyMap
     IN IF p \in DOMAIN live
        THEN /\ restored' = [restored EXCEPT ![r] = @ \cup {<<p, live[p]>>}]
             /\ UNCHANGED unrestored
        ELSE /\ unrestored' = [unrestored EXCEPT ![r] = @ \cup {p}]
             /\ UNCHANGED restored
  /\ UNCHANGED <<storeVars, anon_session, phase, session_key, found, minted,
                 carried, masked_at, route, map, restored_at, totals, statsVars>>

\* A piece of the response that names placeholder p.  A model repeats what it
\* was sent; nothing stops it from naming one it saw in any other request.
Deliver(r, p) ==
  /\ phase[r] \in {"restoring", "missed"}
  /\ IF p \in DOMAIN map[r]
     THEN /\ restored' = [restored EXCEPT ![r] = @ \cup {<<p, map[r][p]>>}]
          /\ UNCHANGED unrestored
     ELSE /\ unrestored' = [unrestored EXCEPT ![r] = @ \cup {p}]
          /\ UNCHANGED restored
  /\ UNCHANGED <<storeVars, anon_session, phase, session_key, found, minted,
                 carried, masked_at, route, map, restored_at, totals, statsVars>>

\* The response ends, in full, in an error or because the client stopped
\* reading; the cloned map is dropped with its stream.
Finish(r) ==
  /\ phase[r] \in {"restoring", "missed"}
  /\ phase' = [phase EXCEPT ![r] = "done"]
  /\ map' = [map EXCEPT ![r] = EmptyMap]
  /\ UNCHANGED <<storeVars, anon_session, session_key, found, minted, carried,
                 masked_at, route, restored_at, restored, unrestored, totals,
                 statsVars>>

-----------------------------------------------------------------------------
(* GET /v1/maskclaw/stats: two locks, one after the other. *)

NoGauges == [active |-> 0, unique_values |-> 0, pending |-> FALSE]

UniqueValues(S) ==
  Cardinality({x \in S \X Placeholder :
                 x[2] \in DOMAIN sessions[x[1]].placeholder_to_secret})

\* SessionStore::gauges, under the store's lock.
ReadGauges ==
  /\ ~gauges.pending /\ snapshots < SnapshotMax
  /\ Gauges
  /\ gauges' = [active |-> Cardinality(Unexpired),
                unique_values |-> UniqueValues(Unexpired), pending |-> TRUE]
  /\ UNCHANGED <<anon_session, requestVars, totals, snapshot, snapshots>>

\* Requests whose scan stats.record has not seen, or never will.
Unrecorded == {r \in Request : phase[r] # "idle" /\ route[r] = "none"}

\* StatsAccumulator::snapshot, under the totals' lock.
ReadTotals ==
  /\ gauges.pending
  /\ snapshot' = [active |-> gauges.active,
                  unique_values |-> gauges.unique_values,
                  totals |-> totals,
                  unrecorded |-> Unrecorded]
  /\ snapshots' = snapshots + 1
  /\ gauges' = NoGauges
  /\ UNCHANGED <<storeVars, anon_session, requestVars, totals>>

-----------------------------------------------------------------------------
(* The specification. *)

ZeroTotals == [requests |-> 0, requests_with_matches |-> 0, matches |-> 0,
               force_local_overrides |-> 0, restore_misses |-> 0]

Init ==
  /\ StoreInit
  /\ anon_session = 1
  /\ phase = [r \in Request |-> "idle"]
  /\ session_key = [r \in Request |-> NoKey]
  /\ found = [r \in Request |-> {}]
  /\ minted = [r \in Request |-> {}]
  /\ carried = [r \in Request |-> {}]
  /\ masked_at = [r \in Request |-> 0]
  /\ route = [r \in Request |-> "none"]
  /\ map = [r \in Request |-> EmptyMap]
  /\ restored_at = [r \in Request |-> 0]
  /\ restored = [r \in Request |-> {}]
  /\ unrestored = [r \in Request |-> {}]
  /\ totals = ZeroTotals
  /\ gauges = NoGauges
  /\ snapshot = [active |-> 0, unique_values |-> 0, totals |-> ZeroTotals,
                 unrecorded |-> {}]
  /\ snapshots = 0

ClockTick == Tick /\ UNCHANGED <<anon_session, requestVars, totals, statsVars>>

Next ==
  \/ \E r \in Request, k \in Key, F \in Findings :
       \/ \E old \in Repeatable, X \in SUBSET HighEntropy :
            (X \cap Glued # {} => F \cup old # {}) /\ Scrub(r, k, F, old \cup X)
       \/ ScrubFails(r, k, F)
  \/ \E r \in Request :
       \/ RecordAndRoute(r) \/ Answer(r) \/ GiveUp(r)
       \/ Restore(r) \/ RestoreMiss(r) \/ Finish(r)
       \/ \E p \in Upstream \cap Placeholder : Deliver(r, p)
  \/ ReadGauges \/ ReadTotals
  \/ ClockTick

Spec == Init /\ [][Next]_vars

-----------------------------------------------------------------------------
(* Properties. *)

Totals == [requests : Nat, requests_with_matches : Nat, matches : Nat,
           force_local_overrides : Nat, restore_misses : Nat]

\* The shapes of what is kept per request.
RequestsOK ==
  /\ anon_session \in 1 .. MaxAnon + 1
  /\ phase \in [Request -> Phase]
  /\ session_key \in [Request -> Key \cup {NoKey}]
  /\ found \in [Request -> SUBSET Finding]
  /\ minted \in [Request -> SUBSET Placeholder]
  /\ carried \in [Request -> SUBSET (Placeholder \cup HighEntropy)]
  /\ masked_at \in [Request -> 0 .. now]
  /\ route \in [Request -> {"none", "current", "local"}]
  /\ map = [r \in Request |-> map[r]]
  /\ \A r \in Request : /\ map[r] \in [DOMAIN map[r] -> Value]
                         /\ DOMAIN map[r] \subseteq Placeholder
  /\ restored_at \in [Request -> 0 .. now]
  /\ restored \in [Request -> SUBSET (Placeholder \X Value)]
  /\ unrestored \in [Request -> SUBSET Placeholder]

\* The shapes of the whole state; the counters are natural numbers.
TypeOK == StoreTypeOK /\ RequestsOK /\ totals \in Totals

\* A secret reaches a client only in place of the very placeholder that was
\* minted for it, and only in a response of the session that secret was sent
\* in: whatever placeholders a model repeats, from whichever conversation,
\* restore_response gives a session back nothing but its own secrets.
RestoredToOwner ==
  \A r \in Request : \A s \in restored[r] :
    \E q \in Request : \E f \in found[q] :
      /\ session_key[q] = session_key[r]
      /\ s[1] \in minted[q]
      /\ \E h \in HmacKey : s[1] = MintFor(h, f)
      /\ s[2] = f.value

\* A response that comes back within the TTL of its request's scrub is
\* restored in full and is never a restore miss, whatever other requests,
\* stats reads and evictions ran in between.
PromptAnswerRestored ==
  \A r \in Request :
    restored_at[r] - masked_at[r] < Ttl =>
      /\ phase[r] # "missed"
      /\ unrestored[r] \cap minted[r] = {}

\* One placeholder has one rendering throughout a response, however long the
\* stream runs and whatever is evicted meanwhile.
OneRendering ==
  \A r \in Request : \A s \in restored[r] :
    /\ s[1] \notin unrestored[r]
    /\ \A t \in restored[r] : t[1] = s[1] => t = s

\* The stats page never shows more masked values in RAM than replacements
\* made, counting those of requests whose scan was not recorded yet (or never
\* will be, its scrub having failed): the two locks are read oldest first.
SnapshotNotAhead ==
  snapshot.unique_values
    <= snapshot.totals.matches
         + Cardinality({x \in snapshot.unrecorded \X Finding : x[2] \in found[x[1]]})

-----------------------------------------------------------------------------
(* What the documentation says, and the code does not do. *)

\* appliance/README.md:111: a restore miss (the model echoed a placeholder the
\* box no longer has) is counted.  So each response in which a placeholder of
\* the request's own session went out unrestored should be in the count.
RestoreMissIsCounted ==
  Cardinality({r \in Request : unrestored[r] \cap minted[r] # {}})
    <= totals.restore_misses

=============================================================================
