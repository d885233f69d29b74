------------------------ MODULE FallThroughSessions ------------------------
(***************************************************************************)
(* The routing state a stateful fall-through router keeps per session       *)
(* (libsy/src/algorithms/fall_through.rs): a registry under one lock that    *)
(* hands out shared states, an async mutex inside each state that a request  *)
(* holds while it routes, the removal of a session its host marks final, and *)
(* the background cleanup of idle ones.                                      *)
(*                                                                           *)
(* A state is named by the request that created it; its content is the set   *)
(* of the turns routed with it, which processors and classifiers read when   *)
(* they get the mutex and write back when the target is chosen.              *)
(***************************************************************************)
EXTENDS Integers

CONSTANTS Request,      \* the requests the router executes
          Session,      \* session ids
          NoSession,    \* a request without a session id
          NoRequest,    \* the mutex is free
          SESSION_STATE_TTL,
          MaxTime       \* bound: the clock stops here

ASSUME SessionAssumption == NoSession \notin Session /\ NoRequest \notin Request
ASSUME TtlAssumption == SESSION_STATE_TTL \in Nat \ {0} /\ MaxTime \in Nat

VARIABLES
  now,         \* the monotonic clock
  states,      \* session_states: session id -> [state, last_accessed]
  phase,       \* where a request is in execute
  session,     \* its session id
  final,       \* its session_final, which counts only with a session id
  held,        \* the state session_state gave it
  entered_at,  \* when
  holder,      \* per state, who holds its mutex
  turns,       \* per state, the turns it has absorbed
  read         \* per request, the turns it found in its state

requestVars == <<phase, session, final, held, entered_at>>
sessionsVars == <<now, states, requestVars, holder, turns, read>>

\* A request in route, or waiting to be, holds a reference to its state.
Active(r) == phase[r] \in {"entered", "routing"}

NoStates == [s \in {} |-> s]

SessionsInit ==
        /\ now = 0 /\ states = NoStates
        /\ phase = [r \in Request |-> "idle"]
        /\ session = [r \in Request |-> NoSession]
        /\ final = [r \in Request |-> FALSE]
        /\ held = [r \in Request |-> r]
        /\ entered_at = [r \in Request |-> 0]
        /\ holder = [r \in Request |-> NoRequest]
        /\ turns = [r \in Request |-> {}]
        /\ read = [r \in Request |-> {}]

\* session_state that does not restart the idle clock of a known session.
session_state_NoTouch(s, r) ==
  IF s \in DOMAIN states THEN states[s] ELSE [state |-> r, last_accessed |-> now]

\* The entry of session s after session_state ran for request r.
session_state(s, r) ==
  [state |-> IF s \in DOMAIN states THEN states[s].state ELSE r,
   last_accessed |-> now]

\* execute: the request is new, and takes a reference to its session's state,
\* or a state of its own when it has no session.
Enter(r, s, f) ==
  /\ phase[r] = "idle"
  /\ LET entry == session_state(s, r)
     IN  IF s = NoSession
         THEN held' = [held EXCEPT ![r] = r] /\ UNCHANGED states
         ELSE /\ held' = [held EXCEPT ![r] = entry.state]
              /\ states' = [t \in DOMAIN states \cup {s} |->
                              IF t = s THEN entry ELSE states[t]]
  /\ phase' = [phase EXCEPT ![r] = "entered"]
  /\ session' = [session EXCEPT ![r] = s]
  /\ final' = [final EXCEPT ![r] = f /\ s # NoSession]
  /\ entered_at' = [entered_at EXCEPT ![r] = now]
  /\ UNCHANGED <<now, holder, turns, read>>

\* A state whose mutex several requests may hold.
Lock_Shared(r) ==
  /\ phase[r] = "entered"
  /\ holder' = [holder EXCEPT ![held[r]] = r]
  /\ read' = [read EXCEPT ![r] = turns[held[r]]]
  /\ phase' = [phase EXCEPT ![r] = "routing"]
  /\ UNCHANGED <<now, states, session, final, held, entered_at, turns>>

\* state.lock().await
Lock(r) ==
  /\ phase[r] = "entered" /\ holder[held[r]] = NoRequest
  /\ holder' = [holder EXCEPT ![held[r]] = r]
  /\ read' = [read EXCEPT ![r] = turns[held[r]]]
  /\ phase' = [phase EXCEPT ![r] = "routing"]
  /\ UNCHANGED <<now, states, session, final, held, entered_at, turns>>

Unlock(r) == holder' = IF holder[held[r]] = r
                       THEN [holder EXCEPT ![held[r]] = NoRequest] ELSE holder

\* What a request that leaves route early has written of its turn, if anything.
MayAbsorb(r) == \/ UNCHANGED turns
                \/ /\ phase[r] = "routing"
                   /\ turns' = [turns EXCEPT ![held[r]] = read[r] \cup {r}]

\* remove_session after a request that its host marked final.
Leave(r) ==
  /\ phase' = [phase EXCEPT ![r] = "done"]
  /\ states' = IF final[r] THEN [t \in DOMAIN states \ {session[r]} |-> states[t]]
               ELSE states
  /\ UNCHANGED <<now, session, final, held, entered_at, read>>

\* route chose a target: the state has absorbed the turn and is given back
\* before the answer call.
Routed(r) ==
  /\ phase[r] = "routing"
  /\ turns' = [turns EXCEPT ![held[r]] = read[r] \cup {r}]
  /\ Unlock(r)
  /\ phase' = [phase EXCEPT ![r] = "calling"]
  /\ UNCHANGED <<now, states, session, final, held, entered_at, read>>

\* A failure that leaves with the mutex.
RouteFails_KeepsLock(r) ==
  phase[r] = "routing" /\ MayAbsorb(r) /\ UNCHANGED holder /\ Leave(r)

\* A processor or a classifier failed, or all classifiers abstained.
RouteFails(r) == phase[r] = "routing" /\ MayAbsorb(r) /\ Unlock(r) /\ Leave(r)

\* The answer call returned, with a response or an error.
Answered(r) == phase[r] = "calling" /\ Leave(r) /\ UNCHANGED <<turns, holder>>

\* The run is dropped at an await: guard and reference go, remove_session is
\* never reached.
CancelRun(r) ==
  /\ phase[r] \in {"entered", "routing", "calling"}
  /\ MayAbsorb(r) /\ Unlock(r)
  /\ phase' = [phase EXCEPT ![r] = "done"]
  /\ UNCHANGED <<now, states, session, final, held, entered_at, read>>

\* remove_inactive_sessions that looks at the clock only.
Kept_ByClock(s) == now - states[s].last_accessed < SESSION_STATE_TTL

\* The sessions remove_inactive_sessions retains: those some request holds a
\* reference to, and those used lately.
Kept(s) == \/ \E r \in Request : Active(r) /\ session[r] # NoSession
                                   /\ held[r] = states[s].state
           \/ now - states[s].last_accessed < SESSION_STATE_TTL

\* The cleanup task, which the first request starts.
Cleanup ==
  /\ \E r \in Request : phase[r] # "idle"
  /\ states' = [s \in {t \in DOMAIN states : Kept(t)} |-> states[s]]
  /\ UNCHANGED <<now, requestVars, holder, turns, read>>

Tick == /\ now < MaxTime
        /\ now' = now + 1
        /\ UNCHANGED <<states, requestVars, holder, turns, read>>

SessionsNext ==
  \/ \E r \in Request :
       \/ \E s \in Session \cup {NoSession}, f \in BOOLEAN : Enter(r, s, f)
       \/ Lock(r) \/ Routed(r) \/ RouteFails(r) \/ Answered(r) \/ CancelRun(r)
  \/ Cleanup
  \/ Tick

SessionsSpec == SessionsInit /\ [][SessionsNext]_sessionsVars

(***************************************************************************)
(* Fairness: the runtime polls every request, model calls return, and       *)
(* tokio's mutex serves its waiters in turn.                                *)
(***************************************************************************)
RouterFairness ==
  \A r \in Request : /\ SF_sessionsVars(Lock(r))
                     /\ WF_sessionsVars(Routed(r) \/ RouteFails(r))
                     /\ WF_sessionsVars(Answered(r))

FairSpec == SessionsSpec /\ RouterFairness
----------------------------------------------------------------------------
TypeOK ==
  /\ now \in 0..MaxTime
  /\ DOMAIN states \subseteq Session
  /\ \A s \in DOMAIN states : /\ states[s].state \in Request
                              /\ states[s].last_accessed \in 0..now
  /\ phase \in [Request -> {"idle", "entered", "routing", "calling", "done"}]
  /\ session \in [Request -> Session \cup {NoSession}]
  /\ final \in [Request -> BOOLEAN]
  /\ held \in [Request -> Request]
  /\ entered_at \in [Request -> 0..now]
  /\ holder \in [Request -> Request \cup {NoRequest}]
  /\ turns \in [Request -> SUBSET Request] /\ read \in [Request -> SUBSET Request]

\* A host has marked session s complete, with a request of it.
Closed(s) == \E r \in Request : session[r] = s /\ final[r]

\* Requests of a session nobody marked complete that are being routed at the
\* same time share one state: "Any others belong to active requests, which must
\* keep sharing this state until their routing work finishes"
\* (remove_inactive_sessions).
ActiveShareState ==
  \A q, r \in Request :
    /\ Active(q) /\ Active(r) /\ session[q] = session[r]
    /\ session[r] # NoSession /\ ~Closed(session[r])
    => held[q] = held[r]

\* No turn that was routed is lost from its state by another that routed at the
\* same time: the async mutex makes read and write of the state one step.
TurnsNotLost == \A r \in Request : phase[r] = "calling" => r \in turns[held[r]]

\* A request that comes less than the TTL after another of its session, before a
\* host marks the session complete, routes with the same state, so with
\* everything the session's turns left there (session_state, cleanup).
SessionRemembered ==
  \A q, r \in Request :
    /\ phase[q] # "idle" /\ phase[r] # "idle"
    /\ session[q] = session[r]
    /\ session[r] # NoSession /\ ~Closed(session[r])
    /\ entered_at[r] - entered_at[q] \in 0..(SESSION_STATE_TTL - 1)
    => held[q] = held[r]

\* A request that waits for its state is served, or its run is dropped: nobody
\* leaves route with the mutex.
LockServed == \A r \in Request : phase[r] = "entered" ~> phase[r] # "entered"
============================================================================
