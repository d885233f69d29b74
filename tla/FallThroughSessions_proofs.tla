--------------------- MODULE FallThroughSessions_proofs ---------------------
(***************************************************************************)
(* FallThroughSessions, for any requests, sessions and TTL: the types, that  *)
(* no routed turn is lost, and that the requests of a session share one      *)
(* state while they route, until a host marks the session complete.          *)
(***************************************************************************)
EXTENDS FallThroughSessions, TLAPS

\* TypeOK is inductive: it holds initially and every step keeps it
\* (execute_session, session_state, remove_inactive_sessions).
LEMMA TypeStep == TypeOK /\ [SessionsNext]_sessionsVars => TypeOK'
<1> SUFFICES ASSUME TypeOK, [SessionsNext]_sessionsVars PROVE TypeOK'
  OBVIOUS
<1> USE SessionAssumption, TtlAssumption
<1>1. ASSUME NEW r \in Request, NEW s \in Session \cup {NoSession}, NEW f \in BOOLEAN,
             Enter(r, s, f)
      PROVE  TypeOK'
  <2>1. now' = now /\ holder' = holder /\ turns' = turns /\ read' = read
    BY <1>1 DEF Enter
  <2>2. /\ phase' \in [Request -> {"idle", "entered", "routing", "calling", "done"}]
        /\ session' \in [Request -> Session \cup {NoSession}]
        /\ final' \in [Request -> BOOLEAN]
        /\ entered_at' \in [Request -> 0..now]
    BY <1>1 DEF Enter, TypeOK
  <2>3. session_state(s, r).last_accessed = now
    BY DEF session_state
  <2>4. session_state(s, r).state \in Request
    BY DEF session_state, TypeOK
  <2>5. held' \in [Request -> Request]
    BY <1>1, <2>4 DEF Enter, TypeOK
  <2>6. /\ DOMAIN states' \subseteq Session
        /\ \A t \in DOMAIN states' : /\ states'[t].state \in Request
                                     /\ states'[t].last_accessed \in 0..now
    <3>1. CASE s = NoSession
      BY <1>1, <3>1 DEF Enter, TypeOK
    <3>2. CASE s # NoSession
      <4>1. states' = [t \in DOMAIN states \cup {s} |->
                         IF t = s THEN session_state(s, r) ELSE states[t]]
        BY <1>1, <3>2 DEF Enter
      <4>2. now \in 0..now
        BY DEF TypeOK
      <4> QED BY <2>3, <2>4, <4>1, <4>2, <3>2 DEF TypeOK
    <3> QED BY <3>1, <3>2
  <2> QED BY <2>1, <2>2, <2>5, <2>6 DEF TypeOK
<1>2. ASSUME NEW r \in Request, Lock(r) PROVE TypeOK'
  BY <1>2 DEF Lock, TypeOK
<1>3. ASSUME NEW r \in Request, Routed(r) PROVE TypeOK'
  BY <1>3 DEF Routed, Unlock, TypeOK
<1>4. ASSUME NEW r \in Request, MayAbsorb(r), Unlock(r)
      PROVE  /\ turns' \in [Request -> SUBSET Request]
             /\ holder' \in [Request -> Request \cup {NoRequest}]
  BY <1>4 DEF MayAbsorb, Unlock, TypeOK
<1>5. ASSUME NEW r \in Request, Leave(r)
      PROVE  /\ phase' \in [Request -> {"idle", "entered", "routing", "calling", "done"}]
             /\ DOMAIN states' \subseteq Session
             /\ \A s \in DOMAIN states' : /\ states'[s].state \in Request
                                          /\ states'[s].last_accessed \in 0..now
  BY <1>5 DEF Leave, TypeOK
<1>6. ASSUME NEW r \in Request, RouteFails(r) PROVE TypeOK'
  BY <1>6, <1>4, <1>5 DEF RouteFails, Leave, TypeOK
<1>7. ASSUME NEW r \in Request, Answered(r) PROVE TypeOK'
  BY <1>7, <1>5 DEF Answered, Leave, TypeOK
<1>8. ASSUME NEW r \in Request, CancelRun(r) PROVE TypeOK'
  BY <1>8, <1>4 DEF CancelRun, TypeOK
<1>9. CASE Cleanup
  BY <1>9 DEF Cleanup, requestVars, TypeOK
<1>10. CASE Tick
  <2>1. now \in Int /\ now < MaxTime /\ now' = now + 1
    BY <1>10 DEF Tick, TypeOK
  <2>2. now' \in 0..MaxTime /\ \A n \in 0..now : n \in 0..now'
    BY <2>1 DEF TypeOK
  <2> QED BY <1>10, <2>2 DEF Tick, requestVars, TypeOK
<1>11. CASE UNCHANGED sessionsVars
  BY <1>11 DEF sessionsVars, requestVars, TypeOK
<1> QED
  BY <1>1, <1>2, <1>3, <1>6, <1>7, <1>8, <1>9, <1>10, <1>11 DEF SessionsNext

\* The variables of the router keep their types.
THEOREM RouterTypeCorrect == SessionsSpec => []TypeOK
<1>1. SessionsInit => TypeOK
  BY SessionAssumption, TtlAssumption DEF SessionsInit, NoStates, TypeOK
<1> QED BY <1>1, TypeStep, PTL DEF SessionsSpec

-----------------------------------------------------------------------------
(* No routed turn is lost. *)

\* A request in route holds its state's mutex, and what it read when it got it
\* is still what the state holds.
LockInv == \A r \in Request : phase[r] = "routing" =>
             holder[held[r]] = r /\ read[r] = turns[held[r]]

\* The mutex is what makes TurnsNotLost inductive.
LEMMA TurnsStep == TypeOK /\ LockInv /\ TurnsNotLost /\ [SessionsNext]_sessionsVars
                     => LockInv' /\ TurnsNotLost'
<1> SUFFICES ASSUME TypeOK, LockInv, TurnsNotLost, [SessionsNext]_sessionsVars
             PROVE  LockInv' /\ TurnsNotLost'
  OBVIOUS
<1> USE SessionAssumption
<1>1. ASSUME NEW r \in Request, NEW s \in Session \cup {NoSession}, NEW f \in BOOLEAN,
             Enter(r, s, f)
      PROVE  LockInv' /\ TurnsNotLost'
  <2>1. holder' = holder /\ turns' = turns /\ read' = read
    BY <1>1 DEF Enter
  <2>2. \A q \in Request : q # r => held'[q] = held[q] /\ phase'[q] = phase[q]
    BY <1>1 DEF Enter, TypeOK
  <2>3. phase'[r] = "entered"
    BY <1>1 DEF Enter, TypeOK
  <2> QED BY <2>1, <2>2, <2>3 DEF LockInv, TurnsNotLost
<1>2. ASSUME NEW r \in Request, Lock(r) PROVE LockInv' /\ TurnsNotLost'
  <2>1. /\ held' = held /\ turns' = turns
        /\ holder[held[r]] = NoRequest
        /\ holder' = [holder EXCEPT ![held[r]] = r]
        /\ read' = [read EXCEPT ![r] = turns[held[r]]]
        /\ phase' = [phase EXCEPT ![r] = "routing"]
    BY <1>2 DEF Lock
  <2>2. held[r] \in Request
    BY DEF TypeOK
  <2>3. ASSUME NEW q \in Request, q # r, phase[q] = "routing"
        PROVE  held[q] # held[r]
    BY <2>1, <2>3 DEF LockInv
  <2> QED BY <2>1, <2>2, <2>3 DEF LockInv, TurnsNotLost, TypeOK
<1>3. ASSUME NEW r \in Request, phase[r] # "idle",
             \A q \in Request : q # r => phase'[q] = phase[q],
             phase'[r] # "routing", held' = held, read' = read,
             MayAbsorb(r), Unlock(r),
             phase'[r] = "calling" => r \in turns'[held[r]]
      PROVE  LockInv' /\ TurnsNotLost'
  <2>1. held[r] \in Request
    BY DEF TypeOK
  <2>2. ASSUME NEW q \in Request, q # r, phase[q] = "routing", phase[r] = "routing"
        PROVE  held[q] # held[r]
    BY <2>2 DEF LockInv
  <2>3. ASSUME NEW q \in Request, q # r, phase[q] = "routing"
        PROVE  holder'[held[q]] = q /\ read[q] = turns'[held[q]]
    <3>1. holder[held[q]] = q /\ read[q] = turns[held[q]]
      BY <2>3 DEF LockInv
    <3>2. turns'[held[q]] = turns[held[q]]
      BY <1>3, <2>1, <2>2, <2>3 DEF MayAbsorb, TypeOK
    <3>3. holder'[held[q]] = q
      BY <1>3, <2>1, <2>3, <3>1 DEF Unlock, TypeOK
    <3> QED BY <3>1, <3>2, <3>3
  <2>4. \A n \in Request : turns[n] \subseteq turns'[n]
    BY <1>3, <2>1 DEF MayAbsorb, LockInv, TypeOK
  <2>5. LockInv'
    BY <1>3, <2>3 DEF LockInv
  <2>6. TurnsNotLost'
    <3> SUFFICES ASSUME NEW q \in Request, phase'[q] = "calling"
                 PROVE  q \in turns'[held[q]]
      BY <1>3 DEF TurnsNotLost
    <3>1. CASE q = r
      BY <1>3, <3>1
    <3>2. CASE q # r
      <4>1. q \in turns[held[q]] /\ held[q] \in Request
        BY <1>3, <3>2 DEF TurnsNotLost, TypeOK
      <4> QED BY <2>4, <4>1
    <3> QED BY <3>1, <3>2
  <2> QED BY <2>5, <2>6
<1>4. ASSUME NEW r \in Request, Routed(r) PROVE LockInv' /\ TurnsNotLost'
  <2>1. MayAbsorb(r) /\ Unlock(r) /\ held' = held /\ read' = read
    BY <1>4 DEF Routed, MayAbsorb
  <2>2. phase[r] = "routing" /\ phase' = [phase EXCEPT ![r] = "calling"]
    BY <1>4 DEF Routed
  <2>3. r \in turns'[held[r]]
    BY <1>4 DEF Routed, TypeOK
  <2> QED BY <1>3, <2>1, <2>2, <2>3 DEF TypeOK
<1>5. ASSUME NEW r \in Request, RouteFails(r) PROVE LockInv' /\ TurnsNotLost'
  <2>1. MayAbsorb(r) /\ Unlock(r) /\ held' = held /\ read' = read
    BY <1>5 DEF RouteFails, Leave
  <2>2. phase[r] = "routing" /\ phase' = [phase EXCEPT ![r] = "done"]
    BY <1>5 DEF RouteFails, Leave
  <2> QED BY <1>3, <2>1, <2>2 DEF TypeOK
<1>6. ASSUME NEW r \in Request, Answered(r) PROVE LockInv' /\ TurnsNotLost'
  BY <1>6 DEF Answered, Leave, LockInv, TurnsNotLost, TypeOK
<1>7. ASSUME NEW r \in Request, CancelRun(r) PROVE LockInv' /\ TurnsNotLost'
  <2>1. MayAbsorb(r) /\ Unlock(r) /\ held' = held /\ read' = read
    BY <1>7 DEF CancelRun
  <2>2. phase[r] # "idle" /\ phase' = [phase EXCEPT ![r] = "done"]
    BY <1>7 DEF CancelRun
  <2> QED BY <1>3, <2>1, <2>2 DEF TypeOK
<1>8. CASE Cleanup
  BY <1>8 DEF Cleanup, requestVars, LockInv, TurnsNotLost
<1>9. CASE Tick
  BY <1>9 DEF Tick, requestVars, LockInv, TurnsNotLost
<1>10. CASE UNCHANGED sessionsVars
  BY <1>10 DEF sessionsVars, requestVars, LockInv, TurnsNotLost
<1> QED
  BY <1>1, <1>2, <1>4, <1>5, <1>6, <1>7, <1>8, <1>9, <1>10 DEF SessionsNext

\* No turn that was routed is ever missing from its state, whoever routed at the
\* same time, was cancelled or failed (execute_session's async mutex).
THEOREM RouterTurnsNotLost == SessionsSpec => []TurnsNotLost
<1>1. SessionsInit => TypeOK /\ LockInv /\ TurnsNotLost
  BY SessionAssumption, TtlAssumption
     DEF SessionsInit, NoStates, TypeOK, LockInv, TurnsNotLost
<1>2. TypeOK /\ LockInv /\ TurnsNotLost /\ [SessionsNext]_sessionsVars
        => TypeOK' /\ LockInv' /\ TurnsNotLost'
  BY TypeStep, TurnsStep
<1> QED BY <1>1, <1>2, PTL DEF SessionsSpec

-----------------------------------------------------------------------------
(* Requests of a session share its state. *)

\* The registry still has the state of every request in route, unless a host
\* marked its session complete.
RegisteredInv ==
  \A r \in Request :
    /\ phase[r] = "idle" => session[r] = NoSession
    /\ \A s \in Session :
         Active(r) /\ session[r] = s /\ ~Closed(s) =>
           s \in DOMAIN states /\ states[s].state = held[r]

\* A step that changes no session of a request and takes no state out of the
\* registry keeps it.
LEMMA RegisteredFrame ==
  ASSUME RegisteredInv, session' = session, final' = final, held' = held,
         \A q \in Request : phase'[q] = "idle" => phase[q] = "idle",
         \A q \in Request : Active(q)' => Active(q),
         \A q \in Request, s \in Session :
           Active(q)' /\ session[q] = s /\ ~Closed(s) /\ s \in DOMAIN states
               /\ states[s].state = held[q]
             => s \in DOMAIN states' /\ states'[s].state = states[s].state
  PROVE  RegisteredInv'
<1>1. \A s : Closed(s)' <=> Closed(s)
  BY DEF Closed
<1> QED BY <1>1 DEF RegisteredInv

\* Neither the cleanup task nor a request of another session takes it out.
LEMMA RegisteredStep == TypeOK /\ RegisteredInv /\ [SessionsNext]_sessionsVars => RegisteredInv'
<1> SUFFICES ASSUME TypeOK, RegisteredInv, [SessionsNext]_sessionsVars
             PROVE  RegisteredInv'
  OBVIOUS
<1> USE SessionAssumption
<1>1. ASSUME NEW r \in Request, NEW s \in Session \cup {NoSession}, NEW f \in BOOLEAN,
             Enter(r, s, f)
      PROVE  RegisteredInv'
  <2>1. /\ phase[r] = "idle" /\ session[r] = NoSession
        /\ final' = [final EXCEPT ![r] = f /\ s # NoSession]
        /\ session' = [session EXCEPT ![r] = s]
        /\ phase' = [phase EXCEPT ![r] = "entered"]
    BY <1>1 DEF Enter, RegisteredInv
  <2>2. ASSUME NEW t \in Session, Closed(t) PROVE Closed(t)'
    <3>1. PICK x \in Request : session[x] = t /\ final[x]
      BY <2>2 DEF Closed
    <3>2. x # r
      BY <2>1, <3>1
    <3>3. session'[x] = t /\ final'[x]
      BY <2>1, <3>1, <3>2 DEF TypeOK
    <3> QED BY <3>3 DEF Closed
  <2>3. \A q \in Request : phase'[q] = "idle" => session'[q] = NoSession
    BY <2>1 DEF RegisteredInv, TypeOK
  <2>4. ASSUME NEW q \in Request, NEW t \in Session,
               Active(q)', session'[q] = t, ~Closed(t)'
        PROVE  t \in DOMAIN states' /\ states'[t].state = held'[q]
    <3>1. CASE q = r
      <4>1. t = s /\ s # NoSession
        BY <2>1, <2>4, <3>1 DEF TypeOK
      <4>2. /\ held' = [held EXCEPT ![r] = session_state(s, r).state]
            /\ states' = [u \in DOMAIN states \cup {s} |->
                            IF u = s THEN session_state(s, r) ELSE states[u]]
        BY <1>1, <4>1 DEF Enter
      <4> QED BY <3>1, <4>1, <4>2 DEF TypeOK
    <3>2. CASE q # r
      <4>1. Active(q) /\ session[q] = t /\ held'[q] = held[q]
        BY <1>1, <2>1, <2>4, <3>2 DEF Enter, Active, TypeOK
      <4>2. t \in DOMAIN states /\ states[t].state = held[q]
        BY <2>2, <2>4, <4>1 DEF RegisteredInv
      <4>3. CASE s = NoSession
        BY <1>1, <4>1, <4>2, <4>3 DEF Enter
      <4>4. CASE s # NoSession
        <5>1. states' = [u \in DOMAIN states \cup {s} |->
                           IF u = s THEN session_state(s, r) ELSE states[u]]
          BY <1>1, <4>4 DEF Enter
        <5>2. s \in DOMAIN states => session_state(s, r).state = states[s].state
          BY DEF session_state
        <5> QED BY <4>1, <4>2, <5>1, <5>2
      <4> QED BY <4>3, <4>4
    <3> QED BY <3>1, <3>2
  <2> QED BY <2>3, <2>4 DEF RegisteredInv
<1>2. ASSUME NEW r \in Request, Lock(r) PROVE RegisteredInv'
  <2>1. /\ states' = states /\ session' = session /\ final' = final /\ held' = held
        /\ phase' = [phase EXCEPT ![r] = "routing"] /\ phase[r] = "entered"
    BY <1>2 DEF Lock
  <2> QED BY <2>1, RegisteredFrame DEF Active, TypeOK
<1>3. ASSUME NEW r \in Request, Routed(r) PROVE RegisteredInv'
  <2>1. /\ states' = states /\ session' = session /\ final' = final /\ held' = held
        /\ phase' = [phase EXCEPT ![r] = "calling"] /\ phase[r] = "routing"
    BY <1>3 DEF Routed
  <2> QED BY <2>1, RegisteredFrame DEF Active, TypeOK
<1>4. ASSUME NEW r \in Request, Leave(r) PROVE RegisteredInv'
  <2>1. /\ session' = session /\ final' = final /\ held' = held
        /\ phase' = [phase EXCEPT ![r] = "done"]
    BY <1>4 DEF Leave
  <2>2. ASSUME NEW q \in Request, NEW s \in Session, session[q] = s, ~Closed(s),
               s \in DOMAIN states
        PROVE  s \in DOMAIN states' /\ states'[s].state = states[s].state
    <3>1. final[r] => session[r] # s
      BY <2>2 DEF Closed
    <3> QED BY <1>4, <2>2, <3>1 DEF Leave
  <2>3. \A q \in Request : phase'[q] = "idle" => phase[q] = "idle"
    BY <2>1 DEF TypeOK
  <2>4. \A q \in Request : Active(q)' => Active(q)
    BY <2>1 DEF Active, TypeOK
  <2> QED BY <2>1, <2>2, <2>3, <2>4, RegisteredFrame
<1>5. ASSUME NEW r \in Request, CancelRun(r) PROVE RegisteredInv'
  <2>1. /\ states' = states /\ session' = session /\ final' = final /\ held' = held
        /\ phase' = [phase EXCEPT ![r] = "done"]
    BY <1>5 DEF CancelRun
  <2> QED BY <2>1, RegisteredFrame DEF Active, TypeOK
<1>6. CASE Cleanup
  <2>1. /\ states' = [s \in {t \in DOMAIN states : Kept(t)} |-> states[s]]
        /\ session' = session /\ final' = final /\ held' = held /\ phase' = phase
    BY <1>6 DEF Cleanup, requestVars
  <2>2. ASSUME NEW q \in Request, NEW s \in Session, Active(q)', session[q] = s,
               s \in DOMAIN states, states[s].state = held[q]
        PROVE  Kept(s)
    BY <2>1, <2>2 DEF Kept, Active
  <2> QED BY <2>1, <2>2, RegisteredFrame DEF Active
<1>7. CASE Tick
  BY <1>7, RegisteredFrame DEF Tick, requestVars, Active
<1>8. CASE UNCHANGED sessionsVars
  BY <1>8, RegisteredFrame DEF sessionsVars, requestVars, Active
<1> QED
  BY <1>1, <1>2, <1>3, <1>4, <1>5, <1>6, <1>7, <1>8 DEF SessionsNext, RouteFails, Answered

\* The requests of a session that route at the same time share one state,
\* whatever the cleanup task removes, until a host marks the session complete
\* (session_state, remove_inactive_sessions).
THEOREM RouterSharesState == SessionsSpec => []ActiveShareState
<1>1. SessionsInit => TypeOK /\ RegisteredInv
  BY SessionAssumption, TtlAssumption
     DEF SessionsInit, NoStates, TypeOK, RegisteredInv, Active
<1>2. TypeOK /\ RegisteredInv /\ [SessionsNext]_sessionsVars => TypeOK' /\ RegisteredInv'
  BY TypeStep, RegisteredStep
<1>3. TypeOK /\ RegisteredInv => ActiveShareState
  <2> SUFFICES ASSUME TypeOK, RegisteredInv, NEW q \in Request, NEW r \in Request,
                      Active(q), Active(r), session[q] = session[r],
                      session[r] # NoSession, ~Closed(session[r])
               PROVE  held[q] = held[r]
    BY DEF ActiveShareState
  <2>1. session[r] \in Session
    BY DEF TypeOK
  <2> QED BY <2>1 DEF RegisteredInv
<1> QED BY <1>1, <1>2, <1>3, PTL DEF SessionsSpec

-----------------------------------------------------------------------------
(* A session is remembered for the TTL. *)

\* What the registry owes a session nobody marked complete: less than the TTL after a
\* request entered, the session's entry is there, has that request's state, and is no
\* older than the request.
RememberedInv ==
  \A q \in Request, s \in Session :
    phase[q] # "idle" /\ session[q] = s /\ ~Closed(s)
        /\ now - entered_at[q] < SESSION_STATE_TTL
      => /\ s \in DOMAIN states
         /\ states[s].state = held[q] /\ states[s].last_accessed >= entered_at[q]

\* A step that takes no such entry away, and under which no request enters, keeps it.
LEMMA RememberedFrame ==
  ASSUME TypeOK, RememberedInv, SessionRemembered, now' \in Int, now' >= now,
         session' = session, final' = final, held' = held, entered_at' = entered_at,
         \A q \in Request : phase'[q] = "idle" <=> phase[q] = "idle",
         \A q \in Request, s \in Session :
           session[q] = s /\ ~Closed(s) /\ s \in DOMAIN states
               /\ now - states[s].last_accessed < SESSION_STATE_TTL
             => s \in DOMAIN states' /\ states'[s] = states[s]
  PROVE  RememberedInv' /\ SessionRemembered'
<1>1. \A s : Closed(s)' <=> Closed(s)
  BY DEF Closed
<1>2. ASSUME NEW q \in Request, NEW s \in Session, phase'[q] # "idle", session[q] = s,
             ~Closed(s), now' - entered_at[q] < SESSION_STATE_TTL
      PROVE  /\ s \in DOMAIN states'
             /\ states'[s].state = held[q] /\ states'[s].last_accessed >= entered_at[q]
  <2>1. now \in Int /\ entered_at[q] \in Int /\ SESSION_STATE_TTL \in Int
    BY TtlAssumption DEF TypeOK
  <2>2. /\ s \in DOMAIN states
        /\ states[s].state = held[q] /\ states[s].last_accessed >= entered_at[q]
    BY <1>2, <2>1 DEF RememberedInv
  <2>3. states[s].last_accessed \in Int
    BY <2>2 DEF TypeOK
  <2>4. now - states[s].last_accessed < SESSION_STATE_TTL
    BY <1>2, <2>1, <2>2, <2>3
  <2> QED BY <1>2, <2>2, <2>4
<1>3. RememberedInv'
  BY <1>1, <1>2 DEF RememberedInv
<1>4. SessionRemembered'
  BY <1>1 DEF SessionRemembered
<1> QED BY <1>3, <1>4

\* A request that enters takes the entry its session still has, or leaves the first.
LEMMA RememberedEnter ==
  ASSUME TypeOK, RegisteredInv, RememberedInv, SessionRemembered,
         NEW r \in Request, NEW s \in Session \cup {NoSession}, NEW f \in BOOLEAN,
         Enter(r, s, f)
  PROVE  RememberedInv' /\ SessionRemembered'
<1> USE SessionAssumption
<1>1. /\ phase[r] = "idle" /\ session[r] = NoSession /\ now' = now
      /\ phase' = [phase EXCEPT ![r] = "entered"]
      /\ session' = [session EXCEPT ![r] = s]
      /\ final' = [final EXCEPT ![r] = f /\ s # NoSession]
      /\ entered_at' = [entered_at EXCEPT ![r] = now]
  BY DEF Enter, RegisteredInv
<1>2. ASSUME NEW t \in Session, ~Closed(t)' PROVE ~Closed(t)
  <2> SUFFICES ASSUME NEW x \in Request, session[x] = t, final[x] PROVE FALSE
    BY <1>2 DEF Closed
  <2>1. x # r
    BY <1>1
  <2>2. session'[x] = t /\ final'[x]
    BY <1>1, <2>1 DEF TypeOK
  <2> QED BY <1>2, <2>2 DEF Closed
<1>3. \A q \in Request : q # r =>
        /\ phase'[q] = phase[q] /\ session'[q] = session[q]
        /\ held'[q] = held[q] /\ entered_at'[q] = entered_at[q]
  BY <1>1 DEF Enter, TypeOK
<1>4. phase'[r] = "entered" /\ session'[r] = s /\ entered_at'[r] = now
  BY <1>1 DEF TypeOK
<1>5. /\ now \in Int /\ SESSION_STATE_TTL \in Int /\ SESSION_STATE_TTL > 0
      /\ \A q \in Request : entered_at[q] \in Int /\ entered_at[q] <= now
  BY TtlAssumption DEF TypeOK
<1>6. ASSUME s \in Session
      PROVE  /\ states' = [t \in DOMAIN states \cup {s} |->
                             IF t = s THEN session_state(s, r) ELSE states[t]]
             /\ held'[r] = session_state(s, r).state
             /\ session_state(s, r).last_accessed = now
             /\ s \in DOMAIN states => session_state(s, r).state = states[s].state
  <2>1. s # NoSession
    BY <1>6
  <2>2. session_state(s, r).last_accessed = now
    BY DEF session_state
  <2>3. s \in DOMAIN states => session_state(s, r).state = states[s].state
    BY DEF session_state
  <2> QED BY <2>1, <2>2, <2>3 DEF Enter, TypeOK
<1>7. s = NoSession => states' = states
  BY DEF Enter
\* What every other request of a session is owed.
<1>8. ASSUME NEW q \in Request, q # r, NEW t \in Session, phase[q] # "idle",
             session[q] = t, ~Closed(t), now - entered_at[q] < SESSION_STATE_TTL
      PROVE  /\ t \in DOMAIN states' /\ states'[t].state = held[q]
             /\ states'[t].last_accessed >= entered_at[q]
             /\ t = s => held'[r] = held[q]
  <2>1. /\ t \in DOMAIN states
        /\ states[t].state = held[q] /\ states[t].last_accessed >= entered_at[q]
    BY <1>8 DEF RememberedInv
  <2>2. CASE s = NoSession
    BY <1>7, <2>1, <2>2
  <2>3. CASE s \in Session
    BY <1>5, <1>6, <2>1, <2>3
  <2> QED BY <2>2, <2>3
<1>9. RememberedInv'
  <2> SUFFICES ASSUME NEW q \in Request, NEW t \in Session, phase'[q] # "idle",
                      session'[q] = t, ~Closed(t)',
                      now - entered_at'[q] < SESSION_STATE_TTL
               PROVE  /\ t \in DOMAIN states'
                      /\ states'[t].state = held'[q]
                      /\ states'[t].last_accessed >= entered_at'[q]
    BY <1>1 DEF RememberedInv
  <2>1. CASE q = r
    BY <1>4, <1>5, <1>6, <2>1
  <2>2. CASE q # r
    BY <1>2, <1>3, <1>8, <2>2
  <2> QED BY <2>1, <2>2
<1>10. SessionRemembered'
  <2> SUFFICES ASSUME NEW q \in Request, NEW p \in Request, NEW t \in Session,
                      phase'[q] # "idle", phase'[p] # "idle",
                      session'[q] = t, session'[p] = t, ~Closed(t)',
                      entered_at'[p] - entered_at'[q] \in 0..(SESSION_STATE_TTL - 1)
               PROVE  held'[q] = held'[p]
    BY <1>1 DEF SessionRemembered, TypeOK
  <2>1. ~Closed(t)
    BY <1>2
  <2>2. CASE q # r /\ p # r
    <3>1. t # NoSession
      OBVIOUS
    <3> QED BY <1>3, <2>1, <2>2, <3>1 DEF SessionRemembered
  <2>3. CASE q # r /\ p = r
    <3>1. t = s /\ session[q] = s /\ now - entered_at[q] < SESSION_STATE_TTL
      BY <1>3, <1>4, <1>5, <2>3
    <3> QED BY <1>3, <1>8, <2>1, <2>3, <3>1
  <2>4. CASE q = r /\ p # r
    <3>1. t = s /\ session[p] = s /\ now - entered_at[p] < SESSION_STATE_TTL
      BY <1>3, <1>4, <1>5, <2>4
    <3> QED BY <1>3, <1>8, <2>1, <2>4, <3>1
  <2> QED BY <2>2, <2>3, <2>4
<1> QED BY <1>9, <1>10

\* Neither does the cleanup task nor a request that ends forget a session in use.
LEMMA RememberedStep ==
  ASSUME TypeOK, RegisteredInv, RememberedInv, SessionRemembered, [SessionsNext]_sessionsVars
  PROVE  RememberedInv' /\ SessionRemembered'
<1>0. now \in Int
  BY DEF TypeOK
<1>1. ASSUME NEW r \in Request, Lock(r) \/ Routed(r) \/ CancelRun(r)
      PROVE  RememberedInv' /\ SessionRemembered'
  <2>1. /\ UNCHANGED <<now, states, session, final, held, entered_at>>
        /\ \A q \in Request : phase'[q] = "idle" <=> phase[q] = "idle"
    BY <1>1 DEF Lock, Routed, CancelRun, TypeOK
  <2> QED BY <1>0, <2>1, RememberedFrame
<1>2. ASSUME NEW r \in Request, RouteFails(r) \/ Answered(r)
      PROVE  RememberedInv' /\ SessionRemembered'
  <2>1. /\ UNCHANGED <<now, session, final, held, entered_at>>
        /\ phase[r] # "idle" /\ phase' = [phase EXCEPT ![r] = "done"]
        /\ states' = IF final[r] THEN [t \in DOMAIN states \ {session[r]} |-> states[t]]
                     ELSE states
    BY <1>2 DEF RouteFails, Answered, Leave
  <2>2. \A q \in Request : phase'[q] = "idle" <=> phase[q] = "idle"
    BY <2>1 DEF TypeOK
  <2>3. ASSUME NEW s \in Session, ~Closed(s), s \in DOMAIN states
        PROVE  s \in DOMAIN states' /\ states'[s] = states[s]
    <3>1. final[r] => session[r] # s
      BY <2>3 DEF Closed
    <3>2. CASE final[r]
      <4>1. s \in DOMAIN states \ {session[r]}
        BY <2>3, <3>1, <3>2
      <4> QED BY <2>1, <3>2, <4>1
    <3>3. CASE ~final[r]
      BY <2>1, <2>3, <3>3
    <3> QED BY <3>2, <3>3
  <2>4. \A q \in Request, s \in Session :
           session[q] = s /\ ~Closed(s) /\ s \in DOMAIN states
               /\ now - states[s].last_accessed < SESSION_STATE_TTL
             => s \in DOMAIN states' /\ states'[s] = states[s]
    BY <2>3
  <2>5. now' \in Int /\ now' >= now
    BY <1>0, <2>1
  <2> QED BY <2>1, <2>2, <2>4, <2>5, RememberedFrame
<1>3. CASE Cleanup
  <2>1. /\ UNCHANGED <<now, phase, session, final, held, entered_at>>
        /\ states' = [s \in {t \in DOMAIN states : Kept(t)} |-> states[s]]
    BY <1>3 DEF Cleanup, requestVars
  <2>2. \A s \in DOMAIN states : now - states[s].last_accessed < SESSION_STATE_TTL => Kept(s)
    BY DEF Kept
  <2> QED BY <1>0, <2>1, <2>2, RememberedFrame
<1>4. CASE Tick
  BY <1>0, <1>4, RememberedFrame DEF Tick, requestVars
<1>5. CASE UNCHANGED sessionsVars
  BY <1>0, <1>5, RememberedFrame DEF sessionsVars, requestVars
<1> QED BY <1>1, <1>2, <1>3, <1>4, <1>5, RememberedEnter DEF SessionsNext

\* A request that comes less than the TTL after another of its session finds what that one
\* left, for any TTL and however the cleanup task runs, until a host marks the session
\* complete (session_state, remove_inactive_sessions).
THEOREM RouterSessionRemembered == SessionsSpec => []SessionRemembered
<1> DEFINE Inv == TypeOK /\ RegisteredInv /\ RememberedInv /\ SessionRemembered
<1>1. SessionsInit => Inv
  BY SessionAssumption, TtlAssumption
     DEF SessionsInit, NoStates, TypeOK, RegisteredInv, RememberedInv, SessionRemembered, Active
<1>2. Inv /\ [SessionsNext]_sessionsVars => Inv'
  BY TypeStep, RegisteredStep, RememberedStep
<1>3. Inv => SessionRemembered
  OBVIOUS
<1> QED BY <1>1, <1>2, <1>3, PTL DEF SessionsSpec
=============================================================================
