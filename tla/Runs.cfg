CONSTANTS
  Calls = {c1, c2, c3}
  Stuck = {c2}
  MaxDecisions = 2
  Capacity = 1
  Hedging = TRUE
  Request = {r1, r2, r3}
  Session = {s1}
  NoSession = NoSession
  NoRequest = NoRequest
  SESSION_STATE_TTL = 1
  MaxTime = 1
SPECIFICATION RunsSpec
INVARIANTS
  NoLostPromise
  AwaitedResponseNotLost
  ActiveShareState
  TurnsNotLost
  SessionRemembered
PROPERTIES
  RunKeepsContract
  RunReturns
  TaskReaped
  LockServed
