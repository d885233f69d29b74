CONSTANTS
  email = email
  v1 = v1
  token = token
  glued = glued
  Request = {r1, r2}
  SessionId <- MCSessionId
  MaxAnon = 2
  Key <- MCKey
  Slug = {email}
  Value = {v1, v2}
  HighEntropy = {}
  Glued = {}
  Critical <- MCNone
  ForceLocal = "never"
  LocalRouteSet = FALSE
  LocalRouteRegistered = FALSE
  Ttl = 2
  MaxTime = 3
  MaxRecords = 3
  SnapshotMax = 0
  Mint <- MCMint

SPECIFICATION MaskingSpec
SYMMETRY Symmetry
CHECK_DEADLOCK FALSE

INVARIANTS
  RestoredToOwner
  PromptAnswerRestored
  OneRendering
  MapsAgree
  SessionScoped
  SnapshotNotAhead

PROPERTY ActiveSessionRemembers
