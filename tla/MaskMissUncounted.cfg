CONSTANTS
  email = email
  v1 = v1
  Request = {r1, r2}
  SessionId = {s1}
  MaxAnon = 0
  Key <- MCKey
  Slug = {email}
  Value = {v1}
  HighEntropy = {}
  Glued = {}
  Critical <- MCNone
  ForceLocal = "never"
  LocalRouteSet = FALSE
  LocalRouteRegistered = FALSE
  Ttl = 1
  MaxTime = 2
  MaxRecords = 2
  SnapshotMax = 0
  Mint <- MCMint

SPECIFICATION Spec
SYMMETRY Symmetry
CHECK_DEADLOCK FALSE

INVARIANT RestoreMissIsCounted
