SPECIFICATION Spec
CONSTANTS
  a1 = a1 s1 = s1 i1 = i1 i2 = i2 r1 = r1
  None = None
  Asks = {a1}
  States = {s1}
  Identities = {i1, i2}
  Requests = {r1}
  Overlapping = {}
  LOGIN_TTL = 1
  SSO_TTL = 1
  ASK_TTL = 2
  FAILURE_TTL = 2
  MAX_FAILURES = 1
  MaxRows = 1
  Failures = TRUE
INVARIANTS TypeOK DeniedStaysOut UsedOnce OneIdentity
PROPERTIES LockEnds UnansweredPurged
