SPECIFICATION Spec
CONSTANTS
  d1 = d1 d2 = d2 a1 = a1 a2 = a2 k1 = k1 r1 = r1 r2 = r2
  None = None
  Devices = {d1}
  Services = {"yubikey"}
  Addresses = {a1, a2}
  Keys = {k1}
  Requests = {r1, r2}
  EMAIL_ATTEMPTS_LIMIT = 2
  MaxRows = 2
  MaxStep = 2
  Overlapping = {"email"}
  Failures = TRUE
SYMMETRY Symmetry
INVARIANTS TypeOK RecoveryCodeWhileProtected CodeAcceptedOnce RememberFollowsProviders GuessesBounded
PROPERTIES EnabledByOwner
