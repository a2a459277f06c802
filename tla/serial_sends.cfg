SPECIFICATION SerialSpec
CONSTANTS
  u1 = u1 s1 = s1 s2 = s2 r1 = r1 r2 = r2 p1 = p1
  None = None
  Users = {u1}
  Uuids = {s1, s2}
  Requests = {r1}
  Passwords = {p1}
  Inputs <- MCInputs
  Horizon = 2
  MaxTime = 2
  MaxServed = 2
  Failures = TRUE
SYMMETRY Symmetry
PROPERTIES ServedWithinLimit NoOrphanFile FileKept
