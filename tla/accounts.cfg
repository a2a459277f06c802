SPECIFICATION Spec
CONSTANTS
  e1 = e1 e2 = e2 p1 = p1 p2 = p2 k1 = k1 k2 = k2 i1 = i1 i2 = i2
  r1 = r1 r2 = r2
  None = None
  Emails = {e1, e2}
  Passwords = {p1, p2}
  Kdfs = {k1, k2}
  Items = {i1}
  Requests = {r1, r2}
  MaxKeys = 2
  MaxMails = 2
  AllowUnknown = TRUE
  Failures = TRUE
SYMMETRY Symmetry
INVARIANTS PasswordOpensVault 
