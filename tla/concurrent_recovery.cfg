SPECIFICATION Spec
CONSTANTS
  u1 = u1 u2 = u2 u3 = u3 e1 = e1 e2 = e2 r1 = r1 r2 = r2
  None = None
  Users = {u1, u2}
  Grants = {e1}
  Requests = {r1, r2}
  MailEnabled = TRUE
  MaxKey = 2
  Ops = {"invite", "accept", "confirm", "initiate", "approve", "reject", "update", "delete", "password", "view", "takeover", "register", "shell", "deleteAccount", "rotate", "twofactor", "fail"}
SYMMETRY Symmetry
INVARIANTS AccessWasApproved GrantHasKey
