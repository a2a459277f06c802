SPECIFICATION SerialSpec
CONSTANTS
  u1 = u1 u2 = u2 u3 = u3 e1 = e1 e2 = e2 r1 = r1 r2 = r2
  None = None
  Users = {u1, u2}
  Grants = {e1, e2}
  Requests = {r1}
  MailEnabled = FALSE
  MaxKey = 2
  Ops = {"invite", "accept", "confirm", "initiate", "approve", "reject", "update", "delete", "password", "takeover", "view", "register", "shell", "setPassword", "rotate", "twofactor", "deleteAccount"}
SYMMETRY Symmetry
INVARIANTS OneKeyOpensAll InvitationsFollowRegistration
PROPERTIES TakeoverWhileApproved ImplementsGrant
