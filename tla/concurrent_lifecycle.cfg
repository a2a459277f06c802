SPECIFICATION Spec
CONSTANTS
  u1 = u1 u2 = u2 u3 = u3 o1 = o1 o2 = o2
  m1 = m1 m2 = m2 m3 = m3 r1 = r1 r2 = r2
  None = None
  Users = {u1, u2}
  Orgs = {o1}
  Members = {m1, m2}
  Requests = {r1, r2}
  MailEnabled = TRUE
  InputTypes = {0, 1}
  ConfirmKeys = {"blank", "missing"}
  Ops = {"create", "invite", "accept", "register", "confirm", "edit", "revoke", "restore", "enforce", "deleteAccount"}
SYMMETRY Symmetry
INVARIANTS TypeOK ConfirmedByConfirmation
PROPERTIES OwnerGrantAuthorized
