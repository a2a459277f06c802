SPECIFICATION SerialSpec
CONSTANTS
  u1 = u1 u2 = u2 u3 = u3 o1 = o1 o2 = o2
  m1 = m1 m2 = m2 m3 = m3 r1 = r1 r2 = r2
  None = None
  Users = {u1, u2}
  Orgs = {o1, o2}
  Members = {m1, m2, m3}
  Requests = {r1}
  MailEnabled = TRUE
  InputTypes = {1, 2}
  ConfirmKeys = {"blank", "missing", "key"}
  Ops = {"create", "invite", "accept", "register", "confirm", "edit", "restore", "enablePolicy", "disablePolicy", "enforce"}
SYMMETRY Symmetry
PROPERTIES SweptWhenEnabled
