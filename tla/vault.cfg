SPECIFICATION Spec
CONSTANTS
  u1 = u1 u2 = u2 o1 = o1 o2 = o2 k1 = k1 k2 = k2 c1 = c1 c2 = c2
  f1 = f1 f2 = f2 r1 = r1 r2 = r2
  None = None
  Users = {u1, u2}
  Orgs = {o1, o2}
  Collections = {k1, k2}
  Ciphers = {c1}
  Folders = {f1, f2}
  Requests = {r1, r2}
  MaxRows = 6
  Overlapping = {"upsert", "move", "bump", "delete", "unassign", "assign"}
  Failures = TRUE
SYMMETRY Symmetry
INVARIANTS PersonalToCreator CollectionsOfOwnOrg ItemsHaveOwner EditsAnnounced
