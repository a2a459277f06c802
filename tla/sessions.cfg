SPECIFICATION Spec
CONSTANTS
  d1 = d1 d2 = d2 r1 = r1 r2 = r2
  None = None
  Devices = {d1, d2}
  Requests = {r1, r2}
  ExceptionTime = 1
  MaxNumber = 4
  Failures = TRUE
SYMMETRY Symmetry
INVARIANTS DeauthorizedStaysOut DisabledHasNoSession
