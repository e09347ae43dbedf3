\* Two requests for a reset link, one for an address nobody has.
SPECIFICATION Spec
CONSTANTS
  Reqs = {r1, r2}
  u1 = u1
  u2 = u2
  e1 = e1
  e2 = e2
  InitUsers = {u1, u2}
  Emails = {e1, e2, e3}
  InitEmail <- OneEach
  None = None
INVARIANTS SameResponse
CHECK_DEADLOCK FALSE
