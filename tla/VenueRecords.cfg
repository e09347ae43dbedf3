\* Two requests at once on four rows of staff, two addresses and an order.
SPECIFICATION Spec
CONSTANTS
  Reqs = {r1, r2}
  Members = {m1, m2, m3, m4}
  Orders = {o1}
  Emails = {e1, e2}
  None = None
SYMMETRY RecordsSymmetry
INVARIANTS TypeOK OneMemberPerAddress
PROPERTIES RemovedStays ClosedOrdersTimed
CHECK_DEADLOCK FALSE
