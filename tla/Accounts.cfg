\* Three requests at once on two accounts and three addresses, with deadlocks
\* among them.
SPECIFICATION FairSpec
CONSTANTS
  Reqs = {r1, r2, r3}
  u1 = u1
  u2 = u2
  e1 = e1
  e2 = e2
  InitUsers = {u1, u2}
  Emails = {e1, e2, e3}
  InitEmail <- OneEach
  None = None
INVARIANTS TypeOK RegisteredWhole DeadlockOnlyIfTaken
PROPERTIES ImplementsDirectory RequestsEnd
CHECK_DEADLOCK FALSE
