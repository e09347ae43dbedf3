\* Three requests of any kinds at once, on an account with two sessions and
\* one mailed link, over the life of that link.
SPECIFICATION Spec
CONSTANTS
  Reqs = {r1, r2, r3}
  InitSessions = {s1, s2}
  InitTokens = {t1}
  InitialPassword = p0
  None = None
  Cooldown = 1
  ResetTTL = 2
  MaxNow = 2
SYMMETRY Symmetry
INVARIANTS TypeOK SingleUse EarlierCredentialsEnd DeadlockOverLinks
PROPERTIES ChangeLeavesOwnSession ChangeReplacesVerified ImplementsLedger
CHECK_DEADLOCK FALSE
