\* One login against one reset: what the reset leaves open.
SPECIFICATION Spec
CONSTANTS
  Reqs = {r1, r2}
  InitSessions = {s1}
  InitTokens = {t1}
  InitialPassword = p0
  None = None
  Cooldown = 1
  ResetTTL = 1
  MaxNow = 0
PROPERTIES ResetRevokesExisting
CHECK_DEADLOCK FALSE
