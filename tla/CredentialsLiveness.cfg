\* Every request ends, with deadlocks among them.
SPECIFICATION FairSpec
CONSTANTS
  Reqs = {r1, r2, r3}
  InitSessions = {s1}
  InitTokens = {t1}
  InitialPassword = p0
  None = None
  Cooldown = 0
  ResetTTL = 1
  MaxNow = 0
PROPERTIES RequestsEnd
CHECK_DEADLOCK FALSE
