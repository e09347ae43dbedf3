\* Every request is answered: two or three at once that lock the account.
SPECIFICATION FairSpec
CONSTANTS
  Reqs = {r1, r2, r3}
  InitVenues = {v1}
  InitSubs = {}
  None = None
PROPERTIES RequestsAnswered
CHECK_DEADLOCK FALSE
