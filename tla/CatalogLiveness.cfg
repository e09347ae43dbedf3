\* Every request is answered: two at once, with deadlocks among them.
SPECIFICATION FairSpec
CONSTANTS
  Reqs = {r1, r2}
  c1 = c1
  OwnCats = {c1, c2}
  OtherCats = {}
  InitItems = {i1, i2}
  InitCat <- InOne
  None = None
  MaxPos = 0
  MaxIds = 2
PROPERTIES RequestsAnswered
CHECK_DEADLOCK FALSE
