\* Two logins at once that never stop, three failures to a block, over
\* windows of four ticks.
SPECIFICATION FairSpec
CONSTANTS
  Logins = {a1, a2}
  None = None
  Limit = 3
  Window = 4
  MaxWait = 2
INVARIANTS TypeOK WrongAnswersBounded
PROPERTIES BlockEnds
