\* Three requests and a pool of one connection, from the start to the end.
SPECIFICATION FairSpec
CONSTANTS
  Reqs = {r1, r2, r3}
  Kinds = {"ready", "logout", "requestPasswordReset"}
  MaxConns = 1
INVARIANTS TypeOK HeldOnlyInUse OrderlyShutdown
PROPERTIES ShutdownEnds WaitersServed ProbeAnswered
