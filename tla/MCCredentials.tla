--------------------------- MODULE MCCredentials ---------------------------
(* Credentials.tla on a small instance. The requests are interchangeable,   *)
(* and so are the sessions.                                                 *)
EXTENDS Credentials, TLC

Symmetry == Permutations(Reqs) \cup Permutations(InitSessions)
=============================================================================
