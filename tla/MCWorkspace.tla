---------------------------- MODULE MCWorkspace ----------------------------
(* Workspace.tla on a small instance. The requests are interchangeable.     *)
EXTENDS Workspace, TLC

ReqsSymmetry == Permutations(Reqs)
=============================================================================
