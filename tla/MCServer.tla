------------------------------ MODULE MCServer ------------------------------
(* Server.tla on a small instance: a pool with one connection.              *)
EXTENDS Server
=============================================================================
