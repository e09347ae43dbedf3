-------------------------- MODULE MCLoginThrottle --------------------------
(* LoginThrottle.tla on a small instance.                                   *)
EXTENDS LoginThrottle
=============================================================================
