----------------------------- MODULE MCAccounts -----------------------------
(* Accounts.tla on a small instance: two accounts, three addresses.         *)
EXTENDS Accounts, TLC

CONSTANTS u1, u2, e1, e2

OneEach == (u1 :> e1) @@ (u2 :> e2)
=============================================================================
