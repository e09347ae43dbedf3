------------------------------ MODULE RowLocks ------------------------------
(* The row locks of PostgreSQL that the statements of this program take.    *)
(* An INSERT that references a row takes KEY SHARE on it (KS), UPDATE of a  *)
(* column that no foreign key can refer to NO KEY UPDATE (NKU), and SELECT  *)
(* ... FOR UPDATE, DELETE and UPDATE of a key the strongest, FU.            *)

LockModes == {"none", "KS", "NKU", "FU"}

Conflict(a, b) ==
  \/ a = "FU" /\ b # "none"
  \/ b = "FU" /\ a # "none"
  \/ a = "NKU" /\ b = "NKU"
=============================================================================
