----------------------------- MODULE MCCatalog -----------------------------
(* Catalog.tla on a small instance: two items in the venue's category.      *)
EXTENDS Catalog, TLC

CONSTANT c1

InOne == [i \in InitItems |-> c1]

ReqsSymmetry == Permutations(Reqs)
=============================================================================
