--------------------------- MODULE MCVenueRecords ---------------------------
(* VenueRecords.tla on a small instance; rows, orders, addresses and        *)
(* requests are interchangeable.                                            *)
EXTENDS VenueRecords, TLC

RecordsSymmetry ==
  Permutations(Reqs) \cup Permutations(Members)
    \cup Permutations(Orders) \cup Permutations(Emails)
=============================================================================
