\* Four requests of any kinds at once, from an account without venues.
SPECIFICATION Spec
CONSTANTS
  Reqs = {r1, r2, r3, r4}
  InitVenues = {}
  InitSubs = {s1}
  None = None
SYMMETRY ReqsSymmetry
INVARIANTS TypeOK OwnerHasRole NoDeadlock
PROPERTIES DeletedVenueStays PlanChangedBySave OneSubscription ImplementsBusiness
CHECK_DEADLOCK FALSE
