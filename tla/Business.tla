------------------------------ MODULE Business ------------------------------
(***************************************************************************)
(* What venues, floor plans and billing promise to one owner, with every   *)
(* operation one atomic step: no statements, no locks, no transactions.    *)
(* Workspace.tla is the detailed specification; it is shown to implement   *)
(* this one.                                                               *)
(*                                                                         *)
(* A venue is opened once and closed once, for good, and its floor plan    *)
(* and the rest of its settings change apart from each other.  A new       *)
(* subscription takes the place of the one before.                         *)
(***************************************************************************)
CONSTANTS
  AllVenues,           \* every venue that is ever opened
  AllSubscriptions,    \* every subscription that is ever made
  Authors,             \* who may have set a value
  Nobody,              \* a value that is not set
  FirstVenues,         \* the venues open at the start
  FirstSubscription    \* the subscription at the start, as a set

VARIABLES
  open,                \* the venues that are not deleted
  closed,              \* those that are
  plan,                \* who drew the floor plan of each venue
  profile,             \* who set the rest of its settings
  owner,               \* whether the account has the role of an owner
  current,             \* the current subscription, as a set
  past                 \* the subscriptions that were cancelled

books == <<open, closed, plan, profile, owner, current, past>>

Init ==
  /\ open = FirstVenues
  /\ closed = {}
  /\ plan = [v \in AllVenues |-> Nobody]
  /\ profile = [v \in AllVenues |-> Nobody]
  /\ owner = (FirstVenues # {})
  /\ current = FirstSubscription
  /\ past = {}

-----------------------------------------------------------------------------
\* A new venue, with a floor plan or without, makes its owner one.
OpenVenue(v, p, x) ==
  /\ v \notin open \cup closed
  /\ open' = open \cup {v}
  /\ plan' = [plan EXCEPT ![v] = p]
  /\ profile' = [profile EXCEPT ![v] = x]
  /\ owner' = TRUE
  /\ UNCHANGED <<closed, current, past>>

ChangeProfile(v, x) ==
  /\ v \in open
  /\ profile' = [profile EXCEPT ![v] = x]
  /\ UNCHANGED <<open, closed, plan, owner, current, past>>

DrawPlan(v, x) ==
  /\ v \in open
  /\ plan' = [plan EXCEPT ![v] = x]
  /\ UNCHANGED <<open, closed, profile, owner, current, past>>

CloseVenue(v) ==
  /\ v \in open
  /\ open' = open \ {v}
  /\ closed' = closed \cup {v}
  /\ UNCHANGED <<plan, profile, owner, current, past>>

Subscribe(s) ==
  /\ s \notin current \cup past
  /\ current' = {s}
  /\ past' = past \cup current
  /\ UNCHANGED <<open, closed, plan, profile, owner>>

Next ==
  \/ \E v \in AllVenues :
       \/ CloseVenue(v)
       \/ \E p, x \in Authors \cup {Nobody} : OpenVenue(v, p, x)
       \/ \E x \in Authors : ChangeProfile(v, x) \/ DrawPlan(v, x)
  \/ \E s \in AllSubscriptions : Subscribe(s)

Spec == Init /\ [][Next]_books
=============================================================================
