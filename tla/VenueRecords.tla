---------------------------- MODULE VenueRecords ----------------------------
(***************************************************************************)
(* The staff and the orders of one venue (src/internal/modules/workforce   *)
(* and ordering), changed by any number of sessions of its owner at once.  *)
(*                                                                         *)
(* Every operation asks RequireOwner in one statement and writes in a      *)
(* second one that commits by itself, so that other writes, and the        *)
(* deletion of the venue, come between the two.  Nobody can tell when a    *)
(* request chose its values from when it writes them: they are chosen as   *)
(* it writes, and a list the owner looked at may be older than any write.  *)
(***************************************************************************)
EXTENDS FiniteSets

CONSTANTS
  Reqs,        \* the requests the server runs at once; each serves many
  Members,     \* the rows of venue_staff there may ever be
  Orders,      \* the orders of the venue
  Emails,      \* addresses, in lower case
  None         \* no address

ASSUME RecordsAssumption == None \notin Emails

VARIABLES
  deleted,     \* whether the venue is deleted
  email,       \* invited_email of each row, or None where there is no row
  standing,    \* status of each row of venue_staff
  status,      \* status of each order
  completed,   \* the orders with a completed_at
  pc           \* what each request does next

vars == <<deleted, email, standing, status, completed, pc>>

\* staffStatusPattern.
Standings == {"invited", "active", "inactive"}

\* orderStatusPattern; only an order that comes from elsewhere is a draft.
Statuses == {"new", "accepted", "preparing", "ready", "served", "completed", "cancelled"}

Closed == {"completed", "cancelled"}

TypeOK ==
  /\ deleted \in BOOLEAN
  /\ email \in [Members -> Emails \cup {None}]
  /\ standing \in [Members -> Standings \cup {"removed"}]
  /\ status \in [Orders -> Statuses \cup {"draft"}]
  /\ completed \subseteq Orders
  /\ pc \in [Reqs -> {"idle", "write"}]

Init ==
  /\ deleted = FALSE
  /\ email = [m \in Members |-> None]
  /\ standing = [m \in Members |-> "removed"]
  /\ status \in [Orders -> {"draft", "new"}]
  /\ completed = {}
  /\ pc = [r \in Reqs |-> "idle"]

\* The members List shows, and the ones venue_staff_email_unique is about.
Present == {m \in Members : standing[m] # "removed"}

Return(r) ==
  /\ pc[r] = "write"
  /\ pc' = [pc EXCEPT ![r] = "idle"]
  /\ UNCHANGED deleted

-----------------------------------------------------------------------------
\* The request has found its venue.
RequireOwner(r) ==
  /\ pc[r] = "idle"
  /\ ~deleted
  /\ pc' = [pc EXCEPT ![r] = "write"]
  /\ UNCHANGED <<deleted, email, standing, status, completed>>

\* Variant: the unique index is about those who have not accepted yet.
AddressFreeInvited(e) ==
  \A m \in Members : standing[m] = "invited" => email[m] # e

\* venue_staff_email_unique lets the address in.
AddressFree(e) == \A m \in Present : email[m] # e

\* A new row; an address that is present already is answered ErrConflict.
Create(r) ==
  /\ Return(r)
  /\ \E m \in Members, e \in Emails :
       /\ email[m] = None
       /\ AddressFree(e)
       /\ email' = [email EXCEPT ![m] = e]
       /\ standing' = [standing EXCEPT ![m] = "invited"]
  /\ UNCHANGED <<status, completed>>

\* Variant: the UPDATE finds its row by the identifiers alone.
UpdatableAny == {m \in Members : email[m] # None /\ (m \notin Present => AddressFree(email[m]))}

\* The rows an UPDATE of venue_staff finds: `status <> 'removed'', looked at
\* when the row is written.
Updatable == Present

\* Variant: role and status are swapped.
UpdateSwapped(r) ==
  /\ Return(r)
  /\ \E m \in Updatable, s \in {"manager", "waiter"} : standing' = [standing EXCEPT ![m] = s]
  /\ UNCHANGED <<email, status, completed>>

\* The status of the request, `invited' when it names none.
Update(r) ==
  /\ Return(r)
  /\ \E m \in Updatable, s \in Standings : standing' = [standing EXCEPT ![m] = s]
  /\ UNCHANGED <<email, status, completed>>

\* The row and its address stay.
Delete(r) ==
  /\ Return(r)
  /\ \E m \in Present : standing' = [standing EXCEPT ![m] = "removed"]
  /\ UNCHANGED <<email, status, completed>>

\* Variant: reopening an order clears its time.
CompletedClearing(o, s) == IF s \in Closed THEN completed \cup {o} ELSE completed \ {o}

\* `CASE WHEN $3 IN ('completed', 'cancelled') THEN now() ELSE completed_at'.
Completed(o, s) == IF s \in Closed THEN completed \cup {o} ELSE completed

\* Any status may follow any other.
UpdateStatus(r) ==
  /\ Return(r)
  /\ \E o \in Orders, s \in Statuses :
       /\ status' = [status EXCEPT ![o] = s]
       /\ completed' = Completed(o, s)
  /\ UNCHANGED <<email, standing>>

\* No row is found, the input is refused, or the client has gone.
Refuse(r) ==
  /\ Return(r)
  /\ UNCHANGED <<email, standing, status, completed>>

\* venues.Delete, from another session of the owner.
DeleteVenue ==
  /\ ~deleted
  /\ deleted' = TRUE
  /\ UNCHANGED <<email, standing, status, completed, pc>>

Next ==
  \/ DeleteVenue
  \/ \E r \in Reqs : \/ RequireOwner(r) \/ Create(r) \/ Update(r)
                     \/ Delete(r) \/ UpdateStatus(r) \/ Refuse(r)

Spec == Init /\ [][Next]_vars

-----------------------------------------------------------------------------
(* Properties                                                               *)

\* Whatever is invited, removed and invited again at once, an address is on
\* the list once: nobody is a manager and a waiter of one venue.
OneMemberPerAddress ==
  \A m, n \in Present : email[m] = email[n] => m = n

\* A member who was removed stays removed: a PATCH of a list that still shows
\* the member does not bring the member back.  (A new invitation is a new row.)
RemovedStays ==
  [][\A m \in Members : email[m] # None /\ m \notin Present
       => m \notin Present' /\ email'[m] = email[m]]_vars

\* An order that is closed has the time it was closed at, whichever statuses
\* it has been through, and an order that was closed once keeps a time.
ClosedOrdersTimed ==
  /\ [](\A o \in Orders : status[o] \in Closed => o \in completed)
  /\ [][completed \subseteq completed']_vars
=============================================================================
