------------------------- MODULE VenueRecordsProofs -------------------------
(***************************************************************************)
(* What VenueRecords.tla promises, for any requests, rows and addresses.   *)
(***************************************************************************)
EXTENDS VenueRecords, TLAPS

USE DEF Present, Standings, Statuses, Closed

\* A row is present only with an address, and an order is closed only with a
\* time.
Recorded ==
  /\ \A m \in Present : email[m] # None
  /\ \A o \in Orders : status[o] \in Closed => o \in completed

IInv == TypeOK /\ OneMemberPerAddress /\ Recorded

\* Every row and order starts as Init has it.
LEMMA InitIInv == Init => IInv
  BY RecordsAssumption DEF Init, IInv, TypeOK, OneMemberPerAddress, Recorded

\* The inductive step, one case per operation.
LEMMA StepIInv == IInv /\ [Next]_vars => IInv'
<1> SUFFICES ASSUME IInv, [Next]_vars PROVE IInv'
  OBVIOUS
<1> USE RecordsAssumption DEF IInv, TypeOK, OneMemberPerAddress, Recorded
<1>1. CASE UNCHANGED vars
  BY <1>1 DEF vars
<1>2. CASE DeleteVenue
  BY <1>2 DEF DeleteVenue
<1>3. ASSUME NEW r \in Reqs, RequireOwner(r) PROVE IInv'
  BY <1>3 DEF RequireOwner
<1>4. ASSUME NEW r \in Reqs, Create(r) PROVE IInv'
  <2>1. PICK m \in Members, e \in Emails :
          /\ email[m] = None
          /\ AddressFree(e)
          /\ email' = [email EXCEPT ![m] = e]
          /\ standing' = [standing EXCEPT ![m] = "invited"]
    BY <1>4 DEF Create
  <2>2. TypeOK'
    BY <1>4, <2>1 DEF Create, Return
  <2>3. /\ Present' = Present \cup {m}
        /\ \A n \in Members : email'[n] = IF n = m THEN e ELSE email[n]
    BY <2>1
  <2>4. OneMemberPerAddress'
    BY <2>1, <2>3 DEF AddressFree
  <2>5. Recorded'
    BY <1>4, <2>1, <2>3 DEF Create
  <2> QED
    BY <2>2, <2>4, <2>5
<1>5. ASSUME NEW r \in Reqs, Update(r) PROVE IInv'
  <2>1. PICK m \in Present, s \in Standings : standing' = [standing EXCEPT ![m] = s]
    BY <1>5 DEF Update, Updatable
  <2>2. Present' = Present
    BY <2>1
  <2> QED
    BY <1>5, <2>1, <2>2 DEF Update, Return
<1>6. ASSUME NEW r \in Reqs, Delete(r) PROVE IInv'
  <2>1. PICK m \in Present : standing' = [standing EXCEPT ![m] = "removed"]
    BY <1>6 DEF Delete
  <2>2. Present' = Present \ {m}
    BY <2>1
  <2> QED
    BY <1>6, <2>1, <2>2 DEF Delete, Return
<1>7. ASSUME NEW r \in Reqs, UpdateStatus(r) PROVE IInv'
  <2>1. PICK o \in Orders, s \in Statuses :
          status' = [status EXCEPT ![o] = s] /\ completed' = Completed(o, s)
    BY <1>7 DEF UpdateStatus
  <2>2. TypeOK' /\ Present' = Present
    BY <1>7, <2>1 DEF UpdateStatus, Return, Completed
  <2>3. \A p \in Orders : status'[p] \in Closed => p \in completed'
    BY <2>1 DEF Completed
  <2> QED
    BY <1>7, <2>2, <2>3 DEF UpdateStatus
<1>8. ASSUME NEW r \in Reqs, Refuse(r) PROVE IInv'
  BY <1>8 DEF Refuse, Return
<1> QED
  BY <1>1, <1>2, <1>3, <1>4, <1>5, <1>6, <1>7, <1>8 DEF Next

\* The invariant that every operation maintains.
THEOREM Invariance == Spec => []IInv
  BY InitIInv, StepIInv, PTL DEF Spec

\* The type invariant, for any requests, rows, orders and addresses.
THEOREM TypeCorrect == Spec => []TypeOK
<1>1. IInv => TypeOK
  BY DEF IInv
<1> QED
  BY <1>1, Invariance, PTL

\* An address is on the list of the staff once, however Create, Update and
\* Delete interleave.
THEOREM AddressOnce == Spec => []OneMemberPerAddress
<1>1. IInv => OneMemberPerAddress
  BY DEF IInv
<1> QED
  BY <1>1, Invariance, PTL

\* No write of venue_staff touches a row that was removed.
THEOREM RemovalIsFinal == Spec => RemovedStays
<1> DEFINE Stays == \A m \in Members : email[m] # None /\ m \notin Present
                      => m \notin Present' /\ email'[m] = email[m]
<1>1. IInv /\ [Next]_vars => [Stays]_vars
  <2> SUFFICES ASSUME IInv, Next PROVE Stays
    BY DEF vars
  <2> USE DEF IInv, TypeOK
  <2>1. CASE DeleteVenue
    BY <2>1 DEF DeleteVenue
  <2>2. ASSUME NEW r \in Reqs, RequireOwner(r) \/ UpdateStatus(r) \/ Refuse(r) PROVE Stays
    BY <2>2 DEF RequireOwner, UpdateStatus, Refuse
  <2>3. ASSUME NEW r \in Reqs, Create(r) PROVE Stays
    BY <2>3 DEF Create
  <2>4. ASSUME NEW r \in Reqs, Update(r) PROVE Stays
    BY <2>4 DEF Update, Updatable
  <2>5. ASSUME NEW r \in Reqs, Delete(r) PROVE Stays
    BY <2>5 DEF Delete
  <2> QED
    BY <2>1, <2>2, <2>3, <2>4, <2>5 DEF Next
<1> QED
  BY <1>1, Invariance, PTL DEF RemovedStays, Spec

\* UpdateStatus records when an order is closed, and forgets no such time.
THEOREM ClosingIsRecorded == Spec => ClosedOrdersTimed
<1> DEFINE Timed == \A o \in Orders : status[o] \in Closed => o \in completed
           Kept == completed \subseteq completed'
<1>1. IInv => Timed
  BY DEF IInv, Recorded
<1>2. IInv /\ [Next]_vars => [Kept]_vars
  BY DEF Next, DeleteVenue, RequireOwner, Create, Update, Delete, UpdateStatus,
         Completed, Refuse
<1> QED
  BY <1>1, <1>2, Invariance, PTL DEF ClosedOrdersTimed, Spec
=============================================================================
