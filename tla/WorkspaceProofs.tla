-------------------------- MODULE WorkspaceProofs --------------------------
(***************************************************************************)
(* Theorems about Workspace.tla, for any requests, venues and              *)
(* subscription at the start: what the owner's requests, interleaved in    *)
(* any way, keep of the venues, of their plans and of the subscription.    *)
(***************************************************************************)
EXTENDS Workspace, FiniteSetTheorems, TLAPS

\* The statements before which a request holds no lock, and those of
\* UpsertSubscription after its UPDATE.
Unlocked == {"idle", "insertVenue", "patchVenue", "deleteVenue", "savePlan", "countVenues",
             "cancelCurrent", "cancelling", "lockAccount"} \cup Ended

Cancelled == {"insertSubscription", "commitSubscription"}

\* The lock on the users row that a request holds before each statement.
Held(place) ==
  CASE place \in {"updateRole", "commitSubscription"} -> "KS"
    [] place = "commitVenue"                          -> "NKU"
    [] place = "commitAccount"                        -> "FU"
    [] OTHER                                          -> "none"

\* A request that has not ended has made no row yet, saves the plan only for a
\* Save, and holds locks only between the first and the last statement of its
\* transaction.
Phases ==
  \A r \in Reqs :
    /\ pc[r] \notin Ended => venues[r] = "absent" /\ subs[r] = "absent"
    /\ pc[r] = "savePlan" => op[r].kind = "save"
    /\ ulock[r] = Held(pc[r])
    /\ pc[r] \notin Cancelled => cancels[r] = {}

\* What is to be cancelled is current and is one request's business; who is
\* about to commit a subscription has cancelled all others, and is alone.
Exclusive ==
  /\ \A s, t \in Current : s = t
  /\ \A r \in Reqs : cancels[r] \subseteq Current
  /\ \A r, q \in Reqs : r # q => cancels[r] \cap cancels[q] = {}
  /\ \A r \in Reqs : pc[r] = "commitSubscription" =>
       /\ Current \subseteq cancels[r]
       /\ \A q \in Reqs \ {r} : pc[q] # "commitSubscription"

IInv == TypeOK /\ Phases /\ OwnerHasRole /\ Exclusive

\* The types of the tables and of the requests, without the locks.
LEMMA Types ==
  ASSUME TypeOK
  PROVE  /\ venues \in [Venues -> {"absent", "open", "deleted"}]
         /\ settings \in [Venues -> Settings]
         /\ role \in {"customer", "venue_owner"}
         /\ subs \in [Subs -> {"absent", "current", "cancelled"}]
         /\ pc \in [Reqs -> {"idle"} \cup Statements \cup Ended]
         /\ op \in [Reqs -> Requests]
         /\ ulock \in [Reqs -> LockModes]
         /\ todo \in [Reqs -> SUBSET Subs]
         /\ cancels \in [Reqs -> SUBSET Subs]
  BY DEF TypeOK

\* A request for one of the kinds, on a venue or on none.
LEMMA RequestType ==
  ASSUME NEW kind \in {"create", "patch", "delete", "save", "subscribe", "account"},
         NEW venue \in Venues \cup {None}, NEW input \in Settings, NEW plan \in Plans
  PROVE  /\ Request(kind, venue, input, plan) \in Requests
         /\ Request(kind, venue, input, plan).kind = kind
  BY DEF Request, Requests

\* The settings that a form may hold, and what is made of them.
LEMMA SettingsType ==
  /\ Empty \in Settings
  /\ \A r \in Reqs : Forms(r) \subseteq Settings
  /\ \A old \in Settings, r \in Reqs : [old EXCEPT !["other"] = r] \in Settings
  /\ \A old \in Settings, r \in Reqs : [old EXCEPT !["floor_plan"] = r] \in Settings
  /\ \A old, input \in Settings :
       /\ Patched(old, input) \in Settings
       /\ Patched(old, input)["floor_plan"] = old["floor_plan"]
  BY DEF Empty, Forms, Settings, Keys, Patched, Merge

\* The account at the start.
LEMMA InitIInv == Init => IInv
<1> SUFFICES ASSUME Init PROVE IInv
  OBVIOUS
<1>1. Request("none", None, Empty, "pro") \in Requests
  BY SettingsType DEF Request, Requests, Plans
<1>2. TypeOK
  BY <1>1, SettingsType DEF Init, TypeOK, Ended, LockModes
<1>3. Phases
  BY WorkspaceAssumption DEF Init, Phases, Venues, Subs, Cancelled, Held, Ended
<1>4. OwnerHasRole
  BY DEF Init, OwnerHasRole, Venues
<1>5. Exclusive
  BY WorkspaceAssumption DEF Init, Exclusive, Current, Subs
<1> QED
  BY <1>2, <1>3, <1>4, <1>5 DEF IInv

\* A request that arrives, or goes on, and touches neither rows nor locks.
LEMMA QuietStep ==
  ASSUME IInv, NEW r \in Reqs, NEW place, Goto(r, place),
         UNCHANGED <<db, ulock, cancels>>,
         op' \in [Reqs -> Requests], todo' \in [Reqs -> SUBSET Subs],
         \A q \in Reqs \ {r} : op'[q] = op[q],
         pc[r] \in {"idle", "countVenues", "cancelCurrent"},
         place \in Unlocked \ {"idle"},
         place = "savePlan" => op'[r].kind = "save"
  PROVE  IInv'
<1> USE DEF IInv, db
<1>1. /\ pc' = [pc EXCEPT ![r] = place]
      /\ place \in {"idle"} \cup Statements \cup Ended
      /\ ulock[r] = "none" /\ cancels[r] = {}
  BY DEF Goto, Unlocked, Statements, Phases, Cancelled, Held
<1>2. TypeOK'
  <2>1. pc' \in [Reqs -> {"idle"} \cup Statements \cup Ended]
    BY <1>1, Types
  <2>2. \A q \in Reqs : pc'[q] \in Ended => ulock[q] = "none" /\ cancels[q] = {}
    BY <1>1 DEF TypeOK
  <2> QED
    BY <2>1, <2>2 DEF TypeOK
<1>3. Phases'
  BY <1>1, Types DEF Phases, Unlocked, Cancelled, Ended, Held
<1>4. OwnerHasRole'
  BY DEF OwnerHasRole
<1>5. Exclusive'
  BY <1>1, Types DEF Exclusive, Current, Unlocked, Ended
<1> QED
  BY <1>2, <1>3, <1>4, <1>5

\* A request that locks the users row.
LEMMA LockStep ==
  ASSUME IInv, NEW r \in Reqs, NEW place,
         Lock(r), Goto(r, place), UNCHANGED <<db, op, todo, cancels>>,
         \/ pc[r] = "insertVenue" /\ place = "updateRole"
         \/ pc[r] = "updateRole" /\ place = "commitVenue"
         \/ pc[r] = "lockAccount" /\ place = "commitAccount"
  PROVE  IInv'
<1> USE DEF IInv, db
<1>1. /\ pc' = [pc EXCEPT ![r] = place]
      /\ ulock' = [ulock EXCEPT ![r] = Held(place)]
      /\ Held(place) \in LockModes
  BY DEF Goto, Lock, Wanted, Held, LockModes
<1>2. TypeOK'
  <2>1. pc' \in [Reqs -> {"idle"} \cup Statements \cup Ended]
    BY <1>1, Types DEF Statements
  <2>2. ulock' \in [Reqs -> LockModes]
    BY <1>1, Types
  <2>3. \A q \in Reqs : pc'[q] \in Ended => ulock'[q] = "none" /\ cancels[q] = {}
    BY <1>1, Types DEF TypeOK, Ended
  <2> QED
    BY <2>1, <2>2, <2>3 DEF TypeOK
<1>3. Phases'
  BY <1>1, Types DEF Phases, Unlocked, Cancelled, Ended, Held
<1>4. OwnerHasRole'
  BY DEF OwnerHasRole
<1>5. Exclusive'
  BY <1>1, Types DEF Exclusive, Current
<1> QED
  BY <1>2, <1>3, <1>4, <1>5

\* What Release does, and that an ended request may hold nothing else.
LEMMA ReleaseType ==
  ASSUME TypeOK, NEW r \in Reqs, NEW place \in Ended, Release(r), Goto(r, place)
  PROVE  /\ pc' \in [Reqs -> {"idle"} \cup Statements \cup Ended]
         /\ ulock' \in [Reqs -> LockModes]
         /\ todo' \in [Reqs -> SUBSET Subs]
         /\ cancels' \in [Reqs -> SUBSET Subs]
         /\ \A q \in Reqs : pc'[q] \in Ended => ulock'[q] = "none" /\ cancels'[q] = {}
         /\ pc'[r] = place /\ ulock'[r] = "none" /\ cancels'[r] = {}
         /\ \A q \in Reqs \ {r} :
              pc'[q] = pc[q] /\ ulock'[q] = ulock[q] /\ cancels'[q] = cancels[q]
<1>1. /\ pc' = [pc EXCEPT ![r] = place]
      /\ ulock' = [ulock EXCEPT ![r] = "none"]
      /\ todo' = [todo EXCEPT ![r] = {}]
      /\ cancels' = [cancels EXCEPT ![r] = {}]
  BY DEF Release, Goto
<1>2. pc' \in [Reqs -> {"idle"} \cup Statements \cup Ended]
  BY <1>1, Types
<1>3. /\ ulock' \in [Reqs -> LockModes]
      /\ todo' \in [Reqs -> SUBSET Subs]
      /\ cancels' \in [Reqs -> SUBSET Subs]
  BY <1>1, Types DEF LockModes
<1>4. /\ pc'[r] = place /\ ulock'[r] = "none" /\ cancels'[r] = {}
      /\ \A q \in Reqs \ {r} :
           pc'[q] = pc[q] /\ ulock'[q] = ulock[q] /\ cancels'[q] = cancels[q]
  BY <1>1, Types
<1>5. \A q \in Reqs : pc'[q] \in Ended => ulock'[q] = "none" /\ cancels'[q] = {}
  BY <1>4 DEF TypeOK
<1> QED
  BY <1>2, <1>3, <1>4, <1>5

\* A transaction that is rolled back, or has nothing to write.
LEMMA EndStep ==
  ASSUME IInv, NEW r \in Reqs, NEW place \in Ended, Release(r), Goto(r, place),
         UNCHANGED <<db, op>>
  PROVE  IInv'
<1> USE DEF IInv, db
<1>1. TypeOK'
  BY ReleaseType DEF TypeOK
<1>2. Phases'
  BY ReleaseType DEF Phases, Ended, Cancelled, Held
<1>3. OwnerHasRole'
  BY DEF OwnerHasRole
<1>4. Exclusive'
  <2>1. \A q \in Reqs : cancels'[q] \subseteq cancels[q]
    BY ReleaseType
  <2>2. \A q \in Reqs : pc'[q] = "commitSubscription" =>
          pc[q] = "commitSubscription" /\ cancels'[q] = cancels[q]
    BY ReleaseType DEF Ended
  <2> QED
    BY <2>1, <2>2 DEF Exclusive, Current
<1> QED
  BY <1>1, <1>2, <1>3, <1>4

\* One statement on a venue that exists.
LEMMA VenueStep ==
  ASSUME IInv, NEW r \in Reqs, NEW place \in Ended, Goto(r, place),
         pc[r] \in {"patchVenue", "deleteVenue", "savePlan"},
         venues' \in [Venues -> {"absent", "open", "deleted"}],
         settings' \in [Venues -> Settings],
         \A v \in Venues : venues'[v] = "absent" <=> venues[v] = "absent",
         UNCHANGED <<role, subs, op, locks>>
  PROVE  IInv'
<1> USE DEF IInv, locks
<1>1. /\ pc' = [pc EXCEPT ![r] = place]
      /\ ulock[r] = "none" /\ cancels[r] = {}
  BY DEF Goto, Phases, Cancelled, Held
<1>2. TypeOK'
  <2>1. pc' \in [Reqs -> {"idle"} \cup Statements \cup Ended]
    BY <1>1, Types
  <2>2. \A q \in Reqs : pc'[q] \in Ended => ulock[q] = "none" /\ cancels[q] = {}
    BY <1>1 DEF TypeOK
  <2> QED
    BY <2>1, <2>2 DEF TypeOK
<1>3. Phases'
  BY <1>1, Types DEF Phases, Cancelled, Ended, Held, Venues
<1>4. OwnerHasRole'
  BY DEF OwnerHasRole
<1>5. Exclusive'
  BY <1>1, Types DEF Exclusive, Current, Ended
<1> QED
  BY <1>2, <1>3, <1>4, <1>5

\* Create commits the venue together with the role of its owner.
LEMMA CommitVenueStep ==
  ASSUME IInv, NEW r \in Reqs, CommitVenue(r)
  PROVE  IInv'
<1> USE DEF IInv
<1>1. /\ pc[r] = "commitVenue" /\ Release(r) /\ Goto(r, "answered")
      /\ venues' = [venues EXCEPT ![r] = "open"]
      /\ settings' = [settings EXCEPT ![r] = op[r].input]
      /\ role' = "venue_owner" /\ subs' = subs /\ op' = op
  BY DEF CommitVenue
<1>2. "answered" \in Ended
  BY DEF Ended
<1>3. TypeOK'
  <2>1. settings' \in [Venues -> Settings]
    BY <1>1, Types DEF Requests
  <2>2. venues' \in [Venues -> {"absent", "open", "deleted"}]
    BY <1>1, Types
  <2> QED
    BY <1>1, <1>2, <2>1, <2>2, ReleaseType DEF TypeOK
<1>4. Phases'
  <2>1. \A q \in Reqs \ {r} : venues'[q] = venues[q]
    BY <1>1, Types DEF Venues
  <2> QED
    BY <1>1, <1>2, <2>1, ReleaseType DEF Phases, Ended, Cancelled, Held
<1>5. OwnerHasRole'
  BY <1>1 DEF OwnerHasRole
<1>6. Exclusive'
  <2>1. cancels' = cancels
    <3>1. cancels[r] = {} /\ cancels' = [cancels EXCEPT ![r] = {}]
      BY <1>1 DEF Phases, Cancelled, Release
    <3> QED
      BY <3>1, Types
  <2>2. \A q \in Reqs : pc'[q] = "commitSubscription" => pc[q] = "commitSubscription"
    BY <1>1, <1>2, ReleaseType
  <2> QED
    BY <1>1, <2>1, <2>2 DEF Exclusive, Current
<1> QED
  BY <1>3, <1>4, <1>5, <1>6

\* The UPDATE takes the rows it saw that are still current, and that nobody
\* else is cancelling.
LEMMA CancelStep ==
  ASSUME IInv, NEW r \in Reqs, Cancel(r)
  PROVE  IInv'
<1> USE DEF IInv
<1>1. /\ pc[r] = "cancelling" /\ pc' = [pc EXCEPT ![r] = "insertSubscription"]
      /\ \A q \in Reqs \ {r} : todo[r] \cap cancels[q] = {}
      /\ cancels' = [cancels EXCEPT ![r] = todo[r] \cap Current]
      /\ UNCHANGED <<db, op, ulock, todo>>
  BY DEF Cancel, Goto, Free, WaitsFor
<1>2. TypeOK'
  <2>1. pc' \in [Reqs -> {"idle"} \cup Statements \cup Ended]
    BY <1>1, Types DEF Statements
  <2>2. cancels' \in [Reqs -> SUBSET Subs]
    BY <1>1, Types
  <2>3. \A q \in Reqs : pc'[q] \in Ended => ulock[q] = "none" /\ cancels'[q] = {}
    BY <1>1, Types DEF TypeOK, Ended
  <2> QED
    BY <1>1, <2>1, <2>2, <2>3 DEF TypeOK, db
<1>3. Phases'
  BY <1>1, Types DEF Phases, Cancelled, Ended, Held, db
<1>4. OwnerHasRole'
  BY <1>1 DEF OwnerHasRole, db
<1>5. Exclusive'
  <2>1. cancels'[r] = todo[r] \cap Current /\ \A q \in Reqs \ {r} : cancels'[q] = cancels[q]
    BY <1>1, Types
  <2>2. \A q, t \in Reqs : q # t => cancels'[q] \cap cancels'[t] = {}
    BY <1>1, <2>1 DEF Exclusive
  <2>3. \A q \in Reqs : pc'[q] = "commitSubscription" <=> pc[q] = "commitSubscription"
    BY <1>1, Types
  <2>4. Current' = Current
    BY <1>1 DEF Current, db
  <2> QED
    BY <1>1, <2>1, <2>2, <2>3, <2>4 DEF Exclusive
<1> QED
  BY <1>2, <1>3, <1>4, <1>5

\* The index lets in a subscription only when every other is being cancelled
\* by the same transaction, and no other is on its way in.
LEMMA InsertSubscriptionStep ==
  ASSUME IInv, NEW r \in Reqs, InsertSubscription(r)
  PROVE  IInv'
<1> USE DEF IInv
<1>1. CASE Release(r) /\ Goto(r, "refused") /\ UNCHANGED <<db, op>>
  BY <1>1, EndStep DEF Ended
<1>2. CASE /\ Current \subseteq cancels[r] /\ Lock(r)
           /\ Goto(r, "commitSubscription") /\ UNCHANGED <<db, op, todo, cancels>>
  <2>1. /\ pc[r] = "insertSubscription" /\ pc' = [pc EXCEPT ![r] = "commitSubscription"]
        /\ ulock' = [ulock EXCEPT ![r] = "KS"]
        /\ \A q \in Reqs \ {r} : pc[q] # "commitSubscription"
    BY <1>2 DEF InsertSubscription, Goto, Lock, Free, WaitsFor, Wanted
  <2>2. TypeOK'
    <3>1. pc' \in [Reqs -> {"idle"} \cup Statements \cup Ended]
      BY <2>1, Types DEF Statements
    <3>2. ulock' \in [Reqs -> LockModes]
      BY <2>1, Types DEF LockModes
    <3>3. \A q \in Reqs : pc'[q] \in Ended => ulock'[q] = "none" /\ cancels[q] = {}
      BY <2>1, Types DEF TypeOK, Ended
    <3> QED
      BY <1>2, <3>1, <3>2, <3>3 DEF TypeOK, db
  <2>3. Phases'
    BY <1>2, <2>1, Types DEF Phases, Cancelled, Ended, Held, db
  <2>4. OwnerHasRole'
    BY <1>2 DEF OwnerHasRole, db
  <2>5. Exclusive'
    BY <1>2, <2>1, Types DEF Exclusive, Current, db
  <2> QED
    BY <2>2, <2>3, <2>4, <2>5
<1> QED
  BY <1>1, <1>2 DEF InsertSubscription

\* From then on the new subscription is the only current one.
LEMMA CommitSubscriptionStep ==
  ASSUME IInv, NEW r \in Reqs, CommitSubscription(r)
  PROVE  IInv' /\ Current' = {r}
<1> USE DEF IInv
<1>1. /\ pc[r] = "commitSubscription" /\ Release(r) /\ Goto(r, "answered")
      /\ subs' = [s \in Subs |-> IF s = r THEN "current"
                                  ELSE IF s \in cancels[r] THEN "cancelled" ELSE subs[s]]
      /\ UNCHANGED <<venues, settings, role, op>>
  BY DEF CommitSubscription
<1>2. "answered" \in Ended /\ r \in Subs
  BY DEF Ended, Subs
<1>3. Current' = {r}
  BY <1>1, <1>2 DEF Current, Exclusive
<1>4. TypeOK'
  <2>1. subs' \in [Subs -> {"absent", "current", "cancelled"}]
    BY <1>1, Types
  <2> QED
    BY <1>1, <1>2, <2>1, ReleaseType DEF TypeOK
<1>5. \A q \in Reqs \ {r} : cancels[q] = {}
  BY <1>1 DEF Exclusive
<1>6. Phases'
  <2>1. \A q \in Reqs \ {r} : subs[q] = "absent" => subs'[q] = "absent"
    BY <1>1 DEF Exclusive, Current, Subs
  <2> QED
    BY <1>1, <1>2, <2>1, ReleaseType DEF Phases, Ended, Cancelled, Held
<1>7. OwnerHasRole'
  BY <1>1 DEF OwnerHasRole
<1>8. Exclusive'
  <2>1. \A q \in Reqs : cancels'[q] = {} /\ pc'[q] # "commitSubscription"
    BY <1>1, <1>2, <1>5, ReleaseType DEF Exclusive, Ended
  <2> QED
    BY <1>3, <2>1 DEF Exclusive
<1> QED
  BY <1>3, <1>4, <1>6, <1>7, <1>8

\* The inductive step, one case per operation.
LEMMA StepIInv == IInv /\ [Next]_vars => IInv'
<1> SUFFICES ASSUME IInv, [Next]_vars PROVE IInv'
  OBVIOUS
<1> USE DEF IInv
<1>1. CASE UNCHANGED vars
  BY <1>1 DEF vars, db, locks, TypeOK, Phases, OwnerHasRole, Exclusive, Current
<1>2. ASSUME NEW r \in Reqs, NEW request \in Requests, NEW place,
             Arrive(r, request, place), place \in Unlocked \ {"idle"},
             place = "savePlan" => request.kind = "save"
      PROVE  IInv'
  <2>1. op' = [op EXCEPT ![r] = request]
    BY <1>2 DEF Arrive
  <2>2. /\ op' \in [Reqs -> Requests] /\ op'[r] = request
        /\ \A q \in Reqs \ {r} : op'[q] = op[q]
    BY <2>1, Types
  <2>3. todo' \in [Reqs -> SUBSET Subs]
    BY <1>2, Types DEF Arrive, locks
  <2>4. pc[r] = "idle" /\ Goto(r, place) /\ UNCHANGED <<db, ulock, cancels>>
    BY <1>2 DEF Arrive, locks
  <2> QED
    BY <1>2, <2>2, <2>3, <2>4, QuietStep
<1>3. ASSUME NEW r \in Reqs, StartCreate(r) PROVE IInv'
  <2>1. PICK input \in Settings : Arrive(r, Request("create", r, input, "pro"), "insertVenue")
    BY <1>3, SettingsType DEF StartCreate
  <2> QED
    BY <1>2, <2>1, RequestType DEF Unlocked, Plans, Venues
<1>4. ASSUME NEW r \in Reqs, StartPatch(r) PROVE IInv'
  <2>1. PICK v \in Open :
          \E input \in Forms(r) \cup {[settings[v] EXCEPT !["other"] = r]} :
            Arrive(r, Request("patch", v, input, "pro"), "patchVenue")
    BY <1>4 DEF StartPatch
  <2>2. PICK input \in Settings : Arrive(r, Request("patch", v, input, "pro"), "patchVenue")
    BY <2>1, SettingsType, Types DEF Open
  <2> QED
    BY <1>2, <2>2, RequestType DEF Unlocked, Plans, Open
<1>5. ASSUME NEW r \in Reqs, StartDelete(r) PROVE IInv'
  BY <1>2, <1>5, RequestType, SettingsType DEF StartDelete, Open, Unlocked, Plans
<1>6. ASSUME NEW r \in Reqs, StartSave(r) PROVE IInv'
  <2>1. PICK v \in Venues, place \in {"savePlan", "refused"} :
          Arrive(r, Request("save", v, Empty, "pro"), place)
    BY <1>6 DEF StartSave
  <2>2. place \in Unlocked \ {"idle"}
    BY <2>1 DEF Unlocked, Ended
  <2> QED
    BY <1>2, <2>1, <2>2, RequestType, SettingsType DEF Plans
<1>7. ASSUME NEW r \in Reqs, StartSubscribe(r) \/ StartAccount(r) PROVE IInv'
  BY <1>2, <1>7, RequestType, SettingsType DEF StartSubscribe, StartAccount, Unlocked, Plans
<1>8. ASSUME NEW r \in Reqs, InsertVenue(r) \/ UpdateRole(r) \/ LockAccount(r) PROVE IInv'
  BY <1>8, LockStep DEF InsertVenue, UpdateRole, LockAccount
<1>9. ASSUME NEW r \in Reqs, PatchVenue(r) PROVE IInv'
  <2>1. settings' \in [Venues -> Settings]
    <3>1. \A v \in Venues : Patched(settings[v], op[r].input) \in Settings
      BY Types, SettingsType DEF Requests
    <3>2. CASE op[r].venue \in Open
      <4>1. /\ settings' = [settings EXCEPT ![op[r].venue] =
                              Patched(settings[op[r].venue], op[r].input)]
            /\ op[r].venue \in Venues
        BY <1>9, <3>2 DEF PatchVenue, Open
      <4> QED
        BY <3>1, <4>1, Types
    <3>3. CASE op[r].venue \notin Open
      BY <1>9, <3>3, Types DEF PatchVenue
    <3> QED
      BY <3>2, <3>3
  <2> QED
    BY <1>9, <2>1, VenueStep, Types DEF PatchVenue, Ended
<1>10. ASSUME NEW r \in Reqs, DeleteVenue(r) PROVE IInv'
  <2>1. /\ venues' \in [Venues -> {"absent", "open", "deleted"}]
        /\ \A v \in Venues : venues'[v] = "absent" <=> venues[v] = "absent"
    <3>1. CASE op[r].venue \in Open
      <4>1. /\ venues' = [venues EXCEPT ![op[r].venue] = "deleted"]
            /\ op[r].venue \in Venues /\ venues[op[r].venue] = "open"
        BY <1>10, <3>1 DEF DeleteVenue, Open
      <4> QED
        BY <4>1, Types
    <3>2. CASE op[r].venue \notin Open
      BY <1>10, <3>2, Types DEF DeleteVenue
    <3> QED
      BY <3>1, <3>2
  <2> QED
    BY <1>10, <2>1, VenueStep, Types DEF DeleteVenue, Ended
<1>11. ASSUME NEW r \in Reqs, SavePlan(r) PROVE IInv'
  <2>1. settings' \in [Venues -> Settings]
    BY <1>11, Types, SettingsType DEF SavePlan, Open
  <2> QED
    BY <1>11, <2>1, VenueStep, Types DEF SavePlan, Ended
<1>12. ASSUME NEW r \in Reqs, CountVenues(r) \/ BeginCancel(r) PROVE IInv'
  <2>1. op' = op /\ UNCHANGED <<db, ulock, cancels>>
    BY <1>12 DEF CountVenues, BeginCancel, locks
  <2>2. todo' \in [Reqs -> SUBSET Subs]
    BY <1>12, Types DEF CountVenues, BeginCancel, locks, Current
  <2>3. PICK place \in {"cancelCurrent", "refused", "cancelling"} : Goto(r, place)
    BY <1>12 DEF CountVenues, BeginCancel
  <2>4. place \in Unlocked \ {"idle"} /\ place # "savePlan"
    BY <2>3 DEF Unlocked, Ended
  <2> QED
    BY <1>12, <2>1, <2>2, <2>3, <2>4, QuietStep, Types DEF CountVenues, BeginCancel
<1>13. ASSUME NEW r \in Reqs, Cancel(r) \/ InsertSubscription(r) PROVE IInv'
  BY <1>13, CancelStep, InsertSubscriptionStep
<1>14. ASSUME NEW r \in Reqs, CommitVenue(r) \/ CommitSubscription(r) PROVE IInv'
  BY <1>14, CommitVenueStep, CommitSubscriptionStep
<1>15. ASSUME NEW r \in Reqs, CommitAccount(r) \/ Fail(r) PROVE IInv'
  BY <1>15, EndStep DEF CommitAccount, Fail, Ended
<1> QED
  BY <1>1, <1>3, <1>4, <1>5, <1>6, <1>7, <1>8, <1>9, <1>10, <1>11, <1>12, <1>13, <1>14,
     <1>15 DEF Next, Start, Step

\* The invariant that the owner's requests maintain.
THEOREM Invariance == Spec => []IInv
  BY InitIInv, StepIInv, PTL DEF Spec

\* The type invariant; no request keeps a lock after it has ended.
THEOREM TypeCorrect == Spec => []TypeOK
<1>1. IInv => TypeOK
  BY DEF IInv
<1> QED
  BY <1>1, Invariance, PTL

\* Create makes the owner of a venue a venue_owner, or makes no venue.
THEOREM RoleWithVenue == Spec => []OwnerHasRole
<1>1. IInv => OwnerHasRole
  BY DEF IInv
<1> QED
  BY <1>1, Invariance, PTL

\* How much a request may have to wait for: one about to commit for nothing;
\* one that updates the role, or holds what it cancels, only for those; an
\* upsert with nothing to cancel for the others too; and who holds nothing, for
\* anybody who does.
Rank(r) ==
  CASE pc[r] \in {"commitVenue", "commitSubscription", "commitAccount"} -> 0
    [] pc[r] = "updateRole" -> 1
    [] pc[r] = "insertSubscription" -> IF cancels[r] # {} THEN 1 ELSE 2
    [] OTHER -> 3

\* A request waits only for requests of a lower rank.
LEMMA Descends ==
  ASSUME IInv, NEW r \in Reqs, NEW q \in Reqs, WaitsFor(r, q)
  PROVE  Rank(q) < Rank(r)
<1> USE DEF IInv
<1>1. /\ ulock[q] = Held(pc[q])
      /\ cancels[q] # {} => pc[q] \in Cancelled
  BY DEF Phases
<1>2. CASE Conflict(Wanted(r), ulock[q])
  <2>1. \/ Wanted(r) = "KS" /\ Rank(r) >= 1
        \/ Wanted(r) = "NKU" /\ Rank(r) = 1
        \/ Wanted(r) = "FU" /\ Rank(r) = 3
        \/ Wanted(r) = "none"
    BY DEF Wanted, Rank
  <2>2. /\ ulock[q] \in {"NKU", "FU"} => Rank(q) = 0
        /\ ulock[q] \in {"none", "KS", "NKU", "FU"}
        /\ ulock[q] # "none" => Rank(q) < 3
    BY <1>1 DEF Held, Rank
  <2>3. Rank(r) \in 0..3 /\ Rank(q) \in 0..3
    BY DEF Rank
  <2>4. CASE Wanted(r) \in {"KS", "NKU"}
    BY <1>2, <2>1, <2>2, <2>3, <2>4 DEF Conflict
  <2>5. CASE Wanted(r) = "FU"
    BY <1>2, <2>1, <2>2, <2>3, <2>5 DEF Conflict
  <2>6. Wanted(r) # "none"
    BY <1>2, <2>2 DEF Conflict
  <2> QED
    BY <2>1, <2>4, <2>5, <2>6
<1>3. CASE pc[r] = "cancelling" /\ todo[r] \cap cancels[q] # {}
  BY <1>1, <1>3 DEF Rank, Cancelled
<1>4. CASE pc[r] = "insertSubscription" /\ pc[q] = "commitSubscription"
  BY <1>4 DEF Rank
<1>5. CASE pc[r] = "insertSubscription" /\ cancels[q] \cap Current # {}
  <2>1. cancels[r] = {}
    BY <1>5 DEF WaitsFor, Exclusive
  <2> QED
    BY <1>1, <1>5, <2>1 DEF Rank, Cancelled
<1> QED
  BY <1>2, <1>3, <1>4, <1>5 DEF WaitsFor

\* Requests never wait for each other in a circle: of any of them, one of the
\* least rank waits for none of the others.
THEOREM NeverDeadlocked == Spec => []NoDeadlock
<1>1. IInv => NoDeadlock
  <2> SUFFICES ASSUME IInv, NEW C \in SUBSET Reqs, C # {}
               PROVE  \E r \in C : \A q \in C : ~WaitsFor(r, q)
    BY DEF NoDeadlock
  <2>1. \A r \in C : Rank(r) \in 0..3
    BY DEF Rank
  <2>2. PICK r \in C : \A q \in C : Rank(r) <= Rank(q)
    <3>1. CASE \E r \in C : Rank(r) = 0
      BY <2>1, <3>1
    <3>2. CASE \A r \in C : Rank(r) >= 1
      <4>1. CASE \E r \in C : Rank(r) = 1
        BY <2>1, <3>2, <4>1
      <4>2. CASE \A r \in C : Rank(r) >= 2
        BY <2>1, <4>2
      <4> QED
        BY <2>1, <3>2, <4>1, <4>2
    <3> QED
      BY <2>1, <3>1, <3>2
  <2> QED
    BY <2>1, <2>2, Descends
<1> QED
  BY <1>1, Invariance, PTL

\* Which actions write each table, and where.
LEMMA Writers ==
  ASSUME IInv, Next
  PROVE  /\ venues' # venues => \E r \in Reqs : CommitVenue(r) \/ DeleteVenue(r)
         /\ settings' # settings => \E r \in Reqs : CommitVenue(r) \/ PatchVenue(r) \/ SavePlan(r)
         /\ subs' # subs => \E r \in Reqs : CommitSubscription(r)
BY DEF Next, Start, Step, StartCreate, StartPatch, StartDelete, StartSave, StartSubscribe,
       StartAccount, Arrive, InsertVenue, UpdateRole, CommitVenue, PatchVenue, DeleteVenue,
       SavePlan, CountVenues, BeginCancel, Cancel, InsertSubscription, CommitSubscription,
       LockAccount, CommitAccount, Fail, db, locks

\* A venue that is there is not written by the Create of another.
LEMMA CreatedOnce ==
  ASSUME IInv, NEW r \in Reqs, CommitVenue(r)
  PROVE  /\ venues[r] = "absent"
         /\ \A v \in Venues \ {r} : venues'[v] = venues[v] /\ settings'[v] = settings[v]
<1>1. venues[r] = "absent"
  BY DEF CommitVenue, IInv, Phases, Ended
<1> QED
  BY <1>1, Types DEF CommitVenue, IInv

\* Update, Delete and Save look at deleted_at in the statement that writes.
THEOREM DeletionIsFinal == Spec => DeletedVenueStays
<1> DEFINE Stays == \A v \in Venues : venues[v] = "deleted" =>
                      venues'[v] = "deleted" /\ settings'[v] = settings[v]
<1>1. IInv /\ [Next]_vars => [Stays]_vars
  <2> SUFFICES ASSUME IInv, Next, NEW v \in Venues, venues[v] = "deleted"
               PROVE  venues'[v] = "deleted" /\ settings'[v] = settings[v]
    BY DEF vars
  <2>1. ASSUME NEW r \in Reqs, CommitVenue(r)
        PROVE  venues'[v] = "deleted" /\ settings'[v] = settings[v]
    BY <2>1, CreatedOnce
  <2>2. ASSUME NEW r \in Reqs, DeleteVenue(r) PROVE venues'[v] = "deleted"
    BY <2>2, Types DEF DeleteVenue, IInv
  <2>3. ASSUME NEW r \in Reqs, PatchVenue(r) \/ SavePlan(r) PROVE settings'[v] = settings[v]
    BY <2>3, Types DEF PatchVenue, SavePlan, Open, IInv
  <2> QED
    BY <2>1, <2>2, <2>3, Writers
<1> QED
  BY <1>1, Invariance, PTL DEF DeletedVenueStays, Spec

\* A form of the settings never brings back the plan it was filled with.
THEOREM PlanIsSaved == Spec => PlanChangedBySave
<1> DEFINE Saved ==
      \A v \in Venues :
        (venues[v] # "absent" /\ settings'[v]["floor_plan"] # settings[v]["floor_plan"])
          => \E r \in Reqs : op[r].venue = v /\ Answers(r, "save")
<1>1. IInv /\ [Next]_vars => [Saved]_vars
  <2> SUFFICES ASSUME IInv, Next, NEW v \in Venues, venues[v] # "absent",
                      settings'[v]["floor_plan"] # settings[v]["floor_plan"]
               PROVE  \E r \in Reqs : op[r].venue = v /\ Answers(r, "save")
    BY DEF vars
  <2>1. ASSUME NEW r \in Reqs, CommitVenue(r) PROVE FALSE
    BY <2>1, CreatedOnce
  <2>2. ASSUME NEW r \in Reqs, PatchVenue(r) PROVE FALSE
    <3>1. settings'[v] = settings[v] \/ settings'[v] = Patched(settings[v], op[r].input)
      BY <2>2, Types DEF PatchVenue, IInv
    <3> QED
      BY <3>1, SettingsType, Types DEF IInv, Requests
  <2>3. ASSUME NEW r \in Reqs, SavePlan(r)
        PROVE  op[r].venue = v /\ Answers(r, "save")
    <3>1. /\ settings' = [settings EXCEPT ![op[r].venue]["floor_plan"] = r]
          /\ pc[r] = "savePlan" /\ pc' = [pc EXCEPT ![r] = "answered"]
      BY <2>3 DEF SavePlan, Goto
    <3>2. op[r].venue = v
      BY <3>1, Types DEF IInv
    <3> QED
      BY <3>1, <3>2, Types DEF IInv, Phases, Answers
  <2> QED
    BY <2>1, <2>2, <2>3, Writers
<1> QED
  BY <1>1, Invariance, PTL DEF PlanChangedBySave, Spec

\* UpsertSubscription replaces the current subscription as a whole.
THEOREM OneCurrent == Spec => OneSubscription
<1> DEFINE One == Current # {} => Cardinality(Current') = 1
<1>1. IInv /\ [Next]_vars => [One]_vars
  <2> SUFFICES ASSUME IInv, Next, Current # {} PROVE Cardinality(Current') = 1
    BY DEF vars
  <2>1. PICK s \in Current : TRUE
    OBVIOUS
  <2>2. Current = {s}
    BY <2>1 DEF IInv, Exclusive
  <2>3. Current' = Current \/ \E r \in Reqs : Current' = {r}
    BY Writers, CommitSubscriptionStep DEF Current
  <2> QED
    BY <2>2, <2>3, FS_Singleton
<1> QED
  BY <1>1, Invariance, PTL DEF OneSubscription, Spec
-----------------------------------------------------------------------------
(* The business of atomic operations                                        *)

\* What the owner has at the start.
LEMMA BooksInit == Init => Books!Init
<1> SUFFICES ASSUME Init PROVE Books!Init
  OBVIOUS
<1>1. Open = InitVenues /\ {v \in Venues : venues[v] = "deleted"} = {}
  BY WorkspaceAssumption DEF Init, Open, Venues
<1>2. Current = InitSubs /\ {s \in Subs : subs[s] = "cancelled"} = {}
  BY WorkspaceAssumption DEF Init, Current, Subs
<1>3. /\ [v \in Venues |-> settings[v]["floor_plan"]] = [v \in Venues |-> None]
      /\ [v \in Venues |-> settings[v]["other"]] = [v \in Venues |-> None]
  BY DEF Init, Empty, Keys
<1>4. (role = "venue_owner") = (InitVenues # {})
  BY DEF Init
<1> QED
  BY <1>1, <1>2, <1>3, <1>4 DEF Books!Init

\* What the owner does not see.
LEMMA Unseen == UNCHANGED db => UNCHANGED Books!books
  BY DEF db, Books!books, Open, Current

\* The COMMIT of a Create opens its venue.
LEMMA OpenStep ==
  ASSUME IInv, NEW r \in Reqs, CommitVenue(r)
  PROVE  Books!Next
<1> PICK p, x \in Reqs \cup {None} :
      p = op[r].input["floor_plan"] /\ x = op[r].input["other"]
  BY Types DEF IInv, Requests, Settings, Keys
<1>1. /\ venues' = [venues EXCEPT ![r] = "open"]
      /\ settings' = [settings EXCEPT ![r] = op[r].input]
      /\ role' = "venue_owner" /\ subs' = subs
  BY DEF CommitVenue
<1>2. r \in Venues /\ venues[r] = "absent"
  BY CreatedOnce DEF Venues
<1>3. /\ venues \in [Venues -> {"absent", "open", "deleted"}]
      /\ settings \in [Venues -> Settings]
  BY Types DEF IInv
<1>4. r \notin Open \cup {v \in Venues : venues[v] = "deleted"}
  BY <1>2 DEF Open
<1>5. Open' = Open \cup {r}
  BY <1>1, <1>2, <1>3 DEF Open
<1>6. {v \in Venues : venues[v] = "deleted"}' = {v \in Venues : venues[v] = "deleted"}
  BY <1>1, <1>2, <1>3
<1>7. [v \in Venues |-> settings[v]["floor_plan"]]'
        = [[v \in Venues |-> settings[v]["floor_plan"]] EXCEPT ![r] = p]
  BY <1>1, <1>2, <1>3
<1>8. [v \in Venues |-> settings[v]["other"]]'
        = [[v \in Venues |-> settings[v]["other"]] EXCEPT ![r] = x]
  BY <1>1, <1>2, <1>3
<1>9. Current' = Current /\ {s \in Subs : subs[s] = "cancelled"}' = {s \in Subs : subs[s] = "cancelled"}
  BY <1>1 DEF Current
<1>10. (role = "venue_owner")' = TRUE
  BY <1>1
<1>11. Books!OpenVenue(r, p, x)
  BY <1>4, <1>5, <1>6, <1>7, <1>8, <1>9, <1>10 DEF Books!OpenVenue
<1> QED
  BY <1>2, <1>11 DEF Books!Next

\* A PATCH changes the profile, a Save the plan, each of an open venue.
LEMMA SettingsStep ==
  ASSUME IInv, NEW r \in Reqs, PatchVenue(r) \/ SavePlan(r)
  PROVE  [Books!Next]_(Books!books)
<1>0. /\ settings \in [Venues -> Settings]
      /\ op[r].input \in Settings
      /\ UNCHANGED <<venues, role, subs>>
  BY Types DEF IInv, Requests, PatchVenue, SavePlan
<1>1. CASE settings' = settings
  BY <1>0, <1>1, Unseen DEF db
<1> PICK v : v = op[r].venue
  OBVIOUS
<1>2. /\ Open' = Open /\ Open \subseteq Venues
      /\ {w \in Venues : venues[w] = "deleted"}' = {w \in Venues : venues[w] = "deleted"}
      /\ Current' = Current
      /\ {s \in Subs : subs[s] = "cancelled"}' = {s \in Subs : subs[s] = "cancelled"}
      /\ (role = "venue_owner")' = (role = "venue_owner")
  BY <1>0 DEF Open, Current
<1>3. CASE v \in Open /\ settings' = [settings EXCEPT ![v] = Patched(settings[v], op[r].input)]
  <2>1. settings[v] \in Settings
    BY <1>0, <1>2, <1>3
  <2>2. /\ Patched(settings[v], op[r].input)["floor_plan"] = settings[v]["floor_plan"]
        /\ Patched(settings[v], op[r].input)["other"]
             = IF op[r].input["other"] # None THEN op[r].input["other"] ELSE settings[v]["other"]
    BY <1>0, <2>1, SettingsType DEF Patched, Merge, Settings, Keys
  <2>3. [w \in Venues |-> settings[w]["floor_plan"]]' = [w \in Venues |-> settings[w]["floor_plan"]]
    BY <1>0, <1>3, <2>2
  <2>4. CASE op[r].input["other"] = None
    <3>1. [w \in Venues |-> settings[w]["other"]]' = [w \in Venues |-> settings[w]["other"]]
      BY <1>0, <1>3, <2>2, <2>4
    <3> QED
      BY <1>2, <2>3, <3>1 DEF Books!books
  <2>5. CASE op[r].input["other"] # None
    <3> PICK x \in Reqs : x = op[r].input["other"]
      BY <1>0, <2>5 DEF Settings, Keys
    <3>1. [w \in Venues |-> settings[w]["other"]]'
            = [[w \in Venues |-> settings[w]["other"]] EXCEPT ![v] = x]
      BY <1>0, <1>2, <1>3, <2>2, <2>5
    <3>2. Books!ChangeProfile(v, x)
      BY <1>2, <1>3, <2>3, <3>1 DEF Books!ChangeProfile
    <3> QED
      BY <1>2, <1>3, <3>2 DEF Books!Next
  <2> QED
    BY <2>4, <2>5
<1>4. CASE v \in Open /\ settings' = [settings EXCEPT ![v]["floor_plan"] = r]
  <2>1. [w \in Venues |-> settings[w]["other"]]' = [w \in Venues |-> settings[w]["other"]]
    BY <1>0, <1>4
  <2>2. [w \in Venues |-> settings[w]["floor_plan"]]'
          = [[w \in Venues |-> settings[w]["floor_plan"]] EXCEPT ![v] = r]
    BY <1>0, <1>2, <1>4 DEF Settings, Keys
  <2>3. Books!DrawPlan(v, r)
    BY <1>2, <1>4, <2>1, <2>2 DEF Books!DrawPlan
  <2> QED
    BY <1>2, <1>4, <2>3 DEF Books!Next
<1> QED
  BY <1>1, <1>3, <1>4 DEF PatchVenue, SavePlan

\* A Delete closes an open venue.
LEMMA CloseStep ==
  ASSUME IInv, NEW r \in Reqs, DeleteVenue(r)
  PROVE  [Books!Next]_(Books!books)
<1>0. UNCHANGED <<settings, role, subs>> /\ venues \in [Venues -> {"absent", "open", "deleted"}]
  BY Types DEF IInv, DeleteVenue
<1>1. CASE venues' = venues
  BY <1>0, <1>1, Unseen DEF db
<1> PICK v : v = op[r].venue
  OBVIOUS
<1>2. CASE v \in Open /\ venues' = [venues EXCEPT ![v] = "deleted"]
  <2>1. v \in Venues
    BY <1>2 DEF Open
  <2>2. /\ Open' = Open \ {v}
        /\ {w \in Venues : venues[w] = "deleted"}' = {w \in Venues : venues[w] = "deleted"} \cup {v}
    BY <1>0, <1>2, <2>1 DEF Open
  <2>3. /\ Current' = Current
        /\ {s \in Subs : subs[s] = "cancelled"}' = {s \in Subs : subs[s] = "cancelled"}
    BY <1>0 DEF Current
  <2>4. Books!CloseVenue(v)
    BY <1>0, <1>2, <2>2, <2>3 DEF Books!CloseVenue
  <2> QED
    BY <2>1, <2>4 DEF Books!Next
<1> QED
  BY <1>1, <1>2 DEF DeleteVenue

\* The COMMIT of an upsert replaces the subscription.
LEMMA SubscribeStep ==
  ASSUME IInv, NEW r \in Reqs, CommitSubscription(r)
  PROVE  Books!Next
<1>1. /\ subs' = [s \in Subs |-> IF s = r THEN "current"
                                 ELSE IF s \in cancels[r] THEN "cancelled" ELSE subs[s]]
      /\ UNCHANGED <<venues, settings, role>> /\ pc[r] = "commitSubscription"
  BY DEF CommitSubscription
<1>2. r \in Subs /\ subs[r] = "absent" /\ cancels[r] = Current
  BY <1>1 DEF IInv, Phases, Exclusive, Subs, Ended
<1>3. subs \in [Subs -> {"absent", "current", "cancelled"}]
  BY Types DEF IInv
<1>4. r \notin Current \cup {s \in Subs : subs[s] = "cancelled"}
  BY <1>2 DEF Current
<1>5. Current' = {r}
  BY <1>1, <1>2, <1>3 DEF Current
<1>6. {s \in Subs : subs[s] = "cancelled"}' = {s \in Subs : subs[s] = "cancelled"} \cup Current
  BY <1>1, <1>2, <1>3 DEF Current
<1>7. /\ Open' = Open
      /\ {v \in Venues : venues[v] = "deleted"}' = {v \in Venues : venues[v] = "deleted"}
  BY <1>1 DEF Open
<1>8. Books!Subscribe(r)
  BY <1>1, <1>4, <1>5, <1>6, <1>7 DEF Books!Subscribe
<1> QED
  BY <1>2, <1>8 DEF Books!Next

\* Every step is one atomic operation or is not seen at all.
LEMMA BooksStep == IInv /\ [Next]_vars => [Books!Next]_(Books!books)
<1> SUFFICES ASSUME IInv, [Next]_vars PROVE [Books!Next]_(Books!books)
  OBVIOUS
<1>1. CASE UNCHANGED vars
  BY <1>1, Unseen DEF vars
<1>2. ASSUME NEW r \in Reqs, Start(r) \/ Fail(r) PROVE UNCHANGED db
  BY <1>2 DEF Start, StartCreate, StartPatch, StartDelete, StartSave, StartSubscribe, StartAccount,
              Arrive, Fail
<1>3. ASSUME NEW r \in Reqs,
             \/ InsertVenue(r) \/ UpdateRole(r) \/ CountVenues(r) \/ BeginCancel(r) \/ Cancel(r)
             \/ InsertSubscription(r) \/ LockAccount(r) \/ CommitAccount(r)
      PROVE  UNCHANGED db
  BY <1>3 DEF InsertVenue, UpdateRole, CountVenues, BeginCancel, Cancel, InsertSubscription,
              LockAccount, CommitAccount
<1> QED
  BY <1>1, <1>2, <1>3, Unseen, OpenStep, SettingsStep, CloseStep, SubscribeStep DEF Next, Step

\* However the statements of the owner's requests interleave, and whichever
\* fail, the owner's business changes by whole operations.
THEOREM Refinement == Spec => ImplementsBusiness
  BY Invariance, BooksInit, BooksStep, PTL DEF Spec, ImplementsBusiness, Books!Spec
=============================================================================
