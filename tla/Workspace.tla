------------------------------ MODULE Workspace ------------------------------
(***************************************************************************)
(* The workspace of one owner: the venues with their settings and floor    *)
(* plans, the account's role, and the subscription (the modules venues,    *)
(* floorplan and billing, behind access.RequireOwner), with the owner's    *)
(* HTTP requests working on them at once.                                  *)
(*                                                                         *)
(* As in Credentials.tla, an action is one SQL statement at READ           *)
(* COMMITTED, and what a transaction wrote is pending until its COMMIT.    *)
(* A venue and a subscription carry the name of the request that made it.  *)
(***************************************************************************)
EXTENDS Naturals, FiniteSets, RowLocks

CONSTANTS
  Reqs,         \* the owner's requests, each executed once
  InitVenues,   \* venues open before any of them
  InitSubs,     \* the subscription current before any of them, if any
  None          \* no venue, or no value under a key of the settings

ASSUME WorkspaceAssumption ==
  /\ Reqs \cap (InitVenues \cup InitSubs) = {}
  /\ None \notin Reqs \cup InitVenues \cup InitSubs
  /\ \A s, t \in InitSubs : s = t

Venues == InitVenues \cup Reqs
Subs   == InitSubs \cup Reqs
Plans  == {"start", "business", "pro"}

\* The JSON settings of a venue: under each key, who set it, or None.
Keys     == {"floor_plan", "other"}
Settings == [Keys -> Reqs \cup {None}]
Empty    == [k \in Keys |-> None]

VARIABLES
  venues,     \* absent, open, or deleted: deleted_at is set
  settings,   \* venues.settings
  role,       \* users.account_role
  subs,       \* workspace_subscriptions: absent, current, cancelled
  pc,         \* the statement each request executes next, or how it ended
  op,         \* what each request asks for
  ulock,      \* the lock each request holds on the users row
  todo,       \* the subscriptions its UPDATE saw current
  cancels     \* the subscriptions each request has set to cancelled

db    == <<venues, settings, role, subs>>
locks == <<ulock, todo, cancels>>
vars  == <<db, pc, op, locks>>

Statements ==
  {"insertVenue", "updateRole", "commitVenue", "patchVenue", "deleteVenue",
   "savePlan", "countVenues", "cancelCurrent", "cancelling",
   "insertSubscription", "commitSubscription", "lockAccount", "commitAccount"}

Ended == {"answered", "refused", "failed"}

Requests ==
  [kind : {"none", "create", "patch", "delete", "save", "subscribe", "account"},
   venue : Venues \cup {None}, input : Settings, plan : Plans]

Request(kind, venue, input, plan) ==
  [kind |-> kind, venue |-> venue, input |-> input, plan |-> plan]

TypeOK ==
  /\ venues \in [Venues -> {"absent", "open", "deleted"}]
  /\ settings \in [Venues -> Settings]
  /\ role \in {"customer", "venue_owner"}
  /\ subs \in [Subs -> {"absent", "current", "cancelled"}]
  /\ pc \in [Reqs -> {"idle"} \cup Statements \cup Ended]
  /\ op \in [Reqs -> Requests]
  /\ ulock \in [Reqs -> LockModes]
  /\ todo \in [Reqs -> SUBSET Subs]
  /\ cancels \in [Reqs -> SUBSET Subs]
  /\ \A r \in Reqs : pc[r] \in Ended => ulock[r] = "none" /\ cancels[r] = {}

Init ==
  /\ venues = [v \in Venues |-> IF v \in InitVenues THEN "open" ELSE "absent"]
  /\ settings = [v \in Venues |-> Empty]
  /\ role = IF InitVenues = {} THEN "customer" ELSE "venue_owner"
  /\ subs = [s \in Subs |-> IF s \in InitSubs THEN "current" ELSE "absent"]
  /\ pc = [r \in Reqs |-> "idle"]
  /\ op = [r \in Reqs |-> Request("none", None, Empty, "pro")]
  /\ ulock = [r \in Reqs |-> "none"]
  /\ todo = [r \in Reqs |-> {}]
  /\ cancels = [r \in Reqs |-> {}]

Open == {v \in Venues : venues[v] = "open"}

Current == {s \in Subs : subs[s] = "current"}

Goto(r, place) == pc' = [pc EXCEPT ![r] = place]

\* Variant: an UPDATE locks the whole row, the key included.
WantedWhole(r) ==
  CASE pc[r] = "insertVenue" -> "KS"
    [] pc[r] = "insertSubscription" /\ Current \subseteq cancels[r] -> "KS"
    [] pc[r] \in {"updateRole", "lockAccount"} -> "FU"
    [] OTHER -> "none"

\* The lock on the users row that r's statement takes: the foreign key of a
\* new venue or subscription takes KEY SHARE, the UPDATE of account_role, a
\* column no foreign key refers to, NO KEY UPDATE.
Wanted(r) ==
  CASE pc[r] = "insertVenue" -> "KS"
    [] pc[r] = "insertSubscription" /\ Current \subseteq cancels[r] -> "KS"
    [] pc[r] = "updateRole" -> "NKU"
    [] pc[r] = "lockAccount" -> "FU"
    [] OTHER -> "none"

\* The statement of r ends only after the transaction of q: it takes a lock on
\* the users row that q excludes, cancels what q is cancelling, or adds to the
\* index workspace_subscriptions_one_current_idx, which waits for whoever is
\* adding or cancelling a current subscription.
WaitsFor(r, q) ==
  /\ r # q
  /\ \/ Conflict(Wanted(r), ulock[q])
     \/ pc[r] = "cancelling" /\ todo[r] \cap cancels[q] # {}
     \/ /\ pc[r] = "insertSubscription"
        /\ pc[q] = "commitSubscription" \/ cancels[q] \cap Current # {}

Free(r) == \A q \in Reqs : ~WaitsFor(r, q)

Lock(r) ==
  /\ Free(r)
  /\ ulock' = [ulock EXCEPT ![r] = Wanted(r)]

Release(r) ==
  /\ ulock' = [ulock EXCEPT ![r] = "none"]
  /\ todo' = [todo EXCEPT ![r] = {}]
  /\ cancels' = [cancels EXCEPT ![r] = {}]

\* What a request may bring: keys that it sets itself, a plan among them.
Forms(r) == [Keys -> {r, None}]

Arrive(r, request, place) ==
  /\ pc[r] = "idle"
  /\ op' = [op EXCEPT ![r] = request]
  /\ Goto(r, place)
  /\ UNCHANGED <<db, locks>>

-----------------------------------------------------------------------------
(* venues.Create                                                            *)

\* The settings of the form are stored as they are.
StartCreate(r) ==
  \E input \in Forms(r) :
    Arrive(r, Request("create", r, input, "pro"), "insertVenue")

\* Variant: the INSERT in a transaction of its own.
InsertVenueAlone(r) ==
  /\ pc[r] = "insertVenue"
  /\ Lock(r)
  /\ venues' = [venues EXCEPT ![r] = "open"]
  /\ Goto(r, "updateRole")
  /\ UNCHANGED <<settings, role, subs, op, todo, cancels>>

InsertVenue(r) ==
  /\ pc[r] = "insertVenue"
  /\ Lock(r)
  /\ Goto(r, "updateRole")
  /\ UNCHANGED <<db, op, todo, cancels>>

\* UPDATE users SET account_role
UpdateRole(r) ==
  /\ pc[r] = "updateRole"
  /\ Lock(r)
  /\ Goto(r, "commitVenue")
  /\ UNCHANGED <<db, op, todo, cancels>>

CommitVenue(r) ==
  /\ pc[r] = "commitVenue"
  /\ venues' = [venues EXCEPT ![r] = "open"]
  /\ settings' = [settings EXCEPT ![r] = op[r].input]
  /\ role' = "venue_owner"
  /\ Release(r)
  /\ Goto(r, "answered")
  /\ UNCHANGED <<subs, op>>

-----------------------------------------------------------------------------
(* venues.Update, venues.Delete and floorplan.Save                          *)

\* A form may also send back the settings it was filled with when it was opened.
StartPatch(r) ==
  \E v \in Open : \E input \in Forms(r) \cup {[settings[v] EXCEPT !["other"] = r]} :
    Arrive(r, Request("patch", v, input, "pro"), "patchVenue")

\* jsonb || : the keys of the right side win.
Merge(left, right) ==
  [k \in Keys |-> IF right[k] # None THEN right[k] ELSE left[k]]

\* Variant: settings || input.
PatchedPlan(old, input) == Merge(old, input)

\* settings || (input - 'floor_plan')
Patched(old, input) == Merge(old, [input EXCEPT !["floor_plan"] = None])

\* One statement on a venue that must still be open; else ErrNotFound.
PatchVenue(r) ==
  /\ pc[r] = "patchVenue"
  /\ IF op[r].venue \in Open
       THEN /\ settings' = [settings EXCEPT ![op[r].venue] = Patched(@, op[r].input)]
            /\ Goto(r, "answered")
       ELSE Goto(r, "refused") /\ UNCHANGED settings
  /\ UNCHANGED <<venues, role, subs, op, locks>>

StartDelete(r) ==
  \E v \in Open : Arrive(r, Request("delete", v, Empty, "pro"), "deleteVenue")

DeleteVenue(r) ==
  /\ pc[r] = "deleteVenue"
  /\ IF op[r].venue \in Open
       THEN venues' = [venues EXCEPT ![op[r].venue] = "deleted"] /\ Goto(r, "answered")
       ELSE Goto(r, "refused") /\ UNCHANGED venues
  /\ UNCHANGED <<settings, role, subs, op, locks>>

\* RequireOwner, in a statement of its own.
RequireOwner(v) == v \in Open

StartSave(r) ==
  \E v \in Venues :
    /\ venues[v] # "absent"
    /\ Arrive(r, Request("save", v, Empty, "pro"),
              IF RequireOwner(v) THEN "savePlan" ELSE "refused")

\* Variant: an UPDATE that trusts RequireOwner.
SavePlanTrusting(r) ==
  /\ pc[r] = "savePlan"
  /\ settings' = [settings EXCEPT ![op[r].venue]["floor_plan"] = r]
  /\ Goto(r, "answered")
  /\ UNCHANGED <<venues, role, subs, op, locks>>

SavePlan(r) ==
  /\ pc[r] = "savePlan"
  /\ IF op[r].venue \in Open
       THEN /\ settings' = [settings EXCEPT ![op[r].venue]["floor_plan"] = r]
            /\ Goto(r, "answered")
       ELSE Goto(r, "refused") /\ UNCHANGED settings
  /\ UNCHANGED <<venues, role, subs, op, locks>>

-----------------------------------------------------------------------------
(* billing.UpsertSubscription                                               *)

StartSubscribe(r) ==
  \E plan \in Plans : Arrive(r, Request("subscribe", None, Empty, plan), "countVenues")

limitForPlan(plan) == IF plan = "start" THEN 1 ELSE 3

WithinLimit(plan, count) == plan = "pro" \/ count <= limitForPlan(plan)

\* The count is a statement of its own, before the transaction.
CountVenues(r) ==
  /\ pc[r] = "countVenues"
  /\ Goto(r, IF WithinLimit(op[r].plan, Cardinality(Open))
               THEN "cancelCurrent" ELSE "refused")
  /\ UNCHANGED <<db, op, locks>>

\* UPDATE ... SET status = 'cancelled': the rows it sees are fixed here,
BeginCancel(r) ==
  /\ pc[r] = "cancelCurrent"
  /\ todo' = [todo EXCEPT ![r] = Current]
  /\ Goto(r, "cancelling")
  /\ UNCHANGED <<db, op, ulock, cancels>>

\* Variant: the cancellation in a transaction of its own.
CancelAlone(r) ==
  /\ pc[r] = "cancelling"
  /\ subs' = [s \in Subs |-> IF s \in todo[r] THEN "cancelled" ELSE subs[s]]
  /\ Goto(r, "insertSubscription")
  /\ UNCHANGED <<venues, settings, role, op, locks>>

\* and each is looked at again once its lock is free.
Cancel(r) ==
  /\ pc[r] = "cancelling"
  /\ Free(r)
  /\ cancels' = [cancels EXCEPT ![r] = todo[r] \cap Current]
  /\ Goto(r, "insertSubscription")
  /\ UNCHANGED <<db, op, ulock, todo>>

\* 23505 becomes ErrConflict, and the cancellation is rolled back.
InsertSubscription(r) ==
  /\ pc[r] = "insertSubscription"
  /\ Free(r)
  /\ \/ /\ Current \subseteq cancels[r]
        /\ Lock(r)
        /\ Goto(r, "commitSubscription")
        /\ UNCHANGED <<todo, cancels>>
     \/ /\ ~(Current \subseteq cancels[r])
        /\ Release(r)
        /\ Goto(r, "refused")
  /\ UNCHANGED <<db, op>>

\* Variant: the values of the INSERT swapped.
CommitSubscriptionSwapped(r) ==
  /\ pc[r] = "commitSubscription"
  /\ subs' = [s \in Subs |-> IF s = r THEN op[r].plan
                             ELSE IF s \in cancels[r] THEN "cancelled" ELSE subs[s]]
  /\ Release(r)
  /\ Goto(r, "answered")
  /\ UNCHANGED <<venues, settings, role, op>>

CommitSubscription(r) ==
  /\ pc[r] = "commitSubscription"
  /\ subs' = [s \in Subs |-> IF s = r THEN "current"
                             ELSE IF s \in cancels[r] THEN "cancelled" ELSE subs[s]]
  /\ Release(r)
  /\ Goto(r, "answered")
  /\ UNCHANGED <<venues, settings, role, op>>

-----------------------------------------------------------------------------
(* identity.ChangePassword and ChangeEmail hold the same users row.         *)

StartAccount(r) == Arrive(r, Request("account", None, Empty, "pro"), "lockAccount")

LockAccount(r) ==
  /\ pc[r] = "lockAccount"
  /\ Lock(r)
  /\ Goto(r, "commitAccount")
  /\ UNCHANGED <<db, op, todo, cancels>>

CommitAccount(r) ==
  /\ pc[r] = "commitAccount"
  /\ Release(r)
  /\ Goto(r, "answered")
  /\ UNCHANGED <<db, op>>

\* The client goes away or the connection drops: a pending transaction is
\* rolled back.
Fail(r) ==
  /\ pc[r] \in Statements
  /\ Release(r)
  /\ Goto(r, "failed")
  /\ UNCHANGED <<db, op>>

-----------------------------------------------------------------------------
Step(r) ==
  \/ InsertVenue(r) \/ UpdateRole(r) \/ CommitVenue(r)
  \/ PatchVenue(r) \/ DeleteVenue(r) \/ SavePlan(r)
  \/ CountVenues(r) \/ BeginCancel(r) \/ Cancel(r)
  \/ InsertSubscription(r) \/ CommitSubscription(r)
  \/ LockAccount(r) \/ CommitAccount(r)

Start(r) ==
  \/ StartCreate(r) \/ StartPatch(r) \/ StartDelete(r) \/ StartSave(r)
  \/ StartSubscribe(r) \/ StartAccount(r)

Next == \E r \in Reqs : Start(r) \/ Step(r) \/ Fail(r)

Spec == Init /\ [][Next]_vars

\* Every request has a goroutine of its own, which runs when it can.
FairSpec == Spec /\ \A r \in Reqs : WF_vars(Step(r))

-----------------------------------------------------------------------------
(* Properties                                                               *)

Answers(r, kind) == op[r].kind = kind /\ pc[r] # "answered" /\ pc'[r] = "answered"

\* A deleted venue stays as it was when it was deleted, whatever passed
\* RequireOwner before: the writers look at deleted_at again.
DeletedVenueStays ==
  [][\A v \in Venues : venues[v] = "deleted" =>
       venues'[v] = "deleted" /\ settings'[v] = settings[v]]_vars

\* A venue's floor plan changes only when a Save of that venue is answered:
\* a form that was opened before the Save and sent after it does not bring
\* the old plan back.
PlanChangedBySave ==
  [][\A v \in Venues :
       (venues[v] # "absent" /\ settings'[v]["floor_plan"] # settings[v]["floor_plan"])
         => \E r \in Reqs : op[r].venue = v /\ Answers(r, "save")]_vars

\* Whoever has a venue has the role of an owner: Create does both or neither.
OwnerHasRole == (\E v \in Venues : venues[v] # "absent") => role = "venue_owner"

\* Once an account has a subscription it has exactly one, at every moment:
\* an UpsertSubscription replaces it or leaves it alone, however many run at
\* once and wherever one of them fails.
OneSubscription ==
  [][Current # {} => Cardinality(Current') = 1]_vars

\* No requests ever wait for each other in a circle, over the users row, the
\* subscriptions and their index together: two Creates both hold KEY SHARE on
\* the account when they update its role, and an upsert holds what it cancels
\* when it waits for the index and for the account.
NoDeadlock ==
  \A C \in SUBSET Reqs : C # {} => \E r \in C : \A q \in C : ~WaitsFor(r, q)

\* Every request takes effect at once and as a whole, on what the owner then
\* has, or not at all: the statements implement the business of atomic
\* operations, whatever fails or is stale.
Books == INSTANCE Business WITH
  AllVenues         <- Venues,
  AllSubscriptions  <- Subs,
  Authors           <- Reqs,
  Nobody            <- None,
  FirstVenues       <- InitVenues,
  FirstSubscription <- InitSubs,
  open              <- Open,
  closed            <- {v \in Venues : venues[v] = "deleted"},
  plan              <- [v \in Venues |-> settings[v]["floor_plan"]],
  profile           <- [v \in Venues |-> settings[v]["other"]],
  owner             <- (role = "venue_owner"),
  current           <- Current,
  past              <- {s \in Subs : subs[s] = "cancelled"}

ImplementsBusiness == Books!Spec

\* Every request that arrives is answered, without the help of a deadlock
\* detector.
RequestsAnswered == \A r \in Reqs : pc[r] # "idle" ~> pc[r] \in Ended
=============================================================================
