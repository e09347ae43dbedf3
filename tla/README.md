# Pocket backend: a TLA+ verification project

This directory models the Go service in `src/` (an HTTP API over PostgreSQL),
checks the models with TLC and proves their safety properties with TLAPS.

Every definition is translated from the code; `PROJECT.json` ("map") says from
which lines. What PostgreSQL does (row locks, READ COMMITTED snapshots, unique
indexes, deadlock detection) is modelled from how the SQL in `src/` uses it and
marked external there.

## 1. The system

One process (`cmd/api`) serves HTTP. Each request runs in a goroutine of its
own, and the requests share no memory that changes: all state is in PostgreSQL,
and requests meet only there. A handler (`internal/httpapi`) decodes the
request, reads the session cookie (`identity.Authenticate`) and calls one
operation of one module; the venue-scoped operations first ask
`access.RequireOwner`, in a statement of its own. A module never calls another
module, but several write the same rows: `venues.Create` writes
`users.account_role`, `floorplan.Save` writes `venues.settings`.

| Component | State | Operations that write | What makes it hard | What makes it correct |
| --- | --- | --- | --- | --- |
| identity, credentials | `users.password_hash`, `user_sessions`, `password_reset_tokens` | Login, Logout, RequestPasswordReset, ResetPassword, ChangePassword | transactions that lock the users row and the token rows in different orders; a hash that is verified before the transaction; mail sent after the commit | a link works once; a change of password ends what it says it ends, and replaces the password it verified; every request ends |
| identity, throttle | `auth_login_attempts` | Login | the check, the verification and the record are separate statements; each has its own `now()` | the wrong answers in a window are bounded; a block runs out |
| identity, accounts | `users.email_lookup` | Register, ChangeEmail (UpdateProfile and UpdateAvatar write columns nothing else reads) | a unique index with several writers; errors after the commit | one account per address; account and first session together |
| venues, floorplan | `venues`, `venues.settings`, `users.account_role` | Create, Update, Delete, Save | two writers of one JSON document, one of which sends stale copies; ownership checked in an earlier statement | the floor plan is what was saved last; a deleted venue stays as it was; a venue's owner has the role |
| billing | `workspace_subscriptions` | UpsertSubscription | cancel and insert; concurrent upserts | exactly one current subscription once there is one |
| access | none | none (RequireOwner, ListCapabilities) | its answer is stale when it is used | see the modules that use it |
| catalog | `menu_categories`, `menu_items` | create, update, delete of both, and their reordering | a reorder takes its rows one by one; items move and disappear meanwhile; foreign keys | a reorder is whole; every item is in a category of its venue; deleted items stay deleted |
| workforce | `venue_staff` | Create, Update, Delete | a list in a browser that is older than the rows; one partial unique index | an address is on the list once; who was removed stays removed |
| ordering | `orders` | UpdateStatus | any status may follow any other | a closed order has a time |
| feedback | `reviews` | Reply | nothing: the last reply stands | - |
| reporting | none | none | one SELECT | - |
| notifications | none | SendPasswordReset (SMTP) | fails, fails after it delivered, or never returns | see credentials, accounts and cmd/api |
| httpapi, appfault | none | none | which error becomes which answer; what a handler needs at once | see `SameResponse`, `HeldOnlyInUse`, `ProbeAnswered` |
| security, config, buildinfo | none | none | pure functions, read once | - |
| database, cmd/api | the connections lent, the phase of `main` | startup, shutdown, Acquire and release | a shutdown timeout against running requests; a pool with a limit; clients, a database or a mail server that do not answer | no hold-and-wait on the pool; an orderly end loses nothing; the end comes; the probe answers |

## 2. The modules

| Module | Models |
| --- | --- |
| `RowLocks` | the three row lock modes the SQL takes and which exclude each other |
| `Credentials` | the credentials of one account, statement by statement (core) |
| `CredentialLedger` | the same as atomic operations: what `Credentials` implements |
| `LoginThrottle` | one row of `auth_login_attempts` and the logins at it |
| `Accounts` | Register, ChangeEmail and the answers to a request for a link |
| `EmailDirectory` | addresses as atomic operations: what `Accounts` implements |
| `Workspace` | venues, settings, the role and the subscription of one owner |
| `Business` | the same as atomic operations: what `Workspace` implements |
| `Catalog` | the menu of one venue |
| `Menu` | the same as atomic edits: what `Catalog` implements |
| `VenueRecords` | the staff and the orders of one venue |
| `Server` | `main`, the connection pool and what every handler asks of it |
| `...Proofs` | the inductive invariant of a module and its theorems |
| `MC...` | instances for TLC: symmetry sets and functions for the .cfg files |

### How the code becomes actions

In every module but `Server`, a request is a value of the constant `Reqs`
(`Logins` in the throttle). `pc`
says which statement it executes next, `op` what it asks for. `Start...` is the
handler up to the first statement that another request could notice; every
other action is one SQL statement, and an action named `Commit...` is the COMMIT
that makes its transaction's writes visible. `Ended` are the ways a request
ends. A name of a request is also the name of the session, token, password,
venue, subscription, category, item or account it makes: these are fresh
random values in the code, so that no two are equal.

At READ COMMITTED a statement sees what is committed when it starts. An UPDATE
or SELECT FOR UPDATE of one row is one action: it waits (its guard) until no
other request holds the row, then looks at the committed row again. Where a
statement can wait for several things (`Workspace`, `Accounts`), `WaitsFor(r, q)`
says for whom, and its guard is `Free(r)`: for nobody; the same relation
defines what a deadlock is. An UPDATE
of several rows that can meet a competitor is three: `Begin...` fixes the rows
its snapshot matches (`todo`), `...Row` takes one of them when it is free, in
any order, and rechecks it, and `End...` leaves the statement. Locks are kept
until `Release`.

Variables, `Credentials`: `password`, `sessions`, `tokens`, `created`,
`expires` are the committed columns; `marks` and `revokes` the rows whose
`used_at` and `revoked_at` an open transaction has set; `ulock` and `tlock` its
row locks; `began` its `now()`; `delivered` the links a mailbox holds.
`LoginThrottle` keeps times relative to the present (`age` of the window,
`left` of the block, `waited` since a statement's `now()`), so that time never
ends; `wrong` is a history variable, the wrong answers of the last ticks,
summed up: `wrong[i]` are those of this tick and of the `i` before it (a failure
whose client has gone is recorded and answers nobody). `Workspace`: `settings` maps the two keys
that the code tells apart, `floor_plan` and any other, to who wrote them. The
form of a new venue is stored as it is, a floor plan that it brings included
(`venues.Create` filters nothing); that of a PATCH may bring one too, of its own
or the one the form was filled with, and loses it in the statement (`Patched`);
`cancels` is what an open transaction has cancelled. `Catalog`: the form of an
item says where it goes (`cat`, `pos`) and whether guests are shown it (`shown`,
which becomes `available`), that of a reorder names any category there is;
`moved` is what a reorder has updated and not committed. `Accounts`: `InDoubt` says which
addresses an open transaction may still give or take back.

`VenueRecords` has no variables for requests but `pc`: every operation is
RequireOwner and one statement, and what a request asks for is chosen when it
writes, so that it may have been decided at any time before. A process of
`Reqs` serves one request after another there.

`Server` is at another level. A handler is the sequence of its uses of the
world outside the process (`Uses`: one entry for every handler or for handlers
that ask for the same): a statement or a transaction, which take a connection of
the pool; the ping of the readiness probe, which takes one too; a message to the
mail server. `pc` says whether it waits for a connection, runs, sends or
answers; `held` who has a connection; `gone` whose client has closed its
connection, which cancels the context; `late` who is past the `WriteTimeout`,
which nobody notices before the response is written. `main` is the phase of the
process, and `forced` is set by every end that is not orderly: a failure, or the
shutdown timeout.  `Finish` lets every statement fail, so that a handler returns
early wherever it can.

`Fail` (`Leave` in `Accounts`) stands for everything that ends a request early
at any statement: the client goes away and the context is cancelled, the
connection drops, the process dies. The transaction is rolled back, and what
was committed before stays.

## 3. What is checked

Deadlock checking is off (`CHECK_DEADLOCK FALSE`) where every request is
executed once: a state in which all have ended has no successor. (In
`VenueRecords` nothing happens any more once the venue is deleted.) Requests
that wait for each other are what the liveness properties are about. The
throttle and the server never stop, and are checked for deadlock.

| Run | Properties | Instance | Shows |
| --- | --- | --- | --- |
| credentials | TypeOK, SingleUse, EarlierCredentialsEnd, ChangeLeavesOwnSession, ChangeReplacesVerified, DeadlockOverLinks, ImplementsLedger | 3 requests of any kind, 2 sessions, 1 mailed link, clock 0..2, cooldown 1, lifetime 2 | what the password writers leave valid, against each other, logins and requests for links, over the life of a link; what they deadlock over |
| credentials_liveness | RequestsEnd | the same at one instant with 1 session, no symmetry | deadlocks occur and are always broken |
| credentials_revocation | ResetRevokesExisting (violated) | 2 requests | finding 1 |
| throttle | TypeOK, WrongAnswersBounded, BlockEnds | 2 logins that repeat for ever, limit 3, window 4, delay 2 | the bound on wrong answers; blocks run out |
| workspace | TypeOK, OwnerHasRole, DeletedVenueStays, PlanChangedBySave, OneSubscription, NoDeadlock, ImplementsBusiness | 4 requests, 1 subscription, no venue | from the first venue on: role, settings, plans, subscription; no circle of waiting requests |
| workspace_liveness | RequestsAnswered | 3 requests, 1 venue | nobody waits for ever, without a deadlock detector |
| catalog | TypeOK, ItemsHaveCategory, ReorderIsWhole, DeletedItemStays, ImplementsMenu | 3 requests, 1 category and one of another venue, 2 items | edits against reorders and deletions, each as if it were alone |
| catalog_liveness | RequestsAnswered | 2 requests, 2 categories, 2 items | reorders in opposite orders |
| accounts | TypeOK, RegisteredWhole, DeadlockOnlyIfTaken, ImplementsDirectory, RequestsEnd | 3 requests, 2 accounts, 3 addresses | addresses are unique whatever interleaves; swapped addresses deadlock, nothing else does, and it is broken |
| accounts_response | SameResponse (violated) | 2 requests | finding 2 |
| server | TypeOK, HeldOnlyInUse, OrderlyShutdown, ShutdownEnds, WaitersServed, ProbeAnswered | 3 requests (probe, logout, request for a link), a pool of one | nothing is lost in an orderly end, the end comes, a hanging mail server holds up nobody else |
| records | TypeOK, OneMemberPerAddress, RemovedStays, ClosedOrdersTimed | 2 sessions, 4 rows of staff, 2 addresses, 1 order | staff and orders against stale lists |

Each property has a mutant: a definition with a plausible bug (`Variant:` in
the modules), under which TLC finds the property violated on the same instance.

**Why the bounds are enough.** A conflict needs two requests, and a third one
to change what they found between two of their steps; the mutants are all found
with two or three. In `Workspace` four are used because the interesting cases
start with a venue that one request creates. The clock of `Credentials` covers a
cooldown that has passed and a link that has expired. The categories and items
of `Catalog` are the smallest that let a reorder lose a row (to a deletion, a
move, or a foreign id) and two reorders take two rows in opposite orders;
`MaxIds` stands for `maxReorderItems`, 500. In `LoginThrottle` the limit and the
window are scaled down from 5 and 15 minutes; TLC finds the bound of
`WrongAnswersBounded` reached, so it is exact there: `2 * (Limit - 1) + 4 * N - 3`
wrong answers with `N` logins at once, not `Limit`. Two logins cannot tell that
bound from `2 * (Limit - 1) + 3 * N - 1`, which three exceed (limit 2, window 6,
delay 3: the block of a window, the block after a late answer has cut that one
short, and the block of the next window, each met by logins past the check);
the theorem holds for any number. It needs a limit of at least 2, which is 5 in
the code, and `PromptAssumption`, that no `recordFailure` statement waits half a
window for its row: `MaxWait` bounds that delay, which the code does not bound,
and with a longer one (three logins, window 4, delay 3) the bound fails. Two
sessions in `Credentials` are what two password writers need to have rows in
common that neither has locked by itself. A pool of one
connection in `Server` is the smallest and the one in which a handler that holds
a connection and waits for another is stuck at once; of the handlers, the three
of the run are those that differ in what they can wait for (the probe with its
deadline, one statement, a transaction followed by a message and, when that is
refused, by another statement); the others are longer sequences of the same
steps, and the theorems of `ServerProofs` are about all of them. Four rows in
`VenueRecords` are two members of one address, one of them removed, beside two
of another.

**Fairness.** `WF` of each request's `Step`: Go schedules every goroutine, and
PostgreSQL grants a lock that stays free. It does not assume that clients send
anything, and `Fail` is fair only where PostgreSQL promises it: it breaks
deadlocks, so that some deadlocked request fails. (`Workspace` needs not even
that: no deadlock arises, which is `NoDeadlock`. In `Accounts` a request is
`Deadlocked` when it is on a circle of waiting requests, as PostgreSQL's detector
has it, and `DeadlockOnlyIfTaken` says whom that can hit.) Weak fairness of a
request that waits for a row is justified because every request is executed
once, so that competitors run out; a stream of requests that starves one is not
modelled. `LoginThrottle` assumes that time passes and that statements that can
run do. `Send` is among the fair steps: that assumes that the mail server
answers, since `smtp.SendMail` has no timeout of its own. `Server` drops that
assumption: there neither `Send` nor the answer of PostgreSQL (`Finish`) is
fair. Fair are `main` with its timer (`Main`), a pool that lends what is free to
who waits (`Acquire`: pgxpool hands a connection to its waiters, and each of
finitely many requests is served once), the two-second deadline of the probe and
the pool that is closed (`GiveUp`), and the writing of a response (`Answer`,
which the `WriteTimeout` ends). `Cancel`, a wait for a connection that ends
because the client has gone, may happen but is not fair: net/http notices that a
client has gone only once the handler has read the body of the request. `ShutdownEnds` and `WaitersServed` say in their statement
that they need PostgreSQL to answer (`DatabaseAnswers`): the deferred `Close` of
the pool waits for every connection, and nothing here counts on `Close` of the
server cancelling a statement that is running, so that the end of the process is
bounded by the timeout only while the database answers. `ProbeAnswered` needs nothing.

**What is abstracted.** One account in `Credentials`, one owner in `Workspace`,
one venue in `Catalog`: requests on others touch other rows. Passwords are
equal or not; validation, hashing, encryption, names, prices and images are
left out; a unique name that is taken is a refusal that may happen. Sessions
expire after 30 days, longer than any behaviour here; the expiry is not
modelled. The roles and names of staff, and everything about an order but its
status and whether it has a `completed_at`, are left out. Reads that change
nothing (lists, dashboards, `ListCapabilities`) are
not actions.

## 4. Where the code and its documentation differ

1. `README.md:96-97` says a confirmed reset "revokes every existing session for
   the account". `ResetPassword` never locks the users row against the foreign
   key of a new session, so a login that verified the old password and commits
   between the reset's `UPDATE user_sessions` and its COMMIT stays signed in
   (run credentials_revocation). `ChangePassword` selects the row FOR UPDATE
   and has no such gap: `ChangeLeavesOwnSession` is proved.
2. `README.md:94-95` says a request for a link "always returns the same
   response, whether or not the account exists". When the message cannot be
   sent the handler answers 500, which can only happen to an address with an
   account (run accounts_response).

## 5. What is proved

All safety properties of the passing runs, the four refinements among them,
for every value of the constants. The assumptions are those the modules name: that the names of
requests, rows and addresses are distinct (`NamesAssumption`,
`AccountsAssumption`, `CatalogAssumption`, `RecordsAssumption` and the like),
that times and limits are numbers (`TimesAssumption`, `ThrottleAssumption`, the
limit of failures at least 2), that no failure waits half a window for its row
(`PromptAssumption`, which only `WrongAnswersBounded` uses), that
the pool has a connection (`PoolAssumption`) and a handler is in the table
(`KindsAssumption`). No property is inductive by itself; each proof module defines
an `IInv`, proves it an invariant (theorem `Invariance`, one case per action) and
draws the properties from it. TLC checked each `IInv` before it was proved.

| Module | Theorems | What `IInv` adds to the type invariant |
| --- | --- | --- |
| `CredentialsProofs` | TypeOK, SingleUse, EarlierCredentialsEnd, ChangeReplacesVerified, ChangeLeavesOwnSession, DeadlockOverLinks, ImplementsLedger | see below |
| `LoginThrottleProofs` | TypeOK, WrongAnswersBounded | whoever has deleted the row is about to commit, and holds it alone; a block is set only at the limit; what the logins of each window have answered and can still answer is bounded (`Spent`, see below) |
| `WorkspaceProofs` | TypeOK, OwnerHasRole, DeletedVenueStays, PlanChangedBySave, OneSubscription, NoDeadlock, ImplementsBusiness | a request has made no row before it ends and holds exactly the lock on the account that its statement presupposes (`Phases`, `Held`); what is being cancelled is current and one request's business, and who is about to commit a subscription has cancelled every other and is alone (`Exclusive`) |
| `CatalogProofs` | TypeOK, ItemsHaveCategory, DeletedItemStays, ReorderIsWhole, ImplementsMenu | an INSERT of an item holds the category it refers to, which is there (`Referred`); a reorder holds rows that it names and that are in its scope (`RowsHeld`) |
| `AccountsProofs` | TypeOK, RegisteredWhole, DeadlockOnlyIfTaken, ImplementsDirectory | an account has its session from its commit on (`Whole`); a key that an open transaction has put into the index is nobody's address and no other transaction's key (`Reserved`) |
| `VenueRecordsProofs` | TypeOK, OneMemberPerAddress, RemovedStays, ClosedOrdersTimed | a row that is present has an address (`Recorded`) |
| `ServerProofs` | TypeOK, HeldOnlyInUse, OrderlyShutdown | a handler that is not answering has a use left (`Busy`); who may be where in each phase of `main` (`Orderly`); the connections lent are finitely many, which their count needs |

`IInv` of the credentials is the conjunction of

- `TypeOK` and `Phases`, which says what kind of request can be at which
  statement;
- `Fresh`: what a request has not made yet is absent, so that an INSERT never
  meets an old row;
- `UserLocks` and `RowLocks`: no two requests hold conflicting locks on a row,
  a request holds the lock its statement presupposes, and what it has marked
  or revoked it has locked and is still as it was;
- `ResetHolds`: from its SELECT FOR UPDATE to its COMMIT a reset holds its own
  link, still unused, and has it among the rows it will mark;
- `ChangeHolds`: from its SELECT FOR UPDATE to its COMMIT a change holds the
  users row exclusively; the password is the one it verified, and every live
  session but its own and every live link is revoked or marked by it, or still
  ahead of its running UPDATE.

`SingleUse` follows because a committed reset has left its link spent, which
`FindToken` refuses; `ChangeReplacesVerified` and `ChangeLeavesOwnSession` are
`ChangeHolds` at the commit. `EarlierCredentialsEnd` needs one invariant more,
proved from `IInv`: a reset, too, reaches every session and link *from before*
that is live (`ResetReaches`), because those only ever end (`EarlierOnlyEnd`),
although a login can add a session behind its UPDATE, which is finding 1. For
the refinement every COMMIT is one operation of the ledger, `Logout` and
`Withdraw` likewise, and every other step leaves the ledger unchanged.

`ItemsHaveCategory` and `ReorderIsWhole` rest on row locks in the same way: a
category that an uncommitted item refers to cannot be deleted, and the rows a
reorder has counted are still locked, and therefore in their scope, when it
commits. `OneSubscription` rests on the unique index: an INSERT waits for the
fate of every other subscription that could be current.

`ImplementsMenu` adds that the category a request creates is not there while it
runs (`Unmade`). Every statement that changes the menu is one edit of `Menu`: the
guards that `Menu` asks for hold because of the locks just named, and the COMMIT
of a reorder arranges exactly the rows it names, since a set of as many members
as a sequence has places is all of its elements (`AllOfThem`, `Arrangement`).

`ImplementsBusiness` needs no more than `IInv`: each COMMIT, and each of the
statements that are transactions of their own, is one operation of `Business`. A
venue opens with the plan and the profile that its form has, set or not; from
then on only a Save draws the plan (`DrawPlan`), which is `PlanChangedBySave`.

`WrongAnswersBounded` bounds a sum over time. `Spent` says it for every window
that is not over yet, with what may still come: the wrong answers since `i` ticks
ago, and the most that the logins past the check, the failures the row has free
and the block can still let through before that window ends (`Budget`), stay
within the bound. A failure moves one from the budget to the sum, a tick lets
windows begin with nothing spent (`Budget` of no time is the whole bound) and
never raises what is left. What costs most is a login whose statement began
before the window: it may set the row back to a time that is over, or cut a
block short.

`NoDeadlock` holds because a request waits only for requests of a lower `Rank`
(lemma `Descends`): those about to commit wait for nobody, an update of the role
or an upsert that has cancelled something only for them, and so on; of the
requests on a circle one would have the lowest rank. `DeadlockOverLinks` follows from
`HeldWhere`: only password writers hold the account over several statements, and
who has revoked a session holds it, so that nobody who is revoking waits; without
a request at the links, whoever holds the account would wait for nobody, and the
others, who hold nothing yet, could not be waited for.
`DeadlockOnlyIfTaken`: whoever is on a circle both waits and is waited for, which
only a ChangeEmail does that has moved its row and not yet put its key into the
index (lemma `DeadlockedWaits`), and it waits for another such request whose row
still has the address it asks for; no two changes hold the row of one account
(`Alone`), so that it is the address of another account.

**Only model-checked.** All liveness (`RequestsEnd`, `RequestsAnswered`,
`BlockEnds`, `ShutdownEnds`, `WaitersServed`, `ProbeAnswered`), which needs
fairness and ENABLED, beyond the prover. `NoDeadlock` is what is proved of it: in
`Workspace` some request that waits for rows can always go on.

## 6. Not modelled

- `feedback`: Reply is one UPDATE of columns that no other statement reads or
  writes; whatever two replies do, the last one stands. A model would say no
  more than that.
- `reporting`, and every List, Get and Dashboard: they change nothing and are
  asked again every time.
- UpdateProfile, UpdateAvatar and Avatar: one statement each, on columns of the
  account that no other operation reads.
- `security`: encryption and hashing are pure. The models use that a hash
  verifies the password it was made of and no other, and that random tokens are
  distinct.
- `config` reads the environment once; what it refuses are assumptions on the
  constants.
- The middleware, CORS, cookies, JSON and the wording of answers.
- Applying and reverting migrations: the tables are as the last one leaves them.
- The expiry of sessions (30 days), and two accounts at once in `Credentials`:
  the rows of one account are never locked by requests of another.
- `Credentials` and `Workspace` meet in the users row. `Workspace` has the lock
  that a change of password, of address or a reset takes there
  (`LockAccount`), for any length of time and with any outcome, which contains
  every behaviour of `Credentials` on that row; a product of the two modules
  would add states and no interleaving of the row.
