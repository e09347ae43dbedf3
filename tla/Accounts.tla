------------------------------ MODULE Accounts ------------------------------
(***************************************************************************)
(* The e-mail addresses of the accounts: Register, ChangeEmail and the     *)
(* request for a reset link, which all go by the blind index of the        *)
(* address (users.email_lookup, unique among the accounts).                *)
(*                                                                         *)
(* PostgreSQL enforces a unique index row by row: an UPDATE writes the new *)
(* version of its row first, and then looks for the new key in the index.  *)
(* Where it meets a row that another transaction is adding, or moving to   *)
(* another key, it waits for that transaction to end.                      *)
(*                                                                         *)
(* A new account carries the name of the request that registers it.        *)
(***************************************************************************)
EXTENDS Naturals, FiniteSets

CONSTANTS
  Reqs,        \* the HTTP requests, each executed once
  InitUsers,   \* the accounts registered before any of them
  Emails,      \* the e-mail addresses
  InitEmail,   \* the address of each of InitUsers
  None         \* no address, no account

ASSUME AccountsAssumption ==
  /\ Reqs \cap InitUsers = {} /\ None \notin Reqs \cup InitUsers \cup Emails
  /\ InitEmail \in [InitUsers -> Emails]
  /\ \A u, v \in InitUsers : InitEmail[u] = InitEmail[v] => u = v

Users == InitUsers \cup Reqs

VARIABLES
  email,      \* users.email_lookup; None when not registered
  sessions,   \* the accounts opened with a session by their registration
  issued,     \* password_reset_tokens that are neither used nor deleted
  pc,         \* the statement each request executes next, or how it ended
  op          \* what each request asks for

vars == <<email, sessions, issued, pc, op>>

Statements ==
  {"insertUser", "addKey", "insertSession", "commitUser",
   "lockUser", "moveRow", "moveKey", "commitEmail", "loadUser",
   "issue", "send", "withdraw"}

\* Answered as asked, refused for a reason the client can mend, 500, or with
\* nobody left to answer.
Ended == {"answered", "refused", "error", "gone"}

Requests == [kind : {"none", "register", "change", "forgot"},
             user : Users \cup {None}, new : Emails \cup {None}]

Request(kind, user, new) == [kind |-> kind, user |-> user, new |-> new]

TypeOK ==
  /\ email \in [Users -> Emails \cup {None}]
  /\ sessions \subseteq Users
  /\ issued \subseteq Reqs
  /\ pc \in [Reqs -> {"idle"} \cup Statements \cup Ended]
  /\ op \in [Reqs -> Requests]
  /\ \A r \in Reqs : pc[r] # "idle" /\ op[r].kind # "forgot" => op[r].user \in Users

Init ==
  /\ email = [u \in Users |-> IF u \in InitUsers THEN InitEmail[u] ELSE None]
  /\ sessions = {}
  /\ issued = {}
  /\ pc = [r \in Reqs |-> "idle"]
  /\ op = [r \in Reqs |-> Request("none", None, None)]

-----------------------------------------------------------------------------
Goto(r, place) == pc' = [pc EXCEPT ![r] = place]

Arrive(r, request, place) ==
  /\ pc[r] = "idle"
  /\ op' = [op EXCEPT ![r] = request]
  /\ Goto(r, place)
  /\ UNCHANGED <<email, sessions, issued>>

\* The transactions that hold the row of account u.
Holds(q, u) ==
  op[q].user = u /\ pc[q] \in {"moveRow", "moveKey", "commitEmail"}

\* The old version of the row is on its way out.
Moving(q) == pc[q] \in {"moveKey", "commitEmail"}

\* Variant: a constraint that puts the key into the index and then looks for
\* others, as EXCLUDE does.
AddingFirst(q, e) ==
  /\ pc[q] \in {"addKey", "insertSession", "commitUser", "moveKey", "commitEmail"}
  /\ op[q].new = e

\* The new key is in the index, not committed.
Adding(q, e) == pc[q] \in {"insertSession", "commitUser", "commitEmail"} /\ op[q].new = e

\* q may still give or take back the address e.
InDoubt(q, e) == Adding(q, e) \/ (Moving(q) /\ email[op[q].user] = e)

\* The statement of r ends only after the transaction of q.
WaitsFor(r, q) ==
  /\ r # q
  /\ \/ pc[r] \in {"addKey", "moveKey"} /\ InDoubt(q, op[r].new)
     \/ pc[r] = "lockUser" /\ Holds(q, op[r].user)

Free(r) == \A q \in Reqs : ~WaitsFor(r, q)

\* Another account has the address.
Taken(r) == \E u \in Users \ {op[r].user} : email[u] = op[r].new

\* Variant: no unique index.
AddKeyUnchecked(r, from, to) ==
  /\ pc[r] = from
  /\ Goto(r, to)
  /\ UNCHANGED <<email, sessions, issued, op>>

\* Variant: the statement is sent again when the address is taken.
AddKeyRetried(r, from, to) ==
  /\ pc[r] = from
  /\ Free(r)
  /\ Goto(r, IF Taken(r) THEN from ELSE to)
  /\ UNCHANGED <<email, sessions, issued, op>>

\* 23505 becomes ErrEmailAlreadyExists, and the transaction is rolled back.
AddKey(r, from, to) ==
  /\ pc[r] = from
  /\ Free(r)
  /\ Goto(r, IF Taken(r) THEN "refused" ELSE to)
  /\ UNCHANGED <<email, sessions, issued, op>>

-----------------------------------------------------------------------------
(* Register                                                                 *)

StartRegister(r) == \E e \in Emails : Arrive(r, Request("register", r, e), "insertUser")

InsertUser(r) ==
  /\ pc[r] = "insertUser"
  /\ Goto(r, "addKey")
  /\ UNCHANGED <<email, sessions, issued, op>>

AddUserKey(r) == AddKey(r, "addKey", "insertSession")

\* Variant: the account is committed before its session is inserted.
InsertSessionLate(r) ==
  /\ pc[r] = "insertSession"
  /\ email' = [email EXCEPT ![r] = op[r].new]
  /\ Goto(r, "commitUser")
  /\ UNCHANGED <<sessions, issued, op>>

InsertSession(r) ==
  /\ pc[r] = "insertSession"
  /\ Goto(r, "commitUser")
  /\ UNCHANGED <<email, sessions, issued, op>>

CommitUser(r) ==
  /\ pc[r] = "commitUser"
  /\ email' = [email EXCEPT ![r] = op[r].new]
  /\ sessions' = sessions \cup {r}
  /\ Goto(r, "answered")
  /\ UNCHANGED <<issued, op>>

-----------------------------------------------------------------------------
(* ChangeEmail                                                              *)

StartChange(r) ==
  \E u \in Users, e \in Emails :
    /\ email[u] # None
    /\ Arrive(r, Request("change", u, e), "lockUser")

\* SELECT password_hash ... FOR UPDATE; a wrong password rolls back.
LockUser(r) ==
  /\ pc[r] = "lockUser"
  /\ Free(r)
  /\ Goto(r, "moveRow") \/ Goto(r, "refused")
  /\ UNCHANGED <<email, sessions, issued, op>>

\* UPDATE users SET email_lookup: first the row, then the index.
MoveRow(r) ==
  /\ pc[r] = "moveRow"
  /\ Goto(r, "moveKey")
  /\ UNCHANGED <<email, sessions, issued, op>>

MoveKey(r) == AddKey(r, "moveKey", "commitEmail")

\* Variant: the arguments of the UPDATE swapped.
CommitEmailSwapped(r) ==
  /\ pc[r] = "commitEmail"
  /\ email' = [email EXCEPT ![op[r].user] = op[r].user]
  /\ Goto(r, "loadUser")
  /\ UNCHANGED <<sessions, issued, op>>

CommitEmail(r) ==
  /\ pc[r] = "commitEmail"
  /\ email' = [email EXCEPT ![op[r].user] = op[r].new]
  /\ Goto(r, "loadUser")
  /\ UNCHANGED <<sessions, issued, op>>

\* loadUser and ListCapabilities come after the commit, and can fail.
LoadUser(r) ==
  /\ pc[r] = "loadUser"
  /\ Goto(r, "answered") \/ Goto(r, "error")
  /\ UNCHANGED <<email, sessions, issued, op>>

-----------------------------------------------------------------------------
(* RequestPasswordReset; Credentials.tla has its transaction in detail.     *)

findUserByLookup(e) == {u \in Users : email[u] = e}

\* 202 at once when there is no such account.
StartForgot(r) ==
  \E e \in Emails :
    \/ \E u \in findUserByLookup(e) : Arrive(r, Request("forgot", u, e), "issue")
    \/ /\ findUserByLookup(e) = {}
       /\ Arrive(r, Request("forgot", None, e), "answered")

\* The transaction issues a token, or answers 202 within the cooldown.
Issue(r) ==
  /\ pc[r] = "issue"
  /\ \/ issued' = issued \cup {r} /\ Goto(r, "send")
     \/ Goto(r, "answered") /\ UNCHANGED issued
  /\ UNCHANGED <<email, sessions, op>>

\* To the address the request named, whoever has it by now.
Send(r) ==
  /\ pc[r] = "send"
  /\ Goto(r, "answered") \/ Goto(r, "withdraw")
  /\ UNCHANGED <<email, sessions, issued, op>>

\* The token of a message that was not sent is deleted, and the handler
\* answers 500.
Withdraw(r) ==
  /\ pc[r] = "withdraw"
  /\ issued' = issued \ {r}
  /\ Goto(r, "error")
  /\ UNCHANGED <<email, sessions, op>>

-----------------------------------------------------------------------------
\* The client goes away: what is pending is rolled back.
Leave(r) ==
  /\ pc[r] \in Statements
  /\ Goto(r, "gone")
  /\ UNCHANGED <<email, sessions, issued, op>>

\* r is one of several of which no part can go on without the others.
Deadlocked(r) ==
  \E C \in SUBSET Reqs :
    /\ r \in C /\ C # {r}
    /\ \A D \in SUBSET C :
         D \notin {{}, C} => \E p \in D, q \in C \ D : WaitsFor(p, q)

\* 40P01: PostgreSQL rolls back one of those that wait in the circle; who waits
\* for one of them waits on.
BreakDeadlock(r) ==
  /\ Deadlocked(r)
  /\ Goto(r, "error")
  /\ UNCHANGED <<email, sessions, issued, op>>

Step(r) ==
  \/ InsertUser(r) \/ AddUserKey(r) \/ InsertSession(r) \/ CommitUser(r)
  \/ LockUser(r) \/ MoveRow(r) \/ MoveKey(r) \/ CommitEmail(r) \/ LoadUser(r)
  \/ Issue(r) \/ Send(r) \/ Withdraw(r)

Start(r) == StartRegister(r) \/ StartChange(r) \/ StartForgot(r)

Next == \E r \in Reqs : Start(r) \/ Step(r) \/ Leave(r) \/ BreakDeadlock(r)

Spec == Init /\ [][Next]_vars

\* Every request has a goroutine, and PostgreSQL detects deadlocks.
FairSpec ==
  /\ Spec
  /\ \A r \in Reqs : WF_vars(Step(r))
  /\ WF_vars(\E r \in Reqs : BreakDeadlock(r))

-----------------------------------------------------------------------------
(* Properties                                                               *)

\* An account exists together with the session it was registered with, and
\* a registration that is not answered as asked leaves neither.
RegisteredWhole ==
  \A r \in Reqs : (op[r].kind = "register" /\ pc[r] \in Ended) =>
    /\ (email[r] # None) = (r \in sessions)
    /\ pc[r] \in {"refused", "error", "gone"} => email[r] = None

\* However registrations and changes of address interleave, each takes effect
\* at once, and only while no other account has the address.
Directory == INSTANCE EmailDirectory WITH
  Accounts     <- Users,
  Addresses    <- Emails,
  FirstAddress <- [u \in Users |-> IF u \in InitUsers THEN InitEmail[u] ELSE None],
  address      <- email

ImplementsDirectory == Directory!Spec

\* Only a change to an address that another account has can be ended by a
\* deadlock: a registration never is, nor is a change that could be carried
\* out, however many ask for one address or for each other's at once.
DeadlockOnlyIfTaken ==
  \A r \in Reqs : Deadlocked(r) => op[r].kind = "change" /\ Taken(r)

\* Every request that arrives ends, as each is executed once: two accounts
\* that swap their addresses wait for each other, and the database ends one.
RequestsEnd == <>[](\A r \in Reqs : pc[r] \in {"idle"} \cup Ended)

\* README.md says a request for a reset link `always returns the same
\* response, whether or not the account exists'.
SameResponse ==
  \A r, q \in Reqs :
    (/\ op[r].kind = "forgot" /\ op[q].kind = "forgot"
     /\ op[r].user = None /\ op[q].user # None
     /\ {pc[r], pc[q]} \subseteq {"answered", "refused", "error"})
    => pc[r] = pc[q]
=============================================================================
