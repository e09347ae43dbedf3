---------------------------- MODULE Credentials ----------------------------
(***************************************************************************)
(* The credentials of one account: its password, sessions and password     *)
(* reset tokens, and the HTTP requests that read and write them at once.   *)
(*                                                                         *)
(* src/internal/modules/identity runs each request as a few SQL statements *)
(* on PostgreSQL at READ COMMITTED.  An action here is one statement: it   *)
(* reads what is committed when it starts, waits while a row it needs is   *)
(* locked, and looks at the row again once it has the lock.  An UPDATE of  *)
(* several rows takes them one at a time.  What a transaction wrote is     *)
(* pending, in marks and revokes, until its COMMIT applies it.             *)
(*                                                                         *)
(* A session or a reset token made by a request carries that request's     *)
(* name, and the password a request sets is called by its name: the tokens *)
(* are 256 random bits, and the hash is salted.                            *)
(***************************************************************************)
EXTENDS Naturals, FiniteSets, RowLocks

CONSTANTS
  Reqs,              \* the HTTP requests, each executed once
  InitSessions,      \* sessions opened before any of them
  InitTokens,        \* reset tokens mailed before any of them
  InitialPassword,   \* the password set at registration
  None,              \* no session, token or password
  Cooldown,          \* passwordResetCooldown
  ResetTTL,          \* PASSWORD_RESET_TTL
  MaxNow             \* bound on the clock

ASSUME NamesAssumption ==
  /\ Reqs \cap (InitSessions \cup InitTokens \cup {InitialPassword}) = {}
  /\ None \notin Reqs \cup InitSessions \cup InitTokens \cup {InitialPassword}

ASSUME TimesAssumption ==
  /\ Cooldown \in Nat /\ ResetTTL \in Nat \ {0} /\ MaxNow \in Nat

Sessions  == InitSessions \cup Reqs
Tokens    == InitTokens \cup Reqs
Passwords == {InitialPassword} \cup Reqs

VARIABLES
  now,        \* the clock
  password,   \* users.password_hash: whose password it verifies
  sessions,   \* user_sessions: absent, live, revoked
  tokens,     \* password_reset_tokens: absent, live, used, deleted
  created,    \* password_reset_tokens.created_at
  expires,    \* password_reset_tokens.expires_at
  delivered,  \* the tokens whose link reached the account's mailbox
  pc,         \* the statement each request executes next, or how it ended
  op,         \* what each request asks for
  began,      \* now() in each request's transaction: when it began
  ulock,      \* the lock each request holds on the users row
  tlock,      \* the password_reset_tokens rows each request has locked
  marks,      \* the tokens each request has set used_at of
  revokes,    \* the sessions each request has set revoked_at of
  todo        \* the rows the request's running UPDATE has yet to reach

db    == <<password, sessions, tokens, created, expires, delivered>>
locks == <<ulock, tlock, marks, revokes, todo>>
vars  == <<now, db, pc, op, began, locks>>

-----------------------------------------------------------------------------
Ended == {"committed", "refused", "quiet", "failed"}

Statements ==
  {"insertSession", "commitLogin", "cooldown", "insertToken", "commitIssue",
   "findToken", "writeHash", "lockUser", "consume", "consuming",
   "revoke", "revoking", "commit"}

\* After its commit a reset request mails the link, outside any transaction.
Mailing == {"send", "withdraw"}

Kinds == {"none", "login", "issue", "reset", "change", "logout"}

Request(kind, token, session, secret) ==
  [kind |-> kind, token |-> token, session |-> session, secret |-> secret]

Unasked == Request("none", None, None, None)

TypeOK ==
  /\ now \in 0..MaxNow
  /\ password \in Passwords
  /\ sessions \in [Sessions -> {"absent", "live", "revoked"}]
  /\ tokens \in [Tokens -> {"absent", "live", "used", "deleted"}]
  /\ created \in [Tokens -> Nat]
  /\ expires \in [Tokens -> Nat]
  /\ delivered \subseteq Tokens
  /\ pc \in [Reqs -> {"idle"} \cup Statements \cup Mailing \cup Ended]
  /\ op \in [Reqs -> [kind : Kinds, token : Tokens \cup {None},
                      session : Sessions \cup {None},
                      secret : Passwords \cup {None}]]
  /\ began \in [Reqs -> 0..MaxNow]
  /\ ulock \in [Reqs -> LockModes]
  /\ tlock \in [Reqs -> SUBSET Tokens]
  /\ marks \in [Reqs -> SUBSET Tokens]
  /\ revokes \in [Reqs -> SUBSET Sessions]
  /\ todo \in [Reqs -> SUBSET (Tokens \cup Sessions)]
  /\ \A r \in Reqs : /\ pc[r] = "consuming" => todo[r] \subseteq Tokens
                     /\ pc[r] = "revoking" => todo[r] \subseteq Sessions

\* The account is registered, its owner signed in, and a link was mailed.
Init ==
  /\ now = 0
  /\ password = InitialPassword
  /\ sessions = [s \in Sessions |-> IF s \in InitSessions THEN "live" ELSE "absent"]
  /\ tokens = [t \in Tokens |-> IF t \in InitTokens THEN "live" ELSE "absent"]
  /\ created = [t \in Tokens |-> 0]
  /\ expires = [t \in Tokens |-> ResetTTL]
  /\ delivered = InitTokens
  /\ pc = [r \in Reqs |-> "idle"]
  /\ op = [r \in Reqs |-> Unasked]
  /\ began = [r \in Reqs |-> 0]
  /\ ulock = [r \in Reqs |-> "none"]
  /\ tlock = [r \in Reqs |-> {}]
  /\ marks = [r \in Reqs |-> {}]
  /\ revokes = [r \in Reqs |-> {}]
  /\ todo = [r \in Reqs |-> {}]

-----------------------------------------------------------------------------
UserLockFree(r, mode) == \A q \in Reqs \ {r} : ~Conflict(mode, ulock[q])

TokenRowFree(r, t) == \A q \in Reqs \ {r} : t \notin tlock[q]

SessionRowFree(r, s) == \A q \in Reqs \ {r} : s \notin revokes[q]

Goto(r, place) == pc' = [pc EXCEPT ![r] = place]

\* COMMIT and ROLLBACK both release what the transaction had locked.
Release(r) ==
  /\ ulock' = [ulock EXCEPT ![r] = "none"]
  /\ tlock' = [tlock EXCEPT ![r] = {}]
  /\ marks' = [marks EXCEPT ![r] = {}]
  /\ revokes' = [revokes EXCEPT ![r] = {}]
  /\ todo' = [todo EXCEPT ![r] = {}]

\* A request arrives: validation, hashing and BEGIN touch nothing shared.
Arrive(r, request, place) ==
  /\ pc[r] = "idle"
  /\ op' = [op EXCEPT ![r] = request]
  /\ began' = [began EXCEPT ![r] = now]
  /\ Goto(r, place)

-----------------------------------------------------------------------------
(* Login                                                                    *)

\* VerifyPassword: a salted hash verifies the password it was made of.
Verifies(secret) == secret = password

\* findUserByLookup reads the hash and VerifyPassword compares; both happen
\* before the transaction, and nothing holds the row from here on.
StartLogin(r) ==
  /\ \E secret \in Passwords :
       Arrive(r, Request("login", None, None, secret),
              IF Verifies(secret) THEN "insertSession" ELSE "refused")
  /\ UNCHANGED <<now, db, locks>>

\* The foreign key of the new user_sessions row takes KEY SHARE.
InsertSession(r) ==
  /\ pc[r] = "insertSession"
  /\ UserLockFree(r, "KS")
  /\ ulock' = [ulock EXCEPT ![r] = "KS"]
  /\ Goto(r, "commitLogin")
  /\ UNCHANGED <<now, db, op, began, tlock, marks, revokes, todo>>

CommitLogin(r) ==
  /\ pc[r] = "commitLogin"
  /\ sessions' = [sessions EXCEPT ![r] = "live"]
  /\ Release(r)
  /\ Goto(r, "committed")
  /\ UNCHANGED <<now, password, tokens, created, expires, delivered, op, began>>

-----------------------------------------------------------------------------
(* RequestPasswordReset                                                     *)

StartIssue(r) ==
  /\ Arrive(r, Request("issue", None, None, None), "cooldown")
  /\ UNCHANGED <<now, db, locks>>

\* now() in a transaction is the time it began.
RecentlyRequested(r) ==
  \E t \in Tokens : /\ tokens[t] = "live"
                    /\ expires[t] > began[r]
                    /\ created[t] + Cooldown > began[r]

CheckCooldown(r) ==
  /\ pc[r] = "cooldown"
  /\ Goto(r, IF RecentlyRequested(r) THEN "quiet" ELSE "consume")
  /\ UNCHANGED <<now, db, op, began, locks>>

\* created_at is the transaction's now(), expires_at the clock of the API.
InsertToken(r) ==
  /\ pc[r] = "insertToken"
  /\ UserLockFree(r, "KS")
  /\ ulock' = [ulock EXCEPT ![r] = "KS"]
  /\ created' = [created EXCEPT ![r] = began[r]]
  /\ expires' = [expires EXCEPT ![r] = now + ResetTTL]
  /\ Goto(r, "commitIssue")
  /\ UNCHANGED <<now, password, sessions, tokens, delivered, op, began,
                 tlock, marks, revokes, todo>>

\* The committed tokens once r's pending writes are applied.
Marked(r) == [t \in Tokens |-> IF t \in marks[r] THEN "used" ELSE tokens[t]]

CommitIssue(r) ==
  /\ pc[r] = "commitIssue"
  /\ tokens' = [Marked(r) EXCEPT ![r] = "live"]
  /\ Release(r)
  /\ Goto(r, "send")
  /\ UNCHANGED <<now, password, sessions, created, expires, delivered, op, began>>

\* The sender may report an error for a message the server has accepted.
Send(r) ==
  /\ pc[r] = "send"
  /\ \/ delivered' = delivered \cup {r} /\ Goto(r, "committed")
     \/ delivered' \in {delivered, delivered \cup {r}} /\ Goto(r, "withdraw")
  /\ UNCHANGED <<now, password, sessions, tokens, created, expires, op, began, locks>>

\* DELETE of the token whose message failed, whatever became of it since.
Withdraw(r) ==
  /\ pc[r] = "withdraw"
  /\ TokenRowFree(r, r)
  /\ tokens' = [tokens EXCEPT ![r] = "deleted"]
  /\ Goto(r, "failed")
  /\ UNCHANGED <<now, password, sessions, created, expires, delivered, op, began, locks>>

-----------------------------------------------------------------------------
(* UPDATE password_reset_tokens SET used_at, one row at a time              *)

\* A reset request updates the unused tokens only; the two password writers
\* update every token of the account, COALESCE keeping an earlier used_at.
Consumable(r) ==
  IF op[r].kind = "issue" THEN {"live"} ELSE {"live", "used"}

\* Variant: a reset that forgets the sessions.
AfterConsumeKeepsSessions(r) ==
  CASE op[r].kind = "issue" -> "insertToken"
    [] OTHER -> "commit"

AfterConsume(r) ==
  CASE op[r].kind = "issue" -> "insertToken"
    [] op[r].kind = "reset" -> "revoke"
    [] OTHER -> "commit"

BeginConsume(r) ==
  /\ pc[r] = "consume"
  /\ todo' = [todo EXCEPT ![r] = {t \in Tokens : tokens[t] \in Consumable(r)}]
  /\ Goto(r, "consuming")
  /\ UNCHANGED <<now, db, op, began, ulock, tlock, marks, revokes>>

ConsumeRow(r) ==
  /\ pc[r] = "consuming"
  /\ \E t \in todo[r] :
       /\ TokenRowFree(r, t)
       /\ todo' = [todo EXCEPT ![r] = @ \ {t}]
       /\ IF tokens[t] \in Consumable(r)
            THEN /\ tlock' = [tlock EXCEPT ![r] = @ \cup {t}]
                 /\ marks' = [marks EXCEPT ![r] = @ \cup {t}]
            ELSE UNCHANGED <<tlock, marks>>
  /\ UNCHANGED <<now, db, pc, op, began, ulock, revokes>>

EndConsume(r) ==
  /\ pc[r] = "consuming"
  /\ todo[r] = {}
  /\ Goto(r, AfterConsume(r))
  /\ UNCHANGED <<now, db, op, began, locks>>

-----------------------------------------------------------------------------
(* UPDATE user_sessions SET revoked_at, one row at a time                   *)

\* Variant: a password change that forgets the reset links.
AfterRevokeKeepsLinks(r) == "commit"

AfterRevoke(r) == IF op[r].kind = "reset" THEN "commit" ELSE "consume"

\* ResetPassword revokes every session, ChangePassword all but its own.
BeginRevoke(r) ==
  /\ pc[r] = "revoke"
  /\ todo' = [todo EXCEPT ![r] = {s \in Sessions \ {op[r].session} : sessions[s] = "live"}]
  /\ Goto(r, "revoking")
  /\ UNCHANGED <<now, db, op, began, ulock, tlock, marks, revokes>>

RevokeRow(r) ==
  /\ pc[r] = "revoking"
  /\ \E s \in todo[r] :
       /\ SessionRowFree(r, s)
       /\ todo' = [todo EXCEPT ![r] = @ \ {s}]
       /\ revokes' = [revokes EXCEPT ![r] = IF sessions[s] = "live" THEN @ \cup {s} ELSE @]
  /\ UNCHANGED <<now, db, pc, op, began, ulock, tlock, marks>>

EndRevoke(r) ==
  /\ pc[r] = "revoking"
  /\ todo[r] = {}
  /\ Goto(r, AfterRevoke(r))
  /\ UNCHANGED <<now, db, op, began, locks>>

-----------------------------------------------------------------------------
(* ResetPassword                                                            *)

\* The holder of a mailed link confirms it with a new password.
StartReset(r) ==
  /\ \E t \in delivered : Arrive(r, Request("reset", t, None, None), "findToken")
  /\ UNCHANGED <<now, db, locks>>

Redeemable(r, t) == tokens[t] = "live" /\ expires[t] > began[r]

\* Variant: a plain SELECT, without FOR UPDATE.
FindTokenUnlocked(r) ==
  /\ pc[r] = "findToken"
  /\ Goto(r, IF Redeemable(r, op[r].token) THEN "writeHash" ELSE "refused")
  /\ UNCHANGED <<now, db, op, began, locks>>

\* SELECT ... FOR UPDATE: waits for the row, then looks at it again.
FindToken(r) ==
  /\ pc[r] = "findToken"
  /\ LET t == op[r].token
     IN  \/ /\ Redeemable(r, t)
            /\ TokenRowFree(r, t)
            /\ tlock' = [tlock EXCEPT ![r] = @ \cup {t}]
            /\ Goto(r, "writeHash")
         \/ /\ ~Redeemable(r, t)
            /\ Goto(r, "refused")
            /\ UNCHANGED tlock
  /\ UNCHANGED <<now, db, op, began, ulock, marks, revokes, todo>>

WriteHash(r) ==
  /\ pc[r] = "writeHash"
  /\ UserLockFree(r, "NKU")
  /\ ulock' = [ulock EXCEPT ![r] = "NKU"]
  /\ Goto(r, "consume")
  /\ UNCHANGED <<now, db, op, began, tlock, marks, revokes, todo>>

-----------------------------------------------------------------------------
(* ChangePassword                                                           *)

\* Authenticate: the session of the cookie is not revoked.
Authenticates(s) == sessions[s] = "live"

\* The handler authenticates the session first, in a statement of its own.
StartChange(r) ==
  /\ \E s \in Sessions, secret \in Passwords :
       /\ sessions[s] # "absent"
       /\ Arrive(r, Request("change", None, s, secret),
                 IF Authenticates(s) THEN "lockUser" ELSE "refused")
  /\ UNCHANGED <<now, db, locks>>

\* Variant: a plain SELECT; the row is locked by the UPDATE only.
LockUserLate(r) ==
  /\ pc[r] = "lockUser"
  /\ Goto(r, IF Verifies(op[r].secret) THEN "revoke" ELSE "refused")
  /\ UNCHANGED <<now, db, op, began, locks>>

\* Variant: SELECT ... FOR NO KEY UPDATE, which lets INSERTs through.
LockUserWeakly(r) ==
  /\ pc[r] = "lockUser"
  /\ UserLockFree(r, "NKU")
  /\ IF Verifies(op[r].secret)
       THEN ulock' = [ulock EXCEPT ![r] = "NKU"] /\ Goto(r, "revoke")
       ELSE Goto(r, "refused") /\ UNCHANGED ulock
  /\ UNCHANGED <<now, db, op, began, tlock, marks, revokes, todo>>

\* SELECT password_hash ... FOR UPDATE, then the current password is verified
\* with the row locked; a wrong one rolls back.  The UPDATE of password_hash
\* that follows needs no other lock.
LockUser(r) ==
  /\ pc[r] = "lockUser"
  /\ UserLockFree(r, "FU")
  /\ IF Verifies(op[r].secret)
       THEN ulock' = [ulock EXCEPT ![r] = "FU"] /\ Goto(r, "revoke")
       ELSE Goto(r, "refused") /\ UNCHANGED ulock
  /\ UNCHANGED <<now, db, op, began, tlock, marks, revokes, todo>>

\* Variant: the two arguments of UPDATE users swapped.
CommitPasswordSwapped(r) ==
  /\ pc[r] = "commit"
  /\ password' = op[r].token
  /\ Release(r)
  /\ Goto(r, "committed")
  /\ UNCHANGED <<now, sessions, tokens, created, expires, delivered, op, began>>

\* Variant: the transaction is left open.
CommitPasswordHolding(r) ==
  /\ pc[r] = "commit"
  /\ password' = r
  /\ Goto(r, "committed")
  /\ UNCHANGED <<now, sessions, tokens, created, expires, delivered, op,
                 began, ulock, tlock, marks, revokes, todo>>

\* COMMIT of ResetPassword and of ChangePassword.
CommitPassword(r) ==
  /\ pc[r] = "commit"
  /\ password' = r
  /\ tokens' = Marked(r)
  /\ sessions' = [s \in Sessions |-> IF s \in revokes[r] THEN "revoked" ELSE sessions[s]]
  /\ Release(r)
  /\ Goto(r, "committed")
  /\ UNCHANGED <<now, created, expires, delivered, op, began>>

-----------------------------------------------------------------------------
\* Logout: one UPDATE, which waits while another request holds the session.
Logout(r) ==
  /\ \E s \in Sessions :
       /\ sessions[s] # "absent"
       /\ SessionRowFree(r, s)
       /\ Arrive(r, Request("logout", None, s, None), "committed")
       /\ sessions' = [sessions EXCEPT ![s] = "revoked"]
  /\ UNCHANGED <<now, password, tokens, created, expires, delivered, locks>>

\* The client goes away, the connection drops, the process dies or a deadlock
\* is broken: PostgreSQL rolls back.  A committed token stays as it is.
Fail(r) ==
  /\ pc[r] \in Statements \cup Mailing
  /\ Release(r)
  /\ Goto(r, "failed")
  /\ UNCHANGED <<now, db, op, began>>

Tick ==
  /\ now < MaxNow
  /\ now' = now + 1
  /\ UNCHANGED <<db, pc, op, began, locks>>

-----------------------------------------------------------------------------
\* What request r executes when nothing stands in its way.
Step(r) ==
  \/ InsertSession(r) \/ CommitLogin(r)
  \/ CheckCooldown(r) \/ InsertToken(r) \/ CommitIssue(r) \/ Send(r) \/ Withdraw(r)
  \/ BeginConsume(r) \/ ConsumeRow(r) \/ EndConsume(r)
  \/ BeginRevoke(r) \/ RevokeRow(r) \/ EndRevoke(r)
  \/ FindToken(r) \/ WriteHash(r) \/ LockUser(r) \/ CommitPassword(r)

Start(r) ==
  StartLogin(r) \/ StartIssue(r) \/ StartReset(r) \/ StartChange(r) \/ Logout(r)

Next == Tick \/ \E r \in Reqs : Start(r) \/ Step(r) \/ Fail(r)

Spec == Init /\ [][Next]_vars

-----------------------------------------------------------------------------
(* PostgreSQL aborts one transaction of every cycle of waiting ones.        *)

WaitsFor(r, q) ==
  /\ r # q
  /\ \/ pc[r] \in {"insertSession", "insertToken"} /\ Conflict("KS", ulock[q])
     \/ pc[r] = "writeHash" /\ Conflict("NKU", ulock[q])
     \/ pc[r] = "lockUser" /\ Conflict("FU", ulock[q])
     \/ pc[r] = "findToken" /\ Redeemable(r, op[r].token) /\ op[r].token \in tlock[q]
     \/ /\ pc[r] = "consuming" /\ todo[r] \cap tlock[q] # {}
        /\ \A t \in todo[r] : ~TokenRowFree(r, t)
     \/ /\ pc[r] = "revoking" /\ todo[r] \cap revokes[q] # {}
        /\ \A s \in todo[r] : ~SessionRowFree(r, s)

\* None of them can go on before another of them has ended.
Stuck(C) == C # {} /\ \A q \in C : \E p \in C : WaitsFor(q, p)

Deadlocked(r) == \E C \in SUBSET Reqs : r \in C /\ Stuck(C)

\* The server schedules every request's goroutine, and PostgreSQL detects
\* deadlocks after deadlock_timeout.
Fairness ==
  /\ \A r \in Reqs : WF_vars(Step(r))
  /\ WF_vars(\E r \in Reqs : Deadlocked(r) /\ Fail(r))

FairSpec == Spec /\ Fairness

-----------------------------------------------------------------------------
(* Properties                                                               *)

Committed(r, kind) == op[r].kind = kind /\ pc[r] = "committed"

Commits(r, kind) == /\ op[r].kind = kind
                    /\ pc[r] = "commit"
                    /\ pc'[r] = "committed"

\* A reset token changes the password once: of all the confirmations that
\* name it, however they interleave, one commits (ResetPassword's SELECT ...
\* FOR UPDATE with its recheck of used_at).
SingleUse ==
  \A r, q \in Reqs :
    (/\ Committed(r, "reset")
     /\ Committed(q, "reset")
     /\ op[r].token = op[q].token) => r = q

\* When ChangePassword commits, the session it was made in is the only one of
\* the account that may still be live and no reset link is left, whatever
\* logins and reset requests were in flight: its FOR UPDATE on the users row
\* keeps out every INSERT that references it.
ChangeLeavesOwnSession ==
  [][\A r \in Reqs : Commits(r, "change") =>
       /\ \A s \in Sessions : sessions'[s] = "live" => s = op[r].session
       /\ \A t \in Tokens : tokens'[t] # "live"]_vars

\* ChangePassword never overwrites a password it has not verified: nobody
\* sets another one between its check and its commit.
ChangeReplacesVerified ==
  [][\A r \in Reqs : Commits(r, "change") => password = op[r].secret]_vars

\* Once a reset or a change has committed, no session and no link from before
\* all these requests is usable, but the session the change was made in.
EarlierCredentialsEnd ==
  \A r \in Reqs :
    Committed(r, "reset") \/ Committed(r, "change") =>
      /\ \A s \in InitSessions \ {op[r].session} : sessions[s] # "live"
      /\ \A t \in InitTokens : tokens[t] # "live"

\* README.md says a confirmed reset `revokes every existing session for the
\* account': none that is committed when the reset commits stays live.
ResetRevokesExisting ==
  [][\A r \in Reqs : Commits(r, "reset") =>
       \A s \in Sessions : sessions'[s] # "live"]_vars

\* Whenever requests deadlock, one of them waits for a link in its UPDATE of the
\* links: over the account and its sessions nobody ever deadlocks, because the
\* account is locked before the sessions.
DeadlockOverLinks ==
  \A C \in SUBSET Reqs : Stuck(C) => \E r \in C : pc[r] = "consuming"

\* Every request that arrives is answered: a deadlock between the password
\* writers and the reset requests, which lock the users row and the token
\* rows in different orders, is always broken.
RequestsEnd == \A r \in Reqs : pc[r] # "idle" ~> pc[r] \in Ended

\* The statements of a transaction take effect at once, for good, or not at
\* all: every step of the code is a step of the ledger, or invisible there.
Ledger == INSTANCE CredentialLedger WITH
  AllSessions   <- Sessions,
  AllTokens     <- Tokens,
  AllPasswords  <- Passwords,
  FirstSessions <- InitSessions,
  FirstTokens   <- InitTokens,
  FirstPassword <- InitialPassword,
  current       <- password,
  open          <- {s \in Sessions : sessions[s] = "live"},
  closed        <- {s \in Sessions : sessions[s] = "revoked"},
  outstanding   <- {t \in Tokens : tokens[t] = "live"},
  spent         <- {t \in Tokens : tokens[t] \in {"used", "deleted"}}

\* The detailed specification implements the ledger.
ImplementsLedger == Ledger!Spec
=============================================================================
