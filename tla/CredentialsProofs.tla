------------------------- MODULE CredentialsProofs -------------------------
(***************************************************************************)
(* Theorems about Credentials.tla, for every set of requests, sessions and *)
(* tokens.  IInv is the inductive invariant all of them rest on.           *)
(***************************************************************************)
EXTENDS Credentials, TLAPS

\* Places where a request has no row of tokens or of sessions locked.
Outside == {"idle", "cooldown", "findToken", "lockUser"} \cup Ended \cup Mailing

\* Where a request of each kind can be, and what it names.
Phases ==
  \A r \in Reqs :
    /\ pc[r] = "idle" => op[r].kind = "none"
    /\ pc[r] \in {"insertSession", "commitLogin"} => op[r].kind = "login"
    /\ pc[r] \in {"cooldown", "insertToken", "commitIssue", "send", "withdraw"}
         => op[r].kind = "issue"
    /\ pc[r] \in {"findToken", "writeHash"} => op[r].kind = "reset"
    /\ pc[r] = "lockUser" => op[r].kind = "change"
    /\ pc[r] \in {"consume", "consuming"} => op[r].kind \in {"issue", "reset", "change"}
    /\ pc[r] \in {"revoke", "revoking", "commit"} => op[r].kind \in {"reset", "change"}
    /\ op[r].kind = "reset" => op[r].token \in Tokens
    /\ op[r].kind = "change" => op[r].session \in Sessions

\* Names are used once: the session or the token a request makes does not
\* exist before its commit, and does after.
Fresh ==
  \A r \in Reqs :
    /\ sessions[r] # "absent" => op[r].kind = "login" /\ pc[r] = "committed"
    /\ tokens[r] # "absent" =>
         op[r].kind = "issue" /\ pc[r] \in {"send", "withdraw", "committed", "failed"}
    /\ pc[r] \in Mailing => tokens[r] # "absent"

\* Locks on the users row are compatible, and each is held where it matters.
UserLocks ==
  /\ \A r, q \in Reqs : r # q => ~Conflict(ulock[r], ulock[q])
  /\ \A r \in Reqs :
       /\ pc[r] \in {"commitLogin", "commitIssue"} => ulock[r] = "KS"
       /\ op[r].kind = "reset"
          /\ pc[r] \in {"consume", "consuming", "revoke", "revoking", "commit"}
            => ulock[r] = "NKU"
       /\ op[r].kind = "change"
          /\ pc[r] \in {"consume", "consuming", "revoke", "revoking", "commit"}
            => ulock[r] = "FU"

\* A token row has one holder, and only tokens that were issued and not
\* withdrawn are held; sessions a request revokes were opened before.
RowLocks ==
  /\ \A r, q \in Reqs : r # q => tlock[r] \cap tlock[q] = {}
  /\ \A r \in Reqs :
       /\ pc[r] \in Outside => tlock[r] = {} /\ revokes[r] = {}
       /\ marks[r] \subseteq tlock[r]
       /\ \A t \in tlock[r] : tokens[t] \in {"live", "used"}
       /\ \A s \in revokes[r] : sessions[s] # "absent"

\* A reset past its SELECT holds its own token, which is still live, and has
\* marked it once its UPDATE of the tokens is over.
ResetHolds ==
  \A r \in Reqs : op[r].kind = "reset" =>
    /\ pc[r] \in {"writeHash", "consume", "consuming", "revoke", "revoking", "commit"}
         => op[r].token \in tlock[r] /\ tokens[op[r].token] = "live"
    /\ pc[r] = "consuming" => op[r].token \in todo[r] \cup marks[r]
    /\ pc[r] \in {"revoke", "revoking", "commit"} => op[r].token \in marks[r]
    /\ pc[r] = "committed" => tokens[op[r].token] \in {"used", "deleted"}

\* A change past its SELECT has verified the password, and its UPDATEs spare
\* its own session and reach everything else that is live: nothing becomes
\* live while it runs.
ChangeHolds ==
  \A r \in Reqs : op[r].kind = "change" =>
    /\ pc[r] \in {"revoke", "revoking", "consume", "consuming", "commit"}
         => password = op[r].secret
    /\ op[r].session \notin revokes[r]
    /\ pc[r] = "revoking" => op[r].session \notin todo[r]
    /\ pc[r] = "revoking" =>
         \A s \in Sessions : sessions[s] = "live" =>
           s = op[r].session \/ s \in todo[r] \cup revokes[r]
    /\ pc[r] \in {"consume", "consuming", "commit"} =>
         \A s \in Sessions : sessions[s] = "live" =>
           s = op[r].session \/ s \in revokes[r]
    /\ pc[r] = "consuming" =>
         \A t \in Tokens : tokens[t] = "live" => t \in todo[r] \cup marks[r]
    /\ pc[r] = "commit" =>
         \A t \in Tokens : tokens[t] = "live" => t \in marks[r]

IInv == /\ TypeOK
        /\ Phases
        /\ Fresh
        /\ UserLocks
        /\ RowLocks
        /\ ResetHolds
        /\ ChangeHolds
-----------------------------------------------------------------------------
(* The invariant is inductive                                               *)

\* A confirmation that has read its link goes on or is refused.
LEMMA FindTokenMoves ==
  ASSUME NEW r, FindToken(r)
  PROVE  pc' = [pc EXCEPT ![r] = "writeHash"] \/ pc' = [pc EXCEPT ![r] = "refused"]
BY DEF FindToken, Goto

\* A step keeps every variable in its type: requests lock token rows and
\* revoke session rows of the account only.
LEMMA TypeStep == TypeOK /\ Phases /\ [Next]_vars => TypeOK'
<1> SUFFICES ASSUME TypeOK /\ Phases, [Next]_vars PROVE TypeOK'
  OBVIOUS
<1> USE NamesAssumption, TimesAssumption DEF TypeOK, LockModes, vars, db, locks, Sessions, Tokens, Passwords, Ended, Statements, Mailing, Kinds
<1>1. CASE UNCHANGED vars
  BY <1>1
<1>2. CASE Tick
  BY <1>2 DEF Tick
<1>3. ASSUME NEW r \in Reqs, StartLogin(r) PROVE TypeOK'
  BY <1>3 DEF StartLogin, Arrive, Goto, Request
<1>4. ASSUME NEW r \in Reqs, StartIssue(r) PROVE TypeOK'
  BY <1>4 DEF StartIssue, Arrive, Goto, Request
<1>5. ASSUME NEW r \in Reqs, StartReset(r) PROVE TypeOK'
  BY <1>5 DEF StartReset, Arrive, Goto, Request
<1>6. ASSUME NEW r \in Reqs, StartChange(r) PROVE TypeOK'
  BY <1>6 DEF StartChange, Arrive, Goto, Request
<1>7. ASSUME NEW r \in Reqs, Logout(r) PROVE TypeOK'
  BY <1>7 DEF Logout, Arrive, Goto, Request
<1>8. ASSUME NEW r \in Reqs, InsertSession(r) PROVE TypeOK'
  BY <1>8 DEF InsertSession, Goto
<1>9. ASSUME NEW r \in Reqs, CommitLogin(r) PROVE TypeOK'
  BY <1>9 DEF CommitLogin, Release, Goto
<1>10. ASSUME NEW r \in Reqs, CheckCooldown(r) PROVE TypeOK'
  BY <1>10 DEF CheckCooldown, Goto
<1>11. ASSUME NEW r \in Reqs, InsertToken(r) PROVE TypeOK'
  BY <1>11 DEF InsertToken, Goto
<1>12. ASSUME NEW r \in Reqs, CommitIssue(r) PROVE TypeOK'
  BY <1>12 DEF CommitIssue, Release, Goto, Marked
<1>13. ASSUME NEW r \in Reqs, Send(r) PROVE TypeOK'
  <2>1. pc' = [pc EXCEPT ![r] = "committed"] \/ pc' = [pc EXCEPT ![r] = "withdraw"]
    BY <1>13 DEF Send, Goto
  <2>2. delivered' \subseteq Tokens
    BY <1>13 DEF Send
  <2>3. UNCHANGED <<now, password, sessions, tokens, created, expires, op, began,
                    ulock, tlock, marks, revokes, todo>>
    BY <1>13 DEF Send
  <2>4. pc' \in [Reqs -> {"idle"} \cup Statements \cup Mailing \cup Ended]
    BY <2>1
  <2>5. \A q \in Reqs : /\ pc'[q] = "consuming" => todo'[q] \subseteq Tokens
                        /\ pc'[q] = "revoking" => todo'[q] \subseteq Sessions
    BY <2>1, <2>3
  <2> HIDE DEF LockModes, Sessions, Tokens, Passwords, Ended, Statements, Mailing, Kinds
  <2> QED
    BY <2>2, <2>3, <2>4, <2>5
<1>14. ASSUME NEW r \in Reqs, Withdraw(r) PROVE TypeOK'
  BY <1>14 DEF Withdraw, Goto
<1>15. ASSUME NEW r \in Reqs, BeginConsume(r) PROVE TypeOK'
  BY <1>15 DEF BeginConsume, Goto
<1>16. ASSUME NEW r \in Reqs, ConsumeRow(r) PROVE TypeOK'
  <2>1. PICK t \in todo[r] :
          /\ todo' = [todo EXCEPT ![r] = todo[r] \ {t}]
          /\ \/ /\ tlock' = [tlock EXCEPT ![r] = tlock[r] \cup {t}]
                /\ marks' = [marks EXCEPT ![r] = marks[r] \cup {t}]
             \/ UNCHANGED <<tlock, marks>>
    BY <1>16 DEF ConsumeRow
  <2>2. pc[r] = "consuming" /\ t \in Tokens
    BY <2>1, <1>16 DEF ConsumeRow
  <2>3. tlock' \in [Reqs -> SUBSET Tokens] /\ marks' \in [Reqs -> SUBSET Tokens]
    BY <2>1, <2>2
  <2>4. UNCHANGED <<now, password, sessions, tokens, created, expires, delivered,
                    pc, op, began, ulock, revokes>>
    BY <1>16 DEF ConsumeRow
  <2>5. todo' \in [Reqs -> SUBSET (Tokens \cup Sessions)]
    BY <2>1
  <2>6. \A q \in Reqs : /\ pc'[q] = "consuming" => todo'[q] \subseteq Tokens
                        /\ pc'[q] = "revoking" => todo'[q] \subseteq Sessions
    BY <2>1, <2>2, <2>4
  <2> HIDE DEF LockModes, Sessions, Tokens, Passwords, Ended, Statements, Mailing, Kinds
  <2> QED
    BY <2>3, <2>4, <2>5, <2>6
<1>17. ASSUME NEW r \in Reqs, EndConsume(r) PROVE TypeOK'
  BY <1>17 DEF EndConsume, Goto, AfterConsume
<1>18. ASSUME NEW r \in Reqs, BeginRevoke(r) PROVE TypeOK'
  BY <1>18 DEF BeginRevoke, Goto
<1>19. ASSUME NEW r \in Reqs, RevokeRow(r) PROVE TypeOK'
  <2>1. PICK s \in todo[r] :
          /\ todo' = [todo EXCEPT ![r] = todo[r] \ {s}]
          /\ revokes' = [revokes EXCEPT ![r] = IF sessions[s] = "live" THEN revokes[r] \cup {s} ELSE revokes[r]]
    BY <1>19 DEF RevokeRow
  <2>2. pc[r] = "revoking" /\ s \in Sessions
    BY <2>1, <1>19 DEF RevokeRow
  <2>3. revokes' \in [Reqs -> SUBSET Sessions]
    BY <2>1, <2>2
  <2>4. UNCHANGED <<now, password, sessions, tokens, created, expires, delivered,
                    pc, op, began, ulock, tlock, marks>>
    BY <1>19 DEF RevokeRow, db
  <2>5. todo' \in [Reqs -> SUBSET (Tokens \cup Sessions)]
    BY <2>1
  <2>6. \A q \in Reqs : /\ pc'[q] = "consuming" => todo'[q] \subseteq Tokens
                        /\ pc'[q] = "revoking" => todo'[q] \subseteq Sessions
    BY <2>1, <2>2, <2>4
  <2> HIDE DEF LockModes, Sessions, Tokens, Passwords, Ended, Statements, Mailing, Kinds
  <2> QED
    BY <2>3, <2>4, <2>5, <2>6
<1>20. ASSUME NEW r \in Reqs, EndRevoke(r) PROVE TypeOK'
  BY <1>20 DEF EndRevoke, Goto, AfterRevoke
<1>21. ASSUME NEW r \in Reqs, FindToken(r) PROVE TypeOK'
  <2>1. op[r].token \in Tokens
    BY <1>21 DEF FindToken, Phases
  <2>2. tlock' \in [Reqs -> SUBSET Tokens]
    BY <2>1, <1>21 DEF FindToken
  <2>0. pc' = [pc EXCEPT ![r] = "writeHash"] \/ pc' = [pc EXCEPT ![r] = "refused"]
    BY <1>21, FindTokenMoves
  <2>3. pc' \in [Reqs -> {"idle"} \cup Statements \cup Mailing \cup Ended]
    BY <2>0
  <2>4. pc'[r] \in {"writeHash", "refused"} /\ \A q \in Reqs \ {r} : pc'[q] = pc[q]
    BY <2>0
  <2>5. UNCHANGED <<now, password, sessions, tokens, created, expires, delivered,
                    op, began, ulock, marks, revokes, todo>>
    BY <1>21 DEF FindToken
  <2>6. \A q \in Reqs : /\ pc'[q] = "consuming" => todo'[q] \subseteq Tokens
                        /\ pc'[q] = "revoking" => todo'[q] \subseteq Sessions
    BY <2>4, <2>5
  <2> HIDE DEF LockModes, Sessions, Tokens, Passwords, Ended, Statements, Mailing, Kinds
  <2> QED
    BY <2>2, <2>3, <2>5, <2>6
<1>22. ASSUME NEW r \in Reqs, WriteHash(r) PROVE TypeOK'
  BY <1>22 DEF WriteHash, Goto
<1>23. ASSUME NEW r \in Reqs, LockUser(r) PROVE TypeOK'
  <2> DEFINE moved == pc' = [pc EXCEPT ![r] = "revoke"] \/ pc' = [pc EXCEPT ![r] = "refused"]
  <2>0. moved
    BY <1>23 DEF LockUser, Goto
  <2>1. pc' \in [Reqs -> {"idle"} \cup Statements \cup Mailing \cup Ended]
    BY <2>0
  <2>2. pc'[r] \in {"revoke", "refused"} /\ \A q \in Reqs \ {r} : pc'[q] = pc[q]
    BY <2>0
  <2>3. ulock' \in [Reqs -> LockModes]
    BY <1>23 DEF LockUser
  <2>4. UNCHANGED <<now, password, sessions, tokens, created, expires, delivered,
                    op, began, tlock, marks, revokes, todo>>
    BY <1>23 DEF LockUser
  <2>5. \A q \in Reqs : /\ pc'[q] = "consuming" => todo'[q] \subseteq Tokens
                        /\ pc'[q] = "revoking" => todo'[q] \subseteq Sessions
    BY <2>2, <2>4
  <2> HIDE DEF LockModes, Sessions, Tokens, Passwords, Ended, Statements, Mailing, Kinds
  <2> QED
    BY <2>1, <2>3, <2>4, <2>5
<1>24. ASSUME NEW r \in Reqs, CommitPassword(r) PROVE TypeOK'
  BY <1>24 DEF CommitPassword, Release, Goto, Marked
<1>25. ASSUME NEW r \in Reqs, Fail(r) PROVE TypeOK'
  BY <1>25 DEF Fail, Release, Goto
<1> HIDE DEF TypeOK, LockModes, vars, db, locks, Sessions, Tokens, Passwords, Ended, Statements, Mailing, Kinds
<1>26. QED
  BY <1>1, <1>2, <1>3, <1>4, <1>5, <1>6, <1>7, <1>8, <1>9, <1>10, <1>11, <1>12, <1>13, <1>14, <1>15, <1>16, <1>17, <1>18, <1>19, <1>20, <1>21, <1>22, <1>23, <1>24, <1>25 DEF Next, Start, Step

\* A step leaves each request at a statement of the operation it asked for.
LEMMA PhasesStep == TypeOK /\ Phases /\ [Next]_vars => Phases'
<1> SUFFICES ASSUME TypeOK /\ Phases, [Next]_vars PROVE Phases'
  OBVIOUS
<1> USE NamesAssumption, TimesAssumption DEF TypeOK, LockModes, vars, db, locks, Sessions, Tokens, Passwords, Ended, Statements, Mailing, Kinds, Phases
<1>1. CASE UNCHANGED vars
  BY <1>1
<1>2. CASE Tick
  BY <1>2 DEF Tick
<1>3. ASSUME NEW r \in Reqs, StartLogin(r) PROVE Phases'
  BY <1>3 DEF StartLogin, Arrive, Goto, Request
<1>4. ASSUME NEW r \in Reqs, StartIssue(r) PROVE Phases'
  BY <1>4 DEF StartIssue, Arrive, Goto, Request
<1>5. ASSUME NEW r \in Reqs, StartReset(r) PROVE Phases'
  BY <1>5 DEF StartReset, Arrive, Goto, Request
<1>6. ASSUME NEW r \in Reqs, StartChange(r) PROVE Phases'
  BY <1>6 DEF StartChange, Arrive, Goto, Request
<1>7. ASSUME NEW r \in Reqs, Logout(r) PROVE Phases'
  BY <1>7 DEF Logout, Arrive, Goto, Request
<1>8. ASSUME NEW r \in Reqs, InsertSession(r) PROVE Phases'
  BY <1>8 DEF InsertSession, Goto
<1>9. ASSUME NEW r \in Reqs, CommitLogin(r) PROVE Phases'
  BY <1>9 DEF CommitLogin, Release, Goto
<1>10. ASSUME NEW r \in Reqs, CheckCooldown(r) PROVE Phases'
  BY <1>10 DEF CheckCooldown, Goto
<1>11. ASSUME NEW r \in Reqs, InsertToken(r) PROVE Phases'
  BY <1>11 DEF InsertToken, Goto
<1>12. ASSUME NEW r \in Reqs, CommitIssue(r) PROVE Phases'
  BY <1>12 DEF CommitIssue, Release, Goto, Marked
<1>13. ASSUME NEW r \in Reqs, Send(r) PROVE Phases'
  BY <1>13 DEF Send, Goto
<1>14. ASSUME NEW r \in Reqs, Withdraw(r) PROVE Phases'
  BY <1>14 DEF Withdraw, Goto
<1>15. ASSUME NEW r \in Reqs, BeginConsume(r) PROVE Phases'
  BY <1>15 DEF BeginConsume, Goto
<1>16. ASSUME NEW r \in Reqs, ConsumeRow(r) PROVE Phases'
  BY <1>16 DEF ConsumeRow, Goto
<1>17. ASSUME NEW r \in Reqs, EndConsume(r) PROVE Phases'
  BY <1>17 DEF EndConsume, Goto, AfterConsume
<1>18. ASSUME NEW r \in Reqs, BeginRevoke(r) PROVE Phases'
  BY <1>18 DEF BeginRevoke, Goto
<1>19. ASSUME NEW r \in Reqs, RevokeRow(r) PROVE Phases'
  BY <1>19 DEF RevokeRow, Goto
<1>20. ASSUME NEW r \in Reqs, EndRevoke(r) PROVE Phases'
  BY <1>20 DEF EndRevoke, Goto, AfterRevoke
<1>21. ASSUME NEW r \in Reqs, FindToken(r) PROVE Phases'
  BY <1>21 DEF FindToken, Goto
<1>22. ASSUME NEW r \in Reqs, WriteHash(r) PROVE Phases'
  BY <1>22 DEF WriteHash, Goto
<1>23. ASSUME NEW r \in Reqs, LockUser(r) PROVE Phases'
  BY <1>23 DEF LockUser, Goto
<1>24. ASSUME NEW r \in Reqs, CommitPassword(r) PROVE Phases'
  BY <1>24 DEF CommitPassword, Release, Goto, Marked
<1>25. ASSUME NEW r \in Reqs, Fail(r) PROVE Phases'
  BY <1>25 DEF Fail, Release, Goto
<1> HIDE DEF TypeOK, LockModes, vars, db, locks, Sessions, Tokens, Passwords, Ended, Statements, Mailing, Kinds, Phases
<1>26. QED
  BY <1>1, <1>2, <1>3, <1>4, <1>5, <1>6, <1>7, <1>8, <1>9, <1>10, <1>11, <1>12, <1>13, <1>14, <1>15, <1>16, <1>17, <1>18, <1>19, <1>20, <1>21, <1>22, <1>23, <1>24, <1>25 DEF Next, Start, Step

\* No step makes a session or a token visible but the commit of the request
\* that inserted it.
LEMMA FreshStep == TypeOK /\ Phases /\ Fresh /\ RowLocks /\ [Next]_vars => Fresh'
<1> SUFFICES ASSUME TypeOK /\ Phases /\ Fresh /\ RowLocks, [Next]_vars PROVE Fresh'
  OBVIOUS
<1> USE NamesAssumption, TimesAssumption DEF TypeOK, LockModes, vars, db, locks, Sessions, Tokens, Passwords, Ended, Statements, Mailing, Kinds, Phases, Fresh, RowLocks
<1>1. CASE UNCHANGED vars
  BY <1>1
<1>2. CASE Tick
  BY <1>2 DEF Tick
<1>3. ASSUME NEW r \in Reqs, StartLogin(r) PROVE Fresh'
  BY <1>3 DEF StartLogin, Arrive, Goto, Request
<1>4. ASSUME NEW r \in Reqs, StartIssue(r) PROVE Fresh'
  BY <1>4 DEF StartIssue, Arrive, Goto, Request
<1>5. ASSUME NEW r \in Reqs, StartReset(r) PROVE Fresh'
  BY <1>5 DEF StartReset, Arrive, Goto, Request
<1>6. ASSUME NEW r \in Reqs, StartChange(r) PROVE Fresh'
  BY <1>6 DEF StartChange, Arrive, Goto, Request
<1>7. ASSUME NEW r \in Reqs, Logout(r) PROVE Fresh'
  BY <1>7 DEF Logout, Arrive, Goto, Request
<1>8. ASSUME NEW r \in Reqs, InsertSession(r) PROVE Fresh'
  BY <1>8 DEF InsertSession, Goto
<1>9. ASSUME NEW r \in Reqs, CommitLogin(r) PROVE Fresh'
  BY <1>9 DEF CommitLogin, Release, Goto
<1>10. ASSUME NEW r \in Reqs, CheckCooldown(r) PROVE Fresh'
  BY <1>10 DEF CheckCooldown, Goto
<1>11. ASSUME NEW r \in Reqs, InsertToken(r) PROVE Fresh'
  BY <1>11 DEF InsertToken, Goto
<1>12. ASSUME NEW r \in Reqs, CommitIssue(r) PROVE Fresh'
  <2>1. tokens' = [t \in Tokens |-> IF t = r THEN "live"
                     ELSE IF t \in marks[r] THEN "used" ELSE tokens[t]]
    BY <1>12 DEF CommitIssue, Marked
  <2>2. /\ tokens'[r] = "live"
        /\ \A q \in Reqs \ {r} : tokens'[q] # "absent" <=> tokens[q] # "absent"
    BY <2>1
  <2>3. /\ pc[r] = "commitIssue" /\ pc' = [pc EXCEPT ![r] = "send"]
        /\ UNCHANGED <<sessions, op>>
    BY <1>12 DEF CommitIssue, Goto
  <2> QED
    BY <2>2, <2>3
<1>13. ASSUME NEW r \in Reqs, Send(r) PROVE Fresh'
  BY <1>13 DEF Send, Goto
<1>14. ASSUME NEW r \in Reqs, Withdraw(r) PROVE Fresh'
  BY <1>14 DEF Withdraw, Goto
<1>15. ASSUME NEW r \in Reqs, BeginConsume(r) PROVE Fresh'
  BY <1>15 DEF BeginConsume, Goto
<1>16. ASSUME NEW r \in Reqs, ConsumeRow(r) PROVE Fresh'
  BY <1>16 DEF ConsumeRow, Goto
<1>17. ASSUME NEW r \in Reqs, EndConsume(r) PROVE Fresh'
  BY <1>17 DEF EndConsume, Goto, AfterConsume
<1>18. ASSUME NEW r \in Reqs, BeginRevoke(r) PROVE Fresh'
  BY <1>18 DEF BeginRevoke, Goto
<1>19. ASSUME NEW r \in Reqs, RevokeRow(r) PROVE Fresh'
  BY <1>19 DEF RevokeRow, Goto
<1>20. ASSUME NEW r \in Reqs, EndRevoke(r) PROVE Fresh'
  BY <1>20 DEF EndRevoke, Goto, AfterRevoke
<1>21. ASSUME NEW r \in Reqs, FindToken(r) PROVE Fresh'
  BY <1>21 DEF FindToken, Goto
<1>22. ASSUME NEW r \in Reqs, WriteHash(r) PROVE Fresh'
  BY <1>22 DEF WriteHash, Goto
<1>23. ASSUME NEW r \in Reqs, LockUser(r) PROVE Fresh'
  BY <1>23 DEF LockUser, Goto
<1>24. ASSUME NEW r \in Reqs, CommitPassword(r) PROVE Fresh'
  <2>1. pc[r] = "commit" /\ pc' = [pc EXCEPT ![r] = "committed"] /\ op' = op
    BY <1>24 DEF CommitPassword, Goto
  <2>2. op[r].kind \in {"reset", "change"}
    BY <2>1
  <2>3. \A q \in Reqs : /\ sessions'[q] # "absent" => sessions[q] # "absent"
                        /\ tokens'[q] # "absent" <=> tokens[q] # "absent"
    <3>1. \A t \in marks[r] : tokens[t] # "absent"
      BY <2>1
    <3> QED
      BY <3>1, <1>24 DEF CommitPassword, Marked
  <2> QED
    BY <2>1, <2>2, <2>3
<1>25. ASSUME NEW r \in Reqs, Fail(r) PROVE Fresh'
  BY <1>25 DEF Fail, Release, Goto
<1> HIDE DEF TypeOK, LockModes, vars, db, locks, Sessions, Tokens, Passwords, Ended, Statements, Mailing, Kinds, Phases, Fresh, RowLocks
<1>26. QED
  BY <1>1, <1>2, <1>3, <1>4, <1>5, <1>6, <1>7, <1>8, <1>9, <1>10, <1>11, <1>12, <1>13, <1>14, <1>15, <1>16, <1>17, <1>18, <1>19, <1>20, <1>21, <1>22, <1>23, <1>24, <1>25 DEF Next, Start, Step

\* The locks on the users row stay compatible, and a transaction keeps its
\* own until it ends.
LEMMA UserLocksStep == TypeOK /\ Phases /\ UserLocks /\ [Next]_vars => UserLocks'
<1> SUFFICES ASSUME TypeOK /\ Phases /\ UserLocks, [Next]_vars PROVE UserLocks'
  OBVIOUS
<1> USE NamesAssumption, TimesAssumption DEF TypeOK, LockModes, vars, db, locks, Sessions, Tokens, Passwords, Ended, Statements, Mailing, Kinds, Phases, UserLocks, Conflict, UserLockFree, AfterConsume, AfterRevoke
<1>1. CASE UNCHANGED vars
  BY <1>1
<1>2. CASE Tick
  BY <1>2 DEF Tick
<1>3. ASSUME NEW r \in Reqs, StartLogin(r) PROVE UserLocks'
  BY <1>3 DEF StartLogin, Arrive, Goto, Request
<1>4. ASSUME NEW r \in Reqs, StartIssue(r) PROVE UserLocks'
  BY <1>4 DEF StartIssue, Arrive, Goto, Request
<1>5. ASSUME NEW r \in Reqs, StartReset(r) PROVE UserLocks'
  BY <1>5 DEF StartReset, Arrive, Goto, Request
<1>6. ASSUME NEW r \in Reqs, StartChange(r) PROVE UserLocks'
  BY <1>6 DEF StartChange, Arrive, Goto, Request
<1>7. ASSUME NEW r \in Reqs, Logout(r) PROVE UserLocks'
  BY <1>7 DEF Logout, Arrive, Goto, Request
<1>8. ASSUME NEW r \in Reqs, InsertSession(r) PROVE UserLocks'
  BY <1>8 DEF InsertSession, Goto
<1>9. ASSUME NEW r \in Reqs, CommitLogin(r) PROVE UserLocks'
  BY <1>9 DEF CommitLogin, Release, Goto
<1>10. ASSUME NEW r \in Reqs, CheckCooldown(r) PROVE UserLocks'
  BY <1>10 DEF CheckCooldown, Goto
<1>11. ASSUME NEW r \in Reqs, InsertToken(r) PROVE UserLocks'
  BY <1>11 DEF InsertToken, Goto
<1>12. ASSUME NEW r \in Reqs, CommitIssue(r) PROVE UserLocks'
  BY <1>12 DEF CommitIssue, Release, Goto, Marked
<1>13. ASSUME NEW r \in Reqs, Send(r) PROVE UserLocks'
  BY <1>13 DEF Send, Goto
<1>14. ASSUME NEW r \in Reqs, Withdraw(r) PROVE UserLocks'
  BY <1>14 DEF Withdraw, Goto
<1>15. ASSUME NEW r \in Reqs, BeginConsume(r) PROVE UserLocks'
  BY <1>15 DEF BeginConsume, Goto
<1>16. ASSUME NEW r \in Reqs, ConsumeRow(r) PROVE UserLocks'
  BY <1>16 DEF ConsumeRow, Goto
<1>17. ASSUME NEW r \in Reqs, EndConsume(r) PROVE UserLocks'
  BY <1>17 DEF EndConsume, Goto, AfterConsume
<1>18. ASSUME NEW r \in Reqs, BeginRevoke(r) PROVE UserLocks'
  BY <1>18 DEF BeginRevoke, Goto
<1>19. ASSUME NEW r \in Reqs, RevokeRow(r) PROVE UserLocks'
  BY <1>19 DEF RevokeRow, Goto
<1>20. ASSUME NEW r \in Reqs, EndRevoke(r) PROVE UserLocks'
  BY <1>20 DEF EndRevoke, Goto, AfterRevoke
<1>21. ASSUME NEW r \in Reqs, FindToken(r) PROVE UserLocks'
  BY <1>21 DEF FindToken, Goto
<1>22. ASSUME NEW r \in Reqs, WriteHash(r) PROVE UserLocks'
  BY <1>22 DEF WriteHash, Goto
<1>23. ASSUME NEW r \in Reqs, LockUser(r) PROVE UserLocks'
  <2>1. CASE Verifies(op[r].secret)
    <3>1. /\ ulock' = [ulock EXCEPT ![r] = "FU"] /\ pc' = [pc EXCEPT ![r] = "revoke"]
          /\ op' = op /\ pc[r] = "lockUser" /\ UserLockFree(r, "FU")
      BY <2>1, <1>23 DEF LockUser, Goto
    <3>2. \A q \in Reqs \ {r} : ulock'[q] = "none" /\ pc'[q] = pc[q]
      BY <3>1
    <3> QED
      BY <3>1, <3>2
  <2>2. CASE ~Verifies(op[r].secret)
    <3>1. ulock' = ulock /\ pc' = [pc EXCEPT ![r] = "refused"] /\ op' = op
      BY <2>2, <1>23 DEF LockUser, Goto
    <3> QED
      BY <3>1
  <2> QED
    BY <2>1, <2>2
<1>24. ASSUME NEW r \in Reqs, CommitPassword(r) PROVE UserLocks'
  BY <1>24 DEF CommitPassword, Release, Goto, Marked
<1>25. ASSUME NEW r \in Reqs, Fail(r) PROVE UserLocks'
  BY <1>25 DEF Fail, Release, Goto
<1> HIDE DEF TypeOK, LockModes, vars, db, locks, Sessions, Tokens, Passwords, Ended, Statements, Mailing, Kinds, Phases, UserLocks, Conflict, UserLockFree, AfterConsume, AfterRevoke
<1>26. QED
  BY <1>1, <1>2, <1>3, <1>4, <1>5, <1>6, <1>7, <1>8, <1>9, <1>10, <1>11, <1>12, <1>13, <1>14, <1>15, <1>16, <1>17, <1>18, <1>19, <1>20, <1>21, <1>22, <1>23, <1>24, <1>25 DEF Next, Start, Step

\* No two requests ever hold one token row.
LEMMA RowLocksStep == TypeOK /\ Phases /\ Fresh /\ RowLocks /\ [Next]_vars => RowLocks'
<1> SUFFICES ASSUME TypeOK /\ Phases /\ Fresh /\ RowLocks, [Next]_vars PROVE RowLocks'
  OBVIOUS
<1> USE NamesAssumption, TimesAssumption DEF TypeOK, LockModes, vars, db, locks, Sessions, Tokens, Passwords, Ended, Statements, Mailing, Kinds, Phases, Fresh, RowLocks, Outside, TokenRowFree, SessionRowFree, Consumable, Redeemable
<1>1. CASE UNCHANGED vars
  BY <1>1
<1>2. CASE Tick
  BY <1>2 DEF Tick
<1>3. ASSUME NEW r \in Reqs, StartLogin(r) PROVE RowLocks'
  BY <1>3 DEF StartLogin, Arrive, Goto, Request
<1>4. ASSUME NEW r \in Reqs, StartIssue(r) PROVE RowLocks'
  BY <1>4 DEF StartIssue, Arrive, Goto, Request
<1>5. ASSUME NEW r \in Reqs, StartReset(r) PROVE RowLocks'
  BY <1>5 DEF StartReset, Arrive, Goto, Request
<1>6. ASSUME NEW r \in Reqs, StartChange(r) PROVE RowLocks'
  BY <1>6 DEF StartChange, Arrive, Goto, Request
<1>7. ASSUME NEW r \in Reqs, Logout(r) PROVE RowLocks'
  BY <1>7 DEF Logout, Arrive, Goto, Request
<1>8. ASSUME NEW r \in Reqs, InsertSession(r) PROVE RowLocks'
  BY <1>8 DEF InsertSession, Goto
<1>9. ASSUME NEW r \in Reqs, CommitLogin(r) PROVE RowLocks'
  BY <1>9 DEF CommitLogin, Release, Goto
<1>10. ASSUME NEW r \in Reqs, CheckCooldown(r) PROVE RowLocks'
  BY <1>10 DEF CheckCooldown, Goto
<1>11. ASSUME NEW r \in Reqs, InsertToken(r) PROVE RowLocks'
  BY <1>11 DEF InsertToken, Goto
<1>12. ASSUME NEW r \in Reqs, CommitIssue(r) PROVE RowLocks'
  BY <1>12 DEF CommitIssue, Release, Goto, Marked
<1>13. ASSUME NEW r \in Reqs, Send(r) PROVE RowLocks'
  <2>1. /\ pc[r] = "send" /\ pc'[r] \in {"committed", "withdraw"}
        /\ \A q \in Reqs \ {r} : pc'[q] = pc[q]
        /\ UNCHANGED <<tokens, sessions, tlock, marks, revokes>>
    BY <1>13 DEF Send, Goto
  <2>2. \A q \in Reqs : pc'[q] \in Outside => tlock[q] = {} /\ revokes[q] = {}
    BY <2>1
  <2> QED
    BY <2>1, <2>2
<1>14. ASSUME NEW r \in Reqs, Withdraw(r) PROVE RowLocks'
  BY <1>14 DEF Withdraw, Goto
<1>15. ASSUME NEW r \in Reqs, BeginConsume(r) PROVE RowLocks'
  BY <1>15 DEF BeginConsume, Goto
<1>16. ASSUME NEW r \in Reqs, ConsumeRow(r) PROVE RowLocks'
  <2>1. PICK t \in todo[r] :
          /\ TokenRowFree(r, t)
          /\ IF tokens[t] \in Consumable(r)
               THEN /\ tlock' = [tlock EXCEPT ![r] = tlock[r] \cup {t}]
                    /\ marks' = [marks EXCEPT ![r] = marks[r] \cup {t}]
               ELSE UNCHANGED <<tlock, marks>>
    BY <1>16 DEF ConsumeRow
  <2>2. UNCHANGED <<sessions, tokens, pc, op, revokes>> /\ pc[r] = "consuming"
    BY <1>16 DEF ConsumeRow
  <2>3. CASE tokens[t] \in Consumable(r)
    <3>1. tokens[t] \in {"live", "used"} /\ \A q \in Reqs \ {r} : t \notin tlock[q]
      BY <2>1, <2>3
    <3>2. /\ tlock' = [tlock EXCEPT ![r] = tlock[r] \cup {t}]
          /\ marks' = [marks EXCEPT ![r] = marks[r] \cup {t}]
      BY <2>1, <2>3
    <3> QED
      BY <2>2, <3>1, <3>2
  <2>4. CASE tokens[t] \notin Consumable(r)
    BY <2>1, <2>2, <2>4
  <2> QED
    BY <2>3, <2>4
<1>17. ASSUME NEW r \in Reqs, EndConsume(r) PROVE RowLocks'
  BY <1>17 DEF EndConsume, Goto, AfterConsume
<1>18. ASSUME NEW r \in Reqs, BeginRevoke(r) PROVE RowLocks'
  BY <1>18 DEF BeginRevoke, Goto
<1>19. ASSUME NEW r \in Reqs, RevokeRow(r) PROVE RowLocks'
  BY <1>19 DEF RevokeRow, Goto
<1>20. ASSUME NEW r \in Reqs, EndRevoke(r) PROVE RowLocks'
  BY <1>20 DEF EndRevoke, Goto, AfterRevoke
<1>21. ASSUME NEW r \in Reqs, FindToken(r) PROVE RowLocks'
  <2>1. CASE Redeemable(r, op[r].token)
    <3>1. /\ TokenRowFree(r, op[r].token)
          /\ tlock' = [tlock EXCEPT ![r] = tlock[r] \cup {op[r].token}]
          /\ pc[r] = "findToken" /\ pc' = [pc EXCEPT ![r] = "writeHash"]
          /\ tokens[op[r].token] = "live"
          /\ UNCHANGED <<tokens, sessions, marks, revokes>>
      BY <2>1, <1>21 DEF FindToken, Goto
    <3> QED
      BY <3>1
  <2>2. CASE ~Redeemable(r, op[r].token)
    BY <2>2, <1>21 DEF FindToken, Goto
  <2> QED
    BY <2>1, <2>2
<1>22. ASSUME NEW r \in Reqs, WriteHash(r) PROVE RowLocks'
  BY <1>22 DEF WriteHash, Goto
<1>23. ASSUME NEW r \in Reqs, LockUser(r) PROVE RowLocks'
  <2>1. /\ pc'[r] \in {"revoke", "refused"}
        /\ \A q \in Reqs \ {r} : pc'[q] = pc[q]
        /\ pc[r] = "lockUser"
        /\ UNCHANGED <<tokens, sessions, tlock, marks, revokes>>
    BY <1>23 DEF LockUser, Goto
  <2>2. \A q \in Reqs : pc'[q] \in Outside => pc[q] \in Outside
    BY <2>1
  <2> QED
    BY <2>1, <2>2 DEF RowLocks
<1>24. ASSUME NEW r \in Reqs, CommitPassword(r) PROVE RowLocks'
  BY <1>24 DEF CommitPassword, Release, Goto, Marked
<1>25. ASSUME NEW r \in Reqs, Fail(r) PROVE RowLocks'
  BY <1>25 DEF Fail, Release, Goto
<1> HIDE DEF TypeOK, LockModes, vars, db, locks, Sessions, Tokens, Passwords, Ended, Statements, Mailing, Kinds, Phases, Fresh, RowLocks, Outside, TokenRowFree, SessionRowFree, Consumable, Redeemable
<1>26. QED
  BY <1>1, <1>2, <1>3, <1>4, <1>5, <1>6, <1>7, <1>8, <1>9, <1>10, <1>11, <1>12, <1>13, <1>14, <1>15, <1>16, <1>17, <1>18, <1>19, <1>20, <1>21, <1>22, <1>23, <1>24, <1>25 DEF Next, Start, Step

\* While a reset runs, nobody else ends the token it holds; once it has
\* committed, nobody revives it.
LEMMA ResetHoldsStep == TypeOK /\ Phases /\ Fresh /\ RowLocks /\ ResetHolds /\ [Next]_vars => ResetHolds'
<1> SUFFICES ASSUME TypeOK /\ Phases /\ Fresh /\ RowLocks /\ ResetHolds, [Next]_vars PROVE ResetHolds'
  OBVIOUS
<1> USE NamesAssumption, TimesAssumption DEF TypeOK, LockModes, vars, db, locks, Sessions, Tokens, Passwords, Ended, Statements, Mailing, Kinds, Phases, Fresh, RowLocks, ResetHolds, Outside, TokenRowFree, Consumable, Redeemable
<1>1. CASE UNCHANGED vars
  BY <1>1
<1>2. CASE Tick
  BY <1>2 DEF Tick
<1>3. ASSUME NEW r \in Reqs, StartLogin(r) PROVE ResetHolds'
  BY <1>3 DEF StartLogin, Arrive, Goto, Request
<1>4. ASSUME NEW r \in Reqs, StartIssue(r) PROVE ResetHolds'
  BY <1>4 DEF StartIssue, Arrive, Goto, Request
<1>5. ASSUME NEW r \in Reqs, StartReset(r) PROVE ResetHolds'
  BY <1>5 DEF StartReset, Arrive, Goto, Request
<1>6. ASSUME NEW r \in Reqs, StartChange(r) PROVE ResetHolds'
  BY <1>6 DEF StartChange, Arrive, Goto, Request
<1>7. ASSUME NEW r \in Reqs, Logout(r) PROVE ResetHolds'
  BY <1>7 DEF Logout, Arrive, Goto, Request
<1>8. ASSUME NEW r \in Reqs, InsertSession(r) PROVE ResetHolds'
  BY <1>8 DEF InsertSession, Goto
<1>9. ASSUME NEW r \in Reqs, CommitLogin(r) PROVE ResetHolds'
  BY <1>9 DEF CommitLogin, Release, Goto
<1>10. ASSUME NEW r \in Reqs, CheckCooldown(r) PROVE ResetHolds'
  BY <1>10 DEF CheckCooldown, Goto
<1>11. ASSUME NEW r \in Reqs, InsertToken(r) PROVE ResetHolds'
  BY <1>11 DEF InsertToken, Goto
<1>12. ASSUME NEW r \in Reqs, CommitIssue(r) PROVE ResetHolds'
  <2>1. tokens' = [t \in Tokens |-> IF t = r THEN "live"
                     ELSE IF t \in marks[r] THEN "used" ELSE tokens[t]]
    BY <1>12 DEF CommitIssue, Marked
  <2>5. op[r].kind = "issue" /\ tokens[r] = "absent" /\ UNCHANGED op
    BY <1>12 DEF CommitIssue
  <2>2. /\ \A q \in Reqs \ {r} : /\ pc'[q] = pc[q] /\ tlock'[q] = tlock[q]
                                /\ marks'[q] = marks[q] /\ todo'[q] = todo[q]
    BY <1>12 DEF CommitIssue, Release, Goto
  <2>3. \A t \in Tokens : tokens[t] \in {"used", "deleted"} => tokens'[t] \in {"used", "deleted"}
    BY <2>1, <2>5
  <2>4. \A q \in Reqs \ {r} : \A t \in tlock[q] : tokens[t] = "live" => tokens'[t] = "live"
    BY <2>1
  <2> QED
    BY <2>2, <2>3, <2>4, <2>5
<1>13. ASSUME NEW r \in Reqs, Send(r) PROVE ResetHolds'
  BY <1>13 DEF Send, Goto
<1>14. ASSUME NEW r \in Reqs, Withdraw(r) PROVE ResetHolds'
  BY <1>14 DEF Withdraw, Goto
<1>15. ASSUME NEW r \in Reqs, BeginConsume(r) PROVE ResetHolds'
  BY <1>15 DEF BeginConsume, Goto
<1>16. ASSUME NEW r \in Reqs, ConsumeRow(r) PROVE ResetHolds'
  BY <1>16 DEF ConsumeRow, Goto
<1>17. ASSUME NEW r \in Reqs, EndConsume(r) PROVE ResetHolds'
  BY <1>17 DEF EndConsume, Goto, AfterConsume
<1>18. ASSUME NEW r \in Reqs, BeginRevoke(r) PROVE ResetHolds'
  BY <1>18 DEF BeginRevoke, Goto
<1>19. ASSUME NEW r \in Reqs, RevokeRow(r) PROVE ResetHolds'
  BY <1>19 DEF RevokeRow, Goto
<1>20. ASSUME NEW r \in Reqs, EndRevoke(r) PROVE ResetHolds'
  BY <1>20 DEF EndRevoke, Goto, AfterRevoke
<1>21. ASSUME NEW r \in Reqs, FindToken(r) PROVE ResetHolds'
  BY <1>21 DEF FindToken, Goto
<1>22. ASSUME NEW r \in Reqs, WriteHash(r) PROVE ResetHolds'
  BY <1>22 DEF WriteHash, Goto
<1>23. ASSUME NEW r \in Reqs, LockUser(r) PROVE ResetHolds'
  BY <1>23 DEF LockUser, Goto
<1>24. ASSUME NEW r \in Reqs, CommitPassword(r) PROVE ResetHolds'
  BY <1>24 DEF CommitPassword, Release, Goto, Marked
<1>25. ASSUME NEW r \in Reqs, Fail(r) PROVE ResetHolds'
  BY <1>25 DEF Fail, Release, Goto
<1> HIDE DEF TypeOK, LockModes, vars, db, locks, Sessions, Tokens, Passwords, Ended, Statements, Mailing, Kinds, Phases, Fresh, RowLocks, ResetHolds, Outside, TokenRowFree, Consumable, Redeemable
<1>26. QED
  BY <1>1, <1>2, <1>3, <1>4, <1>5, <1>6, <1>7, <1>8, <1>9, <1>10, <1>11, <1>12, <1>13, <1>14, <1>15, <1>16, <1>17, <1>18, <1>19, <1>20, <1>21, <1>22, <1>23, <1>24, <1>25 DEF Next, Start, Step

\* While a change runs, no password is set and nothing becomes live behind
\* its UPDATEs.
LEMMA ChangeHoldsStep == TypeOK /\ Phases /\ Fresh /\ UserLocks /\ RowLocks /\ ResetHolds /\ ChangeHolds /\ [Next]_vars => ChangeHolds'
<1> SUFFICES ASSUME TypeOK /\ Phases /\ Fresh /\ UserLocks /\ RowLocks /\ ResetHolds /\ ChangeHolds, [Next]_vars PROVE ChangeHolds'
  OBVIOUS
<1> USE NamesAssumption, TimesAssumption DEF TypeOK, LockModes, vars, db, locks, Sessions, Tokens, Passwords, Ended, Statements, Mailing, Kinds, Phases, Fresh, UserLocks, RowLocks, Outside, Conflict, ChangeHolds, Consumable, AfterConsume, AfterRevoke
<1>1. CASE UNCHANGED vars
  BY <1>1
<1>2. CASE Tick
  BY <1>2 DEF Tick
<1>3. ASSUME NEW r \in Reqs, StartLogin(r) PROVE ChangeHolds'
  BY <1>3 DEF StartLogin, Arrive, Goto, Request
<1>4. ASSUME NEW r \in Reqs, StartIssue(r) PROVE ChangeHolds'
  BY <1>4 DEF StartIssue, Arrive, Goto, Request
<1>5. ASSUME NEW r \in Reqs, StartReset(r) PROVE ChangeHolds'
  BY <1>5 DEF StartReset, Arrive, Goto, Request
<1>6. ASSUME NEW r \in Reqs, StartChange(r) PROVE ChangeHolds'
  BY <1>6 DEF StartChange, Arrive, Goto, Request
<1>7. ASSUME NEW r \in Reqs, Logout(r) PROVE ChangeHolds'
  BY <1>7 DEF Logout, Arrive, Goto, Request
<1>8. ASSUME NEW r \in Reqs, InsertSession(r) PROVE ChangeHolds'
  BY <1>8 DEF InsertSession, Goto
<1>9. ASSUME NEW r \in Reqs, CommitLogin(r) PROVE ChangeHolds'
  BY <1>9 DEF CommitLogin, Release, Goto
<1>10. ASSUME NEW r \in Reqs, CheckCooldown(r) PROVE ChangeHolds'
  BY <1>10 DEF CheckCooldown, Goto
<1>11. ASSUME NEW r \in Reqs, InsertToken(r) PROVE ChangeHolds'
  BY <1>11 DEF InsertToken, Goto
<1>12. ASSUME NEW r \in Reqs, CommitIssue(r) PROVE ChangeHolds'
  BY <1>12 DEF CommitIssue, Release, Goto, Marked
<1>13. ASSUME NEW r \in Reqs, Send(r) PROVE ChangeHolds'
  BY <1>13 DEF Send, Goto
<1>14. ASSUME NEW r \in Reqs, Withdraw(r) PROVE ChangeHolds'
  BY <1>14 DEF Withdraw, Goto
<1>15. ASSUME NEW r \in Reqs, BeginConsume(r) PROVE ChangeHolds'
  BY <1>15 DEF BeginConsume, Goto
<1>16. ASSUME NEW r \in Reqs, ConsumeRow(r) PROVE ChangeHolds'
  BY <1>16 DEF ConsumeRow, Goto
<1>17. ASSUME NEW r \in Reqs, EndConsume(r) PROVE ChangeHolds'
  BY <1>17 DEF EndConsume, Goto, AfterConsume
<1>18. ASSUME NEW r \in Reqs, BeginRevoke(r) PROVE ChangeHolds'
  BY <1>18 DEF BeginRevoke, Goto
<1>19. ASSUME NEW r \in Reqs, RevokeRow(r) PROVE ChangeHolds'
  BY <1>19 DEF RevokeRow, Goto
<1>20. ASSUME NEW r \in Reqs, EndRevoke(r) PROVE ChangeHolds'
  BY <1>20 DEF EndRevoke, Goto, AfterRevoke
<1>21. ASSUME NEW r \in Reqs, FindToken(r) PROVE ChangeHolds'
  BY <1>21 DEF FindToken, Goto
<1>22. ASSUME NEW r \in Reqs, WriteHash(r) PROVE ChangeHolds'
  BY <1>22 DEF WriteHash, Goto
<1>23. ASSUME NEW r \in Reqs, LockUser(r) PROVE ChangeHolds'
  BY <1>23 DEF LockUser, Verifies, Goto
<1>24. ASSUME NEW r \in Reqs, CommitPassword(r) PROVE ChangeHolds'
  BY <1>24 DEF CommitPassword, Release, Goto, Marked
<1>25. ASSUME NEW r \in Reqs, Fail(r) PROVE ChangeHolds'
  BY <1>25 DEF Fail, Release, Goto
<1> HIDE DEF TypeOK, LockModes, vars, db, locks, Sessions, Tokens, Passwords, Ended, Statements, Mailing, Kinds, Phases, Fresh, UserLocks, RowLocks, Outside, Conflict, ChangeHolds, Consumable, AfterConsume, AfterRevoke
<1>26. QED
  BY <1>1, <1>2, <1>3, <1>4, <1>5, <1>6, <1>7, <1>8, <1>9, <1>10, <1>11, <1>12, <1>13, <1>14, <1>15, <1>16, <1>17, <1>18, <1>19, <1>20, <1>21, <1>22, <1>23, <1>24, <1>25 DEF Next, Start, Step

\* Nothing is locked and no name is taken at the start.
LEMMA InitIInv == Init => IInv
<1> SUFFICES ASSUME Init PROVE IInv
  OBVIOUS
<1> USE NamesAssumption, TimesAssumption
    DEF Init, Sessions, Tokens, Passwords, Ended, Statements, Mailing, Kinds,
        Unasked, Request
<1>1. TypeOK
  BY DEF TypeOK, LockModes
<1>2. Phases
  BY DEF Phases
<1>3. Fresh
  BY DEF Fresh
<1>4. UserLocks
  BY DEF UserLocks, Conflict
<1>5. RowLocks /\ ResetHolds /\ ChangeHolds
  BY DEF RowLocks, ResetHolds, ChangeHolds, Outside
<1>6. QED
  BY <1>1, <1>2, <1>3, <1>4, <1>5 DEF IInv

\* Every reachable state of the account satisfies the invariant.
THEOREM Invariance == Spec => []IInv
<1>1. IInv /\ [Next]_vars => IInv'
  BY TypeStep, PhasesStep, FreshStep, UserLocksStep, RowLocksStep,
     ResetHoldsStep, ChangeHoldsStep DEF IInv
<1>2. QED
  BY InitIInv, <1>1, PTL DEF Spec

-----------------------------------------------------------------------------
(* What follows from it                                                     *)

\* Every variable keeps its type, whatever the requests.
THEOREM TypeCorrect == Spec => []TypeOK
<1>1. IInv => TypeOK
  BY DEF IInv
<1>2. QED
  BY Invariance, <1>1, PTL

\* What a commit of the password writers looks like from outside: nothing
\* else ends a transaction that is at its commit, or one of them, as committed.
CommitsOnly ==
  \A q \in Reqs :
    /\ pc[q] = "commit" /\ pc'[q] = "committed" => CommitPassword(q)
    /\ op'[q].kind \in {"reset", "change"} /\ pc'[q] = "committed" =>
         /\ op'[q] = op[q]
         /\ pc[q] = "committed" \/ CommitPassword(q)

\* The only step that commits a new password is CommitPassword.
LEMMA OnlyCommitEnds == TypeOK /\ Phases /\ [Next]_vars => CommitsOnly
<1> SUFFICES ASSUME TypeOK /\ Phases, [Next]_vars PROVE CommitsOnly
  OBVIOUS
<1> USE DEF vars, db, locks, TypeOK, LockModes, Phases, CommitsOnly, AfterConsume, AfterRevoke, Conflict
<1>1. CASE UNCHANGED vars
  BY <1>1
<1>2. CASE Tick
  BY <1>2 DEF Tick
<1>3. ASSUME NEW r \in Reqs, StartLogin(r) PROVE CommitsOnly
  BY <1>3 DEF StartLogin, Arrive, Goto, Request
<1>4. ASSUME NEW r \in Reqs, StartIssue(r) PROVE CommitsOnly
  BY <1>4 DEF StartIssue, Arrive, Goto, Request
<1>5. ASSUME NEW r \in Reqs, StartReset(r) PROVE CommitsOnly
  BY <1>5 DEF StartReset, Arrive, Goto, Request
<1>6. ASSUME NEW r \in Reqs, StartChange(r) PROVE CommitsOnly
  BY <1>6 DEF StartChange, Arrive, Goto, Request
<1>7. ASSUME NEW r \in Reqs, Logout(r) PROVE CommitsOnly
  BY <1>7 DEF Logout, Arrive, Goto, Request
<1>8. ASSUME NEW r \in Reqs, InsertSession(r) PROVE CommitsOnly
  BY <1>8 DEF InsertSession, Goto
<1>9. ASSUME NEW r \in Reqs, CommitLogin(r) PROVE CommitsOnly
  BY <1>9 DEF CommitLogin, Release, Goto
<1>10. ASSUME NEW r \in Reqs, CheckCooldown(r) PROVE CommitsOnly
  BY <1>10 DEF CheckCooldown, Goto
<1>11. ASSUME NEW r \in Reqs, InsertToken(r) PROVE CommitsOnly
  BY <1>11 DEF InsertToken, Goto
<1>12. ASSUME NEW r \in Reqs, CommitIssue(r) PROVE CommitsOnly
  BY <1>12 DEF CommitIssue, Release, Goto, Marked
<1>13. ASSUME NEW r \in Reqs, Send(r) PROVE CommitsOnly
  BY <1>13 DEF Send, Goto
<1>14. ASSUME NEW r \in Reqs, Withdraw(r) PROVE CommitsOnly
  BY <1>14 DEF Withdraw, Goto
<1>15. ASSUME NEW r \in Reqs, BeginConsume(r) PROVE CommitsOnly
  BY <1>15 DEF BeginConsume, Goto
<1>16. ASSUME NEW r \in Reqs, ConsumeRow(r) PROVE CommitsOnly
  BY <1>16 DEF ConsumeRow, Goto
<1>17. ASSUME NEW r \in Reqs, EndConsume(r) PROVE CommitsOnly
  BY <1>17 DEF EndConsume, Goto, AfterConsume
<1>18. ASSUME NEW r \in Reqs, BeginRevoke(r) PROVE CommitsOnly
  BY <1>18 DEF BeginRevoke, Goto
<1>19. ASSUME NEW r \in Reqs, RevokeRow(r) PROVE CommitsOnly
  BY <1>19 DEF RevokeRow, Goto
<1>20. ASSUME NEW r \in Reqs, EndRevoke(r) PROVE CommitsOnly
  BY <1>20 DEF EndRevoke, Goto, AfterRevoke
<1>21. ASSUME NEW r \in Reqs, FindToken(r) PROVE CommitsOnly
  BY <1>21 DEF FindToken, Goto
<1>22. ASSUME NEW r \in Reqs, WriteHash(r) PROVE CommitsOnly
  BY <1>22 DEF WriteHash, Goto
<1>23. ASSUME NEW r \in Reqs, LockUser(r) PROVE CommitsOnly
  BY <1>23 DEF LockUser, Goto
<1>24. ASSUME NEW r \in Reqs, CommitPassword(r) PROVE CommitsOnly
  <2>1. pc' = [pc EXCEPT ![r] = "committed"] /\ op' = op
    BY <1>24 DEF CommitPassword, Goto
  <2> QED
    BY <2>1, <1>24
<1>25. ASSUME NEW r \in Reqs, Fail(r) PROVE CommitsOnly
  BY <1>25 DEF Fail, Release, Goto
<1> HIDE DEF vars, db, locks, TypeOK, LockModes, Phases, CommitsOnly, AfterConsume, AfterRevoke, Conflict
<1>26. QED
  BY <1>1, <1>2, <1>3, <1>4, <1>5, <1>6, <1>7, <1>8, <1>9, <1>10, <1>11, <1>12, <1>13, <1>14, <1>15, <1>16, <1>17, <1>18, <1>19, <1>20, <1>21, <1>22, <1>23, <1>24, <1>25 DEF Next, Start, Step

\* However many confirmations name a reset token, one commits at most: the
\* others find it locked, and used when the lock is released.
THEOREM TokenSingleUse == Spec => []SingleUse
<1>1. Init => SingleUse
  BY DEF Init, SingleUse, Committed
<1>2. IInv /\ SingleUse /\ [Next]_vars => SingleUse'
  <2> SUFFICES ASSUME IInv, SingleUse, [Next]_vars,
                      NEW r \in Reqs, NEW q \in Reqs, r # q,
                      Committed(r, "reset")', Committed(q, "reset")',
                      op'[r].token = op'[q].token
               PROVE  FALSE
    BY DEF SingleUse
  <2>1. /\ op'[r] = op[r] /\ op'[q] = op[q]
        /\ pc[r] = "committed" \/ CommitPassword(r)
        /\ pc[q] = "committed" \/ CommitPassword(q)
    BY OnlyCommitEnds DEF CommitsOnly, IInv, Committed
  <2>2. op[r].kind = "reset" /\ op[q].kind = "reset" /\ op[r].token = op[q].token
    BY <2>1 DEF Committed
  <2>3. ASSUME NEW x \in Reqs, op[x].kind = "reset", CommitPassword(x)
        PROVE  tokens[op[x].token] = "live"
    BY <2>3 DEF IInv, ResetHolds, CommitPassword
  <2>4. ASSUME NEW x \in Reqs, op[x].kind = "reset", pc[x] = "committed"
        PROVE  tokens[op[x].token] \in {"used", "deleted"}
    BY <2>4 DEF IInv, ResetHolds
  <2>5. ~(CommitPassword(r) /\ CommitPassword(q))
    BY DEF CommitPassword, Goto, IInv, TypeOK, LockModes
  <2>6. ~(pc[r] = "committed" /\ pc[q] = "committed")
    BY <2>2 DEF SingleUse, Committed
  <2> QED
    BY <2>1, <2>2, <2>3, <2>4, <2>5, <2>6
<1>3. QED
  BY Invariance, <1>1, <1>2, PTL DEF Spec

\* No password that ChangePassword did not verify is overwritten by it: the
\* users row stays locked from the check to the commit.
THEOREM VerifiedReplaced == Spec => ChangeReplacesVerified
<1>1. IInv /\ [Next]_vars =>
        [\A r \in Reqs : Commits(r, "change") => password = op[r].secret]_vars
  BY DEF IInv, ChangeHolds, Commits
<1>2. QED
  BY Invariance, <1>1, PTL DEF Spec, ChangeReplacesVerified

\* A committed password change leaves its own session and nothing else: the
\* inserts of logins and reset requests are kept out or were seen.
THEOREM OwnSessionLeft == Spec => ChangeLeavesOwnSession
<1>1. IInv /\ [Next]_vars =>
        [\A r \in Reqs : Commits(r, "change") =>
           /\ \A s \in Sessions : sessions'[s] = "live" => s = op[r].session
           /\ \A t \in Tokens : tokens'[t] # "live"]_vars
  <2> SUFFICES ASSUME IInv, [Next]_vars, NEW r \in Reqs, Commits(r, "change")
               PROVE  /\ \A s \in Sessions : sessions'[s] = "live" => s = op[r].session
                      /\ \A t \in Tokens : tokens'[t] # "live"
    OBVIOUS
  <2>1. CommitPassword(r)
    BY OnlyCommitEnds DEF CommitsOnly, IInv, Commits
  <2>2. /\ \A s \in Sessions : sessions[s] = "live" => s = op[r].session \/ s \in revokes[r]
        /\ \A t \in Tokens : tokens[t] = "live" => t \in marks[r]
    BY DEF IInv, ChangeHolds, Commits
  <2> QED
    BY <2>1, <2>2 DEF CommitPassword, Marked
<1>2. QED
  BY Invariance, <1>1, PTL DEF Spec, ChangeLeavesOwnSession

-----------------------------------------------------------------------------
(* What the password writers leave of the credentials from before           *)

\* The sessions and the links from before all these requests only ever end.
LEMMA EarlierOnlyEnd ==
  ASSUME IInv, [Next]_vars
  PROVE  /\ \A s \in InitSessions : sessions'[s] = "live" => sessions[s] = "live"
         /\ \A t \in InitTokens : tokens'[t] = "live" => tokens[t] = "live"
<1> USE NamesAssumption DEF IInv, TypeOK, Sessions, Tokens
<1>2. ASSUME NEW r \in Reqs, CommitLogin(r)
      PROVE  \A s \in InitSessions : sessions'[s] = sessions[s]
  BY <1>2 DEF CommitLogin
<1>3. ASSUME NEW r \in Reqs, CommitIssue(r)
      PROVE  \A t \in InitTokens : tokens'[t] = "live" => tokens[t] = "live"
  BY <1>3 DEF CommitIssue, Marked
<1>4. ASSUME NEW r \in Reqs, Withdraw(r)
      PROVE  \A t \in InitTokens : tokens'[t] = "live" => tokens[t] = "live"
  BY <1>4 DEF Withdraw
<1>5. ASSUME NEW r \in Reqs, Logout(r)
      PROVE  \A s \in InitSessions : sessions'[s] = "live" => sessions[s] = "live"
  BY <1>5 DEF Logout
<1>6. ASSUME NEW r \in Reqs, CommitPassword(r)
      PROVE  /\ \A s \in InitSessions : sessions'[s] = "live" => sessions[s] = "live"
             /\ \A t \in InitTokens : tokens'[t] = "live" => tokens[t] = "live"
  BY <1>6 DEF CommitPassword, Marked
<1> DEFINE Only == /\ \A s \in InitSessions : sessions'[s] = "live" => sessions[s] = "live"
                   /\ \A t \in InitTokens : tokens'[t] = "live" => tokens[t] = "live"
<1>7. ASSUME UNCHANGED sessions, UNCHANGED tokens PROVE Only
  BY <1>7
<1>8. CASE UNCHANGED vars \/ Tick
  BY <1>7, <1>8 DEF vars, db, Tick
<1>9. ASSUME NEW r \in Reqs, Start(r) PROVE Only
  <2>1. CASE Logout(r)
    BY <1>5, <2>1 DEF Logout
  <2>2. CASE StartLogin(r) \/ StartIssue(r) \/ StartReset(r) \/ StartChange(r)
    BY <1>7, <2>2 DEF StartLogin, StartIssue, StartReset, StartChange, db
  <2> QED
    BY <1>9, <2>1, <2>2 DEF Start
<1>10. ASSUME NEW r \in Reqs, Step(r) PROVE Only
  <2>1. CASE CommitLogin(r)
    BY <1>2, <2>1 DEF CommitLogin
  <2>2. CASE CommitIssue(r)
    BY <1>3, <2>2 DEF CommitIssue
  <2>3. CASE Withdraw(r)
    BY <1>4, <2>3 DEF Withdraw
  <2>4. CASE CommitPassword(r)
    BY <1>6, <2>4
  <2>5. CASE InsertSession(r) \/ CheckCooldown(r) \/ InsertToken(r) \/ Send(r)
    BY <1>7, <2>5 DEF InsertSession, CheckCooldown, InsertToken, Send, db
  <2>6. CASE BeginConsume(r) \/ ConsumeRow(r) \/ EndConsume(r)
             \/ BeginRevoke(r) \/ RevokeRow(r) \/ EndRevoke(r)
    BY <1>7, <2>6 DEF BeginConsume, ConsumeRow, EndConsume, BeginRevoke, RevokeRow, EndRevoke, db
  <2>7. CASE FindToken(r) \/ WriteHash(r) \/ LockUser(r)
    BY <1>7, <2>7 DEF FindToken, WriteHash, LockUser, db
  <2> QED
    BY <1>10, <2>1, <2>2, <2>3, <2>4, <2>5, <2>6, <2>7 DEF Step
<1>11. ASSUME NEW r \in Reqs, Fail(r) PROVE Only
  BY <1>7, <1>11 DEF Fail, db
<1> QED
  BY <1>8, <1>9, <1>10, <1>11 DEF Next

\* A reset's two UPDATEs reach every credential from before that is live:
\* logins and requests for links that come in between only add others.
ResetReaches ==
  \A r \in Reqs : op[r].kind = "reset" =>
    /\ pc[r] = "consuming" =>
         \A t \in InitTokens : tokens[t] = "live" => t \in todo[r] \cup marks[r]
    /\ pc[r] \in {"revoke", "revoking", "commit"} =>
         \A t \in InitTokens : tokens[t] = "live" => t \in marks[r]
    /\ pc[r] = "revoking" =>
         \A s \in InitSessions \ {op[r].session} : sessions[s] = "live" =>
           s \in todo[r] \cup revokes[r]
    /\ pc[r] = "commit" =>
         \A s \in InitSessions \ {op[r].session} : sessions[s] = "live" => s \in revokes[r]

\* Every step of a request leaves its own reach whole, and nobody else's.
LEMMA ResetReachesStep == IInv /\ ResetReaches /\ [Next]_vars => ResetReaches'
<1> SUFFICES ASSUME IInv, ResetReaches, [Next]_vars PROVE ResetReaches'
  OBVIOUS
<1> DEFINE Ending == /\ \A s \in InitSessions : sessions'[s] = "live" => sessions[s] = "live"
                     /\ \A t \in InitTokens : tokens'[t] = "live" => tokens[t] = "live"
<1>0. Ending
  BY EarlierOnlyEnd
<1> USE <1>0 DEF IInv, TypeOK, Phases, ResetReaches, Sessions, Tokens
<1>1. CASE UNCHANGED vars
  BY <1>1 DEF vars, db, locks
<1>2. CASE Tick
  BY <1>2 DEF Tick, db, locks
<1>3. ASSUME NEW r \in Reqs, StartLogin(r) PROVE ResetReaches'
  BY <1>3 DEF StartLogin, Arrive, Goto, Request, locks
<1>4. ASSUME NEW r \in Reqs, StartIssue(r) PROVE ResetReaches'
  BY <1>4 DEF StartIssue, Arrive, Goto, Request, locks
<1>5. ASSUME NEW r \in Reqs, StartReset(r) PROVE ResetReaches'
  BY <1>5 DEF StartReset, Arrive, Goto, Request, locks
<1>6. ASSUME NEW r \in Reqs, StartChange(r) PROVE ResetReaches'
  BY <1>6 DEF StartChange, Arrive, Goto, Request, locks
<1>7. ASSUME NEW r \in Reqs, Logout(r) PROVE ResetReaches'
  BY <1>7 DEF Logout, Arrive, Goto, Request, locks
<1>8. ASSUME NEW r \in Reqs, InsertSession(r) PROVE ResetReaches'
  BY <1>8 DEF InsertSession, Goto
<1>9. ASSUME NEW r \in Reqs, CommitLogin(r) PROVE ResetReaches'
  BY <1>9 DEF CommitLogin, Release, Goto
<1>10. ASSUME NEW r \in Reqs, CheckCooldown(r) PROVE ResetReaches'
  BY <1>10 DEF CheckCooldown, Goto, locks
<1>11. ASSUME NEW r \in Reqs, InsertToken(r) PROVE ResetReaches'
  BY <1>11 DEF InsertToken, Goto
<1>12. ASSUME NEW r \in Reqs, CommitIssue(r) PROVE ResetReaches'
  BY <1>12 DEF CommitIssue, Release, Goto
<1>13. ASSUME NEW r \in Reqs, Send(r) PROVE ResetReaches'
  BY <1>13 DEF Send, Goto, locks
<1>14. ASSUME NEW r \in Reqs, Withdraw(r) PROVE ResetReaches'
  BY <1>14 DEF Withdraw, Goto, locks
<1>15. ASSUME NEW r \in Reqs, BeginConsume(r) PROVE ResetReaches'
  BY <1>15 DEF BeginConsume, Goto, Consumable
<1>16. ASSUME NEW r \in Reqs, ConsumeRow(r) PROVE ResetReaches'
  BY <1>16 DEF ConsumeRow, Goto, Consumable
<1>17. ASSUME NEW r \in Reqs, EndConsume(r) PROVE ResetReaches'
  BY <1>17 DEF EndConsume, Goto, AfterConsume, locks
<1>18. ASSUME NEW r \in Reqs, BeginRevoke(r) PROVE ResetReaches'
  BY <1>18 DEF BeginRevoke, Goto
<1>19. ASSUME NEW r \in Reqs, RevokeRow(r) PROVE ResetReaches'
  BY <1>19 DEF RevokeRow, Goto
<1>20. ASSUME NEW r \in Reqs, EndRevoke(r) PROVE ResetReaches'
  BY <1>20 DEF EndRevoke, Goto, AfterRevoke, locks
<1>21. ASSUME NEW r \in Reqs, FindToken(r) PROVE ResetReaches'
  BY <1>21 DEF FindToken, Goto
<1>22. ASSUME NEW r \in Reqs, WriteHash(r) PROVE ResetReaches'
  BY <1>22 DEF WriteHash, Goto
<1>23. ASSUME NEW r \in Reqs, LockUser(r) PROVE ResetReaches'
  BY <1>23 DEF LockUser, Goto
<1>24. ASSUME NEW r \in Reqs, CommitPassword(r) PROVE ResetReaches'
  BY <1>24 DEF CommitPassword, Release, Goto
<1>25. ASSUME NEW r \in Reqs, Fail(r) PROVE ResetReaches'
  BY <1>25 DEF Fail, Release, Goto
<1> QED
  BY <1>1, <1>2, <1>3, <1>4, <1>5, <1>6, <1>7, <1>8, <1>9, <1>10, <1>11, <1>12, <1>13, <1>14, <1>15, <1>16, <1>17, <1>18, <1>19, <1>20, <1>21, <1>22, <1>23, <1>24, <1>25
     DEF Next, Start, Step

\* Whatever was open before a committed reset or change has ended, and no
\* request opens it again.
THEOREM EarlierEnd == Spec => []EarlierCredentialsEnd
<1>1. Init => ResetReaches /\ EarlierCredentialsEnd
  BY DEF Init, Unasked, Request, ResetReaches, EarlierCredentialsEnd, Committed
<1>2. IInv /\ ResetReaches /\ EarlierCredentialsEnd /\ [Next]_vars => EarlierCredentialsEnd'
  <2> SUFFICES ASSUME IInv, ResetReaches, EarlierCredentialsEnd, [Next]_vars, NEW r \in Reqs,
                      Committed(r, "reset")' \/ Committed(r, "change")'
               PROVE  /\ \A s \in InitSessions \ {op'[r].session} : sessions'[s] # "live"
                      /\ \A t \in InitTokens : tokens'[t] # "live"
    BY DEF EarlierCredentialsEnd
  <2>1. /\ op'[r] = op[r] /\ op[r].kind \in {"reset", "change"}
        /\ pc[r] = "committed" \/ CommitPassword(r)
    BY OnlyCommitEnds DEF CommitsOnly, IInv, Committed
  <2>2. CASE pc[r] = "committed"
    BY <2>1, <2>2, EarlierOnlyEnd DEF EarlierCredentialsEnd, Committed
  <2>3. CASE CommitPassword(r)
    <3>1. /\ \A s \in InitSessions \ {op[r].session} : sessions[s] = "live" => s \in revokes[r]
          /\ \A t \in InitTokens : tokens[t] = "live" => t \in marks[r]
      BY <2>1, <2>3 DEF CommitPassword, ResetReaches, IInv, ChangeHolds, Sessions, Tokens
    <3> QED
      BY <2>1, <2>3, <3>1 DEF CommitPassword, Marked, Sessions, Tokens
  <2> QED
    BY <2>1, <2>2, <2>3
<1>3. QED
  BY Invariance, <1>1, <1>2, ResetReachesStep, PTL DEF Spec

-----------------------------------------------------------------------------
(* The detailed specification implements the ledger                         *)

\* Steps that leave password, sessions and tokens alone do not show there.
LEMMA Invisible ==
  UNCHANGED <<password, sessions, tokens>> => UNCHANGED Ledger!ledger
  BY DEF Ledger!ledger

\* Every step is one operation of the ledger, or does not show in it.
LEMMA LedgerStep == IInv /\ [Next]_vars => [Ledger!Next]_(Ledger!ledger)
<1> SUFFICES ASSUME IInv, [Next]_vars PROVE [Ledger!Next]_(Ledger!ledger)
  OBVIOUS
<1>1. CASE UNCHANGED vars
  BY <1>1, Invisible DEF vars, db
<1>2. CASE Tick
  BY <1>2, Invisible DEF Tick, db
<1>3. ASSUME NEW r \in Reqs, CommitLogin(r) PROVE Ledger!SignIn(r)
  <2>1. sessions' = [sessions EXCEPT ![r] = "live"] /\ UNCHANGED <<password, tokens>>
    BY <1>3 DEF CommitLogin
  <2>2. sessions[r] = "absent"
    BY <1>3 DEF CommitLogin, IInv, Fresh
  <2> QED
    BY <2>1, <2>2 DEF Ledger!SignIn, IInv, TypeOK, LockModes, Sessions
<1>4. ASSUME NEW r \in Reqs, CommitIssue(r) PROVE Ledger!Issue(r)
  <2> DEFINE gone == {t \in Tokens : tokens[t] = "live" /\ t \in marks[r]}
  <2>1. /\ tokens' = [t \in Tokens |-> IF t = r THEN "live"
                        ELSE IF t \in marks[r] THEN "used" ELSE tokens[t]]
        /\ UNCHANGED <<password, sessions>>
    BY <1>4 DEF CommitIssue, Marked
  <2>2. tokens[r] = "absent" /\ r \in Tokens
    BY <1>4 DEF CommitIssue, IInv, Fresh, Tokens
  <2>3. \A t \in marks[r] : t \in Tokens /\ tokens[t] \in {"live", "used"}
    BY DEF IInv, TypeOK, LockModes, RowLocks
  <2>4. {t \in Tokens : tokens'[t] = "live"}
          = ({t \in Tokens : tokens[t] = "live"} \ gone) \cup {r}
    BY <2>1, <2>2
  <2>5. {t \in Tokens : tokens'[t] \in {"used", "deleted"}}
          = {t \in Tokens : tokens[t] \in {"used", "deleted"}} \cup gone
    BY <2>1, <2>2, <2>3
  <2>6. gone \in SUBSET {t \in Tokens : tokens[t] = "live"}
    OBVIOUS
  <2> QED
    BY <2>1, <2>2, <2>4, <2>5, <2>6 DEF Ledger!Issue
<1>5. ASSUME NEW r \in Reqs, Withdraw(r)
      PROVE  Ledger!Withdraw(r) \/ UNCHANGED Ledger!ledger
  <2>1. /\ tokens' = [tokens EXCEPT ![r] = "deleted"]
        /\ UNCHANGED <<password, sessions>>
    BY <1>5 DEF Withdraw
  <2>2. tokens[r] # "absent" /\ r \in Tokens
    BY <1>5 DEF Withdraw, IInv, Fresh, Mailing, Tokens
  <2>3. CASE tokens[r] = "live"
    BY <2>1, <2>2, <2>3 DEF Ledger!Withdraw, IInv, TypeOK, LockModes
  <2>4. CASE tokens[r] \in {"used", "deleted"}
    BY <2>1, <2>2, <2>4 DEF Ledger!ledger, IInv, TypeOK, LockModes
  <2> QED
    BY <2>2, <2>3, <2>4 DEF IInv, TypeOK, LockModes
<1>6. ASSUME NEW r \in Reqs, Logout(r)
      PROVE  (\E s \in Sessions : Ledger!SignOut(s)) \/ UNCHANGED Ledger!ledger
  <2>1. PICK s \in Sessions : sessions[s] # "absent"
                              /\ sessions' = [sessions EXCEPT ![s] = "revoked"]
    BY <1>6 DEF Logout
  <2>2. UNCHANGED <<password, tokens>>
    BY <1>6 DEF Logout
  <2>3. CASE sessions[s] = "live"
    BY <2>1, <2>2, <2>3 DEF Ledger!SignOut, IInv, TypeOK, LockModes
  <2>4. CASE sessions[s] = "revoked"
    BY <2>1, <2>2, <2>4 DEF Ledger!ledger, IInv, TypeOK, LockModes
  <2> QED
    BY <2>1, <2>3, <2>4 DEF IInv, TypeOK, LockModes
<1>7. ASSUME NEW r \in Reqs, CommitPassword(r)
      PROVE  \/ \E t \in Tokens : Ledger!Reset(t)
             \/ \E s \in Sessions : Ledger!Change(s)
  <2> DEFINE gone == {t \in Tokens : tokens[t] = "live" /\ t \in marks[r]}
             out  == {s \in Sessions : sessions[s] = "live" /\ s \in revokes[r]}
  <2>1. /\ password' = r
        /\ tokens' = [t \in Tokens |-> IF t \in marks[r] THEN "used" ELSE tokens[t]]
        /\ sessions' = [s \in Sessions |-> IF s \in revokes[r] THEN "revoked" ELSE sessions[s]]
    BY <1>7 DEF CommitPassword, Marked
  <2>2. /\ \A t \in marks[r] : t \in Tokens /\ tokens[t] \in {"live", "used"}
        /\ \A s \in revokes[r] : s \in Sessions /\ sessions[s] \in {"live", "revoked"}
    BY DEF IInv, TypeOK, LockModes, RowLocks
  <2>3. /\ {t \in Tokens : tokens'[t] = "live"} = {t \in Tokens : tokens[t] = "live"} \ gone
        /\ {t \in Tokens : tokens'[t] \in {"used", "deleted"}}
             = {t \in Tokens : tokens[t] \in {"used", "deleted"}} \cup gone
    BY <2>1, <2>2
  <2>4. /\ {s \in Sessions : sessions'[s] = "live"} = {s \in Sessions : sessions[s] = "live"} \ out
        /\ {s \in Sessions : sessions'[s] = "revoked"}
             = {s \in Sessions : sessions[s] = "revoked"} \cup out
    BY <2>1, <2>2
  <2>5. password' \in Passwords
    BY <2>1 DEF Passwords
  <2>6. CASE op[r].kind = "reset"
    <3>1. op[r].token \in Tokens /\ op[r].token \in gone
      BY <1>7, <2>6 DEF CommitPassword, IInv, Phases, ResetHolds
    <3>2. /\ gone \in SUBSET {t \in Tokens : tokens[t] = "live"}
          /\ out \in SUBSET {s \in Sessions : sessions[s] = "live"}
      OBVIOUS
    <3> QED
      BY <2>3, <2>4, <2>5, <3>1, <3>2 DEF Ledger!Reset
  <2>7. CASE op[r].kind = "change"
    <3>1. gone = {t \in Tokens : tokens[t] = "live"}
      BY <1>7, <2>7 DEF CommitPassword, IInv, ChangeHolds
    <3>2. \A s \in Sessions : sessions[s] = "live" => s = op[r].session \/ s \in out
      BY <1>7, <2>7 DEF CommitPassword, IInv, ChangeHolds
    <3>3. op[r].session \in Sessions
      BY <2>7 DEF IInv, Phases
    <3>4. op[r].session \notin out
      BY <1>7, <2>7 DEF CommitPassword, IInv, ChangeHolds
    <3> QED
      BY <2>3, <2>4, <2>5, <3>1, <3>2, <3>3, <3>4 DEF Ledger!Change
  <2> QED
    BY <1>7, <2>6, <2>7 DEF CommitPassword, IInv, Phases
<1>8. ASSUME NEW r \in Reqs,
             \/ StartLogin(r) \/ StartIssue(r) \/ StartReset(r) \/ StartChange(r)
             \/ InsertSession(r) \/ CheckCooldown(r) \/ InsertToken(r) \/ Send(r)
             \/ BeginConsume(r) \/ ConsumeRow(r) \/ EndConsume(r)
             \/ BeginRevoke(r) \/ RevokeRow(r) \/ EndRevoke(r)
             \/ FindToken(r) \/ WriteHash(r) \/ LockUser(r) \/ Fail(r)
      PROVE  UNCHANGED Ledger!ledger
  <2>1. UNCHANGED <<password, sessions, tokens>>
    BY <1>8 DEF db, StartLogin, StartIssue, StartReset, StartChange, InsertSession, CheckCooldown, InsertToken, Send, BeginConsume, ConsumeRow, EndConsume, BeginRevoke, RevokeRow, EndRevoke, FindToken, WriteHash, LockUser, Fail
  <2> QED
    BY <2>1, Invisible
<1>9. \A r \in Reqs : r \in Sessions /\ r \in Tokens
  BY DEF Sessions, Tokens
<1>10. QED
  BY <1>1, <1>2, <1>3, <1>4, <1>5, <1>6, <1>7, <1>8, <1>9
  DEF Next, Start, Step, Ledger!Next

\* The requests as the code runs them, statement by statement, implement the
\* ledger of atomic operations.
THEOREM Refinement == Spec => ImplementsLedger
<1>1. Init => Ledger!Init
  BY NamesAssumption DEF Init, Ledger!Init, Sessions, Tokens
<1>2. QED
  BY Invariance, <1>1, LedgerStep, PTL DEF Spec, ImplementsLedger, Ledger!Spec
-----------------------------------------------------------------------------
(* Deadlocks                                                                *)

\* The statements of a password writer while it holds the account.
Writing == {"consume", "consuming", "revoke", "revoking", "commit"}

Writer(r) == op[r].kind \in {"reset", "change"} /\ pc[r] \in Writing

\* The account is held only before a commit and by the password writers, and
\* sessions are revoked only by who holds the account.
HeldWhere ==
  \A r \in Reqs :
    /\ ulock[r] # "none" => pc[r] \in {"commitLogin", "commitIssue"} \/ Writer(r)
    /\ revokes[r] # {} => Writer(r)

\* One case per kind of step.
LEMMA HeldWhereStep == IInv /\ HeldWhere /\ [Next]_vars => HeldWhere'
<1> SUFFICES ASSUME IInv, HeldWhere, [Next]_vars PROVE HeldWhere'
  OBVIOUS
<1> USE DEF HeldWhere, Writer, Writing
<1>0. /\ pc \in [Reqs -> {"idle"} \cup Statements \cup Mailing \cup Ended]
      /\ op \in [Reqs -> [kind : Kinds, token : Tokens \cup {None},
                          session : Sessions \cup {None},
                          secret : Passwords \cup {None}]]
      /\ ulock \in [Reqs -> LockModes]
      /\ revokes \in [Reqs -> SUBSET Sessions]
  BY DEF IInv, TypeOK
<1>1. CASE UNCHANGED vars \/ Tick
  BY <1>1 DEF vars, Tick, locks
<1>2. ASSUME NEW r \in Reqs, Start(r) PROVE HeldWhere'
  <2>1. /\ pc[r] = "idle" /\ UNCHANGED <<ulock, revokes>>
        /\ \A q \in Reqs \ {r} : pc'[q] = pc[q] /\ op'[q] = op[q]
    BY <1>0, <1>2 DEF Start, StartLogin, StartIssue, StartReset, StartChange, Logout, Arrive, Goto, locks
  <2> QED
    BY <2>1
<1>3. ASSUME NEW r \in Reqs, NEW place \in {"commitLogin", "commitIssue"}, Goto(r, place),
             ulock' = [ulock EXCEPT ![r] = "KS"], pc[r] \in {"insertSession", "insertToken"},
             UNCHANGED <<op, revokes>>
      PROVE  HeldWhere'
  BY <1>0, <1>3 DEF Goto
<1>4. ASSUME NEW r \in Reqs, Release(r), op' = op,
             \A q \in Reqs \ {r} : pc'[q] = pc[q]
      PROVE  HeldWhere'
  BY <1>0, <1>4 DEF Release
<1>5. ASSUME NEW r \in Reqs, NEW place, Goto(r, place), UNCHANGED <<op, ulock, revokes>>,
             pc[r] \notin {"commitLogin", "commitIssue"}, Writer(r) => place \in Writing
      PROVE  HeldWhere'
  BY <1>0, <1>5 DEF Goto
<1>6. ASSUME NEW r \in Reqs, InsertSession(r) \/ InsertToken(r) PROVE HeldWhere'
  BY <1>3, <1>6 DEF InsertSession, InsertToken
<1>7. ASSUME NEW r \in Reqs, CommitLogin(r) \/ CommitIssue(r) \/ CommitPassword(r) \/ Fail(r)
      PROVE  HeldWhere'
  BY <1>0, <1>4, <1>7 DEF CommitLogin, CommitIssue, CommitPassword, Fail, Goto
<1>8. ASSUME NEW r \in Reqs, CheckCooldown(r) \/ Send(r) \/ Withdraw(r) \/ FindToken(r)
      PROVE  HeldWhere'
  <2>1. PICK place : Goto(r, place)
    BY <1>8 DEF CheckCooldown, Send, Withdraw, FindToken
  <2>2. /\ pc[r] \notin Writing \cup {"commitLogin", "commitIssue"}
        /\ UNCHANGED <<op, ulock, revokes>>
    BY <1>8 DEF CheckCooldown, Send, Withdraw, FindToken, locks
  <2> QED
    BY <1>5, <2>1, <2>2
<1>9. ASSUME NEW r \in Reqs,
             BeginConsume(r) \/ EndConsume(r) \/ BeginRevoke(r) \/ EndRevoke(r)
      PROVE  HeldWhere'
  <2>1. /\ UNCHANGED <<op, ulock, revokes>>
        /\ pc[r] \notin {"commitLogin", "commitIssue"}
    BY <1>9 DEF BeginConsume, EndConsume, BeginRevoke, EndRevoke, locks
  <2>2. PICK place : Goto(r, place) /\ (Writer(r) => place \in Writing)
    BY <1>9 DEF BeginConsume, EndConsume, BeginRevoke, EndRevoke, AfterConsume, AfterRevoke
  <2> QED
    BY <1>5, <2>1, <2>2
<1>10. ASSUME NEW r \in Reqs, ConsumeRow(r) PROVE HeldWhere'
  BY <1>10 DEF ConsumeRow
<1>11. ASSUME NEW r \in Reqs, RevokeRow(r) PROVE HeldWhere'
  <2>1. /\ Writer(r) /\ UNCHANGED <<pc, op, ulock>>
        /\ \A q \in Reqs \ {r} : revokes'[q] = revokes[q]
    BY <1>0, <1>11 DEF RevokeRow, IInv, Phases
  <2> QED
    BY <2>1
<1>12. ASSUME NEW r \in Reqs, WriteHash(r) \/ LockUser(r) PROVE HeldWhere'
  <2>1. /\ op' = op /\ revokes' = revokes
        /\ op[r].kind \in {"reset", "change"}
        /\ \A q \in Reqs \ {r} : pc'[q] = pc[q] /\ ulock'[q] = ulock[q]
    BY <1>0, <1>12 DEF WriteHash, LockUser, Goto, IInv, Phases
  <2>2. pc'[r] \in Writing \/ ulock'[r] = ulock[r]
    BY <1>0, <1>12 DEF WriteHash, LockUser, Goto
  <2>3. pc[r] \in {"writeHash", "lockUser"}
    BY <1>12 DEF WriteHash, LockUser
  <2> QED
    BY <2>1, <2>2, <2>3
<1> QED
  BY <1>1, <1>2, <1>6, <1>7, <1>8, <1>9, <1>10, <1>11, <1>12 DEF Next, Step

\* Nobody waits for a session: who revokes holds the account, and so did
\* everybody else who has revoked one.
LEMMA RevokingNeverWaits ==
  ASSUME IInv, HeldWhere, NEW r \in Reqs, NEW q \in Reqs, r # q, pc[r] = "revoking"
  PROVE  revokes[q] = {}
<1> SUFFICES ASSUME Writer(q) PROVE FALSE
  BY DEF HeldWhere
<1>1. ulock[r] \in {"NKU", "FU"} /\ ulock[q] \in {"NKU", "FU"}
  BY DEF IInv, Phases, UserLocks, Writer, Writing
<1> QED
  BY <1>1 DEF IInv, UserLocks, Conflict

\* Who waits, and is not waiting in an UPDATE of the links, waits for a holder
\* of the account or, before it holds anything, for the holder of its link.
LEMMA WaitsWhere ==
  ASSUME IInv, HeldWhere, NEW r \in Reqs, NEW q \in Reqs, WaitsFor(r, q),
         pc[r] # "consuming"
  PROVE  \/ /\ pc[r] \in {"insertSession", "insertToken", "writeHash", "lockUser"}
            /\ ulock[q] # "none"
         \/ pc[r] = "findToken" /\ tlock[q] # {}
<1>1. pc[r] # "revoking"
  BY RevokingNeverWaits DEF WaitsFor
<1> QED
  BY <1>1 DEF WaitsFor, Conflict

\* A deadlock without an UPDATE of the links is impossible: who holds the
\* account waits for nobody then, so that all of them would wait for the link
\* they confirm, and before that they hold none.
THEOREM DeadlocksOverLinks == Spec => []DeadlockOverLinks
<1>1. Init => HeldWhere
  BY DEF Init, HeldWhere
<1>2. IInv /\ HeldWhere => DeadlockOverLinks
  <2> SUFFICES ASSUME IInv, HeldWhere, NEW C \in SUBSET Reqs, Stuck(C),
                      \A r \in C : pc[r] # "consuming"
               PROVE  FALSE
    BY DEF DeadlockOverLinks
  <2>1. \A r \in C : \E q \in C : WaitsFor(r, q)
    BY DEF Stuck
  <2>2. \A r \in C : ulock[r] = "none"
    <3> SUFFICES ASSUME NEW r \in C, ulock[r] # "none" PROVE FALSE
      OBVIOUS
    <3>1. pc[r] \in {"commitLogin", "commitIssue"} \cup Writing
      BY DEF HeldWhere, Writer
    <3> QED
      BY <2>1, <3>1, WaitsWhere DEF Writing
  <2>3. \A r \in C : pc[r] = "findToken"
    BY <2>1, <2>2, WaitsWhere
  <2>4. \A r \in C : tlock[r] = {}
    BY <2>3 DEF IInv, RowLocks, Outside
  <2> QED
    BY <2>1, <2>3, <2>4, WaitsWhere DEF Stuck
<1> QED
  BY Invariance, HeldWhereStep, <1>1, <1>2, PTL DEF Spec
=============================================================================
