--------------------------- MODULE AccountsProofs ---------------------------
(***************************************************************************)
(* Theorems about Accounts.tla, for any requests, accounts and addresses:  *)
(* the statements of Register and ChangeEmail keep the unique index, and   *)
(* therefore implement the directory of addresses.                         *)
(***************************************************************************)
EXTENDS Accounts, TLAPS

\* Where a request of each kind can be, and what it names.
Phases ==
  \A r \in Reqs :
    /\ pc[r] = "idle" => op[r].kind = "none"
    /\ pc[r] \in {"insertUser", "addKey", "insertSession", "commitUser"}
         => op[r].kind = "register"
    /\ pc[r] \in {"lockUser", "moveRow", "moveKey", "commitEmail", "loadUser"}
         => op[r].kind = "change"
    /\ pc[r] \in {"issue", "send", "withdraw"} => op[r].kind = "forgot"
    /\ op[r].kind = "register" => op[r].user = r /\ op[r].new \in Emails
    /\ op[r].kind = "change" =>
         op[r].user \in Users /\ op[r].new \in Emails /\ email[op[r].user] # None

\* An account has its session from the commit of its registration on.
Whole ==
  \A r \in Reqs :
    /\ (email[r] # None) <=> (r \in sessions)
    /\ email[r] # None => op[r].kind = "register" /\ pc[r] = "answered"

\* The key of r is in the index.
Keyed(r) == pc[r] \in {"insertSession", "commitUser", "commitEmail"}

\* A key in the index is the key of no account but the one it is added to,
\* and no two requests add the same key.
Reserved ==
  \A r \in Reqs : Keyed(r) =>
    /\ \A u \in Users \ {op[r].user} : email[u] # op[r].new
    /\ \A q \in Reqs \ {r} : Keyed(q) => op[q].new # op[r].new

\* Two changes never have the row of one account at once.
Alone ==
  \A r, q \in Reqs : r # q /\ Holds(r, op[r].user) => ~Holds(q, op[r].user)

IInv == TypeOK /\ Phases /\ Whole /\ Reserved /\ Alone

\* Nobody has asked for anything yet.
LEMMA InitIInv == Init => IInv
<1> SUFFICES ASSUME Init PROVE IInv
  OBVIOUS
<1>1. TypeOK
  BY AccountsAssumption DEF Init, TypeOK, Users, Requests, Request
<1>2. Phases /\ Whole /\ Reserved /\ Alone
  BY AccountsAssumption DEF Init, Phases, Whole, Reserved, Alone, Keyed, Holds, Users, Request
<1> QED
  BY <1>1, <1>2 DEF IInv

\* A request that arrives and has nothing in the index yet.
LEMMA ArriveStep ==
  ASSUME IInv, NEW r \in Reqs, NEW request \in Requests, NEW place,
         Arrive(r, request, place),
         \/ /\ place = "insertUser" /\ request.kind = "register"
            /\ request.user = r /\ request.new \in Emails
         \/ /\ place = "lockUser" /\ request.kind = "change"
            /\ request.user \in Users /\ request.new \in Emails
            /\ email[request.user] # None
         \/ place = "issue" /\ request.kind = "forgot" /\ request.user \in Users
         \/ place = "answered" /\ request.kind = "forgot"
  PROVE  IInv'
<1>1. /\ pc[r] = "idle"
      /\ op' = [op EXCEPT ![r] = request]
      /\ pc' = [pc EXCEPT ![r] = place]
      /\ UNCHANGED <<email, sessions, issued>>
  BY DEF Arrive, Goto
<1>2. TypeOK'
  <2>1. pc' \in [Reqs -> {"idle"} \cup Statements \cup Ended]
    BY <1>1 DEF IInv, TypeOK, Statements, Ended
  <2>2. op' \in [Reqs -> Requests]
    BY <1>1 DEF IInv, TypeOK
  <2>3. ASSUME NEW q \in Reqs, pc'[q] # "idle", op'[q].kind # "forgot"
        PROVE  op'[q].user \in Users
    <3>1. CASE q = r
      <4>1. op'[q] = request
        BY <1>1, <3>1 DEF IInv, TypeOK
      <4> QED
        BY <2>3, <3>1, <4>1 DEF Users
    <3>2. CASE q # r
      <4>1. op'[q] = op[q] /\ pc'[q] = pc[q]
        BY <1>1, <3>2 DEF IInv, TypeOK
      <4> QED
        BY <2>3, <4>1 DEF IInv, TypeOK
    <3> QED
      BY <3>1, <3>2
  <2>4. /\ email' \in [Users -> Emails \cup {None}]
        /\ sessions' \subseteq Users /\ issued' \subseteq Reqs
    BY <1>1 DEF IInv, TypeOK
  <2> QED
    BY <2>1, <2>2, <2>3, <2>4 DEF TypeOK
<1>3. Phases'
  BY <1>1 DEF IInv, TypeOK, Phases
<1>4. Whole'
  BY <1>1 DEF IInv, TypeOK, Phases, Whole
<1>5. Reserved'
  BY <1>1 DEF IInv, TypeOK, Reserved, Keyed
<1>6. Alone'
  BY <1>1 DEF IInv, TypeOK, Alone, Holds
<1> QED
  BY <1>2, <1>3, <1>4, <1>5, <1>6 DEF IInv

\* A request that goes on, or ends, without touching the index.
LEMMA MoveStep ==
  ASSUME IInv, NEW r \in Reqs, NEW place, Goto(r, place),
         UNCHANGED <<email, sessions, op>>, issued' \subseteq Reqs,
         pc[r] # "answered", pc[r] # "idle",
         \/ pc[r] = "insertUser" /\ place = "addKey"
         \/ pc[r] = "insertSession" /\ place = "commitUser"
         \/ pc[r] = "lockUser" /\ place = "moveRow" /\ Free(r)
         \/ pc[r] = "moveRow" /\ place = "moveKey"
         \/ pc[r] = "issue" /\ place = "send"
         \/ pc[r] = "send" /\ place = "withdraw"
         \/ place \in Ended
  PROVE  IInv'
<1>1. pc' = [pc EXCEPT ![r] = place]
  BY DEF Goto
<1>2. TypeOK'
  BY <1>1 DEF IInv, TypeOK, Statements, Ended
<1>3. Phases'
  BY <1>1 DEF IInv, TypeOK, Phases, Ended
<1>4. Whole'
  BY <1>1 DEF IInv, TypeOK, Whole
<1>5. Reserved'
  BY <1>1 DEF IInv, TypeOK, Reserved, Keyed, Ended
<1>6. Alone'
  <2>1. CASE pc[r] = "lockUser" /\ place = "moveRow" /\ Free(r)
    <3>1. \A q \in Reqs \ {r} : ~Holds(q, op[r].user)
      BY <2>1 DEF Free, WaitsFor
    <3> QED
      BY <1>1, <3>1 DEF IInv, TypeOK, Alone, Holds
  <2>2. CASE ~(pc[r] = "lockUser" /\ place = "moveRow" /\ Free(r))
    BY <1>1, <2>2 DEF IInv, TypeOK, Alone, Holds, Ended
  <2> QED
    BY <2>1, <2>2
<1> QED
  BY <1>2, <1>3, <1>4, <1>5, <1>6 DEF IInv

\* The unique index lets in only what nobody has or is adding.
LEMMA AddKeyStep ==
  ASSUME IInv, NEW r \in Reqs, NEW from, NEW to, AddKey(r, from, to),
         \/ from = "addKey" /\ to = "insertSession"
         \/ from = "moveKey" /\ to = "commitEmail"
  PROVE  IInv'
<1> DEFINE place == IF Taken(r) THEN "refused" ELSE to
<1>1. /\ pc[r] = from /\ pc' = [pc EXCEPT ![r] = place]
      /\ UNCHANGED <<email, sessions, issued, op>>
  BY DEF AddKey, Goto
<1>2. TypeOK'
  BY <1>1 DEF IInv, TypeOK, Statements, Ended
<1>3. Phases'
  BY <1>1 DEF IInv, TypeOK, Phases
<1>4. Whole'
  BY <1>1 DEF IInv, TypeOK, Whole
<1>5. Reserved'
  <2>1. \A q \in Reqs \ {r} : Keyed(q) => op[q].new # op[r].new
    <3>1. \A q \in Reqs \ {r} : ~InDoubt(q, op[r].new)
      BY DEF AddKey, Free, WaitsFor
    <3> QED
      BY <3>1 DEF InDoubt, Adding, Keyed
  <2>2. ~Taken(r) => \A u \in Users \ {op[r].user} : email[u] # op[r].new
    BY DEF Taken
  <2>3. \A q \in Reqs : Keyed(q)' => Keyed(q) \/ (q = r /\ ~Taken(r))
    BY <1>1 DEF Keyed, IInv, TypeOK
  <2> QED
    BY <1>1, <2>1, <2>2, <2>3 DEF IInv, Reserved
<1>6. Alone'
  BY <1>1 DEF IInv, TypeOK, Alone, Holds
<1> QED
  BY <1>2, <1>3, <1>4, <1>5, <1>6 DEF IInv

\* The commit gives the account the address that was reserved for it.
LEMMA CommitStep ==
  ASSUME IInv, NEW r \in Reqs, CommitUser(r) \/ CommitEmail(r)
  PROVE  /\ IInv'
         /\ op[r].user \in Users /\ op[r].new \in Emails
         /\ email' = [email EXCEPT ![op[r].user] = op[r].new]
         /\ \A u \in Users \ {op[r].user} : email[u] # op[r].new
<1>1. /\ op[r].user \in Users /\ op[r].new \in Emails
      /\ email' = [email EXCEPT ![op[r].user] = op[r].new]
      /\ op' = op /\ issued' = issued
      /\ Keyed(r)
  BY DEF CommitUser, CommitEmail, IInv, Phases, Users, Keyed
<1>2. \A u \in Users \ {op[r].user} : email[u] # op[r].new
  BY <1>1 DEF IInv, Reserved
<1>3. PICK place \in {"answered", "loadUser"} :
        /\ pc' = [pc EXCEPT ![r] = place]
        /\ place = "answered" => CommitUser(r)
        /\ place = "loadUser" => CommitEmail(r)
  BY DEF CommitUser, CommitEmail, Goto
<1>4. op[r].new # None
  BY <1>1, AccountsAssumption
<1>5. TypeOK'
  <2>1. pc' \in [Reqs -> {"idle"} \cup Statements \cup Ended]
    BY <1>3 DEF IInv, TypeOK, Statements, Ended
  <2>2. email' \in [Users -> Emails \cup {None}]
    BY <1>1 DEF IInv, TypeOK
  <2>3. sessions' \subseteq Users
    <3>1. sessions' = sessions \/ sessions' = sessions \cup {r}
      BY DEF CommitUser, CommitEmail
    <3> QED
      BY <3>1 DEF IInv, TypeOK, Users
  <2>4. pc[r] # "idle" /\ pc' = [pc EXCEPT ![r] = pc'[r]]
    BY <1>1, <1>3 DEF Keyed, IInv, TypeOK
  <2>5. \A q \in Reqs : pc'[q] # "idle" => pc[q] # "idle"
    BY <2>4 DEF IInv, TypeOK
  <2> QED
    BY <1>1, <2>1, <2>2, <2>3, <2>5 DEF IInv, TypeOK
<1>6. Phases'
  BY <1>1, <1>3, <1>4 DEF CommitUser, CommitEmail, IInv, TypeOK, Phases
<1>7. Whole'
  <2>1. CASE CommitUser(r)
    BY <1>1, <1>4, <2>1 DEF CommitUser, Goto, IInv, TypeOK, Phases, Whole, Users
  <2>2. CASE CommitEmail(r)
    BY <1>1, <1>4, <2>2 DEF CommitEmail, Goto, IInv, TypeOK, Phases, Whole, Users
  <2> QED
    BY <2>1, <2>2
<1>8. Reserved'
  <2>1. \A q \in Reqs : Keyed(q)' => q # r /\ Keyed(q)
    BY <1>3 DEF IInv, TypeOK, Keyed
  <2>2. \A q \in Reqs : Keyed(q)' => op[q].new # op[r].new
    BY <1>1, <2>1 DEF IInv, Reserved
  <2>3. \A u \in Users : email'[u] = IF u = op[r].user THEN op[r].new ELSE email[u]
    BY <1>1 DEF IInv, TypeOK
  <2> QED
    BY <1>1, <2>1, <2>2, <2>3 DEF IInv, Reserved
<1>9. Alone'
  BY <1>1, <1>3 DEF IInv, TypeOK, Alone, Holds
<1> QED
  BY <1>1, <1>2, <1>5, <1>6, <1>7, <1>8, <1>9 DEF IInv

\* Who waits in a circle both waits and is waited for, which only a ChangeEmail
\* does, between its row and its key; and it waits for another of them.
LEMMA DeadlockedWaits ==
  ASSUME NEW r \in Reqs, Deadlocked(r)
  PROVE  /\ pc[r] = "moveKey"
         /\ \E q \in Reqs \ {r} : pc[q] = "moveKey" /\ email[op[q].user] = op[r].new
<1>1. PICK C \in SUBSET Reqs :
        /\ r \in C /\ C # {r}
        /\ \A D \in SUBSET C :
             D \notin {{}, C} => \E p \in D, q \in C \ D : WaitsFor(p, q)
  BY DEF Deadlocked
<1>2. ASSUME NEW p \in C
      PROVE  (\E q \in C : WaitsFor(p, q)) /\ (\E q \in C : WaitsFor(q, p))
  <2>1. /\ {p} \in SUBSET C /\ {p} \notin {{}, C}
        /\ C \ {p} \in SUBSET C /\ C \ {p} \notin {{}, C}
        /\ C \ (C \ {p}) = {p}
    BY <1>1
  <2>2. \E s \in {p}, q \in C \ {p} : WaitsFor(s, q)
    BY <1>1, <2>1
  <2>3. \E s \in C \ {p}, q \in {p} : WaitsFor(s, q)
    <3>1. \E s \in C \ {p}, q \in C \ (C \ {p}) : WaitsFor(s, q)
      BY <1>1, <2>1
    <3> QED
      BY <2>1, <3>1
  <2> QED
    BY <2>2, <2>3
<1>3. \A p \in C : pc[p] = "moveKey"
  BY <1>2 DEF WaitsFor, InDoubt, Adding, Moving, Holds
<1>4. PICK q \in C : WaitsFor(r, q)
  BY <1>1, <1>2
<1>5. q \in Reqs \ {r} /\ pc[r] = "moveKey" /\ pc[q] = "moveKey"
  BY <1>1, <1>3, <1>4 DEF WaitsFor
<1>6. email[op[q].user] = op[r].new
  BY <1>4, <1>5 DEF WaitsFor, InDoubt, Adding
<1> QED
  BY <1>5, <1>6

\* The inductive step, one case per action.
LEMMA StepIInv == IInv /\ [Next]_vars => IInv'
<1> SUFFICES ASSUME IInv, [Next]_vars PROVE IInv'
  OBVIOUS
<1>1. CASE UNCHANGED vars
  BY <1>1 DEF vars, IInv, TypeOK, Phases, Whole, Reserved, Keyed, Alone, Holds
<1>2. ASSUME NEW r \in Reqs, StartRegister(r) PROVE IInv'
  <2>1. PICK e \in Emails : Arrive(r, Request("register", r, e), "insertUser")
    BY <1>2 DEF StartRegister
  <2>2. /\ Request("register", r, e) \in Requests
        /\ Request("register", r, e).kind = "register"
        /\ Request("register", r, e).user = r
        /\ Request("register", r, e).new = e
    BY DEF Request, Requests, Users
  <2> QED
    BY <2>1, <2>2, ArriveStep
<1>3. ASSUME NEW r \in Reqs, StartChange(r) PROVE IInv'
  <2>1. PICK u \in Users, e \in Emails :
          email[u] # None /\ Arrive(r, Request("change", u, e), "lockUser")
    BY <1>3 DEF StartChange
  <2>2. /\ Request("change", u, e) \in Requests
        /\ Request("change", u, e).kind = "change"
        /\ Request("change", u, e).user = u
        /\ Request("change", u, e).new = e
    BY DEF Request, Requests
  <2> QED
    BY <2>1, <2>2, ArriveStep
<1>4. ASSUME NEW r \in Reqs, StartForgot(r) PROVE IInv'
  <2>1. PICK e \in Emails, u \in Users \cup {None} :
          \/ u \in Users /\ Arrive(r, Request("forgot", u, e), "issue")
          \/ Arrive(r, Request("forgot", u, e), "answered")
    BY <1>4 DEF StartForgot, findUserByLookup
  <2>2. /\ Request("forgot", u, e) \in Requests
        /\ Request("forgot", u, e).kind = "forgot"
        /\ Request("forgot", u, e).user = u
    BY DEF Request, Requests
  <2>3. CASE u \in Users /\ Arrive(r, Request("forgot", u, e), "issue")
    BY <2>2, <2>3, ArriveStep
  <2>4. CASE Arrive(r, Request("forgot", u, e), "answered")
    BY <2>2, <2>4, ArriveStep
  <2> QED
    BY <2>1, <2>3, <2>4
<1>5. ASSUME NEW r \in Reqs, InsertUser(r) \/ InsertSession(r) \/ MoveRow(r) PROVE IInv'
  BY <1>5, MoveStep DEF InsertUser, InsertSession, MoveRow, IInv, TypeOK
<1>6. ASSUME NEW r \in Reqs, LockUser(r) \/ LoadUser(r) PROVE IInv'
  BY <1>6, MoveStep DEF LockUser, LoadUser, Ended, IInv, TypeOK
<1>7. ASSUME NEW r \in Reqs, AddUserKey(r) \/ MoveKey(r) PROVE IInv'
  BY <1>7, AddKeyStep DEF AddUserKey, MoveKey
<1>8. ASSUME NEW r \in Reqs, CommitUser(r) \/ CommitEmail(r) PROVE IInv'
  BY <1>8, CommitStep
<1>9. ASSUME NEW r \in Reqs, Issue(r) \/ Send(r) \/ Withdraw(r) PROVE IInv'
  BY <1>9, MoveStep DEF Issue, Send, Withdraw, Ended, IInv, TypeOK
<1>10. ASSUME NEW r \in Reqs, Leave(r) PROVE IInv'
  BY <1>10, MoveStep DEF Leave, Statements, Ended, IInv, TypeOK
<1>11. ASSUME NEW r \in Reqs, BreakDeadlock(r) PROVE IInv'
  <2>1. pc[r] = "moveKey"
    BY <1>11, DeadlockedWaits DEF BreakDeadlock
  <2> QED
    BY <1>11, <2>1, MoveStep DEF BreakDeadlock, Ended, IInv, TypeOK
<1> QED
  BY <1>1, <1>2, <1>3, <1>4, <1>5, <1>6, <1>7, <1>8, <1>9, <1>10, <1>11
     DEF Next, Start, Step

\* The invariant that the unique index maintains.
THEOREM Invariance == Spec => []IInv
  BY InitIInv, StepIInv, PTL DEF Spec

\* The type invariant, for any requests, accounts and addresses.
THEOREM TypeCorrect == Spec => []TypeOK
<1>1. IInv => TypeOK
  BY DEF IInv
<1> QED
  BY <1>1, Invariance, PTL

\* Register leaves an account with its session or nothing, whatever fails.
THEOREM RegistrationWhole == Spec => []RegisteredWhole
<1>1. IInv => RegisteredWhole
  BY DEF IInv, Whole, RegisteredWhole, Ended
<1> QED
  BY <1>1, Invariance, PTL

\* The two changes of a circle have two accounts' rows, so that the address the
\* one asks for is another account's.
THEOREM DeadlockRefuses == Spec => []DeadlockOnlyIfTaken
<1>1. IInv => DeadlockOnlyIfTaken
  <2> SUFFICES ASSUME IInv, NEW r \in Reqs, Deadlocked(r)
               PROVE  op[r].kind = "change" /\ Taken(r)
    BY DEF DeadlockOnlyIfTaken
  <2>1. PICK q \in Reqs \ {r} :
          pc[r] = "moveKey" /\ pc[q] = "moveKey" /\ email[op[q].user] = op[r].new
    BY DeadlockedWaits
  <2>2. op[r].kind = "change" /\ op[q].user \in Users
    BY <2>1 DEF IInv, Phases
  <2>3. op[q].user # op[r].user
    BY <2>1 DEF IInv, Alone, Holds
  <2> QED
    BY <2>1, <2>2, <2>3 DEF Taken
<1> QED
  BY <1>1, Invariance, PTL

\* Register and ChangeEmail, statement by statement and interleaved in any
\* way, implement a directory in which an account takes an address at once
\* and only when no other account has it.
THEOREM Refinement == Spec => ImplementsDirectory
<1>1. Init => Directory!Init
  BY DEF Init, Directory!Init
<1>2. IInv /\ [Next]_vars => [Directory!Next]_email
  <2> SUFFICES ASSUME IInv, Next, email' # email PROVE Directory!Next
    BY DEF vars
  <2>1. PICK r \in Reqs : CommitUser(r) \/ CommitEmail(r)
    BY DEF Next, Start, Step, StartRegister, StartChange, StartForgot, Arrive,
           InsertUser, AddUserKey, AddKey, InsertSession, LockUser, MoveRow, MoveKey,
           LoadUser, Issue, Send, Withdraw, Leave, BreakDeadlock
  <2>2. /\ op[r].user \in Users /\ op[r].new \in Emails
        /\ email' = [email EXCEPT ![op[r].user] = op[r].new]
        /\ \A u \in Users \ {op[r].user} : email[u] # op[r].new
    BY <2>1, CommitStep
  <2> QED
    BY <2>2 DEF Directory!Next, Directory!Take
<1> QED
  BY <1>1, <1>2, Invariance, PTL DEF Spec, ImplementsDirectory, Directory!Spec
=============================================================================
