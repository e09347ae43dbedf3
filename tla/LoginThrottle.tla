--------------------------- MODULE LoginThrottle ---------------------------
(***************************************************************************)
(* The throttle on wrong passwords: the auth_login_attempts row of one     *)
(* e-mail address and one client address, and the logins that read and     *)
(* write it at once (src/internal/modules/identity).                       *)
(*                                                                         *)
(* Login asks whether the row is blocked, verifies the password, and then  *)
(* records a failure or clears the row, each in a statement of its own, so *)
(* that many logins can be past the check when the block begins.  Time     *)
(* never ends here: the row keeps how long ago its window started and how  *)
(* long it stays blocked.                                                  *)
(***************************************************************************)
EXTENDS Naturals, FiniteSets

CONSTANTS
  Logins,      \* the logins the server runs at once; each serves many
  None,        \* no login
  Limit,       \* failures that block: 5
  Window,      \* ticks in the window, and in the block: 15 minutes
  MaxWait      \* bound on how long recordFailure waits for the row's lock

ASSUME ThrottleAssumption ==
  /\ Logins # {} /\ IsFiniteSet(Logins) /\ None \notin Logins
  /\ Limit \in Nat \ {0, 1} /\ Window \in Nat \ {0} /\ MaxWait \in Nat

\* What WrongAnswersBounded needs: no statement waits for half the window.
\* The code sets no limit; a server that waits longer blocks later.
ASSUME PromptAssumption == 2 * MaxWait <= Window

VARIABLES
  count,       \* failure_count; 0 when there is no row
  age,         \* how long ago window_started_at was
  left,        \* how far ahead blocked_until is; 0 when not blocked
  clearing,    \* the login whose DELETE of the row is not committed, or None
  pc,          \* what each login does next
  waited,      \* how long ago each recordFailure began: its now()
  wrong        \* history: `wrong password' in this tick and the i before it

vars == <<count, age, left, clearing, pc, waited, wrong>>

\* An age past which nothing tells two ages apart.
Oldest == Window + MaxWait + 1

\* The ticks of a window that ends now: how long ago each was.
Recent == 0..(Window - 1)

TypeOK ==
  /\ count \in Nat
  /\ age \in 0..Oldest
  /\ left \in 0..Window
  /\ clearing \in Logins \cup {None}
  /\ pc \in [Logins -> {"idle", "verify", "record", "clear", "commit"}]
  /\ waited \in [Logins -> 0..MaxWait]
  /\ wrong \in [Recent -> Nat]

Init ==
  /\ count = 0
  /\ age = 0
  /\ left = 0
  /\ clearing = None
  /\ pc = [a \in Logins |-> "idle"]
  /\ waited = [a \in Logins |-> 0]
  /\ wrong = [i \in Recent |-> 0]

Goto(a, place) == pc' = [pc EXCEPT ![a] = place]

\* blocked_until > now(), as loginBlocked reads it.
Blocked == left > 0

-----------------------------------------------------------------------------
\* Variant: a login that does not ask whether it is blocked.
CheckNothing(a) ==
  /\ pc[a] = "idle"
  /\ Goto(a, "verify")
  /\ UNCHANGED <<count, age, left, clearing, waited, wrong>>

\* A blocked login ends here, with ErrTooManyAttempts.
Check(a) ==
  /\ pc[a] = "idle"
  /\ ~Blocked
  /\ Goto(a, "verify")
  /\ UNCHANGED <<count, age, left, clearing, waited, wrong>>

\* A wrong password: recordFailure's statement begins, and now() is fixed.
VerifyWrong(a) ==
  /\ pc[a] = "verify"
  /\ Goto(a, "record")
  /\ waited' = [waited EXCEPT ![a] = 0]
  /\ UNCHANGED <<count, age, left, clearing, wrong>>

VerifyRight(a) ==
  /\ pc[a] = "verify"
  /\ Goto(a, "clear")
  /\ UNCHANGED <<count, age, left, clearing, waited, wrong>>

\* window_started_at < now() - interval '15 minutes', on a's now().
Expired(a) == age > waited[a] + Window

\* `CASE WHEN ... >= 5 THEN now() + interval '15 minutes' ELSE NULL END', for
\* the new failure count and a's now(); a block that is over is none.

\* Variant: the block is set one failure late.
BlockForLate(a, failures) ==
  IF failures > Limit /\ waited[a] < Window THEN Window - waited[a] ELSE 0

\* Variant: the block runs from the end of the wait, and the wait is added.
BlockForLong(a, failures) == IF failures >= Limit THEN Window + waited[a] ELSE 0

BlockFor(a, failures) ==
  IF failures >= Limit /\ waited[a] < Window THEN Window - waited[a] ELSE 0

\* INSERT ... ON CONFLICT DO UPDATE, which waits for a pending DELETE; then
\* the client is told that its credentials are wrong, if it is still there.
RecordFailure(a) ==
  /\ pc[a] = "record"
  /\ clearing = None
  /\ IF count = 0 \/ Expired(a)
       THEN count' = 1 /\ age' = waited[a] /\ left' = 0
       ELSE /\ count' = count + 1
            /\ left' = BlockFor(a, count + 1)
            /\ UNCHANGED age
  /\ wrong' \in {wrong, [i \in Recent |-> wrong[i] + 1]}
  /\ Goto(a, "idle")
  /\ UNCHANGED <<clearing, waited>>

\* DELETE in the transaction that opens the session: it locks the row, if
\* there is one, and takes effect at COMMIT.
Clear(a) ==
  /\ pc[a] = "clear"
  /\ clearing = None
  /\ clearing' = IF count > 0 THEN a ELSE None
  /\ Goto(a, "commit")
  /\ UNCHANGED <<count, age, left, waited, wrong>>

\* The success starts a new history.
CommitClear(a) ==
  /\ pc[a] = "commit"
  /\ IF clearing = a
       THEN /\ count' = 0 /\ age' = 0 /\ left' = 0
            /\ clearing' = None
            /\ wrong' = [i \in Recent |-> 0]
       ELSE UNCHANGED <<count, age, left, clearing, wrong>>
  /\ Goto(a, "idle")
  /\ UNCHANGED waited

\* The client goes away or a statement fails: nobody is answered, and what
\* was pending is rolled back.
Fail(a) ==
  /\ pc[a] # "idle"
  /\ clearing' = IF clearing = a THEN None ELSE clearing
  /\ Goto(a, "idle")
  /\ UNCHANGED <<count, age, left, waited, wrong>>

\* Time passes.  MaxWait bounds how long a recordFailure stays unanswered.
Tick ==
  /\ \A a \in Logins : pc[a] = "record" => waited[a] < MaxWait
  /\ age' = IF count > 0 /\ age < Oldest THEN age + 1 ELSE age
  /\ left' = IF left > 0 THEN left - 1 ELSE 0
  /\ waited' = [a \in Logins |-> IF pc[a] = "record" THEN waited[a] + 1 ELSE waited[a]]
  /\ wrong' = [i \in Recent |-> IF i = 0 THEN 0 ELSE wrong[i - 1]]
  /\ UNCHANGED <<count, clearing, pc>>

Finish(a) == RecordFailure(a) \/ Clear(a) \/ CommitClear(a)

Next ==
  \/ Tick
  \/ \E a \in Logins : Check(a) \/ VerifyWrong(a) \/ VerifyRight(a) \/ Finish(a) \/ Fail(a)

Spec == Init /\ [][Next]_vars

\* Time passes, and statements that can run do.
Fairness == WF_vars(Tick) /\ \A a \in Logins : WF_vars(Finish(a))

FairSpec == Spec /\ Fairness

-----------------------------------------------------------------------------
(* Properties                                                               *)

\* However the logins interleave, and although a late answer shortens a block
\* or starts the row's window anew, `wrong password' is answered at most that
\* often in any Window ticks without a success: twice the Limit - 1 failures
\* that leave the row open, and four times the logins past the check, less
\* those that must wait to end a block.  The four are what is late for the
\* row's window before the first, a block, the block after a late answer has
\* cut that one short, and the block of the next window.
WrongAnswersBounded ==
  wrong[Window - 1] <= 2 * (Limit - 1) + 4 * Cardinality(Logins) - 3

\* A block always runs out: what is sent while it lasts cannot prolong it.
BlockEnds == Blocked ~> ~Blocked
=============================================================================
