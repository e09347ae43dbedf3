-------------------------- MODULE CredentialLedger --------------------------
(***************************************************************************)
(* What the identity module promises about one account's credentials, with *)
(* every operation one atomic step: no statements, no locks, no requests   *)
(* in flight.  Credentials.tla is the detailed specification; it is shown  *)
(* to implement this one.                                                  *)
(*                                                                         *)
(* A password reset token is issued once and leaves `outstanding' once,    *)
(* for good; a session is opened once and closed once, for good.           *)
(***************************************************************************)
CONSTANTS
  AllSessions,     \* every session that is ever opened
  AllTokens,       \* every reset token that is ever issued
  AllPasswords,    \* every password that is ever chosen
  FirstSessions,   \* the sessions open at the start
  FirstTokens,     \* the tokens outstanding at the start
  FirstPassword    \* the password at the start

VARIABLES
  current,         \* the account's password
  open,            \* the sessions that authenticate a request
  closed,          \* the sessions that were revoked
  outstanding,     \* the tokens that are neither used nor withdrawn
  spent            \* the tokens that are

ledger == <<current, open, closed, outstanding, spent>>

Init ==
  /\ current = FirstPassword
  /\ open = FirstSessions
  /\ closed = {}
  /\ outstanding = FirstTokens
  /\ spent = {}

-----------------------------------------------------------------------------
SignIn(s) ==
  /\ s \notin open \cup closed
  /\ open' = open \cup {s}
  /\ UNCHANGED <<current, closed, outstanding, spent>>

SignOut(s) ==
  /\ s \in open
  /\ open' = open \ {s}
  /\ closed' = closed \cup {s}
  /\ UNCHANGED <<current, outstanding, spent>>

\* A new token takes the place of some of the outstanding ones: all those
\* the issuing transaction could see.
Issue(t) ==
  /\ t \notin outstanding \cup spent
  /\ \E gone \in SUBSET outstanding :
       /\ outstanding' = (outstanding \ gone) \cup {t}
       /\ spent' = spent \cup gone
  /\ UNCHANGED <<current, open, closed>>

\* The token of a message that could not be sent is taken back.
Withdraw(t) ==
  /\ t \in outstanding
  /\ outstanding' = outstanding \ {t}
  /\ spent' = spent \cup {t}
  /\ UNCHANGED <<current, open, closed>>

\* A reset spends its own token, with every other it could see, and closes
\* the sessions it could see.
Reset(t) ==
  /\ t \in outstanding
  /\ current' \in AllPasswords
  /\ outstanding' \in SUBSET (outstanding \ {t})
  /\ spent' = spent \cup (outstanding \ outstanding')
  /\ open' \in SUBSET open
  /\ closed' = closed \cup (open \ open')

\* A password change made in session s leaves no token outstanding and no
\* session open but s.
Change(s) ==
  /\ current' \in AllPasswords
  /\ outstanding' = {}
  /\ spent' = spent \cup outstanding
  /\ open' = open \cap {s}
  /\ closed' = closed \cup (open \ {s})

Next ==
  \/ \E s \in AllSessions : SignIn(s) \/ SignOut(s) \/ Change(s)
  \/ \E t \in AllTokens : Issue(t) \/ Withdraw(t) \/ Reset(t)

Spec == Init /\ [][Next]_ledger
=============================================================================
