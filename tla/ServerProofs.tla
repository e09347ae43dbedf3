---------------------------- MODULE ServerProofs ----------------------------
(***************************************************************************)
(* Safety of Server.tla, for any requests, handlers and size of the pool.  *)
(* What happens eventually is left to the model checker.                   *)
(***************************************************************************)
EXTENDS Server, FiniteSetTheorems, TLAPS

\* A handler that is not answering has a use to go on with.
Busy ==
  \A r \in Reqs : pc[r] \in {"waiting", "running", "sending"} => todo[r] # <<>>

\* Who may be where, by where main is: what OrderlyShutdown says at the end,
\* said all along.
Orderly ==
  /\ \A r \in Reqs : pc[r] = "lost" => r \in gone \cup late
  /\ main # "exited" => \A r \in Reqs : pc[r] # "killed"
  /\ main = "exited" => \A r \in Reqs : pc[r] \notin Active
  /\ main \in {"closingPool", "exited"} /\ ~forced
       => \A r \in Reqs : pc[r] \notin Active \cup {"killed"}

IInv == TypeOK /\ IsFiniteSet(held) /\ HeldOnlyInUse /\ Busy /\ Orderly

\* The table of the handlers consists of sequences of uses.
LEMMA UsesType == \A k \in Kinds : Uses[k] \in Seq(Use)
<1> DEFINE uses == Seq(Use)
<1>1. /\ <<>> \in uses /\ <<"ping">> \in uses /\ <<"tx">> \in uses /\ <<"query">> \in uses
      /\ <<"query", "tx">> \in uses /\ <<"query", "query">> \in uses
      /\ <<"query", "query", "tx">> \in uses /\ <<"query", "tx", "mail">> \in uses
  BY DEF Use
<1>2. \A s, t \in uses : s \o t \in uses
  OBVIOUS
<1> HIDE DEF uses
<1>3. ListCapabilities \in uses /\ RequireOwner \in uses
  BY <1>1 DEF ListCapabilities, RequireOwner
<1>4. Authenticate \in uses /\ LoadUser \in uses
  BY <1>1, <1>2, <1>3 DEF Authenticate, LoadUser
<1>5. /\ Authenticate \o <<"tx">> \in uses
      /\ Authenticate \o <<"query">> \in uses
      /\ Authenticate \o <<"query", "tx">> \in uses
      /\ Authenticate \o RequireOwner \in uses
      /\ <<"query", "query", "tx">> \o ListCapabilities \in uses
  BY <1>1, <1>2, <1>3, <1>4
<1>6. /\ Authenticate \o <<"tx">> \o LoadUser \in uses
      /\ Authenticate \o <<"query">> \o ListCapabilities \in uses
      /\ Authenticate \o <<"query">> \o LoadUser \in uses
      /\ Authenticate \o RequireOwner \o <<"query">> \in uses
      /\ Authenticate \o RequireOwner \o <<"tx">> \in uses
  BY <1>1, <1>2, <1>3, <1>4, <1>5
<1>7. DOMAIN Uses = {"health", "ready", "register", "login", "logout", "me",
                     "requestPasswordReset", "resetPassword", "changePassword", "changeEmail",
                     "updateProfile", "updateAvatar", "avatar", "ownerVenues", "createVenue",
                     "ownerSubscription", "venueRecord", "venueMenu"}
  BY DEF Uses
<1>8. /\ Uses["health"] \in uses /\ Uses["ready"] \in uses /\ Uses["register"] \in uses
      /\ Uses["login"] \in uses /\ Uses["logout"] \in uses /\ Uses["me"] \in uses
  BY <1>1, <1>4, <1>5 DEF Uses
<1>9. /\ Uses["requestPasswordReset"] \in uses /\ Uses["resetPassword"] \in uses
      /\ Uses["changePassword"] \in uses /\ Uses["changeEmail"] \in uses
  BY <1>1, <1>5, <1>6 DEF Uses
<1>10. /\ Uses["updateProfile"] \in uses /\ Uses["updateAvatar"] \in uses
       /\ Uses["avatar"] \in uses /\ Uses["ownerVenues"] \in uses
  BY <1>5, <1>6 DEF Uses
<1>11. /\ Uses["createVenue"] \in uses /\ Uses["ownerSubscription"] \in uses
       /\ Uses["venueRecord"] \in uses /\ Uses["venueMenu"] \in uses
  BY <1>5, <1>6 DEF Uses
<1> QED
  BY <1>7, <1>8, <1>9, <1>10, <1>11, KindsAssumption DEF uses

\* Where a handler goes on fits what it has left.
LEMMA PlaceType ==
  ASSUME NEW uses
  PROVE  /\ Place(uses) \in {"answering", "sending", "waiting"}
         /\ Place(uses) # "answering" => uses # <<>>
  BY DEF Place

\* A process that starts has nothing in flight.
LEMMA InitIInv == Init => IInv
<1> SUFFICES ASSUME Init PROVE IInv
  OBVIOUS
<1>1. IsFiniteSet({}) /\ Cardinality({}) = 0
  BY FS_EmptySet
<1>2. <<>> \in Seq(Use)
  OBVIOUS
<1>3. todo \in [Reqs -> Seq(Use)]
  BY <1>2, Zenon DEF Init
<1>4. pc \in [Reqs -> Places]
  BY DEF Init, Places
<1>5. Cardinality(held) <= MaxConns /\ IsFiniteSet(held)
  BY <1>1, PoolAssumption DEF Init
<1>6. main = "starting" /\ forced = FALSE /\ held = {} /\ gone = {} /\ late = {}
  BY DEF Init
<1>7. TypeOK
  BY <1>3, <1>4, <1>5, <1>6 DEF TypeOK
<1> QED
  BY <1>5, <1>7 DEF Init, IInv, HeldOnlyInUse, Busy, Orderly, Active

\* A connection less, or one more where the pool has one left.
LEMMA PoolStep ==
  ASSUME IInv, NEW r \in Reqs
  PROVE  /\ IsFiniteSet(held \ {r}) /\ Cardinality(held \ {r}) <= MaxConns
         /\ Cardinality(held) < MaxConns =>
              IsFiniteSet(held \cup {r}) /\ Cardinality(held \cup {r}) <= MaxConns
<1>1. IsFiniteSet(held) /\ Cardinality(held) <= MaxConns
  BY DEF IInv, TypeOK
<1>2. Cardinality(held) \in Nat
  BY <1>1, FS_CardinalityType
<1>3. /\ IsFiniteSet(held \ {r})
      /\ Cardinality(held \ {r}) = IF r \in held THEN Cardinality(held) - 1 ELSE Cardinality(held)
  BY <1>1, FS_RemoveElement
<1>4. /\ IsFiniteSet(held \cup {r})
      /\ Cardinality(held \cup {r}) = IF r \in held THEN Cardinality(held) ELSE Cardinality(held) + 1
  BY <1>1, FS_AddElement
<1> QED
  BY <1>1, <1>2, <1>3, <1>4, PoolAssumption

\* The handler of r ends one use, without its connection if it had one, and
\* goes on with what is left.
LEMMA ContinueStep ==
  ASSUME IInv, NEW r \in Reqs, NEW uses \in Seq(Use), Continue(r, uses),
         held' \in {held, held \ {r}}, pc[r] = "running" => held' = held \ {r},
         pc[r] \in Active, UNCHANGED <<main, forced, gone, late>>
  PROVE  IInv'
<1> DEFINE place == Place(uses)
<1>1. place \in {"answering", "sending", "waiting"} /\ (place # "answering" => uses # <<>>)
  BY PlaceType
<1> HIDE DEF place
<1>2. pc' = [pc EXCEPT ![r] = place] /\ todo' = [todo EXCEPT ![r] = uses]
  BY DEF Continue, place
<1>3. IsFiniteSet(held') /\ Cardinality(held') <= MaxConns /\ held' \subseteq Reqs
  BY PoolStep DEF IInv, TypeOK
<1>4. TypeOK'
  BY <1>1, <1>2, <1>3 DEF IInv, TypeOK, Places, Active
<1>5. HeldOnlyInUse'
  BY <1>2 DEF IInv, TypeOK, HeldOnlyInUse
<1>6. Busy'
  BY <1>1, <1>2 DEF IInv, TypeOK, Busy
<1>7. Orderly'
  BY <1>1, <1>2 DEF IInv, TypeOK, Orderly, Active
<1> QED
  BY <1>3, <1>4, <1>5, <1>6, <1>7 DEF IInv

\* The process ends, without anybody left or against the rules.
LEMMA ExitStep ==
  ASSUME IInv, Exit, forced' \in BOOLEAN,
         ~forced' => \A r \in Reqs : pc[r] \notin Active \cup {"killed"}
  PROVE  IInv'
<1>1. IsFiniteSet(held') /\ Cardinality(held') <= MaxConns
  BY FS_EmptySet, PoolAssumption DEF Exit
<1>2. \A r \in Reqs : pc'[r] = IF pc[r] \in Active THEN "killed" ELSE pc[r]
  BY DEF Exit
<1>3. TypeOK'
  BY <1>1, <1>2 DEF Exit, IInv, TypeOK, Places, Active
<1>4. Busy' /\ HeldOnlyInUse'
  BY <1>2 DEF Exit, IInv, Busy, HeldOnlyInUse, Active
<1>5. Orderly'
  BY <1>2 DEF Exit, IInv, Orderly, Active
<1> QED
  BY <1>1, <1>3, <1>4, <1>5 DEF IInv

\* The inductive step, one case per action.
LEMMA StepIInv == IInv /\ [Next]_vars => IInv'
<1> SUFFICES ASSUME IInv, [Next]_vars PROVE IInv'
  OBVIOUS
<1>1. CASE UNCHANGED vars
  BY <1>1 DEF vars, IInv, TypeOK, HeldOnlyInUse, Busy, Orderly
<1>2. CASE StartServing \/ Signal \/ Drained
  BY <1>2 DEF StartServing, Signal, Drained, IInv, TypeOK, HeldOnlyInUse, Busy, Orderly
<1>3. CASE Timeout
  BY <1>3 DEF Timeout, IInv, TypeOK, HeldOnlyInUse, Busy, Orderly
<1>4. CASE Return
  BY <1>4, ExitStep DEF Return, IInv, TypeOK, Orderly
<1>5. CASE Fatal
  BY <1>5, ExitStep DEF Fatal
<1>6. ASSUME NEW r \in Reqs, Accept(r) PROVE IInv'
  <2>1. PICK k \in Kinds : Continue(r, Uses[k])
    BY <1>6 DEF Accept
  <2> DEFINE place == Place(Uses[k])
  <2>2. place \in {"answering", "sending", "waiting"} /\ (place # "answering" => Uses[k] # <<>>)
    BY PlaceType
  <2>3. pc' = [pc EXCEPT ![r] = place] /\ todo' = [todo EXCEPT ![r] = Uses[k]]
    BY <2>1 DEF Continue
  <2>4. Uses[k] \in Seq(Use)
    BY UsesType
  <2> HIDE DEF place
  <2>5. TypeOK'
    BY <1>6, <2>2, <2>3, <2>4 DEF Accept, IInv, TypeOK, Places, Active
  <2>6. HeldOnlyInUse' /\ Busy'
    BY <1>6, <2>2, <2>3 DEF Accept, IInv, TypeOK, HeldOnlyInUse, Busy
  <2>7. Orderly'
    BY <1>6, <2>2, <2>3 DEF Accept, IInv, TypeOK, Orderly
  <2> QED
    BY <1>6, <2>5, <2>6, <2>7 DEF Accept, IInv
<1>7. ASSUME NEW r \in Reqs, Acquire(r) PROVE IInv'
  <2>1. IsFiniteSet(held') /\ Cardinality(held') <= MaxConns
    BY <1>7, PoolStep DEF Acquire
  <2>2. TypeOK'
    BY <1>7, <2>1 DEF Acquire, IInv, TypeOK, Places, Active
  <2>3. HeldOnlyInUse' /\ Busy'
    BY <1>7 DEF Acquire, IInv, TypeOK, HeldOnlyInUse, Busy
  <2>4. Orderly'
    BY <1>7 DEF Acquire, IInv, TypeOK, Orderly, Active
  <2> QED
    BY <2>1, <2>2, <2>3, <2>4 DEF IInv
<1>8. ASSUME NEW r \in Reqs, Cancel(r) \/ GiveUp(r) PROVE IInv'
  <2>1. <<>> \in Seq(Use)
    OBVIOUS
  <2> QED
    BY <1>8, <2>1, ContinueStep DEF Cancel, GiveUp, Active
<1>9. ASSUME NEW r \in Reqs, Finish(r) PROVE IInv'
  <2>1. PICK uses \in {Tail(todo[r]), <<>>} : Continue(r, uses)
    BY <1>9 DEF Finish
  <2>2. todo[r] \in Seq(Use) /\ todo[r] # <<>>
    BY <1>9 DEF Finish, IInv, TypeOK, Busy
  <2>3. Tail(todo[r]) \in Seq(Use) /\ <<>> \in Seq(Use)
    BY <2>2
  <2>4. uses \in Seq(Use)
    BY <2>1, <2>3
  <2> QED
    BY <1>9, <2>1, <2>4, ContinueStep DEF Finish, Active
<1>10. ASSUME NEW r \in Reqs, Send(r) PROVE IInv'
  <2>1. PICK uses \in {Tail(todo[r]), <<"query">>} : Continue(r, uses)
    BY <1>10 DEF Send
  <2>2. todo[r] \in Seq(Use) /\ todo[r] # <<>>
    BY <1>10 DEF Send, IInv, TypeOK, Busy
  <2>3. Tail(todo[r]) \in Seq(Use) /\ <<"query">> \in Seq(Use)
    BY <2>2 DEF Use
  <2>4. uses \in Seq(Use)
    BY <2>1, <2>3
  <2> QED
    BY <1>10, <2>1, <2>4, ContinueStep DEF Send, Active
<1>11. ASSUME NEW r \in Reqs, Answer(r) PROVE IInv'
  <2> DEFINE place == IF r \in gone \cup late THEN "lost" ELSE "answered"
  <2>1. TypeOK'
    BY <1>11 DEF Answer, IInv, TypeOK, Places, Active
  <2>2. HeldOnlyInUse' /\ Busy'
    BY <1>11 DEF Answer, IInv, TypeOK, HeldOnlyInUse, Busy
  <2>3. Orderly'
    BY <1>11 DEF Answer, IInv, TypeOK, Orderly, Active
  <2> QED
    BY <1>11, <2>1, <2>2, <2>3 DEF Answer, IInv
<1>12. ASSUME NEW r \in Reqs, Leave(r) \/ Overrun(r) PROVE IInv'
  BY <1>12 DEF Leave, Overrun, IInv, TypeOK, HeldOnlyInUse, Busy, Orderly
<1> QED
  BY <1>1, <1>2, <1>3, <1>4, <1>5, <1>6, <1>7, <1>8, <1>9, <1>10, <1>11, <1>12
     DEF Next, Main

\* The invariant of every run of the process.
THEOREM Invariance == Spec => []IInv
  BY InitIInv, StepIInv, PTL DEF Spec

\* The type invariant, and the bound of the pool, whatever its size.
THEOREM TypeCorrect == Spec => []TypeOK
<1>1. IInv => TypeOK
  BY DEF IInv
<1> QED
  BY <1>1, Invariance, PTL

\* No handler waits with a connection in its hand, for any number of handlers
\* and connections.
THEOREM NoHoldAndWait == Spec => []HeldOnlyInUse
<1>1. IInv => HeldOnlyInUse
  BY DEF IInv
<1> QED
  BY <1>1, Invariance, PTL

\* A shutdown that main does not cut short loses no request, however many are
\* in flight when the signal comes.
THEOREM NothingLost == Spec => []OrderlyShutdown
<1>1. IInv => OrderlyShutdown
  BY DEF IInv, TypeOK, Places, Orderly, OrderlyShutdown
<1> QED
  BY <1>1, Invariance, PTL
=============================================================================
