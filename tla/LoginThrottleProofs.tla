------------------------ MODULE LoginThrottleProofs ------------------------
(***************************************************************************)
(* The throttle of LoginThrottle.tla, for any logins, limit and window:    *)
(* its types, whose transaction the row of the failures may be locked by,  *)
(* and how often a wrong password is answered.                             *)
(*                                                                         *)
(* The last is a count over a sliding window, so that its invariant is     *)
(* about every window that is not over: what was answered in the first     *)
(* ticks of it, together with what can still be answered before it ends    *)
(* (Budget), is never more than the bound.                                 *)
(***************************************************************************)
EXTENDS LoginThrottle, FiniteSetTheorems, TLAPS

\* The row is locked by a login that is about to commit, or by nobody.
LockedByCommit == clearing # None => pc[clearing] = "commit"

\* A row that blocks has seen as many failures as that takes.
BlockedByLimit == left > 0 => count >= Limit

Types == TypeOK /\ LockedByCommit /\ BlockedByLimit

-----------------------------------------------------------------------------
(* What can still be answered                                               *)

n == Cardinality(Logins)

\* The logins that may still be told that the password is wrong, for the
\* places and the waits of all of them.
InFlight(places) == {a \in Logins : places[a] \in {"verify", "record"}}

\* Those whose statement is older than the last i ticks: with its now() such a
\* statement sets a block that ends within the window, or none.
Late(i, places, waits) == {a \in Logins : places[a] = "record" /\ waits[a] > i}

\* The failures that leave the row open, after c of them.
Free(c) == IF c < Limit THEN Limit - 1 - c ELSE 0

\* How many answers the window that began i ticks ago may still see, with q
\* logins in flight, k of them late, and the count c, the age g and the block
\* b of the row.  If the row is too old for every statement that is not late,
\* the late ones count on, or start a window of the row that a block can end
\* in.  Otherwise there is what the block lets through, or what is free and
\* the logins that pass the check before the next; as much again after a late
\* statement has shortened a block; and a new window of the row, unless it is
\* younger than this one.
Budget(i, k, q, c, g, b) ==
  IF k > 0 /\ (c = 0 \/ g > i + Window) THEN k + 3 * n + 2 * Limit - 5
  ELSE (IF b + i >= (IF k = 0 THEN Window ELSE MaxWait) THEN q ELSE Free(c) + n)
       + (IF k > 0 THEN n ELSE 0)
       + (IF c > 0 /\ g <= i + 1 THEN 0 ELSE n + Limit - 2)

Most == 2 * (Limit - 1) + 4 * n - 3

\* The arguments that Budget is meant for.
Possible(i, k, q, c, g, b) ==
  /\ i \in Recent
  /\ k \in Nat /\ q \in Nat /\ k <= q /\ q <= n
  /\ k > 0 => i < MaxWait
  /\ c \in Nat /\ g \in Nat /\ b \in 0..Window
  /\ b > 0 => c >= Limit

Left(i) ==
  Budget(i, Cardinality(Late(i, pc, waited)), Cardinality(InFlight(pc)), count, age, left)

Spent == \A i \in Recent : wrong[i] + Left(i) <= Most

IInv == Types /\ Spent

\* The constants are numbers, and there is a login.
LEMMA Numbers ==
  /\ n \in Nat /\ n > 0
  /\ Limit \in Nat /\ Limit > 1
  /\ Window \in Nat /\ Window > 0
  /\ MaxWait \in Nat /\ 2 * MaxWait <= Window
<1>1. n \in Nat /\ n # 0
  BY ThrottleAssumption, FS_EmptySet, FS_CardinalityType DEF n
<1> QED
  BY <1>1, ThrottleAssumption, PromptAssumption

\* A window that has just begun, or begins anew, sees the bound at most.
LEMMA BudgetAtMost ==
  ASSUME NEW i, NEW k, NEW q, NEW c, NEW g, NEW b, Possible(i, k, q, c, g, b)
  PROVE  Budget(i, k, q, c, g, b) \in Int /\ Budget(i, k, q, c, g, b) <= Most
  BY Numbers DEF Possible, Budget, Most, Free, Recent

\* It is never negative.
LEMMA BudgetNatural ==
  ASSUME NEW i, NEW k, NEW q, NEW c, NEW g, NEW b, Possible(i, k, q, c, g, b)
  PROVE  Budget(i, k, q, c, g, b) \in Nat
  BY Numbers DEF Possible, Budget, Free, Recent

\* Logins that end, or that pass the check while the row is open, add nothing.
LEMMA BudgetShrinks ==
  ASSUME NEW i, NEW c, NEW g, NEW b,
         NEW k, NEW q, Possible(i, k, q, c, g, b),
         NEW l, NEW p, Possible(i, l, p, c, g, b),
         l <= k, p <= q \/ b = 0
  PROVE  Budget(i, l, p, c, g, b) <= Budget(i, k, q, c, g, b)
  BY Numbers DEF Possible, Budget, Most, Free, Recent

\* Nor does time that passes.
LEMMA BudgetTicks ==
  ASSUME NEW i, NEW k, NEW q, NEW c, NEW g, NEW b, Possible(i, k, q, c, g, b),
         i + 1 \in Recent, k > 0 => i + 1 < MaxWait
  PROVE  Budget(i + 1, k, q, c, IF c > 0 /\ g < Oldest THEN g + 1 ELSE g,
                IF b > 0 THEN b - 1 ELSE 0) <= Budget(i, k, q, c, g, b)
  BY Numbers DEF Possible, Budget, Most, Free, Recent, Oldest

\* A failure that is added to the count, after a wait of w ticks, uses one.
LEMMA BudgetCounts ==
  ASSUME NEW i, NEW c, NEW g, NEW b, NEW k, NEW q, Possible(i, k, q, c, g, b),
         NEW w \in 0..MaxWait,
         NEW l \in Nat, l = (IF w > i THEN k - 1 ELSE k), l <= q - 1,
         c > 0, g <= w + Window
  PROVE  Budget(i, l, q - 1, c + 1, g,
                IF c + 1 >= Limit /\ w < Window THEN Window - w ELSE 0)
           <= Budget(i, k, q, c, g, b) - 1
  BY Numbers DEF Possible, Budget, Most, Free, Recent

\* And so does one that starts the window of the row anew.
LEMMA BudgetRestarts ==
  ASSUME NEW i, NEW c, NEW g, NEW b, NEW k, NEW q, Possible(i, k, q, c, g, b),
         NEW w \in 0..MaxWait,
         NEW l \in Nat, l = (IF w > i THEN k - 1 ELSE k), l <= q - 1,
         c = 0 \/ g > w + Window
  PROVE  Budget(i, l, q - 1, 1, w, 0) <= Budget(i, k, q, c, g, b) - 1
  BY Numbers DEF Possible, Budget, Most, Free, Recent

\* How the late and the others are counted.
LEMMA Counted ==
  ASSUME NEW places, NEW waits \in [Logins -> 0..MaxWait], NEW i \in Recent
  PROVE  /\ IsFiniteSet(Late(i, places, waits)) /\ IsFiniteSet(InFlight(places))
         /\ Cardinality(Late(i, places, waits)) \in Nat
         /\ Cardinality(InFlight(places)) \in Nat
         /\ Cardinality(Late(i, places, waits)) <= Cardinality(InFlight(places))
         /\ Cardinality(InFlight(places)) <= n
         /\ Cardinality(Late(i, places, waits)) > 0 => i < MaxWait
<1>1. InFlight(places) \in SUBSET Logins
  BY DEF InFlight
<1>2. Late(i, places, waits) \in SUBSET InFlight(places)
  BY DEF InFlight, Late
<1>3. IsFiniteSet(InFlight(places)) /\ Cardinality(InFlight(places)) <= n
  BY <1>1, ThrottleAssumption, FS_Subset DEF n
<1>4. /\ IsFiniteSet(Late(i, places, waits))
      /\ Cardinality(Late(i, places, waits)) <= Cardinality(InFlight(places))
  BY <1>2, <1>3, FS_Subset
<1>5. /\ Cardinality(Late(i, places, waits)) \in Nat
      /\ Cardinality(InFlight(places)) \in Nat
  BY <1>3, <1>4, FS_CardinalityType
<1>6. Cardinality(Late(i, places, waits)) > 0 => Late(i, places, waits) # {}
  BY FS_EmptySet
<1>7. Late(i, places, waits) # {} => i < MaxWait
  <2> SUFFICES ASSUME NEW a \in Late(i, places, waits) PROVE i < MaxWait
    OBVIOUS
  <2>1. a \in Logins /\ waits[a] > i
    BY DEF Late
  <2>2. waits[a] \in 0..MaxWait
    BY <2>1
  <2> QED
    BY <2>1, <2>2, Numbers DEF Recent
<1> QED
  BY <1>3, <1>4, <1>5, <1>6, <1>7

\* In every state that is well typed Budget has arguments it is meant for.
LEMMA PossibleNow ==
  ASSUME Types, NEW i \in Recent
  PROVE  Possible(i, Cardinality(Late(i, pc, waited)), Cardinality(InFlight(pc)),
                  count, age, left)
<1>1. waited \in [Logins -> 0..MaxWait]
  BY DEF Types, TypeOK
<1>2. count \in Nat /\ age \in Nat /\ left \in 0..Window /\ (left > 0 => count >= Limit)
  BY Numbers DEF Types, TypeOK, BlockedByLimit, Oldest
<1> DEFINE k == Cardinality(Late(i, pc, waited))
           q == Cardinality(InFlight(pc))
<1>3. k \in Nat /\ q \in Nat /\ k <= q /\ q <= n /\ (k > 0 => i < MaxWait)
  BY <1>1, Counted
<1> HIDE DEF k, q
<1>4. Possible(i, k, q, count, age, left)
  BY <1>2, <1>3 DEF Possible
<1> QED
  BY <1>4 DEF k, q

\* And so it has after the step.
LEMMA PossibleNext ==
  ASSUME Types', NEW i \in Recent
  PROVE  Possible(i, Cardinality(Late(i, pc', waited')), Cardinality(InFlight(pc')),
                  count', age', left')
<1>1. waited' \in [Logins -> 0..MaxWait]
  BY DEF Types, TypeOK
<1>2. count' \in Nat /\ age' \in Nat /\ left' \in 0..Window /\ (left' > 0 => count' >= Limit)
  BY Numbers DEF Types, TypeOK, BlockedByLimit, Oldest
<1> DEFINE k == Cardinality(Late(i, pc', waited'))
           q == Cardinality(InFlight(pc'))
<1>3. k \in Nat /\ q \in Nat /\ k <= q /\ q <= n /\ (k > 0 => i < MaxWait)
  BY <1>1, Counted
<1> HIDE DEF k, q
<1>4. Possible(i, k, q, count', age', left')
  BY <1>2, <1>3 DEF Possible
<1> QED
  BY <1>4 DEF k, q

-----------------------------------------------------------------------------
(* Types                                                                    *)

\* The row does not exist at the start.
LEMMA InitTypes == Init => Types
  BY ThrottleAssumption DEF Init, Types, TypeOK, LockedByCommit, BlockedByLimit, Oldest

\* A block is never longer than the window, however long the lock took.
LEMMA BlockForType ==
  ASSUME TypeOK, NEW a \in Logins, NEW failures \in Nat
  PROVE  /\ BlockFor(a, failures) \in 0..Window
         /\ BlockFor(a, failures) > 0 => failures >= Limit
<1>1. waited[a] \in Nat /\ Window \in Nat /\ Limit \in Nat
  BY ThrottleAssumption DEF TypeOK
<1> QED
  BY <1>1 DEF BlockFor

\* The inductive step, one case per statement.
LEMMA StepTypes == Types /\ [Next]_vars => Types'
<1> SUFFICES ASSUME Types, [Next]_vars PROVE Types'
  OBVIOUS
<1> USE ThrottleAssumption DEF Types, TypeOK, LockedByCommit, BlockedByLimit, Oldest
<1>1. CASE UNCHANGED vars
  BY <1>1 DEF vars
<1>2. CASE Tick
  <2>1. age' \in 0..Oldest /\ left' \in 0..Window /\ (left' > 0 => left > 0)
    BY <1>2 DEF Tick
  <2>2. waited' \in [Logins -> 0..MaxWait]
    BY <1>2 DEF Tick
  <2>3. wrong' \in [Recent -> Nat]
    <3>1. \A i \in Recent : i # 0 => i - 1 \in Recent
      BY DEF Recent
    <3> QED
      BY <1>2, <3>1 DEF Tick
  <2> QED
    BY <1>2, <2>1, <2>2, <2>3 DEF Tick
<1>3. ASSUME NEW a \in Logins, Check(a) \/ VerifyRight(a) PROVE Types'
  BY <1>3 DEF Check, VerifyRight, Goto
<1>4. ASSUME NEW a \in Logins, VerifyWrong(a) PROVE Types'
  BY <1>4 DEF VerifyWrong, Goto
<1>5. ASSUME NEW a \in Logins, RecordFailure(a) PROVE Types'
  <2>1. /\ count' \in Nat /\ age' \in 0..Oldest /\ left' \in 0..Window
        /\ left' > 0 => count' >= Limit
    <3>1. CASE count = 0 \/ Expired(a)
      BY <1>5, <3>1 DEF RecordFailure
    <3>2. CASE ~(count = 0 \/ Expired(a))
      <4>1. count + 1 \in Nat
        OBVIOUS
      <4>2. /\ BlockFor(a, count + 1) \in 0..Window
            /\ BlockFor(a, count + 1) > 0 => count + 1 >= Limit
        BY <4>1, BlockForType, Zenon
      <4> QED
        BY <1>5, <3>2, <4>2 DEF RecordFailure
    <3> QED
      BY <3>1, <3>2
  <2>2. wrong' \in [Recent -> Nat]
    BY <1>5 DEF RecordFailure
  <2> QED
    BY <1>5, <2>1, <2>2 DEF RecordFailure, Goto
<1>6. ASSUME NEW a \in Logins, Clear(a) PROVE Types'
  BY <1>6 DEF Clear, Goto
<1>7. ASSUME NEW a \in Logins, CommitClear(a) PROVE Types'
  <2>1. TypeOK' /\ BlockedByLimit'
    BY <1>7 DEF CommitClear, Goto
  <2>2. LockedByCommit'
    BY <1>7 DEF CommitClear, Goto
  <2> QED
    BY <2>1, <2>2
<1>8. ASSUME NEW a \in Logins, Fail(a) PROVE Types'
  BY <1>8 DEF Fail, Goto
<1> QED
  BY <1>1, <1>2, <1>3, <1>4, <1>5, <1>6, <1>7, <1>8 DEF Next, Finish

-----------------------------------------------------------------------------
(* The answers                                                              *)

\* Nothing has been answered at the start.
LEMMA InitSpent == Init => Spent
<1> SUFFICES ASSUME Init, NEW i \in Recent PROVE wrong[i] + Left(i) <= Most
  BY DEF Spent
<1>1. Types
  BY InitTypes
<1>2. Left(i) \in Int /\ Left(i) <= Most
  BY <1>1, PossibleNow, BudgetAtMost DEF Left
<1>3. wrong[i] = 0
  BY DEF Init
<1>4. Most \in Int
  BY Numbers DEF Most
<1> QED
  BY <1>2, <1>3, <1>4

\* A step that answers nobody, and leaves the row alone, keeps the bound when
\* it makes no statement late, and puts no login in flight past a block.
LEMMA QuietStep ==
  ASSUME IInv, Types', UNCHANGED <<count, age, left, wrong>>,
         \A i \in Recent : Late(i, pc', waited') \subseteq Late(i, pc, waited),
         InFlight(pc') \subseteq InFlight(pc) \/ left = 0
  PROVE  Spent'
<1> SUFFICES ASSUME NEW i \in Recent PROVE wrong'[i] + Left(i)' <= Most
  BY DEF Spent, Most
<1> DEFINE k == Cardinality(Late(i, pc, waited))
           q == Cardinality(InFlight(pc))
           l == Cardinality(Late(i, pc', waited'))
           p == Cardinality(InFlight(pc'))
<1>1. Possible(i, k, q, count, age, left)
  BY PossibleNow DEF IInv
<1>2. Possible(i, l, p, count, age, left)
  BY PossibleNext
<1>3. IsFiniteSet(Late(i, pc, waited)) /\ IsFiniteSet(InFlight(pc))
  BY Counted DEF IInv, Types, TypeOK
<1>4. l <= k
  BY <1>3, FS_Subset
<1>5. p <= q \/ left = 0
  BY <1>3, FS_Subset
<1>6. Left(i)' = Budget(i, l, p, count, age, left)
  BY DEF Left
<1>7. Left(i) = Budget(i, k, q, count, age, left)
  BY DEF Left
<1> HIDE DEF k, q, l, p
<1>8. Left(i)' <= Left(i)
  BY <1>1, <1>2, <1>4, <1>5, <1>6, <1>7, BudgetShrinks
<1>9. Left(i) \in Int /\ Left(i)' \in Int
  BY <1>1, <1>2, <1>6, <1>7, BudgetAtMost
<1>10. wrong'[i] = wrong[i] /\ wrong[i] \in Nat /\ wrong[i] + Left(i) <= Most /\ Most \in Int
  BY Numbers DEF IInv, Types, TypeOK, Spent, Most
<1> QED
  BY <1>8, <1>9, <1>10

\* A tick makes every window one tick older, and begins one.
LEMMA TickSpent == IInv /\ Types' /\ Tick => Spent'
<1> SUFFICES ASSUME IInv, Types', Tick, NEW i \in Recent PROVE wrong'[i] + Left(i)' <= Most
  BY DEF Spent, Most
<1>1. Possible(i, Cardinality(Late(i, pc', waited')), Cardinality(InFlight(pc')),
               count', age', left')
  BY PossibleNext
<1>2. Left(i)' \in Int /\ Left(i)' <= Most
  BY <1>1, BudgetAtMost DEF Left
<1>3. Most \in Int
  BY Numbers DEF Most
<1>4. CASE i = 0
  <2>1. wrong'[i] = 0
    BY <1>4 DEF Tick
  <2> QED
    BY <1>2, <1>3, <2>1
<1>5. CASE i # 0
  <2> DEFINE j == i - 1
             k == Cardinality(Late(j, pc, waited))
             q == Cardinality(InFlight(pc))
  <2>1. j \in Recent /\ j + 1 = i
    BY <1>5, Numbers DEF Recent
  <2> HIDE DEF j
  <2>2. Late(i, pc', waited') = Late(j, pc, waited)
    BY <2>1 DEF Tick, Late, Recent, IInv, Types, TypeOK
  <2>3. pc' = pc
    BY DEF Tick
  <2>4. Possible(j, k, q, count, age, left)
    BY <2>1, PossibleNow DEF IInv
  <2>5. k > 0 => i < MaxWait
    BY <1>1, <2>2 DEF Possible
  <2>6. /\ count' = count
        /\ age' = IF count > 0 /\ age < Oldest THEN age + 1 ELSE age
        /\ left' = IF left > 0 THEN left - 1 ELSE 0
    BY DEF Tick
  <2>7. Left(i)' = Budget(j + 1, k, q, count, IF count > 0 /\ age < Oldest THEN age + 1 ELSE age,
                          IF left > 0 THEN left - 1 ELSE 0)
    BY <2>1, <2>2, <2>3, <2>6 DEF Left
  <2>8. Left(j) = Budget(j, k, q, count, age, left)
    BY DEF Left
  <2> HIDE DEF k, q
  <2>9. Left(i)' <= Left(j) /\ Left(j) \in Int
    BY <2>1, <2>4, <2>5, <2>7, <2>8, BudgetTicks, BudgetAtMost
  <2>10. wrong'[i] = wrong[j]
    BY <1>5 DEF Tick, j
  <2>11. wrong[j] \in Nat /\ wrong[j] + Left(j) <= Most
    BY <2>1 DEF IInv, Types, TypeOK, Spent
  <2> QED
    BY <1>2, <1>3, <2>9, <2>10, <2>11
<1> QED
  BY <1>4, <1>5

\* A failure costs what it may answer.
LEMMA RecordSpent ==
  ASSUME IInv, Types', NEW a \in Logins, RecordFailure(a)
  PROVE  Spent'
<1> SUFFICES ASSUME NEW i \in Recent PROVE wrong'[i] + Left(i)' <= Most
  BY DEF Spent, Most
<1> DEFINE k == Cardinality(Late(i, pc, waited))
           q == Cardinality(InFlight(pc))
           l == IF waited[a] > i THEN k - 1 ELSE k
<1>1. Possible(i, k, q, count, age, left)
  BY PossibleNow DEF IInv
<1>2. IsFiniteSet(Late(i, pc, waited)) /\ IsFiniteSet(InFlight(pc))
  BY Counted DEF IInv, Types, TypeOK
<1>3. Late(i, pc', waited') = Late(i, pc, waited) \ {a}
  BY DEF RecordFailure, Goto, Late, IInv, Types, TypeOK
<1>4. InFlight(pc') = InFlight(pc) \ {a}
  BY DEF RecordFailure, Goto, InFlight, IInv, Types, TypeOK
<1>5. a \in InFlight(pc) /\ (a \in Late(i, pc, waited) <=> waited[a] > i)
  BY DEF RecordFailure, InFlight, Late
<1>6. Cardinality(Late(i, pc', waited')) = l
  BY <1>2, <1>3, <1>5, FS_RemoveElement
<1>7. Cardinality(InFlight(pc')) = q - 1
  BY <1>2, <1>4, <1>5, FS_RemoveElement
<1>8. Possible(i, l, q - 1, count', age', left')
  BY <1>6, <1>7, PossibleNext
<1>9. Left(i)' = Budget(i, l, q - 1, count', age', left')
  BY <1>6, <1>7 DEF Left
<1>10. Left(i) = Budget(i, k, q, count, age, left)
  BY DEF Left
<1> DEFINE w == waited[a]
<1>11. w \in 0..MaxWait /\ l = IF w > i THEN k - 1 ELSE k
  BY DEF IInv, Types, TypeOK
<1>12. l \in Nat /\ l <= q - 1
  BY <1>8 DEF Possible
<1> HIDE DEF k, q, l
<1>13. Left(i)' <= Left(i) - 1
  <2>1. CASE count = 0 \/ Expired(a)
    <3>1. count' = 1 /\ age' = w /\ left' = 0
      BY <2>1 DEF RecordFailure
    <3>2. count = 0 \/ age > w + Window
      BY <2>1 DEF Expired
    <3> HIDE DEF w
    <3> QED
      BY <1>1, <1>9, <1>10, <1>11, <1>12, <3>1, <3>2, BudgetRestarts
  <2>2. CASE ~(count = 0 \/ Expired(a))
    <3>1. /\ count' = count + 1 /\ age' = age
          /\ left' = IF count + 1 >= Limit /\ w < Window THEN Window - w ELSE 0
      BY <2>2 DEF RecordFailure, BlockFor
    <3>2. count > 0 /\ age <= w + Window
      BY <1>1, <1>11, <2>2, Numbers DEF Expired, Possible
    <3> HIDE DEF w
    <3> QED
      BY <1>1, <1>9, <1>10, <1>11, <1>12, <3>1, <3>2, BudgetCounts
  <2> QED
    BY <2>1, <2>2
<1>14. Left(i) \in Int /\ Left(i)' \in Int
  BY <1>1, <1>8, <1>9, <1>10, BudgetAtMost
<1>15. wrong[i] \in Nat /\ wrong'[i] \in {wrong[i], wrong[i] + 1}
  BY DEF RecordFailure, IInv, Types, TypeOK
<1>16. wrong[i] + Left(i) <= Most /\ Most \in Int
  BY Numbers DEF IInv, Spent, Most
<1> QED
  BY <1>13, <1>14, <1>15, <1>16

\* A success starts the count of the answers again.
LEMMA ClearedSpent ==
  ASSUME Types', NEW a \in Logins, CommitClear(a), clearing = a
  PROVE  Spent'
<1> SUFFICES ASSUME NEW i \in Recent PROVE wrong'[i] + Left(i)' <= Most
  BY DEF Spent, Most
<1>1. Left(i)' \in Int /\ Left(i)' <= Most
  BY PossibleNext, BudgetAtMost DEF Left
<1>2. wrong'[i] = 0
  BY DEF CommitClear
<1>3. Most \in Int
  BY Numbers DEF Most
<1> QED
  BY <1>1, <1>2, <1>3

\* The inductive step, one case per statement.
LEMMA StepIInv == IInv /\ [Next]_vars => IInv'
<1> SUFFICES ASSUME IInv, [Next]_vars PROVE IInv'
  OBVIOUS
<1>1. Types'
  BY StepTypes DEF IInv
<1>2. CASE UNCHANGED vars
  <2>1. Spent'
    BY <1>1, <1>2, QuietStep DEF vars, Late, InFlight
  <2> QED
    BY <1>1, <2>1 DEF IInv
<1>3. CASE Tick
  BY <1>1, <1>3, TickSpent DEF IInv
<1>4. ASSUME NEW a \in Logins, Check(a) PROVE Spent'
  <2>1. left = 0
    BY <1>4 DEF Check, Blocked, IInv, Types, TypeOK
  <2>2. \A i \in Recent : Late(i, pc', waited') \subseteq Late(i, pc, waited)
    BY <1>4 DEF Check, Goto, Late, IInv, Types, TypeOK
  <2> QED
    BY <1>1, <1>4, <2>1, <2>2, QuietStep DEF Check
<1>5. ASSUME NEW a \in Logins, VerifyWrong(a) PROVE Spent'
  <2>1. InFlight(pc') \subseteq InFlight(pc)
    BY <1>5 DEF VerifyWrong, Goto, InFlight, IInv, Types, TypeOK
  <2>2. \A i \in Recent : Late(i, pc', waited') \subseteq Late(i, pc, waited)
    BY <1>5 DEF VerifyWrong, Goto, Late, Recent, IInv, Types, TypeOK
  <2> QED
    BY <1>1, <1>5, <2>1, <2>2, QuietStep DEF VerifyWrong
<1>6. ASSUME NEW a \in Logins, VerifyRight(a) \/ Clear(a) \/ Fail(a) PROVE Spent'
  <2>1. /\ UNCHANGED <<count, age, left, wrong, waited>>
        /\ \E place \in {"clear", "commit", "idle"} : pc' = [pc EXCEPT ![a] = place]
    BY <1>6 DEF VerifyRight, Clear, Fail, Goto
  <2>2. InFlight(pc') \subseteq InFlight(pc)
    BY <2>1 DEF InFlight, IInv, Types, TypeOK
  <2>3. \A i \in Recent : Late(i, pc', waited') \subseteq Late(i, pc, waited)
    BY <2>1 DEF Late, IInv, Types, TypeOK
  <2> QED
    BY <1>1, <2>1, <2>2, <2>3, QuietStep
<1>7. ASSUME NEW a \in Logins, RecordFailure(a) PROVE Spent'
  BY <1>1, <1>7, RecordSpent
<1>8. ASSUME NEW a \in Logins, CommitClear(a) PROVE Spent'
  <2>1. CASE clearing = a
    BY <1>1, <1>8, <2>1, ClearedSpent
  <2>2. CASE clearing # a
    <3>1. /\ UNCHANGED <<count, age, left, wrong, waited>>
          /\ pc' = [pc EXCEPT ![a] = "idle"]
      BY <1>8, <2>2 DEF CommitClear, Goto
    <3>2. InFlight(pc') \subseteq InFlight(pc)
      BY <3>1 DEF InFlight, IInv, Types, TypeOK
    <3>3. \A i \in Recent : Late(i, pc', waited') \subseteq Late(i, pc, waited)
      BY <3>1 DEF Late, IInv, Types, TypeOK
    <3> QED
      BY <1>1, <3>1, <3>2, <3>3, QuietStep
  <2> QED
    BY <2>1, <2>2
<1> QED
  BY <1>1, <1>2, <1>3, <1>4, <1>5, <1>6, <1>7, <1>8 DEF Next, Finish, IInv

\* The invariant of every run of the throttle.
THEOREM Invariance == Spec => []IInv
<1>1. Init => IInv
  BY InitTypes, InitSpent DEF IInv
<1> QED
  BY <1>1, StepIInv, PTL DEF Spec

\* Whoever waits for the row waits for a COMMIT, and for nobody who waits.
THEOREM LockHeldToCommit == Spec => []LockedByCommit
<1>1. IInv => LockedByCommit
  BY DEF IInv, Types
<1> QED
  BY <1>1, Invariance, PTL

\* The type invariant: no block outlasts the window, and the row's lock is
\* released with the login that holds it, for any limit and window.
THEOREM TypeCorrect == Spec => []TypeOK
<1>1. IInv => TypeOK
  BY DEF IInv, Types
<1> QED
  BY <1>1, Invariance, PTL

\* However many logins run at once, whatever the limit and the window are,
\* and however late an answer is up to half of the window.
THEOREM AnswersBounded == Spec => []WrongAnswersBounded
<1>1. ASSUME IInv PROVE WrongAnswersBounded
  <2>1. Window - 1 \in Recent
    BY Numbers DEF Recent
  <2> DEFINE i == Window - 1
  <2> HIDE DEF i
  <2>2. i \in Recent
    BY <2>1 DEF i
  <2>3. wrong[i] \in Nat /\ wrong[i] + Left(i) <= Most
    BY <1>1, <2>2 DEF IInv, Types, TypeOK, Spent
  <2>4. Left(i) \in Nat
    BY <1>1, <2>2, PossibleNow, BudgetNatural DEF Left, IInv
  <2>5. wrong[i] <= Most
    BY <2>3, <2>4, Numbers DEF Most
  <2> QED
    BY <2>5 DEF WrongAnswersBounded, Most, n, i
<1> QED
  BY <1>1, Invariance, PTL
=============================================================================
