-------------------------------- MODULE Menu --------------------------------
(***************************************************************************)
(* What the catalog promises about the menu of one venue, with every edit  *)
(* one atomic step: no statements, no rows that are locked.  Catalog.tla   *)
(* is the detailed specification; it is shown to implement this one.       *)
(*                                                                         *)
(* A dish is offered from when it is added until it is withdrawn, for      *)
(* good, and is in a section of the menu all the time.                     *)
(***************************************************************************)
EXTENDS Naturals, FiniteSets, Functions

CONSTANTS
  AllSections,     \* every category the venue ever has
  AllDishes,       \* every item it ever has
  FirstSections,   \* the categories at the start
  FirstDishes,     \* the items at the start
  FirstSection,    \* the category of each, and what stands for none
  MaxPlace         \* bound on the places a form asks for

VARIABLES
  sections,        \* the categories
  offered,         \* the items that are not deleted
  withdrawn,       \* those that are
  shown,           \* the items guests can order
  section,         \* the category of each item
  sectionPlace,    \* where each category stands
  dishPlace        \* where each item stands

card == <<sections, offered, withdrawn, shown, section, sectionPlace, dishPlace>>

Init ==
  /\ sections = FirstSections
  /\ offered = FirstDishes
  /\ withdrawn = {}
  /\ shown = FirstDishes
  /\ section = FirstSection
  /\ sectionPlace = [s \in AllSections |-> 0]
  /\ dishPlace = [d \in AllDishes |-> 0]

-----------------------------------------------------------------------------
AddSection(s, place) ==
  /\ s \notin sections
  /\ sections' = sections \cup {s}
  /\ sectionPlace' = [sectionPlace EXCEPT ![s] = place]
  /\ UNCHANGED <<offered, withdrawn, shown, section, dishPlace>>

ChangeSection(s, place) ==
  /\ s \in sections
  /\ sectionPlace' = [sectionPlace EXCEPT ![s] = place]
  /\ UNCHANGED <<sections, offered, withdrawn, shown, section, dishPlace>>

\* Only a section that no dish is in, one that was withdrawn neither.
RemoveSection(s) ==
  /\ s \in sections
  /\ \A d \in offered \cup withdrawn : section[d] # s
  /\ sections' = sections \ {s}
  /\ UNCHANGED <<offered, withdrawn, shown, section, sectionPlace, dishPlace>>

\* Guests are shown the dish, or not.
Show(d, on) == shown' = IF on THEN shown \cup {d} ELSE shown \ {d}

AddDish(d, s, place, on) ==
  /\ d \notin offered \cup withdrawn
  /\ s \in sections
  /\ offered' = offered \cup {d}
  /\ Show(d, on)
  /\ section' = [section EXCEPT ![d] = s]
  /\ dishPlace' = [dishPlace EXCEPT ![d] = place]
  /\ UNCHANGED <<sections, withdrawn, sectionPlace>>

ChangeDish(d, s, place, on) ==
  /\ d \in offered
  /\ s \in sections
  /\ Show(d, on)
  /\ section' = [section EXCEPT ![d] = s]
  /\ dishPlace' = [dishPlace EXCEPT ![d] = place]
  /\ UNCHANGED <<sections, offered, withdrawn, sectionPlace>>

Withdraw(d) ==
  /\ d \in offered
  /\ offered' = offered \ {d}
  /\ withdrawn' = withdrawn \cup {d}
  /\ shown' = shown \ {d}
  /\ UNCHANGED <<sections, section, sectionPlace, dishPlace>>

\* The members of S stand at the places from 0 on, in some order, and
\* everything else where it stood.
Arranged(old, S) ==
  {[x \in DOMAIN old |-> IF x \in S THEN place[x] ELSE old[x]] :
     place \in Bijection(S, 0..(Cardinality(S) - 1))}

ArrangeSections(S) ==
  /\ sectionPlace' \in Arranged(sectionPlace, S)
  /\ UNCHANGED <<sections, offered, withdrawn, shown, section, dishPlace>>

ArrangeDishes(S) ==
  /\ \A d, e \in S : section[d] = section[e]
  /\ dishPlace' \in Arranged(dishPlace, S)
  /\ UNCHANGED <<sections, offered, withdrawn, shown, section, sectionPlace>>

Next ==
  \/ \E s \in AllSections, place \in 0..MaxPlace :
       \/ AddSection(s, place) \/ ChangeSection(s, place) \/ RemoveSection(s)
       \/ \E d \in AllDishes, on \in BOOLEAN :
            AddDish(d, s, place, on) \/ ChangeDish(d, s, place, on)
  \/ \E d \in AllDishes : Withdraw(d)
  \/ \E S \in SUBSET sections : ArrangeSections(S)
  \/ \E S \in SUBSET offered : ArrangeDishes(S)

Spec == Init /\ [][Next]_card
=============================================================================
