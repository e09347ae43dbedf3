--------------------------- MODULE CatalogProofs ---------------------------
(***************************************************************************)
(* Theorems about Catalog.tla, for any requests, categories and items: the *)
(* menu stays whole, and so does a reorder, however the requests that edit *)
(* it interleave.                                                          *)
(***************************************************************************)
EXTENDS Catalog, FiniteSetTheorems, TLAPS

\* What a request is about, by the statement it executes next.
Phases ==
  \A r \in Reqs :
    /\ pc[r] \notin Ended => items[r] = "absent"
    /\ pc[r] \in {"updateCategory", "deleteCategory", "insertItem", "commitItem", "updateItem"}
         => op[r].cat \in Cats
    /\ pc[r] \in {"reorder", "reordering", "count"} =>
         op[r].kind \in {"categories", "items"} /\ IsInjective(op[r].ids)

\* An item that is being added holds its category, which is there; an item
\* that is there has one.
Referred ==
  /\ \A r \in Reqs :
       /\ clock[r] = "KS" <=> pc[r] = "commitItem"
       /\ pc[r] = "commitItem" => OfVenue(op[r].cat)
  /\ \A i \in Items : items[i] # "absent" => category[i] \in Cats

\* A reorder holds rows that it names and that are in its scope.
RowsHeld ==
  \A r \in Reqs :
    /\ pc[r] \notin {"reordering", "count"} => moved[r] = {}
    /\ pc[r] \in {"reordering", "count"} => todo[r] \cup moved[r] \subseteq ToSet(op[r].ids)
    /\ \A x \in moved[r] : InScope(r, x)

IInv == TypeOK /\ Phases /\ Referred /\ ItemsHaveCategory /\ RowsHeld

\* The types of the tables, of the requests and of what they hold.
LEMMA Types ==
  ASSUME TypeOK
  PROVE  /\ cats \in [Cats -> {"absent", "present"}]
         /\ items \in [Items -> {"absent", "live", "deleted"}]
         /\ category \in [Items -> Cats \cup {None}]
         /\ available \in [Items -> BOOLEAN]
         /\ catPos \in [Cats -> Nat] /\ itemPos \in [Items -> Nat]
         /\ pc \in [Reqs -> {"idle"} \cup Statements \cup Ended]
         /\ op \in [Reqs -> Requests]
         /\ clock \in [Reqs -> {"none", "KS"}]
         /\ todo \in [Reqs -> SUBSET (Cats \cup Items)]
         /\ moved \in [Reqs -> SUBSET (Cats \cup Items)]
  BY DEF TypeOK

\* The menu at the start.
LEMMA InitIInv == Init => IInv
<1> SUFFICES ASSUME Init PROVE IInv
  OBVIOUS
<1>1. Request("none", None, None, 0, TRUE, <<>>) \in Requests
  BY CatalogAssumption DEF Request, Requests, Kinds
<1>2. category \in [Items -> Cats \cup {None}]
  BY CatalogAssumption DEF Init, Items, Cats
<1>3. /\ cats \in [Cats -> {"absent", "present"}]
      /\ items \in [Items -> {"absent", "live", "deleted"}]
      /\ available \in [Items -> BOOLEAN]
      /\ catPos \in [Cats -> Nat] /\ itemPos \in [Items -> Nat]
  BY DEF Init
<1>4. TypeOK
  BY <1>1, <1>2, <1>3 DEF Init, TypeOK, Ended
<1>5. Phases
  BY CatalogAssumption DEF Init, Phases, Items
<1>6. Referred /\ ItemsHaveCategory
  BY CatalogAssumption DEF Init, Referred, ItemsHaveCategory, OfVenue, Items, Cats
<1>7. RowsHeld
  BY DEF Init, RowsHeld
<1> QED
  BY <1>4, <1>5, <1>6, <1>7 DEF IInv

\* A request that arrives, for the statement of its kind or refused.
LEMMA ArriveStep ==
  ASSUME IInv, NEW r \in Reqs, NEW request \in Requests,
         NEW place \in {"createCategory", "updateCategory", "deleteCategory", "insertItem",
                        "updateItem", "deleteItem", "reorder"},
         Arrive(r, request, place),
         place \in {"updateCategory", "deleteCategory", "insertItem", "updateItem"}
           => request.cat \in Cats,
         place = "reorder" =>
           request.kind \in {"categories", "items"} /\ IsInjective(request.ids)
  PROVE  IInv'
<1> USE DEF IInv
<1>1. PICK there \in {place, "refused"} :
        /\ pc[r] = "idle" /\ pc' = [pc EXCEPT ![r] = there]
        /\ op' = [op EXCEPT ![r] = request]
        /\ UNCHANGED <<venueOpen, menu, locks>>
  BY DEF Arrive, Goto
<1> USE DEF menu, locks
<1>2. /\ pc'[r] = there /\ op'[r] = request
      /\ \A q \in Reqs \ {r} : pc'[q] = pc[q] /\ op'[q] = op[q]
      /\ moved[r] = {} /\ clock[r] = "none"
  BY <1>1, Types DEF RowsHeld, Referred
<1>3. TypeOK'
  <2>1. pc' \in [Reqs -> {"idle"} \cup Statements \cup Ended]
    BY <1>1, Types DEF Statements, Ended
  <2>2. op' \in [Reqs -> Requests]
    BY <1>1, Types
  <2>3. \A q \in Reqs : pc'[q] \in Ended => moved[q] = {} /\ clock[q] = "none"
    BY <1>2 DEF TypeOK
  <2> QED
    BY <1>1, <2>1, <2>2, <2>3 DEF TypeOK
<1>4. Phases'
  BY <1>1, <1>2 DEF Phases, Ended
<1>5. Referred' /\ ItemsHaveCategory'
  BY <1>1, <1>2 DEF Referred, ItemsHaveCategory, OfVenue
<1>6. RowsHeld'
  BY <1>1, <1>2 DEF RowsHeld, InScope, OfVenue
<1> QED
  BY <1>3, <1>4, <1>5, <1>6

\* The same, for the request with the fields that a form has.
LEMMA ArriveWith ==
  ASSUME IInv, NEW r \in Reqs, NEW kind \in Kinds, NEW cat \in Cats \cup {None},
         NEW item \in Items \cup {None}, NEW pos \in 0..MaxPos, NEW shown \in BOOLEAN,
         NEW ids \in Seq(Cats \cup Items),
         NEW place \in {"createCategory", "updateCategory", "deleteCategory", "insertItem",
                        "updateItem", "deleteItem", "reorder"},
         Arrive(r, Request(kind, cat, item, pos, shown, ids), place),
         place \in {"updateCategory", "deleteCategory", "insertItem", "updateItem"} => cat \in Cats,
         place = "reorder" => kind \in {"categories", "items"} /\ IsInjective(ids)
  PROVE  IInv'
<1> DEFINE request == Request(kind, cat, item, pos, shown, ids)
<1>1. request \in Requests
  BY DEF Request, Requests
<1>2. request.kind = kind /\ request.cat = cat /\ request.ids = ids
  BY DEF Request
<1> HIDE DEF request
<1>3. Arrive(r, request, place)
  BY DEF request
<1> QED
  BY <1>1, <1>2, <1>3, ArriveStep

\* The statements that a request consists of alone, INSERTs of items apart.
Single == {"createCategory", "updateCategory", "deleteCategory", "insertItem",
           "updateItem", "deleteItem"}

\* One of them, with what it must leave alone.
LEMMA SingleStep ==
  ASSUME IInv, NEW r \in Reqs, pc[r] \in Single, NEW place \in Ended, Goto(r, place),
         UNCHANGED <<venueOpen, op, locks>>,
         cats' \in [Cats -> {"absent", "present"}],
         items' \in [Items -> {"absent", "live", "deleted"}],
         category' \in [Items -> Cats \cup {None}],
         available' \in [Items -> BOOLEAN],
         catPos' \in [Cats -> Nat], itemPos' \in [Items -> Nat],
         \A i \in Items : items'[i] = "absent" <=> items[i] = "absent",
         \A i \in Items : items[i] # "absent" => category'[i] \in Cats /\ OfVenue(category[i])',
         \A q \in Reqs : pc[q] = "commitItem" => OfVenue(op[q].cat)',
         \A q \in Reqs : \A x \in moved[q] : InScope(q, x)'
  PROVE  IInv'
<1> USE DEF IInv, locks
<1>1. /\ pc' = [pc EXCEPT ![r] = place]
      /\ moved[r] = {} /\ clock[r] = "none"
  BY Types DEF Goto, RowsHeld, Referred, Single
<1>2. pc'[r] = place /\ \A q \in Reqs \ {r} : pc'[q] = pc[q]
  BY <1>1, Types
<1>3. TypeOK'
  <2>1. pc' \in [Reqs -> {"idle"} \cup Statements \cup Ended]
    BY <1>1, Types
  <2>2. \A q \in Reqs : pc'[q] \in Ended => moved[q] = {} /\ clock[q] = "none"
    BY <1>1, <1>2 DEF TypeOK
  <2> QED
    BY <2>1, <2>2 DEF TypeOK
<1>4. Phases'
  BY <1>2 DEF Phases, Ended, Items
<1>5. Referred' /\ ItemsHaveCategory'
  BY <1>1, <1>2 DEF Referred, ItemsHaveCategory, Ended
<1>6. RowsHeld'
  BY <1>1, <1>2 DEF RowsHeld, Ended
<1> QED
  BY <1>3, <1>4, <1>5, <1>6

\* A reorder or an INSERT that ends: its locks are released, and at most
\* positions have changed.
LEMMA EndStep ==
  ASSUME IInv, NEW r \in Reqs, NEW place \in Ended, Release(r), Goto(r, place),
         UNCHANGED <<venueOpen, cats, items, category, available, op>>,
         catPos' \in [Cats -> Nat], itemPos' \in [Items -> Nat]
  PROVE  IInv'
<1> USE DEF IInv
<1>1. /\ pc' = [pc EXCEPT ![r] = place]
      /\ clock' = [clock EXCEPT ![r] = "none"]
      /\ todo' = [todo EXCEPT ![r] = {}]
      /\ moved' = [moved EXCEPT ![r] = {}]
  BY DEF Release, Goto
<1>2. /\ pc'[r] = place /\ clock'[r] = "none" /\ moved'[r] = {}
      /\ \A q \in Reqs \ {r} :
           pc'[q] = pc[q] /\ clock'[q] = clock[q] /\ todo'[q] = todo[q] /\ moved'[q] = moved[q]
  BY <1>1, Types
<1>3. TypeOK'
  <2>1. pc' \in [Reqs -> {"idle"} \cup Statements \cup Ended]
    BY <1>1, Types
  <2>2. /\ clock' \in [Reqs -> {"none", "KS"}]
        /\ todo' \in [Reqs -> SUBSET (Cats \cup Items)]
        /\ moved' \in [Reqs -> SUBSET (Cats \cup Items)]
    BY <1>1, Types
  <2>3. \A q \in Reqs : pc'[q] \in Ended => moved'[q] = {} /\ clock'[q] = "none"
    BY <1>2 DEF TypeOK
  <2> QED
    BY <2>1, <2>2, <2>3 DEF TypeOK
<1>4. Phases'
  BY <1>2 DEF Phases, Ended
<1>5. Referred' /\ ItemsHaveCategory'
  BY <1>2 DEF Referred, ItemsHaveCategory, OfVenue, Ended
<1>6. RowsHeld'
  BY <1>2 DEF RowsHeld, InScope, OfVenue, Ended
<1> QED
  BY <1>3, <1>4, <1>5, <1>6

\* A category that nobody refers to, adds to or reorders goes away; a new one
\* disturbs nobody.
LEMMA CategoryStep ==
  ASSUME IInv, NEW r \in Reqs,
         CreateCategory(r) \/ UpdateCategory(r) \/ DeleteCategory(r)
  PROVE  IInv'
<1> USE DEF IInv
<1>1. op[r].pos \in Nat /\ r \in Cats /\ "answered" \in Ended /\ "refused" \in Ended
  BY Types, CatalogAssumption DEF Requests, Cats, Ended
<1>2. CASE CreateCategory(r)
  <2>1. PICK place \in Ended : Goto(r, place)
    BY <1>1, <1>2 DEF CreateCategory
  <2>2. cats' = cats \/ cats' = [cats EXCEPT ![r] = "present"]
    BY <1>2 DEF CreateCategory
  <2>3. cats' \in [Cats -> {"absent", "present"}] /\ catPos' \in [Cats -> Nat]
    BY <1>1, <1>2, Types DEF CreateCategory
  <2>4. \A c \in Cats : OfVenue(c) => OfVenue(c)'
    BY <2>2, Types DEF OfVenue
  <2>5. UNCHANGED <<venueOpen, items, category, available, itemPos, op, locks>>
    BY <1>2 DEF CreateCategory
  <2>6. pc[r] \in Single
    BY <1>2 DEF CreateCategory, Single
  <2>7. \A i \in Items : items[i] # "absent" => category'[i] \in Cats /\ OfVenue(category[i])'
    BY <2>4, <2>5 DEF Referred, ItemsHaveCategory, OfVenue
  <2>8. \A q \in Reqs : pc[q] = "commitItem" => OfVenue(op[q].cat)'
    BY <2>4, <2>5 DEF Referred, Phases, OfVenue
  <2>9. \A q \in Reqs : \A x \in moved[q] : InScope(q, x)'
    BY <2>4, <2>5 DEF RowsHeld, InScope, OfVenue
  <2> QED
    BY <2>1, <2>3, <2>5, <2>6, <2>7, <2>8, <2>9, Types, SingleStep
<1>3. CASE UpdateCategory(r)
  <2>1. PICK place \in Ended : Goto(r, place)
    BY <1>1, <1>3 DEF UpdateCategory
  <2>2. catPos' \in [Cats -> Nat]
    BY <1>1, <1>3, Types DEF UpdateCategory
  <2>3. UNCHANGED <<venueOpen, cats, items, category, available, itemPos, op, locks>>
    BY <1>3 DEF UpdateCategory
  <2>4. pc[r] \in Single
    BY <1>3 DEF UpdateCategory, Single
  <2>5. /\ \A i \in Items : items[i] # "absent" => category'[i] \in Cats /\ OfVenue(category[i])'
        /\ \A q \in Reqs : pc[q] = "commitItem" => OfVenue(op[q].cat)'
        /\ \A q \in Reqs : \A x \in moved[q] : InScope(q, x)'
    BY <2>3 DEF Referred, ItemsHaveCategory, RowsHeld, InScope, OfVenue
  <2> QED
    BY <2>1, <2>2, <2>3, <2>4, <2>5, Types, SingleStep
<1>4. CASE DeleteCategory(r)
  <2> DEFINE c == op[r].cat
  <2>1. PICK place \in Ended : Goto(r, place)
    BY <1>1, <1>4 DEF DeleteCategory
  <2>2. UNCHANGED <<venueOpen, items, category, available, catPos, itemPos, op, locks>>
    BY <1>4 DEF DeleteCategory
  <2>3. pc[r] \in Single /\ c \in Cats /\ moved[r] = {} /\ pc[r] # "commitItem"
    BY <1>4 DEF DeleteCategory, Single, Phases, RowsHeld
  <2>4. \/ cats' = cats
        \/ /\ cats' = [cats EXCEPT ![c] = "absent"]
           /\ \A i \in Items : items[i] # "absent" => category[i] # c
           /\ CatRowFree(r, c) /\ CatKeyFree(r, c)
    BY <1>4 DEF DeleteCategory
  <2>5. \A d \in Cats \ {c} : OfVenue(d) => OfVenue(d)'
    BY <2>3, <2>4, Types DEF OfVenue
  <2>6. \A i \in Items : items[i] # "absent" => category'[i] \in Cats /\ OfVenue(category[i])'
    BY <2>2, <2>4, <2>5 DEF Referred, ItemsHaveCategory, OfVenue
  <2>7. \A q \in Reqs : pc[q] = "commitItem" => OfVenue(op[q].cat)'
    BY <2>2, <2>3, <2>4, <2>5 DEF Referred, Phases, OfVenue, CatKeyFree, Conflict
  <2>8. \A q \in Reqs : \A x \in moved[q] : InScope(q, x)'
    <3>1. ASSUME NEW q \in Reqs, NEW x \in moved[q] PROVE InScope(q, x)'
      <4>1. InScope(q, x) /\ q # r
        BY <2>3, <3>1 DEF RowsHeld
      <4>2. CASE op[q].kind = "categories"
        BY <2>2, <2>4, <2>5, <4>1, <4>2 DEF InScope, CatRowFree, OfVenue
      <4>3. CASE op[q].kind # "categories"
        BY <2>2, <4>1, <4>3 DEF InScope
      <4> QED
        BY <4>2, <4>3
    <3> QED
      BY <3>1
  <2>9. cats' \in [Cats -> {"absent", "present"}]
    BY <2>4, Types
  <2> QED
    BY <2>1, <2>2, <2>3, <2>6, <2>7, <2>8, <2>9, Types, SingleStep
<1> QED
  BY <1>2, <1>3, <1>4

\* The foreign key of a new item holds its category until the COMMIT.
LEMMA InsertItemStep ==
  ASSUME IInv, NEW r \in Reqs, InsertItem(r)
  PROVE  IInv'
<1> USE DEF IInv
<1>1. /\ pc[r] = "insertItem" /\ pc[r] \in Single
      /\ UNCHANGED <<venueOpen, menu, op, todo, moved>>
  BY DEF InsertItem, Single
<1> USE DEF menu
<1>2. CASE ~OfVenue(op[r].cat)
  <2>1. Goto(r, "refused") /\ clock' = clock /\ "refused" \in Ended
    BY <1>2 DEF InsertItem, Ended
  <2>2. /\ \A i \in Items : items[i] # "absent" => category'[i] \in Cats /\ OfVenue(category[i])'
        /\ \A q \in Reqs : pc[q] = "commitItem" => OfVenue(op[q].cat)'
        /\ \A q \in Reqs : \A x \in moved[q] : InScope(q, x)'
    BY <1>1 DEF Referred, ItemsHaveCategory, RowsHeld, InScope, OfVenue
  <2> QED
    BY <1>1, <2>1, <2>2, Types, SingleStep DEF locks
<1>3. CASE OfVenue(op[r].cat)
  <2>1. /\ clock' = [clock EXCEPT ![r] = "KS"]
        /\ pc' = [pc EXCEPT ![r] = "commitItem"]
    BY <1>3 DEF InsertItem, Goto
  <2>2. TypeOK'
    <3>1. /\ pc' \in [Reqs -> {"idle"} \cup Statements \cup Ended]
          /\ clock' \in [Reqs -> {"none", "KS"}]
      BY <2>1, Types DEF Statements
    <3>2. \A q \in Reqs : pc'[q] \in Ended => moved[q] = {} /\ clock'[q] = "none"
      BY <2>1, Types DEF TypeOK, Ended
    <3> QED
      BY <1>1, <3>1, <3>2 DEF TypeOK
  <2>3. Phases'
    BY <1>1, <2>1, Types DEF Phases, Ended
  <2>4. Referred' /\ ItemsHaveCategory'
    BY <1>1, <1>3, <2>1, Types DEF Referred, ItemsHaveCategory, OfVenue
  <2>5. RowsHeld'
    BY <1>1, <2>1, Types DEF RowsHeld, InScope, OfVenue
  <2> QED
    BY <2>2, <2>3, <2>4, <2>5
<1> QED
  BY <1>2, <1>3

\* With the COMMIT the item joins it.
LEMMA CommitItemStep ==
  ASSUME IInv, NEW r \in Reqs, CommitItem(r)
  PROVE  IInv' /\ items[r] = "absent"
<1> USE DEF IInv
<1>1. /\ pc[r] = "commitItem" /\ Release(r) /\ Goto(r, "answered")
      /\ items' = [items EXCEPT ![r] = "live"]
      /\ category' = [category EXCEPT ![r] = op[r].cat]
      /\ available' = [available EXCEPT ![r] = op[r].shown]
      /\ itemPos' = [itemPos EXCEPT ![r] = op[r].pos]
      /\ UNCHANGED <<venueOpen, cats, catPos, op>>
  BY DEF CommitItem
<1>2. /\ r \in Items /\ op[r].pos \in Nat /\ op[r].cat \in Cats /\ OfVenue(op[r].cat)
      /\ items[r] = "absent" /\ op[r].shown \in BOOLEAN
  <2>1. op[r] \in Requests
    BY Types
  <2>2. op[r].pos \in Nat /\ op[r].shown \in BOOLEAN
    BY <2>1, CatalogAssumption DEF Requests
  <2> QED
    BY <1>1, <2>2 DEF Items, Phases, Referred, Ended
<1>3. /\ pc' = [pc EXCEPT ![r] = "answered"]
      /\ clock' = [clock EXCEPT ![r] = "none"]
      /\ todo' = [todo EXCEPT ![r] = {}]
      /\ moved' = [moved EXCEPT ![r] = {}]
  BY <1>1 DEF Release, Goto
<1>4. TypeOK'
  <2>1. /\ items' \in [Items -> {"absent", "live", "deleted"}]
        /\ category' \in [Items -> Cats \cup {None}]
    BY <1>1, <1>2, Types
  <2>2. available' \in [Items -> BOOLEAN] /\ itemPos' \in [Items -> Nat]
    BY <1>1, <1>2, Types
  <2>3. /\ pc' \in [Reqs -> {"idle"} \cup Statements \cup Ended]
        /\ clock' \in [Reqs -> {"none", "KS"}]
    BY <1>3, Types DEF Ended
  <2>4. /\ todo' \in [Reqs -> SUBSET (Cats \cup Items)]
        /\ moved' \in [Reqs -> SUBSET (Cats \cup Items)]
    BY <1>3, Types
  <2>5. \A q \in Reqs : pc'[q] \in Ended => moved'[q] = {} /\ clock'[q] = "none"
    BY <1>3, Types DEF TypeOK
  <2> QED
    BY <1>1, <2>1, <2>2, <2>3, <2>4, <2>5 DEF TypeOK
<1>5. Phases'
  BY <1>1, <1>3, Types DEF Phases, Ended, Items
<1>6. Referred' /\ ItemsHaveCategory'
  BY <1>1, <1>2, <1>3, Types DEF Referred, ItemsHaveCategory, OfVenue
<1>7. RowsHeld'
  <2>1. \A q \in Reqs : moved'[q] \subseteq moved[q]
    BY <1>3, Types
  <2>2. ASSUME NEW q \in Reqs, NEW x, InScope(q, x) PROVE InScope(q, x)'
    <3>1. CASE op[q].kind = "categories"
      BY <1>1, <2>2, <3>1 DEF InScope, OfVenue
    <3>2. CASE op[q].kind # "categories"
      BY <1>1, <1>2, <2>2, <3>2, Types DEF InScope
    <3> QED
      BY <3>1, <3>2
  <2>3. \A q \in Reqs : \A x \in moved'[q] : InScope(q, x)'
    BY <2>1, <2>2 DEF RowsHeld
  <2>4. \A q \in Reqs : pc'[q] \in {"reordering", "count"} =>
          /\ pc[q] = pc'[q] /\ todo'[q] = todo[q] /\ moved'[q] = moved[q]
    BY <1>1, <1>3, Types
  <2>5. \A q \in Reqs : pc'[q] \notin {"reordering", "count"} => moved'[q] = {}
    BY <1>1, <1>3, Types DEF RowsHeld
  <2> QED
    BY <1>1, <2>3, <2>4, <2>5 DEF RowsHeld
<1> QED
  BY <1>2, <1>4, <1>5, <1>6, <1>7

\* An item changes its category, or is deleted, unless a reorder holds it.
LEMMA ItemStep ==
  ASSUME IInv, NEW r \in Reqs, UpdateItem(r) \/ DeleteMenuItem(r)
  PROVE  IInv'
<1> USE DEF IInv
<1> DEFINE i == op[r].item
<1>1. /\ pc[r] \in Single /\ moved[r] = {}
      /\ UNCHANGED <<venueOpen, cats, catPos, op, locks>>
      /\ "answered" \in Ended /\ "refused" \in Ended
  BY DEF UpdateItem, DeleteMenuItem, Single, RowsHeld, Ended
<1>2. PICK place \in Ended : Goto(r, place)
  BY <1>1 DEF UpdateItem, DeleteMenuItem
<1>3. CASE UNCHANGED <<items, category, available, itemPos>>
  <2>1. /\ \A j \in Items : items[j] # "absent" => category'[j] \in Cats /\ OfVenue(category[j])'
        /\ \A q \in Reqs : pc[q] = "commitItem" => OfVenue(op[q].cat)'
        /\ \A q \in Reqs : \A x \in moved[q] : InScope(q, x)'
    BY <1>1, <1>3 DEF Referred, ItemsHaveCategory, RowsHeld, InScope, OfVenue
  <2> QED
    BY <1>1, <1>2, <1>3, <2>1, Types, SingleStep
<1>4. CASE ~ UNCHANGED <<items, category, available, itemPos>>
  <2>1. /\ items[i] = "live" /\ ItemRowFree(r, i)
        /\ \/ /\ OfVenue(op[r].cat) /\ op[r].cat \in Cats
              /\ items' = items
              /\ category' = [category EXCEPT ![i] = op[r].cat]
              /\ available' = [available EXCEPT ![i] = op[r].shown]
              /\ itemPos' = [itemPos EXCEPT ![i] = op[r].pos]
           \/ /\ items' = [items EXCEPT ![i] = "deleted"]
              /\ available' = [available EXCEPT ![i] = FALSE]
              /\ UNCHANGED <<category, itemPos>>
    BY <1>4 DEF UpdateItem, DeleteMenuItem, Updatable, Phases
  <2>2. op[r].pos \in Nat /\ op[r].shown \in BOOLEAN
    BY Types, CatalogAssumption DEF Requests
  <2>3. /\ items' \in [Items -> {"absent", "live", "deleted"}]
        /\ category' \in [Items -> Cats \cup {None}]
    BY <2>1, Types
  <2>4. available' \in [Items -> BOOLEAN] /\ itemPos' \in [Items -> Nat]
    <3>1. available' \in [Items -> BOOLEAN]
      BY <2>1, <2>2, Types
    <3>2. itemPos' \in [Items -> Nat]
      BY <2>1, <2>2, Types
    <3> QED
      BY <3>1, <3>2
  <2>5. /\ \A j \in Items \ {i} : items'[j] = items[j] /\ category'[j] = category[j]
        /\ \A j \in Items : items'[j] = "absent" <=> items[j] = "absent"
        /\ \A j \in Items : category'[j] \in {category[j], op[r].cat}
        /\ category' # category => op[r].cat \in Cats /\ OfVenue(op[r].cat)
    <3>1. CASE items' = items /\ category' = [category EXCEPT ![i] = op[r].cat]
      BY <2>1, <3>1, Types
    <3>2. CASE items' = [items EXCEPT ![i] = "deleted"] /\ category' = category
      BY <2>1, <3>2, Types
    <3> QED
      BY <2>1, <3>1, <3>2
  <2>6. \A j \in Items : items[j] # "absent" => category'[j] \in Cats /\ OfVenue(category[j])'
    BY <1>1, <2>5 DEF Referred, ItemsHaveCategory, OfVenue
  <2>7. \A q \in Reqs : pc[q] = "commitItem" => OfVenue(op[q].cat)'
    BY <1>1 DEF Referred, OfVenue
  <2>8. \A q \in Reqs : \A x \in moved[q] : InScope(q, x)'
    <3>1. ASSUME NEW q \in Reqs, NEW x \in moved[q] PROVE InScope(q, x)'
      <4>1. /\ InScope(q, x) /\ q # r
            /\ op[q].kind \in {"categories", "items"}
        BY <1>1, <3>1 DEF RowsHeld, Phases
      <4>2. CASE op[q].kind = "categories"
        BY <1>1, <4>1, <4>2 DEF InScope, OfVenue
      <4>3. CASE op[q].kind = "items"
        <5>1. x # i
          BY <2>1, <3>1, <4>1, <4>3 DEF ItemRowFree
        <5> QED
          BY <1>1, <2>5, <4>1, <4>3, <5>1 DEF InScope
      <4> QED
        BY <4>1, <4>2, <4>3
    <3> QED
      BY <3>1
  <2> QED
    BY <1>1, <1>2, <2>3, <2>4, <2>5, <2>6, <2>7, <2>8, Types, SingleStep
<1> QED
  BY <1>3, <1>4

\* A reorder reaches its rows one at a time.
LEMMA ReorderStep ==
  ASSUME IInv, NEW r \in Reqs, BeginReorder(r) \/ ReorderRow(r) \/ EndReorder(r)
  PROVE  IInv'
<1> USE DEF IInv
<1>1. /\ pc[r] \in {"reorder", "reordering"}
      /\ pc' \in {[pc EXCEPT ![r] = "reordering"], [pc EXCEPT ![r] = "count"], pc}
      /\ pc[r] = "reorder" => pc' = [pc EXCEPT ![r] = "reordering"]
      /\ UNCHANGED <<venueOpen, menu, op, clock>>
  BY DEF BeginReorder, ReorderRow, EndReorder, Goto, locks
<1>2. /\ pc'[r] \in {"reordering", "count"}
      /\ \A q \in Reqs \ {r} : pc'[q] = pc[q]
      /\ pc' \in [Reqs -> {"idle"} \cup Statements \cup Ended]
  BY <1>1, Types DEF Statements
<1>3. /\ todo' \in [Reqs -> SUBSET (Cats \cup Items)]
      /\ moved' \in [Reqs -> SUBSET (Cats \cup Items)]
      /\ \A q \in Reqs \ {r} : todo'[q] = todo[q] /\ moved'[q] = moved[q]
      /\ todo'[r] \cup moved'[r] \subseteq ToSet(op[r].ids)
      /\ \A x \in moved'[r] : InScope(r, x)
  <2>1. CASE BeginReorder(r)
    <3>1. /\ todo' = [todo EXCEPT ![r] = {x \in ToSet(op[r].ids) : InScope(r, x)}]
          /\ moved' = moved /\ moved[r] = {}
      BY <2>1 DEF BeginReorder, RowsHeld
    <3>2. {x \in ToSet(op[r].ids) : InScope(r, x)} \subseteq Cats \cup Items
      BY DEF InScope
    <3> QED
      BY <3>1, <3>2, Types
  <2>2. CASE ReorderRow(r)
    <3>1. PICK x \in todo[r] :
            /\ todo' = [todo EXCEPT ![r] = todo[r] \ {x}]
            /\ moved' = [moved EXCEPT ![r] = IF InScope(r, x) THEN moved[r] \cup {x}
                                                              ELSE moved[r]]
      BY <2>2 DEF ReorderRow
    <3>2. /\ todo[r] \cup moved[r] \subseteq ToSet(op[r].ids)
          /\ \A y \in moved[r] : InScope(r, y)
      BY <2>2 DEF ReorderRow, RowsHeld
    <3> QED
      BY <3>1, <3>2, Types
  <2>3. CASE EndReorder(r)
    BY <2>3, Types DEF EndReorder, RowsHeld, locks
  <2> QED
    BY <2>1, <2>2, <2>3
<1>4. TypeOK'
  <2>1. \A q \in Reqs : pc'[q] \in Ended => moved'[q] = {} /\ clock'[q] = "none"
    BY <1>1, <1>2, <1>3 DEF TypeOK, Ended
  <2> QED
    BY <1>1, <1>2, <1>3, <2>1 DEF TypeOK, menu
<1>5. Phases'
  BY <1>1, <1>2 DEF Phases, Ended, menu
<1>6. Referred' /\ ItemsHaveCategory'
  BY <1>1, <1>2 DEF Referred, ItemsHaveCategory, OfVenue, menu
<1>7. RowsHeld'
  BY <1>1, <1>2, <1>3 DEF RowsHeld, InScope, OfVenue, menu
<1> QED
  BY <1>4, <1>5, <1>6, <1>7

\* The new positions are those of the request.
LEMMA ReorderedType ==
  ASSUME IInv, NEW r \in Reqs, pc[r] = "count", NEW S, NEW pos \in [S -> Nat]
  PROVE  /\ Reordered(r, pos) \in [S -> Nat]
         /\ \A n \in DOMAIN op[r].ids :
              op[r].ids[n] \in moved[r] \cap S => Reordered(r, pos)[op[r].ids[n]] = n - 1
         /\ \A x \in S \ moved[r] : Reordered(r, pos)[x] = pos[x]
<1> DEFINE ids == op[r].ids
<1>1. /\ ids \in Seq(Cats \cup Items) /\ IsInjective(ids)
      /\ moved[r] \subseteq ToSet(ids)
  BY Types DEF IInv, Requests, Phases, RowsHeld
<1>2. \A n \in DOMAIN ids : n \in Nat /\ n - 1 \in Nat
  BY <1>1
<1>3. \A x \in ToSet(ids) : \E n \in DOMAIN ids : ids[n] = x
  BY DEF ToSet
<1>4. \A n \in DOMAIN ids : (CHOOSE m \in DOMAIN ids : ids[m] = ids[n]) = n
  BY <1>1 DEF IsInjective
<1>5. Reordered(r, pos) =
        [x \in S |-> IF x \in moved[r] THEN (CHOOSE n \in DOMAIN ids : ids[n] = x) - 1 ELSE pos[x]]
  BY DEF Reordered
<1>6. \A x \in moved[r] : (CHOOSE n \in DOMAIN ids : ids[n] = x) - 1 \in Nat
  <2>1. \A x \in moved[r] : (CHOOSE n \in DOMAIN ids : ids[n] = x) \in DOMAIN ids
    BY <1>1, <1>3
  <2> QED
    BY <1>2, <2>1
<1>7. \A n \in DOMAIN ids :
        ids[n] \in moved[r] \cap S => Reordered(r, pos)[ids[n]] = n - 1
  <2> SUFFICES ASSUME NEW n \in DOMAIN ids, ids[n] \in moved[r] \cap S
               PROVE  Reordered(r, pos)[ids[n]] = n - 1
    OBVIOUS
  <2>1. Reordered(r, pos)[ids[n]] = (CHOOSE m \in DOMAIN ids : ids[m] = ids[n]) - 1
    BY <1>5
  <2> QED
    BY <1>4, <2>1
<1>8. Reordered(r, pos) \in [S -> Nat]
  <2> DEFINE at(x) == (CHOOSE n \in DOMAIN ids : ids[n] = x) - 1
  <2>1. Reordered(r, pos) = [x \in S |-> IF x \in moved[r] THEN at(x) ELSE pos[x]]
    BY <1>5
  <2>2. \A x \in moved[r] : at(x) \in Nat
    BY <1>6
  <2> HIDE DEF at
  <2> QED
    BY <2>1, <2>2
<1>9. \A x \in S \ moved[r] : Reordered(r, pos)[x] = pos[x]
  BY <1>5
<1> QED
  BY <1>7, <1>8, <1>9

\* A reorder ends with its COMMIT or its ROLLBACK.
LEMMA CommitReorderStep ==
  ASSUME IInv, NEW r \in Reqs, CommitReorder(r)
  PROVE  IInv'
<1>1. catPos' \in [Cats -> Nat] /\ itemPos' \in [Items -> Nat]
  <2>1. pc[r] = "count" /\ catPos \in [Cats -> Nat] /\ itemPos \in [Items -> Nat]
    BY Types DEF CommitReorder, IInv
  <2>2. /\ catPos' = catPos \/ catPos' = Reordered(r, catPos)
        /\ itemPos' = itemPos \/ itemPos' = Reordered(r, itemPos)
    BY DEF CommitReorder
  <2> QED
    BY <2>1, <2>2, ReorderedType
<1>2. PICK place \in Ended : Goto(r, place)
  BY DEF CommitReorder, Ended
<1> QED
  BY <1>1, <1>2, EndStep DEF CommitReorder

\* The inductive step, one case per operation.
LEMMA StepIInv == IInv /\ [Next]_vars => IInv'
<1> SUFFICES ASSUME IInv, [Next]_vars PROVE IInv'
  OBVIOUS
<1> USE DEF IInv
<1>1. CASE UNCHANGED vars
  BY <1>1 DEF vars, menu, locks, TypeOK, Phases, Referred, ItemsHaveCategory, RowsHeld,
              InScope, OfVenue
<1>2. CASE DeleteVenue
  <2>1. venueOpen' = FALSE /\ UNCHANGED <<menu, pc, op, locks>>
    BY <1>2 DEF DeleteVenue
  <2>2. TypeOK'
    BY <2>1 DEF menu, locks, TypeOK
  <2>3. Phases' /\ Referred' /\ ItemsHaveCategory' /\ RowsHeld'
    BY <2>1 DEF menu, locks, Phases, Referred, ItemsHaveCategory, RowsHeld, InScope, OfVenue
  <2> QED
    BY <2>2, <2>3
<1>4. ASSUME NEW r \in Reqs, StartCategory(r) PROVE IInv'
  <2>1. PICK c \in Cats, pos \in 0..MaxPos :
          \/ Arrive(r, Request("createCategory", r, None, pos, TRUE, <<>>), "createCategory")
          \/ Arrive(r, Request("updateCategory", c, None, pos, TRUE, <<>>), "updateCategory")
          \/ Arrive(r, Request("deleteCategory", c, None, 0, TRUE, <<>>), "deleteCategory")
    BY <1>4 DEF StartCategory
  <2>2. r \in Cats /\ 0 \in 0..MaxPos /\ <<>> \in Seq(Cats \cup Items)
    BY CatalogAssumption DEF Cats
  <2>3. CASE Arrive(r, Request("createCategory", r, None, pos, TRUE, <<>>), "createCategory")
    BY <2>2, <2>3, ArriveWith DEF Kinds
  <2>4. CASE Arrive(r, Request("updateCategory", c, None, pos, TRUE, <<>>), "updateCategory")
    BY <2>2, <2>4, ArriveWith DEF Kinds
  <2>5. CASE Arrive(r, Request("deleteCategory", c, None, 0, TRUE, <<>>), "deleteCategory")
    BY <2>2, <2>5, ArriveWith DEF Kinds
  <2> QED
    BY <2>1, <2>3, <2>4, <2>5
<1>5. ASSUME NEW r \in Reqs, StartItem(r) \/ StartDeleteItem(r) PROVE IInv'
  <2>1. PICK c \in Cats, pos \in 0..MaxPos, i \in Items, shown \in BOOLEAN :
          \/ Arrive(r, Request("insertItem", c, r, pos, shown, <<>>), "insertItem")
          \/ Arrive(r, Request("updateItem", c, i, pos, shown, <<>>), "updateItem")
          \/ Arrive(r, Request("deleteItem", None, i, 0, TRUE, <<>>), "deleteItem")
    <3>1. r \in Items /\ r \in Cats /\ 0 \in 0..MaxPos
      BY CatalogAssumption DEF Items, Cats
    <3> QED
      BY <1>5, <3>1 DEF StartItem, StartDeleteItem
  <2>2. r \in Items /\ 0 \in 0..MaxPos /\ <<>> \in Seq(Cats \cup Items)
    BY CatalogAssumption DEF Items
  <2>3. CASE Arrive(r, Request("insertItem", c, r, pos, shown, <<>>), "insertItem")
    BY <2>2, <2>3, ArriveWith DEF Kinds
  <2>4. CASE Arrive(r, Request("updateItem", c, i, pos, shown, <<>>), "updateItem")
    BY <2>2, <2>4, ArriveWith DEF Kinds
  <2>5. CASE Arrive(r, Request("deleteItem", None, i, 0, TRUE, <<>>), "deleteItem")
    BY <2>2, <2>5, ArriveWith DEF Kinds
  <2> QED
    BY <2>1, <2>3, <2>4, <2>5
<1>6. ASSUME NEW r \in Reqs, StartReorder(r) PROVE IInv'
  <2>1. PICK kind \in {"categories", "items"}, cat \in Cats \cup {None}, ids \in Seq(Cats \cup Items) :
          IsInjective(ids) /\ Arrive(r, Request(kind, cat, None, 0, TRUE, ids), "reorder")
    <3>1. \A S \in SUBSET (Cats \cup Items) : \A ids \in Orders(S) :
            ids \in Seq(Cats \cup Items) /\ IsInjective(ids)
      <4> SUFFICES ASSUME NEW S \in SUBSET (Cats \cup Items), NEW ids \in Orders(S)
                   PROVE  ids \in Seq(Cats \cup Items) /\ IsInjective(ids)
        OBVIOUS
      <4>1. PICK m \in 0..MaxIds : ids \in [1..m -> S] /\ IsInjective(ids)
        BY DEF Orders, SeqOf
      <4>2. m \in Nat
        BY <4>1, CatalogAssumption
      <4> QED
        BY <4>1, <4>2
    <3>2. /\ {c \in Cats : cats[c] = "present"} \in SUBSET (Cats \cup Items)
          /\ {i \in Items : items[i] # "absent"} \in SUBSET (Cats \cup Items)
      OBVIOUS
    <3> QED
      BY <1>6, <3>1, <3>2 DEF StartReorder
  <2>2. 0 \in 0..MaxPos
    BY CatalogAssumption
  <2> QED
    BY <2>1, <2>2, ArriveWith DEF Kinds
<1>7. ASSUME NEW r \in Reqs, CreateCategory(r) \/ UpdateCategory(r) \/ DeleteCategory(r)
      PROVE  IInv'
  BY <1>7, CategoryStep
<1>8. ASSUME NEW r \in Reqs, InsertItem(r) \/ CommitItem(r) PROVE IInv'
  BY <1>8, InsertItemStep, CommitItemStep
<1>9. ASSUME NEW r \in Reqs, UpdateItem(r) \/ DeleteMenuItem(r) PROVE IInv'
  BY <1>9, ItemStep
<1>10. ASSUME NEW r \in Reqs, BeginReorder(r) \/ ReorderRow(r) \/ EndReorder(r) PROVE IInv'
  BY <1>10, ReorderStep
<1>11. ASSUME NEW r \in Reqs, CommitReorder(r) PROVE IInv'
  BY <1>11, CommitReorderStep
<1>12. ASSUME NEW r \in Reqs, Fail(r) PROVE IInv'
  <2>1. "failed" \in Ended
    BY DEF Ended
  <2> QED
    BY <1>12, <2>1, EndStep, Types DEF Fail, menu
<1> QED
  BY <1>1, <1>2, <1>4, <1>5, <1>6, <1>7, <1>8, <1>9, <1>10, <1>11, <1>12 DEF Next, Start, Step

\* The invariant that the owner's requests maintain.
THEOREM Invariance == Spec => []IInv
  BY InitIInv, StepIInv, PTL DEF Spec

\* The type invariant; no request keeps a lock after it has ended.
THEOREM TypeCorrect == Spec => []TypeOK
<1>1. IInv => TypeOK
  BY DEF IInv
<1> QED
  BY <1>1, Invariance, PTL

\* The foreign key and the scope of every statement keep each item in a
\* category of its venue.
THEOREM ItemsInCategories == Spec => []ItemsHaveCategory
<1>1. IInv => ItemsHaveCategory
  BY DEF IInv
<1> QED
  BY <1>1, Invariance, PTL

\* A statement that writes menu_items.
ItemWrite(r) == CommitItem(r) \/ UpdateItem(r) \/ DeleteMenuItem(r) \/ CommitReorder(r)

\* Nothing else writes them.
LEMMA ItemWriters ==
  ASSUME Next
  PROVE  (\E r \in Reqs : ItemWrite(r)) \/ UNCHANGED <<items, category, available, itemPos>>
<1>1. CASE DeleteVenue
  BY <1>1 DEF DeleteVenue, menu
<1>2. ASSUME NEW r \in Reqs, Start(r)
      PROVE  UNCHANGED <<items, category, available, itemPos>>
  BY <1>2 DEF Start, StartCategory, StartItem, StartDeleteItem, StartReorder, Arrive, menu
<1>3. ASSUME NEW r \in Reqs, Step(r), ~ItemWrite(r)
      PROVE  UNCHANGED <<items, category, available, itemPos>>
  BY <1>3 DEF Step, ItemWrite, CreateCategory, UpdateCategory, DeleteCategory, InsertItem,
              BeginReorder, ReorderRow, EndReorder, menu, locks
<1>4. ASSUME NEW r \in Reqs, Fail(r)
      PROVE  UNCHANGED <<items, category, available, itemPos>>
  BY <1>4 DEF Fail, menu
<1> QED
  BY <1>1, <1>2, <1>3, <1>4 DEF Next

\* Only the commits of reorders write positions of several rows; an item that
\* is deleted is written by nobody.
LEMMA DeletedUntouched ==
  ASSUME IInv, Next, NEW i \in Items, items[i] = "deleted"
  PROVE  /\ items'[i] = "deleted" /\ available'[i] = available[i]
         /\ category'[i] = category[i] /\ itemPos'[i] = itemPos[i]
<1> USE DEF IInv
<1>1. CASE UNCHANGED <<items, category, available, itemPos>>
  BY <1>1
<1>2. ASSUME NEW r \in Reqs, CommitItem(r)
      PROVE  /\ items'[i] = "deleted" /\ available'[i] = available[i]
             /\ category'[i] = category[i] /\ itemPos'[i] = itemPos[i]
  <2>1. i # r
    BY <1>2, CommitItemStep
  <2> QED
    BY <1>2, <2>1, Types DEF CommitItem
<1>3. ASSUME NEW r \in Reqs, UpdateItem(r) \/ DeleteMenuItem(r)
      PROVE  /\ items'[i] = "deleted" /\ available'[i] = available[i]
             /\ category'[i] = category[i] /\ itemPos'[i] = itemPos[i]
  <2>1. CASE UNCHANGED <<items, category, available, itemPos>>
    BY <2>1
  <2>2. CASE ~ UNCHANGED <<items, category, available, itemPos>>
    <3>1. op[r].item # i
      BY <1>3, <2>2 DEF UpdateItem, DeleteMenuItem, Updatable
    <3>2. /\ items'[i] = items[i] /\ available'[i] = available[i]
          /\ category'[i] = category[i] /\ itemPos'[i] = itemPos[i]
      <4>1. CASE UpdateItem(r)
        BY <3>1, <4>1, Types DEF UpdateItem
      <4>2. CASE DeleteMenuItem(r)
        BY <3>1, <4>2, Types DEF DeleteMenuItem
      <4> QED
        BY <1>3, <4>1, <4>2
    <3> QED
      BY <3>2
  <2> QED
    BY <2>1, <2>2
<1>4. ASSUME NEW r \in Reqs, CommitReorder(r)
      PROVE  /\ items'[i] = "deleted" /\ available'[i] = available[i]
             /\ category'[i] = category[i] /\ itemPos'[i] = itemPos[i]
  <2>1. /\ pc[r] = "count" /\ UNCHANGED <<items, category, available>>
        /\ \/ itemPos' = itemPos
           \/ itemPos' = Reordered(r, itemPos) /\ op[r].kind # "categories"
    BY <1>4 DEF CommitReorder
  <2>2. op[r].kind # "categories" => i \notin moved[r]
    BY DEF RowsHeld, InScope
  <2> QED
    BY <2>1, <2>2, ReorderedType, Types
<1>5. (\E r \in Reqs : ItemWrite(r)) \/ UNCHANGED <<items, category, available, itemPos>>
  BY ItemWriters
<1> QED
  BY <1>1, <1>2, <1>3, <1>4, <1>5 DEF ItemWrite

\* DeleteMenuItem takes an item off the menu in the same statement.
Withdrawn == \A i \in Items : items[i] = "deleted" => ~available[i]

\* No item is deleted at the start, and none is by any other statement.
LEMMA WithdrawnStep ==
  /\ Init => Withdrawn
  /\ IInv /\ Withdrawn /\ [Next]_vars => Withdrawn'
<1>1. Init => Withdrawn
  BY DEF Init, Withdrawn
<1>2. IInv /\ Withdrawn /\ [Next]_vars => Withdrawn'
  <2> SUFFICES ASSUME IInv, Withdrawn, Next, NEW i \in Items, items'[i] = "deleted"
               PROVE  ~available'[i]
    BY DEF Withdrawn, vars, menu
  <2>1. CASE items[i] = "deleted"
    BY <2>1, DeletedUntouched DEF Withdrawn
  <2>2. CASE items[i] # "deleted"
    <3>1. PICK r \in Reqs : CommitItem(r) \/ DeleteMenuItem(r)
      BY <2>2, ItemWriters DEF ItemWrite, UpdateItem, CommitReorder
    <3>2. CASE CommitItem(r)
      <4>1. items' = [items EXCEPT ![r] = "live"]
        BY <3>2 DEF CommitItem
      <4> QED
        BY <2>2, <4>1, Types DEF IInv
    <3>3. CASE DeleteMenuItem(r)
      <4>1. /\ items' = [items EXCEPT ![op[r].item] = "deleted"]
            /\ available' = [available EXCEPT ![op[r].item] = FALSE]
        BY <2>2, <3>3 DEF DeleteMenuItem
      <4> QED
        BY <2>2, <4>1, Types DEF IInv
    <3> QED
      BY <3>1, <3>2, <3>3
  <2> QED
    BY <2>1, <2>2
<1> QED
  BY <1>1, <1>2

\* No statement, and no reorder that was on its way, touches a deleted item.
THEOREM DeletionIsFinal == Spec => DeletedItemStays
<1> DEFINE Stays == \A i \in Items : items[i] = "deleted" =>
                      /\ items'[i] = "deleted" /\ ~available'[i]
                      /\ category'[i] = category[i] /\ itemPos'[i] = itemPos[i]
<1>1. Spec => [](IInv /\ Withdrawn)
  BY InitIInv, StepIInv, WithdrawnStep, PTL DEF Spec
<1>2. IInv /\ Withdrawn /\ [Next]_vars => [Stays]_vars
  BY DeletedUntouched DEF Withdrawn
<1> QED
  BY <1>1, <1>2, PTL DEF DeletedItemStays, Spec

\* The interval of the places of a sequence.
LEMMA Places ==
  ASSUME NEW n \in Nat
  PROVE  IsFiniteSet(1..n) /\ Cardinality(1..n) = n
<1>1. IsFiniteSet(1..n) /\ Cardinality(1..n) = IF 1 > n THEN 0 ELSE n - 1 + 1
  BY FS_Interval
<1> QED
  BY <1>1

\* A sequence of n elements has at most n: a set of n among them is all of them.
LEMMA AllOfThem ==
  ASSUME NEW S, NEW ids \in Seq(S), NEW T \in SUBSET ToSet(ids), Cardinality(T) = Len(ids)
  PROVE  T = ToSet(ids)
<1>1. ids \in Surjection(1..Len(ids), ToSet(ids))
  BY DEF Surjection, ToSet
<1>2. IsFiniteSet(1..Len(ids)) /\ Cardinality(1..Len(ids)) = Len(ids)
  <2>1. Len(ids) \in Nat
    OBVIOUS
  <2> QED
    BY <2>1, Places
<1>3. IsFiniteSet(ToSet(ids)) /\ Cardinality(ToSet(ids)) <= Len(ids)
  BY <1>1, <1>2, FS_Surjection
<1>4. Cardinality(T) <= Cardinality(ToSet(ids)) /\ Cardinality(ToSet(ids)) \in Nat
  BY <1>3, FS_Subset, FS_CardinalityType
<1>5. Cardinality(ToSet(ids)) = Cardinality(T)
  BY <1>3, <1>4
<1> QED
  BY <1>3, <1>5, FS_Subset

\* RowsAffected = len(ids) says that each row was reached in its scope: the
\* rows it holds are all that the request names.
THEOREM ReorderWhole == Spec => ReorderIsWhole
<1> DEFINE Whole ==
      \A r \in Reqs :
        op[r].kind \in {"categories", "items"} /\ pc[r] = "count" /\ pc'[r] = "answered"
          => LET ids == op[r].ids
                 old == IF op[r].kind = "items" THEN itemPos ELSE catPos
                 new == IF op[r].kind = "items" THEN itemPos' ELSE catPos'
             IN  /\ \A n \in DOMAIN ids : InScope(r, ids[n]) /\ new[ids[n]] = n - 1
                 /\ \A x \in DOMAIN old \ ToSet(ids) : new[x] = old[x]
<1>1. IInv /\ [Next]_vars => [Whole]_vars
  <2> SUFFICES ASSUME IInv, Next, NEW r \in Reqs,
                      op[r].kind \in {"categories", "items"},
                      pc[r] = "count", pc'[r] = "answered"
               PROVE  LET ids == op[r].ids
                          old == IF op[r].kind = "items" THEN itemPos ELSE catPos
                          new == IF op[r].kind = "items" THEN itemPos' ELSE catPos'
                      IN  /\ \A n \in DOMAIN ids : InScope(r, ids[n]) /\ new[ids[n]] = n - 1
                          /\ \A x \in DOMAIN old \ ToSet(ids) : new[x] = old[x]
    BY DEF vars
  <2> DEFINE ids == op[r].ids
             rows == IF op[r].kind = "items" THEN Items ELSE Cats
             old == IF op[r].kind = "items" THEN itemPos ELSE catPos
             new == IF op[r].kind = "items" THEN itemPos' ELSE catPos'
  <2>1. CommitReorder(r)
    <3>1. ~ DeleteVenue
      BY DEF DeleteVenue
    <3>2. ASSUME NEW q \in Reqs, NEW request, NEW place, Arrive(q, request, place) PROVE FALSE
      <4>1. pc[q] = "idle" /\ \E there : pc' = [pc EXCEPT ![q] = there]
        BY <3>2 DEF Arrive, Goto
      <4> QED
        BY <4>1, Types DEF IInv
    <3>3. ASSUME NEW q \in Reqs, Start(q) PROVE FALSE
      BY <3>2, <3>3 DEF Start, StartCategory, StartItem, StartDeleteItem, StartReorder
    <3>4. ASSUME NEW q \in Reqs, Fail(q) PROVE FALSE
      BY <3>4, Types DEF IInv, Fail, Goto
    <3>5. PICK q \in Reqs : Step(q)
      BY <3>1, <3>3, <3>4 DEF Next
    <3> QED
      BY <3>5, Types DEF IInv, Step, CreateCategory, UpdateCategory, DeleteCategory,
           InsertItem, CommitItem, UpdateItem, DeleteMenuItem, BeginReorder, ReorderRow,
           EndReorder, CommitReorder, Goto
  <2>2. AllMoved(r) /\ new = Reordered(r, old)
    BY <2>1, Types DEF CommitReorder, Goto, IInv
  <2>3. moved[r] = ToSet(ids)
    BY <2>2, AllOfThem, Types DEF AllMoved, IInv, RowsHeld, Requests
  <2>4. old \in [rows -> Nat] /\ moved[r] \subseteq rows
    BY Types DEF IInv, RowsHeld, InScope
  <2>5. \A n \in DOMAIN ids : ids[n] \in moved[r]
    BY <2>3 DEF ToSet
  <2>6. \A n \in DOMAIN ids : new[ids[n]] = n - 1
    BY <2>2, <2>4, <2>5, ReorderedType
  <2>7. \A x \in rows \ ToSet(ids) : new[x] = old[x]
    BY <2>2, <2>3, <2>4, ReorderedType
  <2> QED
    BY <2>4, <2>5, <2>6, <2>7 DEF IInv, RowsHeld
<1> QED
  BY <1>1, Invariance, PTL DEF ReorderIsWhole, Spec
-----------------------------------------------------------------------------
(* The menu of atomic edits                                                 *)

\* The category that a request makes is not there while it runs.
Unmade == \A r \in Reqs : pc[r] \notin Ended => cats[r] = "absent"

\* A statement writes the category of its own request only when it ends.
LEMMA UnmadeStep ==
  /\ Init => Unmade
  /\ IInv /\ Unmade /\ [Next]_vars => Unmade'
<1>1. Init => Unmade
  BY DEF Init, Unmade, Cats
<1>2. IInv /\ Unmade /\ [Next]_vars => Unmade'
  <2> SUFFICES ASSUME IInv, Unmade, Next, NEW r \in Reqs, pc'[r] \notin Ended
               PROVE  cats'[r] = "absent"
    BY DEF Unmade, vars, menu
  <2>0. r \in Cats /\ pc \in [Reqs -> {"idle"} \cup Statements \cup Ended]
        /\ cats \in [Cats -> {"absent", "present"}]
    BY Types DEF IInv, Cats
  <2>1. CASE DeleteVenue
    BY <2>1 DEF DeleteVenue, menu, Unmade
  <2>2. ASSUME NEW q \in Reqs, pc[q] \notin Ended,
               pc' = pc \/ \E place : Goto(q, place), cats' = cats
        PROVE  cats'[r] = "absent"
    BY <2>0, <2>2 DEF Goto, Unmade
  <2>3. ASSUME NEW q \in Reqs, Start(q) PROVE cats'[r] = "absent"
    <3>1. pc[q] = "idle" /\ cats' = cats /\ \E place : Goto(q, place)
      BY <2>3 DEF Start, StartCategory, StartItem, StartDeleteItem, StartReorder, Arrive, menu
    <3> QED
      BY <2>2, <3>1 DEF Ended
  <2>4. ASSUME NEW q \in Reqs, CreateCategory(q) PROVE cats'[r] = "absent"
    BY <2>0, <2>4 DEF CreateCategory, Goto, Unmade, Ended
  <2>5. ASSUME NEW q \in Reqs, DeleteCategory(q) PROVE cats'[r] = "absent"
    BY <2>0, <2>5 DEF DeleteCategory, Goto, Unmade, Ended
  <2>6. ASSUME NEW q \in Reqs,
               \/ UpdateCategory(q) \/ InsertItem(q) \/ CommitItem(q) \/ UpdateItem(q)
               \/ DeleteMenuItem(q) \/ BeginReorder(q) \/ ReorderRow(q) \/ EndReorder(q)
               \/ CommitReorder(q) \/ Fail(q)
        PROVE  cats'[r] = "absent"
    <3>1. /\ pc[q] \notin Ended /\ cats' = cats
          /\ pc' = pc \/ \E place : Goto(q, place)
      BY <2>6 DEF UpdateCategory, InsertItem, CommitItem, UpdateItem, DeleteMenuItem, BeginReorder,
           ReorderRow, EndReorder, CommitReorder, Fail, menu, Ended, Statements
    <3> QED
      BY <2>2, <3>1
  <2> QED
    BY <2>1, <2>3, <2>4, <2>5, <2>6 DEF Next, Step
<1> QED
  BY <1>1, <1>2

\* The rows of a reorder that has all of them get the places from 0 on.
LEMMA Arrangement ==
  ASSUME IInv, NEW r \in Reqs, pc[r] = "count", AllMoved(r),
         NEW S, NEW pos \in [S -> Nat], NEW D \in SUBSET S
  PROVE  [x \in D |-> Reordered(r, pos)[x]] \in Card!Arranged([x \in D |-> pos[x]], moved[r])
<1> DEFINE ids == op[r].ids
           place == [x \in moved[r] |-> (CHOOSE n \in DOMAIN ids : ids[n] = x) - 1]
<1>1. ids \in Seq(Cats \cup Items) /\ IsInjective(ids) /\ moved[r] = ToSet(ids)
      /\ Cardinality(moved[r]) = Len(ids) /\ Len(ids) \in Nat /\ DOMAIN ids = 1..Len(ids)
  <2>1. /\ ids \in Seq(Cats \cup Items) /\ IsInjective(ids)
        /\ moved[r] \in SUBSET ToSet(ids)
    BY Types DEF IInv, Requests, Phases, RowsHeld
  <2>2. Cardinality(moved[r]) = Len(ids)
    BY DEF AllMoved
  <2> HIDE DEF ids
  <2>3. moved[r] = ToSet(ids)
    BY <2>1, <2>2, AllOfThem
  <2> QED
    BY <2>1, <2>2, <2>3
<1> HIDE DEF ids
<1>2. \A n \in DOMAIN ids : ids[n] \in moved[r] /\ place[ids[n]] = n - 1
  <2>1. \A n \in DOMAIN ids : ids[n] \in moved[r]
    BY <1>1 DEF ToSet
  <2>2. \A n \in DOMAIN ids : (CHOOSE m \in DOMAIN ids : ids[m] = ids[n]) = n
    BY <1>1 DEF IsInjective
  <2> QED
    BY <2>1, <2>2
<1>3. \A x \in moved[r] : \E n \in DOMAIN ids : x = ids[n]
  BY <1>1 DEF ToSet
<1>4. [x \in D |-> Reordered(r, pos)[x]]
        = [x \in D |-> IF x \in moved[r] THEN place[x] ELSE pos[x]]
  BY DEF Reordered, ids
<1> HIDE DEF place
<1>5. place \in [moved[r] -> 0..(Cardinality(moved[r]) - 1)]
  <2>1. place = [x \in moved[r] |-> place[x]]
    BY DEF place
  <2>2. \A x \in moved[r] : place[x] \in 0..(Cardinality(moved[r]) - 1)
    BY <1>1, <1>2, <1>3
  <2> QED
    BY <2>1, <2>2
<1>6. place \in Bijection(moved[r], 0..(Cardinality(moved[r]) - 1))
  <2>1. IsInjective(place)
    <3>1. \A x, y \in moved[r] : place[x] = place[y] => x = y
      BY <1>1, <1>2, <1>3
    <3> QED
      BY <1>5, <3>1 DEF IsInjective
  <2>2. ASSUME NEW k \in 0..(Cardinality(moved[r]) - 1)
        PROVE  \E x \in moved[r] : place[x] = k
    <3>1. k + 1 \in DOMAIN ids /\ (k + 1) - 1 = k
      BY <1>1, <2>2
    <3> QED
      BY <1>2, <3>1
  <2> QED
    BY <1>5, <2>1, <2>2 DEF Bijection, Injection, Surjection
<1> DEFINE old == [x \in D |-> pos[x]]
<1>7. [x \in D |-> IF x \in moved[r] THEN place[x] ELSE pos[x]]
        = [x \in DOMAIN old |-> IF x \in moved[r] THEN place[x] ELSE old[x]]
  OBVIOUS
<1> HIDE DEF old
<1>8. [x \in DOMAIN old |-> IF x \in moved[r] THEN place[x] ELSE old[x]]
        \in Card!Arranged(old, moved[r])
  <2>1. place \in Card!Bijection(moved[r], 0..(Card!Cardinality(moved[r]) - 1))
    BY <1>6 DEF Card!Bijection, Bijection, Card!Injection, Injection, Card!Surjection, Surjection,
                Card!IsInjective, IsInjective, Card!Cardinality, Cardinality
  <2> QED
    BY <2>1 DEF Card!Arranged
<1> QED
  BY <1>4, <1>7, <1>8 DEF old

\* The menu at the start.
LEMMA MenuInit == Init => Card!Init
<1> SUFFICES ASSUME Init PROVE Card!Init
  OBVIOUS
<1>1. {c \in Cats : OfVenue(c)} = OwnCats
  BY CatalogAssumption DEF Init, OfVenue, Cats
<1>2. /\ {i \in Items : items[i] = "live"} = InitItems
      /\ {i \in Items : items[i] = "deleted"} = {}
      /\ {i \in Items : available[i]} = InitItems
  BY CatalogAssumption DEF Init, Items
<1>3. /\ category = [i \in Items |-> IF i \in InitItems THEN InitCat[i] ELSE None]
      /\ [c \in Cats \ OtherCats |-> catPos[c]] = [c \in Cats \ OtherCats |-> 0]
      /\ itemPos = [i \in Items |-> 0]
  BY DEF Init
<1> QED
  BY <1>1, <1>2, <1>3 DEF Card!Init

\* What the menu does not show.
LEMMA Invisible == UNCHANGED menu => UNCHANGED Card!card
  BY DEF menu, Card!card, OfVenue

\* One edit of a category is one edit of a section.
LEMMA SectionStep ==
  ASSUME IInv, Unmade, NEW r \in Reqs,
         CreateCategory(r) \/ UpdateCategory(r) \/ DeleteCategory(r)
  PROVE  [Card!Next]_(Card!card)
<1>0. /\ cats \in [Cats -> {"absent", "present"}]
      /\ catPos \in [Cats -> Nat]
      /\ r \in Cats \ OtherCats
      /\ UNCHANGED <<items, category, available, itemPos>>
  BY Types, CatalogAssumption DEF IInv, Requests, Cats, CreateCategory, UpdateCategory, DeleteCategory
<1> PICK place \in 0..MaxPos : op[r].pos = place
  BY Types DEF IInv, Requests
<1>1. CASE CreateCategory(r)
  <2>1. CASE UNCHANGED <<cats, catPos>>
    BY <1>0, <2>1, Invisible DEF menu
  <2>2. CASE cats' = [cats EXCEPT ![r] = "present"] /\ catPos' = [catPos EXCEPT ![r] = place]
    <3>1. cats[r] = "absent"
      BY <1>1 DEF CreateCategory, Unmade, Ended
    <3>2. {c \in Cats : OfVenue(c)}' = {c \in Cats : OfVenue(c)} \cup {r}
      BY <1>0, <2>2 DEF OfVenue
    <3>3. r \notin {c \in Cats : OfVenue(c)}
      BY <3>1 DEF OfVenue
    <3>4. [c \in Cats \ OtherCats |-> catPos[c]]'
            = [[c \in Cats \ OtherCats |-> catPos[c]] EXCEPT ![r] = place]
      BY <1>0, <2>2
    <3>5. Card!AddSection(r, place)
      BY <1>0, <3>2, <3>3, <3>4 DEF Card!AddSection
    <3>6. Card!Next
      BY <1>0, <3>5 DEF Card!Next
    <3> QED
      BY <3>6
  <2> QED
    BY <1>1, <2>1, <2>2 DEF CreateCategory
<1>2. CASE UpdateCategory(r)
  <2> PICK s \in Cats : s = op[r].cat
    BY <1>2 DEF UpdateCategory, IInv, Phases
  <2>1. cats' = cats
    BY <1>2 DEF UpdateCategory
  <2>2. CASE UNCHANGED catPos
    BY <1>0, <2>1, <2>2, Invisible DEF menu
  <2>3. CASE OfVenue(s) /\ catPos' = [catPos EXCEPT ![s] = place]
    <3>1. s \in Cats \ OtherCats /\ s \in {c \in Cats : OfVenue(c)}
      BY <2>1, <2>3 DEF OfVenue
    <3>2. {c \in Cats : OfVenue(c)}' = {c \in Cats : OfVenue(c)}
      BY <2>1 DEF OfVenue
    <3>3. [c \in Cats \ OtherCats |-> catPos[c]]'
            = [[c \in Cats \ OtherCats |-> catPos[c]] EXCEPT ![s] = place]
      BY <1>0, <2>3, <3>1
    <3>4. Card!ChangeSection(s, place)
      BY <1>0, <3>1, <3>2, <3>3 DEF Card!ChangeSection
    <3>5. Card!Next
      BY <1>0, <3>1, <3>4 DEF Card!Next
    <3> QED
      BY <3>5
  <2> QED
    BY <1>2, <2>2, <2>3 DEF UpdateCategory
<1>3. CASE DeleteCategory(r)
  <2> PICK s \in Cats : s = op[r].cat
    BY <1>3 DEF DeleteCategory, IInv, Phases
  <2>1. catPos' = catPos
    BY <1>3 DEF DeleteCategory
  <2>2. CASE UNCHANGED cats
    BY <1>0, <2>1, <2>2, Invisible DEF menu
  <2>3. CASE /\ OfVenue(s) /\ cats' = [cats EXCEPT ![s] = "absent"]
             /\ \A i \in Items : items[i] # "absent" => category[i] # s
    <3>1. s \in Cats \ OtherCats /\ s \in {c \in Cats : OfVenue(c)}
      BY <2>1, <2>3 DEF OfVenue
    <3>2. {c \in Cats : OfVenue(c)}' = {c \in Cats : OfVenue(c)} \ {s}
      BY <1>0, <2>1, <2>3 DEF OfVenue
    <3>3. \A d \in {i \in Items : items[i] = "live"} \cup {i \in Items : items[i] = "deleted"} :
            category[d] # s
      BY <2>3
    <3>4. Card!RemoveSection(s)
      BY <1>0, <2>1, <3>1, <3>2, <3>3 DEF Card!RemoveSection
    <3>5. Card!Next
      BY <1>0, <3>1, <3>4 DEF Card!Next
    <3> QED
      BY <3>5
  <2> QED
    BY <1>3, <2>2, <2>3 DEF DeleteCategory
<1> QED
  BY <1>1, <1>2, <1>3

\* A row that is written is shown or hidden, and no other.
LEMMA Shown ==
  ASSUME available \in [Items -> BOOLEAN], NEW d \in Items, NEW on \in BOOLEAN,
         available' = [available EXCEPT ![d] = on]
  PROVE  {i \in Items : available[i]}'
           = IF on THEN {i \in Items : available[i]} \cup {d}
                   ELSE {i \in Items : available[i]} \ {d}
<1>1. CASE on
  BY <1>1
<1>2. CASE ~on
  BY <1>2
<1> QED
  BY <1>1, <1>2

\* One edit of an item is one edit of a dish.
LEMMA DishStep ==
  ASSUME IInv, NEW r \in Reqs, CommitItem(r) \/ UpdateItem(r) \/ DeleteMenuItem(r)
  PROVE  [Card!Next]_(Card!card)
<1>0. /\ items \in [Items -> {"absent", "live", "deleted"}]
      /\ available \in [Items -> BOOLEAN]
      /\ category \in [Items -> Cats \cup {None}]
      /\ itemPos \in [Items -> Nat]
      /\ op[r].item \in Items \cup {None}
      /\ r \in Items
      /\ UNCHANGED <<cats, catPos>>
  BY Types DEF IInv, Requests, Items, CommitItem, UpdateItem, DeleteMenuItem
<1> DEFINE Live == {i \in Items : items[i] = "live"}
           Gone == {i \in Items : items[i] = "deleted"}
<1> PICK place \in 0..MaxPos : op[r].pos = place
  BY Types DEF IInv, Requests
<1> PICK on \in BOOLEAN : op[r].shown = on
  BY Types DEF IInv, Requests
<1>1. {c \in Cats : OfVenue(c)}' = {c \in Cats : OfVenue(c)}
  BY <1>0 DEF OfVenue
<1>2. CASE CommitItem(r)
  <2> PICK s \in Cats : s = op[r].cat
    BY <1>2 DEF CommitItem, IInv, Phases
  <2>1. /\ items' = [items EXCEPT ![r] = "live"]
        /\ category' = [category EXCEPT ![r] = s]
        /\ available' = [available EXCEPT ![r] = on]
        /\ itemPos' = [itemPos EXCEPT ![r] = place]
        /\ pc[r] = "commitItem"
    BY <1>2 DEF CommitItem
  <2>2. /\ items[r] = "absent" /\ s \in {c \in Cats : OfVenue(c)} /\ s \in Cats \ OtherCats
    BY <1>2, <2>1, CommitItemStep DEF IInv, Phases, Referred, OfVenue
  <2>3. r \notin Live \cup Gone
    BY <2>2
  <2>4. Live' = Live \cup {r}
    BY <1>0, <2>1
  <2>5. Gone' = Gone
    BY <1>0, <2>1, <2>2
  <2>6. {i \in Items : available[i]}'
          = IF on THEN {i \in Items : available[i]} \cup {r}
                  ELSE {i \in Items : available[i]} \ {r}
    BY <1>0, <2>1, Shown
  <2>7. Card!AddDish(r, s, place, on)
    BY <1>0, <1>1, <2>1, <2>2, <2>3, <2>4, <2>5, <2>6 DEF Card!AddDish, Card!Show
  <2>8. Card!Next
    BY <1>0, <2>2, <2>7 DEF Card!Next
  <2> QED
    BY <2>8
<1>3. CASE UpdateItem(r)
  <2> PICK s \in Cats, d \in Items \cup {None} : s = op[r].cat /\ d = op[r].item
    BY <1>0, <1>3 DEF UpdateItem, IInv, Phases
  <2>1. items' = items
    BY <1>3 DEF UpdateItem
  <2>2. CASE UNCHANGED <<category, available, itemPos>>
    BY <1>0, <2>1, <2>2, Invisible DEF menu
  <2>3. CASE /\ items[d] = "live" /\ OfVenue(s) /\ d \in Items
             /\ category' = [category EXCEPT ![d] = s]
             /\ available' = [available EXCEPT ![d] = on]
             /\ itemPos' = [itemPos EXCEPT ![d] = place]
    <3>1. d \in Live /\ s \in {c \in Cats : OfVenue(c)} /\ s \in Cats \ OtherCats
      BY <2>1, <2>3 DEF OfVenue
    <3>2. Live' = Live /\ Gone' = Gone
      BY <2>1
    <3>3. {i \in Items : available[i]}'
            = IF on THEN {i \in Items : available[i]} \cup {d}
                    ELSE {i \in Items : available[i]} \ {d}
      BY <1>0, <2>3, Shown
    <3>4. Card!ChangeDish(d, s, place, on)
      BY <1>0, <1>1, <2>3, <3>1, <3>2, <3>3 DEF Card!ChangeDish, Card!Show
    <3>5. Card!Next
      BY <1>0, <2>3, <3>1, <3>4 DEF Card!Next
    <3> QED
      BY <3>5
  <2>4. None \notin Items
    BY CatalogAssumption DEF Items
  <2> QED
    BY <1>0, <1>3, <2>2, <2>3, <2>4 DEF UpdateItem, Updatable
<1>4. CASE DeleteMenuItem(r)
  <2> PICK d \in Items \cup {None} : d = op[r].item
    BY <1>0
  <2>1. UNCHANGED <<category, itemPos>>
    BY <1>4 DEF DeleteMenuItem
  <2>2. CASE UNCHANGED <<items, available>>
    BY <1>0, <2>1, <2>2, Invisible DEF menu
  <2>3. CASE /\ items[d] = "live" /\ d \in Items
             /\ items' = [items EXCEPT ![d] = "deleted"]
             /\ available' = [available EXCEPT ![d] = FALSE]
    <3>1. d \in Live
      BY <2>3
    <3>2. Live' = Live \ {d} /\ Gone' = Gone \cup {d}
      BY <1>0, <2>3
    <3>3. {i \in Items : available[i]}' = {i \in Items : available[i]} \ {d}
      BY <1>0, <2>3
    <3>4. Card!Withdraw(d)
      BY <1>0, <1>1, <2>1, <3>1, <3>2, <3>3 DEF Card!Withdraw
    <3>5. Card!Next
      BY <2>3, <3>4 DEF Card!Next
    <3> QED
      BY <3>5
  <2> QED
    BY <1>0, <1>4, <2>2, <2>3 DEF DeleteMenuItem
<1> QED
  BY <1>2, <1>3, <1>4

\* The COMMIT of a reorder arranges the sections, or the dishes of one.
LEMMA ArrangeStep ==
  ASSUME IInv, NEW r \in Reqs, CommitReorder(r)
  PROVE  [Card!Next]_(Card!card)
<1>0. /\ catPos \in [Cats -> Nat] /\ itemPos \in [Items -> Nat]
      /\ pc[r] = "count" /\ UNCHANGED <<cats, items, category, available>>
      /\ \A x \in moved[r] : InScope(r, x)
  BY Types DEF IInv, CommitReorder, RowsHeld
<1>1. /\ {c \in Cats : OfVenue(c)}' = {c \in Cats : OfVenue(c)}
      /\ {i \in Items : items[i] = "live"}' = {i \in Items : items[i] = "live"}
      /\ {i \in Items : items[i] = "deleted"}' = {i \in Items : items[i] = "deleted"}
      /\ {i \in Items : available[i]}' = {i \in Items : available[i]}
  BY <1>0 DEF OfVenue
<1> PICK rows : rows = moved[r]
  OBVIOUS
<1>2. CASE UNCHANGED <<catPos, itemPos>>
  BY <1>0, <1>2, Invisible DEF menu
<1>3. CASE /\ AllMoved(r) /\ op[r].kind = "categories"
           /\ catPos' = Reordered(r, catPos) /\ itemPos' = itemPos
  <2> DEFINE D == Cats \ OtherCats
  <2>1. [c \in D |-> Reordered(r, catPos)[c]] \in Card!Arranged([c \in D |-> catPos[c]], rows)
    BY <1>0, <1>3, Arrangement
  <2>2. rows \in SUBSET {c \in Cats : OfVenue(c)}
    BY <1>0, <1>3 DEF InScope
  <2>3. [c \in D |-> catPos[c]]' = [c \in D |-> Reordered(r, catPos)[c]]
    BY <1>3
  <2>4. Card!ArrangeSections(rows)
    BY <1>0, <1>1, <1>3, <2>1, <2>3 DEF Card!ArrangeSections
  <2>5. Card!Next
    BY <2>2, <2>4 DEF Card!Next
  <2> QED
    BY <2>5
<1>4. CASE /\ AllMoved(r) /\ op[r].kind # "categories"
           /\ itemPos' = Reordered(r, itemPos) /\ catPos' = catPos
  <2>1. [i \in Items |-> Reordered(r, itemPos)[i]]
          \in Card!Arranged([i \in Items |-> itemPos[i]], rows)
    BY <1>0, <1>4, Arrangement
  <2>2. /\ rows \in SUBSET {i \in Items : items[i] = "live"}
        /\ \A d, e \in rows : category[d] = category[e]
    BY <1>0, <1>4 DEF InScope
  <2>3. Reordered(r, itemPos) \in [Items -> Nat]
    BY <1>0, ReorderedType
  <2>4. /\ itemPos = [i \in Items |-> itemPos[i]]
        /\ itemPos' = [i \in Items |-> Reordered(r, itemPos)[i]]
    BY <1>0, <1>4, <2>3
  <2>5. itemPos' \in Card!Arranged(itemPos, rows)
    BY <2>1, <2>4
  <2>6. Card!ArrangeDishes(rows)
    BY <1>0, <1>1, <1>4, <2>2, <2>5 DEF Card!ArrangeDishes
  <2>7. Card!Next
    BY <2>2, <2>6 DEF Card!Next
  <2> QED
    BY <2>7
<1> QED
  BY <1>2, <1>3, <1>4 DEF CommitReorder

\* Every step is one atomic edit or shows on the menu not at all.
LEMMA MenuStep == IInv /\ Unmade /\ [Next]_vars => [Card!Next]_(Card!card)
<1> SUFFICES ASSUME IInv, Unmade, [Next]_vars PROVE [Card!Next]_(Card!card)
  OBVIOUS
<1>1. CASE UNCHANGED vars \/ DeleteVenue
  BY <1>1, Invisible DEF vars, DeleteVenue
<1>2. ASSUME NEW r \in Reqs, Start(r) PROVE UNCHANGED menu
  BY <1>2 DEF Start, StartCategory, StartItem, StartDeleteItem, StartReorder, Arrive
<1>3. ASSUME NEW r \in Reqs,
             InsertItem(r) \/ BeginReorder(r) \/ ReorderRow(r) \/ EndReorder(r) \/ Fail(r)
      PROVE  UNCHANGED menu
  BY <1>3 DEF InsertItem, BeginReorder, ReorderRow, EndReorder, Fail
<1> QED
  BY <1>1, <1>2, <1>3, Invisible, SectionStep, DishStep, ArrangeStep DEF Next, Step

\* However the statements of the owner's requests interleave, the menu changes
\* as if each request had made its edit alone and at once.
THEOREM Refinement == Spec => ImplementsMenu
<1>1. Spec => [](IInv /\ Unmade)
  BY InitIInv, StepIInv, UnmadeStep, PTL DEF Spec
<1> QED
  BY <1>1, MenuInit, MenuStep, PTL DEF Spec, ImplementsMenu, Card!Spec
=============================================================================
