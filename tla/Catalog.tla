------------------------------- MODULE Catalog -------------------------------
(***************************************************************************)
(* The menu of one venue: its categories and items with their order, and   *)
(* the owner's HTTP requests that edit it at once                          *)
(* (src/internal/modules/catalog).                                         *)
(*                                                                         *)
(* An action is one SQL statement at READ COMMITTED.  The UPDATE of a      *)
(* reorder takes its rows one at a time, in an order the planner chooses,  *)
(* and keeps them locked until the request has counted them.  A row made   *)
(* by a request carries the request's name.                                *)
(***************************************************************************)
EXTENDS Naturals, FiniteSets, Sequences, SequencesExt, RowLocks

CONSTANTS
  Reqs,        \* the owner's requests, each executed once
  OwnCats,     \* the venue's categories at the start
  OtherCats,   \* the categories of another venue of the same owner
  InitItems,   \* the venue's items at the start, in the categories below
  InitCat,     \* the category of each of them
  None,        \* no category, no item
  MaxPos,      \* bound on the sort_order a form asks for
  MaxIds       \* bound on the rows of a reorder: maxReorderItems, 500

ASSUME CatalogAssumption ==
  /\ Reqs \cap (OwnCats \cup OtherCats \cup InitItems) = {}
  /\ OwnCats \cap OtherCats = {} /\ (OwnCats \cup OtherCats) \cap InitItems = {}
  /\ None \notin Reqs \cup OwnCats \cup OtherCats \cup InitItems
  /\ InitCat \in [InitItems -> OwnCats]
  /\ MaxPos \in Nat /\ MaxIds \in Nat \ {0}

Cats  == OwnCats \cup OtherCats \cup Reqs
Items == InitItems \cup Reqs

VARIABLES
  venueOpen,  \* the venue is not deleted
  cats,       \* menu_categories: absent, present
  items,      \* menu_items: absent, live, deleted (deleted_at is set)
  category,   \* menu_items.category_id
  available,  \* menu_items.is_available
  catPos,     \* menu_categories.sort_order
  itemPos,    \* menu_items.sort_order
  pc,         \* the statement each request executes next, or how it ended
  op,         \* what each request asks for
  clock,      \* the lock each item INSERT holds on its category
  todo,       \* the rows a reorder's running UPDATE has yet to reach
  moved       \* the rows it has updated, and holds

menu  == <<cats, items, category, available, catPos, itemPos>>
locks == <<clock, todo, moved>>
vars  == <<venueOpen, menu, pc, op, locks>>

Statements ==
  {"createCategory", "updateCategory", "deleteCategory", "insertItem", "commitItem",
   "updateItem", "deleteItem", "reorder", "reordering", "count"}

Ended == {"answered", "refused", "failed"}

\* A reorder of the categories, or of the items of one category.
Kinds == {"none", "createCategory", "updateCategory", "deleteCategory", "insertItem",
          "updateItem", "deleteItem", "categories", "items"}

Requests == [kind : Kinds, cat : Cats \cup {None}, item : Items \cup {None},
             pos : 0..MaxPos, shown : BOOLEAN, ids : Seq(Cats \cup Items)]

Request(kind, cat, item, pos, shown, ids) ==
  [kind |-> kind, cat |-> cat, item |-> item, pos |-> pos, shown |-> shown, ids |-> ids]

TypeOK ==
  /\ venueOpen \in BOOLEAN
  /\ cats \in [Cats -> {"absent", "present"}]
  /\ items \in [Items -> {"absent", "live", "deleted"}]
  /\ category \in [Items -> Cats \cup {None}]
  /\ available \in [Items -> BOOLEAN]
  /\ catPos \in [Cats -> Nat]
  /\ itemPos \in [Items -> Nat]
  /\ pc \in [Reqs -> {"idle"} \cup Statements \cup Ended]
  /\ op \in [Reqs -> Requests]
  /\ clock \in [Reqs -> {"none", "KS"}]
  /\ todo \in [Reqs -> SUBSET (Cats \cup Items)]
  /\ moved \in [Reqs -> SUBSET (Cats \cup Items)]
  /\ \A r \in Reqs : pc[r] \in Ended => moved[r] = {} /\ clock[r] = "none"

Init ==
  /\ venueOpen = TRUE
  /\ cats = [c \in Cats |-> IF c \in Reqs THEN "absent" ELSE "present"]
  /\ items = [i \in Items |-> IF i \in InitItems THEN "live" ELSE "absent"]
  /\ category = [i \in Items |-> IF i \in InitItems THEN InitCat[i] ELSE None]
  /\ available = [i \in Items |-> i \in InitItems]
  /\ catPos = [c \in Cats |-> 0]
  /\ itemPos = [i \in Items |-> 0]
  /\ pc = [r \in Reqs |-> "idle"]
  /\ op = [r \in Reqs |-> Request("none", None, None, 0, TRUE, <<>>)]
  /\ clock = [r \in Reqs |-> "none"]
  /\ todo = [r \in Reqs |-> {}]
  /\ moved = [r \in Reqs |-> {}]

-----------------------------------------------------------------------------
\* WHERE c.venue_id = $1, for a category that exists.
OfVenue(c) == cats[c] = "present" /\ c \notin OtherCats

Goto(r, place) == pc' = [pc EXCEPT ![r] = place]

Release(r) ==
  /\ clock' = [clock EXCEPT ![r] = "none"]
  /\ todo' = [todo EXCEPT ![r] = {}]
  /\ moved' = [moved EXCEPT ![r] = {}]

\* The rows of the reorder's scope, in its WHERE clause.
InScope(r, x) ==
  IF op[r].kind = "categories"
    THEN x \in Cats /\ OfVenue(x)
    ELSE x \in Items /\ items[x] = "live" /\ category[x] = op[r].cat

CatRowFree(r, c) ==
  \A q \in Reqs \ {r} : op[q].kind = "categories" => c \notin moved[q]

ItemRowFree(r, i) ==
  \A q \in Reqs \ {r} : op[q].kind = "items" => i \notin moved[q]

RowFree(r, x) ==
  IF op[r].kind = "categories" THEN CatRowFree(r, x) ELSE ItemRowFree(r, x)

\* Variant: category_id without the foreign key.
CatKeyFreeAlways(r, c) == TRUE

\* The uncommitted items of other requests hold KEY SHARE on their category.
CatKeyFree(r, c) ==
  \A q \in Reqs \ {r} : op[q].cat = c => ~Conflict("FU", clock[q])

\* A request arrives and passes RequireOwner, in a statement of its own.
Arrive(r, request, place) ==
  /\ pc[r] = "idle"
  /\ op' = [op EXCEPT ![r] = request]
  /\ Goto(r, IF venueOpen THEN place ELSE "refused")
  /\ UNCHANGED <<venueOpen, menu, locks>>

-----------------------------------------------------------------------------
(* Categories                                                               *)

StartCategory(r) ==
  \E c \in Cats, pos \in 0..MaxPos :
    \/ Arrive(r, Request("createCategory", r, None, pos, TRUE, <<>>), "createCategory")
    \/ /\ cats[c] = "present"
       /\ \/ Arrive(r, Request("updateCategory", c, None, pos, TRUE, <<>>), "updateCategory")
          \/ Arrive(r, Request("deleteCategory", c, None, 0, TRUE, <<>>), "deleteCategory")

\* UNIQUE (venue_id, name) may turn it down.
CreateCategory(r) ==
  /\ pc[r] = "createCategory"
  /\ \/ /\ cats' = [cats EXCEPT ![r] = "present"]
        /\ catPos' = [catPos EXCEPT ![r] = op[r].pos]
        /\ Goto(r, "answered")
     \/ Goto(r, "refused") /\ UNCHANGED <<cats, catPos>>
  /\ UNCHANGED <<venueOpen, items, category, available, itemPos, op, locks>>

\* A new name is a new key, and waits for the items being added; it may be
\* taken.
UpdateCategory(r) ==
  /\ pc[r] = "updateCategory"
  /\ LET c == op[r].cat
     IN  \/ /\ OfVenue(c) /\ CatRowFree(r, c)
            /\ catPos' = [catPos EXCEPT ![c] = op[r].pos]
            /\ Goto(r, "answered")
         \/ /\ OfVenue(c) => CatRowFree(r, c) /\ CatKeyFree(r, c)
            /\ Goto(r, "refused") /\ UNCHANGED catPos
  /\ UNCHANGED <<venueOpen, cats, items, category, available, itemPos, op, locks>>

\* No item may refer to it, a deleted one neither: 23503.
DeleteCategory(r) ==
  /\ pc[r] = "deleteCategory"
  /\ LET c == op[r].cat
         Referred == \E i \in Items : items[i] # "absent" /\ category[i] = c
     IN  /\ OfVenue(c) => CatRowFree(r, c) /\ CatKeyFree(r, c)
         /\ IF OfVenue(c) /\ ~Referred
              THEN cats' = [cats EXCEPT ![c] = "absent"] /\ Goto(r, "answered")
              ELSE Goto(r, "refused") /\ UNCHANGED cats
  /\ UNCHANGED <<venueOpen, items, category, available, catPos, itemPos, op, locks>>

-----------------------------------------------------------------------------
(* Items                                                                    *)

\* The form says whether guests are shown the item: is_available.
StartItem(r) ==
  \E c \in Cats, pos \in 0..MaxPos, shown \in BOOLEAN :
    /\ cats[c] = "present"
    /\ \/ Arrive(r, Request("insertItem", c, r, pos, shown, <<>>), "insertItem")
       \/ \E i \in Items : /\ items[i] # "absent"
                           /\ Arrive(r, Request("updateItem", c, i, pos, shown, <<>>), "updateItem")

StartDeleteItem(r) ==
  \E i \in Items :
    /\ items[i] # "absent"
    /\ Arrive(r, Request("deleteItem", None, i, 0, TRUE, <<>>), "deleteItem")

\* Variant: a category of any venue.
InsertItemAnywhere(r) ==
  /\ pc[r] = "insertItem"
  /\ IF cats[op[r].cat] = "present"
       THEN clock' = [clock EXCEPT ![r] = "KS"] /\ Goto(r, "commitItem")
       ELSE Goto(r, "refused") /\ UNCHANGED clock
  /\ UNCHANGED <<venueOpen, menu, op, todo, moved>>

\* INSERT ... SELECT from the venue's category, whose row the foreign key
\* locks; a reorder of the categories does not stand in its way.
InsertItem(r) ==
  /\ pc[r] = "insertItem"
  /\ IF OfVenue(op[r].cat)
       THEN clock' = [clock EXCEPT ![r] = "KS"] /\ Goto(r, "commitItem")
       ELSE Goto(r, "refused") /\ UNCHANGED clock
  /\ UNCHANGED <<venueOpen, menu, op, todo, moved>>

\* COMMIT, after the INSERT of the image if there is one.
CommitItem(r) ==
  /\ pc[r] = "commitItem"
  /\ items' = [items EXCEPT ![r] = "live"]
  /\ category' = [category EXCEPT ![r] = op[r].cat]
  /\ available' = [available EXCEPT ![r] = op[r].shown]
  /\ itemPos' = [itemPos EXCEPT ![r] = op[r].pos]
  /\ Release(r)
  /\ Goto(r, "answered")
  /\ UNCHANGED <<venueOpen, cats, catPos, op>>

\* Variant: without i.deleted_at IS NULL.
UpdatableAny(i, c) == items[i] # "absent" /\ OfVenue(c)

Updatable(i, c) == items[i] = "live" /\ OfVenue(c)

\* One statement, which shows the item or hides it as the form says.
UpdateItem(r) ==
  /\ pc[r] = "updateItem"
  /\ LET i == op[r].item
     IN  \/ /\ Updatable(i, op[r].cat) /\ ItemRowFree(r, i)
            /\ category' = [category EXCEPT ![i] = op[r].cat]
            /\ available' = [available EXCEPT ![i] = op[r].shown]
            /\ itemPos' = [itemPos EXCEPT ![i] = op[r].pos]
            /\ Goto(r, "answered")
         \/ /\ ~Updatable(i, op[r].cat)
            /\ Goto(r, "refused") /\ UNCHANGED <<category, available, itemPos>>
  /\ UNCHANGED <<venueOpen, cats, items, catPos, op, locks>>

DeleteMenuItem(r) ==
  /\ pc[r] = "deleteItem"
  /\ LET i == op[r].item
     IN  \/ /\ items[i] = "live" /\ ItemRowFree(r, i)
            /\ items' = [items EXCEPT ![i] = "deleted"]
            /\ available' = [available EXCEPT ![i] = FALSE]
            /\ Goto(r, "answered")
         \/ /\ items[i] # "live"
            /\ Goto(r, "refused") /\ UNCHANGED <<items, available>>
  /\ UNCHANGED <<venueOpen, cats, category, catPos, itemPos, op, locks>>

-----------------------------------------------------------------------------
(* Reordering                                                               *)

\* validOrder: some rows, none twice.
Orders(S) == {ids \in SeqOf(S, MaxIds) : ids # <<>> /\ IsInjective(ids)}

\* Of any category, one of another venue too.
StartReorder(r) ==
  \/ \E ids \in Orders({c \in Cats : cats[c] = "present"}) :
       Arrive(r, Request("categories", None, None, 0, TRUE, ids), "reorder")
  \/ \E c \in Cats, ids \in Orders({i \in Items : items[i] # "absent"}) :
       /\ cats[c] = "present"
       /\ Arrive(r, Request("items", c, None, 0, TRUE, ids), "reorder")

BeginReorder(r) ==
  /\ pc[r] = "reorder"
  /\ todo' = [todo EXCEPT ![r] = {x \in ToSet(op[r].ids) : InScope(r, x)}]
  /\ Goto(r, "reordering")
  /\ UNCHANGED <<venueOpen, menu, op, clock, moved>>

\* The next row, once its lock is free, if it is still in the scope.
ReorderRow(r) ==
  /\ pc[r] = "reordering"
  /\ \E x \in todo[r] :
       /\ RowFree(r, x)
       /\ todo' = [todo EXCEPT ![r] = @ \ {x}]
       /\ moved' = [moved EXCEPT ![r] = IF InScope(r, x) THEN @ \cup {x} ELSE @]
  /\ UNCHANGED <<venueOpen, menu, pc, op, clock>>

EndReorder(r) ==
  /\ pc[r] = "reordering"
  /\ todo[r] = {}
  /\ Goto(r, "count")
  /\ UNCHANGED <<venueOpen, menu, op, locks>>

\* Variant: some rows are enough.
AllMovedSome(r) == moved[r] # {}

\* RowsAffected = len(ids)
AllMoved(r) == Cardinality(moved[r]) = Len(op[r].ids)

\* The positions once r's pending writes are applied.
Reordered(r, pos) ==
  [x \in DOMAIN pos |->
     IF x \in moved[r] THEN (CHOOSE n \in DOMAIN op[r].ids : op[r].ids[n] = x) - 1
                       ELSE pos[x]]

\* Variant: the transaction is left open.
CommitReorderHolding(r) ==
  /\ pc[r] = "count"
  /\ IF AllMoved(r)
       THEN /\ IF op[r].kind = "categories"
                 THEN catPos' = Reordered(r, catPos) /\ UNCHANGED itemPos
                 ELSE itemPos' = Reordered(r, itemPos) /\ UNCHANGED catPos
            /\ Goto(r, "answered")
       ELSE Goto(r, "refused") /\ UNCHANGED <<catPos, itemPos>>
  /\ UNCHANGED <<venueOpen, cats, items, category, available, op, locks>>

\* COMMIT, or ROLLBACK with ErrInvalidInput when a row was missing.
CommitReorder(r) ==
  /\ pc[r] = "count"
  /\ IF AllMoved(r)
       THEN /\ IF op[r].kind = "categories"
                 THEN catPos' = Reordered(r, catPos) /\ UNCHANGED itemPos
                 ELSE itemPos' = Reordered(r, itemPos) /\ UNCHANGED catPos
            /\ Goto(r, "answered")
       ELSE Goto(r, "refused") /\ UNCHANGED <<catPos, itemPos>>
  /\ Release(r)
  /\ UNCHANGED <<venueOpen, cats, items, category, available, op>>

-----------------------------------------------------------------------------
\* venues.Delete
DeleteVenue ==
  /\ venueOpen
  /\ venueOpen' = FALSE
  /\ UNCHANGED <<menu, pc, op, locks>>

\* The client goes away, or a deadlock is broken: PostgreSQL rolls back.
Fail(r) ==
  /\ pc[r] \in Statements
  /\ Release(r)
  /\ Goto(r, "failed")
  /\ UNCHANGED <<venueOpen, menu, op>>

Step(r) ==
  \/ CreateCategory(r) \/ UpdateCategory(r) \/ DeleteCategory(r)
  \/ InsertItem(r) \/ CommitItem(r) \/ UpdateItem(r) \/ DeleteMenuItem(r)
  \/ BeginReorder(r) \/ ReorderRow(r) \/ EndReorder(r) \/ CommitReorder(r)

Start(r) == StartCategory(r) \/ StartItem(r) \/ StartDeleteItem(r) \/ StartReorder(r)

Next == DeleteVenue \/ \E r \in Reqs : Start(r) \/ Step(r) \/ Fail(r)

Spec == Init /\ [][Next]_vars

-----------------------------------------------------------------------------
\* Two reorders that lock the same rows in different orders.
WaitsFor(r, q) ==
  /\ r # q /\ pc[r] = "reordering" /\ todo[r] \cap moved[q] # {}
  /\ op[r].kind = op[q].kind
  /\ \A x \in todo[r] : ~RowFree(r, x)

Deadlocked(r) ==
  \E C \in SUBSET Reqs : r \in C /\ \A q \in C : \E p \in C : WaitsFor(q, p)

\* Every request has a goroutine, and PostgreSQL breaks deadlocks.
FairSpec ==
  /\ Spec
  /\ \A r \in Reqs : WF_vars(Step(r))
  /\ WF_vars(\E r \in Reqs : Deadlocked(r) /\ Fail(r))

-----------------------------------------------------------------------------
(* Properties                                                               *)

\* Every item, a deleted one too, is in a category of its own venue that
\* exists, whatever is added, moved and deleted at once: the JOIN of
\* ListMenuItems drops no item and shows no other venue's category.
ItemsHaveCategory ==
  \A i \in Items : items[i] # "absent" => OfVenue(category[i])

\* A reorder is whole: when it is answered, each of its rows stands at the
\* place it was given, is live and still in the scope, and no other row has
\* moved.
ReorderIsWhole ==
  [][\A r \in Reqs :
       op[r].kind \in {"categories", "items"} /\ pc[r] = "count" /\ pc'[r] = "answered"
         => LET ids == op[r].ids
                old == IF op[r].kind = "items" THEN itemPos ELSE catPos
                new == IF op[r].kind = "items" THEN itemPos' ELSE catPos'
            IN  /\ \A n \in DOMAIN ids : InScope(r, ids[n]) /\ new[ids[n]] = n - 1
                /\ \A x \in DOMAIN old \ ToSet(ids) : new[x] = old[x]]_vars

\* A deleted item stays as it was deleted and is never offered again,
\* whatever was on its way when it was.
DeletedItemStays ==
  [][\A i \in Items : items[i] = "deleted" =>
       /\ items'[i] = "deleted" /\ ~available'[i]
       /\ category'[i] = category[i] /\ itemPos'[i] = itemPos[i]]_vars

\* Every edit, a reorder too, takes effect at once and as a whole or not at
\* all, on the menu as it then is: the statements implement the menu of atomic
\* edits.
Card == INSTANCE Menu WITH
  AllSections   <- Cats \ OtherCats,
  AllDishes     <- Items,
  FirstSections <- OwnCats,
  FirstDishes   <- InitItems,
  FirstSection  <- [i \in Items |-> IF i \in InitItems THEN InitCat[i] ELSE None],
  MaxPlace      <- MaxPos,
  sections      <- {c \in Cats : OfVenue(c)},
  offered       <- {i \in Items : items[i] = "live"},
  withdrawn     <- {i \in Items : items[i] = "deleted"},
  shown         <- {i \in Items : available[i]},
  section       <- category,
  sectionPlace  <- [c \in Cats \ OtherCats |-> catPos[c]],
  dishPlace     <- itemPos

ImplementsMenu == Card!Spec

\* Every request is answered: two reorders in opposite orders block each
\* other, and the database ends one of them.
RequestsAnswered == \A r \in Reqs : pc[r] # "idle" ~> pc[r] \in Ended
=============================================================================
