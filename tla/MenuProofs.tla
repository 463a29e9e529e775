----------------------------- MODULE MenuProofs ------------------------------
(***************************************************************************)
(* Proofs about Menu, alone and with its histories, for every menu and any *)
(* number of staff and guests, and about the computations its requests     *)
(* make: the pages of a listing (Paging), the total of an order (Totals)   *)
(* and the price of modifiers (Pricing).                                   *)
(*                                                                         *)
(* Menu.  TypeOK is not inductive: a request writes a row it read several  *)
(* steps ago, and marks one it found then.  Found says what each staff     *)
(* request knows of its row at each label: that it exists, since no row    *)
(* ever leaves its table, and that the copy of an item names the category  *)
(* the item has for good.  What a staff step does to itself (StaffMove)    *)
(* and to the tables (TableMove), and what a guest's step does             *)
(* (GuestMove), is proved once; the theorems follow from these three.      *)
(*                                                                         *)
(* Totals and Paging.  What a word keeps of a number is congruent to it,   *)
(* so a sum that is wrapped at each step is the sum wrapped once           *)
(* (WrapAdds); the rest is how far four lines can get, and the division of *)
(* a place by the limit: rows that tie take places of one key, in any of   *)
(* the orders (RowsOfListing).                                             *)
(*                                                                         *)
(* Pricing.  The loops of BuildSnapshot and the sums of the contract are   *)
(* folds.  Induction is stated about sets, of numbers (CountingUp) and of  *)
(* finite sets (Shrinking), and follows from the minimal element of a well *)
(* founded order; from it, a fold over a sequence takes its elements in    *)
(* order (OptionLoop, GroupLoop) and a sum may be taken apart in any way   *)
(* (SumOverParts).  OptionsTaken and GroupsTaken are the invariants of the *)
(* two loops, SnapshotDecides what the code returns.  All of them are      *)
(* about sums in Go ints, which are the sums wrapped once; the contract is *)
(* about numbers (AllowedInWords, WrappedIsLarge).                         *)
(***************************************************************************)
EXTENDS MenuHistory, Paging, Totals, Pricing, FiniteSetTheorems, WellFoundedInduction, TLAPS

Label == {"idle", "saveCategory", "upsertCategory", "countItems", "deleteCategory",
          "insertItem", "saveItem", "upsertItem", "deleteItem", "browse", "respond", "order"}

\* What a staff request at label knows of the row x it is about, and of the row r
\* it is about to write.
Ready(label, x, r) ==
    /\ label \in {"saveCategory", "upsertCategory", "countItems", "deleteCategory"}
       => x \in Categories /\ category[x].state # "none"
    /\ label \in {"saveCategory", "upsertCategory"} => r \in CategoryRow
    /\ label \in {"saveItem", "upsertItem", "deleteItem"}
       => x \in Items /\ item[x].state # "none"
    /\ label \in {"insertItem", "saveItem", "upsertItem"} => r \in ItemRow
    /\ label \in {"saveItem", "upsertItem"} => r.category = item[x].category

Found == \A u \in Staff : Ready(pc[u], target[u], row[u])

IInv == TypeOK /\ Found

-----------------------------------------------------------------------------
(* Rows.                                                                   *)

\* Rows that exist are rows; the others are the placeholders.
LEMMA RowFacts ==
    ASSUME TypeOK
    PROVE  /\ \A c \in Categories : category[c].state # "none" => category[c] \in CategoryRow
           /\ \A i \in Items : item[i].state # "none" => item[i] \in ItemRow
           /\ \A c \in Categories : category[c].state \in {"none", "live", "deleted"}
           /\ \A i \in Items : item[i].state \in {"none", "live", "deleted"}
  BY DEF TypeOK, NoCategory, NoItem, CategoryRow, ItemRow, State

\* What is on offer are items with their prices.
LEMMA OfferFacts == TypeOK => OnOffer \in SUBSET (Items \X Prices)
<1> SUFFICES ASSUME TypeOK, NEW l \in OnOffer PROVE l \in Items \X Prices
  OBVIOUS
<1>1. PICK i \in LiveItems : l = <<i, item[i].price>>
  BY DEF OnOffer
<1>2. i \in Items /\ item[i] \in ItemRow
  BY <1>1, RowFacts DEF LiveItems
<1>3. QED
  BY <1>1, <1>2 DEF ItemRow

\* An INSERT of a row of a category or item stores a row, in the same category.
LEMMA InsertedFacts ==
    /\ \A r \in CategoryRow : CategoryInserted(r) \in CategoryRow
    /\ \A r \in ItemRow : ItemInserted(r) \in ItemRow /\ ItemInserted(r).category = r.category
  BY DEF CategoryInserted, ItemInserted, CategoryRow, ItemRow

-----------------------------------------------------------------------------
(* What one step does.                                                     *)

\* A staff request goes on to a label for which it is ready, and leaves the locals
\* of the other workers alone.
LEMMA StaffMove ==
    ASSUME IInv, NEW u \in Staff, StaffStep(u)
    PROVE  /\ \E label \in Label, x \in Categories \union Items \union {Nil},
                 r \in CategoryRow \union ItemRow \union {Nil} :
                    /\ pc' = [pc EXCEPT ![u] = label]
                    /\ target' = [target EXCEPT ![u] = x]
                    /\ row' = [row EXCEPT ![u] = r]
                    /\ Ready(label, x, r)
           /\ UNCHANGED guestVars
<1>1. /\ TypeOK /\ Ready(pc[u], target[u], row[u])
      /\ target[u] \in Categories \union Items \union {Nil}
      /\ row[u] \in CategoryRow \union ItemRow \union {Nil}
      /\ pc[u] \in Label /\ u \in Workers
  BY DEF IInv, Found, TypeOK, Label, Workers
<1>2. /\ pc = [pc EXCEPT ![u] = pc[u]]
      /\ target = [target EXCEPT ![u] = target[u]]
      /\ row = [row EXCEPT ![u] = row[u]]
  BY <1>1 DEF TypeOK
<1> DEFINE Moves == \E label \in Label, x \in Categories \union Items \union {Nil},
                       r \in CategoryRow \union ItemRow \union {Nil} :
                          /\ pc' = [pc EXCEPT ![u] = label]
                          /\ target' = [target EXCEPT ![u] = x]
                          /\ row' = [row EXCEPT ![u] = r]
                          /\ Ready(label, x, r)
<1>3. ASSUME NEW label \in Label, NEW x \in Categories \union Items \union {Nil},
             NEW r \in CategoryRow \union ItemRow \union {Nil}, Ready(label, x, r),
             Start(u, label, x, r)
      PROVE  Moves /\ UNCHANGED guestVars
  BY <1>3 DEF Start, Goto
<1>4. ASSUME Done(u) PROVE Moves /\ UNCHANGED guestVars
  <2>1. "idle" \in Label /\ Ready("idle", Nil, Nil)
    BY DEF Label, Ready
  <2>2. QED
    BY <1>4, <2>1 DEF Done, Goto
<1>5. ASSUME NEW label \in Label, Goto(u, label), Ready(label, target[u], row[u]),
             UNCHANGED <<staffVars, guestVars>>
      PROVE  Moves /\ UNCHANGED guestVars
  BY <1>1, <1>2, <1>5 DEF Goto, staffVars
<1>6. CASE CreateCategory(u)
  BY <1>1, <1>2, <1>6 DEF CreateCategory, staffVars
<1>7. CASE UpdateCategoryFind(u) \/ DeleteCategoryFind(u)
  <2>1. ASSUME NEW c \in LiveCategories, NEW visible \in BOOLEAN
        PROVE  /\ c \in Categories /\ category[c].state # "none"
               /\ [category[c] EXCEPT !.visible = visible] \in CategoryRow
    BY <1>1, RowFacts DEF LiveCategories, CategoryRow
  <2>2. CASE UpdateCategoryFind(u)
    BY <1>3, <2>1, <2>2 DEF UpdateCategoryFind, Ready, Label
  <2>3. CASE DeleteCategoryFind(u)
    <3>1. PICK c \in LiveCategories, label \in {"countItems", "deleteCategory"} :
             Start(u, label, c, Nil)
      BY <2>3 DEF DeleteCategoryFind
    <3>2. c \in Categories /\ category[c].state # "none"
      BY DEF LiveCategories
    <3>3. QED
      BY <1>3, <3>1, <3>2 DEF Ready, Label
  <2>4. QED
    BY <1>7, <2>2, <2>3
<1>8. CASE UpdateCategorySave(u) \/ UpdateCategoryUpsert(u)
  BY <1>1, <1>4, <1>5, <1>8 DEF UpdateCategorySave, UpdateCategoryUpsert, Ready, Label
<1>9. CASE DeleteCategoryCount(u) \/ DeleteCategoryMark(u)
  BY <1>1, <1>4, <1>5, <1>9 DEF DeleteCategoryCount, DeleteCategoryMark, Ready, Label
<1>10. CASE CreateItemFind(u)
  <2>1. PICK c \in LiveCategories, price \in Prices, available \in BOOLEAN :
            Start(u, "insertItem", c, [state |-> "live", category |-> c,
                                       price |-> price, available |-> available])
    BY <1>10 DEF CreateItemFind
  <2>2. c \in Categories
    BY DEF LiveCategories
  <2>3. [state |-> "live", category |-> c, price |-> price, available |-> available] \in ItemRow
    BY <2>2 DEF ItemRow, State
  <2>4. QED
    BY <1>3, <2>1, <2>2, <2>3 DEF Ready, Label
<1>11. CASE UpdateItemFind(u)
  <2>1. PICK i \in LiveItems, price \in Prices, available \in BOOLEAN :
            Start(u, "saveItem", i, [item[i] EXCEPT !.price = price, !.available = available])
    BY <1>11 DEF UpdateItemFind
  <2>2. i \in Items /\ item[i].state # "none" /\ item[i] \in ItemRow
    BY <1>1, RowFacts DEF LiveItems
  <2>3. /\ [item[i] EXCEPT !.price = price, !.available = available] \in ItemRow
        /\ [item[i] EXCEPT !.price = price, !.available = available].category
              = item[i].category
    BY <2>2 DEF ItemRow
  <2>4. QED
    BY <1>3, <2>1, <2>2, <2>3 DEF Ready, Label
<1>12. CASE DeleteItemFind(u)
  <2>1. PICK i \in LiveItems : Start(u, "deleteItem", i, Nil)
    BY <1>12 DEF DeleteItemFind
  <2>2. i \in Items /\ item[i].state # "none"
    BY DEF LiveItems
  <2>3. QED
    BY <1>3, <2>1, <2>2 DEF Ready, Label
<1>13. CASE CreateItemInsert(u) \/ UpdateItemSave(u) \/ UpdateItemUpsert(u) \/ DeleteItemMark(u)
  BY <1>1, <1>4, <1>5, <1>13
     DEF CreateItemInsert, UpdateItemSave, UpdateItemUpsert, DeleteItemMark, Ready, Label
<1>14. CASE StaffFail(u)
  BY <1>4, <1>14 DEF StaffFail
<1>15. QED
  BY <1>6, <1>7, <1>8, <1>9, <1>10, <1>11, <1>12, <1>13, <1>14
     DEF StaffStep, CategoryStep, ItemStep

\* A staff step leaves the tables alone or writes one row.  A deleted row comes back
\* to life only by an update that is about to save it, and an item never changes
\* its category.
LEMMA TableMove ==
    ASSUME IInv, NEW u \in Staff, StaffStep(u)
    PROVE  \/ UNCHANGED tables
           \/ /\ item' = item
              /\ \E c \in Categories, r \in CategoryRow :
                    /\ category' = [category EXCEPT ![c] = r]
                    /\ category[c].state = "deleted"
                       => \/ r.state = "deleted"
                          \/ /\ pc[u] \in {"saveCategory", "upsertCategory"}
                             /\ target[u] = c
           \/ /\ category' = category
              /\ \E i \in Items, r \in ItemRow :
                    /\ item' = [item EXCEPT ![i] = r]
                    /\ item[i].state # "none" => r.category = item[i].category
                    /\ item[i].state = "deleted"
                       => \/ r.state = "deleted"
                          \/ pc[u] \in {"saveItem", "upsertItem"} /\ target[u] = i
<1>1. TypeOK /\ Ready(pc[u], target[u], row[u])
  BY DEF IInv, Found
<1>2. CASE CreateCategory(u)
  <2>1. PICK c \in Categories, visible \in BOOLEAN :
           /\ category[c].state = "none"
           /\ category' = [category EXCEPT ![c] =
                              CategoryInserted([state |-> "live", visible |-> visible])]
    BY <1>2 DEF CreateCategory
  <2>2. CategoryInserted([state |-> "live", visible |-> visible]) \in CategoryRow
    BY InsertedFacts DEF CategoryRow, State
  <2>3. QED
    BY <1>2, <2>1, <2>2 DEF CreateCategory
<1>3. CASE UpdateCategorySave(u)
  BY <1>1, <1>3 DEF UpdateCategorySave, Ready, tables
<1>4. CASE UpdateCategoryUpsert(u)
  BY <1>1, <1>4, InsertedFacts DEF UpdateCategoryUpsert, Ready
<1>5. CASE DeleteCategoryMark(u)
  <2> DEFINE r == [category[target[u]] EXCEPT !.state = "deleted"]
  <2>1. target[u] \in Categories /\ category[target[u]] \in CategoryRow
    BY <1>1, <1>5, RowFacts DEF DeleteCategoryMark, Ready
  <2>2. r \in CategoryRow /\ r.state = "deleted"
    BY <2>1 DEF CategoryRow, State
  <2>3. category' = [category EXCEPT ![target[u]] = r]
    BY <1>5 DEF DeleteCategoryMark
  <2>4. QED
    BY <1>5, <2>1, <2>2, <2>3 DEF DeleteCategoryMark
<1>6. CASE CreateItemInsert(u)
  BY <1>1, <1>6, InsertedFacts DEF CreateItemInsert, Ready
<1>7. CASE UpdateItemSave(u)
  BY <1>1, <1>7 DEF UpdateItemSave, Ready, tables
<1>8. CASE UpdateItemUpsert(u)
  BY <1>1, <1>8, InsertedFacts DEF UpdateItemUpsert, Ready
<1>9. CASE DeleteItemMark(u)
  <2> DEFINE r == [item[target[u]] EXCEPT !.state = "deleted"]
  <2>1. target[u] \in Items /\ item[target[u]] \in ItemRow
    BY <1>1, <1>9, RowFacts DEF DeleteItemMark, Ready
  <2>2. r \in ItemRow /\ r.state = "deleted" /\ r.category = item[target[u]].category
    BY <2>1 DEF ItemRow, State
  <2>3. item' = [item EXCEPT ![target[u]] = r]
    BY <1>9 DEF DeleteItemMark
  <2>4. QED
    BY <1>9, <2>1, <2>2, <2>3 DEF DeleteItemMark
<1>10. QED
  BY <1>2, <1>3, <1>4, <1>5, <1>6, <1>7, <1>8, <1>9
     DEF StaffStep, CategoryStep, ItemStep, StaffFail, UpdateCategoryFind, DeleteCategoryFind,
         DeleteCategoryCount, CreateItemFind, UpdateItemFind, DeleteItemFind, Start, tables

\* A guest's step leaves the tables, the staff and the other guests alone; it adds
\* to the lines only what is on offer, and nothing to those of a new request.
LEMMA GuestMove ==
    ASSUME IInv, NEW g \in Guests, GuestStep(g)
    PROVE  /\ UNCHANGED <<tables, staffVars>>
           /\ \E label \in Label, want \in (SUBSET Categories) \union (SUBSET Items),
                 read \in SUBSET (Items \X Prices) :
                 /\ pc' = [pc EXCEPT ![g] = label]
                 /\ wanted' = [wanted EXCEPT ![g] = want]
                 /\ lines' = [lines EXCEPT ![g] = read]
                 /\ read \subseteq lines[g] \union OnOffer
                 /\ "idle" \in {pc[g], label} => read = {}
<1>1. /\ wanted[g] \in (SUBSET Categories) \union (SUBSET Items)
      /\ lines[g] \in SUBSET (Items \X Prices)
      /\ OnOffer \in SUBSET (Items \X Prices)
  BY OfferFacts DEF IInv, TypeOK
<1> DEFINE Moves == \E label \in Label, want \in (SUBSET Categories) \union (SUBSET Items),
                       read \in SUBSET (Items \X Prices) :
                          /\ pc' = [pc EXCEPT ![g] = label]
                          /\ wanted' = [wanted EXCEPT ![g] = want]
                          /\ lines' = [lines EXCEPT ![g] = read]
                          /\ read \subseteq lines[g] \union OnOffer
                          /\ "idle" \in {pc[g], label} => read = {}
<1>2. ASSUME NEW label \in Label, NEW want \in (SUBSET Categories) \union (SUBSET Items),
             NEW read \in SUBSET (Items \X Prices), Read(g, label, want, read),
             read \subseteq lines[g] \union OnOffer, "idle" \in {pc[g], label} => read = {}
      PROVE  UNCHANGED <<tables, staffVars>> /\ Moves
  BY <1>2 DEF Read, Goto
<1>3. ASSUME NEW label \in Label, NEW want \in (SUBSET Categories) \union (SUBSET Items),
             Read(g, label, want, {})
      PROVE  UNCHANGED <<tables, staffVars>> /\ Moves
  <2>1. {} \in SUBSET (Items \X Prices)
    OBVIOUS
  <2>2. QED
    BY <1>2, <1>3, <2>1
<1>4. CASE BrowseCategories(g)
  <2>1. {c \in LiveCategories : category[c].visible} \in SUBSET Categories
    BY DEF LiveCategories
  <2>2. QED
    BY <1>3, <1>4, <2>1 DEF BrowseCategories, Label
<1>5. CASE BrowseItems(g)
  <2> DEFINE read == {l \in OnOffer : item[l[1]].category \in wanted[g]}
  <2>1. read \in SUBSET (Items \X Prices) /\ read \subseteq lines[g] \union OnOffer
    BY <1>1
  <2>2. pc[g] = "browse" /\ Read(g, "respond", {}, read)
    BY <1>5 DEF BrowseItems
  <2>3. {} \in SUBSET Items /\ "respond" \in Label
    BY DEF Label
  <2> HIDE DEF read
  <2>4. QED
    BY <1>2, <2>1, <2>2, <2>3
<1>6. CASE OrderStart(g)
  BY <1>3, <1>6 DEF OrderStart, Label
<1>7. CASE OrderItem(g)
  <2>1. pc[g] = "order"
    BY <1>7 DEF OrderItem
  <2>2. CASE Read(g, "idle", {}, {})
    <3>1. {} \in SUBSET Items /\ "idle" \in Label
      BY DEF Label
    <3>2. QED
      BY <1>3, <2>2, <3>1
  <2>3. ASSUME NEW i \in wanted[g], NEW l \in OnOffer,
               Read(g, "order", wanted[g] \ {i}, lines[g] \union {l})
        PROVE  UNCHANGED <<tables, staffVars>> /\ Moves
    <3>1. wanted[g] \ {i} \in (SUBSET Categories) \union (SUBSET Items)
      BY <1>1
    <3>2. /\ lines[g] \union {l} \in SUBSET (Items \X Prices)
          /\ lines[g] \union {l} \subseteq lines[g] \union OnOffer
      BY <1>1
    <3>3. "order" \in Label /\ "idle" \notin {pc[g], "order"}
      BY <2>1 DEF Label
    <3>4. QED
      BY <1>2, <2>3, <3>1, <3>2, <3>3
  <2>4. QED
    BY <1>7, <2>2, <2>3 DEF OrderItem
<1>8. CASE Finish(g)
  <2>1. {} \in SUBSET Items /\ "idle" \in Label
    BY DEF Label
  <2>2. QED
    BY <1>3, <1>8, <2>1 DEF Finish
<1>9. QED
  BY <1>4, <1>5, <1>6, <1>7, <1>8 DEF GuestStep

\* A step is one of a member of staff, one of a guest, or none.
LEMMA NextCases ==
    ASSUME [Next]_vars
    PROVE  (\E u \in Staff : StaffStep(u)) \/ (\E g \in Guests : GuestStep(g)) \/ UNCHANGED vars
  BY DEF Next

-----------------------------------------------------------------------------
(* The invariant.                                                          *)

\* The empty menu satisfies the invariant.
LEMMA InitIInv == Init => IInv
<1>1. Init => TypeOK
  BY DEF Init, TypeOK
<1>2. Init => Found
  BY DEF Init, Found, Ready, Workers
<1>3. QED
  BY <1>1, <1>2 DEF IInv

\* The rows keep their types, those that exist go on to exist, and items stay in
\* their categories.
LEMMA RowsKept ==
    ASSUME IInv, [Next]_vars
    PROVE  /\ category' \in [Categories -> CategoryRow \union {NoCategory}]
           /\ item' \in [Items -> ItemRow \union {NoItem}]
           /\ \A c \in Categories : category[c].state # "none" => category'[c].state # "none"
           /\ \A i \in Items : item[i].state # "none"
                 => item'[i].state # "none" /\ item'[i].category = item[i].category
<1>1. TypeOK
  BY DEF IInv
<1>2. CASE UNCHANGED tables
  BY <1>1, <1>2 DEF tables, TypeOK
<1>3. CASE \E u \in Staff : StaffStep(u)
  <2>1. PICK u \in Staff : StaffStep(u)
    BY <1>3
  <2>2. ASSUME NEW c \in Categories, NEW r \in CategoryRow, item' = item,
               category' = [category EXCEPT ![c] = r]
        PROVE  /\ category' \in [Categories -> CategoryRow \union {NoCategory}]
               /\ \A k \in Categories :
                     category[k].state # "none" => category'[k].state # "none"
    BY <1>1, <2>2 DEF TypeOK, CategoryRow, State
  <2>3. ASSUME NEW i \in Items, NEW r \in ItemRow, category' = category,
               item' = [item EXCEPT ![i] = r],
               item[i].state # "none" => r.category = item[i].category
        PROVE  /\ item' \in [Items -> ItemRow \union {NoItem}]
               /\ \A j \in Items : item[j].state # "none"
                     => item'[j].state # "none" /\ item'[j].category = item[j].category
    BY <1>1, <2>3 DEF TypeOK, ItemRow, State
  <2>4. QED
    BY <1>1, <1>2, <2>1, <2>2, <2>3, TableMove DEF TypeOK
<1>4. QED
  BY <1>2, <1>3, NextCases, GuestMove DEF vars

\* What a request was ready for it is still ready for after a step.
LEMMA ReadyKept ==
    ASSUME IInv, [Next]_vars, NEW label, NEW x, NEW r, Ready(label, x, r)
    PROVE  Ready(label, x, r)'
  BY RowsKept DEF Ready

\* A step preserves the invariant.
LEMMA StepIInv == IInv /\ [Next]_vars => IInv'
<1> SUFFICES ASSUME IInv, [Next]_vars PROVE IInv'
  OBVIOUS
<1>1. TypeOK /\ Found /\ pc \in [Workers -> Label]
  BY DEF IInv, TypeOK, Label
<1>2. CASE \E u \in Staff : StaffStep(u)
  <2>1. PICK u \in Staff : StaffStep(u)
    BY <1>2
  <2>2. PICK label \in Label, x \in Categories \union Items \union {Nil},
             r \in CategoryRow \union ItemRow \union {Nil} :
                /\ pc' = [pc EXCEPT ![u] = label]
                /\ target' = [target EXCEPT ![u] = x]
                /\ row' = [row EXCEPT ![u] = r]
                /\ Ready(label, x, r)
    BY <2>1, StaffMove
  <2>3. TypeOK'
    BY <1>1, <2>1, <2>2, StaffMove, RowsKept DEF TypeOK, Label, guestVars
  <2>4. ASSUME NEW v \in Staff PROVE Ready(pc[v], target[v], row[v])'
    <3>1. CASE v = u
      <4>1. pc'[u] = label /\ target'[u] = x /\ row'[u] = r
        BY <1>1, <2>2 DEF TypeOK, Workers
      <4>2. Ready(label, x, r)'
        BY <2>2, ReadyKept
      <4>3. QED
        BY <3>1, <4>1, <4>2 DEF Ready
    <3>2. CASE v # u
      <4>1. pc'[v] = pc[v] /\ target'[v] = target[v] /\ row'[v] = row[v]
        BY <1>1, <2>2, <3>2 DEF TypeOK, Workers
      <4>2. QED
        BY <1>1, <4>1, RowsKept DEF Found, Ready
    <3>3. QED
      BY <3>1, <3>2
  <2>5. QED
    BY <2>3, <2>4 DEF IInv, Found
<1>3. CASE \E g \in Guests : GuestStep(g)
  <2>1. PICK g \in Guests : GuestStep(g)
    BY <1>3
  <2>2. TypeOK'
    <3>1. PICK label \in Label, want \in (SUBSET Categories) \union (SUBSET Items),
               read \in SUBSET (Items \X Prices) :
                  /\ pc' = [pc EXCEPT ![g] = label]
                  /\ wanted' = [wanted EXCEPT ![g] = want]
                  /\ lines' = [lines EXCEPT ![g] = read]
                  /\ read \subseteq lines[g] \union OnOffer
                  /\ "idle" \in {pc[g], label} => read = {}
      BY <2>1, GuestMove
    <3>2. pc' \in [Workers -> Label]
      BY <1>1, <3>1
    <3>3. /\ wanted' \in [Guests -> (SUBSET Categories) \union (SUBSET Items)]
          /\ lines' \in [Guests -> SUBSET (Items \X Prices)]
      BY <1>1, <3>1 DEF TypeOK
    <3>4. target' = target /\ row' = row
      BY <2>1, GuestMove DEF staffVars
    <3>5. QED
      BY <1>1, <3>2, <3>3, <3>4, RowsKept DEF TypeOK, Label
  <2>3. Found'
    <3>1. ASSUME NEW v \in Staff PROVE Ready(pc[v], target[v], row[v])'
      <4>1. pc'[v] = pc[v] /\ target'[v] = target[v] /\ row'[v] = row[v]
        BY <1>1, <2>1, GuestMove, MenuAssumption DEF Workers, staffVars
      <4>2. QED
        BY <1>1, <4>1, RowsKept DEF Found, Ready
    <3>2. QED
      BY <3>1 DEF Found
  <2>4. QED
    BY <2>2, <2>3 DEF IInv
<1>4. CASE UNCHANGED vars
  BY <1>1, <1>4 DEF IInv, TypeOK, Found, Ready, vars, tables, staffVars, guestVars
<1>5. QED
  BY <1>2, <1>3, <1>4, NextCases

\* IInv holds in every reachable state.
LEMMA Invariance == Spec => []IInv
  BY InitIInv, StepIInv, PTL DEF Spec

\* Menu keeps its types (internal/menu): a row that an update overwrites or brings
\* back is as complete as one that was inserted.
THEOREM MenuTypeCorrect == Spec => []TypeOK
<1>1. IInv => TypeOK
  BY DEF IInv
<1>2. QED
  BY <1>1, Invariance, PTL

\* A step with its histories is a step without them.
LEMMA HistoryStep == [HistoryNext]_<<vars, historyVars>> => [Next]_vars
  BY DEF HistoryNext

-----------------------------------------------------------------------------
(* What is gone stays gone.                                                *)

\* A staff request leaves the locals of the others alone.
LEMMA OthersKept ==
    ASSUME IInv, NEW u \in Staff, StaffStep(u)
    PROVE  /\ \A v \in Staff \ {u} :
                 pc'[v] = pc[v] /\ target'[v] = target[v] /\ row'[v] = row[v]
           /\ \A g \in Guests : pc'[g] = pc[g]
<1>1. PICK label, x, r : /\ pc' = [pc EXCEPT ![u] = label]
                         /\ target' = [target EXCEPT ![u] = x]
                         /\ row' = [row EXCEPT ![u] = r]
  BY StaffMove
<1>2. u \notin Guests
  BY MenuAssumption
<1>3. QED
  BY <1>1, <1>2 DEF IInv, TypeOK, Workers

\* A request comes to save a row only by reading it while it is live.
LEMMA SaveStarts ==
    ASSUME IInv, NEW u \in Staff, StaffStep(u),
           pc'[u] \in {"saveCategory", "upsertCategory", "saveItem", "upsertItem"}
    PROVE  \/ target'[u] \in LiveCategories \union LiveItems
           \/ /\ pc[u] \in {"saveCategory", "saveItem"}
              /\ target'[u] = target[u]
<1> USE DEF IInv, TypeOK, Workers, Start, Done, Goto, staffVars
<1>1. CASE CategoryStep(u)
  BY <1>1 DEF CategoryStep, CreateCategory, UpdateCategoryFind, UpdateCategorySave,
     UpdateCategoryUpsert, DeleteCategoryFind, DeleteCategoryCount, DeleteCategoryMark
<1>2. CASE ItemStep(u)
  BY <1>2 DEF ItemStep, CreateItemFind, CreateItemInsert, UpdateItemFind, UpdateItemSave,
     UpdateItemUpsert, DeleteItemFind, DeleteItemMark
<1>3. CASE StaffFail(u)
  BY <1>3 DEF StaffFail
<1>4. QED
  BY <1>1, <1>2, <1>3 DEF StaffStep

\* A row that is gone is not brought back by any step: not by the one that writes the
\* tables, and no request can come to save it, since it would have to read it first.
LEMMA GoneKept ==
    ASSUME IInv, [Next]_vars, NEW x \in Categories \union Items, Gone(x)
    PROVE  Gone(x)'
<1>1. TypeOK /\ pc \in [Workers -> Label]
  BY DEF IInv, TypeOK, Label
<1> DEFINE Saving == {"saveCategory", "upsertCategory", "saveItem", "upsertItem"}
           Deleted == {c \in Categories : category[c].state = "deleted"}
                      \union {i \in Items : item[i].state = "deleted"}
<1>2. CASE \E u \in Staff : StaffStep(u)
  <2>1. PICK u \in Staff : StaffStep(u)
    BY <1>2
  <2>2. x \in Deleted /\ \A v \in Staff : pc[v] \in Saving => target[v] # x
    BY DEF Gone
  <2>3. x \in Deleted'
    <3>1. CASE UNCHANGED tables
      BY <2>2, <3>1 DEF tables
    <3>2. ASSUME item' = item, NEW c \in Categories, NEW r \in CategoryRow,
                 category' = [category EXCEPT ![c] = r],
                 category[c].state = "deleted" => \/ r.state = "deleted"
                                                  \/ pc[u] \in Saving /\ target[u] = c
          PROVE  x \in Deleted'
      BY <1>1, <2>2, <3>2 DEF TypeOK
    <3>3. ASSUME category' = category, NEW i \in Items, NEW r \in ItemRow,
                 item' = [item EXCEPT ![i] = r],
                 item[i].state = "deleted" => \/ r.state = "deleted"
                                              \/ pc[u] \in Saving /\ target[u] = i
          PROVE  x \in Deleted'
      BY <1>1, <2>2, <3>3 DEF TypeOK
    <3>4. QED
      BY <2>1, <3>1, <3>2, <3>3, TableMove
  <2>4. ASSUME NEW v \in Staff, pc'[v] \in Saving PROVE target'[v] # x
    <3>1. CASE pc'[v] = pc[v] /\ target'[v] = target[v]
      BY <2>2, <2>4, <3>1
    <3>2. CASE v = u
      <4>1. CASE target'[u] \in LiveCategories \union LiveItems
        BY <2>2, <3>2, <4>1, MenuAssumption DEF LiveCategories, LiveItems
      <4>2. CASE pc[u] \in Saving /\ target'[u] = target[u]
        BY <2>2, <3>2, <4>2
      <4>3. QED
        BY <2>1, <2>4, <3>2, <4>1, <4>2, SaveStarts
    <3>3. QED
      BY <2>1, <3>1, <3>2, OthersKept
  <2>5. QED
    BY <2>3, <2>4 DEF Gone
<1>3. CASE \E g \in Guests : GuestStep(g)
  <2>1. PICK g \in Guests : GuestStep(g)
    BY <1>3
  <2>2. \A v \in Staff : pc'[v] = pc[v]
    BY <1>1, <2>1, GuestMove, MenuAssumption DEF Workers
  <2>3. UNCHANGED <<tables, staffVars>>
    BY <2>1, GuestMove
  <2>4. QED
    BY <2>2, <2>3 DEF Gone, tables, staffVars
<1>4. CASE UNCHANGED vars
  BY <1>4 DEF Gone, vars, tables, staffVars
<1>5. QED
  BY <1>2, <1>3, <1>4, NextCases

\* Nothing a member of staff sends brings back what is gone (menu/service.go).
THEOREM GoneForGood == Spec => GoneStaysGone
<1>1. IInv /\ [Next]_vars => [\A x \in Categories \union Items : Gone(x) => Gone(x)']_vars
  BY GoneKept
<1>2. QED
  BY <1>1, Invariance, PTL DEF Spec, GoneStaysGone

-----------------------------------------------------------------------------
(* What is sold was on offer.                                              *)

\* The lines of a request have been on offer since it began, and a guest without a
\* request has none.
Selling ==
    \A g \in Guests : lines[g] \subseteq offered[g] /\ (pc[g] = "idle" => lines[g] = {})

\* A step preserves Selling.
LEMMA StepSelling ==
    ASSUME IInv, Selling, [HistoryNext]_<<vars, historyVars>>
    PROVE  Selling'
<1>1. CASE UNCHANGED <<vars, historyVars>>
  BY <1>1 DEF Selling, vars, guestVars, historyVars
<1>2. CASE HistoryNext
  <2> SUFFICES ASSUME NEW g \in Guests
               PROVE  lines'[g] \subseteq offered'[g] /\ (pc'[g] = "idle" => lines'[g] = {})
    BY DEF Selling
  <2>1. [Next]_vars /\ TypeOK /\ g \in Workers
    BY <1>2 DEF HistoryNext, IInv, Workers
  <2>2. /\ pc'[g] # "idle" /\ pc[g] = "idle" => OnOffer \subseteq offered'[g]
        /\ pc'[g] # "idle" /\ pc[g] # "idle"
           => offered[g] \subseteq offered'[g] /\ OnOffer' \subseteq offered'[g]
    BY <1>2 DEF HistoryNext
  <2>3. CASE pc'[g] = pc[g] /\ lines'[g] = lines[g]
    BY <2>2, <2>3 DEF Selling
  <2>4. CASE GuestStep(g)
    <3>1. PICK label \in Label, want \in (SUBSET Categories) \union (SUBSET Items),
               read \in SUBSET (Items \X Prices) :
                  /\ pc' = [pc EXCEPT ![g] = label]
                  /\ wanted' = [wanted EXCEPT ![g] = want]
                  /\ lines' = [lines EXCEPT ![g] = read]
                  /\ read \subseteq lines[g] \union OnOffer
                  /\ "idle" \in {pc[g], label} => read = {}
      BY <2>4, GuestMove
    <3>2. pc'[g] = label /\ lines'[g] = read
      BY <2>1, <3>1 DEF TypeOK
    <3>3. OnOffer' = OnOffer
      BY <2>4, GuestMove DEF tables, OnOffer, LiveItems
    <3>4. QED
      BY <2>2, <3>1, <3>2, <3>3 DEF Selling
  <2>5. CASE ~GuestStep(g) /\ \E h \in Guests : GuestStep(h)
    <3>1. PICK h \in Guests : GuestStep(h)
      BY <2>5
    <3>2. PICK label \in Label, want \in (SUBSET Categories) \union (SUBSET Items),
               read \in SUBSET (Items \X Prices) :
                  /\ pc' = [pc EXCEPT ![h] = label]
                  /\ wanted' = [wanted EXCEPT ![h] = want]
                  /\ lines' = [lines EXCEPT ![h] = read]
                  /\ read \subseteq lines[h] \union OnOffer
                  /\ "idle" \in {pc[h], label} => read = {}
      BY <3>1, GuestMove
    <3>3. pc'[g] = pc[g] /\ lines'[g] = lines[g]
      BY <2>1, <2>5, <3>1, <3>2 DEF TypeOK
    <3>4. QED
      BY <2>3, <3>3
  <2>6. CASE \E u \in Staff : StaffStep(u)
    BY <2>3, <2>6, StaffMove, OthersKept DEF guestVars
  <2>7. CASE UNCHANGED vars
    BY <2>3, <2>7 DEF vars, guestVars
  <2>8. QED
    BY <2>1, <2>4, <2>5, <2>6, <2>7, NextCases
<1>3. QED
  BY <1>1, <1>2

\* Every line of a menu that is shown, and of an order that is placed, was on offer at
\* that price while the request ran, whatever staff changed meanwhile.
THEOREM SoldOnlyAsOffered == HistorySpec => []SoldAsOffered
<1>1. HistoryInit => IInv /\ Selling
  <2>1. HistoryInit => IInv
    BY InitIInv DEF HistoryInit
  <2>2. HistoryInit => Selling
    BY DEF HistoryInit, Init, Selling
  <2>3. QED
    BY <2>1, <2>2
<1>2. IInv /\ Selling /\ [HistoryNext]_<<vars, historyVars>> => (IInv /\ Selling)'
  BY HistoryStep, StepIInv, StepSelling
<1>3. Selling => SoldAsOffered
  BY DEF Selling, SoldAsOffered
<1>4. QED
  BY <1>1, <1>2, <1>3, PTL DEF HistorySpec

-----------------------------------------------------------------------------
(* Unforced deletions.                                                     *)

\* A request about to mark a category knows its items but for those that came to
\* life since it counted; a forced one claims to know nothing.
Counted ==
    \A u \in Staff : pc[u] = "deleteCategory" => ItemsIn(target[u]) \subseteq newcomers[u]

\* A request is about to mark a category because it already was, because it does not
\* count, or because it has just found the category empty.
LEMMA MarkStarts ==
    ASSUME IInv, [Next]_vars, NEW u \in Staff, pc'[u] = "deleteCategory"
    PROVE  \/ pc[u] = "idle"
           \/ /\ pc[u] = "countItems"
              /\ target'[u] = target[u] /\ ItemsIn(target[u]) = {} /\ item' = item
           \/ pc[u] = "deleteCategory" /\ target'[u] = target[u]
<1>1. CASE StaffStep(u)
  <2> USE DEF IInv, TypeOK, Workers, Start, Done, Goto, staffVars, tables
  <2>1. CASE CategoryStep(u)
    BY <1>1, <2>1 DEF CategoryStep, CreateCategory, UpdateCategoryFind, UpdateCategorySave,
       UpdateCategoryUpsert, DeleteCategoryFind, DeleteCategoryCount, DeleteCategoryMark
  <2>2. CASE ItemStep(u)
    BY <1>1, <2>2 DEF ItemStep, CreateItemFind, CreateItemInsert, UpdateItemFind, UpdateItemSave,
       UpdateItemUpsert, DeleteItemFind, DeleteItemMark
  <2>3. CASE StaffFail(u)
    BY <1>1, <2>3 DEF StaffFail
  <2>4. QED
    BY <1>1, <2>1, <2>2, <2>3 DEF StaffStep
<1>2. CASE \E v \in Staff \ {u} : StaffStep(v)
  BY <1>2, OthersKept
<1>3. CASE \E g \in Guests : GuestStep(g)
  <2>1. PICK g \in Guests : GuestStep(g)
    BY <1>3
  <2>2. pc'[u] = pc[u]
    BY <2>1, GuestMove, MenuAssumption DEF IInv, TypeOK, Workers
  <2>3. target' = target
    BY <2>1, GuestMove DEF staffVars
  <2>4. QED
    BY <2>2, <2>3
<1>4. CASE UNCHANGED vars
  BY <1>4 DEF vars, staffVars
<1>5. QED
  BY <1>1, <1>2, <1>3, <1>4, NextCases

\* A step preserves Counted.
LEMMA StepCounted ==
    ASSUME IInv, Counted, [HistoryNext]_<<vars, historyVars>>
    PROVE  Counted'
<1>1. CASE UNCHANGED <<vars, historyVars>>
  BY <1>1 DEF Counted, ItemsIn, LiveItems, vars, tables, staffVars, historyVars
<1>2. CASE HistoryNext
  <2> SUFFICES ASSUME NEW u \in Staff, pc'[u] = "deleteCategory",
                      NEW i \in ItemsIn(target[u])'
               PROVE  i \in newcomers'[u]
    BY DEF Counted
  <2>1. [Next]_vars /\ i \in LiveItems' /\ item'[i].category = target'[u] /\ i \in Items
    BY <1>2 DEF HistoryNext, ItemsIn, LiveItems
  <2>2. CASE pc[u] = "idle"
    BY <1>2, <2>1, <2>2 DEF HistoryNext
  <2>3. CASE pc[u] = "countItems"
    <3>1. target'[u] = target[u] /\ ItemsIn(target[u]) = {} /\ item' = item
      BY <2>1, <2>3, MarkStarts
    <3>2. QED
      BY <2>1, <3>1 DEF ItemsIn, LiveItems
  <2>4. CASE pc[u] = "deleteCategory"
    <3>1. newcomers'[u] = newcomers[u] \union (LiveItems' \ LiveItems)
      BY <1>2, <2>4 DEF HistoryNext
    <3>2. target'[u] = target[u]
      BY <2>1, <2>4, MarkStarts
    <3>3. CASE i \in LiveItems
      <4>1. item'[i].category = item[i].category
        BY <2>1, <3>3, RowsKept DEF LiveItems
      <4>2. QED
        BY <2>1, <2>4, <3>1, <3>2, <3>3, <4>1 DEF Counted, ItemsIn
    <3>4. QED
      BY <2>1, <3>1, <3>3
  <2>5. QED
    BY <2>1, <2>2, <2>3, <2>4, MarkStarts
<1>3. QED
  BY <1>1, <1>2

\* A deletion of a category without force leaves behind only items that came to life
\* after it counted, whoever creates, updates and deletes items meanwhile.
THEOREM DeletionsLeaveNewcomers == HistorySpec => UnforcedDeleteLeavesNewcomers
<1>1. HistoryInit => IInv /\ Counted
  <2>1. HistoryInit => IInv
    BY InitIInv DEF HistoryInit
  <2>2. HistoryInit => Counted
    BY DEF HistoryInit, Init, Counted, Workers
  <2>3. QED
    BY <2>1, <2>2
<1>2. IInv /\ Counted /\ [HistoryNext]_<<vars, historyVars>> => (IInv /\ Counted)'
  BY HistoryStep, StepIInv, StepCounted
<1>3. Counted => [\A u \in Staff :
                    DeleteCategoryMark(u) => ItemsIn(target[u]) \subseteq newcomers[u]
                  ]_<<vars, historyVars>>
  BY DEF Counted, DeleteCategoryMark
<1>4. QED
  BY <1>1, <1>2, <1>3, PTL DEF HistorySpec, UnforcedDeleteLeavesNewcomers

-----------------------------------------------------------------------------
(* Words.                                                                  *)

\* A word does not tell numbers apart that differ by multiples of the number of its values.
Congruent(a, b, L) == \E k \in Int : a = b + (2 * L) * k

\* Such numbers stay so in sums.
LEMMA CongruentFacts ==
    ASSUME NEW L \in Nat \ {0}, NEW a \in Int, NEW b \in Int, Congruent(a, b, L)
    PROVE  /\ Congruent(b, a, L)
           /\ \A c \in Int : Congruent(b, c, L) => Congruent(a, c, L)
           /\ \A x, y, z \in Int : y = a + x /\ z = b + x => Congruent(y, z, L)
<1>1. PICK k \in Int : a = b + (2 * L) * k
  BY DEF Congruent
<1>2. Congruent(b, a, L)
  <2>1. (2 * L) * (-k) = -((2 * L) * k) /\ -k \in Int
    OBVIOUS
  <2>2. b = a + (2 * L) * (-k)
    BY <1>1, <2>1
  <2>3. QED
    BY <2>1, <2>2 DEF Congruent
<1>3. ASSUME NEW c \in Int, Congruent(b, c, L) PROVE Congruent(a, c, L)
  <2>1. PICK i \in Int : b = c + (2 * L) * i
    BY <1>3 DEF Congruent
  <2>2. (2 * L) * (k + i) = (2 * L) * k + (2 * L) * i /\ k + i \in Int
    OBVIOUS
  <2>3. a = c + (2 * L) * (k + i)
    BY <1>1, <2>1, <2>2
  <2>4. QED
    BY <2>2, <2>3 DEF Congruent
<1>4. ASSUME NEW x \in Int, NEW y \in Int, NEW z \in Int, y = a + x, z = b + x
      PROVE  Congruent(y, z, L)
  <2>1. y = z + (2 * L) * k
    BY <1>1, <1>4
  <2>2. QED
    BY <2>1 DEF Congruent
<1>5. QED
  BY <1>2, <1>3, <1>4

\* Two numbers of one word are told apart.
LEMMA CongruentWords ==
    ASSUME NEW L \in Nat \ {0}, NEW a \in -L .. L - 1, NEW b \in -L .. L - 1, Congruent(a, b, L)
    PROVE  a = b
<1>1. PICK k \in Int : a = b + (2 * L) * k
  BY DEF Congruent
<1> DEFINE p == (2 * L) * k
<1>2. CASE k >= 1
  <2>1. p >= 2 * L
    BY <1>2
  <2>2. QED
    BY <2>1, <1>1
<1>3. CASE k <= -1
  <2>1. p <= -(2 * L)
    BY <1>3
  <2>2. QED
    BY <2>1, <1>1
<1>4. CASE k = 0
  BY <1>1, <1>4
<1>5. QED
  BY <1>2, <1>3, <1>4

\* A quotient and its remainder.
LEMMA DivisionFacts ==
    ASSUME NEW d \in Nat \ {0}, NEW n \in Int
    PROVE  /\ n \div d \in Int
           /\ n % d \in 0 .. d - 1
           /\ n = d * (n \div d) + (n % d)
  OBVIOUS

\* A multiple leaves no remainder.
LEMMA MultiplesDivide ==
    ASSUME NEW d \in Nat \ {0}, NEW k \in Int, NEW n \in Int, n = d * k
    PROVE  n % d = 0
<1>1. PICK q \in Int, m \in 0 .. d - 1 : n = d * q + m /\ m = n % d
  BY DivisionFacts
<1>2. PICK j \in Int : j = k - q /\ k = j + q
  OBVIOUS
<1>3. d * (j + q) = d * j + d * q /\ d * j \in Int /\ d * q \in Int
  OBVIOUS
<1>4. m = d * j
  <2>1. PICK x \in Int, y \in Int : x = d * j /\ y = d * q
    BY <1>3
  <2>2. n = x + y
    BY <1>2, <1>3, <2>1
  <2>3. QED
    BY <1>1, <2>1, <2>2
<1>5. CASE j >= 1
  <2>1. d * j >= d
    BY <1>5
  <2>2. QED
    BY <1>4, <2>1
<1>6. CASE j <= -1
  <2>1. d * j <= -d
    BY <1>6
  <2>2. QED
    BY <1>4, <2>1
<1>7. CASE j = 0
  BY <1>1, <1>4, <1>7
<1>8. QED
  BY <1>5, <1>6, <1>7

\* What a word keeps of a number is in the word, and differs by such a multiple.
LEMMA WrapFacts ==
    ASSUME NEW L \in Nat \ {0}, NEW n \in Int
    PROVE  Wrap(n, L) \in -L .. L - 1 /\ Congruent(n, Wrap(n, L), L)
<1>1. PICK d \in Nat \ {0} : d = 2 * L
  OBVIOUS
<1>2. PICK q \in Int, m \in 0 .. d - 1 : n = d * q + m /\ m = n % d
  BY DivisionFacts
<1>3. Wrap(n, L) = IF m < L THEN m ELSE m - d
  BY <1>1, <1>2 DEF Wrap
<1>4. CASE m < L
  <2>1. Wrap(n, L) = m
    BY <1>3, <1>4
  <2>2. n = m + (2 * L) * q
    BY <1>1, <1>2
  <2>3. Congruent(n, m, L)
    BY <2>2 DEF Congruent
  <2>4. QED
    BY <2>1, <2>3, <1>4
<1>5. CASE ~(m < L)
  <2>1. Wrap(n, L) = m - d /\ m - d \in -L .. L - 1
    BY <1>1, <1>3, <1>5
  <2>2. n = (m - d) + d * (q + 1) /\ q + 1 \in Int
    BY <1>2
  <2>3. n = (m - d) + (2 * L) * (q + 1)
    BY <1>1, <2>2
  <2>4. QED
    BY <2>1, <2>2, <2>3 DEF Congruent
<1>6. QED
  BY <1>4, <1>5

\* A number that fits is kept.
LEMMA WrapKeeps ==
    ASSUME NEW L \in Nat \ {0}, NEW n \in -L .. L - 1
    PROVE  Wrap(n, L) = n
<1>1. Wrap(n, L) \in -L .. L - 1 /\ Congruent(n, Wrap(n, L), L)
  BY WrapFacts
<1>2. QED
  BY <1>1, CongruentWords

\* What was wrapped before can be added to: only the last wrap matters.
LEMMA WrapAdds ==
    ASSUME NEW L \in Nat \ {0}, NEW n \in Int, NEW x \in Int
    PROVE  Wrap(Wrap(n, L) + x, L) = Wrap(n + x, L)
<1>1. PICK w \in -L .. L - 1 : w = Wrap(n, L) /\ Congruent(n, w, L)
  BY WrapFacts
<1>2. PICK s \in Int, t \in Int : s = n + x /\ t = w + x
  OBVIOUS
<1>3. PICK a \in -L .. L - 1 : a = Wrap(t, L) /\ Congruent(t, a, L)
  BY WrapFacts
<1>4. PICK b \in -L .. L - 1 : b = Wrap(s, L) /\ Congruent(s, b, L)
  BY WrapFacts
<1>5. a \in Int /\ b \in Int /\ w \in Int
  OBVIOUS
<1>6. Congruent(s, t, L)
  BY <1>1, <1>2, <1>5, CongruentFacts
<1>7. Congruent(s, a, L)
  BY <1>3, <1>5, <1>6, CongruentFacts
<1>8. Congruent(b, s, L)
  BY <1>4, <1>5, CongruentFacts
<1>9. Congruent(b, a, L)
  BY <1>5, <1>7, <1>8, CongruentFacts
<1>10. a = b
  BY <1>9, CongruentWords
<1>11. QED
  BY <1>1, <1>2, <1>3, <1>4, <1>10

-----------------------------------------------------------------------------
(* Totals of orders.                                                       *)

\* A Go int holds -Limit .. Limit - 1.
Limit == 2 * IntLimit * IntLimit

\* The limits of a column and of a Go int.
LEMMA LimitFacts ==
    /\ IntLimit * IntLimit \in Nat \ {0}
    /\ IntLimit = 1 \/ 2 * IntLimit <= IntLimit * IntLimit
    /\ Limit = 2 * (IntLimit * IntLimit)
    /\ Limit \in Nat \ {0}
  BY TotalsAssumption DEF Limit

TotalTypeOK ==
    /\ added \in Seq(Line)
    /\ Len(added) <= MaxLines
    /\ totalCents \in Int
    /\ sumCents \in Int

\* The total is the sum as a Go int keeps it.
Kept == totalCents = Wrap(sumCents, Limit)

\* Every line fits its columns, and its modifiers add little.
Fitting ==
    \A i \in DOMAIN added :
        FitsColumn(added[i].cents) /\ FitsColumn(added[i].count) /\ SmallDelta(added[i])

\* No line that fits adds more, or takes away more.
Most == IntLimit * IntLimit - IntLimit
Least == IntLimit - 1

\* How far lines that fit can get.
Bounded ==
    Fitting => /\ -(Len(added) * Least) <= sumCents
               /\ sumCents <= Len(added) * Most

TotalInv == TotalTypeOK /\ Kept /\ Bounded

\* What a line adds.
LEMMA AmountFacts ==
    ASSUME NEW l \in Line
    PROVE  /\ AmountOf(l) \in Int
           /\ SmallDelta(l) /\ FitsColumn(l.cents) /\ FitsColumn(l.count)
              => -Least <= AmountOf(l) /\ AmountOf(l) <= Most
<1>1. l.cents \in Nat /\ l.count \in Nat /\ l.delta \in Int
  BY TotalsAssumption DEF Line
<1>2. PICK c \in Nat, n \in Nat, d \in Int : c = l.cents /\ n = l.count /\ d = l.delta
  BY <1>1
<1>3. PICK p \in Nat : p = c * n
  OBVIOUS
<1>4. AmountOf(l) = p + d
  BY <1>2, <1>3 DEF AmountOf
<1>5. ASSUME SmallDelta(l), FitsColumn(l.cents), FitsColumn(l.count)
      PROVE  -Least <= p + d /\ p + d <= Most
  <2>1. PICK M \in Nat \ {0} : M = IntLimit
    BY TotalsAssumption
  <2>2. c <= M - 1 /\ n <= M - 1 /\ -M < d /\ d < M
    BY <1>2, <1>5, <2>1 DEF SmallDelta, FitsColumn
  <2>3. c * n <= (M - 1) * (M - 1)
    BY <2>2
  <2>4. (M - 1) * (M - 1) = M * M - 2 * M + 1
    OBVIOUS
  <2>5. Most = M * M - M /\ Least = M - 1 /\ M * M \in Int
    BY <2>1 DEF Most, Least
  <2>6. QED
    BY <1>3, <2>1, <2>2, <2>3, <2>4, <2>5
<1>6. QED
  BY <1>4, <1>5

\* The total is the sum as a Go int keeps it, and lines that fit bound the sum.
LEMMA TotalInvariance == TotalSpec => []TotalInv
<1>1. TotalInit => TotalInv
  <2> SUFFICES ASSUME TotalInit PROVE TotalInv
    OBVIOUS
  <2>1. Wrap(0, Limit) = 0
    BY LimitFacts, WrapKeeps
  <2>2. QED
    BY <2>1, TotalsAssumption, LimitFacts
       DEF TotalInit, TotalInv, TotalTypeOK, Kept, Bounded, Most, Least
<1>2. TotalInv /\ [TotalNext]_totalVars => TotalInv'
  <2> SUFFICES ASSUME TotalInv, [TotalNext]_totalVars PROVE TotalInv'
    OBVIOUS
  <2> USE DEF TotalInv
  <2>1. CASE BeginTotal
    <3>1. Wrap(0, Limit) = 0
      BY LimitFacts, WrapKeeps
    <3>2. QED
      BY <2>1, <3>1, TotalsAssumption, LimitFacts
         DEF BeginTotal, TotalTypeOK, Kept, Bounded, Most, Least
  <2>2. ASSUME NEW l \in Line, AddLine(l) PROVE TotalInv'
    <3>1. TotalTypeOK'
      <4>1. AmountOf(l) \in Int /\ Len(added') = Len(added) + 1 /\ added' \in Seq(Line)
        BY <2>2, AmountFacts DEF AddLine, TotalTypeOK
      <4>2. PICK t \in Int : t = totalCents + AmountOf(l)
        BY <4>1 DEF TotalTypeOK
      <4>3. totalCents' = Wrap(t, Limit)
        BY <2>2, <4>2 DEF AddLine, Limit
      <4>4. totalCents' \in Int
        BY <4>3, LimitFacts, WrapFacts
      <4>5. QED
        BY <2>2, <4>1, <4>4, TotalsAssumption DEF TotalTypeOK, AddLine
    <3>2. Kept'
      <4>1. totalCents' = Wrap(Wrap(sumCents, Limit) + AmountOf(l), Limit)
        BY <2>2 DEF AddLine, Kept, Limit
      <4>2. QED
        BY <4>1, <2>2, AmountFacts, LimitFacts, WrapAdds DEF AddLine, Kept, TotalTypeOK
    <3>3. Bounded'
      <4> SUFFICES ASSUME Fitting' PROVE -(Len(added') * Least) <= sumCents'
                                          /\ sumCents' <= Len(added') * Most
        BY DEF Bounded
      <4>1. added' = Append(added, l) /\ sumCents' = sumCents + AmountOf(l)
        BY <2>2 DEF AddLine
      <4>2. /\ Len(added') = Len(added) + 1
            /\ \A i \in DOMAIN added : i \in DOMAIN added' /\ added'[i] = added[i]
            /\ Len(added') \in DOMAIN added' /\ added'[Len(added')] = l
        BY <4>1 DEF TotalTypeOK
      <4>3. Fitting /\ FitsColumn(l.cents) /\ FitsColumn(l.count) /\ SmallDelta(l)
        BY <4>2 DEF Fitting, FitsColumn, SmallDelta
      <4>4. /\ -(Len(added) * Least) <= sumCents /\ sumCents <= Len(added) * Most
            /\ -Least <= AmountOf(l) /\ AmountOf(l) <= Most /\ AmountOf(l) \in Int
        BY <4>3, AmountFacts DEF Bounded
      <4>5. PICK k \in Nat, M \in Int, N \in Int : k = Len(added) /\ M = Least /\ N = Most
        BY TotalsAssumption, LimitFacts DEF TotalTypeOK, Most, Least
      <4>6. (k + 1) * M = k * M + M /\ (k + 1) * N = k * N + N /\ k * M \in Int /\ k * N \in Int
        OBVIOUS
      <4>7. PICK low \in Int, high \in Int, s \in Int, a \in Int :
               low = k * M /\ high = k * N /\ s = sumCents /\ a = AmountOf(l)
        BY <4>4, <4>6 DEF TotalTypeOK
      <4>8. -low <= s /\ s <= high /\ -M <= a /\ a <= N
        BY <4>4, <4>5, <4>7
      <4>9. -(low + M) <= s + a /\ s + a <= high + N
        BY <4>8
      <4>10. QED
        BY <4>1, <4>2, <4>5, <4>6, <4>7, <4>9
    <3>4. QED
      BY <3>1, <3>2, <3>3
  <2>3. CASE UNCHANGED totalVars
    BY <2>3 DEF totalVars, TotalTypeOK, Kept, Bounded, Fitting, FitsColumn, SmallDelta
  <2>4. QED
    BY <2>1, <2>2, <2>3 DEF TotalNext
<1>3. QED
  BY <1>1, <1>2, PTL DEF TotalSpec

\* The sum of four lines that fit falls short of what wraps around into a column.
LEMMA TotalOfFour ==
    ASSUME TotalInv, Storable, Len(added) <= 4, \A i \in DOMAIN added : SmallDelta(added[i])
    PROVE  totalCents = sumCents
<1>1. PICK M \in Nat \ {0}, p \in Nat \ {0} : M = IntLimit /\ p = M * M /\ (M = 1 \/ 2 * M <= p)
  BY LimitFacts, TotalsAssumption
<1>2. Limit = 2 * p /\ Most = p - M /\ Least = M - 1
  BY <1>1, LimitFacts DEF Most, Least
<1>3. PICK s \in Int : s = sumCents
  BY DEF TotalInv, TotalTypeOK
<1>4. PICK k \in Nat : k = Len(added) /\ k <= 4
  BY DEF TotalInv, TotalTypeOK
<1>5. -(k * (M - 1)) <= s /\ s <= k * (p - M)
  BY <1>1, <1>2, <1>3, <1>4 DEF TotalInv, Bounded, Fitting, Storable
<1>6. p - M >= 0
  BY <1>1
<1>7. -(4 * (M - 1)) <= s /\ s <= 4 * (p - M)
  <2>1. k = 0 \/ k = 1 \/ k = 2 \/ k = 3 \/ k = 4
    BY <1>4
  <2>2. k * (M - 1) <= 4 * (M - 1) /\ k * (p - M) <= 4 * (p - M)
    BY <1>6, <2>1
  <2>3. QED
    BY <1>5, <2>2
<1>8. PICK L \in Nat \ {0} : L = Limit /\ L = 2 * p
  BY <1>2
<1>9. PICK w \in -L .. L - 1 : w = totalCents /\ Congruent(s, w, L)
  BY <1>3, <1>8, WrapFacts DEF TotalInv, Kept
<1>10. PICK j \in Int : s = w + (2 * L) * j
  BY <1>9 DEF Congruent
<1>11. -M <= w /\ w < M
  BY <1>1, <1>9 DEF Storable, FitsColumn
<1>12. PICK t \in Int : t = (2 * L) * j
  OBVIOUS
<1>13. CASE j >= 1
  <2>1. t >= 4 * p
    BY <1>8, <1>12, <1>13
  <2>2. QED
    BY <2>1, <1>1, <1>7, <1>10, <1>11, <1>12
<1>14. CASE j <= -1
  <2>1. t <= -(4 * p)
    BY <1>8, <1>12, <1>14
  <2>2. QED
    BY <2>1, <1>1, <1>7, <1>10, <1>11, <1>12
<1>15. CASE j = 0
  BY <1>3, <1>9, <1>10, <1>15
<1>16. QED
  BY <1>13, <1>14, <1>15

\* The total of a Go int is off by a multiple of 2^64.
LEMMA TotalOffByWords ==
    TotalInv => (sumCents - totalCents) % (4 * IntLimit * IntLimit) = 0
<1> SUFFICES ASSUME TotalInv PROVE (sumCents - totalCents) % (4 * IntLimit * IntLimit) = 0
  OBVIOUS
<1>1. PICK L \in Nat \ {0}, s \in Int : L = Limit /\ s = sumCents
  BY LimitFacts DEF TotalInv, TotalTypeOK
<1>2. PICK w \in -L .. L - 1 : w = totalCents /\ Congruent(s, w, L)
  BY <1>1, WrapFacts DEF TotalInv, Kept
<1>3. PICK d \in Nat \ {0} : d = 2 * L /\ d = 4 * IntLimit * IntLimit
  BY <1>1, LimitFacts, TotalsAssumption DEF Limit
<1>4. PICK k \in Int : s = w + d * k
  BY <1>2, <1>3 DEF Congruent
<1>5. PICK n \in Int : n = s - w /\ n = d * k
  BY <1>4
<1>6. n % d = 0
  BY <1>5, MultiplesDivide
<1>7. QED
  BY <1>1, <1>2, <1>3, <1>5, <1>6

\* The total of a stored order is off by a multiple of 2^64, if at all; it is true if
\* there are at most four lines and their modifiers add less than a column holds, for
\* every width of the columns, and whatever the prices, quantities and lines are.
THEOREM StoredTotalsWrap ==
    TotalSpec => []TotalTrueUnlessSumWraps
<1>1. TotalInv => TotalTrueUnlessSumWraps
  <2>1. TotalInv => (Len(added) <= 4 <=> ~(Len(added) > 4))
    BY DEF TotalInv, TotalTypeOK
  <2>2. QED
    BY <2>1, TotalOffByWords, TotalOfFour DEF TotalTrueUnlessSumWraps
<1>2. QED
  BY <1>1, TotalInvariance, PTL

-----------------------------------------------------------------------------
(* Pages of listings.                                                      *)

\* The types of Paging.
PagingTypeOK ==
    /\ rows \in 0 .. MaxRows
    /\ key \in Listings(rows)
    /\ perPage \in {<<>>} \union {<<n>> : n \in -1 .. MaxPerPage + 1}

\* However per_page is sent, a page has one row at least and MaxPerPage at most.
LEMMA LimitOfPage == PagingTypeOK => PerPageOf(perPage) \in 1 .. MaxPerPage
<1> SUFFICES ASSUME PagingTypeOK PROVE PerPageOf(perPage) \in 1 .. MaxPerPage
  OBVIOUS
<1>1. CASE perPage = <<>>
  BY <1>1, PagingAssumption DEF PerPageOf
<1>2. ASSUME NEW n \in -1 .. MaxPerPage + 1, perPage = <<n>>
      PROVE  PerPageOf(perPage) \in 1 .. MaxPerPage
  BY <1>2, PagingAssumption DEF PerPageOf
<1>3. QED
  BY <1>1, <1>2 DEF PagingTypeOK

\* The places of a page whose offset fits.
LEMMA PlacesOfPage ==
    ASSUME PagingTypeOK, NEW limit \in 1 .. MaxPerPage, limit = PerPageOf(perPage),
           NEW n \in 1 .. PageLimit - 1,
           NEW offset \in Nat, offset = (n - 1) * limit, offset < PageLimit
    PROVE  PlacesOf(<<n>>) = {i \in 1 .. rows : offset < i /\ i <= offset + limit}
<1>1. PageOf(<<n>>) = n
  BY DEF PageOf
<1>2. OffsetOf(n, limit) = offset
  <2>1. Wrap(offset, PageLimit) = offset
    BY PagingAssumption, WrapKeeps
  <2>2. QED
    BY <2>1 DEF OffsetOf
<1>3. QED
  BY <1>1, <1>2 DEF PlacesOf

\* Place i is on page (i - 1) \div limit + 1, and on no other.
LEMMA PlacesOfListing ==
    ASSUME PagingTypeOK, NEW limit \in 1 .. MaxPerPage, limit = PerPageOf(perPage)
    PROVE  LET pages == {n \in 1 .. PageLimit - 1 : (n - 1) * limit < PageLimit}
               Places(n) == PlacesOf(<<n>>)
           IN  /\ \A i \in 1 .. rows : \E n \in pages : i \in Places(n)
               /\ \A m, n \in pages : m < n => \A i \in Places(m), j \in Places(n) : i < j
               /\ \A n \in pages : Cardinality(Places(n)) <= MaxPerPage
               /\ \A first \in {<<>>, <<-1>>, <<0>>} : PlacesOf(first) = Places(1)
<1> DEFINE pages == {n \in 1 .. PageLimit - 1 : (n - 1) * limit < PageLimit}
           Places(n) == PlacesOf(<<n>>)
<1>1. /\ rows \in Nat /\ rows < PageLimit
      /\ limit \in Nat /\ 1 <= limit /\ limit <= MaxPerPage
      /\ PageLimit \in Nat /\ MaxPerPage \in Nat
  BY PagingAssumption DEF PagingTypeOK
<1>2. ASSUME NEW n \in pages
      PROVE  /\ (n - 1) * limit \in Nat
             /\ Places(n) = {i \in 1 .. rows : (n - 1) * limit < i /\ i <= (n - 1) * limit + limit}
  <2>1. PICK offset \in Nat : offset = (n - 1) * limit
    BY <1>1
  <2>2. QED
    BY <2>1, PlacesOfPage
<1>3. ASSUME NEW i \in 1 .. rows PROVE \E n \in pages : i \in Places(n)
  <2>1. PICK q \in Int, r \in 0 .. limit - 1 : i - 1 = limit * q + r
    <3>1. limit \in Nat \ {0} /\ i - 1 \in Int
      BY <1>1
    <3>2. QED
      BY <3>1, DivisionFacts
  <2>2. q >= 0
    <3>1. CASE q <= -1
      <4>1. limit * q <= -limit
        BY <3>1, <1>1
      <4>2. QED
        BY <2>1, <4>1, <1>1
    <3>2. QED
      BY <3>1
  <2>3. PICK o \in Nat : o = limit * q /\ q <= o
    BY <2>2, <1>1
  <2>4. q + 1 \in pages /\ ((q + 1) - 1) * limit = o
    BY <2>1, <2>2, <2>3, <1>1
  <2>5. i \in Places(q + 1)
    BY <2>1, <2>3, <2>4, <1>1, <1>2
  <2>6. QED
    BY <2>4, <2>5
<1>4. ASSUME NEW m \in pages, NEW n \in pages, m < n, NEW i \in Places(m), NEW j \in Places(n)
      PROVE  i < j
  <2>1. i <= (m - 1) * limit + limit /\ (n - 1) * limit < j /\ i \in Int /\ j \in Int
    BY <1>2, <1>1
  <2>2. (m - 1) * limit + limit <= (n - 1) * limit
    BY <1>4, <1>1
  <2>3. QED
    BY <2>1, <2>2, <1>2
<1>5. ASSUME NEW n \in pages PROVE Cardinality(Places(n)) <= MaxPerPage
  <2>1. PICK o \in Nat : o = (n - 1) * limit
    BY <1>2
  <2>2. Places(n) \subseteq (o + 1) .. (o + limit)
    BY <1>2, <2>1, <1>1
  <2>3. IsFiniteSet((o + 1) .. (o + limit)) /\ Cardinality((o + 1) .. (o + limit)) = limit
    <3>1. PICK first \in Int, last \in Int : first = o + 1 /\ last = o + limit
      BY <1>1, <2>1
    <3>2. IsFiniteSet(first .. last) /\ Cardinality(first .. last) = limit
      BY <1>1, <3>1, FS_Interval
    <3>3. QED
      BY <3>1, <3>2
  <2>4. Cardinality(Places(n)) <= limit /\ Cardinality(Places(n)) \in Nat
    BY <2>2, <2>3, FS_Subset, FS_CardinalityType
  <2>5. QED
    BY <1>1, <2>4
<1>6. \A first \in {<<>>, <<-1>>, <<0>>} : PlacesOf(first) = Places(1)
  <2>1. \A first \in {<<>>, <<-1>>, <<0>>} : PageOf(first) = PageOf(<<1>>)
    BY DEF PageOf
  <2>2. QED
    BY <2>1 DEF PlacesOf
<1> HIDE DEF Places, pages
<1>7. QED
  BY <1>3, <1>4, <1>5, <1>6 DEF Places, pages

\* An order takes places to rows, one to one, and rows have the keys of their places.
LEMMA RowsOfListing == PagingTypeOK => PagesPartition
<1> SUFFICES ASSUME PagingTypeOK PROVE PagesPartition
  OBVIOUS
<1> DEFINE limit == PerPageOf(perPage)
           pages == {n \in 1 .. PageLimit - 1 : (n - 1) * limit < PageLimit}
           Places(n) == PlacesOf(<<n>>)
           Page(order, n) == RowsOf(order, <<n>>)
           Alone(i) == \A j \in 1 .. rows : key[j] = key[i] => j = i
<1>1. limit \in 1 .. MaxPerPage
  BY LimitOfPage
<1>2. /\ \A i \in 1 .. rows : \E n \in pages : i \in Places(n)
      /\ \A m, n \in pages : m < n => \A i \in Places(m), j \in Places(n) : i < j
      /\ \A n \in pages : Cardinality(Places(n)) <= MaxPerPage
      /\ \A first \in {<<>>, <<-1>>, <<0>>} : PlacesOf(first) = Places(1)
  BY <1>1, PlacesOfListing
<1>3. \A order : \A first \in {<<>>, <<-1>>, <<0>>} : RowsOf(order, first) = Page(order, 1)
  BY <1>2 DEF RowsOf
<1>4. \A n : Places(n) \subseteq 1 .. rows
  BY DEF PlacesOf
<1>5. \A order, n : Page(order, n) = {order[p] : p \in Places(n)}
  BY DEF RowsOf
<1>6. /\ rows \in Nat
      /\ key \in [1 .. rows -> Int]
      /\ \A i, j \in 1 .. rows : i < j => key[i] <= key[j]
  <2>1. /\ key \in [1 .. rows -> Keys]
        /\ \A i, j \in 1 .. rows : i < j => key[i] <= key[j]
    BY DEF PagingTypeOK, Listings
  <2>2. rows \in Nat /\ Keys \subseteq Int
    BY PagingAssumption DEF PagingTypeOK
  <2>3. QED
    BY <2>1, <2>2
<1> HIDE DEF limit, pages, Places, Page
<1>7. ASSUME NEW order \in Orders
      PROVE  /\ order \in [1 .. rows -> 1 .. rows]
             /\ \A i \in 1 .. rows : \E n \in 1 .. rows : order[n] = i
             /\ \A m, n \in 1 .. rows : order[m] = order[n] => m = n
             /\ \A n \in 1 .. rows : key[order[n]] = key[n]
  BY DEF Orders
<1>8. ASSUME NEW order \in Orders
      PROVE  /\ UNION {Page(order, n) : n \in pages} = 1 .. rows
             /\ \A m, n \in pages : m < n => Page(order, m) \intersect Page(order, n) = {}
             /\ \A n \in pages : Cardinality(Page(order, n)) <= MaxPerPage
             /\ \A first \in {<<>>, <<-1>>, <<0>>} : RowsOf(order, first) = Page(order, 1)
  <2>1. ASSUME NEW n \in pages PROVE Page(order, n) \subseteq 1 .. rows
    <3>1. \A p \in Places(n) : order[p] \in 1 .. rows
      <4>1. ASSUME NEW p \in Places(n) PROVE order[p] \in 1 .. rows
        <5>1. p \in 1 .. rows
          BY <1>4
        <5>2. order \in [1 .. rows -> 1 .. rows]
          BY <1>7
        <5>3. QED
          BY <5>1, <5>2
      <4>2. QED
        BY <4>1
    <3>2. Page(order, n) = {order[p] : p \in Places(n)}
      BY <1>5
    <3>3. QED
      BY <3>1, <3>2
  <2>2. ASSUME NEW i \in 1 .. rows PROVE \E n \in pages : i \in Page(order, n)
    <3>1. PICK m \in 1 .. rows : order[m] = i
      BY <1>7
    <3>2. PICK n \in pages : m \in Places(n)
      BY <1>2
    <3>3. QED
      BY <3>1, <3>2, <1>5
  <2>3. ASSUME NEW m \in pages, NEW n \in pages, m < n, NEW i \in Page(order, m)
        PROVE  i \notin Page(order, n)
    <3>1. SUFFICES ASSUME i \in Page(order, n) PROVE FALSE
      OBVIOUS
    <3>2. PICK p \in Places(m) : order[p] = i
      BY <1>5
    <3>3. PICK q \in Places(n) : order[q] = i
      BY <3>1, <1>5
    <3>4. p = q
      <4>1. p \in 1 .. rows /\ q \in 1 .. rows
        BY <1>4
      <4>2. QED
        BY <3>2, <3>3, <4>1, <1>7
    <3>5. p < q
      BY <2>3, <1>2
    <3>6. QED
      BY <3>4, <3>5, <1>4, <1>6
  <2>4. ASSUME NEW n \in pages PROVE Cardinality(Page(order, n)) <= MaxPerPage
    <3> DEFINE f == [p \in Places(n) |-> order[p]]
    <3>1. f \in Surjection(Places(n), Page(order, n))
      BY <1>5 DEF Surjection
    <3>2. IsFiniteSet(Places(n))
      BY <1>4, <1>6, FS_Interval, FS_Subset
    <3> HIDE DEF f
    <3>3. IsFiniteSet(Page(order, n)) /\ Cardinality(Page(order, n)) <= Cardinality(Places(n))
      BY <3>1, <3>2, FS_Surjection
    <3>4. /\ Cardinality(Places(n)) \in Nat /\ Cardinality(Page(order, n)) \in Nat
          /\ Cardinality(Places(n)) <= MaxPerPage
      BY <3>2, <3>3, <1>2, FS_CardinalityType
    <3>5. QED
      BY <3>3, <3>4, PagingAssumption
  <2>5. \A first \in {<<>>, <<-1>>, <<0>>} : RowsOf(order, first) = Page(order, 1)
    BY <1>3
  <2>6. UNION {Page(order, n) : n \in pages} = 1 .. rows
    BY <2>1, <2>2
  <2>7. \A m, n \in pages : m < n => Page(order, m) \intersect Page(order, n) = {}
    BY <2>3
  <2>8. QED
    BY <2>4, <2>5, <2>6, <2>7
<1>9. ASSUME NEW one \in Orders, NEW other \in Orders, NEW m \in pages, NEW n \in pages
      PROVE  /\ m < n => \A i \in Page(one, m), j \in Page(other, n) : key[i] <= key[j]
             /\ \A i \in Page(one, m) : Alone(i) => (i \in Page(other, n) <=> m = n)
  <2>1. ASSUME NEW order \in Orders, NEW page \in pages, NEW i \in Page(order, page)
        PROVE  \E p \in Places(page) : p \in 1 .. rows /\ order[p] = i /\ key[p] = key[i]
    <3>1. PICK p \in Places(page) : order[p] = i
      BY <2>1, <1>5
    <3>2. p \in 1 .. rows
      BY <1>4
    <3>3. key[p] = key[i]
      BY <3>1, <3>2, <1>7
    <3>4. QED
      BY <3>1, <3>2, <3>3
  <2>2. ASSUME NEW i \in Page(one, m), NEW j \in Page(other, n), m < n
        PROVE  key[i] <= key[j]
    <3>1. PICK p \in Places(m) : p \in 1 .. rows /\ key[p] = key[i]
      BY <2>1
    <3>2. PICK q \in Places(n) : q \in 1 .. rows /\ key[q] = key[j]
      BY <2>1
    <3>3. p < q
      BY <2>2, <1>2
    <3>4. QED
      BY <3>1, <3>2, <3>3, <1>6
  <2>3. ASSUME NEW i \in Page(one, m), Alone(i)
        PROVE  /\ i \in Places(m) /\ other[i] = i
               /\ i \in 1 .. rows
    <3>1. PICK p \in Places(m) : p \in 1 .. rows /\ one[p] = i /\ key[p] = key[i]
      BY <2>1
    <3>2. p = i
      BY <3>1, <2>3
    <3>3. other[i] \in 1 .. rows /\ key[other[i]] = key[i]
      BY <3>1, <3>2, <1>7
    <3>4. other[i] = i
      BY <3>3, <2>3
    <3>5. QED
      BY <3>1, <3>2, <3>4
  <2>4. ASSUME NEW i \in Page(one, m), Alone(i), i \in Page(other, n) PROVE m = n
    <3>1. i \in Places(m) /\ other[i] = i /\ i \in 1 .. rows
      BY <2>3, <2>4
    <3>2. PICK q \in Places(n) : q \in 1 .. rows /\ other[q] = i
      BY <2>1, <2>4
    <3>3. q = i
      BY <3>1, <3>2, <1>7
    <3>4. m \in Int /\ n \in Int
      BY DEF pages
    <3>5. i \in Places(m) /\ i \in Places(n) /\ i \in Int
      BY <3>1, <3>2, <3>3
    <3>6. ~ (m < n) /\ ~ (n < m)
      BY <3>5, <1>2
    <3>7. QED
      BY <3>4, <3>6
  <2>5. ASSUME NEW i \in Page(one, m), Alone(i), m = n PROVE i \in Page(other, n)
    BY <2>3, <2>5, <1>5
  <2> HIDE DEF Alone
  <2>6. QED
    BY <2>2, <2>4, <2>5
<1> HIDE DEF Alone
<1>10. /\ \A order \in Orders :
            /\ UNION {Page(order, n) : n \in pages} = 1 .. rows
            /\ \A m, n \in pages : m < n => Page(order, m) \intersect Page(order, n) = {}
            /\ \A n \in pages : Cardinality(Page(order, n)) <= MaxPerPage
            /\ \A first \in {<<>>, <<-1>>, <<0>>} : RowsOf(order, first) = Page(order, 1)
      /\ \A one, other \in Orders, m, n \in pages :
            /\ m < n => \A i \in Page(one, m), j \in Page(other, n) : key[i] <= key[j]
            /\ \A i \in Page(one, m) : Alone(i) => (i \in Page(other, n) <=> m = n)
  BY <1>8, <1>9
<1>11. QED
  BY <1>10 DEF PagesPartition, Page, Alone, pages, limit

\* The pages of a listing are a partition of its rows for every order they find, in
\* the order of the keys (PagesPartition), whatever per_page is sent, for every length
\* of the listing, all keys and every width of an offset.
THEOREM PagesPartitionListings == PagingSpec => []PagesPartition
<1>1. PagingInit => PagingTypeOK
  BY PagingAssumption DEF PagingInit, PagingTypeOK, Listings
<1>2. PagingTypeOK /\ [PagingNext]_pagingVars => PagingTypeOK'
  BY PagingAssumption DEF PagingTypeOK, PagingNext, pagingVars
<1>3. QED
  BY <1>1, <1>2, RowsOfListing, PTL DEF PagingSpec

-----------------------------------------------------------------------------
(* Induction over numbers and finite sets, and what it says of a recursion. *)
\* A set that holds 0 and, with each number, the next one, holds every number up
\* to n: how the proofs about a loop over n elements go.
LEMMA CountingUp ==
    ASSUME NEW n \in Nat, NEW T, 0 \in T, \A i \in 1 .. n : i - 1 \in T => i \in T
    PROVE  \A i \in 0 .. n : i \in T
<1> DEFINE out == {i \in 0 .. n : i \notin T}
           less == OpToRel(<, Nat)
<1>1. SUFFICES ASSUME out # {} PROVE FALSE
  OBVIOUS
<1>2. out \subseteq Nat
  OBVIOUS
<1>3. PICK i \in out : \A j \in out : ~ (<<j, i>> \in less)
  <2>1. IsWellFoundedOn(less, Nat)
    BY NatLessThanWellFounded
  <2> HIDE DEF out, less
  <2>2. QED
    BY <1>1, <1>2, <2>1, WFMin
<1> HIDE DEF less
<1>4. i # 0 /\ i - 1 \in out
  BY <1>3
<1>5. <<i - 1, i>> \in less
  BY <1>4, <1>2 DEF less, OpToRel
<1>6. QED
  BY <1>3, <1>4, <1>5

\* A set that holds a subset of S as soon as it holds all smaller ones holds every
\* subset of S: how the proofs about a sum over a finite set go.
LEMMA Shrinking ==
    ASSUME NEW S, IsFiniteSet(S), NEW T,
           \A s \in SUBSET S : (\A r \in SUBSET S : r # s /\ r \subseteq s => r \in T) => s \in T
    PROVE  \A s \in SUBSET S : s \in T
<1> DEFINE out == {s \in SUBSET S : s \notin T}
<1>1. SUFFICES ASSUME out # {} PROVE FALSE
  OBVIOUS
<1>2. out \subseteq FiniteSubsetsOf(S)
  BY FS_FiniteSubsetsOfFinite
<1>3. PICK s \in out : \A r \in out : ~ (<<r, s>> \in StrictSubsetOrdering(S))
  <2> HIDE DEF out
  <2>1. QED
    BY <1>1, <1>2, WFMin, FS_StrictSubsetOrderingWellFounded
<1>4. PICK r \in out : r # s /\ r \subseteq s
  BY <1>3
<1>5. <<r, s>> \in StrictSubsetOrdering(S)
  BY <1>4 DEF StrictSubsetOrdering
<1>6. QED
  BY <1>3, <1>4, <1>5

\* it gives each subset of D what folding step over it yields, when choice says
\* which element is folded in last: the recursion of MapThenFoldSet.
Unrolls(it, D, base, choice, step) ==
    it = [s \in SUBSET D |->
             IF s = {} THEN base ELSE step[<<choice[s], it[s \ {choice[s]}]>>]]

\* Such a recursion has a solution.  The loops and sums of Pricing are defined as
\* the function that satisfies one, so nothing is known of them before.
LEMMA Recursion ==
    ASSUME NEW D, IsFiniteSet(D), NEW A, NEW base \in A,
           NEW choice, \A s \in SUBSET D : s # {} => choice[s] \in s,
           NEW step \in [D \X A -> A]
    PROVE  \E it \in [SUBSET D -> A] : Unrolls(it, D, base, choice, step)
<1> DEFINE Onward(it) == [s \in SUBSET D |->
                          IF s = {} THEN base ELSE step[<<choice[s], it[s \ {choice[s]}]>>]]
           UpTo(k) == {s \in SUBSET D : Cardinality(s) <= k}
           T == {k \in 0 .. Cardinality(D) :
                    \E it \in [SUBSET D -> A] : \A s \in UpTo(k) : it[s] = Onward(it)[s]}
<1>1. Cardinality(D) \in Nat
  BY FS_CardinalityType
<1>2. ASSUME NEW it \in [SUBSET D -> A]
      PROVE  Onward(it) \in [SUBSET D -> A]
  <2>1. ASSUME NEW s \in SUBSET D, s # {}
        PROVE  step[<<choice[s], it[s \ {choice[s]}]>>] \in A
    BY <2>1
  <2>2. QED
    BY <2>1
<1>3. 0 \in T
  <2> DEFINE it == [s \in SUBSET D |-> base]
  <2>1. it \in [SUBSET D -> A]
    OBVIOUS
  <2>2. ASSUME NEW s \in UpTo(0)
        PROVE  it[s] = Onward(it)[s]
    <3>1. IsFiniteSet(s) /\ Cardinality(s) \in Nat /\ Cardinality(s) <= 0
      BY FS_Subset, FS_CardinalityType
    <3>2. s = {}
      BY <3>1, FS_EmptySet
    <3>3. QED
      BY <3>2
  <2>3. \A s \in UpTo(0) : it[s] = Onward(it)[s]
    BY <2>2
  <2> HIDE DEF it, UpTo, Onward
  <2>4. QED
    BY <2>1, <2>3, <1>1
<1>4. ASSUME NEW k \in 1 .. Cardinality(D), k - 1 \in T
      PROVE  k \in T
  <2>1. PICK it \in [SUBSET D -> A] : \A s \in UpTo(k - 1) : it[s] = Onward(it)[s]
    BY <1>4
  <2>2. ASSUME NEW s \in UpTo(k)
        PROVE  Onward(it)[s] = Onward(Onward(it))[s]
    <3>1. CASE s = {}
      BY <3>1
    <3>2. CASE s # {}
      <4>1. choice[s] \in s /\ s \ {choice[s]} \in SUBSET D
        BY <3>2
      <4>2. IsFiniteSet(s) /\ Cardinality(s) \in Nat /\ Cardinality(s) <= k
        BY FS_Subset, FS_CardinalityType
      <4>3. Cardinality(s \ {choice[s]}) = Cardinality(s) - 1
        BY <4>1, <4>2, FS_RemoveElement
      <4>4. s \ {choice[s]} \in UpTo(k - 1)
        BY <4>1, <4>2, <4>3, <1>1
      <4>5. it[s \ {choice[s]}] = Onward(it)[s \ {choice[s]}]
        BY <4>4, <2>1
      <4> HIDE DEF UpTo, T
      <4>6. QED
        BY <3>2, <4>5, <2>2 DEF UpTo
    <3>3. QED
      BY <3>1, <3>2
  <2>3. \A s \in UpTo(k) : Onward(it)[s] = Onward(Onward(it))[s]
    BY <2>2
  <2>4. Onward(it) \in [SUBSET D -> A]
    BY <1>2
  <2> HIDE DEF UpTo, Onward
  <2>5. QED
    BY <2>3, <2>4, <1>1
<1> HIDE DEF T
<1>5. Cardinality(D) \in T
  BY <1>1, <1>3, <1>4, CountingUp
<1>6. PICK it \in [SUBSET D -> A] : \A s \in UpTo(Cardinality(D)) : it[s] = Onward(it)[s]
  BY <1>5 DEF T
<1>7. UpTo(Cardinality(D)) = SUBSET D
  BY FS_Subset
<1>8. it = Onward(it)
  BY <1>6, <1>7, <1>2
<1>9. QED
  BY <1>8 DEF Unrolls

-----------------------------------------------------------------------------
(* The sums of the community modules.                                      *)
\* it is the function by which SumFunctionOnSet computes the sum of f over a subset
\* of D.
SumRule(f, D, it) ==
    it = [s \in SUBSET D |-> IF s = {} THEN 0
                             ELSE f[CHOOSE x \in s : TRUE] + it[s \ {CHOOSE x \in s : TRUE}]]

\* There is such a function, of integers, so a sum of units or prices is defined.
LEMMA SumRuleHasOne ==
    ASSUME NEW f, NEW D, IsFiniteSet(D), \A x \in D : f[x] \in Int
    PROVE  \E it \in [SUBSET D -> Int] : SumRule(f, D, it)
<1> DEFINE choice == [s \in SUBSET D |-> CHOOSE x \in s : TRUE]
           step == [xa \in D \X Int |-> f[xa[1]] + xa[2]]
<1>1. \A s \in SUBSET D : s # {} => choice[s] \in s
  OBVIOUS
<1>2. step \in [D \X Int -> Int]
  OBVIOUS
<1>3. PICK it \in [SUBSET D -> Int] : Unrolls(it, D, 0, choice, step)
  <2> HIDE DEF choice, step
  <2>1. 0 \in Int
    OBVIOUS
  <2>2. QED
    BY <1>1, <1>2, <2>1, Recursion
<1>4. ASSUME NEW s \in SUBSET D, s # {}
      PROVE  step[<<choice[s], it[s \ {choice[s]}]>>] = f[choice[s]] + it[s \ {choice[s]}]
  <2>1. choice[s] \in D /\ s \ {choice[s]} \in SUBSET D
    BY <1>4, <1>1
  <2>2. it[s \ {choice[s]}] \in Int
    BY <2>1
  <2> HIDE DEF choice
  <2>3. QED
    BY <2>1, <2>2
<1> HIDE DEF step
<1>5. it = [s \in SUBSET D |-> IF s = {} THEN 0 ELSE f[choice[s]] + it[s \ {choice[s]}]]
  <2> HIDE DEF choice
  <2>1. QED
    BY <1>3, <1>4 DEF Unrolls
<1>6. QED
  BY <1>5 DEF SumRule

\* There is only one, on whichever sets it is defined, so the sum of some units can
\* be compared with the sum of more.
LEMMA SumRuleHasNoOther ==
    ASSUME NEW f, NEW h, NEW D, IsFiniteSet(D), NEW it, SumRule(f, D, it),
           NEW E \in SUBSET D, NEW other, SumRule(h, E, other),
           \A x \in E : f[x] = h[x]
    PROVE  \A s \in SUBSET E : other[s] = it[s]
<1> DEFINE T == {s \in SUBSET E : other[s] = it[s]}
<1>1. IsFiniteSet(E)
  BY FS_Subset
<1>2. ASSUME NEW s \in SUBSET E,
             \A r \in SUBSET E : r # s /\ r \subseteq s => r \in T
      PROVE  s \in T
  <2>1. CASE s = {}
    BY <2>1 DEF SumRule
  <2>2. CASE s # {}
    <3>1. PICK x \in s : x = CHOOSE y \in s : TRUE
      BY <2>2
    <3>2. s \ {x} \in T
      BY <1>2, <3>1
    <3>3. s \in SUBSET D
      OBVIOUS
    <3> HIDE DEF T
    <3>4. it[s] = f[x] + it[s \ {x}]
      BY <2>2, <3>1, <3>3 DEF SumRule
    <3>5. other[s] = h[x] + other[s \ {x}]
      BY <2>2, <3>1 DEF SumRule
    <3>6. QED
      BY <3>2, <3>4, <3>5 DEF T
  <2>3. QED
    BY <2>1, <2>2
<1> HIDE DEF T
<1>3. \A s \in SUBSET E : s \in T
  BY <1>1, <1>2, Shrinking
<1>4. QED
  BY <1>3 DEF T

\* The sums of f over all subsets of D satisfy one rule.
LEMMA SumObeysRule ==
    ASSUME NEW f, NEW D, IsFiniteSet(D), \A x \in D : f[x] \in Int
    PROVE  \E it \in [SUBSET D -> Int] :
              SumRule(f, D, it) /\ \A s \in SUBSET D : SumFunctionOnSet(f, s) = it[s]
<1>1. PICK it \in [SUBSET D -> Int] : SumRule(f, D, it)
  BY SumRuleHasOne
<1>2. ASSUME NEW s \in SUBSET D
      PROVE  SumFunctionOnSet(f, s) = it[s]
  <2> DEFINE own == CHOOSE i : SumRule(f, s, i)
  <2>1. IsFiniteSet(s)
    BY FS_Subset
  <2>2. SumRule(f, s, own)
    BY <2>1, SumRuleHasOne
  <2>3. SumFunctionOnSet(f, s) = own[s]
    BY DEF SumFunctionOnSet, FoldFunctionOnSet, MapThenFoldSet, SumRule
  <2> HIDE DEF own
  <2>4. QED
    BY <1>1, <2>2, <2>3, SumRuleHasNoOther
<1>3. QED
  BY <1>1, <1>2

\* No units sum up to 0.
LEMMA SumOverNothing ==
    ASSUME NEW f
    PROVE  SumFunctionOnSet(f, {}) = 0
<1>1. IsFiniteSet({}) /\ \A x \in {} : f[x] \in Int
  BY FS_EmptySet
<1>2. PICK it \in [SUBSET {} -> Int] :
        SumRule(f, {}, it) /\ \A s \in SUBSET {} : SumFunctionOnSet(f, s) = it[s]
  BY <1>1, SumObeysRule, Zenon
<1>3. QED
  BY <1>2 DEF SumRule

\* A sum of integers, as units and prices are, is an integer.
LEMMA SumIsAnInt ==
    ASSUME NEW f, NEW D, IsFiniteSet(D), \A x \in D : f[x] \in Int
    PROVE  SumFunctionOnSet(f, D) \in Int
<1>1. PICK it \in [SUBSET D -> Int] :
        SumRule(f, D, it) /\ \A s \in SUBSET D : SumFunctionOnSet(f, s) = it[s]
  BY SumObeysRule
<1>2. QED
  BY <1>1

\* The order of a sum does not matter: any element may be added last, so the order
\* of options and groups in the request adds the same.
LEMMA SumWithoutOne ==
    ASSUME NEW f, NEW D, IsFiniteSet(D), \A x \in D : f[x] \in Int, NEW x \in D
    PROVE  SumFunctionOnSet(f, D) = f[x] + SumFunctionOnSet(f, D \ {x})
<1>1. PICK it \in [SUBSET D -> Int] :
        SumRule(f, D, it) /\ \A s \in SUBSET D : SumFunctionOnSet(f, s) = it[s]
  BY SumObeysRule
<1> DEFINE T == {s \in SUBSET D : \A y \in s : it[s] = f[y] + it[s \ {y}]}
<1>2. ASSUME NEW s \in SUBSET D,
             \A r \in SUBSET D : r # s /\ r \subseteq s => r \in T
      PROVE  s \in T
  <2>1. SUFFICES ASSUME NEW y \in s
                 PROVE  it[s] = f[y] + it[s \ {y}]
    OBVIOUS
  <2>2. PICK z \in s : z = CHOOSE w \in s : TRUE
    OBVIOUS
  <2>3. it[s] = f[z] + it[s \ {z}]
    BY <1>1, <2>2 DEF SumRule
  <2>4. CASE y = z
    BY <2>3, <2>4
  <2>5. CASE y # z
    <3>1. s \ {z} \in T /\ y \in s \ {z}
      BY <1>2, <2>5
    <3>2. s \ {y} \in T /\ z \in s \ {y}
      BY <1>2, <2>5
    <3>3. it[s \ {z}] = f[y] + it[(s \ {z}) \ {y}]
      BY <3>1
    <3>4. it[s \ {y}] = f[z] + it[(s \ {y}) \ {z}]
      BY <3>2
    <3>5. PICK rest : rest = it[(s \ {y}) \ {z}]
      OBVIOUS
    <3>6. (s \ {z}) \ {y} = (s \ {y}) \ {z}
      OBVIOUS
    <3>7. f[y] \in Int /\ f[z] \in Int /\ rest \in Int
      BY <3>5
    <3>8. it[s] = f[z] + (f[y] + rest) /\ it[s \ {y}] = f[z] + rest
      BY <2>3, <3>3, <3>4, <3>5, <3>6
    <3>9. QED
      BY <3>7, <3>8
  <2>6. QED
    BY <2>4, <2>5
<1> HIDE DEF T
<1>3. \A s \in SUBSET D : s \in T
  BY <1>2, Shrinking
<1>4. D \in T /\ D \ {x} \in SUBSET D
  BY <1>3
<1>5. QED
  BY <1>1, <1>4 DEF T

\* SumWithoutOne with a name for the rest, as the loop over groups needs it.
LEMMA SumAndRest ==
    ASSUME NEW f, NEW D, IsFiniteSet(D), \A y \in D : f[y] \in Int, NEW x \in D,
           NEW rest, rest = D \ {x}
    PROVE  /\ SumFunctionOnSet(f, D) = f[x] + SumFunctionOnSet(f, rest)
           /\ SumFunctionOnSet(f, rest) \in Int
           /\ f[x] \in Int
<1>1. IsFiniteSet(rest) /\ \A y \in rest : f[y] \in Int
  BY FS_RemoveElement
<1>2. QED
  BY <1>1, SumWithoutOne, SumIsAnInt

\* The sum over the first k options of submitted group i, as the loop over them
\* goes from k - 1 to k.
LEMMA SumOfRow ==
    ASSUME NEW f, NEW i, NEW k \in Nat \ {0}, \A j \in 1 .. k : f[<<i, j>>] \in Int
    PROVE  /\ SumFunctionOnSet(f, {i} \X (1 .. k))
                 = f[<<i, k>>] + SumFunctionOnSet(f, {i} \X (1 .. k - 1))
           /\ SumFunctionOnSet(f, {i} \X (1 .. k - 1)) \in Int
<1> DEFINE all == {i} \X (1 .. k)
           but == {i} \X (1 .. k - 1)
<1>1. IsFiniteSet(all)
  <2>1. IsFiniteSet(1 .. k)
    BY FS_Interval
  <2>2. IsFiniteSet({i})
    BY FS_Singleton
  <2>3. QED
    BY <2>1, <2>2, FS_Product
<1>2. \A p \in all : f[p] \in Int
  OBVIOUS
<1>3. <<i, k>> \in all /\ but = all \ {<<i, k>>}
  OBVIOUS
<1> HIDE DEF all, but
<1>4. SumFunctionOnSet(f, all) = f[<<i, k>>] + SumFunctionOnSet(f, but)
      /\ SumFunctionOnSet(f, but) \in Int
  BY <1>1, <1>2, <1>3, SumAndRest
<1>5. QED
  BY <1>4 DEF all, but

\* A common factor, as the price of an option is of its units, goes before the sum.
LEMMA SumOfMultiples ==
    ASSUME NEW f, NEW D, IsFiniteSet(D), NEW factor \in Int, NEW h,
           \A x \in D : f[x] \in Int /\ h[x] = factor * f[x]
    PROVE  SumFunctionOnSet(h, D) = factor * SumFunctionOnSet(f, D)
<1> DEFINE T == {s \in SUBSET D : SumFunctionOnSet(h, s) = factor * SumFunctionOnSet(f, s)}
<1>1. ASSUME NEW s \in SUBSET D,
             \A r \in SUBSET D : r # s /\ r \subseteq s => r \in T
      PROVE  s \in T
  <2>1. CASE s = {}
    BY <2>1, SumOverNothing
  <2>2. CASE s # {}
    <3>1. PICK x \in s : TRUE
      BY <2>2
    <3>2. IsFiniteSet(s) /\ IsFiniteSet(s \ {x})
      BY FS_Subset
    <3>3. f[x] \in Int /\ h[x] = factor * f[x] /\ h[x] \in Int
      OBVIOUS
    <3>4. \A y \in s : f[y] \in Int /\ h[y] \in Int
      OBVIOUS
    <3>5. SumFunctionOnSet(f, s) = f[x] + SumFunctionOnSet(f, s \ {x})
      BY <3>2, <3>4, SumWithoutOne
    <3>6. SumFunctionOnSet(h, s) = h[x] + SumFunctionOnSet(h, s \ {x})
      BY <3>2, <3>4, SumWithoutOne
    <3>7. SumFunctionOnSet(f, s \ {x}) \in Int
      BY <3>2, <3>4, SumIsAnInt
    <3>8. SumFunctionOnSet(h, s \ {x}) = factor * SumFunctionOnSet(f, s \ {x})
      BY <1>1
    <3>9. factor * (f[x] + SumFunctionOnSet(f, s \ {x}))
             = factor * f[x] + factor * SumFunctionOnSet(f, s \ {x})
      BY <3>3, <3>7
    <3>10. QED
      BY <3>3, <3>5, <3>6, <3>8, <3>9
  <2>3. QED
    BY <2>1, <2>2
<1> HIDE DEF T
<1>2. \A s \in SUBSET D : s \in T
  BY <1>1, Shrinking
<1>3. QED
  BY <1>2 DEF T

\* Options nobody asks for add nothing.
LEMMA SumOfZeroes ==
    ASSUME NEW f, NEW D, IsFiniteSet(D), \A x \in D : f[x] = 0
    PROVE  SumFunctionOnSet(f, D) = 0
<1>1. \A x \in D : f[x] \in Int /\ f[x] = 0 * f[x]
  OBVIOUS
<1>2. SumFunctionOnSet(f, D) = 0 * SumFunctionOnSet(f, D)
  BY <1>1, SumOfMultiples
<1>3. SumFunctionOnSet(f, D) \in Int
  BY <1>1, SumIsAnInt
<1>4. QED
  BY <1>2, <1>3

\* The sum over two disjoint sets of picks is the sum over each.
LEMMA SumOverUnion ==
    ASSUME NEW f, NEW D, IsFiniteSet(D), NEW E, IsFiniteSet(E), D \cap E = {},
           \A x \in D \union E : f[x] \in Int
    PROVE  SumFunctionOnSet(f, D \union E) = SumFunctionOnSet(f, D) + SumFunctionOnSet(f, E)
<1> DEFINE T == {s \in SUBSET D : SumFunctionOnSet(f, s \union E)
                                     = SumFunctionOnSet(f, s) + SumFunctionOnSet(f, E)}
<1>1. SumFunctionOnSet(f, E) \in Int
  BY SumIsAnInt
<1>2. ASSUME NEW s \in SUBSET D,
             \A r \in SUBSET D : r # s /\ r \subseteq s => r \in T
      PROVE  s \in T
  <2>1. CASE s = {}
    <3>1. s \union E = E
      BY <2>1
    <3>2. QED
      BY <1>1, <2>1, <3>1, SumOverNothing
  <2>2. CASE s # {}
    <3>1. PICK x \in s : TRUE
      BY <2>2
    <3>2. IsFiniteSet(s) /\ IsFiniteSet(s \ {x}) /\ IsFiniteSet(s \union E)
      BY FS_Subset, FS_Union
    <3>3. SumFunctionOnSet(f, s) = f[x] + SumFunctionOnSet(f, s \ {x})
      BY <3>2, SumWithoutOne
    <3>4. SumFunctionOnSet(f, s \union E) = f[x] + SumFunctionOnSet(f, (s \union E) \ {x})
      BY <3>2, SumWithoutOne
    <3>5. (s \union E) \ {x} = (s \ {x}) \union E
      OBVIOUS
    <3>6. SumFunctionOnSet(f, (s \ {x}) \union E)
             = SumFunctionOnSet(f, s \ {x}) + SumFunctionOnSet(f, E)
      BY <1>2
    <3>7. SumFunctionOnSet(f, s \ {x}) \in Int /\ f[x] \in Int
      BY <3>2, SumIsAnInt
    <3> HIDE DEF T
    <3>8. SumFunctionOnSet(f, s \union E)
             = f[x] + (SumFunctionOnSet(f, s \ {x}) + SumFunctionOnSet(f, E))
      BY <3>4, <3>5, <3>6
    <3>9. SumFunctionOnSet(f, s \union E)
             = SumFunctionOnSet(f, s) + SumFunctionOnSet(f, E)
      BY <1>1, <3>3, <3>7, <3>8
    <3>10. QED
      BY <3>9 DEF T
  <2>3. QED
    BY <2>1, <2>2
<1> HIDE DEF T
<1>3. \A s \in SUBSET D : s \in T
  BY <1>2, Shrinking
<1>4. QED
  BY <1>3 DEF T

\* The union of the parts that belong to the keys K.
Parts(part, K) == UNION {part[k] : k \in K}

\* The sum over disjoint parts, part by part: all the units asked for of a group
\* are those of each of its options.
LEMMA SumOverParts ==
    ASSUME NEW f, NEW D, IsFiniteSet(D), \A x \in D : f[x] \in Int,
           NEW K, IsFiniteSet(K), NEW part, \A k \in K : part[k] \subseteq D,
           \A k, l \in K : k # l => part[k] \cap part[l] = {},
           NEW sum, \A k \in K : sum[k] = SumFunctionOnSet(f, part[k])
    PROVE  SumFunctionOnSet(sum, K) = SumFunctionOnSet(f, Parts(part, K))
<1> DEFINE Whole(s) == UNION {part[k] : k \in s}
           T == {s \in SUBSET K : SumFunctionOnSet(sum, s) = SumFunctionOnSet(f, Whole(s))}
<1>1. ASSUME NEW s \in SUBSET K
      PROVE  IsFiniteSet(s) /\ IsFiniteSet(Whole(s)) /\ \A x \in Whole(s) : f[x] \in Int
  BY FS_Subset
<1>2. \A k \in K : IsFiniteSet(part[k]) /\ sum[k] \in Int
  BY FS_Subset, SumIsAnInt
<1>3. ASSUME NEW s \in SUBSET K,
             \A r \in SUBSET K : r # s /\ r \subseteq s => r \in T
      PROVE  s \in T
  <2>1. CASE s = {}
    <3>1. Whole(s) = {}
      BY <2>1
    <3>2. QED
      BY <2>1, <3>1, SumOverNothing
  <2>2. CASE s # {}
    <3>1. PICK k \in s : TRUE
      BY <2>2
    <3>2. SumFunctionOnSet(sum, s) = sum[k] + SumFunctionOnSet(sum, s \ {k})
      <4>1. IsFiniteSet(s) /\ \A l \in s : sum[l] \in Int
        BY <1>1, <1>2
      <4> HIDE DEF Whole, T
      <4>2. QED
        BY <4>1, SumWithoutOne
    <3>3. SumFunctionOnSet(sum, s \ {k}) = SumFunctionOnSet(f, Whole(s \ {k}))
      BY <1>3
    <3>4. Whole(s) = part[k] \union Whole(s \ {k})
      OBVIOUS
    <3>5. part[k] \cap Whole(s \ {k}) = {}
      OBVIOUS
    <3>6. IsFiniteSet(Whole(s \ {k})) /\ \A x \in Whole(s \ {k}) : f[x] \in Int
      BY <1>1
    <3>7. IsFiniteSet(part[k]) /\ \A x \in part[k] : f[x] \in Int
      BY <1>2
    <3>8. \A x \in part[k] \union Whole(s \ {k}) : f[x] \in Int
      BY <3>6, <3>7
    <3> HIDE DEF Whole
    <3>9. SumFunctionOnSet(f, Whole(s))
             = SumFunctionOnSet(f, part[k]) + SumFunctionOnSet(f, Whole(s \ {k}))
      <4>1. PICK these, rest : these = part[k] /\ rest = Whole(s \ {k})
        OBVIOUS
      <4>2. SumFunctionOnSet(f, these \union rest)
               = SumFunctionOnSet(f, these) + SumFunctionOnSet(f, rest)
        BY <3>5, <3>6, <3>7, <3>8, <4>1, SumOverUnion
      <4>3. QED
        BY <3>4, <4>1, <4>2
    <3>10. QED
      BY <3>2, <3>3, <3>9
  <2>3. QED
    BY <2>1, <2>2
<1> HIDE DEF T
<1>4. \A s \in SUBSET K : s \in T
  BY <1>3, Shrinking
<1>5. QED
  BY <1>4 DEF T, Parts

\* Of the first k elements of a loop, the last is k.
LEMMA MaxOfUpTo ==
    ASSUME NEW k \in Nat \ {0}
    PROVE  Max(1 .. k) = k /\ (1 .. k) \ {k} = 1 .. k - 1
<1>1. k \in 1 .. k /\ \A y \in 1 .. k : k >= y
  OBVIOUS
<1>2. \A x \in 1 .. k : (\A y \in 1 .. k : x >= y) => x = k
  OBVIOUS
<1>3. Max(1 .. k) = k
  BY <1>1, <1>2 DEF Max
<1>4. QED
  BY <1>3

\* The largest of some places of a sequence is one of them: the element FoldLeft
\* folds in last.
LEMMA MaxIsIn ==
    ASSUME NEW k \in Nat, NEW s \in SUBSET (1 .. k), s # {}
    PROVE  Max(s) \in s
<1> DEFINE T == {l \in 0 .. k : \A r \in SUBSET (1 .. l) :
                                   r # {} => \E x \in r : \A y \in r : x >= y}
<1>1. 0 \in T
  <2>1. 1 .. 0 = {} /\ 0 \in 0 .. k
    OBVIOUS
  <2>2. \A r \in SUBSET (1 .. 0) : r # {} => \E x \in r : \A y \in r : x >= y
    BY <2>1
  <2>3. QED
    BY <2>1, <2>2
<1>2. ASSUME NEW l \in 1 .. k, l - 1 \in T
      PROVE  l \in T
  <2>1. ASSUME NEW r \in SUBSET (1 .. l), r # {}
        PROVE  \E x \in r : \A y \in r : x >= y
    <3>1. CASE l \in r
      BY <3>1
    <3>2. CASE l \notin r
      <4>1. r \in SUBSET (1 .. l - 1)
        BY <3>2
      <4>2. QED
        BY <4>1, <2>1, <1>2
    <3>3. QED
      BY <3>1, <3>2
  <2>2. QED
    BY <2>1
<1> HIDE DEF T
<1>3. k \in T
  BY <1>1, <1>2, CountingUp
<1>4. \E x \in s : \A y \in s : x >= y
  BY <1>3 DEF T
<1>5. QED
  BY <1>4 DEF Max

-----------------------------------------------------------------------------
(* Pricing: the options of one submitted group.                            *)
\* The types of Pricing.  A stored configuration is a valid one.
PricingTypeOK ==
    /\ config \in Seq(GroupConfig)
    /\ ValidateConfig(config)
    /\ selection \in Seq(GroupSelection)
    /\ \A i \in DOMAIN selection : Len(selection[i].options) <= MaxPicks

\* What the loop over the options of a group carries along.
Taken == [ok : BOOLEAN, seen : SUBSET OptionIds, units : Int, delta : Int]

\* What a Go int keeps of a number can be added to: only the last wrap matters.
LEMMA GoIntFacts ==
    ASSUME NEW n \in Int, NEW x \in Int
    PROVE  /\ GoInt(n) \in GoInts /\ GoInt(n) \in Int
           /\ GoInt(GoInt(n) + x) = GoInt(n + x)
           /\ GoInt(GoInt(n) + GoInt(x)) = GoInt(n + x)
           /\ n \in GoInts => GoInt(n) = n
<1>1. WordLimit \in Nat \ {0}
  BY PricingAssumption
<1>2. \A y \in Int : GoInt(y) \in -WordLimit .. WordLimit - 1 /\ GoInt(y) \in Int
  BY <1>1, WrapFacts DEF GoInt
<1>3. \A y \in Int, z \in Int : GoInt(GoInt(y) + z) = GoInt(y + z)
  BY <1>1, WrapAdds DEF GoInt
<1>4. GoInt(GoInt(n) + GoInt(x)) = GoInt(n + x)
  <2>1. PICK v \in Int, w \in Int : v = GoInt(n) /\ w = GoInt(x)
    BY <1>2
  <2>2. GoInt(v + w) = GoInt(n + w)
    BY <1>3, <2>1
  <2>3. GoInt(w + n) = GoInt(x + n)
    BY <1>3, <2>1
  <2>4. n + w = w + n /\ n + x = x + n
    BY <2>1
  <2>5. QED
    BY <2>1, <2>2, <2>3, <2>4
<1>5. n \in GoInts => GoInt(n) = n
  BY <1>1, WrapKeeps DEF GoInt, GoInts
<1>6. QED
  BY <1>2, <1>3, <1>4, <1>5 DEF GoInts

\* The quantity of a pick, with the default for a missing one, is an integer.
LEMMA QuantityIsAnInt ==
    ASSUME NEW pick \in OptionSelection
    PROVE  QuantityOf(pick) \in Int
<1>1. Quantities \subseteq Int
  BY PricingAssumption DEF GoInts
<1>2. pick.quantity \in Quantities
  BY DEF OptionSelection
<1>3. pick.quantity \in Int
  BY <1>1, <1>2
<1>4. QED
  BY <1>3 DEF QuantityOf

\* The elements of a configuration or a selection.
LEMMA ElementsAreFinite ==
    ASSUME NEW A, NEW seq \in Seq(A)
    PROVE  IsFiniteSet(ToSet(seq)) /\ ToSet(seq) \subseteq A
<1>1. DOMAIN seq = 1 .. Len(seq) /\ Len(seq) \in Nat /\ \A i \in DOMAIN seq : seq[i] \in A
  OBVIOUS
<1>2. IsFiniteSet(DOMAIN seq)
  BY <1>1, FS_Interval
<1>3. seq \in Surjection(DOMAIN seq, ToSet(seq))
  BY DEF Surjection, ToSet
<1>4. IsFiniteSet(ToSet(seq))
  BY <1>2, <1>3, FS_Surjection
<1>5. QED
  BY <1>1, <1>4 DEF ToSet

\* The options of a group.
LEMMA OptionsTyped ==
    ASSUME NEW g \in GroupConfig
    PROVE  /\ IsFiniteSet(ToSet(g.options)) /\ ToSet(g.options) \subseteq OptionConfig
           /\ \A o \in ToSet(g.options) : o.delta \in Int /\ o.limit \in Int
<1>1. g.options \in Seq(OptionConfig)
  BY DEF GroupConfig
<1>2. \A o \in OptionConfig : o.delta \in Int /\ o.limit \in Int
  BY PricingAssumption DEF OptionConfig, GoInts
<1>3. QED
  BY <1>1, <1>2, ElementsAreFinite

\* An iteration of the loop over options keeps its types.
LEMMA TakeOptionTyped ==
    ASSUME NEW g \in GroupConfig, NEW n \in Int, NEW acc \in Taken, NEW pick \in OptionSelection
    PROVE  TakeOption(g, n, acc, pick) \in Taken
<1> DEFINE offers == {o \in ToSet(g.options) : o.active /\ o.id = pick.option}
           option == CHOOSE o \in offers : TRUE
<1>2. \A o \in ToSet(g.options) : o.delta \in Int
  BY OptionsTyped
<1>3. offers # {} => option.delta \in Int
  BY <1>2
<1>4. QuantityOf(pick) \in Int /\ pick.option \in OptionIds
  BY QuantityIsAnInt DEF OptionSelection
<1>5. offers # {} => DeltaOf(option, QuantityOf(pick), n) \in Int
  <2> SUFFICES ASSUME offers # {} PROVE DeltaOf(option, QuantityOf(pick), n) \in Int
    OBVIOUS
  <2>1. PICK d \in Int, q \in Int : d = option.delta /\ q = QuantityOf(pick)
    BY <1>3, <1>4
  <2>2. d * q * n \in Int
    OBVIOUS
  <2>3. QED
    BY <2>1, <2>2, GoIntFacts DEF DeltaOf
<1> HIDE DEF offers, option
<1>6. /\ acc.ok \in BOOLEAN /\ acc.seen \in SUBSET OptionIds
      /\ acc.units \in Int /\ acc.delta \in Int
      /\ [acc EXCEPT !.ok = FALSE] \in Taken
  BY DEF Taken
<1>7. offers # {} =>
        [ok |-> TRUE, seen |-> acc.seen \union {pick.option},
         units |-> GoInt(acc.units + QuantityOf(pick)),
         delta |-> GoInt(acc.delta + DeltaOf(option, QuantityOf(pick), n))] \in Taken
  <2> SUFFICES ASSUME offers # {}
               PROVE  /\ GoInt(acc.units + QuantityOf(pick)) \in Int
                      /\ GoInt(acc.delta + DeltaOf(option, QuantityOf(pick), n)) \in Int
    BY <1>4, <1>6 DEF Taken
  <2>1. /\ acc.units + QuantityOf(pick) \in Int
        /\ acc.delta + DeltaOf(option, QuantityOf(pick), n) \in Int
    BY <1>4, <1>5, <1>6
  <2>2. QED
    BY <2>1, GoIntFacts
<1>8. QED
  BY <1>6, <1>7 DEF TakeOption, offers, option

\* it is the function by which TakeOptions folds over picks.
OptionRule(g, n, picks, it) ==
    it = [s \in SUBSET DOMAIN picks |->
             IF s = {} THEN NothingTaken
             ELSE TakeOption(g, n, it[s \ {Max(s)}], picks[Max(s)])]

\* TakeOptions is the loop of the code: it takes the options in the order of the
\* request, and acc[k] is what it has after k of them.
LEMMA OptionLoop ==
    ASSUME NEW g \in GroupConfig, NEW n \in Int, NEW picks \in Seq(OptionSelection)
    PROVE  \E acc \in [0 .. Len(picks) -> Taken] :
              /\ acc[0] = NothingTaken
              /\ \A k \in 1 .. Len(picks) : acc[k] = TakeOption(g, n, acc[k - 1], picks[k])
              /\ TakeOptions(g, n, picks) = acc[Len(picks)]
<1> DEFINE D == 1 .. Len(picks)
           choice == [s \in SUBSET D |-> Max(s)]
           step == [xa \in D \X Taken |-> TakeOption(g, n, xa[2], picks[xa[1]])]
           own == CHOOSE it : OptionRule(g, n, picks, it)
           acc == [k \in 0 .. Len(picks) |-> own[1 .. k]]
<1>1. Len(picks) \in Nat /\ DOMAIN picks = D /\ IsFiniteSet(D)
      /\ \A k \in D : picks[k] \in OptionSelection
  BY FS_Interval
<1>2. NothingTaken \in Taken
  BY DEF NothingTaken, Taken
<1>3. \A s \in SUBSET D : s # {} => choice[s] \in s
  BY <1>1, MaxIsIn
<1>4. step \in [D \X Taken -> Taken]
  BY <1>1, TakeOptionTyped
<1>5. \E it : OptionRule(g, n, picks, it)
  <2>1. PICK it \in [SUBSET D -> Taken] : Unrolls(it, D, NothingTaken, choice, step)
    <3> HIDE DEF D, choice, step
    <3>1. QED
      BY <1>1, <1>2, <1>3, <1>4, Recursion
  <2>2. ASSUME NEW s \in SUBSET D, s # {}
        PROVE  step[<<choice[s], it[s \ {choice[s]}]>>]
                  = TakeOption(g, n, it[s \ {Max(s)}], picks[Max(s)])
    <3>1. choice[s] \in D /\ choice[s] = Max(s) /\ it[s \ {choice[s]}] \in Taken
      BY <2>2, <1>3
    <3> HIDE DEF D, choice
    <3>2. QED
      BY <3>1
  <2>3. OptionRule(g, n, picks, it)
    <3> HIDE DEF D, choice, step
    <3>1. QED
      BY <2>1, <2>2, <1>1 DEF Unrolls, OptionRule
  <2>4. QED
    BY <2>3
<1>6. OptionRule(g, n, picks, own)
  BY <1>5
<1>7. TakeOptions(g, n, picks) = own[DOMAIN picks]
  BY DEF TakeOptions, FoldLeft, MapThenFoldSet, OptionRule
<1> HIDE DEF own
<1>8. own[{}] = NothingTaken
  BY <1>6 DEF OptionRule
<1>9. ASSUME NEW k \in D
      PROVE  own[1 .. k] = TakeOption(g, n, own[1 .. k - 1], picks[k])
  <2>1. k \in Nat \ {0} /\ 1 .. k \in SUBSET DOMAIN picks /\ 1 .. k # {}
    BY <1>1
  <2>2. Max(1 .. k) = k /\ (1 .. k) \ {k} = 1 .. k - 1
    BY <2>1, MaxOfUpTo
  <2>3. QED
    BY <1>6, <2>1, <2>2 DEF OptionRule
<1>10. acc[0] = NothingTaken
  <2>1. 1 .. 0 = {}
    OBVIOUS
  <2>2. QED
    BY <1>1, <1>8, <2>1
<1>11. \A k \in D : acc[k] = TakeOption(g, n, acc[k - 1], picks[k])
  BY <1>1, <1>9
<1>12. acc \in [0 .. Len(picks) -> Taken]
  <2> DEFINE T == {k \in 0 .. Len(picks) : acc[k] \in Taken}
  <2>1. 0 \in T
    BY <1>1, <1>2, <1>10
  <2>2. ASSUME NEW k \in 1 .. Len(picks), k - 1 \in T
        PROVE  k \in T
    <3>1. acc[k - 1] \in Taken /\ picks[k] \in OptionSelection /\ k \in 0 .. Len(picks)
      BY <1>1, <2>2
    <3>2. acc[k] = TakeOption(g, n, acc[k - 1], picks[k])
      BY <1>11
    <3> HIDE DEF acc
    <3>3. QED
      BY <3>1, <3>2, TakeOptionTyped
  <2> HIDE DEF T
  <2>3. \A k \in 0 .. Len(picks) : k \in T
    BY <1>1, <2>1, <2>2, CountingUp
  <2>4. QED
    BY <2>3 DEF T
<1>13. TakeOptions(g, n, picks) = acc[Len(picks)]
  BY <1>1, <1>7
<1> HIDE DEF acc
<1>14. QED
  BY <1>10, <1>11, <1>12, <1>13

\* The loop over options returns what it carries along.
LEMMA TakeOptionsTyped ==
    ASSUME NEW g \in GroupConfig, NEW n \in Int, NEW picks \in Seq(OptionSelection)
    PROVE  TakeOptions(g, n, picks) \in Taken
<1>1. PICK acc \in [0 .. Len(picks) -> Taken] : TakeOptions(g, n, picks) = acc[Len(picks)]
  BY OptionLoop
<1>2. Len(picks) \in 0 .. Len(picks)
  OBVIOUS
<1>3. QED
  BY <1>1, <1>2

\* Group g offers an option for the pick, and allows its quantity.
PickFits(g, pick) ==
    \E o \in ToSet(g.options) :
       o.active /\ o.id = pick.option /\ QuantityAllowed(g, o, QuantityOf(pick))

\* The first k picks fit and are about different options.
FirstFit(g, picks, k) ==
    \A a \in 1 .. k : /\ PickFits(g, picks[a])
                      /\ \A b \in 1 .. k : picks[a].option = picks[b].option => a = b

\* The options of a valid group have different ids, so the map by id in the code
\* finds the one meant.
LEMMA OneOptionPerId ==
    ASSUME NEW g, ValidGroup(g), NEW o \in ToSet(g.options), NEW p \in ToSet(g.options),
           o.id = p.id
    PROVE  o = p
BY DEF ValidGroup, AllDiffer, IdOf, ToSet

\* What an iteration of the loop over options does: it fails on an option seen
\* before or one that does not fit, and else counts its units and adds its price.
LEMMA TakeOptionDecides ==
    ASSUME NEW g \in GroupConfig, ValidGroup(g), NEW n \in Int, NEW acc \in Taken,
           NEW pick \in OptionSelection
    PROVE  LET next == TakeOption(g, n, acc, pick)
           IN  /\ next.ok <=> acc.ok /\ pick.option \notin acc.seen /\ PickFits(g, pick)
               /\ next.ok =>
                     /\ next.seen = acc.seen \union {pick.option}
                     /\ next.units = GoInt(acc.units + QuantityOf(pick))
                     /\ \A o \in ToSet(g.options) : o.id = pick.option =>
                           next.delta = GoInt(acc.delta + DeltaOf(o, QuantityOf(pick), n))
<1> DEFINE offers == {o \in ToSet(g.options) : o.active /\ o.id = pick.option}
           option == CHOOSE o \in offers : TRUE
           fits == /\ acc.ok
                   /\ pick.option \notin acc.seen
                   /\ offers # {}
                   /\ QuantityAllowed(g, option, QuantityOf(pick))
           next == TakeOption(g, n, acc, pick)
<1>1. offers # {} => option \in offers
  OBVIOUS
<1>2. \A o \in ToSet(g.options) : offers # {} /\ o.id = pick.option => o = option
  BY <1>1, OneOptionPerId
<1>3. offers # {} /\ QuantityAllowed(g, option, QuantityOf(pick)) <=> PickFits(g, pick)
  BY <1>1, <1>2 DEF PickFits
<1>4. next = IF fits
             THEN [ok |-> TRUE, seen |-> acc.seen \union {pick.option},
                   units |-> GoInt(acc.units + QuantityOf(pick)),
                   delta |-> GoInt(acc.delta + DeltaOf(option, QuantityOf(pick), n))]
             ELSE [acc EXCEPT !.ok = FALSE]
  BY DEF TakeOption
<1>5. acc.ok \in BOOLEAN /\ [acc EXCEPT !.ok = FALSE].ok = FALSE
  BY DEF Taken
<1> HIDE DEF next, offers, option
<1>6. next.ok <=> fits
  BY <1>4, <1>5
<1>7. fits => /\ next.seen = acc.seen \union {pick.option}
              /\ next.units = GoInt(acc.units + QuantityOf(pick))
              /\ next.delta = GoInt(acc.delta + DeltaOf(option, QuantityOf(pick), n))
  BY <1>4
<1>8. QED
  BY <1>2, <1>3, <1>6, <1>7 DEF next

\* units and cost, by place, are the units and the price of the picks, which
\* were submitted as group i.
CountsPicks(g, picks, i, units, cost) ==
    \A k \in 1 .. Len(picks) :
       /\ units[<<i, k>>] = QuantityOf(picks[k])
       /\ cost[<<i, k>>] \in Int
       /\ \A o \in ToSet(g.options) :
             o.id = picks[k].option => cost[<<i, k>>] = o.delta * QuantityOf(picks[k])

\* The loop ended with what a Go int keeps of the units, and of n times the price, of
\* all these places.
Totalled(taken, n, places, units, cost) ==
    /\ taken.units = GoInt(SumFunctionOnSet(units, places))
    /\ taken.delta = GoInt(n * SumFunctionOnSet(cost, places))

\* The loop over the options of a group succeeds exactly if they all fit and differ,
\* and then it has added up their units, and their prices for n items, in Go ints.
LEMMA OptionsTaken ==
    ASSUME NEW g \in GroupConfig, ValidGroup(g), NEW n \in Int,
           NEW picks \in Seq(OptionSelection), NEW i, NEW units, NEW cost,
           CountsPicks(g, picks, i, units, cost)
    PROVE  LET taken == TakeOptions(g, n, picks)
           IN  /\ taken.ok <=> FirstFit(g, picks, Len(picks))
               /\ taken.ok => Totalled(taken, n, {i} \X (1 .. Len(picks)), units, cost)
<1>1. PICK acc \in [0 .. Len(picks) -> Taken] :
         /\ acc[0] = NothingTaken
         /\ \A k \in 1 .. Len(picks) : acc[k] = TakeOption(g, n, acc[k - 1], picks[k])
         /\ TakeOptions(g, n, picks) = acc[Len(picks)]
  BY OptionLoop
<1> DEFINE Seen(k) == {picks[a].option : a \in 1 .. k}
           Summed(k) == /\ acc[k].seen = Seen(k)
                        /\ acc[k].units = GoInt(SumFunctionOnSet(units, {i} \X (1 .. k)))
                        /\ acc[k].delta = GoInt(n * SumFunctionOnSet(cost, {i} \X (1 .. k)))
           T == {k \in 0 .. Len(picks) : /\ acc[k].ok <=> FirstFit(g, picks, k)
                                         /\ acc[k].ok => Summed(k)}
<1>2. Len(picks) \in Nat /\ \A k \in 1 .. Len(picks) : picks[k] \in OptionSelection
  OBVIOUS
<1>3. 0 \in T
  <2>1. 1 .. 0 = {} /\ {i} \X (1 .. 0) = {} /\ Seen(0) = {}
    OBVIOUS
  <2>2. SumFunctionOnSet(units, {i} \X (1 .. 0)) = 0
        /\ SumFunctionOnSet(cost, {i} \X (1 .. 0)) = 0
    BY <2>1, SumOverNothing
  <2>3. FirstFit(g, picks, 0)
    BY <2>1 DEF FirstFit
  <2>4. Summed(0)
    <3>1. GoInt(0) = 0 /\ n * 0 = 0
      BY PricingAssumption, GoIntFacts DEF GoInts
    <3>2. QED
      BY <1>1, <2>1, <2>2, <3>1 DEF NothingTaken
  <2>5. acc[0].ok
    BY <1>1 DEF NothingTaken
  <2> HIDE DEF Summed
  <2>6. QED
    BY <1>2, <2>3, <2>4, <2>5
<1>4. ASSUME NEW k \in 1 .. Len(picks), k - 1 \in T
      PROVE  k \in T
  <2> DEFINE pick == picks[k]
  <2>1. acc[k] = TakeOption(g, n, acc[k - 1], pick) /\ acc[k - 1] \in Taken
        /\ pick \in OptionSelection /\ k \in 1 .. k
    BY <1>1, <1>2
  <2>2. /\ acc[k].ok <=> acc[k - 1].ok /\ pick.option \notin acc[k - 1].seen /\ PickFits(g, pick)
        /\ acc[k].ok =>
              /\ acc[k].seen = acc[k - 1].seen \union {pick.option}
              /\ acc[k].units = GoInt(acc[k - 1].units + QuantityOf(pick))
              /\ \A o \in ToSet(g.options) : o.id = pick.option =>
                    acc[k].delta = GoInt(acc[k - 1].delta + DeltaOf(o, QuantityOf(pick), n))
    <3>1. PICK before, after : before = acc[k - 1] /\ after = acc[k]
      OBVIOUS
    <3> HIDE DEF pick
    <3>2. before \in Taken /\ after = TakeOption(g, n, before, pick)
      BY <2>1, <3>1
    <3>3. QED
      BY <2>1, <3>1, <3>2, TakeOptionDecides
  <2>3. 1 .. k = (1 .. k - 1) \union {k} /\ k \notin 1 .. k - 1
    OBVIOUS
  <2>4. FirstFit(g, picks, k) <=> /\ FirstFit(g, picks, k - 1)
                                  /\ pick.option \notin Seen(k - 1)
                                  /\ PickFits(g, pick)
    BY <2>3 DEF FirstFit
  <2>5. acc[k].ok <=> FirstFit(g, picks, k)
    BY <1>4, <2>2, <2>4
  <2>6. ASSUME acc[k].ok
        PROVE  Summed(k)
    <3>1. Summed(k - 1)
      BY <1>4, <2>2, <2>6
    <3>2. acc[k].seen = Seen(k)
      BY <2>2, <2>3, <2>6, <3>1
    <3>3. PICK o \in ToSet(g.options) : o.id = pick.option
      BY <2>2, <2>6 DEF PickFits
    <3>4. units[<<i, k>>] = QuantityOf(pick) /\ cost[<<i, k>>] = o.delta * QuantityOf(pick)
      BY <3>3 DEF CountsPicks
    <3>5. o.delta \in Int /\ QuantityOf(pick) \in Int
      BY <2>1, OptionsTyped, QuantityIsAnInt
    <3>6. k \in Nat \ {0} /\ \A j \in 1 .. k : units[<<i, j>>] \in Int /\ cost[<<i, j>>] \in Int
      BY <1>2, QuantityIsAnInt DEF CountsPicks
    <3>7. PICK rest \in Int, sum \in Int :
             /\ rest = SumFunctionOnSet(units, {i} \X (1 .. k - 1))
             /\ sum = SumFunctionOnSet(cost, {i} \X (1 .. k - 1))
             /\ SumFunctionOnSet(units, {i} \X (1 .. k)) = units[<<i, k>>] + rest
             /\ SumFunctionOnSet(cost, {i} \X (1 .. k)) = cost[<<i, k>>] + sum
      <4>1. \A j \in 1 .. k : units[<<i, j>>] \in Int
        BY <3>6
      <4>2. \A j \in 1 .. k : cost[<<i, j>>] \in Int
        BY <3>6
      <4>3. /\ SumFunctionOnSet(units, {i} \X (1 .. k))
                  = units[<<i, k>>] + SumFunctionOnSet(units, {i} \X (1 .. k - 1))
            /\ SumFunctionOnSet(units, {i} \X (1 .. k - 1)) \in Int
        BY <3>6, <4>1, SumOfRow
      <4>4. /\ SumFunctionOnSet(cost, {i} \X (1 .. k))
                  = cost[<<i, k>>] + SumFunctionOnSet(cost, {i} \X (1 .. k - 1))
            /\ SumFunctionOnSet(cost, {i} \X (1 .. k - 1)) \in Int
        BY <3>6, <4>2, SumOfRow
      <4>5. QED
        BY <4>3, <4>4
    <3>8. acc[k].units = GoInt(SumFunctionOnSet(units, {i} \X (1 .. k)))
      <4>1. PICK q \in Int : q = QuantityOf(pick)
        BY <3>5
      <4>2. acc[k].units = GoInt(GoInt(rest) + q)
        BY <2>2, <2>6, <3>1, <3>7, <4>1
      <4>3. GoInt(GoInt(rest) + q) = GoInt(rest + q)
        BY GoIntFacts
      <4>4. rest + q = q + rest
        OBVIOUS
      <4>5. QED
        BY <3>4, <3>7, <4>1, <4>2, <4>3, <4>4
    <3>9. acc[k].delta = GoInt(n * SumFunctionOnSet(cost, {i} \X (1 .. k)))
      <4>1. PICK q \in Int, d \in Int, x \in Int, y \in Int :
               q = QuantityOf(pick) /\ d = o.delta /\ x = n * sum /\ y = d * q * n
        BY <3>5
      <4>2. acc[k].delta = GoInt(GoInt(x) + GoInt(y))
        BY <2>2, <2>6, <3>1, <3>3, <3>7, <4>1 DEF DeltaOf
      <4>3. GoInt(GoInt(x) + GoInt(y)) = GoInt(x + y)
        BY GoIntFacts
      <4>4. n * sum + d * q * n = n * (d * q + sum)
        OBVIOUS
      <4>5. x + y = n * SumFunctionOnSet(cost, {i} \X (1 .. k))
        BY <3>4, <3>7, <4>1, <4>4
      <4>6. QED
        BY <4>2, <4>3, <4>5
    <3>10. QED
      BY <3>2, <3>8, <3>9
  <2> HIDE DEF Summed
  <2>7. QED
    BY <1>2, <2>5, <2>6
<1> HIDE DEF T, Seen, Summed
<1>5. \A k \in 0 .. Len(picks) : k \in T
  BY <1>2, <1>3, <1>4, CountingUp
<1>6. Len(picks) \in T
  BY <1>2, <1>5
<1>7. QED
  BY <1>1, <1>2, <1>6 DEF T, Summed, Totalled

-----------------------------------------------------------------------------
(* Pricing: what the contract asks of a group, and what it costs.          *)
\* Units has the units of each pick at its place, for all groups submitted.
LEMMA UnitsTyped ==
    ASSUME PricingTypeOK
    PROVE  /\ IsFiniteSet(DOMAIN Units)
           /\ \A p \in DOMAIN Units : Units[p] \in Int
           /\ \A p \in DOMAIN Units : /\ p = <<p[1], p[2]>>
                                      /\ p[1] \in DOMAIN selection
                                      /\ p[2] \in 1 .. Len(selection[p[1]].options)
           /\ \A i \in DOMAIN selection :
                 /\ selection[i].options \in Seq(OptionSelection)
                 /\ \A k \in 1 .. Len(selection[i].options) :
                       /\ <<i, k>> \in DOMAIN Units
                       /\ Units[<<i, k>>] = QuantityOf(selection[i].options[k])
<1>1. /\ DOMAIN selection = 1 .. Len(selection) /\ Len(selection) \in Nat
      /\ \A i \in DOMAIN selection : selection[i] \in GroupSelection
  BY DEF PricingTypeOK
<1>2. \A i \in DOMAIN selection :
         /\ selection[i].options \in Seq(OptionSelection)
         /\ Len(selection[i].options) \in Nat
         /\ DOMAIN selection[i].options = 1 .. Len(selection[i].options)
  BY <1>1 DEF GroupSelection
<1>3. MaxPicks \in Nat
  BY PricingAssumption
<1> DEFINE cells == (DOMAIN selection) \X (1 .. MaxPicks)
<1>4. IsFiniteSet(cells)
  <2>1. IsFiniteSet(DOMAIN selection)
    BY <1>1, FS_Interval
  <2>2. IsFiniteSet(1 .. MaxPicks)
    BY <1>3, FS_Interval
  <2>3. QED
    BY <2>1, <2>2, FS_Product
<1>5. DOMAIN Units = {p \in cells : p[2] \in DOMAIN selection[p[1]].options}
  BY DEF Units
<1>6. IsFiniteSet(DOMAIN Units)
  BY <1>4, <1>5, FS_Subset
<1>7. \A p \in DOMAIN Units : /\ p = <<p[1], p[2]>>
                              /\ p[1] \in DOMAIN selection
                              /\ p[2] \in 1 .. Len(selection[p[1]].options)
  BY <1>2, <1>5
<1>8. \A p \in DOMAIN Units : Units[p] = QuantityOf(selection[p[1]].options[p[2]])
  BY DEF Units
<1>9. ASSUME NEW p \in DOMAIN Units
      PROVE  Units[p] \in Int
  <2>1. selection[p[1]].options[p[2]] \in OptionSelection
    BY <1>2, <1>7
  <2>2. QED
    BY <1>8, <2>1, QuantityIsAnInt
<1>10. ASSUME NEW i \in DOMAIN selection, NEW k \in 1 .. Len(selection[i].options)
       PROVE  <<i, k>> \in DOMAIN Units
  <2>1. k \in 1 .. MaxPicks
    BY <1>2, <1>3 DEF PricingTypeOK
  <2>2. QED
    BY <1>2, <1>5, <2>1
<1>11. QED
  BY <1>2, <1>6, <1>7, <1>8, <1>9, <1>10

\* The price of a pick in group g, for one item; 0 if g has no such option.
PriceOf(g, pick) ==
    IF \E o \in ToSet(g.options) : o.id = pick.option
    THEN (CHOOSE o \in ToSet(g.options) : o.id = pick.option).delta * QuantityOf(pick)
    ELSE 0

\* The prices of all picks, by place, as if they were picked in group g.
PricesOf(g) == [p \in DOMAIN Units |-> PriceOf(g, selection[p[1]].options[p[2]])]

\* The price of a pick is that of any option with its id, there being only one.
LEMMA PriceOfOption ==
    ASSUME NEW g \in GroupConfig, ValidGroup(g), NEW pick \in OptionSelection
    PROVE  /\ PriceOf(g, pick) \in Int
           /\ \A o \in ToSet(g.options) :
                 o.id = pick.option => PriceOf(g, pick) = o.delta * QuantityOf(pick)
<1>1. \A o \in ToSet(g.options) : o.delta \in Int
  BY OptionsTyped
<1>2. QuantityOf(pick) \in Int
  BY QuantityIsAnInt
<1>3. CASE \E o \in ToSet(g.options) : o.id = pick.option
  <2>1. PICK o \in ToSet(g.options) :
           /\ o.id = pick.option
           /\ o = CHOOSE p \in ToSet(g.options) : p.id = pick.option
    BY <1>3
  <2>2. PriceOf(g, pick) = o.delta * QuantityOf(pick)
    BY <1>3, <2>1 DEF PriceOf
  <2>3. \A p \in ToSet(g.options) : p.id = pick.option => p = o
    BY <2>1, OneOptionPerId
  <2>4. QED
    BY <1>1, <1>2, <2>2, <2>3
<1>4. CASE ~ \E o \in ToSet(g.options) : o.id = pick.option
  BY <1>4 DEF PriceOf
<1>5. QED
  BY <1>3, <1>4

\* The places where option o of group g is asked for.
PartFor(g, o) == {p \in DOMAIN Units : /\ selection[p[1]].group = g.id
                                       /\ selection[p[1]].options[p[2]].option = o.id}

\* If one submitted group is about g and its picks fit, the units asked for of g and
\* their cost, which the contract sums option by option, are those of its picks.
LEMMA AskedInOneRow ==
    ASSUME PricingTypeOK, AllDiffer(selection, GroupOf),
           NEW g \in GroupConfig, ValidGroup(g),
           NEW i \in DOMAIN selection, selection[i].group = g.id,
           FirstFit(g, selection[i].options, Len(selection[i].options))
    PROVE  LET places == {i} \X (1 .. Len(selection[i].options))
           IN  /\ AskedOf(g) = SumFunctionOnSet(Units, places)
               /\ CostOf(g) = SumFunctionOnSet(PricesOf(g), places)
<1> DEFINE K == ToSet(g.options)
           picks == selection[i].options
           places == {i} \X (1 .. Len(picks))
           part == [o \in K |-> PartFor(g, o)]
           asked == [o \in K |-> Asked(g, o)]
           cost == [o \in K |-> o.delta * Asked(g, o)]
<1>1. IsFiniteSet(K) /\ \A o \in K : o.delta \in Int
  BY OptionsTyped
<1>2. IsFiniteSet(DOMAIN Units) /\ \A p \in DOMAIN Units : Units[p] \in Int
  BY UnitsTyped
<1>3. \A o \in K : part[o] \subseteq DOMAIN Units
  BY DEF PartFor
<1>4. \A o, q \in K : o # q => part[o] \cap part[q] = {}
  BY OneOptionPerId DEF PartFor
<1>5. \A j \in DOMAIN selection : selection[j].group = g.id => j = i
  BY DEF AllDiffer, GroupOf
<1>6. Parts(part, K) = places
  <2>1. ASSUME NEW o \in K, NEW p \in part[o]
        PROVE  p \in places
    <3>1. p \in DOMAIN Units /\ selection[p[1]].group = g.id
      BY DEF PartFor
    <3>2. p = <<p[1], p[2]>> /\ p[1] = i /\ p[2] \in 1 .. Len(picks)
      BY <3>1, <1>5, UnitsTyped
    <3>3. QED
      BY <3>2
  <2>2. ASSUME NEW k \in 1 .. Len(picks)
        PROVE  \E o \in K : <<i, k>> \in part[o]
    <3>1. PICK o \in K : o.id = picks[k].option
      BY DEF FirstFit, PickFits
    <3>2. <<i, k>> \in DOMAIN Units
      BY UnitsTyped
    <3>3. <<i, k>> \in part[o]
      BY <3>1, <3>2 DEF PartFor
    <3>4. QED
      BY <3>3
  <2>3. places = {<<i, k>> : k \in 1 .. Len(picks)}
    OBVIOUS
  <2> HIDE DEF part, places
  <2>4. QED
    BY <2>1, <2>2, <2>3 DEF Parts
<1>7. \A o \in K : asked[o] = SumFunctionOnSet(Units, part[o])
  BY DEF Asked, PartFor
<1>8. \A p \in DOMAIN Units : PricesOf(g)[p] \in Int
  <2>1. ASSUME NEW p \in DOMAIN Units
        PROVE  selection[p[1]].options[p[2]] \in OptionSelection
    BY UnitsTyped
  <2>2. QED
    BY <2>1, PriceOfOption DEF PricesOf
<1>9. ASSUME NEW o \in K
      PROVE  cost[o] = SumFunctionOnSet(PricesOf(g), part[o])
  <2>1. ASSUME NEW p \in part[o]
        PROVE  Units[p] \in Int /\ PricesOf(g)[p] = o.delta * Units[p]
    <3>1. /\ p \in DOMAIN Units
          /\ selection[p[1]].options[p[2]].option = o.id
      BY DEF PartFor
    <3>2. /\ p[1] \in DOMAIN selection /\ p = <<p[1], p[2]>>
          /\ p[2] \in 1 .. Len(selection[p[1]].options)
      BY <3>1, UnitsTyped
    <3>3. /\ selection[p[1]].options[p[2]] \in OptionSelection
          /\ Units[p] = QuantityOf(selection[p[1]].options[p[2]])
      BY <3>2, UnitsTyped
    <3>4. PricesOf(g)[p] = o.delta * QuantityOf(selection[p[1]].options[p[2]])
      BY <3>1, <3>3, PriceOfOption DEF PricesOf
    <3>5. QED
      BY <3>1, <3>3, <3>4, <1>2
  <2>2. IsFiniteSet(part[o]) /\ o.delta \in Int
    BY <1>1, <1>2, <1>3, FS_Subset
  <2> HIDE DEF part
  <2>3. SumFunctionOnSet(PricesOf(g), part[o]) = o.delta * SumFunctionOnSet(Units, part[o])
    BY <2>1, <2>2, SumOfMultiples
  <2>4. QED
    BY <2>3, <1>7
<1> HIDE DEF part, places, asked, cost, K
<1>10. SumFunctionOnSet(asked, K) = SumFunctionOnSet(Units, places)
  <2>1. SumFunctionOnSet(asked, K) = SumFunctionOnSet(Units, Parts(part, K))
    BY <1>1, <1>2, <1>3, <1>4, <1>7, SumOverParts
  <2>2. QED
    BY <1>6, <2>1
<1>11. SumFunctionOnSet(cost, K) = SumFunctionOnSet(PricesOf(g), places)
  <2>1. PICK prices, D : prices = PricesOf(g) /\ D = DOMAIN Units
    OBVIOUS
  <2>2. IsFiniteSet(D) /\ \A p \in D : prices[p] \in Int
    BY <1>2, <1>8, <2>1
  <2>3. \A o \in K : part[o] \subseteq D
    BY <1>3, <2>1
  <2>4. \A o \in K : cost[o] = SumFunctionOnSet(prices, part[o])
    BY <1>9, <2>1
  <2>5. SumFunctionOnSet(cost, K) = SumFunctionOnSet(prices, Parts(part, K))
    BY <1>1, <1>4, <2>2, <2>3, <2>4, SumOverParts
  <2>6. QED
    BY <1>6, <2>1, <2>5
<1>12. AskedOf(g) = SumFunctionOnSet(asked, K) /\ CostOf(g) = SumFunctionOnSet(cost, K)
  BY DEF AskedOf, CostOf, SumFunction, asked, cost, K
<1>13. QED
  BY <1>10, <1>11, <1>12 DEF places

\* A group nobody submitted costs nothing.
LEMMA NothingAsked ==
    ASSUME PricingTypeOK, NEW g \in GroupConfig,
           \A i \in DOMAIN selection : selection[i].group # g.id
    PROVE  CostOf(g) = 0
<1> DEFINE K == ToSet(g.options)
           cost == [o \in K |-> o.delta * Asked(g, o)]
<1>1. IsFiniteSet(K) /\ \A o \in K : o.delta \in Int
  BY OptionsTyped
<1>2. ASSUME NEW o \in K
      PROVE  cost[o] = 0
  <2>1. PartFor(g, o) = {}
    BY UnitsTyped DEF PartFor
  <2>2. Asked(g, o) = 0
    BY <2>1, SumOverNothing DEF Asked, PartFor
  <2>3. QED
    BY <2>2, <1>1
<1>3. SumFunctionOnSet(cost, K) = 0
  <2> HIDE DEF cost, K
  <2>1. QED
    BY <1>1, <1>2, SumOfZeroes
<1>4. QED
  BY <1>3 DEF CostOf, SumFunction

\* What is asked for of a group and what it costs are integers.
LEMMA CostIsAnInt ==
    ASSUME PricingTypeOK, NEW g \in GroupConfig
    PROVE  CostOf(g) \in Int /\ AskedOf(g) \in Int
<1> DEFINE K == ToSet(g.options)
           asked == [o \in K |-> Asked(g, o)]
           cost == [o \in K |-> o.delta * Asked(g, o)]
<1>1. IsFiniteSet(K) /\ \A o \in K : o.delta \in Int
  BY OptionsTyped
<1>2. ASSUME NEW o \in K
      PROVE  Asked(g, o) \in Int
  <2>1. IsFiniteSet(PartFor(g, o)) /\ \A p \in PartFor(g, o) : Units[p] \in Int
    BY UnitsTyped, FS_Subset DEF PartFor
  <2>2. QED
    BY <2>1, SumIsAnInt DEF Asked, PartFor
<1>3. \A o \in K : cost[o] \in Int
  BY <1>1, <1>2
<1>4. \A o \in K : asked[o] \in Int
  BY <1>2
<1>5. SumFunctionOnSet(cost, K) \in Int /\ SumFunctionOnSet(asked, K) \in Int
  <2> HIDE DEF cost, asked, K
  <2>1. QED
    BY <1>1, <1>3, <1>4, SumIsAnInt
<1>6. QED
  BY <1>5 DEF CostOf, AskedOf, SumFunction

-----------------------------------------------------------------------------
(* Pricing: the groups of the configuration, one after the other.          *)
\* What the loop over groups carries along.
Passed == [ok : BOOLEAN, left : SUBSET GroupIds, delta : GoInts]

\* What it begins with: all submitted groups are left.
AtStart == [ok |-> TRUE, left |-> {s.group : s \in ToSet(selection)}, delta |-> 0]

\* An iteration of the loop over groups keeps its types.
LEMMA TakeGroupTyped ==
    ASSUME PricingTypeOK, NEW g \in GroupConfig, NEW n \in Int, NEW acc \in Passed
    PROVE  TakeGroup(selection, n, acc, g) \in Passed
<1> DEFINE subs == {s \in ToSet(selection) : s.group = g.id /\ g.id \in acc.left}
           taken == TakeOptions(g, n, (CHOOSE s \in subs : TRUE).options)
<1>1. ASSUME subs # {}
      PROVE  taken \in Taken
  <2>1. PICK s \in ToSet(selection) : s = CHOOSE r \in subs : TRUE
    BY <1>1
  <2>2. s \in GroupSelection
    BY ElementsAreFinite DEF PricingTypeOK
  <2>3. s.options \in Seq(OptionSelection)
    BY <2>2 DEF GroupSelection
  <2>4. TakeOptions(g, n, s.options) \in Taken
    BY <2>3, TakeOptionsTyped
  <2>5. QED
    BY <2>1, <2>4
<1>2. acc.ok \in BOOLEAN /\ acc.left \in SUBSET GroupIds /\ acc.delta \in Int
  BY PricingAssumption DEF Passed, GoInts
<1>3. subs # {} => taken.ok \in BOOLEAN /\ taken.delta \in Int
  BY <1>1 DEF Taken
<1>4. [acc EXCEPT !.ok = @ /\ ~g.required /\ g.min = 0] \in Passed
  BY DEF Passed
<1> HIDE DEF taken, subs
<1>5. subs # {} => [ok |-> acc.ok /\ taken.ok /\ taken.units \in g.min .. g.max,
                    left |-> acc.left \ {g.id},
                    delta |-> GoInt(acc.delta + taken.delta)] \in Passed
  <2>1. subs # {} => GoInt(acc.delta + taken.delta) \in GoInts
    <3> SUFFICES ASSUME subs # {} PROVE GoInt(acc.delta + taken.delta) \in GoInts
      OBVIOUS
    <3>1. acc.delta + taken.delta \in Int
      BY <1>2, <1>3
    <3>2. QED
      BY <3>1, GoIntFacts
  <2>2. QED
    BY <1>2, <1>3, <2>1 DEF Passed
<1>6. QED
  BY <1>4, <1>5 DEF TakeGroup, taken, subs

\* The loop over groups begins with what it carries along.
LEMMA StartTyped ==
    ASSUME PricingTypeOK
    PROVE  AtStart \in Passed
<1>1. ToSet(selection) \subseteq GroupSelection
  BY ElementsAreFinite DEF PricingTypeOK
<1>2. {s.group : s \in ToSet(selection)} \in SUBSET GroupIds
  BY <1>1 DEF GroupSelection
<1>3. 0 \in GoInts
  BY PricingAssumption DEF GoInts
<1>4. QED
  BY <1>2, <1>3 DEF AtStart, Passed

\* it is the function by which TakeGroups folds over the configuration.
GroupRule(n, it) ==
    it = [s \in SUBSET DOMAIN config |->
             IF s = {} THEN AtStart
             ELSE TakeGroup(selection, n, it[s \ {Max(s)}], config[Max(s)])]

\* TakeGroups is the loop of the code: it takes the groups in the order of the
\* configuration, and acc[k] is what it has after k of them.
LEMMA GroupLoop ==
    ASSUME PricingTypeOK, NEW n \in Int
    PROVE  \E acc \in [0 .. Len(config) -> Passed] :
              /\ acc[0] = AtStart
              /\ \A k \in 1 .. Len(config) : acc[k] = TakeGroup(selection, n, acc[k - 1], config[k])
              /\ TakeGroups(config, selection, n) = acc[Len(config)]
<1> DEFINE D == 1 .. Len(config)
           choice == [s \in SUBSET D |-> Max(s)]
           step == [xa \in D \X Passed |-> TakeGroup(selection, n, xa[2], config[xa[1]])]
           own == CHOOSE it : GroupRule(n, it)
           acc == [k \in 0 .. Len(config) |-> own[1 .. k]]
<1>1. Len(config) \in Nat /\ DOMAIN config = D /\ IsFiniteSet(D)
      /\ \A k \in D : config[k] \in GroupConfig
  BY FS_Interval DEF PricingTypeOK
<1>2. AtStart \in Passed
  BY StartTyped
<1>3. \A s \in SUBSET D : s # {} => choice[s] \in s
  BY <1>1, MaxIsIn
<1>4. step \in [D \X Passed -> Passed]
  BY <1>1, TakeGroupTyped
<1>5. \E it : GroupRule(n, it)
  <2>1. PICK it \in [SUBSET D -> Passed] : Unrolls(it, D, AtStart, choice, step)
    <3> HIDE DEF D, choice, step
    <3>1. QED
      BY <1>1, <1>2, <1>3, <1>4, Recursion
  <2>2. ASSUME NEW s \in SUBSET D, s # {}
        PROVE  step[<<choice[s], it[s \ {choice[s]}]>>]
                  = TakeGroup(selection, n, it[s \ {Max(s)}], config[Max(s)])
    <3>1. choice[s] \in D /\ choice[s] = Max(s) /\ it[s \ {choice[s]}] \in Passed
      BY <2>2, <1>3
    <3> HIDE DEF D, choice
    <3>2. QED
      BY <3>1
  <2>3. GroupRule(n, it)
    <3> HIDE DEF D, choice, step
    <3>1. QED
      BY <2>1, <2>2, <1>1 DEF Unrolls, GroupRule
  <2>4. QED
    BY <2>3
<1>6. GroupRule(n, own)
  BY <1>5
<1>7. TakeGroups(config, selection, n) = own[DOMAIN config]
  BY DEF TakeGroups, FoldLeft, MapThenFoldSet, GroupRule, AtStart
<1> HIDE DEF own
<1>8. own[{}] = AtStart
  BY <1>6 DEF GroupRule
<1>9. ASSUME NEW k \in D
      PROVE  own[1 .. k] = TakeGroup(selection, n, own[1 .. k - 1], config[k])
  <2>1. k \in Nat \ {0} /\ 1 .. k \in SUBSET DOMAIN config /\ 1 .. k # {}
    BY <1>1
  <2>2. Max(1 .. k) = k /\ (1 .. k) \ {k} = 1 .. k - 1
    BY <2>1, MaxOfUpTo
  <2>3. QED
    BY <1>6, <2>1, <2>2 DEF GroupRule
<1>10. acc[0] = AtStart
  <2>1. 1 .. 0 = {}
    OBVIOUS
  <2>2. QED
    BY <1>1, <1>8, <2>1
<1>11. \A k \in D : acc[k] = TakeGroup(selection, n, acc[k - 1], config[k])
  BY <1>1, <1>9
<1>12. acc \in [0 .. Len(config) -> Passed]
  <2> DEFINE T == {k \in 0 .. Len(config) : acc[k] \in Passed}
  <2>1. 0 \in T
    BY <1>1, <1>2, <1>10
  <2>2. ASSUME NEW k \in 1 .. Len(config), k - 1 \in T
        PROVE  k \in T
    <3>1. acc[k - 1] \in Passed /\ config[k] \in GroupConfig /\ k \in 0 .. Len(config)
      BY <1>1, <2>2
    <3>2. acc[k] = TakeGroup(selection, n, acc[k - 1], config[k])
      BY <1>11
    <3> HIDE DEF acc
    <3>3. QED
      BY <3>1, <3>2, TakeGroupTyped
  <2> HIDE DEF T
  <2>3. \A k \in 0 .. Len(config) : k \in T
    BY <1>1, <2>1, <2>2, CountingUp
  <2>4. QED
    BY <2>3 DEF T
<1>13. TakeGroups(config, selection, n) = acc[Len(config)]
  BY <1>1, <1>7
<1> HIDE DEF acc
<1>14. QED
  BY <1>10, <1>11, <1>12, <1>13

\* The guest submitted group g.
Submitted(g) == \E i \in DOMAIN selection : selection[i].group = g.id

\* What is asked of an active group with so many units: what was submitted for it
\* fits, as many units as it wants, or nothing was submitted and it is optional.
GroupFits(g, units) ==
    IF Submitted(g)
    THEN /\ \A i \in DOMAIN selection : selection[i].group = g.id =>
               FirstFit(g, selection[i].options, Len(selection[i].options))
         /\ units \in g.min .. g.max
    ELSE ~g.required /\ g.min = 0

\* The code asks it of the units as a Go int counts them.
GroupPasses(g) == GroupFits(g, GoInt(AskedOf(g)))

\* The groups of a stored configuration are valid and have different ids.
LEMMA GroupsTyped ==
    ASSUME PricingTypeOK
    PROVE  /\ IsFiniteSet(ToSet(config))
           /\ \A g \in ToSet(config) : g \in GroupConfig /\ ValidGroup(g)
           /\ \A g, h \in ToSet(config) : g.id = h.id => g = h
<1>1. IsFiniteSet(ToSet(config)) /\ ToSet(config) \subseteq GroupConfig
  BY ElementsAreFinite DEF PricingTypeOK
<1>2. \A g \in ToSet(config) : ValidGroup(g)
  BY DEF PricingTypeOK, ValidateConfig
<1>3. \A g, h \in ToSet(config) : g.id = h.id => g = h
  BY DEF PricingTypeOK, ValidateConfig, AllDiffer, IdOf, ToSet
<1>4. QED
  BY <1>1, <1>2, <1>3

\* What an iteration of the loop over groups does: it succeeds exactly if the group
\* passes, and adds what the units asked for cost, for n items.
LEMMA TakeGroupDecides ==
    ASSUME PricingTypeOK, AllDiffer(selection, GroupOf), NEW n \in Int,
           NEW g \in ToSet(config), g.active, NEW acc \in Passed,
           g.id \in acc.left <=> Submitted(g)
    PROVE  LET next == TakeGroup(selection, n, acc, g)
           IN  /\ next.left = acc.left \ {g.id}
               /\ next.ok <=> acc.ok /\ GroupPasses(g)
               /\ next.ok => next.delta = GoInt(acc.delta + n * CostOf(g))
<1> DEFINE subs == {s \in ToSet(selection) : s.group = g.id /\ g.id \in acc.left}
           taken == TakeOptions(g, n, (CHOOSE s \in subs : TRUE).options)
           next == TakeGroup(selection, n, acc, g)
<1>1. g \in GroupConfig /\ ValidGroup(g)
  BY GroupsTyped
<1>2. /\ acc.ok \in BOOLEAN /\ acc.left \in SUBSET GroupIds
      /\ acc.delta \in Int /\ acc.delta \in GoInts
  BY PricingAssumption DEF Passed, GoInts
<1>3. CASE Submitted(g)
  <2>1. PICK i \in DOMAIN selection : selection[i].group = g.id
    BY <1>3 DEF Submitted
  <2>2. \A j \in DOMAIN selection : selection[j].group = g.id => j = i
    BY <2>1 DEF AllDiffer, GroupOf
  <2> DEFINE picks == selection[i].options
             places == {i} \X (1 .. Len(picks))
  <2>3. subs = {selection[i]}
    BY <1>3, <2>1, <2>2 DEF ToSet
  <2>4. taken = TakeOptions(g, n, picks)
    <3>1. (CHOOSE s \in subs : TRUE) = selection[i]
      BY <2>3
    <3> HIDE DEF subs
    <3>2. QED
      BY <3>1
  <2>5. picks \in Seq(OptionSelection) /\ \A k \in 1 .. Len(picks) :
           <<i, k>> \in DOMAIN Units /\ Units[<<i, k>>] = QuantityOf(picks[k])
    BY UnitsTyped
  <2>6. ASSUME NEW k \in 1 .. Len(picks)
        PROVE  /\ PricesOf(g)[<<i, k>>] \in Int
               /\ \A o \in ToSet(g.options) : o.id = picks[k].option =>
                     PricesOf(g)[<<i, k>>] = o.delta * QuantityOf(picks[k])
    <3>1. picks[k] \in OptionSelection
      BY <2>5
    <3>2. PricesOf(g)[<<i, k>>] = PriceOf(g, picks[k])
      BY <2>5 DEF PricesOf
    <3>3. QED
      BY <1>1, <3>1, <3>2, PriceOfOption
  <2>7. CountsPicks(g, picks, i, Units, PricesOf(g))
    BY <2>5, <2>6 DEF CountsPicks
  <2>8. /\ taken.ok <=> FirstFit(g, picks, Len(picks))
        /\ taken.ok => Totalled(taken, n, places, Units, PricesOf(g))
    <3> HIDE DEF picks
    <3>1. QED
      BY <1>1, <2>4, <2>5, <2>7, OptionsTaken
  <2>9. taken \in Taken
    <3> HIDE DEF picks
    <3>1. QED
      BY <1>1, <2>4, <2>5, TakeOptionsTyped
  <2>10. taken.ok => /\ taken.units = GoInt(AskedOf(g))
                     /\ taken.delta = GoInt(n * CostOf(g))
    <3> HIDE DEF taken
    <3>1. QED
      BY <1>1, <2>1, <2>8, AskedInOneRow DEF Totalled
  <2>11. next = [ok |-> acc.ok /\ taken.ok /\ taken.units \in g.min .. g.max,
                 left |-> acc.left \ {g.id},
                 delta |-> GoInt(acc.delta + taken.delta)]
    BY <2>3 DEF TakeGroup
  <2> HIDE DEF next, taken, subs
  <2>12. GroupPasses(g) <=> taken.ok /\ taken.units \in g.min .. g.max
    BY <1>3, <2>1, <2>2, <2>8, <2>10 DEF GroupPasses, GroupFits
  <2>13. next.ok <=> acc.ok /\ GroupPasses(g)
    BY <2>11, <2>12
  <2>14. next.left = acc.left \ {g.id} /\ next.delta = GoInt(acc.delta + taken.delta)
    BY <2>11
  <2>15. next.ok => next.delta = GoInt(acc.delta + n * CostOf(g))
    <3>1. PICK d \in Int, x \in Int : d = acc.delta /\ x = n * CostOf(g)
      BY <1>1, <1>2, CostIsAnInt
    <3>2. GoInt(d + GoInt(x)) = GoInt(d + x)
      <4>1. GoInt(GoInt(x) + d) = GoInt(x + d) /\ GoInt(x) \in Int
        BY GoIntFacts
      <4>2. GoInt(x) + d = d + GoInt(x) /\ x + d = d + x
        BY <4>1
      <4>3. QED
        BY <4>1, <4>2
    <3>3. QED
      BY <2>10, <2>12, <2>13, <2>14, <3>1, <3>2
  <2>16. QED
    BY <2>13, <2>14, <2>15 DEF next
<1>4. CASE ~Submitted(g)
  <2>1. subs = {} /\ g.id \notin acc.left
    BY <1>4
  <2>2. CostOf(g) = 0
    BY <1>1, <1>4, NothingAsked DEF Submitted
  <2>3. next = [acc EXCEPT !.ok = @ /\ ~g.required /\ g.min = 0]
    BY <2>1 DEF TakeGroup
  <2>4. /\ next.ok <=> acc.ok /\ ~g.required /\ g.min = 0
        /\ next.left = acc.left /\ next.delta = acc.delta
    BY <2>3 DEF Passed
  <2> HIDE DEF next
  <2>5. next.ok <=> acc.ok /\ GroupPasses(g)
    BY <1>4, <2>4 DEF GroupPasses, GroupFits
  <2>6. next.left = acc.left \ {g.id}
    BY <2>1, <2>4
  <2>7. next.delta = GoInt(acc.delta + n * CostOf(g))
    <3>1. acc.delta + n * CostOf(g) = acc.delta
      BY <1>2, <2>2
    <3>2. QED
      BY <1>2, <2>4, <3>1, GoIntFacts
  <2>8. QED
    BY <2>5, <2>6, <2>7 DEF next
<1>5. QED
  BY <1>3, <1>4

\* Nothing was submitted for an inactive group.
NoneHidden == \A g \in ToSet(config) : Submitted(g) => g.active

\* The loop over groups leaves nothing exactly if each submitted group is an active
\* one, succeeds exactly if each active group passes, and if it does both it has
\* added up what all the groups cost, for n items, in a Go int.
LEMMA GroupsTaken ==
    ASSUME PricingTypeOK, AllDiffer(selection, GroupOf), NEW n \in Int
    PROVE  LET end == TakeGroups(config, selection, n)
           IN  /\ end.left = {} <=>
                     \A i \in DOMAIN selection :
                        \E g \in ToSet(config) : g.active /\ g.id = selection[i].group
               /\ end.ok <=> \A g \in ToSet(config) : g.active => GroupPasses(g)
               /\ end.ok /\ end.left = {} =>
                     end.delta = GoInt(n * SumFunction([g \in ToSet(config) |-> CostOf(g)]))
<1>1. PICK acc \in [0 .. Len(config) -> Passed] :
         /\ acc[0] = AtStart
         /\ \A k \in 1 .. Len(config) : acc[k] = TakeGroup(selection, n, acc[k - 1], config[k])
         /\ TakeGroups(config, selection, n) = acc[Len(config)]
  BY GroupLoop
<1> DEFINE costs == [g \in ToSet(config) |-> CostOf(g)]
           First(k) == {config[a] : a \in 1 .. k}
           Left(k) == AtStart.left \ {g.id : g \in {h \in First(k) : h.active}}
           Passes(k) == \A g \in First(k) : g.active => GroupPasses(g)
           Priced(k) == acc[k].delta = GoInt(n * SumFunctionOnSet(costs, First(k)))
           T == {k \in 0 .. Len(config) : /\ acc[k].left = Left(k)
                                          /\ acc[k].ok <=> Passes(k)
                                          /\ acc[k].ok /\ NoneHidden => Priced(k)}
<1>2. Len(config) \in Nat /\ DOMAIN config = 1 .. Len(config)
  BY DEF PricingTypeOK
<1>3. First(Len(config)) = ToSet(config)
  BY <1>2 DEF ToSet
<1>4. \A g : g.id \in AtStart.left <=> Submitted(g)
  BY DEF AtStart, Submitted, ToSet
<1>5. 0 \in T
  <2>1. First(0) = {}
    OBVIOUS
  <2>2. SumFunctionOnSet(costs, First(0)) = 0
    BY <2>1, SumOverNothing
  <2>3. acc[0].ok /\ acc[0].delta = 0 /\ acc[0].left = AtStart.left
    BY <1>1 DEF AtStart
  <2>4. Left(0) = AtStart.left
    BY <2>1
  <2>5. Passes(0)
    BY <2>1
  <2>6. Priced(0)
    <3>1. GoInt(0) = 0 /\ n * 0 = 0
      BY PricingAssumption, GoIntFacts DEF GoInts
    <3>2. QED
      BY <2>2, <2>3, <3>1
  <2> HIDE DEF Left, Passes, Priced
  <2>7. QED
    BY <1>2, <2>3, <2>4, <2>5, <2>6
<1>6. ASSUME NEW k \in 1 .. Len(config), k - 1 \in T
      PROVE  k \in T
  <2>1. PICK g, before, after : g = config[k] /\ before = acc[k - 1] /\ after = acc[k]
    OBVIOUS
  <2>2. /\ g \in ToSet(config) /\ g \in GroupConfig /\ ValidGroup(g) /\ before \in Passed
        /\ after = TakeGroup(selection, n, before, g)
    <3>1. g \in ToSet(config)
      BY <1>2, <2>1 DEF ToSet
    <3>2. k - 1 \in 0 .. Len(config)
      BY <1>2
    <3>3. before \in Passed /\ after = TakeGroup(selection, n, before, g)
      BY <1>1, <2>1, <3>2
    <3>4. QED
      BY <3>1, <3>3, GroupsTyped
  <2>3. First(k) = First(k - 1) \union {g}
    BY <2>1
  <2>4. \A h \in First(k - 1) : h \in ToSet(config) /\ h.id # g.id
    BY <1>2, <2>1 DEF PricingTypeOK, ValidateConfig, AllDiffer, IdOf, ToSet
  <2>5. g.id \in before.left <=> Submitted(g)
    <3>1. before.left = Left(k - 1)
      BY <1>6, <2>1
    <3>2. QED
      BY <1>4, <2>4, <3>1
  <2>6. SumFunctionOnSet(costs, First(k)) = CostOf(g) + SumFunctionOnSet(costs, First(k - 1))
        /\ CostOf(g) \in Int /\ SumFunctionOnSet(costs, First(k - 1)) \in Int
    <3>1. \A h \in First(k) : h \in ToSet(config)
      BY <2>2, <2>3, <2>4
    <3>2. IsFiniteSet(First(k))
      BY <3>1, GroupsTyped, FS_Subset
    <3>3. \A h \in First(k) : costs[h] \in Int
      BY <3>1, GroupsTyped, CostIsAnInt
    <3>4. g \in First(k) /\ First(k - 1) = First(k) \ {g} /\ costs[g] = CostOf(g)
      BY <2>2, <2>3, <2>4
    <3>5. PICK all, but : all = First(k) /\ but = First(k - 1)
      OBVIOUS
    <3> HIDE DEF First, costs, T
    <3>6. /\ SumFunctionOnSet(costs, all) = costs[g] + SumFunctionOnSet(costs, but)
          /\ SumFunctionOnSet(costs, but) \in Int
          /\ costs[g] \in Int
      BY <3>2, <3>3, <3>4, <3>5, SumAndRest
    <3>7. QED
      BY <3>4, <3>5, <3>6
  <2>7. CASE g.active
    <3>1. /\ after.left = before.left \ {g.id}
          /\ after.ok <=> before.ok /\ GroupPasses(g)
          /\ after.ok => after.delta = GoInt(before.delta + n * CostOf(g))
      BY <2>2, <2>5, <2>7, TakeGroupDecides
    <3>2. after.left = Left(k)
      BY <1>6, <2>1, <2>3, <2>7, <3>1
    <3>3. after.ok <=> Passes(k)
      BY <1>6, <2>1, <2>3, <2>7, <3>1
    <3>4. ASSUME after.ok, NoneHidden
          PROVE  Priced(k)
      <4>1. PICK sum \in Int, cost \in Int :
               sum = SumFunctionOnSet(costs, First(k - 1)) /\ cost = CostOf(g)
        BY <2>6
      <4>2. PICK x \in Int, y \in Int : x = n * sum /\ y = n * cost
        OBVIOUS
      <4>3. before.delta = GoInt(x)
        BY <1>6, <2>1, <3>1, <3>4, <4>1, <4>2
      <4>4. after.delta = GoInt(GoInt(x) + y)
        BY <3>1, <3>4, <4>1, <4>2, <4>3
      <4>5. GoInt(GoInt(x) + y) = GoInt(x + y)
        BY GoIntFacts
      <4>6. n * (cost + sum) = n * sum + n * cost
        OBVIOUS
      <4>7. x + y = n * SumFunctionOnSet(costs, First(k))
        BY <2>6, <4>1, <4>2, <4>6
      <4>8. QED
        BY <2>1, <4>4, <4>5, <4>7
    <3> HIDE DEF Left, Passes, Priced
    <3>5. QED
      BY <1>2, <2>1, <3>2, <3>3, <3>4
  <2>8. CASE ~g.active
    <3>1. after = before
      BY <2>2, <2>8 DEF TakeGroup
    <3>2. after.left = Left(k)
      BY <1>6, <2>1, <2>3, <2>8, <3>1
    <3>3. after.ok <=> Passes(k)
      BY <1>6, <2>1, <2>3, <2>8, <3>1
    <3>4. NoneHidden => CostOf(g) = 0
      BY <2>2, <2>8, NothingAsked DEF NoneHidden, Submitted
    <3>5. after.ok /\ NoneHidden => Priced(k)
      BY <1>6, <2>1, <2>6, <3>1, <3>4
    <3> HIDE DEF Left, Passes, Priced
    <3>6. QED
      BY <1>2, <2>1, <3>2, <3>3, <3>5
  <2>9. QED
    BY <2>7, <2>8
<1> HIDE DEF T, Left, Passes, Priced
<1>7. \A k \in 0 .. Len(config) : k \in T
  BY <1>2, <1>5, <1>6, CountingUp
<1>8. PICK end : end = acc[Len(config)]
  OBVIOUS
<1>9. /\ end.left = Left(Len(config))
      /\ end.ok <=> Passes(Len(config))
      /\ end.ok /\ NoneHidden => Priced(Len(config))
  <2>1. Len(config) \in T
    BY <1>2, <1>7
  <2>2. QED
    BY <1>8, <2>1 DEF T
<1>10. end.left = {} <=> \A i \in DOMAIN selection :
                           \E g \in ToSet(config) : g.active /\ g.id = selection[i].group
  <2>1. AtStart.left = {selection[i].group : i \in DOMAIN selection}
    BY DEF AtStart, ToSet
  <2>2. Left(Len(config)) = AtStart.left \ {g.id : g \in {h \in ToSet(config) : h.active}}
    BY <1>3 DEF Left
  <2>3. QED
    BY <1>9, <2>1, <2>2
<1>11. end.ok <=> \A g \in ToSet(config) : g.active => GroupPasses(g)
  BY <1>3, <1>9 DEF Passes
<1>12. end.left = {} => NoneHidden
  BY <1>10, GroupsTyped DEF NoneHidden, Submitted
<1>13. Priced(Len(config)) => end.delta = GoInt(n * SumFunction(costs))
  <2>1. SumFunction(costs) = SumFunctionOnSet(costs, ToSet(config))
    BY DEF SumFunction
  <2> HIDE DEF costs
  <2>2. QED
    BY <1>3, <1>8, <2>1 DEF Priced
<1>14. end = TakeGroups(config, selection, n)
  BY <1>1, <1>8
<1>15. QED
  BY <1>9, <1>10, <1>11, <1>12, <1>13, <1>14

-----------------------------------------------------------------------------
(* Pricing: the decision and the contract.                                 *)
\* What the contract asks of a pick in group g.
ContractFits(g, pick) ==
    /\ Offer(g, pick) # {}
    /\ QuantityOf(pick) >= 1
    /\ QuantityOf(pick) > 1 =>
          /\ g.multiple
          /\ \A o \in Offer(g, pick) : o.limit = 0 \/ QuantityOf(pick) <= o.limit

\* The code's test of a pick is the contract's: a limit of 0 is none, and where only
\* one unit is allowed, there is no other quantity.
LEMMA FitsTheContract ==
    ASSUME NEW g \in GroupConfig, ValidGroup(g), NEW pick \in OptionSelection
    PROVE  PickFits(g, pick) <=> ContractFits(g, pick)
<1>1. QuantityOf(pick) \in Int /\ g.multiple \in BOOLEAN
  BY QuantityIsAnInt DEF GroupConfig
<1>2. \A o \in Offer(g, pick) : /\ o \in ToSet(g.options) /\ o.active /\ o.id = pick.option
                                /\ o.limit \in Nat
  BY OptionsTyped DEF Offer, ValidGroup
<1>3. \A o \in Offer(g, pick), p \in Offer(g, pick) : o = p
  BY <1>2, OneOptionPerId
<1>4. PickFits(g, pick) <=> \E o \in Offer(g, pick) : QuantityAllowed(g, o, QuantityOf(pick))
  BY <1>2 DEF PickFits, Offer
<1>5. ASSUME NEW o \in Offer(g, pick)
      PROVE  QuantityAllowed(g, o, QuantityOf(pick)) <=>
                /\ QuantityOf(pick) >= 1
                /\ QuantityOf(pick) > 1 =>
                      g.multiple /\ (o.limit = 0 \/ QuantityOf(pick) <= o.limit)
  <2>1. PICK q \in Int, limit \in Nat : q = QuantityOf(pick) /\ limit = o.limit
    BY <1>1, <1>2
  <2>2. q >= 1 => (~(q > 1) <=> q = 1)
    OBVIOUS
  <2>3. q = 1 => (limit > 0 => q <= limit)
    OBVIOUS
  <2>4. limit = 0 <=> ~(limit > 0)
    OBVIOUS
  <2>5. QED
    BY <1>1, <2>1, <2>2, <2>3, <2>4 DEF QuantityAllowed
<1>6. QED
  BY <1>3, <1>4, <1>5 DEF ContractFits

\* The loop over options succeeds exactly if the contract allows the submitted group.
LEMMA FirstFitMeans ==
    ASSUME PricingTypeOK, NEW i \in DOMAIN selection, NEW g \in ToSet(config),
           g.active, g.id = selection[i].group
    PROVE  LET sub == selection[i]
           IN  FirstFit(g, sub.options, Len(sub.options)) <=>
                  /\ AllDiffer(sub.options, OptionOf)
                  /\ \A h \in Aimed(sub), pick \in ToSet(sub.options) : ContractFits(h, pick)
<1> DEFINE picks == selection[i].options
<1>1. g \in GroupConfig /\ ValidGroup(g) /\ Aimed(selection[i]) = {g}
  BY GroupsTyped DEF Aimed
<1>2. picks \in Seq(OptionSelection) /\ DOMAIN picks = 1 .. Len(picks)
  BY UnitsTyped
<1>3. \A k \in DOMAIN picks : PickFits(g, picks[k]) <=> ContractFits(g, picks[k])
  BY <1>1, <1>2, FitsTheContract
<1>4. AllDiffer(picks, OptionOf) <=>
         \A k, l \in DOMAIN picks : picks[k].option = picks[l].option => k = l
  BY DEF AllDiffer, OptionOf
<1>5. FirstFit(g, picks, Len(picks)) <=>
         /\ AllDiffer(picks, OptionOf)
         /\ \A pick \in ToSet(picks) : ContractFits(g, pick)
  <2> HIDE DEF picks
  <2>1. QED
    BY <1>2, <1>3, <1>4 DEF FirstFit, ToSet
<1>6. QED
  BY <1>1, <1>5

\* AllowedWith, in the terms of GroupsTaken: what it asks of the groups submitted and
\* of the groups configured is what is asked of each active group.
LEMMA AllowedMeans ==
    ASSUME PricingTypeOK, NEW units, \A g \in ToSet(config) : units[g] \in Int
    PROVE  AllowedWith(units) <=>
              /\ AllDiffer(selection, GroupOf)
              /\ \A i \in DOMAIN selection :
                    \E g \in ToSet(config) : g.active /\ g.id = selection[i].group
              /\ \A g \in ToSet(config) : g.active => GroupFits(g, units[g])
<1> DEFINE aimed == \A i \in DOMAIN selection :
                       \E g \in ToSet(config) : g.active /\ g.id = selection[i].group
           Fine(sub) == /\ AllDiffer(sub.options, OptionOf)
                        /\ \A h \in Aimed(sub), pick \in ToSet(sub.options) : ContractFits(h, pick)
           Wants(g) == IF \E sub \in ToSet(selection) : sub.group = g.id
                       THEN g.min <= units[g] /\ units[g] <= g.max
                       ELSE ~g.required /\ g.min = 0
<1>1. aimed <=> \A sub \in ToSet(selection) : Aimed(sub) # {}
  BY DEF Aimed, ToSet
<1>2. \A g : Submitted(g) <=> \E sub \in ToSet(selection) : sub.group = g.id
  BY DEF Submitted, ToSet
<1>3. \A i \in DOMAIN selection, g \in ToSet(config) :
         g.active /\ g.id = selection[i].group =>
            (FirstFit(g, selection[i].options, Len(selection[i].options)) <=> Fine(selection[i]))
  BY FirstFitMeans
<1>4. \A g \in ToSet(config) : g.min \in Int /\ g.max \in Int
  BY GroupsTyped, PricingAssumption DEF GroupConfig, GoInts
<1>5. \A g \in ToSet(config) : units[g] \in g.min .. g.max <=>
                                  g.min <= units[g] /\ units[g] <= g.max
  BY <1>4
<1>6. \A g \in ToSet(config) : g.active =>
         (GroupFits(g, units[g]) <=> /\ Wants(g)
                                     /\ \A i \in DOMAIN selection :
                                           selection[i].group = g.id => Fine(selection[i]))
  <2> HIDE DEF Fine
  <2>1. QED
    BY <1>2, <1>3, <1>5 DEF GroupFits, Submitted
<1>7. AllowedWith(units) <=> /\ AllDiffer(selection, GroupOf)
                             /\ \A sub \in ToSet(selection) : Aimed(sub) # {} /\ Fine(sub)
                             /\ \A g \in ToSet(config) : g.active => Wants(g)
  BY DEF AllowedWith, ContractFits
<1> HIDE DEF Fine, Wants
<1>8. (\A sub \in ToSet(selection) : Fine(sub)) <=> \A i \in DOMAIN selection : Fine(selection[i])
  BY DEF ToSet
<1>9. QED
  BY <1>1, <1>6, <1>7, <1>8

\* The units asked of each group, and what a Go int keeps of them.
UnitsAsked == [g \in ToSet(config) |-> AskedOf(g)]
WordsAsked == [g \in ToSet(config) |-> GoInt(AskedOf(g))]

\* Both are integers.
LEMMA AskedTyped ==
    ASSUME PricingTypeOK, NEW g \in ToSet(config)
    PROVE  /\ UnitsAsked[g] = AskedOf(g) /\ UnitsAsked[g] \in Int
           /\ WordsAsked[g] = GoInt(AskedOf(g)) /\ WordsAsked[g] \in Int
<1>1. AskedOf(g) \in Int
  BY GroupsTyped, CostIsAnInt
<1>2. GoInt(AskedOf(g)) \in Int
  BY <1>1, GoIntFacts
<1>3. QED
  BY <1>1, <1>2 DEF UnitsAsked, WordsAsked

\* BuildSnapshot accepts what the contract would allow if units were counted in Go
\* ints, and then adds what a Go int keeps of the price of all units asked for, for
\* every configuration, selection and quantity.
LEMMA SnapshotDecides ==
    ASSUME PricingTypeOK, NEW n \in ItemQuantities
    PROVE  LET snapshot == BuildSnapshot(config, selection, n)
           IN  /\ snapshot.ok <=> AllowedWith(WordsAsked)
               /\ snapshot.ok => snapshot.delta =
                     GoInt(n * SumFunction([g \in ToSet(config) |-> CostOf(g)]))
<1>1. n \in Int
  BY PricingAssumption
<1>2. ValidateConfig(config)
  BY DEF PricingTypeOK
<1>3. PICK end : end = TakeGroups(config, selection, n)
  OBVIOUS
<1>4. BuildSnapshot(config, selection, n)
         = IF AllDiffer(selection, GroupOf) /\ end.ok /\ end.left = {}
           THEN [ok |-> TRUE, delta |-> end.delta]
           ELSE [ok |-> FALSE, delta |-> 0]
  BY <1>2, <1>3 DEF BuildSnapshot, Rejected
<1>5. AllowedWith(WordsAsked) <=>
         /\ AllDiffer(selection, GroupOf)
         /\ \A i \in DOMAIN selection :
               \E g \in ToSet(config) : g.active /\ g.id = selection[i].group
         /\ \A g \in ToSet(config) : g.active => GroupPasses(g)
  BY AskedTyped, AllowedMeans DEF GroupPasses
<1>6. CASE AllDiffer(selection, GroupOf)
  <2>1. /\ end.left = {} <=>
              \A i \in DOMAIN selection :
                 \E g \in ToSet(config) : g.active /\ g.id = selection[i].group
        /\ end.ok <=> \A g \in ToSet(config) : g.active => GroupPasses(g)
        /\ end.ok /\ end.left = {} =>
              end.delta = GoInt(n * SumFunction([g \in ToSet(config) |-> CostOf(g)]))
    BY <1>1, <1>3, <1>6, GroupsTaken
  <2>2. end.ok /\ end.left = {} <=> AllowedWith(WordsAsked)
    BY <1>5, <1>6, <2>1
  <2>3. QED
    BY <1>4, <1>6, <2>1, <2>2
<1>7. CASE ~AllDiffer(selection, GroupOf)
  BY <1>4, <1>5, <1>7
<1>8. QED
  BY <1>6, <1>7

-----------------------------------------------------------------------------
(* Pricing: when counting in Go ints makes a difference.                   *)

\* Units that are natural numbers come to a natural number.
LEMMA SumIsANatural ==
    ASSUME NEW f, NEW D, IsFiniteSet(D), \A x \in D : f[x] \in Nat
    PROVE  SumFunctionOnSet(f, D) \in Nat
<1> DEFINE T == {s \in SUBSET D : SumFunctionOnSet(f, s) \in Nat}
<1>1. ASSUME NEW s \in SUBSET D,
             \A r \in SUBSET D : r # s /\ r \subseteq s => r \in T
      PROVE  s \in T
  <2>1. CASE s = {}
    BY <2>1, SumOverNothing
  <2>2. CASE s # {}
    <3>1. PICK x \in s : TRUE
      BY <2>2
    <3>2. IsFiniteSet(s) /\ f[x] \in Nat /\ \A y \in s : f[y] \in Int
      BY FS_Subset
    <3>3. SumFunctionOnSet(f, s) = f[x] + SumFunctionOnSet(f, s \ {x})
      BY <3>2, SumWithoutOne
    <3>4. SumFunctionOnSet(f, s \ {x}) \in Nat
      BY <1>1
    <3>5. QED
      BY <3>2, <3>3, <3>4
  <2>3. QED
    BY <2>1, <2>2
<1> HIDE DEF T
<1>2. \A s \in SUBSET D : s \in T
  BY <1>1, Shrinking
<1>3. QED
  BY <1>2 DEF T

\* If each pick asks for one unit at least, no group is asked for less than none.
LEMMA AskedIsANatural ==
    ASSUME PricingTypeOK, NEW g \in GroupConfig,
           \A sub \in ToSet(selection) : \A pick \in ToSet(sub.options) : QuantityOf(pick) >= 1
    PROVE  AskedOf(g) \in Nat
<1> DEFINE K == ToSet(g.options)
           asked == [o \in K |-> Asked(g, o)]
<1>1. ASSUME NEW p \in DOMAIN Units
      PROVE  Units[p] \in Nat
  <2>1. /\ p[1] \in DOMAIN selection /\ p = <<p[1], p[2]>>
        /\ p[2] \in 1 .. Len(selection[p[1]].options)
    BY UnitsTyped
  <2>2. PICK i \in DOMAIN selection : i = p[1]
    BY <2>1
  <2>3. PICK k \in 1 .. Len(selection[i].options) : p = <<i, k>>
    BY <2>1, <2>2
  <2>4. Units[p] = QuantityOf(selection[i].options[k]) /\ Units[p] \in Int
    BY <2>3, UnitsTyped
  <2>5. selection[i] \in ToSet(selection)
        /\ selection[i].options[k] \in ToSet(selection[i].options)
    <3>1. selection[i].options \in Seq(OptionSelection)
      BY UnitsTyped
    <3>2. QED
      BY <3>1 DEF ToSet
  <2>6. QED
    BY <2>4, <2>5
<1>2. ASSUME NEW o \in K
      PROVE  Asked(g, o) \in Nat
  <2>1. IsFiniteSet(PartFor(g, o)) /\ \A p \in PartFor(g, o) : Units[p] \in Nat
    BY <1>1, UnitsTyped, FS_Subset DEF PartFor
  <2>2. QED
    BY <2>1, SumIsANatural DEF Asked, PartFor
<1>3. IsFiniteSet(K) /\ \A o \in K : asked[o] \in Nat
  BY <1>2, OptionsTyped
<1>4. SumFunctionOnSet(asked, K) \in Nat
  <2> HIDE DEF asked, K
  <2>1. QED
    BY <1>3, SumIsANatural
<1>5. QED
  BY <1>4 DEF AskedOf, SumFunction

\* What the contract allows is allowed if units are counted in Go ints: no group
\* wants more units than such a number can be.
LEMMA AllowedInWords ==
    ASSUME PricingTypeOK, AllowedWith(UnitsAsked)
    PROVE  AllowedWith(WordsAsked)
<1>1. ASSUME NEW g \in ToSet(config), GroupFits(g, AskedOf(g))
      PROVE  GroupFits(g, GoInt(AskedOf(g)))
  <2>1. /\ g.min \in Int /\ g.max \in Int /\ 0 <= g.min /\ g.max <= WordLimit - 1
        /\ AskedOf(g) \in Int
    BY GroupsTyped, CostIsAnInt, PricingAssumption DEF GroupConfig, ValidGroup, GoInts
  <2>2. AskedOf(g) \in g.min .. g.max => GoInt(AskedOf(g)) = AskedOf(g)
    <3> SUFFICES ASSUME AskedOf(g) \in g.min .. g.max PROVE GoInt(AskedOf(g)) = AskedOf(g)
      OBVIOUS
    <3>1. AskedOf(g) \in GoInts
      BY <2>1, PricingAssumption DEF GoInts
    <3>2. QED
      BY <2>1, <3>1, GoIntFacts
  <2>3. QED
    BY <1>1, <2>2 DEF GroupFits
<1>2. QED
  BY <1>1, AskedTyped, AllowedMeans

\* A number of units that a Go int keeps as a natural number, but not as it is, is
\* 2^64 at least.
LEMMA WrappedIsLarge ==
    ASSUME NEW asked \in Nat, GoInt(asked) >= 0, GoInt(asked) # asked
    PROVE  asked >= 2 * WordLimit
<1>1. PICK L \in Nat \ {0} : L = WordLimit
  BY PricingAssumption
<1>2. PICK w \in -L .. L - 1 : w = GoInt(asked) /\ Congruent(asked, w, L)
  BY <1>1, WrapFacts DEF GoInt
<1>3. PICK k \in Int : asked = w + (2 * L) * k
  BY <1>2 DEF Congruent
<1>4. CASE k >= 1
  <2>1. (2 * L) * k >= 2 * L
    BY <1>4
  <2>2. QED
    BY <1>1, <1>2, <1>3, <2>1
<1>5. CASE k <= -1
  <2>1. (2 * L) * k <= -(2 * L)
    BY <1>5
  <2>2. QED
    BY <1>2, <1>3, <2>1
<1>6. CASE k = 0
  BY <1>2, <1>3, <1>6
<1>7. QED
  BY <1>4, <1>5, <1>6

\* Where the contract forbids what is allowed if units are counted in Go ints, some
\* group is asked for so many units that they wrap around.
LEMMA ForbiddenByWords ==
    ASSUME PricingTypeOK, AllowedWith(WordsAsked), ~AllowedWith(UnitsAsked)
    PROVE  \E g \in ToSet(config) : AskedOf(g) >= 2 * WordLimit
<1>1. PICK g \in ToSet(config) :
         g.active /\ GroupFits(g, GoInt(AskedOf(g))) /\ ~GroupFits(g, AskedOf(g))
  BY AskedTyped, AllowedMeans
<1>2. GoInt(AskedOf(g)) \in g.min .. g.max /\ AskedOf(g) \notin g.min .. g.max
  BY <1>1 DEF GroupFits
<1>3. g.min \in Int /\ g.max \in Int /\ 0 <= g.min
  BY GroupsTyped, PricingAssumption DEF GroupConfig, ValidGroup, GoInts
<1>4. AskedOf(g) \in Nat
  <2>1. ASSUME NEW sub \in ToSet(selection), NEW pick \in ToSet(sub.options)
        PROVE  QuantityOf(pick) >= 1
    BY DEF AllowedWith
  <2>2. QED
    BY <2>1, GroupsTyped, AskedIsANatural
<1>5. PICK asked \in Nat, word \in Int : asked = AskedOf(g) /\ word = GoInt(asked)
  BY <1>4, GoIntFacts
<1>6. word >= 0 /\ word # asked
  BY <1>2, <1>3, <1>5
<1>7. QED
  BY <1>5, <1>6, WrappedIsLarge

-----------------------------------------------------------------------------
(* Pricing: the theorems.                                                  *)
\* An item without modifiers and an empty selection have their types.
LEMMA PricingTypeInit ==
    PricingInit => PricingTypeOK
BY DEF PricingInit, PricingTypeOK, ValidateConfig, AllDiffer, ToSet

\* Storing a configuration and growing a selection keep the types: DecodeConfigMap
\* stores only what is valid.
LEMMA PricingTypeStep ==
    ASSUME PricingTypeOK, [PricingNext]_pricingVars
    PROVE  PricingTypeOK'
<1>1. CASE \E cfg \in Configs : Configure(cfg)
  <2>1. PICK cfg \in Configs : Configure(cfg)
    BY <1>1
  <2>2. cfg \in Seq(GroupConfig)
    BY PricingAssumption
  <2>3. config' = cfg /\ selection' = selection /\ ValidateConfig(cfg)
    BY <2>1 DEF Configure
  <2>4. ValidateConfig(config)'
    BY <2>3 DEF ValidateConfig
  <2>5. QED
    BY <2>2, <2>3, <2>4 DEF PricingTypeOK
<1>2. CASE \E id \in GroupIds : Submit(id)
  <2>1. PICK id \in GroupIds : Submit(id)
    BY <1>2
  <2> DEFINE sub == [group |-> id, options |-> <<>>]
  <2>2. config' = config /\ selection' = Append(selection, sub)
    BY <2>1 DEF Submit
  <2>3. sub \in GroupSelection /\ Len(sub.options) = 0
    BY DEF GroupSelection
  <2>4. MaxPicks \in Nat
    BY PricingAssumption
  <2>5. selection' \in Seq(GroupSelection)
    BY <2>2, <2>3 DEF PricingTypeOK
  <2>6. \A i \in DOMAIN selection' : Len(selection'[i].options) <= MaxPicks
    BY <2>2, <2>3, <2>4 DEF PricingTypeOK
  <2>7. ValidateConfig(config)'
    BY <2>2 DEF PricingTypeOK, ValidateConfig
  <2>8. QED
    BY <2>2, <2>5, <2>6, <2>7 DEF PricingTypeOK
<1>3. CASE \E id \in OptionIds, quantity \in Quantities : Pick(id, quantity)
  <2>1. PICK id \in OptionIds, quantity \in Quantities : Pick(id, quantity)
    BY <1>3
  <2> DEFINE k == Len(selection)
             pick == [option |-> id, quantity |-> quantity]
             sub == [selection[k] EXCEPT !.options = Append(@, pick)]
  <2>2. /\ k > 0 /\ Len(selection[k].options) < MaxPicks
        /\ selection' = [selection EXCEPT ![k] = sub] /\ config' = config
    BY <2>1 DEF Pick
  <2>3. k \in DOMAIN selection /\ selection[k] \in GroupSelection
    BY <2>2 DEF PricingTypeOK
  <2>4. selection[k].options \in Seq(OptionSelection) /\ pick \in OptionSelection
    BY <2>3 DEF GroupSelection, OptionSelection
  <2>5. sub \in GroupSelection /\ sub.options = Append(selection[k].options, pick)
    BY <2>3, <2>4 DEF GroupSelection
  <2>6. MaxPicks \in Nat
    BY PricingAssumption
  <2>7. Len(sub.options) <= MaxPicks
    BY <2>2, <2>4, <2>5, <2>6
  <2> HIDE DEF sub
  <2>8. selection' \in Seq(GroupSelection) /\ DOMAIN selection' = DOMAIN selection
    BY <2>2, <2>3, <2>5 DEF PricingTypeOK
  <2>9. \A i \in DOMAIN selection' : Len(selection'[i].options) <= MaxPicks
    BY <2>2, <2>7, <2>8 DEF PricingTypeOK
  <2>10. ValidateConfig(config)'
    BY <2>2 DEF PricingTypeOK, ValidateConfig
  <2>11. QED
    BY <2>2, <2>8, <2>9, <2>10 DEF PricingTypeOK
<1>4. CASE UNCHANGED pricingVars
  BY <1>4 DEF pricingVars, PricingTypeOK, ValidateConfig
<1>5. QED
  BY <1>1, <1>2, <1>3, <1>4 DEF PricingNext

\* The types of Pricing hold in every state.
THEOREM PricingTypeCorrect ==
    PricingSpec => []PricingTypeOK
<1>1. PricingInit => PricingTypeOK
  BY PricingTypeInit
<1>2. PricingTypeOK /\ [PricingNext]_pricingVars => PricingTypeOK'
  BY PricingTypeStep
<1>3. QED
  BY <1>1, <1>2, PTL DEF PricingSpec

\* Every selection that the contract allows is accepted, and one that it forbids only
\* if the units asked of some group wrap around, whatever the configuration, the order
\* of groups and options in it, the selection and the width of a Go int.
THEOREM ContractHeldUnlessUnitsWrap ==
    PricingSpec => []AcceptsUnlessUnitsWrap
<1>1. PricingTypeOK => AcceptsUnlessUnitsWrap
  <2> SUFFICES ASSUME PricingTypeOK, NEW n \in ItemQuantities
               PROVE  LET ok == BuildSnapshot(config, selection, n).ok
                      IN  /\ Acceptable => ok
                          /\ ok => AllowedWith(WordsAsked)
                          /\ ok /\ ~Acceptable =>
                                \E g \in ToSet(config) : AskedOf(g) >= 2 * WordLimit
    BY DEF AcceptsUnlessUnitsWrap, WordsAsked
  <2>1. Acceptable <=> AllowedWith(UnitsAsked)
    BY DEF Acceptable, UnitsAsked
  <2>2. BuildSnapshot(config, selection, n).ok <=> AllowedWith(WordsAsked)
    BY SnapshotDecides
  <2>3. QED
    BY <2>1, <2>2, AllowedInWords, ForbiddenByWords
<1>2. QED
  BY <1>1, PricingTypeCorrect, PTL

\* An accepted selection adds what a Go int keeps of the price of every unit asked
\* for, for each of the items, and nothing else: the price itself where it is a Go
\* int, however many groups, options and units there are.
THEOREM PricedUnlessCentsWrap ==
    PricingSpec => []PricesUnlessCentsWrap
<1>1. PricingTypeOK => PricesUnlessCentsWrap
  <2> SUFFICES ASSUME PricingTypeOK, NEW n \in ItemQuantities,
                      BuildSnapshot(config, selection, n).ok
               PROVE  LET price == n * SumFunction([g \in ToSet(config) |-> CostOf(g)])
                      IN  BuildSnapshot(config, selection, n).delta
                             = IF price \in GoInts THEN price ELSE GoInt(price)
    BY DEF PricesUnlessCentsWrap
  <2>1. BuildSnapshot(config, selection, n).delta
           = GoInt(n * SumFunction([g \in ToSet(config) |-> CostOf(g)]))
    BY SnapshotDecides
  <2>2. PICK price \in Int : price = n * SumFunction([g \in ToSet(config) |-> CostOf(g)])
    <3>1. n \in Int
      BY PricingAssumption
    <3> DEFINE costs == [g \in ToSet(config) |-> CostOf(g)]
    <3>2. IsFiniteSet(ToSet(config)) /\ \A g \in ToSet(config) : costs[g] \in Int
      BY GroupsTyped, CostIsAnInt
    <3>3. SumFunctionOnSet(costs, ToSet(config)) \in Int
      <4> HIDE DEF costs
      <4>1. QED
        BY <3>2, SumIsAnInt
    <3>4. SumFunction(costs) \in Int
      BY <3>3 DEF SumFunction
    <3>5. QED
      BY <3>1, <3>4
  <2>3. price \in GoInts => GoInt(price) = price
    BY GoIntFacts
  <2>4. QED
    BY <2>1, <2>2, <2>3
<1>2. QED
  BY <1>1, PricingTypeCorrect, PTL
==============================================================================
