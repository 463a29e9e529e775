-------------------------------- MODULE Menu --------------------------------
(***************************************************************************)
(* The menu: staff create, update and delete categories and items, guests  *)
(* browse it and order from it (internal/menu, and the part of PlaceOrder  *)
(* that reads the menu).                                                   *)
(*                                                                         *)
(* As in Sessions, a worker serves one request after the other and a       *)
(* database statement is one atomic step that locks nothing.  Rows keep    *)
(* what guests depend on: a category its visibility, an item its price and *)
(* availability.  Names, texts and the sort order are left out, and so are *)
(* requests that find nothing, which change nothing.                       *)
(***************************************************************************)
EXTENDS FiniteSets

CONSTANTS
    Categories,        \* identities of category rows
    Items,             \* identities of item rows
    Prices,
    Staff,             \* workers serving requests of staff
    Guests,            \* workers serving requests of guests
    Nil

ASSUME MenuAssumption ==
    /\ Categories \intersect Items = {}
    /\ Staff \intersect Guests = {}
    /\ Nil \notin Categories \union Items \union Prices

VARIABLES
    category,          \* the menu_categories table: id -> row
    item,              \* the menu_items table: id -> row
    pc,                \* where each worker is in its request
    target,            \* staff: the category or item of the request
    row,               \* staff: the row the request is about to write
    wanted,            \* guests: the categories or items still to be read
    lines              \* guests: the items read, each with its price

tables == <<category, item>>
staffVars == <<target, row>>
guestVars == <<wanted, lines>>
vars == <<tables, pc, staffVars, guestVars>>

Workers == Staff \union Guests

State == {"live", "deleted"}
CategoryRow == [state : State, visible : BOOLEAN]
ItemRow == [state : State, category : Categories, price : Prices, available : BOOLEAN]

NoCategory == [state |-> "none", visible |-> FALSE]
NoItem == [state |-> "none", category |-> Nil, price |-> Nil, available |-> FALSE]

\* Deleted rows stay in the table with a deleted_at that every query excludes.
LiveCategories == {c \in Categories : category[c].state = "live"}
LiveItems == {i \in Items : item[i].state = "live"}
ItemsIn(c) == {i \in LiveItems : item[i].category = c}

\* An INSERT replaces FALSE by the columns' default TRUE, whoever asked for
\* FALSE: gorm takes the zero value of a field with a default for a missing one.
CategoryInserted(r) == [r EXCEPT !.visible = TRUE]
ItemInserted(r) == [r EXCEPT !.available = TRUE]

Goto(u, label) == pc' = [pc EXCEPT ![u] = label]

\* The staff request of u has found what it is about and goes on with label.
Start(u, label, x, r) ==
    /\ pc[u] = "idle"
    /\ Goto(u, label)
    /\ target' = [target EXCEPT ![u] = x]
    /\ row' = [row EXCEPT ![u] = r]
    /\ UNCHANGED <<tables, guestVars>>

Done(u) ==
    /\ Goto(u, "idle")
    /\ target' = [target EXCEPT ![u] = Nil]
    /\ row' = [row EXCEPT ![u] = Nil]
    /\ UNCHANGED guestVars

Init ==
    /\ category = [c \in Categories |-> NoCategory]
    /\ item = [i \in Items |-> NoItem]
    /\ pc = [w \in Workers |-> "idle"]
    /\ target = [u \in Staff |-> Nil]
    /\ row = [u \in Staff |-> Nil]
    /\ wanted = [g \in Guests |-> {}]
    /\ lines = [g \in Guests |-> {}]

-----------------------------------------------------------------------------
(* Categories: menu/service.go CreateCategory, UpdateCategory,             *)
(* DeleteCategory.                                                         *)

CreateCategory(u) ==
    /\ pc[u] = "idle"
    /\ \E c \in Categories, visible \in BOOLEAN :
          /\ category[c].state = "none"
          /\ category' = [category EXCEPT ![c] =
                 CategoryInserted([state |-> "live", visible |-> visible])]
    /\ UNCHANGED <<item, pc, staffVars, guestVars>>

UpdateCategoryFind(u) ==
    \E c \in LiveCategories, visible \in BOOLEAN :
        Start(u, "saveCategory", c, [category[c] EXCEPT !.visible = visible])

\* gorm's Save: an UPDATE of the row unless it is deleted, and if that finds no
\* row, an INSERT that overwrites the one with the same id, deleted_at included.
UpdateCategorySave(u) ==
    /\ pc[u] = "saveCategory"
    /\ \/ /\ target[u] \in LiveCategories
          /\ category' = [category EXCEPT ![target[u]] = row[u]]
          /\ Done(u)
       \/ /\ target[u] \notin LiveCategories
          /\ Goto(u, "upsertCategory")
          /\ UNCHANGED <<category, staffVars, guestVars>>
    /\ UNCHANGED item

UpdateCategoryUpsert(u) ==
    /\ pc[u] = "upsertCategory"
    /\ category' = [category EXCEPT ![target[u]] = CategoryInserted(row[u])]
    /\ Done(u)
    /\ UNCHANGED item

\* With force the items are not counted.
DeleteCategoryFind(u) ==
    \E c \in LiveCategories, label \in {"countItems", "deleteCategory"} :
        Start(u, label, c, Nil)

\* Mutant of DeleteCategoryCount: only available items are counted.
DeleteCategoryCountOffered(u) ==
    /\ pc[u] = "countItems"
    /\ \/ /\ \A i \in ItemsIn(target[u]) : ~item[i].available
          /\ Goto(u, "deleteCategory")
          /\ UNCHANGED <<staffVars, guestVars>>
       \/ /\ \E i \in ItemsIn(target[u]) : item[i].available
          /\ Done(u)
    /\ UNCHANGED tables

DeleteCategoryCount(u) ==
    /\ pc[u] = "countItems"
    /\ \/ /\ ItemsIn(target[u]) = {}
          /\ Goto(u, "deleteCategory")
          /\ UNCHANGED <<staffVars, guestVars>>
       \/ /\ ItemsIn(target[u]) # {}
          /\ Done(u)
    /\ UNCHANGED tables

\* The items of the category stay as they are.
DeleteCategoryMark(u) ==
    /\ pc[u] = "deleteCategory"
    /\ category' = [category EXCEPT ![target[u]].state = "deleted"]
    /\ Done(u)
    /\ UNCHANGED item

CategoryStep(u) ==
    \/ CreateCategory(u)
    \/ UpdateCategoryFind(u) \/ UpdateCategorySave(u) \/ UpdateCategoryUpsert(u)
    \/ DeleteCategoryFind(u) \/ DeleteCategoryCount(u) \/ DeleteCategoryMark(u)

-----------------------------------------------------------------------------
(* Items: menu/service.go CreateItem, UpdateItem, DeleteItem.              *)

CreateItemFind(u) ==
    \E c \in LiveCategories, price \in Prices, available \in BOOLEAN :
        Start(u, "insertItem", c, [state |-> "live", category |-> c,
                                   price |-> price, available |-> available])

\* The category was found earlier; the foreign key is content with a deleted one.
CreateItemInsert(u) ==
    /\ pc[u] = "insertItem"
    /\ \E i \in Items :
          /\ item[i].state = "none"
          /\ item' = [item EXCEPT ![i] = ItemInserted(row[u])]
    /\ Done(u)
    /\ UNCHANGED category

\* Mutant of UpdateItemFind: deleted items are found as well.
UpdateItemFindUnscoped(u) ==
    \E i \in Items, price \in Prices, available \in BOOLEAN :
        /\ item[i] # NoItem
        /\ Start(u, "saveItem", i, [item[i] EXCEPT !.price = price, !.available = available])

\* Whatever the request leaves out stays as it was read.
UpdateItemFind(u) ==
    \E i \in LiveItems, price \in Prices, available \in BOOLEAN :
        Start(u, "saveItem", i, [item[i] EXCEPT !.price = price, !.available = available])

\* Save, as for categories.
UpdateItemSave(u) ==
    /\ pc[u] = "saveItem"
    /\ \/ /\ target[u] \in LiveItems
          /\ item' = [item EXCEPT ![target[u]] = row[u]]
          /\ Done(u)
       \/ /\ target[u] \notin LiveItems
          /\ Goto(u, "upsertItem")
          /\ UNCHANGED <<item, staffVars, guestVars>>
    /\ UNCHANGED category

UpdateItemUpsert(u) ==
    /\ pc[u] = "upsertItem"
    /\ item' = [item EXCEPT ![target[u]] = ItemInserted(row[u])]
    /\ Done(u)
    /\ UNCHANGED category

DeleteItemFind(u) == \E i \in LiveItems : Start(u, "deleteItem", i, Nil)

DeleteItemMark(u) ==
    /\ pc[u] = "deleteItem"
    /\ item' = [item EXCEPT ![target[u]].state = "deleted"]
    /\ Done(u)
    /\ UNCHANGED category

ItemStep(u) ==
    \/ CreateItemFind(u) \/ CreateItemInsert(u)
    \/ UpdateItemFind(u) \/ UpdateItemSave(u) \/ UpdateItemUpsert(u)
    \/ DeleteItemFind(u) \/ DeleteItemMark(u)

\* A statement fails, or one was applied and its answer is lost; the request
\* ends with an error.
StaffFail(u) ==
    /\ pc[u] # "idle"
    /\ Done(u)
    /\ UNCHANGED tables

StaffStep(u) == CategoryStep(u) \/ ItemStep(u) \/ StaffFail(u)

-----------------------------------------------------------------------------
(* Guests: GetPublicMenu, and the items of PlaceOrder.                     *)

OnOffer == {<<i, item[i].price>> : i \in {j \in LiveItems : item[j].available}}

Read(g, label, want, read) ==
    /\ Goto(g, label)
    /\ wanted' = [wanted EXCEPT ![g] = want]
    /\ lines' = [lines EXCEPT ![g] = read]
    /\ UNCHANGED <<tables, staffVars>>

\* ListVisibleCategoriesWithItems reads the categories first.
BrowseCategories(g) ==
    /\ pc[g] = "idle"
    /\ Read(g, "browse", {c \in LiveCategories : category[c].visible}, {})

\* ... and the available items of those categories in a second statement.
BrowseItems(g) ==
    /\ pc[g] = "browse"
    /\ Read(g, "respond", {}, {l \in OnOffer : item[l[1]].category \in wanted[g]})

\* An order names items by their ids, from whatever menu the guest has seen.
OrderStart(g) ==
    /\ pc[g] = "idle"
    /\ \E chosen \in (SUBSET Items) \ {{}} : Read(g, "order", chosen, {})

\* Mutant of OrderItem: availability is not tested.
OrderItemUntested(g) ==
    /\ pc[g] = "order"
    /\ \E i \in wanted[g] :
          \/ /\ i \in LiveItems
             /\ Read(g, "order", wanted[g] \ {i}, lines[g] \union {<<i, item[i].price>>})
          \/ i \notin LiveItems /\ Read(g, "idle", {}, {})

\* One item is read and tested; its category is not.
OrderItem(g) ==
    /\ pc[g] = "order"
    /\ \E i \in wanted[g] :
          \/ \E l \in OnOffer : l[1] = i /\ Read(g, "order", wanted[g] \ {i}, lines[g] \union {l})
          \/ (\A l \in OnOffer : l[1] # i) /\ Read(g, "idle", {}, {})

\* The menu is sent, or the order is placed with the prices read.
Finish(g) ==
    /\ \/ pc[g] = "respond"
       \/ pc[g] = "order" /\ wanted[g] = {}
    /\ Read(g, "idle", {}, {})

GuestStep(g) ==
    BrowseCategories(g) \/ BrowseItems(g) \/ OrderStart(g) \/ OrderItem(g) \/ Finish(g)

Next ==
    \/ \E u \in Staff : StaffStep(u)
    \/ \E g \in Guests : GuestStep(g)

Spec == Init /\ [][Next]_vars

-----------------------------------------------------------------------------
(* Properties.                                                             *)

\* Every variable has its type; a row has its category and price once inserted.
TypeOK ==
    /\ category \in [Categories -> CategoryRow \union {NoCategory}]
    /\ item \in [Items -> ItemRow \union {NoItem}]
    /\ pc \in [Workers -> {"idle", "saveCategory", "upsertCategory", "countItems",
                           "deleteCategory", "insertItem", "saveItem", "upsertItem",
                           "deleteItem", "browse", "respond", "order"}]
    /\ target \in [Staff -> Categories \union Items \union {Nil}]
    /\ row \in [Staff -> CategoryRow \union ItemRow \union {Nil}]
    /\ wanted \in [Guests -> (SUBSET Categories) \union (SUBSET Items)]
    /\ lines \in [Guests -> SUBSET (Items \X Prices)]

\* Deleted, and no update that read the row before is still to save it.
Gone(x) ==
    /\ x \in {c \in Categories : category[c].state = "deleted"}
             \union {i \in Items : item[i].state = "deleted"}
    /\ \A u \in Staff :
          pc[u] \in {"saveCategory", "upsertCategory", "saveItem", "upsertItem"} => target[u] # x

\* A deleted category or item can be brought back by an update that read it
\* before it was deleted, since Save inserts what it cannot update; once no such
\* update is under way, nothing a member of staff sends brings it back.
GoneStaysGone == [][\A x \in Categories \union Items : Gone(x) => Gone(x)']_vars
=============================================================================
