----------------------------- MODULE MenuHistory -----------------------------
(***************************************************************************)
(* Menu with history variables: what was on offer while a guest's request  *)
(* ran, and which items came to life after a deletion counted them.        *)
(***************************************************************************)
EXTENDS MCMenu

VARIABLES
    offered,           \* what was on offer at some time in each guest's request
    newcomers          \* items that came to life since staff counted items, or,
                       \* where they did not count, all of them

historyVars == <<offered, newcomers>>

HistoryInit ==
    /\ Init
    /\ offered = [g \in Guests |-> {}]
    /\ newcomers = [u \in Staff |-> Items]

HistoryNext ==
    /\ Next
    /\ offered' = [g \in Guests |->
           IF pc'[g] = "idle" THEN {}
           ELSE OnOffer' \union (IF pc[g] = "idle" THEN OnOffer ELSE offered[g])]
    /\ newcomers' = [u \in Staff |->
           IF pc'[u] # "deleteCategory" \/ pc[u] = "idle" THEN Items
           ELSE IF pc[u] = "countItems" THEN {}
           ELSE newcomers[u] \union (LiveItems' \ LiveItems)]

HistorySpec == HistoryInit /\ [][HistoryNext]_<<vars, historyVars>>

\* Every line of the menu a guest is shown, and every line of an order, was on
\* offer, at that price, at some time while the request was running, whatever
\* staff do between the statements of the request.
SoldAsOffered == \A g \in Guests : lines[g] \subseteq offered[g]

\* A deletion without force leaves no item behind in the category but those
\* created, or brought back, after it counted ("Category has active items. Use
\* force=true to delete anyway", menu/service.go).
UnforcedDeleteLeavesNewcomers ==
    [][\A u \in Staff : DeleteCategoryMark(u) => ItemsIn(target[u]) \subseteq newcomers[u]
      ]_<<vars, historyVars>>
=============================================================================
