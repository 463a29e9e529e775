---------------------------- MODULE StatusHistory ---------------------------
(***************************************************************************)
(* Orders with history variables for the updates of their statuses:        *)
(* properties that relate a status to earlier ones, or to the broadcasts,  *)
(* are stated over them.                                                   *)
(***************************************************************************)
EXTENDS MCOrders

VARIABLES
    been,              \* the statuses each order has had
    untold,            \* orders whose status was not broadcast since it was written
    failed,            \* orders with an update that ended without its broadcast
    raced              \* orders on which two updates were under way at once

historyVars == <<been, untold, failed, raced>>

HistoryInit ==
    /\ Init
    /\ been = [o \in Orders |-> {}]
    /\ untold = {}
    /\ failed = {}
    /\ raced = {}

\* The order a staff request writes, or broadcasts, in this step.
Written == {held[u] : u \in {v \in Staff : pc[v] = "write" /\ pc'[v] = "reread"}}
Sent == {held[u] : u \in {v \in Staff : pc[v] = "send" /\ pc'[v] = "idle"}}

HistoryNext ==
    /\ Next
    /\ been' = [o \in Orders |-> been[o] \union ({orders'[o].status} \ {"NONE"})]
    /\ untold' = (untold \union Written) \ {o \in Sent : feed'[o] = orders[o].status}
    /\ failed' = failed \union {held[u] : u \in {v \in Staff :
                                    pc[v] \in {"write", "reread"} /\ pc'[v] = "idle"}}
    /\ raced' = raced \union {held'[u] : u \in {v \in Staff :
                                  /\ pc'[v] # "idle"
                                  /\ \E w \in Staff \ {v} : held'[w] = held'[v]}}

HistorySpec == HistoryInit /\ [][HistoryNext]_<<vars, historyVars>>

\* Whatever staff requests race, no order has a status it did not earn: it has
\* had one of the statuses that lead to it in the table.
StatusEarned ==
    \A o \in Orders : \A n \in been[o] :
        n = "PENDING" \/ \E m \in been[o] : n \in validTransitions[m]

\* The status an order ends with has been broadcast after it was written, by
\* this request or another, although, when updates raced, perhaps not as the
\* last one; only an update that failed on its way goes untold.
FinalStatusSent ==
    (\A u \in Staff : pc[u] = "idle") => untold \subseteq failed

\* Until two updates of an order meet, the order goes through OrderLifecycle;
\* from then on it stands for a stage of its own.
Stages == INSTANCE OrderLifecycle
            WITH Transitions <- [n \in Status \union {"RACED"} |->
                                    IF n = "RACED" THEN {}
                                    ELSE validTransitions[n] \union {"RACED"}],
                 stage <- [o \in Orders |-> IF o \in raced THEN "RACED" ELSE orders[o].status]

\* Staff requests that do not overlap on an order, and the customer who places
\* it, take it through the documented lifecycle, whichever statements fail.
ImplementsLifecycle == Stages!Lifecycle
=============================================================================
