---------------------------- MODULE Arrangement ----------------------------
(***************************************************************************)
(* What reordering a menu promises: a request puts every row it names in   *)
(* the place it names, all at once, or changes nothing; only a row that it *)
(* finds deleted does it leave where it is.  An update of one row looks at *)
(* the row and puts back what it saw, and the row is there again if it was *)
(* deleted in between.                                                     *)
(* Abstract: no transactions, row locks or connections (see Reorder).      *)
(***************************************************************************)
EXTENDS Naturals, Sequences

CONSTANTS
    Requests,   \* the requests that are ever made
    Rows,       \* ids of items or categories
    Home,       \* the category of an item, or the restaurant of a category
    Sorts,      \* values of sort_order
    Bodies,     \* what each request may ask for
    First,      \* the sort_order that each row was created with
    Nil

VARIABLES
    sortOrder,  \* the sort_order of each row, as everybody sees it
    alive,      \* the rows that are not deleted
    request,    \* what each request under way asks for, or Nil
    copy,       \* what an update is about to put back, or Nil
    reply,      \* what each request was answered, or Nil
    missed      \* the rows that a reorder under way has found deleted

vars == <<sortOrder, alive, request, copy, reply, missed>>

\* Entry k of an order is the last about its row.
LastWord(order, k) ==
    /\ k \in DOMAIN order
    /\ \A j \in DOMAIN order : j > k => order[j].id # order[k].id

Init ==
    /\ sortOrder = First
    /\ alive = Rows
    /\ request = [r \in Requests |-> Nil]
    /\ copy = [r \in Requests |-> Nil]
    /\ reply = [r \in Requests |-> Nil]
    /\ missed = [r \in Requests |-> {}]

Ask(r) ==
    /\ request[r] = Nil
    /\ reply[r] = Nil
    /\ \E q \in Bodies[r] : request' = [request EXCEPT ![r] = q]
    /\ UNCHANGED <<sortOrder, alive, copy, reply, missed>>

Asking(r, kind) == request[r] # Nil /\ request[r].kind = kind

Over(r, answers) ==
    /\ request' = [request EXCEPT ![r] = Nil]
    /\ copy' = [copy EXCEPT ![r] = Nil]
    /\ missed' = [missed EXCEPT ![r] = {}]
    /\ \E answer \in answers : reply' = [reply EXCEPT ![r] = answer]

\* A reorder finds a row deleted, or there again.
Notice(r) ==
    /\ Asking(r, "reorder")
    /\ \/ \E i \in Rows \ alive : missed' = [missed EXCEPT ![r] = @ \union {i}]
       \/ \E i \in alive : missed' = [missed EXCEPT ![r] = @ \ {i}]
    /\ UNCHANGED <<sortOrder, alive, request, copy, reply>>

\* All places of the order at once; only rows of its category are in it.  The
\* answer may be lost on the way back from the database.
Apply(r) ==
    LET order == request[r].order
    IN  /\ Asking(r, "reorder")
        /\ \A k \in DOMAIN order : Home[order[k].id] = request[r].scope
        /\ sortOrder' \in [Rows -> Sorts]
        /\ \A k \in DOMAIN order : LastWord(order, k) =>
              \/ order[k].id \in missed[r]
              \/ order[k].id \in alive /\ sortOrder'[order[k].id] = order[k].sort
        /\ \A i \in Rows :
              \/ sortOrder'[i] = sortOrder[i]
              \/ i \notin missed[r] /\ \E k \in DOMAIN order : order[k].id = i
        /\ UNCHANGED alive
        /\ Over(r, {"ok", "internal"})

Look(r) ==
    /\ Asking(r, "save")
    /\ copy[r] = Nil
    /\ request[r].row \in alive
    /\ copy' = [copy EXCEPT ![r] = IF request[r].sort = Nil
                                   THEN sortOrder[request[r].row] ELSE request[r].sort]
    /\ UNCHANGED <<sortOrder, alive, request, reply, missed>>

Put(r) ==
    /\ Asking(r, "save")
    /\ copy[r] # Nil
    /\ sortOrder' = [sortOrder EXCEPT ![request[r].row] = copy[r]]
    /\ alive' = alive \union {request[r].row}
    /\ Over(r, {"ok", "internal"})

Remove(r) ==
    /\ Asking(r, "remove")
    /\ alive' = alive \ {request[r].row}
    /\ UNCHANGED sortOrder
    /\ Over(r, {"ok", "internal"})

\* Requests that are refused, fail or are abandoned change nothing.
Refuse ==
    /\ UNCHANGED <<sortOrder, alive>>
    /\ \A r \in Requests :
          \/ /\ request'[r] = request[r] /\ copy'[r] = copy[r]
             /\ reply'[r] = reply[r] /\ missed'[r] = missed[r]
          \/ /\ request[r] # Nil
             /\ request'[r] = Nil /\ copy'[r] = Nil /\ missed'[r] = {}
             /\ reply'[r] \in {"notFound", "internal", "abandoned"}

Next ==
    \/ \E r \in Requests : Ask(r) \/ Notice(r) \/ Apply(r) \/ Look(r) \/ Put(r) \/ Remove(r)
    \/ Refuse

Spec == Init /\ [][Next]_vars
=============================================================================
