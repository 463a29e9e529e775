------------------------------ MODULE Reorder ------------------------------
(***************************************************************************)
(* Reordering the items of a category, or the categories of a restaurant,  *)
(* beside updates and deletions of single rows (internal/menu).            *)
(*                                                                         *)
(* A reorder validates its ids and then updates the rows one after the     *)
(* other, in the order of the request, in one transaction: a row stays     *)
(* locked from its update to the commit, so two requests can wait for each *)
(* other until PostgreSQL breaks the deadlock.  A row deleted since it was *)
(* validated is not updated, and nobody is told.  An update reads its row  *)
(* and saves all of it, sort_order included, in one statement that waits   *)
(* for the lock, or inserts the row anew if it was deleted.  Every         *)
(* statement needs a connection of the pool; a transaction keeps its own.  *)
(* What a deletion looks at first is in Menu.                              *)
(***************************************************************************)
EXTENDS Naturals, Sequences, FiniteSets

CONSTANTS
    Requests,       \* the requests that are ever made
    Rows,           \* ids of items or categories
    Home,           \* the category of an item, or the restaurant of a category
    Sorts,          \* values of sort_order
    Bodies,         \* what each request may ask for
    First,          \* the sort_order that each row was created with
    MaxOpenConns,   \* size of the pool (postgres.go: 25)
    Nil

Reorders == [kind : {"reorder"}, scope : {Home[i] : i \in Rows},
             order : Seq([id : Rows, sort : Sorts])]
Saves == [kind : {"save"}, row : Rows, sort : Sorts \union {Nil}]
Removals == [kind : {"remove"}, row : Rows]

ASSUME ReorderAssumption ==
    /\ \A r \in Requests : Bodies[r] \subseteq Reorders \union Saves \union Removals
    /\ Nil \notin Requests /\ Nil \notin Sorts
    /\ \A r \in Requests : Nil \notin Bodies[r]
    /\ First \in [Rows -> Sorts]
    /\ MaxOpenConns \in Nat \ {0}
    /\ IsFiniteSet(Requests)

VARIABLES
    sortOrder,  \* the sort_order of each row, committed
    alive,      \* the rows that are not deleted (deleted_at)
    lock,       \* the transaction that has the row locked, or Nil
    conn,       \* the requests that hold a connection
    pc,         \* where each request is
    request,    \* what each request under way asks for, or Nil
    next,       \* the entry of its order that a reorder validates or updates next
    written,    \* what the transaction of a request has written, or Nil
    copy,       \* what an update is about to put back, or Nil
    reply       \* what each request was answered, or Nil

table == <<sortOrder, alive>>
vars == <<table, lock, conn, pc, request, next, written, copy, reply>>

Order(r) == request[r].order
Entry(r) == Order(r)[next[r]]
Nothing == [i \in Rows |-> Nil]

\* The entry names a row of the category or restaurant of the request.
Fits(r) == Entry(r).id \in alive /\ Home[Entry(r).id] = request[r].scope

\* A connection is free for a statement or a transaction.
Free == Cardinality(conn) < MaxOpenConns

Goto(r, label) == pc' = [pc EXCEPT ![r] = label]

\* Requests end with an answer; whatever they hold is given back.
EndWith(S, answer) ==
    /\ pc' = [r \in Requests |-> IF r \in S THEN "done" ELSE pc[r]]
    /\ reply' = [r \in Requests |-> IF r \in S THEN answer ELSE reply[r]]
    /\ lock' = [i \in Rows |-> IF lock[i] \in S THEN Nil ELSE lock[i]]
    /\ conn' = conn \ S
    /\ written' = [r \in Requests |-> IF r \in S THEN Nothing ELSE written[r]]
    /\ request' = [r \in Requests |-> IF r \in S THEN Nil ELSE request[r]]
    /\ next' = [r \in Requests |-> IF r \in S THEN 1 ELSE next[r]]
    /\ copy' = [r \in Requests |-> IF r \in S THEN Nil ELSE copy[r]]

Init ==
    /\ sortOrder = First
    /\ alive = Rows
    /\ lock = Nothing
    /\ conn = {}
    /\ pc = [r \in Requests |-> "idle"]
    /\ request = [r \in Requests |-> Nil]
    /\ next = [r \in Requests |-> 1]
    /\ written = [r \in Requests |-> Nothing]
    /\ copy = [r \in Requests |-> Nil]
    /\ reply = [r \in Requests |-> Nil]

Begin(r) ==
    /\ pc[r] = "idle"
    /\ \E q \in Bodies[r] :
          /\ request' = [request EXCEPT ![r] = q]
          /\ Goto(r, IF q.kind = "reorder" THEN "validate" ELSE "find")
    /\ UNCHANGED <<table, lock, conn, next, written, copy, reply>>

\* A row that is read is not there, or is not where the request says.
NotFound(r) ==
    /\ Free
    /\ \/ pc[r] = "validate" /\ next[r] <= Len(Order(r)) /\ ~Fits(r)
       \/ pc[r] = "find" /\ request[r].row \notin alive
    /\ EndWith({r}, "notFound")
    /\ UNCHANGED table

-----------------------------------------------------------------------------
(* ReorderItems, ReorderCategories                                         *)

\* The ids are read one by one.
Validate(r) ==
    /\ pc[r] = "validate"
    /\ next[r] <= Len(Order(r))
    /\ Free
    /\ Fits(r)
    /\ next' = [next EXCEPT ![r] = @ + 1]
    /\ UNCHANGED <<table, lock, conn, pc, request, written, copy, reply>>

BeginTransaction(r) ==
    /\ pc[r] = "validate"
    /\ next[r] > Len(Order(r))
    /\ Free
    /\ conn' = conn \union {r}
    /\ Goto(r, "update")
    /\ next' = [next EXCEPT ![r] = 1]
    /\ UNCHANGED <<table, lock, request, written, copy, reply>>

\* Mutant of UpdateRow: the rows are updated outside a transaction.
UpdateRowAtOnce(r) ==
    /\ pc[r] = "update"
    /\ next[r] <= Len(Order(r))
    /\ Entry(r).id \in alive
    /\ lock[Entry(r).id] \in {Nil, r}
    /\ sortOrder' = [sortOrder EXCEPT ![Entry(r).id] = Entry(r).sort]
    /\ next' = [next EXCEPT ![r] = @ + 1]
    /\ UNCHANGED <<alive, lock, written, conn, pc, request, copy, reply>>

\* The next row of the request, once no other transaction has it locked.
UpdateRow(r) ==
    /\ pc[r] = "update"
    /\ next[r] <= Len(Order(r))
    /\ Entry(r).id \in alive
    /\ lock[Entry(r).id] \in {Nil, r}
    /\ lock' = [lock EXCEPT ![Entry(r).id] = r]
    /\ written' = [written EXCEPT ![r][Entry(r).id] = Entry(r).sort]
    /\ next' = [next EXCEPT ![r] = @ + 1]
    /\ UNCHANGED <<table, conn, pc, request, copy, reply>>

\* The next row was deleted since it was validated: the UPDATE matches no row,
\* which is no error.
SkipRow(r) ==
    /\ pc[r] = "update"
    /\ next[r] <= Len(Order(r))
    /\ Entry(r).id \notin alive
    /\ next' = [next EXCEPT ![r] = @ + 1]
    /\ UNCHANGED <<table, lock, conn, pc, request, written, copy, reply>>

\* Mutant of Commit: the transaction is over, but its connection is not returned.
CommitLeaking(r) ==
    /\ pc[r] = "update"
    /\ next[r] > Len(Order(r))
    /\ sortOrder' = [i \in Rows |-> IF written[r][i] = Nil THEN sortOrder[i] ELSE written[r][i]]
    /\ Goto(r, "done")
    /\ reply' = [reply EXCEPT ![r] = "ok"]
    /\ lock' = [i \in Rows |-> IF lock[i] = r THEN Nil ELSE lock[i]]
    /\ written' = [written EXCEPT ![r] = Nothing]
    /\ request' = [request EXCEPT ![r] = Nil]
    /\ UNCHANGED <<alive, conn, next, copy>>

\* The commit makes all places visible; its answer may be lost.
Commit(r) ==
    /\ pc[r] = "update"
    /\ next[r] > Len(Order(r))
    /\ sortOrder' = [i \in Rows |-> IF written[r][i] = Nil THEN sortOrder[i] ELSE written[r][i]]
    /\ \E answer \in {"ok", "internal"} : EndWith({r}, answer)
    /\ UNCHANGED alive

\* The holder of the row that a transaction waits for, if it waits.
WaitsFor(r) ==
    IF pc[r] = "update" /\ next[r] <= Len(Order(r)) THEN lock[Entry(r).id] ELSE Nil

Waiting == {r \in Requests : WaitsFor(r) # Nil}

\* Every transaction of some set around r waits for another one of the set.
Deadlocked(r) ==
    \E S \in SUBSET Waiting :
        /\ r \in S
        /\ \A s \in S : WaitsFor(s) \in S \ {s}
        /\ S = {WaitsFor(s) : s \in S}

\* PostgreSQL aborts one transaction of a deadlock; the request fails.
BreakDeadlock(r) ==
    /\ Deadlocked(r)
    /\ EndWith({r}, "internal")
    /\ UNCHANGED table

-----------------------------------------------------------------------------
(* UpdateItem, UpdateCategory, DeleteItem, DeleteCategory                  *)

\* The row is read; the place is taken over from it unless the request has one.
Find(r) ==
    /\ pc[r] = "find"
    /\ Free
    /\ request[r].row \in alive
    /\ \/ request[r].kind = "remove" /\ UNCHANGED copy
       \/ /\ request[r].kind = "save"
          /\ copy' = [copy EXCEPT ![r] = IF request[r].sort = Nil
                                         THEN sortOrder[request[r].row] ELSE request[r].sort]
    /\ Goto(r, request[r].kind)
    /\ UNCHANGED <<table, lock, conn, request, next, written, reply>>

\* A statement begins that is the only one of its transaction.
BeginStatement(r) ==
    /\ pc[r] \in {"save", "again", "remove"}
    /\ Free
    /\ conn' = conn \union {r}
    /\ Goto(r, CASE pc[r] = "save" -> "write"
                 [] pc[r] = "again" -> "upsert"
                 [] pc[r] = "remove" -> "delete")
    /\ UNCHANGED <<table, lock, request, next, written, copy, reply>>

\* It locks its row, changes it and commits.  Save updates the row it was given ...
SaveWrite(r) ==
    /\ pc[r] = "write"
    /\ request[r].row \in alive
    /\ lock[request[r].row] = Nil
    /\ sortOrder' = [sortOrder EXCEPT ![request[r].row] = copy[r]]
    /\ \E answer \in {"ok", "internal"} : EndWith({r}, answer)
    /\ UNCHANGED alive

\* ... or, if it was deleted, tries again ...
SaveMiss(r) ==
    /\ pc[r] = "write"
    /\ request[r].row \notin alive
    /\ conn' = conn \ {r}
    /\ Goto(r, "again")
    /\ UNCHANGED <<table, lock, request, next, written, copy, reply>>

\* ... with an INSERT that overwrites the row, deleted_at included.
Upsert(r) ==
    /\ pc[r] = "upsert"
    /\ lock[request[r].row] = Nil
    /\ sortOrder' = [sortOrder EXCEPT ![request[r].row] = copy[r]]
    /\ alive' = alive \union {request[r].row}
    /\ \E answer \in {"ok", "internal"} : EndWith({r}, answer)

\* Delete sets deleted_at, of a row that is deleted already none.
RemoveRow(r) ==
    /\ pc[r] = "delete"
    /\ lock[request[r].row] = Nil
    /\ alive' = alive \ {request[r].row}
    /\ \E answer \in {"ok", "internal"} : EndWith({r}, answer)
    /\ UNCHANGED sortOrder

-----------------------------------------------------------------------------

\* Mutant of Fail: an error ends the request without a rollback.
FailWithoutRollback(r) ==
    /\ pc[r] \notin {"idle", "done"}
    /\ Goto(r, "done")
    /\ reply' = [reply EXCEPT ![r] = "internal"]
    /\ request' = [request EXCEPT ![r] = Nil]
    /\ copy' = [copy EXCEPT ![r] = Nil]
    /\ UNCHANGED <<table, lock, conn, written, next>>

\* A statement fails: the transaction is rolled back, and the request answered.
\* ReorderItems takes any failure to read a row for a missing one.
Fail(r) ==
    /\ pc[r] \notin {"idle", "done"}
    /\ \/ EndWith({r}, "internal")
       \/ pc[r] = "validate" /\ EndWith({r}, "notFound")
    /\ UNCHANGED table

\* Handlers that panic or whose process is gone: the database rolls them back.
Abandon(S) ==
    /\ EndWith({r \in S : pc[r] \notin {"idle", "done"}}, "abandoned")
    /\ UNCHANGED table

\* What a request does next, unless it fails.
Proceed(r) ==
    \/ Validate(r) \/ BeginTransaction(r) \/ UpdateRow(r) \/ SkipRow(r) \/ Commit(r)
    \/ Find(r) \/ BeginStatement(r) \/ SaveWrite(r) \/ SaveMiss(r) \/ Upsert(r) \/ RemoveRow(r)
    \/ NotFound(r)

Step(r) == Proceed(r) \/ BreakDeadlock(r) \/ Fail(r)

Next ==
    \/ \E r \in Requests : Begin(r) \/ Step(r)
    \/ \E S \in SUBSET Requests : Abandon(S)

Spec == Init /\ [][Next]_vars

-----------------------------------------------------------------------------
(* Properties.                                                             *)

TypeOK ==
    /\ sortOrder \in [Rows -> Sorts]
    /\ alive \subseteq Rows
    /\ lock \in [Rows -> Requests \union {Nil}]
    /\ conn \subseteq Requests
    /\ pc \in [Requests -> {"idle", "validate", "update", "find", "save", "write", "again",
                           "upsert", "remove", "delete", "done"}]
    /\ request \in [Requests -> {Nil} \union Reorders \union Saves \union Removals]
    /\ next \in [Requests -> Nat \ {0}]
    /\ written \in [Requests -> [Rows -> Sorts \union {Nil}]]
    /\ copy \in [Requests -> Sorts \union {Nil}]
    /\ reply \in [Requests -> {Nil, "ok", "notFound", "internal", "abandoned"}]

\* Nothing is held by a request that is over: a locked row is locked by a
\* transaction that has written it and has a connection, and nobody deletes it
\* meanwhile; a connection belongs to a transaction under way, and there are never
\* more than the pool allows, however requests end (repository.go:113-137,
\* postgres.go:29).
HeldOnlyByTransactions ==
    /\ \A i \in Rows : lock[i] # Nil =>
          /\ pc[lock[i]] = "update"
          /\ lock[i] \in conn
          /\ i \in alive
    /\ \A r \in Requests, i \in Rows : written[r][i] # Nil => lock[i] = r
    /\ \A r \in conn : pc[r] \in {"update", "write", "upsert", "delete"}
    /\ Cardinality(conn) <= MaxOpenConns

\* The rows of the entries that a reorder is past, but has not updated.
missed == [r \in Requests |->
    IF pc[r] = "update"
    THEN {Order(r)[k].id : k \in {m \in DOMAIN Order(r) : m < next[r]}}
         \intersect {i \in Rows : written[r][i] = Nil}
    ELSE {}]

\* A reorder takes effect in one step, on all rows of its order except those that
\* were deleted under way, or not at all, whatever deadlocks, failures, lost
\* commits, updates and deletions in between.
A == INSTANCE Arrangement
ImplementsArrangement == A!Spec
=============================================================================
