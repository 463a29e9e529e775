---------------------------- MODULE ServingProofs ----------------------------
(***************************************************************************)
(* Proofs about Reorder, and about Serving, the process that serves it,    *)
(* for any requests, websockets, rows, bodies and size of the pool.        *)
(*                                                                         *)
(* The argument for Reorder.  What a request holds follows from where it   *)
(* is: Shape says what it has of its own at each label, and Connected that *)
(* every transaction has a connection; with them HeldOnlyByTransactions is *)
(* inductive, because only EndWith takes a request out of its transaction  *)
(* and gives everything back, and no row that is locked is deleted.  For   *)
(* the refinement, Progress says that a transaction has written the last   *)
(* word of the entries it is past, about each row that it did not miss, so *)
(* that its commit is one Apply of Arrangement.                            *)
(*                                                                         *)
(* The argument for Serving.  A step of the whole is a step of Server and  *)
(* a step of Reorder, or leaves one of them alone: so whatever Reorder     *)
(* guarantees, it guarantees while the process panics, is killed or stops. *)
(* Of Server, Stages says which requests there can be at which stage of    *)
(* the process; with it only Kill, ServerFailed and ShutdownExpired find   *)
(* requests that are running, and the counters are exact because every     *)
(* answer and every panic moves one request and one counter.               *)
(***************************************************************************)
EXTENDS Serving, FiniteSetTheorems, SequenceTheorems, TLAPS

(* The menu: Reorder.                                                      *)

Label == {"idle", "validate", "update", "find", "save", "write", "again", "upsert", "remove",
          "delete", "done"}

\* The labels of requests that are in a transaction.
Holding == {"update", "write", "upsert", "delete"}

Answers == {"ok", "notFound", "internal", "abandoned"}

\* What a request has of its own at each label.
Shape ==
    \A r \in Requests :
        /\ pc[r] \in {"validate", "update"} => request[r] \in Reorders
        /\ pc[r] = "find" => request[r] \in Saves \union Removals
        /\ pc[r] \in {"save", "write", "again", "upsert"}
           => request[r] \in Saves /\ copy[r] \in Sorts
        /\ pc[r] \in {"remove", "delete"} => request[r] \in Removals
        /\ pc[r] \in {"idle", "done"} => request[r] = Nil
        /\ pc[r] \notin {"save", "write", "again", "upsert"} => copy[r] = Nil
        /\ pc[r] = "idle" => reply[r] = Nil

\* Every transaction has a connection.
Connected == \A r \in Requests : pc[r] \in Holding => r \in conn

IInv == TypeOK /\ Shape /\ Connected /\ HeldOnlyByTransactions

-----------------------------------------------------------------------------
(* The steps of a request.                                                 *)

\* What a request may ask for is what its kind says.
LEMMA BodyFacts ==
    \A r \in Requests : \A q \in Bodies[r] :
        /\ q # Nil
        /\ q.kind = "reorder" => q \in Reorders
        /\ q.kind # "reorder" => q \in Saves \union Removals
  BY ReorderAssumption DEF Reorders, Saves, Removals

\* The entry that a reorder is at names a row and a place.
LEMMA EntryFacts ==
    ASSUME NEW r \in Requests, TypeOK, request[r] \in Reorders, next[r] <= Len(Order(r))
    PROVE  /\ next[r] \in DOMAIN Order(r)
           /\ Entry(r).id \in Rows
           /\ Entry(r).sort \in Sorts
<1>1. Order(r) \in Seq([id : Rows, sort : Sorts])
  BY DEF Order, Reorders
<1>2. next[r] \in 1 .. Len(Order(r))
  BY <1>1 DEF TypeOK
<1>3. Entry(r) \in [id : Rows, sort : Sorts]
  BY <1>1, <1>2, ElementOfSeq DEF Entry
<1>4. next[r] \in DOMAIN Order(r)
  BY <1>1, <1>2
<1>5. Entry(r).id \in Rows /\ Entry(r).sort \in Sorts
  BY <1>3
<1>6. QED
  BY <1>4, <1>5

\* Requests that end give everything back.
LEMMA EndKeeps ==
    ASSUME IInv, NEW X \in SUBSET Requests, NEW answer \in Answers,
           EndWith(X, answer), sortOrder' \in [Rows -> Sorts],
           alive' \subseteq Rows, \A i \in alive \ alive' : lock[i] = Nil,
           \A r \in X : pc[r] \notin {"idle", "done"}
    PROVE  IInv'
<1> USE DEF EndWith
<1>1. TypeOK'
  <2>1. conn' \subseteq Requests /\ sortOrder' \in [Rows -> Sorts]
    BY DEF IInv, TypeOK
  <2>2. lock' \in [Rows -> Requests \union {Nil}]
    BY DEF IInv, TypeOK
  <2>3. /\ pc' \in [Requests -> Label]
        /\ next' \in [Requests -> Nat \ {0}]
        /\ copy' \in [Requests -> Sorts \union {Nil}]
        /\ reply' \in [Requests -> Answers \union {Nil}]
    BY DEF IInv, TypeOK, Label, Answers
  <2>4. request' \in [Requests -> {Nil} \union Reorders \union Saves \union Removals]
    BY DEF IInv, TypeOK
  <2>5. written' \in [Requests -> [Rows -> Sorts \union {Nil}]]
    BY DEF IInv, TypeOK, Nothing
  <2>6. QED
    BY <2>1, <2>2, <2>3, <2>4, <2>5 DEF TypeOK, Label, Answers
<1>2. Shape'
  <2>1. \A r \in X : pc'[r] = "done" /\ request'[r] = Nil /\ copy'[r] = Nil
    OBVIOUS
  <2>2. \A r \in Requests \ X : /\ pc'[r] = pc[r] /\ request'[r] = request[r]
                                /\ copy'[r] = copy[r] /\ reply'[r] = reply[r]
    OBVIOUS
  <2>3. QED
    BY <2>1, <2>2 DEF IInv, Shape
<1>3. Connected'
  BY DEF IInv, Connected, Holding
<1>4. HeldOnlyByTransactions'
  <2>1. \A i \in Rows : lock'[i] # Nil => /\ pc'[lock'[i]] = "update" /\ lock'[i] \in conn'
                                          /\ i \in alive'
    BY DEF IInv, HeldOnlyByTransactions, TypeOK
  <2>2. \A r \in Requests, i \in Rows : written'[r][i] # Nil => lock'[i] = r
    BY DEF IInv, HeldOnlyByTransactions, Nothing
  <2>3. \A r \in conn' : pc'[r] \in {"update", "write", "upsert", "delete"}
    BY DEF IInv, HeldOnlyByTransactions, TypeOK
  <2>4. IsFiniteSet(conn)
    BY FS_Subset, ReorderAssumption DEF IInv, TypeOK
  <2>5. Cardinality(conn') <= Cardinality(conn)
    BY <2>4, FS_Subset
  <2>6. Cardinality(conn') <= MaxOpenConns
    BY <2>4, <2>5, FS_Subset, FS_CardinalityType, ReorderAssumption DEF IInv, HeldOnlyByTransactions
  <2>7. QED
    BY <2>1, <2>2, <2>3, <2>6 DEF HeldOnlyByTransactions
<1>5. QED
  BY <1>1, <1>2, <1>3, <1>4 DEF IInv

\* A request that has locked nothing and goes on, with a connection taken or given
\* back as its new label wants it, holds what it should.
LEMMA MoveKeeps ==
    ASSUME IInv, NEW r \in Requests, NEW to \in Label,
           pc' = [pc EXCEPT ![r] = to], pc[r] # "update",
           \/ pc[r] \notin Holding /\ to \notin Holding /\ conn' = conn
           \/ to \in Holding /\ conn' = conn \union {r}
           \/ to \notin Holding /\ conn' = conn \ {r},
           Cardinality(conn') <= MaxOpenConns,
           UNCHANGED <<alive, lock, written>>
    PROVE  Connected' /\ HeldOnlyByTransactions'
<1> USE DEF Holding
<1>1. Connected'
  BY DEF IInv, Connected, TypeOK
<1>2. \A i \in Rows : lock'[i] # Nil => /\ pc'[lock'[i]] = "update" /\ lock'[i] \in conn'
                                        /\ i \in alive'
  BY DEF IInv, HeldOnlyByTransactions, TypeOK
<1>3. \A q \in Requests, i \in Rows : written'[q][i] # Nil => lock'[i] = q
  BY DEF IInv, HeldOnlyByTransactions
<1>4. \A q \in conn' : pc'[q] \in Holding
  BY DEF IInv, HeldOnlyByTransactions, TypeOK
<1>5. QED
  BY <1>1, <1>2, <1>3, <1>4 DEF HeldOnlyByTransactions

\* A connection that is free may be taken, and one that is taken given back.
LEMMA Connections ==
    ASSUME IInv, NEW r \in Requests
    PROVE  /\ Cardinality(conn \ {r}) <= MaxOpenConns
           /\ Free => Cardinality(conn \union {r}) <= MaxOpenConns
<1>1. IsFiniteSet(conn)
  BY FS_Subset, ReorderAssumption DEF IInv, TypeOK
<1>2. Cardinality(conn) \in Nat /\ MaxOpenConns \in Nat /\ Cardinality(conn) <= MaxOpenConns
  BY <1>1, FS_CardinalityType, ReorderAssumption DEF IInv, HeldOnlyByTransactions
<1>3. /\ Cardinality(conn \union {r}) \in Nat
      /\ Cardinality(conn \union {r}) <= Cardinality(conn) + 1
  <2>1. Cardinality(conn \union {r}) \in {Cardinality(conn), Cardinality(conn) + 1}
    BY <1>1, <1>2, FS_AddElement
  <2>2. QED
    BY <1>2, <2>1
<1>4. Cardinality(conn \ {r}) \in Nat /\ Cardinality(conn \ {r}) <= Cardinality(conn)
  <2>1. conn \ {r} \subseteq conn
    OBVIOUS
  <2>2. QED
    BY <1>1, <2>1, FS_Subset, FS_CardinalityType
<1>5. QED
  BY <1>2, <1>3, <1>4 DEF Free

\* A request begins, or begins a transaction, or reads a row.
LEMMA EasyKeep ==
    ASSUME IInv, NEW r \in Requests,
           \/ Begin(r) \/ Validate(r) \/ BeginTransaction(r)
           \/ Find(r) \/ BeginStatement(r) \/ SaveMiss(r)
    PROVE  IInv'
<1> USE DEF Holding
<1>1. CASE Begin(r)
  <2>1. PICK q \in Bodies[r] :
          /\ request' = [request EXCEPT ![r] = q]
          /\ pc' = [pc EXCEPT ![r] = IF q.kind = "reorder" THEN "validate" ELSE "find"]
    BY <1>1 DEF Begin, Goto
  <2>2. pc[r] = "idle" /\ UNCHANGED <<sortOrder, alive, lock, conn, next, written, copy, reply>>
    BY <1>1 DEF Begin, table
  <2>3. TypeOK'
    BY <2>1, <2>2, BodyFacts DEF IInv, TypeOK
  <2>4. Shape'
    <3>1. /\ q.kind = "reorder" => q \in Reorders
          /\ q.kind # "reorder" => q \in Saves \union Removals
      BY <2>1, BodyFacts
    <3>2. request'[r] = q /\ pc'[r] = IF q.kind = "reorder" THEN "validate" ELSE "find"
      BY <2>1 DEF IInv, TypeOK
    <3>3. \A p \in Requests \ {r} : request'[p] = request[p] /\ pc'[p] = pc[p]
      BY <2>1 DEF IInv, TypeOK
    <3>4. QED
      BY <2>2, <3>1, <3>2, <3>3 DEF IInv, Shape
  <2>5. Connected' /\ HeldOnlyByTransactions'
    BY <2>1, <2>2, MoveKeeps DEF IInv, Label, HeldOnlyByTransactions
  <2>6. QED
    BY <2>3, <2>4, <2>5 DEF IInv
<1>2. CASE Validate(r)
  <2>1. /\ next' = [next EXCEPT ![r] = @ + 1]
        /\ UNCHANGED <<sortOrder, alive, lock, conn, pc, request, written, copy, reply>>
    BY <1>2 DEF Validate, table
  <2>2. TypeOK'
    BY <2>1 DEF IInv, TypeOK
  <2>3. QED
    BY <2>1, <2>2 DEF IInv, Shape, Connected, HeldOnlyByTransactions
<1>3. CASE BeginTransaction(r)
  <2>1. /\ pc[r] = "validate" /\ pc' = [pc EXCEPT ![r] = "update"]
        /\ next' = [next EXCEPT ![r] = 1] /\ conn' = conn \union {r}
        /\ UNCHANGED <<sortOrder, alive, lock, request, written, copy, reply>>
    BY <1>3 DEF BeginTransaction, Goto, table
  <2>2. TypeOK'
    BY <2>1 DEF IInv, TypeOK
  <2>3. Shape'
    BY <2>1 DEF IInv, TypeOK, Shape
  <2>4. Cardinality(conn') <= MaxOpenConns
    BY <1>3, <2>1, Connections DEF BeginTransaction
  <2>5. Connected' /\ HeldOnlyByTransactions'
    BY <2>1, <2>4, MoveKeeps DEF Label
  <2>6. QED
    BY <2>2, <2>3, <2>5 DEF IInv
<1>4. CASE Find(r)
  <2> DEFINE q == request[r]
  <2>1. /\ pc[r] = "find" /\ pc' = [pc EXCEPT ![r] = q.kind]
        /\ UNCHANGED <<sortOrder, alive, lock, conn, request, next, written, reply>>
    BY <1>4 DEF Find, Goto, table
  <2>2. \/ q \in Saves /\ q.kind = "save"
        \/ q \in Removals /\ q.kind = "remove"
    BY <2>1 DEF IInv, Shape, Saves, Removals
  <2>3. PICK c : /\ copy' = [copy EXCEPT ![r] = c]
                 /\ q.kind = "remove" => c = Nil
                 /\ q.kind = "save" => c \in Sorts
    <3>1. CASE q.kind = "remove"
      <4>1. copy[r] = Nil /\ copy' = copy
        BY <1>4, <2>1, <3>1 DEF Find, IInv, Shape
      <4>2. copy' = [copy EXCEPT ![r] = Nil]
        BY <4>1 DEF IInv, TypeOK
      <4>3. QED
        BY <3>1, <4>2
    <3>2. CASE q.kind = "save"
      <4>1. q \in Saves
        BY <2>2, <3>2 DEF Removals
      <4>2. q.row \in Rows /\ q.sort \in Sorts \union {Nil}
        BY <4>1 DEF Saves
      <4>3. sortOrder[q.row] \in Sorts
        BY <4>2 DEF IInv, TypeOK
      <4>4. CASE q.sort = Nil
        BY <1>4, <3>2, <4>3, <4>4 DEF Find
      <4>5. CASE q.sort # Nil
        BY <1>4, <3>2, <4>2, <4>5 DEF Find
      <4>6. QED
        BY <4>4, <4>5
    <3>3. QED
      BY <2>2, <3>1, <3>2
  <2> HIDE DEF q
  <2>4. TypeOK'
    BY <2>1, <2>2, <2>3 DEF IInv, TypeOK
  <2>5. Shape'
    <3>1. pc'[r] = q.kind /\ copy'[r] = c /\ request'[r] = q
      BY <2>1, <2>3 DEF IInv, TypeOK, q
    <3>2. \A p \in Requests \ {r} : pc'[p] = pc[p] /\ copy'[p] = copy[p]
      BY <2>1, <2>3 DEF IInv, TypeOK
    <3>3. QED
      BY <2>1, <2>2, <2>3, <3>1, <3>2 DEF IInv, Shape
  <2>6. Connected' /\ HeldOnlyByTransactions'
    BY <2>1, <2>2, MoveKeeps DEF IInv, Label, HeldOnlyByTransactions
  <2>7. QED
    BY <2>4, <2>5, <2>6 DEF IInv
<1>5. CASE BeginStatement(r)
  <2>1. PICK to \in {"write", "upsert", "delete"} :
          /\ pc' = [pc EXCEPT ![r] = to]
          /\ \/ pc[r] = "save" /\ to = "write"
             \/ pc[r] = "again" /\ to = "upsert"
             \/ pc[r] = "remove" /\ to = "delete"
    BY <1>5 DEF BeginStatement, Goto
  <2>2. /\ conn' = conn \union {r}
        /\ UNCHANGED <<sortOrder, alive, lock, request, next, written, copy, reply>>
    BY <1>5 DEF BeginStatement, table
  <2>3. TypeOK'
    BY <2>1, <2>2 DEF IInv, TypeOK
  <2>4. Shape'
    BY <2>1, <2>2 DEF IInv, TypeOK, Shape
  <2>5. Cardinality(conn') <= MaxOpenConns
    BY <1>5, <2>2, Connections DEF BeginStatement
  <2>6. Connected' /\ HeldOnlyByTransactions'
    BY <2>1, <2>2, <2>5, MoveKeeps DEF Label
  <2>7. QED
    BY <2>3, <2>4, <2>6 DEF IInv
<1>6. CASE SaveMiss(r)
  <2>1. /\ pc[r] = "write" /\ pc' = [pc EXCEPT ![r] = "again"]
        /\ conn' = conn \ {r}
        /\ UNCHANGED <<sortOrder, alive, lock, request, next, written, copy, reply>>
    BY <1>6 DEF SaveMiss, Goto, table
  <2>2. TypeOK'
    BY <2>1 DEF IInv, TypeOK
  <2>3. Shape'
    BY <2>1 DEF IInv, TypeOK, Shape
  <2>4. Connected' /\ HeldOnlyByTransactions'
    BY <2>1, Connections, MoveKeeps DEF Label
  <2>5. QED
    BY <2>2, <2>3, <2>4 DEF IInv
<1>7. QED
  BY <1>1, <1>2, <1>3, <1>4, <1>5, <1>6

\* A transaction updates a row that nobody else has locked.
LEMMA UpdateKeeps ==
    ASSUME IInv, NEW r \in Requests, UpdateRow(r)
    PROVE  IInv'
<1> DEFINE i == Entry(r).id
<1>1. /\ pc[r] = "update" /\ lock[i] \in {Nil, r}
      /\ i \in alive
      /\ next[r] <= Len(Order(r))
      /\ lock' = [lock EXCEPT ![i] = r]
      /\ written' = [written EXCEPT ![r][i] = Entry(r).sort]
      /\ next' = [next EXCEPT ![r] = @ + 1]
      /\ UNCHANGED <<sortOrder, alive, conn, pc, request, copy, reply>>
  BY DEF UpdateRow, table
<1>2. i \in Rows /\ Entry(r).sort \in Sorts
  BY <1>1, EntryFacts DEF IInv, Shape
<1> HIDE DEF i
<1>3. TypeOK'
  <2>1. lock' \in [Rows -> Requests \union {Nil}]
    BY <1>1, <1>2 DEF IInv, TypeOK
  <2>2. written' \in [Requests -> [Rows -> Sorts \union {Nil}]]
    BY <1>1, <1>2 DEF IInv, TypeOK
  <2>3. next' \in [Requests -> Nat \ {0}]
    BY <1>1 DEF IInv, TypeOK
  <2>4. QED
    BY <1>1, <2>1, <2>2, <2>3 DEF IInv, TypeOK
<1>4. Shape' /\ Connected'
  BY <1>1 DEF IInv, Shape, Connected
<1>5. HeldOnlyByTransactions'
  <2>1. \A j \in Rows : lock'[j] # Nil => /\ pc'[lock'[j]] = "update" /\ lock'[j] \in conn'
                                          /\ j \in alive'
    BY <1>1, <1>2 DEF IInv, TypeOK, Connected, Holding, HeldOnlyByTransactions
  <2>2. \A q \in Requests, j \in Rows : written'[q][j] # Nil => lock'[j] = q
    <3> SUFFICES ASSUME NEW q \in Requests, NEW j \in Rows, written'[q][j] # Nil
                 PROVE  lock'[j] = q
      OBVIOUS
    <3>1. CASE q = r /\ j = i
      BY <1>1, <1>2, <3>1 DEF IInv, TypeOK
    <3>2. CASE ~ (q = r /\ j = i)
      <4>1. written[q][j] # Nil
        BY <1>1, <1>2, <3>2 DEF IInv, TypeOK
      <4>2. lock[j] = q
        BY <4>1 DEF IInv, HeldOnlyByTransactions
      <4>3. j # i
        BY <1>1, <3>2, <4>2, ReorderAssumption
      <4>4. QED
        BY <1>1, <1>2, <4>2, <4>3 DEF IInv, TypeOK
    <3>3. QED
      BY <3>1, <3>2
  <2>3. QED
    BY <1>1, <2>1, <2>2 DEF IInv, HeldOnlyByTransactions
<1>6. QED
  BY <1>3, <1>4, <1>5 DEF IInv

\* A transaction passes a row that was deleted.
LEMMA SkipKeeps ==
    ASSUME IInv, NEW r \in Requests, SkipRow(r)
    PROVE  IInv'
<1>1. /\ next' = [next EXCEPT ![r] = @ + 1]
      /\ UNCHANGED <<sortOrder, alive, lock, conn, pc, request, written, copy, reply>>
  BY DEF SkipRow, table
<1>2. TypeOK'
  BY <1>1 DEF IInv, TypeOK
<1>3. QED
  BY <1>1, <1>2 DEF IInv, Shape, Connected, HeldOnlyByTransactions

\* Whatever ends a request, of its own or with others, keeps the invariant.
LEMMA EndingKeeps ==
    ASSUME IInv, NEW r \in Requests,
           \/ Commit(r) \/ BreakDeadlock(r)
           \/ SaveWrite(r) \/ Upsert(r) \/ RemoveRow(r)
           \/ NotFound(r) \/ Fail(r)
    PROVE  IInv'
<1> USE DEF Answers, table
<1>1. CASE Commit(r)
  <2>1. /\ sortOrder' \in [Rows -> Sorts] /\ alive' = alive /\ alive' \subseteq Rows
        /\ pc[r] \notin {"idle", "done"}
    BY <1>1 DEF Commit, IInv, TypeOK
  <2>2. PICK answer \in {"ok", "internal"} : EndWith({r}, answer)
    BY <1>1 DEF Commit
  <2>3. QED
    BY <2>1, <2>2, EndKeeps
<1>2. CASE BreakDeadlock(r)
  <2>1. PICK X \in SUBSET Waiting : r \in X /\ \A s \in X : WaitsFor(s) \in X \ {s}
    BY <1>2 DEF BreakDeadlock, Deadlocked
  <2>2. WaitsFor(r) \in Requests
    BY <2>1 DEF Waiting
  <2>3. pc[r] = "update"
    BY <2>2, ReorderAssumption DEF WaitsFor
  <2>4. /\ EndWith({r}, "internal") /\ sortOrder' \in [Rows -> Sorts]
        /\ alive' = alive /\ alive' \subseteq Rows
    BY <1>2 DEF BreakDeadlock, IInv, TypeOK
  <2>5. QED
    BY <2>3, <2>4, EndKeeps
<1>3. CASE SaveWrite(r) \/ Upsert(r)
  <2>1. /\ pc[r] \in {"write", "upsert"}
        /\ sortOrder' = [sortOrder EXCEPT ![request[r].row] = copy[r]]
        /\ alive' \in {alive, alive \union {request[r].row}}
    BY <1>3 DEF SaveWrite, Upsert
  <2>2. copy[r] \in Sorts /\ request[r].row \in Rows
    BY <2>1 DEF IInv, Shape, Saves
  <2>3. /\ sortOrder' \in [Rows -> Sorts]
        /\ alive' \subseteq Rows /\ alive \subseteq alive'
    BY <2>1, <2>2 DEF IInv, TypeOK
  <2>4. PICK answer \in {"ok", "internal"} : EndWith({r}, answer)
    BY <1>3 DEF SaveWrite, Upsert
  <2>5. QED
    BY <2>1, <2>3, <2>4, EndKeeps
<1>4. CASE RemoveRow(r)
  <2>1. /\ pc[r] = "delete" /\ lock[request[r].row] = Nil
        /\ alive' = alive \ {request[r].row} /\ sortOrder' = sortOrder
    BY <1>4 DEF RemoveRow
  <2>2. alive' \subseteq Rows /\ (\A i \in alive \ alive' : lock[i] = Nil)
        /\ sortOrder' \in [Rows -> Sorts]
    BY <2>1 DEF IInv, TypeOK
  <2>3. PICK answer \in {"ok", "internal"} : EndWith({r}, answer)
    BY <1>4 DEF RemoveRow
  <2>4. QED
    BY <2>1, <2>2, <2>3, EndKeeps
<1>5. CASE NotFound(r) \/ Fail(r)
  <2>1. /\ pc[r] \notin {"idle", "done"} /\ sortOrder' \in [Rows -> Sorts]
        /\ alive' = alive /\ alive' \subseteq Rows
    BY <1>5 DEF NotFound, Fail, IInv, TypeOK
  <2>2. PICK answer \in {"internal", "notFound"} : EndWith({r}, answer)
    BY <1>5 DEF NotFound, Fail
  <2>3. QED
    BY <2>1, <2>2, EndKeeps
<1>6. QED
  BY <1>1, <1>2, <1>3, <1>4, <1>5

-----------------------------------------------------------------------------
(* The invariant.                                                          *)

\* A menu of which nobody asks anything satisfies the invariant.
LEMMA InitIInv == Init => IInv
<1> SUFFICES ASSUME Init PROVE IInv
  OBVIOUS
<1>1. TypeOK
  BY ReorderAssumption DEF Init, TypeOK, Nothing
<1>2. Shape /\ Connected
  BY DEF Init, Shape, Connected, Holding
<1>3. HeldOnlyByTransactions
  BY FS_EmptySet, ReorderAssumption DEF Init, HeldOnlyByTransactions, Nothing
<1>4. QED
  BY <1>1, <1>2, <1>3 DEF IInv

\* A step preserves the invariant.
LEMMA NextIInv == IInv /\ [Next]_vars => IInv'
<1> SUFFICES ASSUME IInv, [Next]_vars PROVE IInv'
  OBVIOUS
<1>1. ASSUME NEW r \in Requests, Begin(r) PROVE IInv'
  BY <1>1, EasyKeep
<1>2. ASSUME NEW r \in Requests, Step(r) PROVE IInv'
  <2>1. CASE \/ Validate(r) \/ BeginTransaction(r)
             \/ Find(r) \/ BeginStatement(r) \/ SaveMiss(r)
    BY <2>1, EasyKeep
  <2>2. CASE UpdateRow(r) \/ SkipRow(r)
    BY <2>2, UpdateKeeps, SkipKeeps
  <2>3. CASE \/ Commit(r) \/ BreakDeadlock(r) \/ SaveWrite(r) \/ Upsert(r) \/ RemoveRow(r)
             \/ NotFound(r) \/ Fail(r)
    BY <2>3, EndingKeeps
  <2>4. QED
    BY <1>2, <2>1, <2>2, <2>3 DEF Step, Proceed
<1>3. ASSUME NEW X \in SUBSET Requests, Abandon(X) PROVE IInv'
  <2> DEFINE E == {r \in X : pc[r] \notin {"idle", "done"}}
  <2>1. E \in SUBSET Requests /\ \A r \in E : pc[r] \notin {"idle", "done"}
    OBVIOUS
  <2>2. EndWith(E, "abandoned") /\ sortOrder' \in [Rows -> Sorts] /\ alive' = alive
    BY <1>3 DEF Abandon, table, IInv, TypeOK
  <2> HIDE DEF E
  <2>3. QED
    BY <2>1, <2>2, EndKeeps DEF Answers, IInv, TypeOK
<1>4. CASE UNCHANGED vars
  BY <1>4 DEF vars, table, IInv, TypeOK, Shape, Connected, HeldOnlyByTransactions
<1>5. QED
  BY <1>1, <1>2, <1>3, <1>4 DEF Next

\* Requests keep to their shape and hold only what they use, in every reachable state.
THEOREM InvariantHolds == Spec => []IInv
  BY InitIInv, NextIInv, PTL DEF Spec

\* The variables stay within their types.
THEOREM TypeCorrect == Spec => []TypeOK
<1>1. IInv => TypeOK
  BY DEF IInv
<1>2. QED
  BY <1>1, InvariantHolds, PTL

\* No request that is over holds a row or a connection, however it ended
\* (HeldOnlyByTransactions), for any number of requests, rows and connections.
THEOREM NothingLeaks == Spec => []HeldOnlyByTransactions
<1>1. IInv => HeldOnlyByTransactions
  BY DEF IInv
<1>2. QED
  BY <1>1, InvariantHolds, PTL

-----------------------------------------------------------------------------
(* A reorder is atomic.                                                    *)

\* The rows of the order, up to entry n, are of its category or restaurant.
ValidUpTo(r, n) == \A k \in DOMAIN Order(r) : k < n => Home[Order(r)[k].id] = request[r].scope

\* A transaction has written, of the entries it is past, the last about each row,
\* unless the row was deleted.
Progress(r) ==
    /\ next[r] \in 1 .. Len(Order(r)) + 1
    /\ \A k \in DOMAIN Order(r) :
          /\ k < next[r]
          /\ \A j \in DOMAIN Order(r) : k < j /\ j < next[r] => Order(r)[j].id # Order(r)[k].id
          => written[r][Order(r)[k].id] \in {Nil, Order(r)[k].sort}
    /\ \A i \in Rows : written[r][i] # Nil => \E k \in DOMAIN Order(r) : Order(r)[k].id = i

\* What the refinement needs to know of a request.
Faithful(r) ==
    /\ pc[r] \notin {"idle", "done"} => request[r] \in Bodies[r]
    /\ pc[r] \notin {"validate", "update"} => next[r] = 1
    /\ pc[r] = "validate" => ValidUpTo(r, next[r])
    /\ pc[r] = "update" => ValidUpTo(r, Len(Order(r)) + 1) /\ Progress(r)

RInv == \A r \in Requests : Faithful(r)

\* Before its transaction, a request has written nothing.
LEMMA NothingWritten ==
    ASSUME IInv, NEW r \in Requests, pc[r] # "update"
    PROVE  \A i \in Rows : written[r][i] = Nil
  BY ReorderAssumption DEF IInv, HeldOnlyByTransactions

\* The order of a reorder is a sequence of rows and places.
LEMMA OrderFacts ==
    ASSUME IInv, NEW r \in Requests, pc[r] \in {"validate", "update"}
    PROVE  /\ Len(Order(r)) \in Nat
           /\ DOMAIN Order(r) = 1 .. Len(Order(r))
           /\ \A k \in DOMAIN Order(r) : Order(r)[k].id \in Rows /\ Order(r)[k].sort \in Sorts
           /\ request[r].kind = "reorder"
           /\ next[r] \in Nat \ {0}
<1>1. Order(r) \in Seq([id : Rows, sort : Sorts]) /\ request[r].kind = "reorder"
  BY DEF IInv, Shape, Order, Reorders
<1>2. Len(Order(r)) \in Nat /\ DOMAIN Order(r) = 1 .. Len(Order(r)) /\ next[r] \in Nat \ {0}
  BY <1>1 DEF IInv, TypeOK
<1>3. \A k \in DOMAIN Order(r) : Order(r)[k] \in [id : Rows, sort : Sorts]
  BY <1>1, <1>2, ElementOfSeq
<1>4. QED
  BY <1>1, <1>2, <1>3

\* A request of which nothing changes stays as it is.
LEMMA FaithfulUnchanged ==
    ASSUME NEW r \in Requests, Faithful(r), pc'[r] = pc[r], request'[r] = request[r],
           next'[r] = next[r], written'[r] = written[r]
    PROVE  Faithful(r)'
  BY DEF Faithful, ValidUpTo, Progress, Order

\* Requests that end are as they were before they began.
LEMMA EndFaithful ==
    ASSUME IInv, RInv, NEW X \in SUBSET Requests, NEW answer, EndWith(X, answer)
    PROVE  RInv'
<1> SUFFICES ASSUME NEW r \in Requests PROVE Faithful(r)'
  BY DEF RInv
<1>1. CASE r \in X
  BY <1>1 DEF EndWith, Faithful
<1>2. CASE r \notin X
  BY <1>2, FaithfulUnchanged DEF EndWith, RInv
<1>3. QED
  BY <1>1, <1>2

\* A transaction goes past an entry: the row gets its word, or was deleted and has
\* nothing written.
LEMMA PassFaithful ==
    ASSUME IInv, RInv, NEW r \in Requests, UpdateRow(r) \/ SkipRow(r)
    PROVE  RInv'
<1> SUFFICES ASSUME NEW q \in Requests PROVE Faithful(q)'
  BY DEF RInv
<1>1. /\ pc[r] = "update"
      /\ next[r] <= Len(Order(r))
      /\ next' = [next EXCEPT ![r] = @ + 1]
      /\ UNCHANGED <<pc, request>>
      /\ \/ written' = [written EXCEPT ![r][Entry(r).id] = Entry(r).sort]
         \/ written' = written /\ Entry(r).id \notin alive
  BY DEF UpdateRow, SkipRow
<1>2. CASE q # r
  <2>1. next'[q] = next[q] /\ written'[q] = written[q]
    BY <1>1, <1>2 DEF IInv, TypeOK
  <2>2. QED
    BY <1>1, <2>1, FaithfulUnchanged DEF RInv
<1>3. CASE q = r
  <2> DEFINE o == Order(r)
             n == next[r]
  <2>1. Order(r)' = o /\ ValidUpTo(r, Len(Order(r)) + 1)' /\ request'[r] \in Bodies[r]
    BY <1>1 DEF RInv, Faithful, ValidUpTo, Order
  <2>2. /\ Len(o) \in Nat /\ DOMAIN o = 1 .. Len(o) /\ n \in Nat
        /\ n \in DOMAIN o
        /\ o[n].id \in Rows
        /\ Entry(r) = o[n]
    BY <1>1, OrderFacts DEF Entry
  <2>3. written[r] \in [Rows -> Sorts \union {Nil}]
    BY DEF IInv, TypeOK
  <2>4. /\ next'[r] = n + 1
        /\ \/ written'[r] = [written[r] EXCEPT ![o[n].id] = o[n].sort]
           \/ written'[r] = written[r] /\ written[r][o[n].id] = Nil
    <3>1. next'[r] = n + 1
      BY <1>1 DEF IInv, TypeOK
    <3>2. CASE written' = [written EXCEPT ![r][Entry(r).id] = Entry(r).sort]
      BY <3>1, <3>2, <2>2 DEF IInv, TypeOK
    <3>3. CASE written' = written /\ Entry(r).id \notin alive
      BY <3>1, <3>3, <2>2, ReorderAssumption DEF IInv, HeldOnlyByTransactions
    <3>4. QED
      BY <1>1, <3>2, <3>3
  <2>5. Progress(r)
    BY <1>1 DEF RInv, Faithful
  <2> HIDE DEF o, n
  <2>6. n + 1 \in 1 .. Len(o) + 1
    BY <2>2
  <2>7. ASSUME NEW k \in DOMAIN o, k < n + 1,
               \A j \in DOMAIN o : k < j /\ j < n + 1 => o[j].id # o[k].id
        PROVE  written'[r][o[k].id] \in {Nil, o[k].sort}
    <3>1. CASE k = n
      BY <2>2, <2>3, <2>4, <3>1
    <3>2. CASE k # n
      <4>1. k < n
        BY <2>2, <2>7, <3>2
      <4>2. o[n].id # o[k].id
        BY <2>2, <2>7, <4>1
      <4>3. \A j \in DOMAIN o : k < j /\ j < n => o[j].id # o[k].id
        BY <2>2, <2>7
      <4>4. written[r][o[k].id] \in {Nil, o[k].sort}
        BY <2>5, <4>1, <4>3 DEF Progress, o, n
      <4>5. o[k].id \in Rows
        BY <1>1, OrderFacts DEF o
      <4>6. QED
        BY <2>3, <2>4, <4>2, <4>4, <4>5
    <3>3. QED
      BY <3>1, <3>2
  <2>8. ASSUME NEW i \in Rows, written'[r][i] # Nil
        PROVE  \E k \in DOMAIN o : o[k].id = i
    <3>1. CASE i = o[n].id
      BY <2>2, <3>1
    <3>2. CASE i # o[n].id
      <4>1. written[r][i] # Nil
        BY <2>3, <2>4, <2>8, <3>2
      <4>2. QED
        BY <2>5, <4>1 DEF Progress, o
    <3>3. QED
      BY <3>1, <3>2
  <2>9. Progress(r)'
    BY <2>1, <2>4, <2>6, <2>7, <2>8 DEF Progress
  <2>10. QED
    BY <1>1, <1>3, <2>1, <2>9 DEF Faithful
<1>4. QED
  BY <1>2, <1>3

\* A request begins, is validated, begins a transaction or reads a row.
LEMMA EasyFaithful ==
    ASSUME IInv, RInv, NEW r \in Requests,
           \/ Begin(r) \/ Validate(r) \/ BeginTransaction(r)
           \/ Find(r) \/ BeginStatement(r) \/ SaveMiss(r)
    PROVE  RInv'
<1> SUFFICES ASSUME NEW q \in Requests PROVE Faithful(q)'
  BY DEF RInv
<1>1. CASE q # r
  <2>1. pc'[q] = pc[q] /\ request'[q] = request[q] /\ next'[q] = next[q] /\ written'[q] = written[q]
    BY <1>1 DEF Begin, Validate, BeginTransaction, Find, BeginStatement, SaveMiss, Goto,
                IInv, TypeOK
  <2>2. QED
    BY <2>1, FaithfulUnchanged DEF RInv
<1>2. CASE q = r /\ Begin(r)
  <2>1. PICK b \in Bodies[r] :
          /\ request' = [request EXCEPT ![r] = b]
          /\ pc' = [pc EXCEPT ![r] = IF b.kind = "reorder" THEN "validate" ELSE "find"]
    BY <1>2 DEF Begin, Goto
  <2>2. pc[r] = "idle" /\ next' = next
    BY <1>2 DEF Begin
  <2>3. request'[r] = b /\ pc'[r] \in {"validate", "find"} /\ next'[r] = 1
    BY <2>1, <2>2 DEF IInv, TypeOK, RInv, Faithful
  <2>4. pc'[r] = "validate" => ValidUpTo(r, next[r])'
    <3>1. SUFFICES ASSUME pc'[r] = "validate" PROVE ValidUpTo(r, next[r])'
      OBVIOUS
    <3>2. b \in Reorders
      BY <2>1, <3>1, BodyFacts DEF IInv, TypeOK
    <3>3. DOMAIN Order(r)' \subseteq Nat \ {0}
      BY <2>3, <3>2 DEF Order, Reorders
    <3>4. \A k \in DOMAIN Order(r)' : ~ (k < next'[r])
      BY <2>3, <3>3
    <3>5. QED
      BY <3>4 DEF ValidUpTo
  <2>5. QED
    BY <1>2, <2>1, <2>3, <2>4 DEF Faithful
<1>3. CASE q = r /\ Validate(r)
  <2>1. /\ pc[r] = "validate" /\ Fits(r) /\ next[r] <= Len(Order(r))
        /\ next' = [next EXCEPT ![r] = @ + 1]
        /\ UNCHANGED <<pc, request>>
    BY <1>3 DEF Validate
  <2>2. Order(r)' = Order(r) /\ next'[r] = next[r] + 1
    BY <2>1 DEF Order, IInv, TypeOK
  <2>3. ASSUME NEW k \in DOMAIN Order(r), k < next[r] + 1
        PROVE  Home[Order(r)[k].id] = request[r].scope
    <3>1. CASE k = next[r]
      BY <2>1, <3>1 DEF Fits, Entry
    <3>2. CASE k < next[r]
      BY <2>1, <3>2 DEF RInv, Faithful, ValidUpTo
    <3>3. QED
      BY <2>1, <2>3, <3>1, <3>2, OrderFacts
  <2>4. ValidUpTo(r, next[r])'
    BY <2>1, <2>2, <2>3 DEF ValidUpTo
  <2>5. QED
    BY <1>3, <2>1, <2>4 DEF RInv, Faithful
<1>4. CASE q = r /\ BeginTransaction(r)
  <2>1. /\ pc[r] = "validate" /\ next[r] > Len(Order(r))
        /\ pc' = [pc EXCEPT ![r] = "update"] /\ next' = [next EXCEPT ![r] = 1]
        /\ UNCHANGED <<request, written>>
    BY <1>4 DEF BeginTransaction, Goto
  <2>2. Order(r)' = Order(r) /\ pc'[r] = "update" /\ next'[r] = 1 /\ request'[r] \in Bodies[r]
    BY <2>1 DEF Order, IInv, TypeOK, RInv, Faithful
  <2>3. /\ Len(Order(r)) \in Nat /\ DOMAIN Order(r) = 1 .. Len(Order(r)) /\ next[r] \in Nat
    BY <2>1, OrderFacts
  <2>4. ValidUpTo(r, Len(Order(r)) + 1)'
    <3>1. \A k \in DOMAIN Order(r) : k < next[r]
      BY <2>1, <2>3
    <3>2. \A k \in DOMAIN Order(r) : Home[Order(r)[k].id] = request[r].scope
      BY <2>1, <3>1 DEF RInv, Faithful, ValidUpTo
    <3>3. QED
      BY <2>1, <2>2, <3>2 DEF ValidUpTo
  <2>5. Progress(r)'
    <3>1. next'[r] \in 1 .. Len(Order(r)') + 1
      BY <2>2, <2>3
    <3>2. \A k \in DOMAIN Order(r)' : ~ (k < next'[r])
      BY <2>2, <2>3
    <3>3. \A i \in Rows : written'[r][i] = Nil
      BY <2>1, NothingWritten
    <3>4. QED
      BY <3>1, <3>2, <3>3 DEF Progress
  <2>6. QED
    BY <1>4, <2>2, <2>4, <2>5 DEF Faithful
<1>5. CASE q = r /\ (Find(r) \/ BeginStatement(r) \/ SaveMiss(r))
  <2>1. pc[r] \notin {"idle", "done", "validate", "update"} /\ UNCHANGED <<request, next>>
    BY <1>5 DEF Find, BeginStatement, SaveMiss
  <2>2. pc'[r] \notin {"validate", "update"}
    <3>1. CASE Find(r)
      <4>1. pc'[r] = request[r].kind
        BY <3>1 DEF Find, Goto, IInv, TypeOK
      <4>2. request[r] \in Saves \union Removals
        BY <3>1 DEF Find, IInv, Shape
      <4>3. QED
        BY <4>1, <4>2 DEF Saves, Removals
    <3>2. CASE BeginStatement(r) \/ SaveMiss(r)
      BY <3>2 DEF BeginStatement, SaveMiss, Goto, IInv, TypeOK
    <3>3. QED
      BY <1>5, <3>1, <3>2
  <2>3. QED
    BY <1>5, <2>1, <2>2 DEF RInv, Faithful
<1>6. QED
  BY <1>1, <1>2, <1>3, <1>4, <1>5

\* A step keeps what transactions have written true to their orders.
LEMMA NextRInv == IInv /\ RInv /\ [Next]_vars => RInv'
<1> SUFFICES ASSUME IInv, RInv, [Next]_vars PROVE RInv'
  OBVIOUS
<1>1. ASSUME NEW r \in Requests, Begin(r) PROVE RInv'
  BY <1>1, EasyFaithful
<1>2. ASSUME NEW r \in Requests, Step(r) PROVE RInv'
  <2>1. CASE \/ Validate(r) \/ BeginTransaction(r)
             \/ Find(r) \/ BeginStatement(r) \/ SaveMiss(r)
    BY <2>1, EasyFaithful
  <2>2. CASE UpdateRow(r) \/ SkipRow(r)
    BY <2>2, PassFaithful
  <2>3. CASE \/ Commit(r) \/ BreakDeadlock(r) \/ SaveWrite(r) \/ Upsert(r) \/ RemoveRow(r)
             \/ NotFound(r) \/ Fail(r)
    <3>1. PICK answer \in {"ok", "internal", "notFound"} : EndWith({r}, answer)
      BY <2>3 DEF Commit, BreakDeadlock, SaveWrite, Upsert, RemoveRow, NotFound, Fail
    <3>2. QED
      BY <3>1, EndFaithful
  <2>4. QED
    BY <1>2, <2>1, <2>2, <2>3 DEF Step, Proceed
<1>3. ASSUME NEW X \in SUBSET Requests, Abandon(X) PROVE RInv'
  <2> DEFINE E == {r \in X : pc[r] \notin {"idle", "done"}}
  <2>1. E \in SUBSET Requests /\ EndWith(E, "abandoned")
    BY <1>3 DEF Abandon
  <2> HIDE DEF E
  <2>2. QED
    BY <2>1, EndFaithful
<1>4. CASE UNCHANGED vars
  BY <1>4, FaithfulUnchanged DEF vars, RInv
<1>5. QED
  BY <1>1, <1>2, <1>3, <1>4 DEF Next

-----------------------------------------------------------------------------
(* The refinement.                                                         *)

\* Only in its transaction has a reorder missed anything, and only its steps and its
\* end change that.
LEMMA MissedFacts ==
    /\ DOMAIN missed = Requests
    /\ \A r \in Requests : pc[r] # "update" => missed[r] = {}
    /\ \A r \in Requests :
          /\ pc'[r] = pc[r] /\ request'[r] = request[r]
          /\ next'[r] = next[r] /\ written'[r] = written[r]
          => missed'[r] = missed[r]
    /\ \A r \in Requests : pc'[r] # "update" => missed'[r] = {}
    /\ missed' = [r \in Requests |-> missed'[r]]
<1>1. DOMAIN missed = Requests /\ missed' = [r \in Requests |-> missed'[r]]
  BY DEF missed
<1>2. ASSUME NEW r \in Requests, pc'[r] = pc[r], request'[r] = request[r],
             next'[r] = next[r], written'[r] = written[r]
      PROVE  missed'[r] = missed[r]
  <2>1. Order(r)' = Order(r)
    BY <1>2 DEF Order
  <2>2. {Order(r)'[k].id : k \in {m \in DOMAIN Order(r)' : m < next'[r]}}
        = {Order(r)[k].id : k \in {m \in DOMAIN Order(r) : m < next[r]}}
    BY <1>2, <2>1
  <2>3. {i \in Rows : written'[r][i] = Nil} = {i \in Rows : written[r][i] = Nil}
    BY <1>2
  <2>4. QED
    BY <1>2, <2>2, <2>3 DEF missed
<1>3. \A r \in Requests : /\ pc[r] # "update" => missed[r] = {}
                          /\ pc'[r] # "update" => missed'[r] = {}
  BY DEF missed
<1>4. QED
  BY <1>1, <1>2, <1>3

\* Nobody's transaction changes, or it begins.
LEMMA MissedSame ==
    ASSUME IInv, RInv, NEW r \in Requests,
           \/ Begin(r) \/ Validate(r) \/ BeginTransaction(r)
           \/ Find(r) \/ BeginStatement(r) \/ SaveMiss(r)
    PROVE  missed' = missed
<1>1. ASSUME NEW q \in Requests \ {r} PROVE missed'[q] = missed[q]
  <2>1. pc'[q] = pc[q] /\ request'[q] = request[q] /\ next'[q] = next[q] /\ written'[q] = written[q]
    BY DEF Begin, Validate, BeginTransaction, Find, BeginStatement, SaveMiss, Goto, IInv, TypeOK
  <2>2. QED
    BY <2>1, MissedFacts
<1>2. missed'[r] = missed[r]
  <2>1. pc[r] # "update"
    BY DEF Begin, Validate, BeginTransaction, Find, BeginStatement, SaveMiss
  <2>2. CASE pc'[r] # "update"
    BY <2>1, <2>2, MissedFacts
  <2>3. CASE pc'[r] = "update"
    <3>1. BeginTransaction(r)
      <4>1. ~ Begin(r) /\ ~ BeginStatement(r) /\ ~ SaveMiss(r) /\ ~ Validate(r)
        BY <2>3, <2>1 DEF Begin, BeginStatement, SaveMiss, Validate, Goto, IInv, TypeOK
      <4>2. ~ Find(r)
        BY <2>3 DEF Find, Goto, IInv, TypeOK, Shape, Saves, Removals
      <4>3. QED
        BY <4>1, <4>2
    <3>2. pc[r] = "validate" /\ next'[r] = 1 /\ Order(r)' = Order(r)
      BY <3>1 DEF BeginTransaction, Order, IInv, TypeOK
    <3>3. \A k \in DOMAIN Order(r)' : ~ (k < next'[r])
      BY <3>2, OrderFacts
    <3>4. missed'[r] = {}
      BY <2>3, <3>3 DEF missed
    <3>5. QED
      BY <2>1, <3>4, MissedFacts
  <2>4. QED
    BY <2>2, <2>3
<1>3. \A q \in Requests : missed'[q] = missed[q]
  BY <1>1, <1>2
<1>4. QED
  BY <1>3 DEF missed

\* Requests that end have missed nothing any more.
LEMMA MissedEnd ==
    ASSUME NEW X \in SUBSET Requests, NEW answer, EndWith(X, answer)
    PROVE  /\ \A r \in X : missed'[r] = {}
           /\ \A r \in Requests \ X : missed'[r] = missed[r]
<1>1. \A r \in X : pc'[r] = "done"
  BY DEF EndWith
<1>2. \A r \in Requests \ X : /\ pc'[r] = pc[r] /\ request'[r] = request[r]
                              /\ next'[r] = next[r] /\ written'[r] = written[r]
  BY DEF EndWith
<1>3. QED
  BY <1>1, <1>2, MissedFacts

\* A transaction that goes past an entry notices whether its row is deleted.
LEMMA PassRefines ==
    ASSUME IInv, RInv, NEW r \in Requests, UpdateRow(r) \/ SkipRow(r)
    PROVE  A!Notice(r)
<1> DEFINE o == Order(r)
           n == next[r]
           i == o[n].id
           past(m) == {o[k].id : k \in {k \in DOMAIN o : k < m}}
<1>1. /\ pc[r] = "update" /\ n <= Len(o)
      /\ next' = [next EXCEPT ![r] = @ + 1]
      /\ UNCHANGED <<sortOrder, alive, pc, request, copy, reply>>
      /\ \/ i \in alive /\ written' = [written EXCEPT ![r][i] = o[n].sort]
         \/ i \notin alive /\ written' = written
  BY DEF UpdateRow, SkipRow, table, Entry
<1>2. /\ Len(o) \in Nat /\ DOMAIN o = 1 .. Len(o) /\ n \in Nat
      /\ n \in DOMAIN o /\ i \in Rows /\ o[n].sort \in Sorts
      /\ request[r].kind = "reorder" /\ request[r] # Nil
  BY <1>1, OrderFacts, ReorderAssumption DEF RInv, Faithful
<1>3. Order(r)' = o /\ next'[r] = n + 1 /\ pc'[r] = "update"
  BY <1>1 DEF Order, IInv, TypeOK
<1>4. past(n + 1) = past(n) \union {i}
  BY <1>2
<1>5. /\ missed[r] = past(n) \intersect {j \in Rows : written[r][j] = Nil}
      /\ missed'[r] = past(n + 1) \intersect {j \in Rows : written'[r][j] = Nil}
  BY <1>1, <1>3 DEF missed
<1>6. \A q \in Requests \ {r} : missed'[q] = missed[q]
  <2>1. \A q \in Requests \ {r} : next'[q] = next[q] /\ written'[q] = written[q]
    BY <1>1 DEF IInv, TypeOK
  <2>2. QED
    BY <1>1, <2>1, MissedFacts
<1>7. CASE i \in alive /\ written' = [written EXCEPT ![r][i] = o[n].sort]
  <2>1. \A j \in Rows : written'[r][j] = IF j = i THEN o[n].sort ELSE written[r][j]
    BY <1>2, <1>7 DEF IInv, TypeOK
  <2>2. o[n].sort # Nil
    BY <1>2, ReorderAssumption
  <2> HIDE DEF i, n, o
  <2>3. missed'[r] = missed[r] \ {i}
    <3> HIDE DEF past
    <3>1. QED
      BY <1>4, <1>5, <2>1, <2>2
  <2> HIDE DEF past
  <2>4. missed' = [missed EXCEPT ![r] = @ \ {i}]
    BY <1>6, <2>3, MissedFacts
  <2>5. QED
    BY <1>1, <1>2, <1>7, <2>4 DEF A!Notice, A!Asking
<1>8. CASE i \notin alive /\ written' = written
  <2>1. written[r][i] = Nil
    BY <1>2, <1>8, ReorderAssumption DEF IInv, HeldOnlyByTransactions
  <2> HIDE DEF i, n, o
  <2>2. missed'[r] = missed[r] \union {i}
    <3> HIDE DEF past
    <3>1. QED
      BY <1>2, <1>4, <1>5, <1>8, <2>1
  <2> HIDE DEF past
  <2>3. missed' = [missed EXCEPT ![r] = @ \union {i}]
    BY <1>6, <2>2, MissedFacts
  <2>4. QED
    BY <1>1, <1>2, <1>8, <2>3 DEF A!Notice, A!Asking
<1>9. QED
  BY <1>1, <1>7, <1>8

\* A commit puts all rows of the order in their places, but those it has missed.
LEMMA CommitRefines ==
    ASSUME IInv, RInv, NEW r \in Requests, Commit(r)
    PROVE  A!Apply(r)
<1> DEFINE o == Order(r)
<1>1. /\ pc[r] = "update" /\ next[r] > Len(o) /\ alive' = alive
      /\ sortOrder' = [i \in Rows |-> IF written[r][i] = Nil THEN sortOrder[i] ELSE written[r][i]]
  BY DEF Commit
<1>2. PICK answer \in {"ok", "internal"} : EndWith({r}, answer)
  BY DEF Commit
<1>3. /\ Len(o) \in Nat /\ DOMAIN o = 1 .. Len(o) /\ next[r] \in Nat
      /\ \A k \in DOMAIN o : o[k].id \in Rows /\ o[k].sort \in Sorts
      /\ request[r].kind = "reorder"
  BY <1>1, OrderFacts
<1>4. Progress(r) /\ ValidUpTo(r, Len(o) + 1) /\ request[r] # Nil
  BY <1>1, ReorderAssumption DEF RInv, Faithful
<1>5. sortOrder' \in [Rows -> Sorts]
  BY <1>1 DEF IInv, TypeOK
<1>6. missed[r] = {o[k].id : k \in {m \in DOMAIN o : m < next[r]}}
                  \intersect {i \in Rows : written[r][i] = Nil}
  BY <1>1 DEF missed
<1> HIDE DEF o
<1>7. ASSUME NEW k \in DOMAIN o, A!LastWord(o, k)
      PROVE  \/ o[k].id \in missed[r]
             \/ o[k].id \in alive /\ sortOrder'[o[k].id] = o[k].sort
  <2>1. k < next[r]
    BY <1>1, <1>3
  <2>2. \A j \in DOMAIN o : k < j /\ j < next[r] => o[j].id # o[k].id
    BY <1>3, <1>7 DEF A!LastWord
  <2>3. written[r][o[k].id] \in {Nil, o[k].sort}
    BY <1>4, <2>1, <2>2 DEF Progress, o
  <2>4. CASE written[r][o[k].id] = Nil
    BY <1>3, <1>6, <2>1, <2>4
  <2>5. CASE written[r][o[k].id] # Nil
    <3>1. lock[o[k].id] = r /\ o[k].id \in alive
      BY <1>3, <2>5, ReorderAssumption DEF IInv, HeldOnlyByTransactions
    <3>2. QED
      BY <1>1, <1>3, <2>3, <2>5, <3>1
  <2>6. QED
    BY <2>4, <2>5
<1>8. ASSUME NEW i \in Rows
      PROVE  \/ sortOrder'[i] = sortOrder[i]
             \/ i \notin missed[r] /\ \E k \in DOMAIN o : o[k].id = i
  <2>1. CASE written[r][i] = Nil
    BY <1>1, <2>1
  <2>2. CASE written[r][i] # Nil
    BY <1>4, <1>6, <2>2 DEF Progress, o
  <2>3. QED
    BY <2>1, <2>2
<1>9. A!Over(r, {"ok", "internal"})
  <2>1. missed' = [missed EXCEPT ![r] = {}]
    BY <1>2, MissedEnd, MissedFacts
  <2>2. QED
    BY <1>2, <2>1 DEF EndWith, A!Over, IInv, TypeOK
<1>10. \A k \in DOMAIN o : Home[o[k].id] = request[r].scope
  <2>1. \A k \in DOMAIN o : k < Len(o) + 1
    BY <1>3
  <2>2. QED
    BY <1>4, <2>1 DEF ValidUpTo, o
<1>11. o = request[r].order
  BY DEF o, Order
<1>12. A!Asking(r, "reorder")
  BY <1>3, <1>4 DEF A!Asking
<1>13. QED
  BY <1>1, <1>5, <1>7, <1>8, <1>9, <1>10, <1>11, <1>12 DEF A!Apply

\* The statement that ends an update or a deletion.
LEMMA StatementRefines ==
    ASSUME IInv, RInv, NEW r \in Requests, SaveWrite(r) \/ Upsert(r) \/ RemoveRow(r)
    PROVE  A!Put(r) \/ A!Remove(r)
<1>1. PICK answer \in {"ok", "internal"} : EndWith({r}, answer)
  BY DEF SaveWrite, Upsert, RemoveRow
<1>2. A!Over(r, {"ok", "internal"})
  <2>1. missed'[r] = {} /\ \A q \in Requests \ {r} : missed'[q] = missed[q]
    BY <1>1, MissedEnd
  <2>2. missed' = [missed EXCEPT ![r] = {}]
    BY <2>1, MissedFacts
  <2>3. QED
    BY <1>1, <2>2 DEF EndWith, A!Over, IInv, TypeOK
<1>3. CASE SaveWrite(r) \/ Upsert(r)
  <2>1. /\ pc[r] \in {"write", "upsert"}
        /\ sortOrder' = [sortOrder EXCEPT ![request[r].row] = copy[r]]
        /\ alive' = alive \union {request[r].row}
    BY <1>3 DEF SaveWrite, Upsert
  <2>2. request[r] # Nil /\ request[r].kind = "save" /\ copy[r] # Nil
    BY <2>1, ReorderAssumption DEF IInv, Shape, RInv, Faithful, Saves
  <2>3. QED
    BY <1>2, <2>1, <2>2 DEF A!Put, A!Asking
<1>4. CASE RemoveRow(r)
  <2>1. pc[r] = "delete" /\ alive' = alive \ {request[r].row} /\ sortOrder' = sortOrder
    BY <1>4 DEF RemoveRow
  <2>2. request[r] # Nil /\ request[r].kind = "remove"
    BY <2>1, ReorderAssumption DEF IInv, Shape, RInv, Faithful, Removals
  <2>3. QED
    BY <1>2, <2>1, <2>2 DEF A!Remove, A!Asking
<1>5. QED
  BY <1>3, <1>4

\* What Arrangement promises of each step, here.
LEMMA StepRefines == IInv /\ RInv /\ [Next]_vars => [A!Next]_(A!vars)
<1> SUFFICES ASSUME IInv, RInv, [Next]_vars PROVE [A!Next]_(A!vars)
  OBVIOUS
<1>1. ASSUME NEW r \in Requests, Begin(r) PROVE A!Ask(r)
  BY <1>1, MissedSame DEF Begin, table, A!Ask, IInv, Shape
<1>2. ASSUME NEW X \in SUBSET Requests, NEW answer \in {"notFound", "internal", "abandoned"},
             EndWith(X, answer), UNCHANGED table, \A r \in X : pc[r] \notin {"idle", "done"}
      PROVE  A!Refuse
  <2>1. \A r \in X : request[r] # Nil
    BY <1>2, ReorderAssumption DEF RInv, Faithful
  <2>2. /\ \A r \in X : missed'[r] = {}
        /\ \A r \in Requests \ X : missed'[r] = missed[r]
    BY <1>2, MissedEnd
  <2>3. QED
    BY <1>2, <2>1, <2>2 DEF EndWith, table, A!Refuse
<1>3. ASSUME NEW r \in Requests, Find(r) PROVE A!Look(r) \/ UNCHANGED A!vars
  <2>1. /\ pc[r] = "find" /\ request[r].row \in alive
        /\ UNCHANGED <<sortOrder, alive, request, reply, missed>>
    BY <1>3, MissedSame DEF Find, table
  <2>2. request[r] # Nil /\ copy[r] = Nil /\ request[r] \in Saves \union Removals
    BY <2>1, ReorderAssumption DEF IInv, Shape, RInv, Faithful
  <2>3. CASE request[r].kind = "save"
    <3>1. copy' = [copy EXCEPT ![r] = IF request[r].sort = Nil
                                      THEN sortOrder[request[r].row] ELSE request[r].sort]
      BY <1>3, <2>3 DEF Find
    <3>2. QED
      BY <2>1, <2>2, <2>3, <3>1 DEF A!Look, A!Asking
  <2>4. CASE request[r].kind = "remove"
    BY <1>3, <2>1, <2>4 DEF Find, A!vars
  <2>5. QED
    BY <2>2, <2>3, <2>4 DEF Saves, Removals
<1>4. ASSUME NEW r \in Requests, Step(r) PROVE A!Next \/ UNCHANGED A!vars
  <2>1. CASE Validate(r) \/ BeginTransaction(r) \/ BeginStatement(r) \/ SaveMiss(r)
    <3>1. missed' = missed
      BY <2>1, MissedSame
    <3>2. QED
      BY <2>1, <3>1 DEF Validate, BeginTransaction, BeginStatement, SaveMiss, table, A!vars
  <2>2. CASE UpdateRow(r) \/ SkipRow(r)
    BY <2>2, PassRefines DEF A!Next
  <2>3. CASE Commit(r) \/ Find(r) \/ SaveWrite(r) \/ Upsert(r) \/ RemoveRow(r)
    BY <1>3, <2>3, CommitRefines, StatementRefines DEF A!Next
  <2>4. CASE BreakDeadlock(r)
    <3>1. PICK X \in SUBSET Waiting : r \in X /\ \A s \in X : WaitsFor(s) \in X \ {s}
      BY <2>4 DEF BreakDeadlock, Deadlocked
    <3>2. pc[r] = "update"
      BY <3>1, ReorderAssumption DEF Waiting, WaitsFor
    <3>3. A!Refuse
      BY <1>2, <2>4, <3>2 DEF BreakDeadlock
    <3>4. QED
      BY <3>3 DEF A!Next
  <2>5. CASE NotFound(r) \/ Fail(r)
    <3>1. pc[r] \notin {"idle", "done"} /\ UNCHANGED table
      BY <2>5 DEF NotFound, Fail
    <3>2. PICK answer \in {"internal", "notFound"} : EndWith({r}, answer)
      BY <2>5 DEF NotFound, Fail
    <3>3. A!Refuse
      BY <1>2, <3>1, <3>2
    <3>4. QED
      BY <3>3 DEF A!Next
  <2>6. QED
    BY <1>4, <2>1, <2>2, <2>3, <2>4, <2>5 DEF Step, Proceed
<1>5. ASSUME NEW X \in SUBSET Requests, Abandon(X) PROVE A!Next
  <2> DEFINE E == {r \in X : pc[r] \notin {"idle", "done"}}
  <2>1. /\ E \in SUBSET Requests /\ \A r \in E : pc[r] \notin {"idle", "done"}
        /\ EndWith(E, "abandoned") /\ UNCHANGED table
    BY <1>5 DEF Abandon
  <2> HIDE DEF E
  <2>2. A!Refuse
    BY <1>2, <2>1
  <2>3. QED
    BY <2>2 DEF A!Next
<1>6. CASE UNCHANGED vars
  BY <1>6 DEF vars, table, missed, Order, A!vars
<1>7. QED
  BY <1>1, <1>4, <1>5, <1>6 DEF Next, A!Next

\* A reorder takes effect in one step, on all rows of its order but those deleted
\* under way, or not at all (ImplementsArrangement), for any requests and any
\* deadlocks, failures and crashes between its updates.
THEOREM ReorderIsAtomic == Spec => ImplementsArrangement
<1>1. Init => RInv
  BY DEF Init, RInv, Faithful
<1>2. Init => A!Init
  BY DEF Init, A!Init, missed
<1>3. QED
  BY <1>1, <1>2, InitIInv, NextIInv, NextRInv, StepRefines, PTL
     DEF Spec, ImplementsArrangement, A!Spec

-----------------------------------------------------------------------------
(* The process: Serving.                                                   *)

\* A handler starts after its request has arrived, and returns an answer of its own.
Returned ==
    \A r \in Requests :
        /\ place[r] = "none" => pc[r] = "idle"
        /\ pc[r] = "done" /\ place[r] = "running" => reply[r] \in {"ok", "notFound", "internal"}

\* The stages of the process, and what there can be at each of them.
Stages ==
    /\ S!TypeOK
    /\ process = "exited" <=> exit # "none"
    /\ listener = "open" => process \in {"starting", "waiting"}
    /\ listener = "closed" => process = "draining"
    /\ (\E r \in Requests : S!InFlight(r)) => process \in {"starting", "waiting", "draining"}
    /\ (\E r \in Requests : place[r] = "cut") => process = "exited"

ServerInv == Stages /\ CountersAddUp /\ CutOnlyAfterDeadline

-----------------------------------------------------------------------------
(* The whole is made of its parts.                                         *)

\* Every step is a step of Reorder, or leaves the menu alone.
LEMMA ReorderStep == ServingNext => [Next]_vars
<1> SUFFICES ASSUME ServingNext PROVE Next \/ UNCHANGED vars
  OBVIOUS
<1>1. CASE ProcessStep
  BY <1>1 DEF ProcessStep
<1>2. CASE ProcessEnds
  BY <1>2 DEF ProcessEnds, Next
<1>3. ASSUME NEW r \in Requests, RequestStep(r) PROVE Next \/ UNCHANGED vars
  <2>1. Abandon({r}) => Next
    BY DEF Next
  <2>2. QED
    BY <1>3, <2>1
       DEF RequestStep, BecomesSocket, Handle, TurnAway, HandlerStep, HandlerReturns, HandlerPanics,
           Next
<1>4. QED
  BY <1>1, <1>2, <1>3 DEF ServingNext

\* Every step is a step of Server, or leaves the server alone.
LEMMA ServerStep == Returned /\ ServingNext => [S!Next]_(S!vars)
<1> SUFFICES ASSUME Returned, ServingNext PROVE S!Next \/ UNCHANGED S!vars
  OBVIOUS
<1>1. ASSUME UNCHANGED serverVars PROVE UNCHANGED S!vars
  BY <1>1 DEF serverVars, S!vars, S!lifecycle, S!counters
<1>2. CASE ProcessStep \/ ProcessEnds
  BY <1>2 DEF ProcessStep, ProcessEnds, S!Next
<1>3. ASSUME NEW r \in Requests, RequestStep(r) PROVE S!Next \/ UNCHANGED S!vars
  <2>1. S!Codes = {"ok", "rejected", "failed"}
    BY DEF S!Codes
  <2>2. CASE S!Arrive(r) \/ S!Record(r)
    BY <2>2 DEF S!Next
  <2>3. CASE BecomesSocket(r)
    BY <2>1, <2>3 DEF BecomesSocket, S!Next
  <2>4. CASE Handle(r) \/ HandlerStep(r)
    BY <1>1, <2>4 DEF Handle, HandlerStep
  <2>5. CASE TurnAway(r)
    BY <2>1, <2>5 DEF TurnAway, S!Next
  <2>6. CASE HandlerReturns(r)
    <3>1. S!Answer(r, CodeOf(reply[r])) /\ pc[r] = "done"
      BY <2>6 DEF HandlerReturns
    <3>2. reply[r] \in {"ok", "notFound", "internal"}
      BY <3>1 DEF Returned, S!Answer
    <3>3. CodeOf(reply[r]) \in S!Codes
      BY <2>1, <3>2 DEF CodeOf
    <3>4. QED
      BY <3>1, <3>3 DEF S!Next
  <2>7. CASE HandlerPanics(r)
    BY <2>7 DEF HandlerPanics, S!Next
  <2>8. QED
    BY <1>3, <2>2, <2>3, <2>4, <2>5, <2>6, <2>7 DEF RequestStep
<1>4. QED
  BY <1>2, <1>3 DEF ServingNext

\* A request that a handler's step ends is answered by the handler.
LEMMA HandlerAnswers ==
    ASSUME IInv, NEW r \in Requests, Begin(r) \/ Step(r), NEW q \in Requests, pc'[q] = "done"
    PROVE  \/ pc[q] = "done" /\ reply'[q] = reply[q]
           \/ reply'[q] \in {"ok", "notFound", "internal"}
<1>1. pc \in [Requests -> Label]
  BY DEF IInv, TypeOK, Label
<1>2. ASSUME NEW answer \in {"ok", "notFound", "internal"}, EndWith({r}, answer)
      PROVE  \/ pc[q] = "done" /\ reply'[q] = reply[q]
             \/ reply'[q] \in {"ok", "notFound", "internal"}
  BY <1>2 DEF EndWith
<1>3. CASE Begin(r) \/ BeginTransaction(r) \/ BeginStatement(r) \/ SaveMiss(r)
  BY <1>1, <1>3 DEF Begin, BeginTransaction, BeginStatement, SaveMiss, Goto
<1>4. CASE Validate(r) \/ UpdateRow(r) \/ SkipRow(r)
  BY <1>1, <1>4 DEF Validate, UpdateRow, SkipRow
<1>5. CASE Find(r)
  <2>1. request[r].kind # "done"
    BY <1>5 DEF Find, IInv, Shape, Saves, Removals
  <2>2. QED
    BY <1>1, <1>5, <2>1 DEF Find, Goto
<1>6. CASE \/ Commit(r) \/ BreakDeadlock(r) \/ SaveWrite(r) \/ Upsert(r) \/ RemoveRow(r)
           \/ NotFound(r) \/ Fail(r)
  BY <1>2, <1>6 DEF Commit, BreakDeadlock, SaveWrite, Upsert, RemoveRow, NotFound, Fail
<1>7. QED
  BY <1>3, <1>4, <1>5, <1>6 DEF Step, Proceed

\* Only a request under way takes a step, and it leaves the others alone.
LEMMA StepAlone ==
    ASSUME IInv, NEW r \in Requests, Begin(r) \/ Step(r)
    PROVE  /\ Step(r) => pc[r] \notin {"idle", "done"}
           /\ \A q \in Requests \ {r} : pc'[q] = pc[q] /\ reply'[q] = reply[q]
<1>1. pc \in [Requests -> Label]
  BY DEF IInv, TypeOK, Label
<1>2. ASSUME NEW answer, EndWith({r}, answer)
      PROVE  \A q \in Requests \ {r} : pc'[q] = pc[q] /\ reply'[q] = reply[q]
  BY <1>2 DEF EndWith
<1>3. BreakDeadlock(r) => pc[r] = "update"
  BY ReorderAssumption DEF BreakDeadlock, Deadlocked, Waiting, WaitsFor
<1>4. Step(r) => pc[r] \notin {"idle", "done"}
  BY <1>3
     DEF Step, Proceed, Validate, BeginTransaction, UpdateRow, SkipRow, Commit, Find,
         BeginStatement, SaveWrite, SaveMiss, Upsert, RemoveRow, NotFound, Fail
<1>5. CASE \/ Begin(r) \/ Validate(r) \/ BeginTransaction(r) \/ UpdateRow(r) \/ SkipRow(r)
           \/ Find(r) \/ BeginStatement(r) \/ SaveMiss(r)
  BY <1>1, <1>4, <1>5
     DEF Begin, Validate, BeginTransaction, UpdateRow, SkipRow, Find, BeginStatement, SaveMiss, Goto
<1>6. CASE \/ Commit(r) \/ BreakDeadlock(r) \/ SaveWrite(r) \/ Upsert(r) \/ RemoveRow(r)
           \/ NotFound(r) \/ Fail(r)
  BY <1>2, <1>4, <1>6 DEF Commit, BreakDeadlock, SaveWrite, Upsert, RemoveRow, NotFound, Fail
<1>7. QED
  BY <1>5, <1>6 DEF Step, Proceed

\* How the process ends, and how it goes on.
LEMMA ProcessFacts ==
    ASSUME S!Start \/ S!Signal \/ S!Deadline \/ S!Leave
    PROVE  \/ process' = "exited" /\ \E how : S!Exit(how)
           \/ process' # "exited" /\ UNCHANGED <<place, code, httpRequests, statusCounts, panicCount>>
<1>1. ASSUME NEW how, S!Exit(how)
      PROVE  process' = "exited" /\ \E h : S!Exit(h)
  BY <1>1 DEF S!Exit
<1>2. CASE S!Start
  BY <1>1, <1>2 DEF S!Start, S!LoadConfig, S!Connect, S!RunMigrations, S!Listen, S!Notify,
                    S!Advance, S!GiveUp, S!counters
<1>3. CASE S!Signal \/ S!Deadline
  BY <1>1, <1>3 DEF S!Signal, S!Deadline, S!counters
<1>4. CASE S!Leave
  BY <1>1, <1>4 DEF S!Leave, S!ServerFailed, S!ShutdownDone, S!ShutdownExpired, S!Kill
<1>5. QED
  BY <1>2, <1>3, <1>4

\* A handler starts after its request has arrived, and is over once it has answered.
LEMMA ReturnedStep == IInv /\ Stages /\ Returned /\ ServingNext => Returned'
<1> SUFFICES ASSUME IInv, Stages, Returned, ServingNext, NEW q \in Requests
             PROVE  /\ place'[q] = "none" => pc'[q] = "idle"
                    /\ pc'[q] = "done" /\ place'[q] = "running"
                       => reply'[q] \in {"ok", "notFound", "internal"}
  BY DEF Returned
<1>1. /\ place \in [Requests -> {"none", "running", "counted", "answered", "recovered", "cut"}]
      /\ pc \in [Requests -> Label]
  BY DEF Stages, S!TypeOK, IInv, TypeOK, Label
<1>2. /\ place[q] = "none" => pc[q] = "idle"
      /\ pc[q] = "done" /\ place[q] = "running" => reply[q] \in {"ok", "notFound", "internal"}
  BY DEF Returned
<1>3. CASE ProcessStep
  <2>1. UNCHANGED <<place, pc, reply>>
    BY <1>3, ProcessFacts DEF ProcessStep, vars
  <2>2. QED
    BY <1>2, <2>1
<1>4. CASE ProcessEnds
  <2>1. PICK how : S!Exit(how)
    BY <1>4, ProcessFacts DEF ProcessEnds
  <2>2. place'[q] = IF place[q] \in {"running", "counted"} THEN "cut" ELSE place[q]
    BY <2>1 DEF S!Exit, S!InFlight
  <2>3. pc[q] = "idle" => pc'[q] = "idle"
    BY <1>4 DEF ProcessEnds, Abandon, EndWith
  <2>4. QED
    BY <1>1, <1>2, <2>2, <2>3
<1>5. ASSUME NEW r \in Requests, RequestStep(r)
      PROVE  /\ place'[q] = "none" => pc'[q] = "idle"
             /\ pc'[q] = "done" /\ place'[q] = "running"
                => reply'[q] \in {"ok", "notFound", "internal"}
  <2>1. CASE S!Arrive(r) /\ UNCHANGED vars
    BY <1>1, <1>2, <2>1 DEF S!Arrive, vars
  <2>2. CASE (S!Record(r) \/ \E c \in S!Codes : S!Answer(r, c)) /\ UNCHANGED vars
    BY <1>1, <1>2, <2>2 DEF S!Answer, S!Record, vars
  <2>3. CASE Handle(r) \/ HandlerStep(r)
    <3>1. (Begin(r) \/ Step(r)) /\ UNCHANGED place
      BY <2>3 DEF Handle, HandlerStep, serverVars
    <3>2. place[r] # "none"
      BY <2>3, StepAlone DEF Handle, HandlerStep, Returned
    <3>3. q # r => pc'[q] = pc[q] /\ reply'[q] = reply[q]
      BY <3>1, StepAlone
    <3>4. QED
      BY <1>2, <3>1, <3>2, <3>3, HandlerAnswers
  <2>4. CASE HandlerPanics(r)
    <3>1. place[r] = "running" /\ place' = [place EXCEPT ![r] = "recovered"]
      BY <2>4 DEF HandlerPanics, S!Panic
    <3>2. q # r => pc'[q] = pc[q] /\ reply'[q] = reply[q]
      BY <2>4 DEF HandlerPanics, Abandon, EndWith
    <3>3. QED
      BY <1>1, <1>2, <3>1, <3>2
  <2>5. QED
    <3>1. S!Codes = {"ok", "rejected", "failed"}
      BY DEF S!Codes
    <3>2. CASE BecomesSocket(r)
      BY <2>2, <3>1, <3>2 DEF BecomesSocket, S!Upgrade
    <3>3. CASE TurnAway(r)
      BY <2>2, <3>1, <3>3 DEF TurnAway
    <3>4. CASE HandlerReturns(r)
      <4>1. reply[r] \in {"ok", "notFound", "internal"}
        BY <3>4 DEF HandlerReturns, S!Answer, Returned
      <4>2. CodeOf(reply[r]) \in S!Codes
        BY <3>1, <4>1 DEF CodeOf
      <4>3. QED
        BY <2>2, <3>4, <4>2 DEF HandlerReturns
    <3>5. QED
      BY <1>5, <2>1, <2>2, <2>3, <2>4, <3>2, <3>3, <3>4 DEF RequestStep
<1>6. QED
  BY <1>3, <1>4, <1>5 DEF ServingNext

-----------------------------------------------------------------------------
(* The server.                                                             *)

\* Every step of Server keeps to the stages of the process.
LEMMA StagesStep == Stages /\ CutOnlyAfterDeadline /\ [S!Next]_(S!vars)
                    => Stages' /\ CutOnlyAfterDeadline'
<1> SUFFICES ASSUME Stages, CutOnlyAfterDeadline, [S!Next]_(S!vars)
             PROVE  Stages' /\ CutOnlyAfterDeadline'
  OBVIOUS
<1> USE DEF Stages, S!TypeOK, S!InFlight, CutOnlyAfterDeadline, S!CutOnlyAfterDeadline, S!With
<1>1. S!Codes = {"ok", "rejected", "failed"}
  BY DEF S!Codes
<1>2. ASSUME NEW how \in {"clean", "fatal", "broken", "killed"}, S!Exit(how), process # "exited",
             \/ how \in {"broken", "killed"}
             \/ how = "fatal" /\ late
             \/ \A r \in Requests : place[r] \notin {"running", "counted"}
      PROVE  Stages' /\ CutOnlyAfterDeadline'
  BY <1>2 DEF S!Exit, S!counters
<1>3. CASE S!Start
  <2>1. CASE S!Listen
    BY <2>1 DEF S!Listen, S!counters
  <2>2. ASSUME NEW from \in {"loading", "connecting", "migrating"}, S!GiveUp(from)
        PROVE  Stages' /\ CutOnlyAfterDeadline'
    BY <1>2, <2>2 DEF S!GiveUp
  <2>3. ASSUME NEW from \in {"loading", "connecting", "migrating", "starting"},
               NEW to \in {"connecting", "migrating", "starting", "waiting"}, S!Advance(from, to),
               from = "starting" => to = "waiting"
        PROVE  Stages' /\ CutOnlyAfterDeadline'
    BY <2>3 DEF S!Advance, S!counters
  <2>4. QED
    BY <1>3, <2>1, <2>2, <2>3 DEF S!Start, S!LoadConfig, S!Connect, S!RunMigrations, S!Notify
<1>4. CASE S!Signal
  <2>1. CASE process = "waiting" /\ process' = "draining"
    BY <1>4, <2>1 DEF S!Signal, S!Exit, S!counters
  <2>2. CASE S!Exit("killed") /\ process # "exited"
    BY <1>2, <2>2
  <2>3. QED
    BY <1>4, <2>1, <2>2 DEF S!Signal
<1>5. CASE S!Deadline
  BY <1>5 DEF S!Deadline, S!counters
<1>6. CASE S!Leave
  <2>1. process # "exited"
    BY <1>6 DEF S!Leave, S!ServerFailed, S!ShutdownDone, S!ShutdownExpired, S!Kill
  <2>2. QED
    BY <1>2, <1>6, <2>1 DEF S!Leave, S!ServerFailed, S!ShutdownDone, S!ShutdownExpired, S!Kill
<1>7. ASSUME NEW r \in Requests, S!Arrive(r)
      PROVE  Stages' /\ CutOnlyAfterDeadline'
  BY <1>7 DEF S!Arrive, S!lifecycle, S!counters
<1>8. ASSUME NEW r \in Requests, S!Record(r) \/ \E c \in S!Codes : S!Answer(r, c)
      PROVE  Stages' /\ CutOnlyAfterDeadline'
  BY <1>1, <1>8 DEF S!Answer, S!Record, S!lifecycle
<1>9. ASSUME NEW r \in Requests, S!Panic(r)
      PROVE  Stages' /\ CutOnlyAfterDeadline'
  BY <1>1, <1>9 DEF S!Panic, S!lifecycle
<1>10. CASE UNCHANGED S!vars
  BY <1>10 DEF S!vars, S!lifecycle, S!counters
<1>11. QED
  BY <1>1, <1>3, <1>4, <1>5, <1>6, <1>7, <1>8, <1>9, <1>10 DEF S!Next, S!Upgrade

\* An instance has a copy of the operators that its module takes from FiniteSets.
LEMMA SameCardinality == \A T : S!Cardinality(T) = Cardinality(T)
  BY DEF S!Cardinality, Cardinality

\* Every answer and every panic is counted once.
LEMMA CountersStep == Stages /\ CountersAddUp /\ [S!Next]_(S!vars) => CountersAddUp'
<1> SUFFICES ASSUME Stages, CountersAddUp, [S!Next]_(S!vars) PROVE CountersAddUp'
  OBVIOUS
<1> DEFINE Over == {q \in Requests : place[q] \in {"counted", "answered", "recovered"}}
           By(c) == {q \in Requests : place[q] \in {"answered"} /\ code[q] = c}
<1>1. /\ IsFiniteSet(Over) /\ Cardinality(Over) \in Nat
      /\ \A c : IsFiniteSet(By(c)) /\ Cardinality(By(c)) \in Nat
  <2>1. \A T \in SUBSET Requests : IsFiniteSet(T) /\ Cardinality(T) \in Nat
    BY FS_Subset, FS_CardinalityType, ReorderAssumption
  <2>2. QED
    BY <2>1
<1>2. CountersAddUp <=>
        (process # "exited" =>
           /\ httpRequests + panicCount = Cardinality(Over)
           /\ \A c \in S!Codes : statusCounts[c] = Cardinality(By(c)))
  <2>1. S!With({"counted", "answered", "recovered"}) = Over
    BY DEF S!With
  <2>2. \A c : {q \in S!With({"answered"}) : code[q] = c} = By(c)
    BY DEF S!With
  <2>3. QED
    BY <2>1, <2>2, SameCardinality DEF CountersAddUp, S!CountersAddUp
<1>3. CountersAddUp' <=>
        (process' # "exited" =>
           /\ httpRequests' + panicCount' = Cardinality(Over')
           /\ \A c \in S!Codes : statusCounts'[c] = Cardinality(By(c)'))
  <2>1. S!With({"counted", "answered", "recovered"})' = Over'
    BY DEF S!With
  <2>2. \A c : {q \in S!With({"answered"})' : code'[q] = c} = By(c)'
    BY DEF S!With
  <2>3. QED
    BY <2>1, <2>2, SameCardinality DEF CountersAddUp, S!CountersAddUp
<1>4. /\ place \in [Requests -> {"none", "running", "counted", "answered", "recovered", "cut"}]
      /\ code \in [Requests -> S!Codes]
      /\ httpRequests \in Nat /\ panicCount \in Nat
      /\ statusCounts \in [S!Codes -> Nat]
  BY DEF Stages, S!TypeOK
<1>5. CASE Over' = Over /\ (\A c : By(c)' = By(c))
           /\ UNCHANGED <<httpRequests, statusCounts, panicCount>> /\ process # "exited"
  BY <1>2, <1>3, <1>5
<1>6. CASE S!Start \/ S!Signal \/ S!Deadline \/ S!Leave
  <2>1. process # "exited"
    BY <1>6 DEF S!Start, S!LoadConfig, S!Connect, S!RunMigrations, S!Listen, S!Notify, S!Advance,
                S!GiveUp, S!Signal, S!Deadline, S!Leave, S!ServerFailed, S!ShutdownDone,
                S!ShutdownExpired, S!Kill, Stages
  <2>2. CASE process' = "exited"
    BY <1>3, <2>2
  <2>3. CASE UNCHANGED <<place, code, httpRequests, statusCounts, panicCount>>
    BY <1>5, <2>1, <2>3
  <2>4. QED
    BY <1>6, <2>2, <2>3, ProcessFacts
<1>7. ASSUME NEW r \in Requests, S!Arrive(r) PROVE CountersAddUp'
  <2>1. /\ place' = [place EXCEPT ![r] = "running"] /\ place[r] = "none"
        /\ UNCHANGED <<process, code, httpRequests, statusCounts, panicCount>>
        /\ process # "exited"
    BY <1>7 DEF S!Arrive, S!lifecycle, S!counters, Stages, S!TypeOK
  <2>2. Over' = Over /\ \A c : By(c)' = By(c)
    BY <1>4, <2>1
  <2>3. QED
    BY <1>5, <2>1, <2>2
<1>8. ASSUME NEW r \in Requests, NEW c \in S!Codes, S!Answer(r, c) PROVE CountersAddUp'
  <2>1. /\ place[r] = "running" /\ place' = [place EXCEPT ![r] = "counted"]
        /\ code' = [code EXCEPT ![r] = c]
        /\ httpRequests' = httpRequests + 1
        /\ UNCHANGED <<process, statusCounts, panicCount>>
    BY <1>8 DEF S!Answer, S!lifecycle
  <2>2. r \notin Over /\ Over' = Over \union {r}
    BY <1>4, <2>1
  <2>3. \A d : By(d)' = By(d)
    BY <1>4, <2>1
  <2> HIDE DEF Over, By
  <2>4. Cardinality(Over') = Cardinality(Over) + 1
    BY <1>1, <2>2, FS_AddElement
  <2>5. QED
    BY <1>2, <1>3, <1>4, <2>1, <2>3, <2>4
<1>9. ASSUME NEW r \in Requests, S!Record(r) PROVE CountersAddUp'
  <2> DEFINE c == code[r]
  <2>1. /\ place[r] = "counted" /\ place' = [place EXCEPT ![r] = "answered"]
        /\ statusCounts' = [statusCounts EXCEPT ![c] = @ + 1]
        /\ UNCHANGED <<process, code, httpRequests, panicCount>>
    BY <1>9 DEF S!Record, S!lifecycle
  <2>2. Over' = Over
    BY <1>4, <2>1
  <2>3. r \notin By(c) /\ By(c)' = By(c) \union {r}
    BY <1>4, <2>1
  <2>4. \A d \in S!Codes \ {c} : By(d)' = By(d)
    BY <1>4, <2>1
  <2> HIDE DEF Over, By
  <2>5. Cardinality(By(c)') = Cardinality(By(c)) + 1
    BY <1>1, <2>3, FS_AddElement
  <2>6. ASSUME process # "exited", NEW d \in S!Codes
        PROVE  statusCounts'[d] = Cardinality(By(d)')
    <3>1. statusCounts[d] = Cardinality(By(d))
      BY <1>2, <2>6
    <3>2. CASE d = c
      BY <1>4, <2>1, <2>5, <3>1, <3>2
    <3>3. CASE d # c
      BY <1>4, <2>1, <2>4, <3>1, <3>3
    <3>4. QED
      BY <3>2, <3>3
  <2>7. QED
    BY <1>2, <1>3, <2>1, <2>2, <2>6
<1>10. ASSUME NEW r \in Requests, S!Panic(r) PROVE CountersAddUp'
  <2>1. /\ place[r] = "running" /\ place' = [place EXCEPT ![r] = "recovered"]
        /\ code' = [code EXCEPT ![r] = "failed"]
        /\ panicCount' = panicCount + 1
        /\ UNCHANGED <<process, httpRequests, statusCounts>>
    BY <1>10 DEF S!Panic, S!lifecycle
  <2>2. r \notin Over /\ Over' = Over \union {r}
    BY <1>4, <2>1
  <2>3. \A d : By(d)' = By(d)
    BY <1>4, <2>1
  <2> HIDE DEF Over, By
  <2>4. Cardinality(Over') = Cardinality(Over) + 1
    BY <1>1, <2>2, FS_AddElement
  <2>5. QED
    BY <1>2, <1>3, <1>4, <2>1, <2>3, <2>4
<1>11. CASE UNCHANGED S!vars
  BY <1>11 DEF S!vars, S!lifecycle, S!counters, CountersAddUp, S!CountersAddUp, S!With
<1>12. QED
  <2>1. S!Codes = {"ok", "rejected", "failed"}
    BY DEF S!Codes
  <2>2. QED
    BY <1>6, <1>7, <1>8, <1>9, <1>10, <1>11, <2>1 DEF S!Next, S!Upgrade

-----------------------------------------------------------------------------
(* The invariant of the whole.                                             *)

ServingInv == IInv /\ RInv /\ Returned /\ ServerInv

\* A process that has just been started satisfies the invariant.
LEMMA InitServingInv == ServingInit => ServingInv
<1> SUFFICES ASSUME ServingInit PROVE ServingInv
  OBVIOUS
<1>1. IInv /\ RInv
  BY InitIInv DEF ServingInit, Init, RInv, Faithful
<1>2. Returned
  BY DEF ServingInit, S!Init, Init, Returned
<1>3. Stages
  BY DEF ServingInit, S!Init, Stages, S!TypeOK, S!InFlight, S!Codes
<1>4. CountersAddUp
  <2>1. \A P : S!With(P) # {} => "none" \in P
    BY DEF ServingInit, S!Init, S!With
  <2>2. S!With({"counted", "answered", "recovered"}) = {} /\ S!With({"answered"}) = {}
    BY <2>1
  <2>3. QED
    BY <2>2, SameCardinality, FS_EmptySet DEF ServingInit, S!Init, CountersAddUp, S!CountersAddUp
<1>5. CutOnlyAfterDeadline
  BY DEF ServingInit, S!Init, S!With, CutOnlyAfterDeadline, S!CutOnlyAfterDeadline
<1>6. QED
  BY <1>1, <1>2, <1>3, <1>4, <1>5 DEF ServingInv, ServerInv

\* A step preserves the invariant.
LEMMA NextServingInv == ServingInv /\ [ServingNext]_servingVars => ServingInv'
<1> SUFFICES ASSUME ServingInv, [ServingNext]_servingVars PROVE ServingInv'
  OBVIOUS
<1>1. [Next]_vars /\ [S!Next]_(S!vars)
  BY ReorderStep, ServerStep
     DEF ServingInv, servingVars, serverVars, S!vars, S!lifecycle, S!counters
<1>2. IInv' /\ RInv'
  BY <1>1, NextIInv, NextRInv DEF ServingInv
<1>3. ServerInv'
  BY <1>1, StagesStep, CountersStep DEF ServingInv, ServerInv
<1>4. Returned'
  <2>1. CASE ServingNext
    BY <2>1, ReturnedStep DEF ServingInv, ServerInv
  <2>2. CASE UNCHANGED servingVars
    BY <2>2 DEF ServingInv, Returned, servingVars, serverVars, vars
  <2>3. QED
    BY <2>1, <2>2
<1>5. QED
  BY <1>2, <1>3, <1>4 DEF ServingInv

\* The invariant holds in every reachable state.
LEMMA ServingInvariance == ServingSpec => []ServingInv
  BY InitServingInv, NextServingInv, PTL DEF ServingSpec

\* The whole is an instance of both of its parts: a server that crashes, stops or
\* recovers from panics adds nothing to what requests can do to the menu.
THEOREM ServingKeepsItsParts == ServingSpec => Spec /\ S!Spec
<1>1. ServingInit => Init /\ S!Init
  BY DEF ServingInit
<1>2. ServingInv /\ [ServingNext]_servingVars => [Next]_vars /\ [S!Next]_(S!vars)
  BY ReorderStep, ServerStep
     DEF ServingInv, servingVars, serverVars, S!vars, S!lifecycle, S!counters
<1>3. QED
  BY <1>1, <1>2, ServingInvariance, PTL DEF ServingSpec, Spec, S!Spec

\* Nothing of a request that is over is held (HeldOnlyByTransactions), whether it
\* returned, panicked or died with the process.
THEOREM ServingNothingLeaks == ServingSpec => []HeldOnlyByTransactions
  BY ServingKeepsItsParts, NothingLeaks, PTL

\* Reorders are atomic (ImplementsArrangement) under crashes and shutdowns, too.
THEOREM ServingReordersAtomically == ServingSpec => ImplementsArrangement
  BY ServingKeepsItsParts, ReorderIsAtomic, PTL

\* The counters account for every request that has ended (CountersAddUp).
THEOREM CountersAreExact == ServingSpec => []CountersAddUp
<1>1. ServingInv => CountersAddUp
  BY DEF ServingInv, ServerInv
<1>2. QED
  BY <1>1, ServingInvariance, PTL

\* A shutdown cuts no request off before its deadline (CutOnlyAfterDeadline).
THEOREM ShutdownWaits == ServingSpec => []CutOnlyAfterDeadline
<1>1. ServingInv => CutOnlyAfterDeadline
  BY DEF ServingInv, ServerInv
<1>2. QED
  BY <1>1, ServingInvariance, PTL
=============================================================================
