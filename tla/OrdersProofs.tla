---------------------------- MODULE OrdersProofs -----------------------------
(***************************************************************************)
(* Proofs about Orders, alone and with its histories, for every number of  *)
(* sessions, orders, keys, bodies and workers, with and without failing    *)
(* statements.                                                             *)
(*                                                                         *)
(* The argument.  TypeOK is not inductive: a staff request writes a status *)
(* it was asked for, and broadcasts one it re-read, several steps after    *)
(* they were found to be statuses of an order (Pending).  OneOrderPerKey   *)
(* is, once the table only evolves by what the index admits (Evolves), and *)
(* the answers follow from what placements have inserted (Inserted).       *)
(* What the histories say is proved from what each placement and each      *)
(* staff request does to its own locals (StaffMove), with an invariant for *)
(* each history: Fresh, Earning, Telling and Racing.                       *)
(***************************************************************************)
EXTENDS StatusHistory, PlacementHistory, TLAPS

Label == {"idle", "lookup", "menu", "check", "insert", "forbidden", "failed", "reload",
          "write", "reread", "send"}

\* What staff requests are about to write, re-read or broadcast.
Pending ==
    \A u \in Staff :
        /\ pc[u] \in {"write", "reread", "send"} => held[u] \in Placed
        /\ pc[u] \in {"write", "send"} => status[u] \in Status

\* What placements have inserted and are about to answer with.
Inserted ==
    \A p \in Placements :
        pc[p] = "reload" => held[p] \in Placed /\ orders[held[p]].request = ticket[p]

IInv == TypeOK /\ Pending /\ Inserted /\ OneOrderPerKey

\* All that the orders table can undergo in one step.
Evolves ==
    \/ orders' = orders
    \/ \E o \in Orders \ Placed, p \in Placements :
          /\ pc[p] = "insert"
          /\ SameKey(ticket[p]) = {}
          /\ orders' = [orders EXCEPT ![o] = [request |-> ticket[p], status |-> "PENDING"]]
    \/ \E o \in Placed, n \in Status :
          /\ \E u \in Staff : pc[u] = "write" /\ held[u] = o /\ status[u] = n
          /\ orders' = [orders EXCEPT ![o].status = n]

-----------------------------------------------------------------------------
(* The orders table.                                                       *)

\* The statuses of the transition table, and where its entries lead.
LEMMA StatusFacts ==
    /\ Status = {"PENDING", "ACCEPTED", "PREPARING", "READY", "COMPLETED", "CANCELLED"}
    /\ "NONE" \notin Status
    /\ \A n \in Status : validTransitions[n] \subseteq Status
<1>1. Status = {"PENDING", "ACCEPTED", "PREPARING", "READY", "COMPLETED", "CANCELLED"}
  BY DEF Status, validTransitions
<1>2. \A n \in Status : validTransitions[n] \subseteq Status
  BY <1>1 DEF validTransitions
<1>3. QED
  BY <1>1, <1>2

\* Identities not yet used and absent responses are well typed.
LEMMA RowFacts ==
    /\ NoTicket \in Ticket
    /\ Unplaced \in Row
    /\ NoReply \in [to : Requests \union {Nil},
                    code : {"none", "ok", "refused", "conflict", "invalid", "error"},
                    order : Orders \union {Nil}]
  BY DEF NoTicket, Ticket, Unplaced, Row, NoReply

\* The first status an order is given is one of the table.
LEMMA PlacementRow ==
    ASSUME TypeOK, NEW p \in Placements
    PROVE  [request |-> ticket[p], status |-> "PENDING"] \in Row
<1>1. ticket[p] \in Ticket
  BY DEF TypeOK
<1>2. QED
  BY <1>1, StatusFacts DEF Row

\* Every step lets the table evolve as Evolves says.
LEMMA StepEvolves ==
    ASSUME IInv, [Next]_vars
    PROVE  Evolves
<1>1. CASE \E p \in Placements : PlaceStep(p)
  <2>1. PICK p \in Placements : PlaceStep(p)
    BY <1>1
  <2>2. CASE PlaceInsert(p)
    BY <2>2 DEF PlaceInsert, Evolves
  <2>3. CASE ~PlaceInsert(p)
    BY <2>1, <2>3 DEF PlaceStep, PlaceFind, PlaceLookup, PlaceMenu, PlaceCheck, PlaceRecover,
       PlaceReload, Evolves
  <2>4. QED
    BY <2>2, <2>3
<1>2. CASE \E u \in Staff : UpdateStep(u)
  <2>1. PICK u \in Staff : UpdateStep(u)
    BY <1>2
  <2>2. CASE UpdateWrite(u)
    <3>1. pc[u] = "write" /\ held[u] \in Placed /\ status[u] \in Status
      BY <2>2 DEF UpdateWrite, IInv, Pending
    <3>2. orders' = orders \/ orders' = [orders EXCEPT ![held[u]].status = status[u]]
      BY <2>2 DEF UpdateWrite
    <3>3. QED
      BY <3>1, <3>2 DEF Evolves
  <2>3. CASE ~UpdateWrite(u)
    BY <2>1, <2>3 DEF UpdateStep, UpdateFind, UpdateReread, UpdateSend, Evolves
  <2>4. QED
    BY <2>2, <2>3
<1>3. CASE \E i \in Sessions : SessionChange(i) \/ SessionExpire(i)
  BY <1>3 DEF SessionChange, SessionExpire, Evolves
<1>4. CASE UNCHANGED vars
  BY <1>4 DEF vars, Evolves
<1>5. QED
  BY <1>1, <1>2, <1>3, <1>4 DEF Next

\* Rows stay well typed, orders stay placed and keep their request.
LEMMA EvolvesKeeps ==
    ASSUME TypeOK, Evolves
    PROVE  /\ orders' \in [Orders -> Row]
           /\ Placed \subseteq Placed'
           /\ \A o \in Placed : orders'[o].request = orders[o].request
<1>1. orders \in [Orders -> Row]
  BY DEF TypeOK
<1>2. CASE orders' = orders
  BY <1>1, <1>2 DEF Placed
<1>3. CASE \E o \in Orders \ Placed, p \in Placements :
              orders' = [orders EXCEPT ![o] = [request |-> ticket[p], status |-> "PENDING"]]
  BY <1>1, <1>3, PlacementRow DEF Placed
<1>4. CASE \E o \in Placed, n \in Status : orders' = [orders EXCEPT ![o].status = n]
  BY <1>1, <1>4, StatusFacts DEF Placed, Row
<1>5. QED
  BY <1>2, <1>3, <1>4 DEF Evolves

\* The index keeps one order per key, whichever request inserts.
LEMMA EvolvesOneOrderPerKey ==
    ASSUME TypeOK, OneOrderPerKey, Evolves
    PROVE  OneOrderPerKey'
<1>1. orders \in [Orders -> Row]
  BY DEF TypeOK
<1>2. CASE orders' = orders
  BY <1>2 DEF OneOrderPerKey, Placed
<1>3. CASE \E o \in Orders \ Placed, p \in Placements :
              /\ SameKey(ticket[p]) = {}
              /\ orders' = [orders EXCEPT ![o] = [request |-> ticket[p], status |-> "PENDING"]]
  <2>1. PICK o \in Orders \ Placed, p \in Placements :
              /\ SameKey(ticket[p]) = {}
              /\ orders' = [orders EXCEPT ![o] = [request |-> ticket[p], status |-> "PENDING"]]
    BY <1>3
  <2>2. /\ orders'[o].request = ticket[p]
        /\ \A q \in Orders \ {o} : orders'[q] = orders[q]
    BY <1>1, <2>1
  <2>3. \A q \in Placed : \/ ticket[p].key = Nil
                          \/ orders[q].request.key # ticket[p].key
                          \/ orders[q].request.session # ticket[p].session
    BY <2>1 DEF SameKey
  <2>4. Placed' \subseteq Placed \union {o}
    BY <2>2 DEF Placed
  <2>5. QED
    BY <2>1, <2>2, <2>3, <2>4 DEF OneOrderPerKey
<1>4. CASE \E o \in Placed, n \in Status : orders' = [orders EXCEPT ![o].status = n]
  <2>1. PICK o \in Placed, n \in Status : orders' = [orders EXCEPT ![o].status = n]
    BY <1>4
  <2>2. \A q \in Orders : orders'[q].request = orders[q].request
    BY <1>1, <2>1 DEF Row
  <2>3. Placed' \subseteq Placed
    BY <1>1, <2>1 DEF Placed
  <2>4. QED
    BY <2>2, <2>3 DEF OneOrderPerKey, Placed
<1>5. QED
  BY <1>2, <1>3, <1>4 DEF Evolves

-----------------------------------------------------------------------------
(* Type correctness, and what requests are about to write.                 *)

\* The empty table and idle workers satisfy the invariant.
LEMMA InitIInv == Init => IInv
<1>1. Init => TypeOK
  BY RowFacts DEF Init, TypeOK
<1>2. Init => Pending /\ Inserted /\ OneOrderPerKey
  BY DEF Init, Pending, Inserted, OneOrderPerKey, Placed, Unplaced, Requests
<1>3. QED
  BY <1>1, <1>2 DEF IInv

\* Moving a request on, or answering it, keeps the types of its locals.
LEMMA LocalsType ==
    ASSUME TypeOK, NEW r \in Requests, NEW o \in Orders \union {Nil},
           NEW label \in {"lookup", "menu", "check", "insert", "forbidden", "failed",
                          "reload", "write", "reread", "send"},
           NEW code \in {"ok", "refused", "conflict", "invalid", "error"},
           GotoWith(r, label, o) \/ Finish(r, code, o),
           orders' \in [Orders -> Row], ticket' \in [Placements -> Ticket],
           status' \in [Staff -> Status \union {Nil}],
           feed' \in [Orders -> Status \union {Nil}],
           active' \subseteq Sessions, expired' \subseteq Sessions
    PROVE  TypeOK'
  BY RowFacts DEF TypeOK, GotoWith, Finish

\* A step of a placement keeps the types.
LEMMA PlaceType ==
    ASSUME IInv, NEW p \in Placements, PlaceStep(p), orders' \in [Orders -> Row]
    PROVE  TypeOK'
<1>1. TypeOK /\ p \in Requests /\ held[p] \in Orders \union {Nil}
  BY DEF IInv, TypeOK, Requests
<1>2. UNCHANGED <<sessionVars, status, feed>>
  BY DEF PlaceStep, PlaceFind, PlaceLookup, PlaceMenu, PlaceCheck, PlaceInsert, PlaceRecover,
     PlaceReload
<1>3. ticket' \in [Placements -> Ticket]
  <2>1. \A t \in [session : Sessions, key : Keys \union {Nil}, body : Bodies] : t \in Ticket
    BY DEF Ticket
  <2>2. ticket \in [Placements -> Ticket]
    BY <1>1 DEF TypeOK
  <2>3. QED
    BY <2>1, <2>2 DEF PlaceStep, PlaceFind, PlaceLookup, PlaceMenu, PlaceCheck, PlaceInsert,
       PlaceRecover, PlaceReload
<1>4. \E o \in Orders \union {Nil} :
          \/ \E label \in {"lookup", "menu", "check", "insert", "forbidden", "failed", "reload"} :
                GotoWith(p, label, o)
          \/ \E code \in {"ok", "refused", "conflict", "invalid", "error"} : Finish(p, code, o)
  <2>1. CASE PlaceFind(p)
    BY <1>1, <2>1 DEF PlaceFind, Goto, Fail
  <2>2. CASE PlaceLookup(p)
    BY <1>1, <2>2 DEF PlaceLookup, Replay, SameKey, Placed, Goto, Fail
  <2>3. CASE PlaceMenu(p)
    BY <1>1, <2>3 DEF PlaceMenu, Goto, Fail
  <2>4. CASE PlaceCheck(p)
    BY <1>1, <2>4 DEF PlaceCheck, Goto
  <2>5. CASE PlaceInsert(p)
    BY <1>1, <2>5 DEF PlaceInsert, Goto
  <2>6. CASE PlaceRecover(p)
    BY <1>1, <2>6 DEF PlaceRecover, Replay, SameKey, Placed, Fail
  <2>7. CASE PlaceReload(p)
    BY <1>1, <2>7 DEF PlaceReload, Fail
  <2>8. QED
    BY <2>1, <2>2, <2>3, <2>4, <2>5, <2>6, <2>7 DEF PlaceStep
<1>5. /\ active' \subseteq Sessions
      /\ expired' \subseteq Sessions
      /\ status' \in [Staff -> Status \union {Nil}]
      /\ feed' \in [Orders -> Status \union {Nil}]
  BY <1>1, <1>2 DEF TypeOK, sessionVars
<1>6. QED
  BY <1>1, <1>3, <1>4, <1>5, LocalsType

\* A step of a staff request keeps the types.
LEMMA UpdateType ==
    ASSUME IInv, NEW u \in Staff, UpdateStep(u), orders' \in [Orders -> Row]
    PROVE  TypeOK'
<1>1. TypeOK /\ u \in Requests /\ held[u] \in Orders \union {Nil}
  BY DEF IInv, TypeOK, Requests
<1>2. UNCHANGED <<sessionVars, ticket>>
  BY DEF UpdateStep, UpdateFind, UpdateWrite, UpdateReread, UpdateSend
<1>3. status' \in [Staff -> Status \union {Nil}]
  <2>1. status \in [Staff -> Status \union {Nil}]
    BY <1>1 DEF TypeOK
  <2>2. CASE UpdateReread(u)
    <3>1. orders[held[u]].status \in Status
      BY <1>1, <2>2 DEF UpdateReread, IInv, Pending, Placed, TypeOK, Row
    <3>2. QED
      BY <2>1, <2>2, <3>1 DEF UpdateReread, Answer
  <2>3. CASE ~UpdateReread(u)
    BY <2>1, <2>3 DEF UpdateStep, UpdateFind, UpdateWrite, UpdateSend, Answer
  <2>4. QED
    BY <2>2, <2>3
<1>4. feed' \in [Orders -> Status \union {Nil}]
  <2>1. feed \in [Orders -> Status \union {Nil}]
    BY <1>1 DEF TypeOK
  <2>2. CASE UpdateSend(u)
    BY <2>1, <2>2 DEF UpdateSend, IInv, Pending
  <2>3. CASE ~UpdateSend(u)
    BY <2>1, <2>3 DEF UpdateStep, UpdateFind, UpdateWrite, UpdateReread
  <2>4. QED
    BY <2>2, <2>3
<1>5. \E o \in Orders \union {Nil} :
          \/ \E label \in {"write", "reread", "send"} : GotoWith(u, label, o)
          \/ \E code \in {"ok", "refused", "conflict", "error"} : Finish(u, code, o)
  BY <1>1 DEF UpdateStep, UpdateFind, UpdateWrite, UpdateReread, UpdateSend, Answer, Goto, Placed
<1>6. active' \subseteq Sessions /\ expired' \subseteq Sessions
  BY <1>1, <1>2 DEF TypeOK, sessionVars
<1>7. ticket' \in [Placements -> Ticket]
  BY <1>1, <1>2 DEF TypeOK
<1>8. QED
  BY <1>1, <1>3, <1>4, <1>5, <1>6, <1>7, LocalsType

\* A step of anyone keeps the types.
LEMMA StepType ==
    ASSUME IInv, [Next]_vars
    PROVE  TypeOK'
<1>1. orders' \in [Orders -> Row]
  BY StepEvolves, EvolvesKeeps DEF IInv
<1>2. CASE \E p \in Placements : PlaceStep(p)
  BY <1>1, <1>2, PlaceType
<1>3. CASE \E u \in Staff : UpdateStep(u)
  BY <1>1, <1>3, UpdateType
<1>4. CASE \E i \in Sessions : SessionChange(i) \/ SessionExpire(i)
  BY <1>4 DEF IInv, TypeOK, SessionChange, SessionExpire, workerVars
<1>5. CASE UNCHANGED vars
  BY <1>5 DEF vars, IInv, TypeOK
<1>6. QED
  BY <1>2, <1>3, <1>4, <1>5 DEF Next

\* Each request changes only its own locals.
LEMMA OwnLocals ==
    ASSUME TypeOK, NEW r \in Requests, PlaceStep(r) \/ UpdateStep(r),
           NEW q \in Requests \ {r}
    PROVE  pc'[q] = pc[q] /\ held'[q] = held[q]
<1>1. pc \in [Requests -> Label] /\ held \in [Requests -> Orders \union {Nil}]
  BY DEF TypeOK, Label
<1>2. \E o \in {held'[r]}, label \in {pc'[r]} :
          pc' = [pc EXCEPT ![r] = label] /\ held' = [held EXCEPT ![r] = o]
  <2>1. CASE PlaceStep(r)
    BY <1>1, <2>1 DEF PlaceStep, PlaceFind, PlaceLookup, PlaceMenu, PlaceCheck, PlaceInsert,
       PlaceRecover, PlaceReload, Replay, Fail, Finish, Goto, GotoWith
  <2>2. CASE UpdateStep(r)
    BY <1>1, <2>2 DEF UpdateStep, UpdateFind, UpdateWrite, UpdateReread, UpdateSend, Answer,
       Finish, Goto, GotoWith
  <2>3. QED
    BY <2>1, <2>2
<1>3. QED
  BY <1>1, <1>2

\* A status about to be written or broadcast is one of a placed order.
LEMMA StepPending ==
    ASSUME IInv, [Next]_vars
    PROVE  Pending'
<1>1. TypeOK /\ Pending /\ Placed \subseteq Placed'
  BY StepEvolves, EvolvesKeeps DEF IInv
<1>2. CASE \E p \in Placements : PlaceStep(p)
  <2>1. PICK p \in Placements : PlaceStep(p)
    BY <1>2
  <2>2. \A u \in Staff : pc'[u] = pc[u] /\ held'[u] = held[u]
    BY <1>1, <2>1, OwnLocals, OrdersAssumption DEF Requests
  <2>3. status' = status
    BY <2>1 DEF PlaceStep, PlaceFind, PlaceLookup, PlaceMenu, PlaceCheck, PlaceInsert,
       PlaceRecover, PlaceReload
  <2>4. QED
    BY <1>1, <2>2, <2>3 DEF Pending
<1>3. CASE \E u \in Staff : UpdateStep(u)
  <2>1. PICK u \in Staff : UpdateStep(u)
    BY <1>3
  <2>2. \A v \in Staff \ {u} : pc'[v] = pc[v] /\ held'[v] = held[v]
    BY <1>1, <2>1, OwnLocals DEF Requests
  <2>3. \A v \in Staff \ {u} : status'[v] = status[v]
    BY <1>1, <2>1 DEF TypeOK, UpdateStep, UpdateFind, UpdateWrite, UpdateReread, UpdateSend,
       Answer
  <2>4. /\ pc'[u] \in {"write", "reread", "send"} => held'[u] \in Placed
        /\ pc'[u] \in {"write", "send"} => status'[u] \in Status
    <3>1. pc \in [Requests -> Label] /\ held \in [Requests -> Orders \union {Nil}]
      BY <1>1 DEF TypeOK, Label
    <3>2. u \in Requests /\ status \in [Staff -> Status \union {Nil}]
      BY <1>1 DEF TypeOK, Requests
    <3>3. CASE UpdateFind(u)
      BY <3>1, <3>2, <3>3 DEF UpdateFind, GotoWith, Answer, Finish
    <3>4. CASE UpdateWrite(u)
      BY <1>1, <3>1, <3>2, <3>4 DEF UpdateWrite, Pending, Goto, GotoWith, Answer, Finish
    <3>5. CASE UpdateReread(u)
      <4>1. held[u] \in Placed /\ orders[held[u]].status \in Status
        BY <1>1, <3>5 DEF UpdateReread, Pending, Placed, TypeOK, Row
      <4>2. QED
        BY <3>1, <3>2, <3>5, <4>1 DEF UpdateReread, Goto, GotoWith, Answer, Finish
    <3>6. CASE UpdateSend(u)
      BY <3>1, <3>2, <3>6 DEF UpdateSend, Answer, Finish
    <3>7. QED
      BY <2>1, <3>3, <3>4, <3>5, <3>6 DEF UpdateStep
  <2>5. QED
    BY <1>1, <2>2, <2>3, <2>4 DEF Pending
<1>4. CASE \E i \in Sessions : SessionChange(i) \/ SessionExpire(i)
  BY <1>4, <1>1 DEF SessionChange, SessionExpire, workerVars, Pending, Placed
<1>5. CASE UNCHANGED vars
  BY <1>5, <1>1 DEF vars, Pending, Placed
<1>6. QED
  BY <1>2, <1>3, <1>4, <1>5 DEF Next

\* An order that was inserted and is about to be answered with stays what it is.
LEMMA StepInserted ==
    ASSUME IInv, [Next]_vars
    PROVE  Inserted'
<1>1. /\ TypeOK /\ Inserted /\ Placed \subseteq Placed'
      /\ \A o \in Placed : orders'[o].request = orders[o].request
  BY StepEvolves, EvolvesKeeps DEF IInv
<1>2. CASE \E p \in Placements : PlaceStep(p)
  <2>1. PICK p \in Placements : PlaceStep(p)
    BY <1>2
  <2>2. \A q \in Placements \ {p} :
            pc'[q] = pc[q] /\ held'[q] = held[q] /\ ticket'[q] = ticket[q]
    <3>1. \A q \in Placements \ {p} : ticket'[q] = ticket[q]
      BY <1>1, <2>1 DEF TypeOK, PlaceStep, PlaceFind, PlaceLookup, PlaceMenu, PlaceCheck,
         PlaceInsert, PlaceRecover, PlaceReload
    <3>2. QED
      BY <1>1, <2>1, <3>1, OwnLocals DEF Requests
  <2>3. pc'[p] = "reload" => held'[p] \in Placed' /\ orders'[held'[p]].request = ticket'[p]
    <3>1. /\ pc \in [Requests -> Label] /\ held \in [Requests -> Orders \union {Nil}]
          /\ p \in Requests /\ orders \in [Orders -> Row]
      BY <1>1 DEF TypeOK, Requests, Label
    <3>2. CASE PlaceInsert(p)
      BY <3>1, <3>2 DEF PlaceInsert, Goto, GotoWith, Placed
    <3>3. CASE ~PlaceInsert(p)
      BY <2>1, <3>1, <3>3 DEF PlaceStep, PlaceFind, PlaceLookup, PlaceMenu, PlaceCheck,
         PlaceRecover, PlaceReload, Replay, Fail, Finish, Goto, GotoWith
    <3>4. QED
      BY <3>2, <3>3
  <2>4. QED
    BY <1>1, <2>2, <2>3 DEF Inserted
<1>3. CASE \E u \in Staff : UpdateStep(u)
  <2>1. PICK u \in Staff : UpdateStep(u)
    BY <1>3
  <2>2. \A p \in Placements : pc'[p] = pc[p] /\ held'[p] = held[p]
    BY <1>1, <2>1, OwnLocals, OrdersAssumption DEF Requests
  <2>3. ticket' = ticket
    BY <2>1 DEF UpdateStep, UpdateFind, UpdateWrite, UpdateReread, UpdateSend
  <2>4. QED
    BY <1>1, <2>2, <2>3 DEF Inserted
<1>4. CASE \E i \in Sessions : SessionChange(i) \/ SessionExpire(i)
  BY <1>4, <1>1 DEF SessionChange, SessionExpire, workerVars, Inserted
<1>5. CASE UNCHANGED vars
  BY <1>5, <1>1 DEF vars, Inserted
<1>6. QED
  BY <1>2, <1>3, <1>4, <1>5 DEF Next

\* IInv is inductive.
LEMMA StepIInv == IInv /\ [Next]_vars => IInv'
  BY StepType, StepPending, StepInserted, StepEvolves, EvolvesOneOrderPerKey DEF IInv

\* IInv holds in every reachable state.
LEMMA Invariance == Spec => []IInv
  BY InitIInv, StepIInv, PTL DEF Spec

\* Orders keeps its types (internal/order), whichever requests race.
THEOREM OrdersTypeCorrect == Spec => []TypeOK
<1>1. IInv => TypeOK
  BY DEF IInv
<1>2. QED
  BY <1>1, Invariance, PTL

\* One key is at most one order in a session, however many requests retry or
\* race with it and whichever statements fail.
THEOREM OneOrder == Spec => []OneOrderPerKey
<1>1. IInv => OneOrderPerKey
  BY DEF IInv
<1>2. QED
  BY <1>1, Invariance, PTL

-----------------------------------------------------------------------------
(* What customers are told.                                                *)

\* Rows with the session, the key and the body of a request are made from it.
LEMMA SameRequest ==
    ASSUME TypeOK, NEW p \in Placements, NEW o \in SameKey(ticket[p]),
           orders[o].request.body = ticket[p].body
    PROVE  o \in Placed /\ orders[o].request = ticket[p]
<1>1. orders[o].request \in Ticket /\ ticket[p] \in Ticket
  BY DEF TypeOK, Row, SameKey, Placed
<1>2. /\ orders[o].request.session = ticket[p].session
      /\ orders[o].request.key = ticket[p].key
  BY DEF SameKey
<1>3. QED
  BY <1>1, <1>2 DEF Ticket, SameKey

\* What a placement answers in its last step is true.
LEMMA PlaceAnswers ==
    ASSUME IInv, NEW p \in Placements, PlaceStep(p)
    PROVE  /\ reply'.to \in {Nil, p}
           /\ reply'.to = p /\ reply'.code = "ok"
              => reply'.order \in Placed' /\ orders'[reply'.order].request = ticket'[p]
           /\ reply'.to = p /\ reply'.code = "conflict"
              => \E o \in SameKey(ticket[p])' : orders'[o].request.body # ticket'[p].body
<1>1. TypeOK /\ Inserted
  BY DEF IInv
<1>2. CASE Replay(p) /\ UNCHANGED <<orders, ticket>>
  <2>1. PICK o \in SameKey(ticket[p]) :
            \/ orders[o].request.body = ticket[p].body /\ Finish(p, "ok", o)
            \/ orders[o].request.body # ticket[p].body /\ Finish(p, "conflict", o)
    BY <1>2 DEF Replay
  <2>2. reply'.to = p /\ (reply'.code = "ok" => reply'.order = o)
    BY <2>1 DEF Finish
  <2>3. reply'.code = "ok" => orders[o].request.body = ticket[p].body
    BY <2>1 DEF Finish
  <2>4. reply'.code = "conflict" => orders[o].request.body # ticket[p].body
    BY <2>1 DEF Finish
  <2>5. Placed' = Placed /\ SameKey(ticket[p])' = SameKey(ticket[p])
    BY <1>2 DEF Placed, SameKey
  <2>6. QED
    BY <1>1, <1>2, <2>2, <2>3, <2>4, <2>5, SameRequest
<1>3. CASE PlaceReload(p)
  <2>1. held[p] \in Placed /\ orders[held[p]].request = ticket[p]
    BY <1>1, <1>3 DEF PlaceReload, Inserted
  <2>2. QED
    BY <1>3, <2>1 DEF PlaceReload, Fail, Finish, Placed
<1>4. CASE ~PlaceReload(p) /\ ~(Replay(p) /\ UNCHANGED <<orders, ticket>>)
  BY <1>4 DEF PlaceStep, PlaceFind, PlaceLookup, PlaceMenu, PlaceCheck, PlaceInsert,
     PlaceRecover, Fail, Finish, Goto, GotoWith, NoReply
<1>5. QED
  BY <1>2, <1>3, <1>4

\* Answers are true when they are given and remain so until the next one.
LEMMA StepAnswers ==
    ASSUME IInv, OkNamesTheRequest, ConflictIsReal, [Next]_vars
    PROVE  OkNamesTheRequest' /\ ConflictIsReal'
<1>1. CASE \E p \in Placements : PlaceStep(p)
  <2>1. PICK p \in Placements : PlaceStep(p)
    BY <1>1
  <2>2. \A q \in Placements : reply'.to = q => q = p
    BY <2>1, PlaceAnswers, OrdersAssumption
  <2>3. QED
    BY <2>1, <2>2, PlaceAnswers DEF OkNamesTheRequest, ConflictIsReal
<1>2. CASE \E u \in Staff : UpdateStep(u)
  <2>1. PICK u \in Staff : UpdateStep(u)
    BY <1>2
  <2>2. reply'.to \in {Nil, u}
    BY <2>1 DEF UpdateStep, UpdateFind, UpdateWrite, UpdateReread, UpdateSend, Answer, Finish,
       Goto, GotoWith, NoReply
  <2>3. reply'.to \notin Placements
    BY <2>2, OrdersAssumption
  <2>4. QED
    BY <2>3 DEF OkNamesTheRequest, ConflictIsReal
<1>3. CASE \E i \in Sessions : SessionChange(i) \/ SessionExpire(i)
  <2>1. UNCHANGED <<orders, ticket, reply>>
    BY <1>3 DEF SessionChange, SessionExpire, workerVars
  <2>2. QED
    BY <2>1 DEF OkNamesTheRequest, ConflictIsReal, SameKey, Placed
<1>4. CASE UNCHANGED vars
  BY <1>4 DEF vars, OkNamesTheRequest, ConflictIsReal, SameKey, Placed
<1>5. QED
  BY <1>1, <1>2, <1>3, <1>4 DEF Next

\* No answer has been given at first.
LEMMA InitAnswers == Init => OkNamesTheRequest /\ ConflictIsReal
  BY OrdersAssumption DEF Init, NoReply, OkNamesTheRequest, ConflictIsReal

\* A customer is told of an order only if it was made from the very request, and
\* of a conflict only while there is one, whichever retries race.
THEOREM AnswersAreTrue == Spec => []AnswersMatchOrders
<1>1. IInv /\ OkNamesTheRequest /\ ConflictIsReal /\ [Next]_vars
      => (OkNamesTheRequest /\ ConflictIsReal)'
  BY StepAnswers
<1>2. QED
  BY <1>1, InitAnswers, Invariance, PTL DEF Spec, AnswersMatchOrders

-----------------------------------------------------------------------------
(* Requests without a key: PlacementHistory.                               *)

\* A placement that takes no step keeps its locals.
LEMMA LocalsKept ==
    ASSUME IInv, [Next]_vars, NEW q \in Placements, ~PlaceStep(q)
    PROVE  pc'[q] = pc[q] /\ held'[q] = held[q] /\ ticket'[q] = ticket[q]
<1>1. TypeOK /\ q \in Requests /\ q \notin Staff
  BY OrdersAssumption DEF IInv, Requests
<1>2. CASE \E p \in Placements : PlaceStep(p)
  <2>1. PICK p \in Placements : PlaceStep(p)
    BY <1>2
  <2>2. pc'[q] = pc[q] /\ held'[q] = held[q]
    BY <1>1, <2>1, OwnLocals DEF Requests
  <2>3. ticket'[q] = ticket[q]
    BY <1>1, <2>1 DEF TypeOK, PlaceStep, PlaceFind, PlaceLookup, PlaceMenu, PlaceCheck,
       PlaceInsert, PlaceRecover, PlaceReload
  <2>4. QED
    BY <2>2, <2>3
<1>3. CASE \E u \in Staff : UpdateStep(u)
  <2>1. PICK u \in Staff : UpdateStep(u)
    BY <1>3
  <2>2. pc'[q] = pc[q] /\ held'[q] = held[q]
    BY <1>1, <2>1, OwnLocals DEF Requests
  <2>3. ticket' = ticket
    BY <2>1 DEF UpdateStep, UpdateFind, UpdateWrite, UpdateReread, UpdateSend
  <2>4. QED
    BY <2>2, <2>3
<1>4. CASE \E i \in Sessions : SessionChange(i) \/ SessionExpire(i)
  BY <1>4 DEF SessionChange, SessionExpire, workerVars
<1>5. CASE UNCHANGED vars
  BY <1>5 DEF vars
<1>6. QED
  BY <1>2, <1>3, <1>4, <1>5 DEF Next

\* An order that a request without a key has inserted is nobody else's, and
\* nobody has been told of it yet.
Fresh ==
    /\ \A a \in told : a.order \in Placed
    /\ \A p \in Placements : pc[p] = "reload" =>
          /\ \A q \in Placements \ {p} : pc[q] = "reload" => held[q] # held[p]
          /\ ticket[p].key = Nil => \A a \in told : a.order # held[p]

\* A placement holds only an order it has just inserted, and says "ok" either
\* about that one or about one it has found under its key.
LEMMA PlaceMove ==
    ASSUME IInv, NEW p \in Placements, PlaceStep(p)
    PROVE  /\ \A q \in Placements \ {p} :
                 pc'[q] = pc[q] /\ held'[q] = held[q] /\ ticket'[q] = ticket[q]
           /\ pc'[p] = "reload" => held'[p] \notin Placed /\ reply' = NoReply
           /\ reply'.to = p /\ reply'.code = "ok" =>
                 /\ ticket' = ticket
                 /\ \/ pc[p] = "reload" /\ reply'.order = held[p]
                    \/ reply'.order \in SameKey(ticket[p])
<1>1. /\ pc \in [Requests -> Label] /\ held \in [Requests -> Orders \union {Nil}]
      /\ ticket \in [Placements -> Ticket] /\ p \in Requests
  BY DEF IInv, TypeOK, Label, Requests
<1>2. \A q \in Placements \ {p} :
          pc'[q] = pc[q] /\ held'[q] = held[q] /\ ticket'[q] = ticket[q]
  <2>1. \A q \in Placements \ {p} : ticket'[q] = ticket[q]
    BY <1>1 DEF PlaceStep, PlaceFind, PlaceLookup, PlaceMenu, PlaceCheck, PlaceInsert,
       PlaceRecover, PlaceReload
  <2>2. QED
    BY <2>1, OwnLocals DEF IInv, Requests
<1> USE <1>1 DEF Fail, Finish, Goto, GotoWith, NoReply
<1>3. CASE PlaceInsert(p)
  BY <1>2, <1>3 DEF PlaceInsert
<1>4. CASE PlaceLookup(p) \/ PlaceRecover(p)
  BY <1>2, <1>4 DEF PlaceLookup, PlaceRecover, Replay
<1>5. CASE PlaceReload(p)
  BY <1>2, <1>5 DEF PlaceReload
<1>6. CASE PlaceFind(p) \/ PlaceMenu(p) \/ PlaceCheck(p)
  BY <1>2, <1>6 DEF PlaceFind, PlaceMenu, PlaceCheck
<1>7. QED
  BY <1>3, <1>4, <1>5, <1>6 DEF PlaceStep

\* A customer is answered only by a step of the customer's own request.
LEMMA WhoAnswers ==
    ASSUME IInv, [Next]_vars, reply' # reply, reply'.to \in Placements
    PROVE  PlaceStep(reply'.to)
<1>1. ASSUME NEW p \in Placements, PlaceStep(p) PROVE PlaceStep(reply'.to)
  BY <1>1, PlaceAnswers, OrdersAssumption
<1>2. ASSUME NEW u \in Staff, UpdateStep(u) PROVE FALSE
  <2>1. reply'.to \in {Nil, u}
    BY <1>2 DEF UpdateStep, UpdateFind, UpdateWrite, UpdateReread, UpdateSend, Answer, Finish,
       Goto, GotoWith, NoReply
  <2>2. QED
    BY <2>1, OrdersAssumption
<1>3. UNCHANGED vars => reply' = reply
  BY DEF vars
<1>4. ASSUME NEW i \in Sessions, SessionChange(i) \/ SessionExpire(i) PROVE FALSE
  BY <1>4 DEF SessionChange, SessionExpire, workerVars
<1>5. QED
  BY <1>1, <1>2, <1>3, <1>4 DEF Next

\* What is told of in a step is an order of the very request that is answered.
LEMMA ToldStep ==
    ASSUME IInv, [AnswersNext]_<<vars, told>>, NEW a \in told', a \notin told
    PROVE  /\ reply'.to \in Placements /\ reply'.code = "ok" /\ a.order = reply'.order
           /\ PlaceStep(reply'.to)
<1>1. /\ reply' # reply /\ reply'.to \in Placements /\ reply'.code = "ok"
      /\ a.order = reply'.order /\ Next
  BY DEF AnswersNext
<1>2. QED
  BY <1>1, WhoAnswers

\* A step preserves Fresh: what is inserted is new, and what is replayed has a key.
LEMMA StepFresh ==
    ASSUME IInv, Fresh, [AnswersNext]_<<vars, told>>
    PROVE  Fresh'
<1>1. [Next]_vars
  BY DEF AnswersNext
<1>2. Placed \subseteq Placed' /\ Inserted
  BY <1>1, StepEvolves, EvolvesKeeps DEF IInv
<1>3. \A a \in told' : a.order \in Placed'
  <2>1. ASSUME NEW a \in told', a \notin told PROVE a.order \in Placed'
    BY <2>1, ToldStep, PlaceAnswers
  <2>2. QED
    BY <1>2, <2>1 DEF Fresh
<1>4. ASSUME NEW p \in Placements, pc'[p] = "reload", ticket'[p].key = Nil, NEW a \in told'
      PROVE  a.order # held'[p]
  <2>1. CASE PlaceStep(p)
    <3>1. held'[p] \notin Placed /\ reply'.code # "ok"
      BY <1>4, <2>1, PlaceMove DEF NoReply
    <3>2. a \in told
      BY <3>1, ToldStep
    <3>3. QED
      BY <3>1, <3>2 DEF Fresh
  <2>2. CASE pc'[p] = pc[p] /\ held'[p] = held[p] /\ ticket'[p] = ticket[p]
    <3>1. CASE a \in told
      BY <1>4, <2>2, <3>1 DEF Fresh
    <3>2. CASE a \notin told
      <4>1. PICK q \in Placements : /\ q = reply'.to /\ PlaceStep(q) /\ reply'.code = "ok"
                                    /\ a.order = reply'.order
        BY <3>2, ToldStep
      <4>2. CASE q = p
        <5>1. pc'[p] # "reload"
          BY <4>1, <4>2, PlaceMove DEF NoReply
        <5>2. QED
          BY <1>4, <5>1
      <4>3. CASE q # p /\ pc[q] = "reload" /\ a.order = held[q]
        BY <1>4, <2>2, <4>3 DEF Fresh
      <4>4. CASE a.order \in SameKey(ticket[q])
        <5>1. orders[a.order].request.key # Nil
          BY <4>4 DEF SameKey
        <5>2. orders[held[p]].request.key = Nil
          BY <1>2, <1>4, <2>2 DEF Inserted
        <5>3. QED
          BY <2>2, <5>1, <5>2
      <4>5. QED
        BY <4>1, <4>2, <4>3, <4>4, PlaceMove
    <3>3. QED
      BY <3>1, <3>2
  <2>3. QED
    BY <1>1, <2>1, <2>2, LocalsKept
<1>5. ASSUME NEW p \in Placements, NEW q \in Placements \ {p},
             pc'[p] = "reload", pc'[q] = "reload"
      PROVE  held'[q] # held'[p]
  <2>1. ASSUME NEW r \in {p, q}, PlaceStep(r), NEW o \in {p, q} \ {r}
        PROVE  held'[o] # held'[r]
    <3>1. held'[r] \notin Placed
      BY <1>5, <2>1, PlaceMove
    <3>2. pc[o] = "reload" /\ held'[o] = held[o]
      BY <1>5, <2>1, PlaceMove
    <3>3. QED
      BY <1>2, <3>1, <3>2 DEF Inserted
  <2>2. CASE ~PlaceStep(p) /\ ~PlaceStep(q)
    <3>1. pc[p] = "reload" /\ pc[q] = "reload" /\ held'[p] = held[p] /\ held'[q] = held[q]
      BY <1>1, <1>5, <2>2, LocalsKept
    <3>2. QED
      BY <3>1 DEF Fresh
  <2>3. QED
    BY <2>1, <2>2
<1>6. QED
  BY <1>3, <1>4, <1>5 DEF Fresh

\* Requests without an idempotency key are never merged: none of them is told of
\* an order that any request has been told of before.
THEOREM UnkeyedStayApart == AnswersSpec => UnkeyedNeverShared
<1>1. AnswersInit => IInv /\ Fresh
  BY InitIInv DEF AnswersInit, Init, Fresh, Requests
<1>2. [AnswersNext]_<<vars, told>> => [Next]_vars
  BY DEF AnswersNext
<1>3. IInv /\ Fresh /\ [AnswersNext]_<<vars, told>> => (IInv /\ Fresh)'
  BY <1>2, StepIInv, StepFresh
<1>4. ASSUME IInv, Fresh, [AnswersNext]_<<vars, told>>
      PROVE  [\A a \in told : \A p \in Placements :
                /\ reply' # reply
                /\ reply'.to = p
                /\ reply'.code = "ok"
                /\ ticket[p].key = Nil
                => reply'.order # a.order]_<<vars, told>>
  <2> SUFFICES ASSUME NEW a \in told, NEW p \in Placements, reply' # reply, reply'.to = p,
                      reply'.code = "ok", ticket[p].key = Nil
               PROVE  reply'.order # a.order
    OBVIOUS
  <2>1. PlaceStep(p)
    BY <1>2, <1>4, WhoAnswers
  <2>2. pc[p] = "reload" /\ reply'.order = held[p]
    BY <1>4, <2>1, PlaceMove DEF SameKey
  <2>3. QED
    BY <1>4, <2>2 DEF Fresh
<1>5. QED
  BY <1>1, <1>3, <1>4, PTL DEF AnswersSpec, UnkeyedNeverShared

-----------------------------------------------------------------------------
(* What staff requests do: StatusHistory.                                  *)

\* The six ways in which a staff request can go on.
Begins(u) ==
    /\ pc[u] = "idle" /\ pc'[u] = "write" /\ orders' = orders
    /\ held'[u] \in Placed
    /\ status'[u] \in validTransitions[orders[held'[u]].status]

Overwritten(u) == [orders EXCEPT ![held[u]].status = status[u]]

Writes(u) ==
    /\ pc[u] = "write" /\ pc'[u] = "reread" /\ orders' = Overwritten(u)
    /\ held'[u] = held[u]

BreaksOff(u) ==
    /\ pc[u] = "write" /\ pc'[u] = "idle" /\ orders' \in {orders, Overwritten(u)}
    /\ held'[u] = Nil

Rereads(u) ==
    /\ pc[u] = "reread" /\ pc'[u] = "send" /\ orders' = orders
    /\ held'[u] = held[u]
    /\ status'[u] = orders[held[u]].status

Sends(u) ==
    /\ pc[u] = "send" /\ pc'[u] = "idle" /\ orders' = orders
    /\ held'[u] = Nil
    /\ feed'[held[u]] = status[u]

Ends(u) ==
    /\ pc[u] \in {"idle", "reread"} /\ pc'[u] = "idle" /\ orders' = orders
    /\ held'[u] = Nil

\* A staff request goes on in one of these ways, and touches no other one.
LEMMA StaffMove ==
    ASSUME IInv, NEW u \in Staff, UpdateStep(u)
    PROVE  /\ \A v \in Staff \ {u} :
                 pc'[v] = pc[v] /\ held'[v] = held[v] /\ status'[v] = status[v]
           /\ Begins(u) \/ Writes(u) \/ BreaksOff(u) \/ Rereads(u) \/ Sends(u) \/ Ends(u)
<1>1. /\ pc \in [Requests -> Label] /\ held \in [Requests -> Orders \union {Nil}]
      /\ status \in [Staff -> Status \union {Nil}] /\ feed \in [Orders -> Status \union {Nil}]
      /\ u \in Requests /\ TypeOK
  BY DEF IInv, TypeOK, Label, Requests
<1>2. \A v \in Staff \ {u} : pc'[v] = pc[v] /\ held'[v] = held[v] /\ status'[v] = status[v]
  <2>1. \A v \in Staff \ {u} : status'[v] = status[v]
    BY <1>1 DEF UpdateStep, UpdateFind, UpdateWrite, UpdateReread, UpdateSend, Answer
  <2>2. QED
    BY <1>1, <2>1, OwnLocals DEF Requests
<1> USE <1>1 DEF Answer, Finish, Goto, GotoWith
<1>3. CASE UpdateFind(u)
  BY <1>2, <1>3 DEF UpdateFind, Begins, Ends
<1>4. CASE UpdateWrite(u)
  BY <1>2, <1>4 DEF UpdateWrite, Writes, BreaksOff, Overwritten
<1>5. CASE UpdateReread(u)
  BY <1>2, <1>5 DEF UpdateReread, Rereads, Ends
<1>6. CASE UpdateSend(u)
  <2>1. held[u] \in Orders
    BY <1>6 DEF UpdateSend, IInv, Pending, Placed
  <2>2. QED
    BY <1>2, <1>6, <2>1 DEF UpdateSend, Sends
<1>7. QED
  BY <1>3, <1>4, <1>5, <1>6 DEF UpdateStep

\* Any other step leaves the staff requests alone, and of the table at most one
\* identity changes, from unplaced to PENDING.
LEMMA OthersMove ==
    ASSUME IInv, [Next]_vars, ~ \E u \in Staff : UpdateStep(u)
    PROVE  /\ \A u \in Staff : pc'[u] = pc[u] /\ held'[u] = held[u] /\ status'[u] = status[u]
           /\ \/ orders' = orders
              \/ \E o \in Orders \ Placed, p \in Placements :
                    orders' = [orders EXCEPT ![o] = [request |-> ticket[p], status |-> "PENDING"]]
<1>1. CASE \E p \in Placements : PlaceStep(p)
  <2>1. PICK p \in Placements : PlaceStep(p)
    BY <1>1
  <2>2. \A u \in Staff : pc'[u] = pc[u] /\ held'[u] = held[u]
    BY <2>1, OwnLocals, OrdersAssumption DEF IInv, Requests
  <2>3. status' = status
    BY <2>1 DEF PlaceStep, PlaceFind, PlaceLookup, PlaceMenu, PlaceCheck, PlaceInsert,
       PlaceRecover, PlaceReload
  <2>4. \/ orders' = orders
        \/ \E o \in Orders \ Placed :
              orders' = [orders EXCEPT ![o] = [request |-> ticket[p], status |-> "PENDING"]]
    BY <2>1 DEF PlaceStep, PlaceFind, PlaceLookup, PlaceMenu, PlaceCheck, PlaceInsert,
       PlaceRecover, PlaceReload
  <2>5. QED
    BY <2>2, <2>3, <2>4
<1>2. CASE \E i \in Sessions : SessionChange(i) \/ SessionExpire(i)
  BY <1>2 DEF SessionChange, SessionExpire, workerVars
<1>3. CASE UNCHANGED vars
  BY <1>3 DEF vars
<1>4. QED
  BY <1>1, <1>2, <1>3 DEF Next

\* A step with its histories is a step without them.
LEMMA HistoryStep == [HistoryNext]_<<vars, historyVars>> => [Next]_vars
  BY DEF HistoryNext

-----------------------------------------------------------------------------
(* Statuses are earned.                                                    *)

\* The history knows the status of each order, and what a staff request is about
\* to write may follow a status that the order has had.
Earning ==
    /\ been \in [Orders -> SUBSET Status]
    /\ \A o \in Placed : orders[o].status \in been[o]
    /\ \A u \in Staff :
          pc[u] = "write" => \E m \in been[held[u]] : status[u] \in validTransitions[m]

\* The status an order has after a step is one it had, the first one, or one that
\* may follow one it had.
LEMMA NextStatus ==
    ASSUME IInv, Earning, [Next]_vars, NEW o \in Orders
    PROVE  \/ orders'[o].status \in {"NONE", "PENDING"} \union been[o]
           \/ \E m \in been[o] : orders'[o].status \in validTransitions[m]
<1>1. orders \in [Orders -> Row] /\ orders[o].status \in {"NONE"} \union been[o]
  BY DEF IInv, TypeOK, Earning, Placed
<1>2. CASE \E u \in Staff : UpdateStep(u)
  <2>1. PICK u \in Staff : UpdateStep(u)
    BY <1>2
  <2>2. CASE pc[u] = "write"
    <3>1. held[u] \in Orders
      BY <2>2 DEF IInv, Pending, Placed
    <3>2. orders' \in {orders, Overwritten(u)}
      BY <2>1, <2>2, StaffMove DEF Begins, Writes, BreaksOff, Rereads, Sends, Ends
    <3>3. \/ orders'[o].status = orders[o].status
          \/ held[u] = o /\ orders'[o].status = status[u]
      BY <1>1, <3>1, <3>2 DEF Overwritten, Row
    <3>4. QED
      BY <1>1, <2>2, <3>3 DEF Earning
  <2>3. CASE pc[u] # "write"
    BY <1>1, <2>1, <2>3, StaffMove DEF Begins, Writes, BreaksOff, Rereads, Sends, Ends
  <2>4. QED
    BY <2>2, <2>3
<1>3. CASE ~ \E u \in Staff : UpdateStep(u)
  BY <1>1, <1>3, OthersMove
<1>4. QED
  BY <1>2, <1>3

\* A step preserves Earning and StatusEarned.
LEMMA StepEarning ==
    ASSUME IInv, Earning, StatusEarned, [HistoryNext]_<<vars, historyVars>>
    PROVE  Earning' /\ StatusEarned'
<1>1. [Next]_vars
  BY HistoryStep
<1>2. \/ been' = been /\ UNCHANGED vars
      \/ been' = [o \in Orders |-> been[o] \union ({orders'[o].status} \ {"NONE"})]
  BY DEF HistoryNext, historyVars
<1>3. orders' \in [Orders -> Row]
  BY <1>1, StepEvolves, EvolvesKeeps DEF IInv
<1>4. been' \in [Orders -> SUBSET Status]
  BY <1>2, <1>3 DEF Earning, Row
<1>5. \A o \in Orders : been[o] \subseteq been'[o]
  BY <1>2 DEF Earning
<1>6. \A o \in Placed' : orders'[o].status \in been'[o]
  BY <1>2 DEF Earning, vars, Placed
<1>7. ASSUME NEW u \in Staff, pc'[u] = "write"
      PROVE  \E m \in been'[held'[u]] : status'[u] \in validTransitions[m]
  <2>1. CASE pc[u] = "write" /\ held'[u] = held[u] /\ status'[u] = status[u]
    <3>1. held[u] \in Orders
      BY <2>1 DEF IInv, Pending, Placed
    <3>2. QED
      BY <1>5, <2>1, <3>1 DEF Earning
  <2>2. CASE UpdateStep(u)
    <3>1. /\ held'[u] \in Placed
          /\ status'[u] \in validTransitions[orders[held'[u]].status]
      BY <1>7, <2>2, StaffMove DEF Begins, Writes, BreaksOff, Rereads, Sends, Ends
    <3>2. orders[held'[u]].status \in been'[held'[u]]
      BY <1>5, <3>1 DEF Earning, Placed
    <3>3. QED
      BY <3>1, <3>2
  <2>3. QED
    BY <1>1, <1>7, <2>1, <2>2, StaffMove, OthersMove
<1>8. ASSUME NEW o \in Orders, NEW n \in been'[o]
      PROVE  n = "PENDING" \/ \E m \in been'[o] : n \in validTransitions[m]
  <2>1. CASE n \in been[o]
    BY <1>5, <2>1 DEF StatusEarned
  <2>2. CASE n \notin been[o]
    <3>1. n = orders'[o].status /\ n # "NONE"
      BY <1>2, <1>8, <2>2
    <3>2. QED
      BY <1>1, <1>5, <2>2, <3>1, NextStatus
  <2>3. QED
    BY <2>1, <2>2
<1>9. QED
  BY <1>4, <1>6, <1>7, <1>8 DEF Earning, StatusEarned

\* No order has a status that none of its earlier ones leads to, although staff
\* requests test the transition and write the status in two steps.
THEOREM StatusesAreEarned == HistorySpec => []StatusEarned
<1>1. HistoryInit => IInv /\ Earning /\ StatusEarned
  BY InitIInv DEF HistoryInit, Init, Earning, StatusEarned, Placed, Unplaced, Requests
<1>2. IInv /\ Earning /\ StatusEarned /\ [HistoryNext]_<<vars, historyVars>>
      => (IInv /\ Earning /\ StatusEarned)'
  BY HistoryStep, StepIInv, StepEarning
<1>3. QED
  BY <1>1, <1>2, PTL DEF HistorySpec

-----------------------------------------------------------------------------
(* The final status is sent.                                               *)

\* A placed order is changed by a staff request only if that one holds it and
\* writes, and by no other step.
LEMMA PlacedKept ==
    ASSUME IInv, [Next]_vars, NEW o \in Placed
    PROVE  /\ \A u \in Staff : UpdateStep(u) /\ ~(held[u] = o /\ (Writes(u) \/ BreaksOff(u)))
                               => orders'[o] = orders[o]
           /\ (~ \E u \in Staff : UpdateStep(u)) => orders'[o] = orders[o]
<1>1. orders \in [Orders -> Row] /\ o \in Orders
  BY DEF IInv, TypeOK, Placed
<1>2. ASSUME NEW u \in Staff, UpdateStep(u), ~(held[u] = o /\ (Writes(u) \/ BreaksOff(u)))
      PROVE  orders'[o] = orders[o]
  <2>1. CASE Writes(u) \/ BreaksOff(u)
    <3>1. held[u] \in Orders
      BY <2>1 DEF IInv, Pending, Placed, Writes, BreaksOff
    <3>2. QED
      BY <1>1, <1>2, <2>1, <3>1 DEF Writes, BreaksOff, Overwritten
  <2>2. CASE ~(Writes(u) \/ BreaksOff(u))
    BY <1>2, <2>2, StaffMove DEF Begins, Rereads, Sends, Ends
  <2>3. QED
    BY <2>1, <2>2
<1>3. (~ \E u \in Staff : UpdateStep(u)) => orders'[o] = orders[o]
  BY <1>1, OthersMove
<1>4. QED
  BY <1>2, <1>3

\* An order whose status was not broadcast since it was written is in the hands of
\* a staff request that is about to re-read it or to send the status it has.
Telling ==
    /\ untold \subseteq Placed
    /\ \A o \in untold \ failed : \E u \in Staff :
          /\ held[u] = o
          /\ \/ pc[u] = "reread"
             \/ pc[u] = "send" /\ status[u] = orders[o].status

\* What one staff request adds to the orders written, takes away as broadcast, or
\* adds to those with a failed update.
LEMMA StaffTells ==
    ASSUME IInv, NEW u \in Staff, UpdateStep(u)
    PROVE  /\ \A o \in Written : o = held[u] /\ Writes(u)
           /\ Sends(u) => held[u] \in Sent
           /\ BreaksOff(u) \/ (Ends(u) /\ pc[u] = "reread")
              => held[u] \in {held[v] : v \in {w \in Staff :
                                 pc[w] \in {"write", "reread"} /\ pc'[w] = "idle"}}
<1>1. \A v \in Staff : pc[v] = "write" /\ pc'[v] = "reread" => v = u /\ Writes(u)
  BY StaffMove DEF Begins, Writes, BreaksOff, Rereads, Sends, Ends
<1>2. QED
  BY <1>1 DEF Written, Sent, Sends, BreaksOff, Ends

\* A step preserves Telling.
LEMMA StepTelling ==
    ASSUME IInv, Telling, [HistoryNext]_<<vars, historyVars>>
    PROVE  Telling'
<1>1. CASE UNCHANGED <<vars, historyVars>>
  BY <1>1 DEF Telling, vars, historyVars, Placed
<1>2. CASE HistoryNext
  <2>1. /\ [Next]_vars
        /\ untold' = (untold \union Written) \ {o \in Sent : feed'[o] = orders[o].status}
        /\ failed \subseteq failed'
    BY <1>2, HistoryStep DEF HistoryNext
  <2>2. Placed \subseteq Placed' /\ Written \subseteq Placed
    BY <2>1, StepEvolves, EvolvesKeeps DEF IInv, Pending, Written
  <2>3. ASSUME NEW o \in untold', o \notin failed'
        PROVE  \E u \in Staff : /\ held'[u] = o
                                /\ \/ pc'[u] = "reread"
                                   \/ pc'[u] = "send" /\ status'[u] = orders'[o].status
    <3>1. CASE \E u \in Staff : UpdateStep(u)
      <4>1. PICK u \in Staff : UpdateStep(u)
        BY <3>1
      <4>2. CASE Writes(u) /\ held[u] = o
        BY <4>2 DEF Writes
      <4>3. CASE ~(Writes(u) /\ held[u] = o)
        <5>1. o \in untold /\ o \in Placed
          BY <2>1, <2>3, <4>1, <4>3, StaffTells DEF Telling
        <5>2. PICK v \in Staff : /\ held[v] = o
                                 /\ \/ pc[v] = "reread"
                                    \/ pc[v] = "send" /\ status[v] = orders[o].status
          BY <2>1, <2>3, <5>1 DEF Telling
        <5>3. ~(held[u] = o /\ (BreaksOff(u) \/ (Ends(u) /\ pc[u] = "reread")))
          BY <1>2, <2>3, <4>1, StaffTells DEF HistoryNext
        <5>4. orders'[o] = orders[o]
          BY <2>1, <4>1, <4>3, <5>1, <5>3, PlacedKept
        <5>5. CASE v # u
          BY <4>1, <5>2, <5>4, <5>5, StaffMove
        <5>6. CASE v = u /\ pc[u] = "reread"
          BY <4>1, <5>2, <5>3, <5>4, <5>6, StaffMove DEF Begins, Writes, BreaksOff, Rereads, Sends, Ends
        <5>7. CASE v = u /\ pc[u] = "send"
          <6>1. Sends(u)
            BY <4>1, <5>7, StaffMove DEF Begins, Writes, BreaksOff, Rereads, Ends
          <6>2. o \in Sent /\ feed'[o] = orders[o].status
            BY <4>1, <5>2, <5>7, <6>1, StaffTells DEF Sends
          <6>3. QED
            BY <2>1, <2>3, <6>2
        <5>8. QED
          BY <5>2, <5>5, <5>6, <5>7
      <4>4. QED
        BY <4>2, <4>3
    <3>2. CASE ~ \E u \in Staff : UpdateStep(u)
      <4>1. \A u \in Staff : pc'[u] = pc[u] /\ held'[u] = held[u] /\ status'[u] = status[u]
        BY <2>1, <3>2, OthersMove
      <4>2. o \in untold /\ o \in Placed
        BY <2>1, <2>3, <4>1 DEF Written, Telling
      <4>3. orders'[o] = orders[o]
        BY <2>1, <3>2, <4>2, PlacedKept
      <4>4. QED
        BY <2>1, <2>3, <4>1, <4>2, <4>3 DEF Telling
    <3>3. QED
      BY <3>1, <3>2
  <2>4. QED
    BY <2>1, <2>2, <2>3 DEF Telling
<1>3. QED
  BY <1>1, <1>2

\* When no update is under way, the status of each order has been broadcast since
\* it was written, unless an update of the order failed on its way.
THEOREM FinalStatusesAreSent == HistorySpec => []FinalStatusSent
<1>1. HistoryInit => IInv /\ Telling
  BY InitIInv DEF HistoryInit, Telling
<1>2. IInv /\ Telling /\ [HistoryNext]_<<vars, historyVars>> => (IInv /\ Telling)'
  BY HistoryStep, StepIInv, StepTelling
<1>3. Telling => FinalStatusSent
  BY DEF Telling, FinalStatusSent
<1>4. QED
  BY <1>1, <1>2, <1>3, PTL DEF HistorySpec

-----------------------------------------------------------------------------
(* The lifecycle is implemented.                                           *)

\* Two staff requests hold the same order only if it is known to have been raced,
\* and on any other order the transition that was tested is still admissible.
Racing ==
    /\ raced \subseteq Placed
    /\ \A u \in Staff : pc[u] = "idle" <=> held[u] = Nil
    /\ \A u, v \in Staff :
          u # v /\ pc[u] # "idle" /\ held[u] = held[v] => held[u] \in raced
    /\ \A u \in Staff :
          pc[u] = "write" /\ held[u] \notin raced
          => status[u] \in validTransitions[orders[held[u]].status]

\* The order on which two requests meet is one that a staff request just began with.
LEMMA RacedGrows ==
    ASSUME IInv, Racing, HistoryNext
    PROVE  /\ \A u \in Staff : UpdateStep(u) => \/ raced' = raced
                                                \/ /\ Begins(u)
                                                   /\ raced' = raced \union {held'[u]}
           /\ (~ \E u \in Staff : UpdateStep(u)) => raced' = raced
<1> DEFINE Met == {held'[u] : u \in {v \in Staff :
                      pc'[v] # "idle" /\ \E w \in Staff \ {v} : held'[w] = held'[v]}}
<1>1. raced' = raced \union Met /\ [Next]_vars
  BY HistoryStep DEF HistoryNext
<1>2. ASSUME NEW u \in Staff, UpdateStep(u)
      PROVE  \/ Met \subseteq raced
             \/ Begins(u) /\ Met \subseteq raced \union {held'[u]}
  <2>1. ASSUME NEW v \in Staff, NEW w \in Staff \ {v}, pc'[v] # "idle", held'[w] = held'[v]
        PROVE  held'[v] \in raced \/ (Begins(u) /\ held'[v] = held'[u])
    <3>1. CASE u \notin {v, w}
      BY <1>2, <2>1, <3>1, StaffMove DEF Racing
    <3>2. CASE u = v
      BY <1>2, <2>1, <3>2, StaffMove DEF Racing, Begins, Writes, BreaksOff, Rereads, Sends, Ends
    <3>3. CASE u = w
      <4>1. pc[v] # "idle" /\ held'[v] = held[v]
        BY <1>2, <2>1, <3>3, StaffMove
      <4>2. CASE held'[u] = held[u]
        BY <2>1, <3>3, <4>1, <4>2 DEF Racing
      <4>3. CASE held'[u] = Nil
        BY <2>1, <3>3, <4>1, <4>3 DEF Racing
      <4>4. QED
        BY <1>2, <2>1, <3>3, <4>2, <4>3, StaffMove
           DEF Begins, Writes, BreaksOff, Rereads, Sends, Ends
    <3>4. QED
      BY <3>1, <3>2, <3>3
  <2>2. QED
    BY <2>1
<1>3. (~ \E u \in Staff : UpdateStep(u)) => Met \subseteq raced
  BY <1>1, OthersMove DEF Racing
<1>4. ASSUME NEW u \in Staff, UpdateStep(u)
      PROVE  raced' = raced \/ (Begins(u) /\ raced' = raced \union {held'[u]})
  BY <1>1, <1>2, <1>4
<1>5. QED
  BY <1>1, <1>3, <1>4

\* A step preserves Racing.
LEMMA StepRacing ==
    ASSUME IInv, Racing, [HistoryNext]_<<vars, historyVars>>
    PROVE  Racing'
<1>1. CASE UNCHANGED <<vars, historyVars>>
  BY <1>1 DEF Racing, vars, historyVars, Placed
<1>2. CASE HistoryNext
  <2>1. [Next]_vars /\ Placed \subseteq Placed'
    BY <1>2, HistoryStep, StepEvolves, EvolvesKeeps DEF IInv
  <2>2. raced' \subseteq Placed' /\ raced \subseteq raced'
    <3>1. CASE \E u \in Staff : UpdateStep(u)
      BY <1>2, <2>1, <3>1, RacedGrows DEF Racing, Begins
    <3>2. CASE ~ \E u \in Staff : UpdateStep(u)
      BY <1>2, <2>1, <3>2, RacedGrows DEF Racing
    <3>3. QED
      BY <3>1, <3>2
  <2>3. ASSUME NEW v \in Staff
        PROVE  pc'[v] = "idle" <=> held'[v] = Nil
    <3>1. CASE UpdateStep(v)
      <4>1. Nil \notin Placed
        BY OrdersAssumption DEF Placed
      <4>2. QED
        BY <3>1, <4>1, StaffMove DEF Racing, Begins, Writes, BreaksOff, Rereads, Sends, Ends
    <3>2. CASE ~UpdateStep(v)
      BY <2>1, <3>2, StaffMove, OthersMove DEF Racing
    <3>3. QED
      BY <3>1, <3>2
  <2>4. ASSUME NEW u \in Staff, NEW v \in Staff, u # v, pc'[u] # "idle", held'[u] = held'[v]
        PROVE  held'[u] \in raced'
    BY <1>2, <2>4 DEF HistoryNext
  <2>5. ASSUME NEW v \in Staff, pc'[v] = "write", held'[v] \notin raced'
        PROVE  status'[v] \in validTransitions[orders'[held'[v]].status]
    <3>1. CASE UpdateStep(v)
      BY <2>5, <3>1, StaffMove DEF Begins, Writes, BreaksOff, Rereads, Sends, Ends
    <3>2. CASE ~UpdateStep(v)
      <4>1. pc[v] = "write" /\ held'[v] = held[v] /\ status'[v] = status[v]
        BY <2>1, <2>5, <3>2, StaffMove, OthersMove
      <4>2. held[v] \in Placed /\ held[v] \notin raced
        BY <2>2, <2>5, <4>1 DEF IInv, Pending
      <4>3. \A u \in Staff : UpdateStep(u) => held[u] # held[v]
        BY <3>2, <4>1, <4>2 DEF Racing
      <4>4. orders'[held[v]] = orders[held[v]]
        BY <2>1, <4>2, <4>3, PlacedKept
      <4>5. QED
        BY <4>1, <4>2, <4>4 DEF Racing
    <3>3. QED
      BY <3>1, <3>2
  <2>6. QED
    BY <2>2, <2>3, <2>4, <2>5 DEF Racing
<1>3. QED
  BY <1>1, <1>2

\* The stages the lifecycle's refinement mapping assigns, and its transitions.
Stage == [o \in Orders |-> IF o \in raced THEN "RACED" ELSE orders[o].status]

Moves == [n \in Status \union {"RACED"} |->
             IF n = "RACED" THEN {} ELSE validTransitions[n] \union {"RACED"}]

\* A step maps to a step of the lifecycle: a placement that inserts places the
\* order, a staff request that writes advances it unless the order is raced, one
\* that meets another advances it to RACED, and the others leave it.
LEMMA StepStage ==
    ASSUME IInv, Racing, [HistoryNext]_<<vars, historyVars>>
    PROVE  \/ Stage' = Stage
           \/ \E o \in Orders : /\ Stage[o] = "NONE"
                                /\ Stage' = [Stage EXCEPT ![o] = "PENDING"]
           \/ \E o \in Orders : /\ Stage[o] # "NONE"
                                /\ \E n \in Moves[Stage[o]] : Stage' = [Stage EXCEPT ![o] = n]
<1>1. orders \in [Orders -> Row] /\ raced \subseteq Placed /\ Placed \subseteq Orders
  BY DEF IInv, TypeOK, Racing, Placed
<1>2. CASE UNCHANGED <<vars, historyVars>>
  BY <1>2 DEF vars, historyVars, Stage
<1>3. CASE HistoryNext /\ \E u \in Staff : UpdateStep(u)
  <2>1. PICK u \in Staff : UpdateStep(u)
    BY <1>3
  <2>2. CASE raced' = raced /\ orders' = orders
    BY <2>2 DEF Stage
  <2>3. CASE Begins(u) /\ raced' = raced \union {held'[u]} /\ held'[u] \notin raced
    <3>1. /\ held'[u] \in Orders /\ orders' = orders
          /\ orders[held'[u]].status \in Status
      BY <1>1, <2>3 DEF Begins, Placed, Row
    <3>2. Stage[held'[u]] = orders[held'[u]].status
      BY <2>3, <3>1 DEF Stage
    <3>3. "RACED" \in Moves[Stage[held'[u]]]
      BY <3>1, <3>2, StatusFacts DEF Moves
    <3>4. Stage' = [Stage EXCEPT ![held'[u]] = "RACED"]
      BY <2>3, <3>1 DEF Stage
    <3>5. QED
      BY <3>1, <3>2, <3>3, <3>4, StatusFacts
  <2>4. CASE orders' = Overwritten(u) /\ (Writes(u) \/ BreaksOff(u))
    <3>1. pc[u] = "write" /\ held[u] \in Placed /\ held[u] \in Orders /\ raced' = raced
      BY <1>1, <1>3, <2>1, <2>4, RacedGrows DEF Writes, BreaksOff, Begins, IInv, Pending
    <3>2. CASE held[u] \in raced
      BY <1>1, <2>4, <3>1, <3>2 DEF Overwritten, Stage
    <3>3. CASE held[u] \notin raced
      <4>1. orders[held[u]].status \in Status
        BY <1>1, <3>1 DEF Placed, Row
      <4>2. status[u] \in validTransitions[orders[held[u]].status]
        BY <3>1, <3>3 DEF Racing
      <4>3. Stage[held[u]] = orders[held[u]].status /\ status[u] \in Moves[Stage[held[u]]]
        BY <3>1, <3>3, <4>1, <4>2, StatusFacts DEF Stage, Moves
      <4>4. Stage' = [Stage EXCEPT ![held[u]] = status[u]]
        BY <1>1, <2>4, <3>1, <3>3 DEF Overwritten, Stage, Row
      <4>5. QED
        BY <3>1, <4>1, <4>3, <4>4, StatusFacts
    <3>4. QED
      BY <3>2, <3>3
  <2>5. QED
    <3>1. \/ raced' = raced
          \/ Begins(u) /\ raced' = raced \union {held'[u]} /\ orders' = orders
      BY <1>3, <2>1, RacedGrows DEF Begins
    <3>2. orders' = orders \/ (orders' = Overwritten(u) /\ (Writes(u) \/ BreaksOff(u)))
      BY <2>1, StaffMove DEF Begins, Writes, BreaksOff, Rereads, Sends, Ends
    <3>3. Begins(u) => ~(Writes(u) \/ BreaksOff(u))
      BY DEF Begins, Writes, BreaksOff
    <3>4. CASE raced' = raced
      BY <2>2, <2>4, <3>2, <3>4
    <3>5. CASE Begins(u) /\ raced' = raced \union {held'[u]} /\ orders' = orders
      <4>1. CASE held'[u] \in raced
        BY <2>2, <3>5, <4>1
      <4>2. QED
        BY <2>3, <3>5, <4>1
    <3>6. QED
      BY <3>1, <3>4, <3>5
<1>4. CASE HistoryNext /\ ~ \E u \in Staff : UpdateStep(u)
  <2>1. raced' = raced
    BY <1>4, RacedGrows
  <2>2. CASE orders' = orders
    BY <2>1, <2>2 DEF Stage
  <2>3. ASSUME NEW o \in Orders \ Placed, NEW p \in Placements,
               orders' = [orders EXCEPT ![o] = [request |-> ticket[p], status |-> "PENDING"]]
        PROVE  Stage[o] = "NONE" /\ Stage' = [Stage EXCEPT ![o] = "PENDING"]
    <3>1. o \notin raced /\ orders[o].status = "NONE"
      BY <1>1 DEF Placed
    <3>2. QED
      BY <1>1, <2>1, <2>3, <3>1 DEF Stage
  <2>4. QED
    BY <1>4, <2>2, <2>3, HistoryStep, OthersMove
<1>5. QED
  BY <1>2, <1>3, <1>4

\* Orders implements the documented lifecycle as long as no two updates of an
\* order overlap: the refinement of OrderLifecycle, step by step.
THEOREM LifecycleImplemented == HistorySpec => ImplementsLifecycle
<1>1. HistoryInit => IInv /\ Racing /\ Stage = [o \in Orders |-> "NONE"]
  BY InitIInv DEF HistoryInit, Init, Racing, Stage, Unplaced, Requests
<1>2. IInv /\ Racing /\ [HistoryNext]_<<vars, historyVars>> => (IInv /\ Racing)'
  BY HistoryStep, StepIInv, StepRacing
<1>3. HistoryInit => Stages!LifecycleInit
  BY <1>1 DEF Stages!LifecycleInit, Stage
<1>4. IInv /\ Racing /\ [HistoryNext]_<<vars, historyVars>>
      => [\E o \in Orders : Stages!Place(o) \/ Stages!Advance(o)]_Stage
  BY StepStage DEF Stages!Place, Stages!Advance, Stage, Moves
<1>5. QED
  BY <1>1, <1>2, <1>3, <1>4, PTL DEF HistorySpec, ImplementsLifecycle, Stages!Lifecycle, Stage
=============================================================================
