--------------------------- MODULE SessionsProofs ---------------------------
(***************************************************************************)
(* Proofs about Sessions for every number of tables, sessions and workers, *)
(* with and without failing statements.                                    *)
(*                                                                         *)
(* The argument.  TypeOK is inductive by itself.  OneActivePerTable is     *)
(* not: a close or a payment saves a struct it read several steps ago, and *)
(* only because the struct still names the table of its row (CopiesBelong) *)
(* does the index test of the save speak of the right table.  So the       *)
(* inductive invariant is IInv, their conjunction.  Lemma StepSaves says   *)
(* all that the sessions table can undergo in one step; OneActivePerTable  *)
(* and the refinement of Occupancy follow from it alone.  The refinement   *)
(* has one case for each change of a session's status that a saved row can *)
(* make: NONE to ACTIVE is Seat, ACTIVE to CLOSED is Leave, CLOSED to      *)
(* ACTIVE is Reseat, and every other step is a stutter.  What scans owe    *)
(* (ScanHistory) needs more: past its search a scan knows of no ACTIVE     *)
(* session that it owes to replace but the one it is about to save (Owes). *)
(***************************************************************************)
EXTENDS ScanHistory, TLAPS

\* Row may be stored as session i by a request.
Storable(i, row) ==
    /\ row.status \in {"ACTIVE", "CLOSED"}
    /\ row.table \in Tables
    /\ IndexAdmits(i, row)
    /\ i \in Born => row.table = sessions[i].table
    /\ i \notin Born => row.status = "ACTIVE"

-----------------------------------------------------------------------------
(* Type correctness.                                                       *)

\* The row of an identity not yet used, and the absent response, are well typed.
LEMMA RowFacts ==
    /\ Unborn \in Row
    /\ NoReply \in [to : Requests \union {Nil},
                    code : {"none", "ok", "refused", "conflict", "expired", "error"},
                    session : Sessions \union {Nil}]
  BY DEF Unborn, Row, NoReply

\* The empty database and idle workers are well typed.
LEMMA InitTypeOK == Init => TypeOK
  BY RowFacts DEF Init, TypeOK, Requests

\* Moving a request on, or answering it, keeps the types of its locals.
LEMMA GotoType ==
    ASSUME TypeOK, NEW r \in Requests, NEW row \in Row, NEW i \in Sessions \union {Nil},
           NEW label \in {"find", "expire", "count", "adopt", "create", "recover",
                          "build", "tally", "tallied", "forced", "pay"},
           GotoWith(r, label, i, row),
           sessions' \in [Sessions -> Row], expired' \subseteq Sessions,
           unfinished' \subseteq Sessions, target' \in [Scans -> Tables \union {Nil}]
    PROVE  TypeOK'
  BY RowFacts DEF TypeOK, GotoWith

\* Answering a request clears its locals, which keeps their types.
LEMMA FinishType ==
    ASSUME TypeOK, NEW r \in Requests, NEW i \in Sessions \union {Nil},
           NEW code \in {"ok", "refused", "conflict", "expired", "error"},
           Finish(r, code, i),
           sessions' \in [Sessions -> Row], expired' \subseteq Sessions,
           unfinished' \subseteq Sessions, target' \in [Scans -> Tables \union {Nil}]
    PROVE  TypeOK'
  BY RowFacts DEF TypeOK, Finish

\* What the steps of a scan save or keep as a copy are rows.
LEMMA ScanType ==
    ASSUME TypeOK, NEW s \in Scans, ScanStep(s)
    PROVE  TypeOK'
<1> USE RowFacts DEF TypeOK, dbVars, Goto, Fail, Born, ActiveAt, Save, Requests
<1>1. CASE ScanFindTable(s)
  <2>1. CASE \E t \in Tables : /\ target' = [target EXCEPT ![s] = t]
                             /\ GotoWith(s, "find", Nil, Unborn)
    <3>1. target' \in [Scans -> Tables \union {Nil}]
      BY <2>1
    <3>2. QED
      BY <1>1, <2>1, <3>1, GotoType DEF ScanFindTable
  <2>2. CASE Fail(s, "refused") /\ UNCHANGED target
    BY <1>1, <2>2, FinishType DEF ScanFindTable
  <2>3. QED
    BY <1>1, <2>1, <2>2 DEF ScanFindTable
<1>2. CASE ScanFindActive(s)
  <2>1. CASE \E i \in ActiveAt(target[s]) : GotoWith(s, "expire", i, sessions[i])
    BY <1>2, <2>1, GotoType DEF ScanFindActive
  <2>2. CASE \E i \in ActiveAt(target[s]) : GotoWith(s, "build", i, Unborn)
    BY <1>2, <2>2, GotoType DEF ScanFindActive
  <2>3. CASE Goto(s, "count")
    BY <1>2, <2>3, GotoType DEF ScanFindActive
  <2>4. CASE Fail(s, "error")
    BY <1>2, <2>4, FinishType DEF ScanFindActive
  <2>5. QED
    BY <1>2, <2>1, <2>2, <2>3, <2>4 DEF ScanFindActive
<1>3. CASE ScanExpire(s)
  <2>1. [copy[s] EXCEPT !.status = "CLOSED"] \in Row
    BY DEF Row
  <2>2. sessions' \in [Sessions -> Row]
    BY <1>3, <2>1 DEF ScanExpire
  <2>3. QED
    BY <1>3, <2>2, GotoType DEF ScanExpire
<1>4. CASE ScanCount(s)
  BY <1>4, GotoType DEF ScanCount
<1>5. CASE ScanAdopt(s)
  BY <1>5, GotoType DEF ScanAdopt
<1>6. CASE ScanCreate(s)
  <2>1. [table |-> target[s], status |-> "ACTIVE", payment |-> "PENDING"] \in Row
    BY DEF Row
  <2>2. sessions' \in [Sessions -> Row]
    BY <1>6, <2>1 DEF ScanCreate
  <2>3. \/ Goto(s, "recover")
        \/ \E i \in Sessions : GotoWith(s, "build", i, Unborn)
    BY <1>6 DEF ScanCreate
  <2>4. QED
    BY <1>6, <2>2, <2>3, GotoType DEF ScanCreate
<1>7. CASE ScanRecover(s)
  BY <1>7, GotoType, FinishType DEF ScanRecover
<1>8. CASE ScanBuild(s)
  BY <1>8, FinishType DEF ScanBuild
<1>9. QED
  BY <1>1, <1>2, <1>3, <1>4, <1>5, <1>6, <1>7, <1>8 DEF ScanStep

\* What the steps of a close save or keep as a copy are rows.
LEMMA CloseType ==
    ASSUME TypeOK, NEW c \in Closes, CloseStep(c)
    PROVE  TypeOK'
<1> USE RowFacts DEF TypeOK, dbVars, Goto, Fail, Born, Save, Requests
<1>1. CASE CloseFind(c)
  <2>1. CASE \E i \in Sessions : GotoWith(c, "tally", i, sessions[i])
    BY <1>1, <2>1, GotoType DEF CloseFind
  <2>2. CASE \E i \in Sessions : GotoWith(c, "forced", i, sessions[i])
    BY <1>1, <2>2, GotoType DEF CloseFind
  <2>3. CASE Fail(c, "conflict") \/ Fail(c, "refused")
    BY <1>1, <2>3, FinishType DEF CloseFind
  <2>4. QED
    BY <1>1, <2>1, <2>2, <2>3 DEF CloseFind
<1>2. CASE CloseTally(c)
  BY <1>2, GotoType, FinishType DEF CloseTally
<1>3. CASE CloseSave(c)
  <2>1. [copy[c] EXCEPT !.status = "CLOSED"] \in Row
    BY DEF Row
  <2>2. sessions' \in [Sessions -> Row]
    BY <1>3, <2>1 DEF CloseSave
  <2>3. QED
    BY <1>3, <2>2, FinishType DEF CloseSave
<1>4. QED
  BY <1>1, <1>2, <1>3 DEF CloseStep

\* A payment saves a row: its new payment status is one of the validated ones.
LEMMA PayType ==
    ASSUME TypeOK, NEW p \in Payments, PayStep(p)
    PROVE  TypeOK'
<1> USE RowFacts DEF TypeOK, dbVars, Goto, Fail, Born, Save, Requests
<1>1. CASE PayFind(p)
  <2>1. ASSUME NEW i \in Sessions, NEW v \in PaymentStatus
        PROVE  [sessions[i] EXCEPT !.payment = v] \in Row
    BY SessionsAssumption DEF Row
  <2>2. QED
    BY <1>1, <2>1, GotoType, FinishType DEF PayFind
<1>2. CASE PaySave(p)
  <2>1. sessions' \in [Sessions -> Row]
    BY <1>2 DEF PaySave
  <2>2. QED
    BY <1>2, <2>1, FinishType DEF PaySave
<1>3. QED
  BY <1>1, <1>2 DEF PayStep

\* Time and the orders change only sets of sessions.
LEMMA EnvironmentType ==
    ASSUME TypeOK, NEW i \in Sessions, Expire(i) \/ OrdersChange(i)
    PROVE  TypeOK'
  BY DEF TypeOK, Expire, OrdersChange, Born, workerVars

\* TypeOK is inductive by itself.
LEMMA StepTypeOK == TypeOK /\ [Next]_vars => TypeOK'
<1> SUFFICES ASSUME TypeOK, [Next]_vars PROVE TypeOK'
  OBVIOUS
<1>1. CASE UNCHANGED vars
  BY <1>1 DEF vars, TypeOK
<1>2. CASE Next
  BY <1>2, ScanType, CloseType, PayType, EnvironmentType DEF Next
<1>3. QED
  BY <1>1, <1>2

\* Rows, copies and program counters keep their types: in particular no request
\* stores a status or a payment status outside the CHECK constraints.
THEOREM TypeCorrect == Spec => []TypeOK
  BY InitTypeOK, StepTypeOK, PTL DEF Spec

-----------------------------------------------------------------------------
(* What one step can do to the sessions table, and the invariant.          *)

\* A step leaves the table alone or stores one row that fits its session.
Saves == \E i \in Sessions, row \in Row : Save(i, row) /\ Storable(i, row)

\* Setting CLOSED in a copy that belongs to its session gives a storable row.
LEMMA ClosingStorable ==
    ASSUME TypeOK, CopiesBelong, NEW r \in Requests,
           pc[r] \in {"expire", "tallied", "forced"}
    PROVE  LET row == [copy[r] EXCEPT !.status = "CLOSED"]
           IN  held[r] \in Sessions /\ row \in Row /\ Storable(held[r], row)
<1> DEFINE row == [copy[r] EXCEPT !.status = "CLOSED"]
<1>1. held[r] \in Born /\ copy[r].table = sessions[held[r]].table
  BY DEF CopiesBelong
<1>2. copy[r] \in Row
  BY DEF TypeOK
<1>3. row \in Row /\ row.status = "CLOSED" /\ row.table = copy[r].table
  BY <1>2 DEF Row
<1>4. sessions[held[r]].table \in Tables
  BY <1>1 DEF CopiesBelong
<1>5. QED
  BY <1>1, <1>3, <1>4 DEF Storable, IndexAdmits, Born

\* Every step of the component, whichever handler takes it, leaves the sessions
\* table alone or is one Save of a row that fits.
LEMMA StepSaves ==
    ASSUME TypeOK, CopiesBelong, [Next]_vars
    PROVE  UNCHANGED sessions \/ Saves
<1>1. CASE \E s \in Scans : ScanExpire(s)
  <2>1. PICK s \in Scans : ScanExpire(s)
    BY <1>1
  <2>2. QED
    BY <2>1, ClosingStorable DEF ScanExpire, Saves, Requests
<1>2. CASE \E s \in Scans : ScanCreate(s)
  <2>1. PICK s \in Scans : ScanCreate(s)
    BY <1>2
  <2> DEFINE row == [table |-> target[s], status |-> "ACTIVE", payment |-> "PENDING"]
  <2>2. target[s] \in Tables
    BY <2>1 DEF CopiesBelong, ScanCreate
  <2>3. row \in Row
    BY <2>2 DEF Row
  <2>4. ASSUME NEW i \in Sessions \ Born, IndexAdmits(i, row), Save(i, row)
        PROVE  Saves
    BY <2>2, <2>3, <2>4 DEF Saves, Storable
  <2>5. QED
    BY <2>1, <2>4 DEF ScanCreate
<1>3. CASE \E c \in Closes : CloseSave(c)
  <2>1. PICK c \in Closes : CloseSave(c)
    BY <1>3
  <2>2. QED
    BY <2>1, ClosingStorable DEF CloseSave, Saves, Requests
<1>4. CASE \E p \in Payments : PaySave(p)
  <2>1. PICK p \in Payments : PaySave(p)
    BY <1>4
  <2>2. /\ held[p] \in Born
        /\ copy[p] \in Row
        /\ copy[p].status # "NONE"
        /\ copy[p].table = sessions[held[p]].table
        /\ sessions[held[p]].table \in Tables
    BY <2>1 DEF CopiesBelong, TypeOK, PaySave, Requests
  <2>3. IndexAdmits(held[p], copy[p]) => Storable(held[p], copy[p])
    BY <2>2 DEF Storable, Row
  <2>4. QED
    BY <2>1, <2>2, <2>3 DEF PaySave, Saves, Born
<1>5. ASSUME NEW s \in Scans, ScanStep(s), ~ScanExpire(s), ~ScanCreate(s)
      PROVE  UNCHANGED sessions
  BY <1>5 DEF ScanStep, ScanFindTable, ScanFindActive, ScanCount, ScanAdopt,
              ScanRecover, ScanBuild, dbVars
<1>6. ASSUME NEW c \in Closes, CloseStep(c), ~CloseSave(c)
      PROVE  UNCHANGED sessions
  BY <1>6 DEF CloseStep, CloseFind, CloseTally, dbVars
<1>7. ASSUME NEW p \in Payments, PayStep(p), ~PaySave(p)
      PROVE  UNCHANGED sessions
  BY <1>7 DEF PayStep, PayFind, dbVars
<1>8. ASSUME NEW i \in Sessions, Expire(i) \/ OrdersChange(i)
      PROVE  UNCHANGED sessions
  BY <1>8 DEF Expire, OrdersChange
<1>9. QED
  BY <1>1, <1>2, <1>3, <1>4, <1>5, <1>6, <1>7, <1>8 DEF Next, vars

\* A session once created exists for good, at the table it was created for.
LEMMA Kept ==
    ASSUME TypeOK, CopiesBelong, [Next]_vars
    PROVE  /\ Born \subseteq Born'
           /\ \A i \in Born : sessions'[i].table = sessions[i].table
  BY StepSaves DEF Saves, Save, Storable, Born, TypeOK

\* The index admits only rows that leave one ACTIVE session per table.
LEMMA OneActiveStep ==
    ASSUME TypeOK, CopiesBelong, OneActivePerTable, [Next]_vars
    PROVE  OneActivePerTable'
<1>1. CASE UNCHANGED sessions
  BY <1>1 DEF OneActivePerTable
<1>2. ASSUME NEW k \in Sessions, NEW row \in Row, Save(k, row), Storable(k, row)
      PROVE  OneActivePerTable'
  <2>1. row.status = "ACTIVE" =>
            \A i \in Sessions : /\ sessions[i].status = "ACTIVE"
                                /\ sessions[i].table = row.table
                                => i = k
    BY <1>2 DEF Storable, IndexAdmits, ActiveAt
  <2>2. /\ sessions'[k] = row
        /\ \A i \in Sessions : i # k => sessions'[i] = sessions[i]
    BY <1>2 DEF Save, TypeOK
  <2>3. QED
    BY <2>1, <2>2 DEF OneActivePerTable
<1>3. QED
  BY <1>1, <1>2, StepSaves DEF Saves

\* The two halves of CopiesBelong that speak of one request.
Belongs(r) ==
    pc[r] \in {"expire", "tally", "tallied", "forced", "pay"}
    => /\ held[r] \in Born
       /\ copy[r].status # "NONE"
       /\ copy[r].table = sessions[held[r]].table

Aimed(s) ==
    /\ pc[s] # "idle" => target[s] \in Tables
    /\ pc[s] = "expire" => held[s] \in expired
    /\ pc[s] = "build" => held[s] \in Born /\ sessions[held[s]].table = target[s]

\* The rows of the table stay well formed.
LEMMA RowsStep ==
    ASSUME TypeOK, CopiesBelong, [Next]_vars
    PROVE  /\ \A i \in Born' : sessions'[i].table \in Tables
           /\ \A i \in Sessions \ Born' : sessions'[i] = Unborn
<1>1. CASE UNCHANGED sessions
  BY <1>1 DEF CopiesBelong, Born
<1>2. ASSUME NEW k \in Sessions, NEW row \in Row, Save(k, row), Storable(k, row)
      PROVE  /\ \A i \in Born' : sessions'[i].table \in Tables
             /\ \A i \in Sessions \ Born' : sessions'[i] = Unborn
  BY <1>2 DEF CopiesBelong, Born, TypeOK, Save, Storable
<1>3. QED
  BY <1>1, <1>2, StepSaves DEF Saves

\* A request that does not move keeps what it knows, whatever the others save.
LEMMA BelongsKept ==
    ASSUME TypeOK, CopiesBelong, [Next]_vars, NEW r \in Requests,
           pc'[r] = pc[r], held'[r] = held[r], copy'[r] = copy[r]
    PROVE  Belongs(r)'
  BY Kept DEF Belongs, CopiesBelong

\* Time only passes, and only for sessions that were created.
LEMMA ExpiredGrows ==
    [Next]_vars => expired \subseteq expired' /\ expired' \subseteq expired \union Born
  BY DEF Next, vars, Expire, OrdersChange, ScanStep, ScanFindTable, ScanFindActive,
         ScanExpire, ScanCount, ScanAdopt, ScanCreate, ScanRecover, ScanBuild,
         CloseStep, CloseFind, CloseTally, CloseSave, PayStep, PayFind, PaySave, dbVars

\* So does a scan that does not move, about its table and session.
LEMMA AimedKept ==
    ASSUME TypeOK, CopiesBelong, [Next]_vars, NEW s \in Scans,
           pc'[s] = pc[s], held'[s] = held[s], target'[s] = target[s]
    PROVE  Aimed(s)'
  BY ExpiredGrows, Kept DEF Aimed, CopiesBelong

\* A request that is answered, or goes on without a copy, owes nothing.
LEMMA BelongsFinish ==
    ASSUME TypeOK, NEW r \in Requests, NEW code, NEW i, Finish(r, code, i)
    PROVE  Belongs(r)' /\ Aimed(r)'
  BY DEF Belongs, Aimed, Finish, TypeOK

\* Each step of a scan leaves the scan with a copy and a session that belong.
LEMMA ScanCopies ==
    ASSUME TypeOK, CopiesBelong, [Next]_vars, NEW s \in Scans, ScanStep(s)
    PROVE  Belongs(s)' /\ Aimed(s)'
<1> USE DEF Goto, Fail, Requests
<1>1. CASE ScanFindTable(s)
  <2>1. ASSUME NEW t \in Tables, target' = [target EXCEPT ![s] = t],
               GotoWith(s, "find", Nil, Unborn)
        PROVE  Belongs(s)' /\ Aimed(s)'
    BY <2>1 DEF Belongs, Aimed, GotoWith, TypeOK
  <2>2. QED
    BY <1>1, <2>1, BelongsFinish DEF ScanFindTable
<1>2. CASE ScanFindActive(s)
  <2>1. target[s] \in Tables
    BY <1>2 DEF ScanFindActive, CopiesBelong
  <2>2. ASSUME NEW i \in ActiveAt(target[s]), i \in expired, UNCHANGED <<dbVars, target>>,
               GotoWith(s, "expire", i, sessions[i])
        PROVE  Belongs(s)' /\ Aimed(s)'
    BY <2>1, <2>2 DEF Belongs, Aimed, GotoWith, TypeOK, ActiveAt, Born, dbVars
  <2>3. ASSUME NEW i \in ActiveAt(target[s]), UNCHANGED <<dbVars, target>>,
               GotoWith(s, "build", i, Unborn)
        PROVE  Belongs(s)' /\ Aimed(s)'
    BY <2>1, <2>3 DEF Belongs, Aimed, GotoWith, TypeOK, ActiveAt, Born, dbVars
  <2>4. ASSUME Goto(s, "count"), UNCHANGED target
        PROVE  Belongs(s)' /\ Aimed(s)'
    BY <2>1, <2>4 DEF Belongs, Aimed, GotoWith, TypeOK
  <2>5. QED
    BY <1>2, <2>2, <2>3, <2>4, BelongsFinish DEF ScanFindActive
<1>3. CASE ScanExpire(s)
  BY <1>3 DEF ScanExpire, Belongs, Aimed, GotoWith, TypeOK, CopiesBelong
<1>4. CASE ScanCount(s)
  BY <1>4 DEF ScanCount, Belongs, Aimed, GotoWith, TypeOK, CopiesBelong
<1>5. CASE ScanAdopt(s)
  <2>1. target[s] \in Tables
    BY <1>5 DEF ScanAdopt, CopiesBelong
  <2>2. ASSUME NEW i \in ActiveAt(target[s]), UNCHANGED <<dbVars, target>>,
               GotoWith(s, "build", i, Unborn)
        PROVE  Belongs(s)' /\ Aimed(s)'
    BY <2>1, <2>2 DEF Belongs, Aimed, GotoWith, TypeOK, ActiveAt, Born, dbVars
  <2>3. ASSUME Goto(s, "recover"), UNCHANGED target
        PROVE  Belongs(s)' /\ Aimed(s)'
    BY <2>1, <2>3 DEF Belongs, Aimed, GotoWith, TypeOK
  <2>4. QED
    BY <1>5, <2>2, <2>3 DEF ScanAdopt
<1>6. CASE ScanCreate(s)
  <2>1. target[s] \in Tables
    BY <1>6 DEF ScanCreate, CopiesBelong
  <2>2. ASSUME NEW i \in Sessions,
               sessions'[i] = [table |-> target[s], status |-> "ACTIVE", payment |-> "PENDING"],
               UNCHANGED target, GotoWith(s, "build", i, Unborn)
        PROVE  Belongs(s)' /\ Aimed(s)'
    BY <2>1, <2>2 DEF Belongs, Aimed, GotoWith, TypeOK, Born
  <2>3. ASSUME Goto(s, "recover"), UNCHANGED target
        PROVE  Belongs(s)' /\ Aimed(s)'
    BY <2>1, <2>3 DEF Belongs, Aimed, GotoWith, TypeOK
  <2>4. QED
    BY <1>6, <2>2, <2>3 DEF ScanCreate, Save, TypeOK
<1>7. CASE ScanRecover(s)
  <2>1. target[s] \in Tables
    BY <1>7 DEF ScanRecover, CopiesBelong
  <2>2. ASSUME NEW i \in ActiveAt(target[s]), UNCHANGED <<dbVars, target>>,
               GotoWith(s, "build", i, Unborn)
        PROVE  Belongs(s)' /\ Aimed(s)'
    BY <2>1, <2>2 DEF Belongs, Aimed, GotoWith, TypeOK, ActiveAt, Born, dbVars
  <2>3. QED
    BY <1>7, <2>2, BelongsFinish DEF ScanRecover
<1>8. CASE ScanBuild(s)
  BY <1>8, BelongsFinish DEF ScanBuild
<1>9. QED
  BY <1>1, <1>2, <1>3, <1>4, <1>5, <1>6, <1>7, <1>8 DEF ScanStep

\* Each step of a close leaves the close with a copy that belongs.
LEMMA CloseCopies ==
    ASSUME TypeOK, CopiesBelong, [Next]_vars, NEW c \in Closes, CloseStep(c)
    PROVE  Belongs(c)'
<1> USE DEF Goto, Fail, Requests
<1>1. CASE CloseFind(c)
  <2>1. ASSUME NEW i \in Born, NEW label, GotoWith(c, label, i, sessions[i]),
               UNCHANGED sessions
        PROVE  Belongs(c)'
    BY <2>1 DEF Belongs, GotoWith, TypeOK, Born
  <2>2. QED
    BY <1>1, <2>1, BelongsFinish DEF CloseFind, dbVars
<1>2. CASE CloseTally(c)
  <2>1. ASSUME Goto(c, "tallied"), UNCHANGED sessions, pc[c] = "tally"
        PROVE  Belongs(c)'
    BY <2>1 DEF Belongs, GotoWith, TypeOK, CopiesBelong, Born
  <2>2. QED
    BY <1>2, <2>1, BelongsFinish DEF CloseTally, dbVars
<1>3. CASE CloseSave(c)
  BY <1>3, BelongsFinish DEF CloseSave
<1>4. QED
  BY <1>1, <1>2, <1>3 DEF CloseStep

\* Each step of a payment leaves the payment with a copy that belongs.
LEMMA PayCopies ==
    ASSUME TypeOK, CopiesBelong, [Next]_vars, NEW p \in Payments, PayStep(p)
    PROVE  Belongs(p)'
<1> USE DEF Fail, Requests
<1>1. CASE PayFind(p)
  <2>1. ASSUME NEW i \in Born, NEW v, UNCHANGED sessions,
               GotoWith(p, "pay", i, [sessions[i] EXCEPT !.payment = v])
        PROVE  Belongs(p)'
    <3>1. sessions[i] \in Row
      BY DEF TypeOK, Born
    <3>2. QED
      BY <2>1, <3>1 DEF Belongs, GotoWith, TypeOK, Born, Row
  <2>2. QED
    BY <1>1, <2>1, BelongsFinish DEF PayFind, dbVars
<1>2. CASE PaySave(p)
  BY <1>2, BelongsFinish DEF PaySave
<1>3. QED
  BY <1>1, <1>2 DEF PayStep

\* A step of one worker leaves the locals of all others alone.
LEMMA OthersKept ==
    ASSUME TypeOK, NEW r \in Requests,
           \/ r \in Scans /\ ScanStep(r)
           \/ r \in Closes /\ CloseStep(r)
           \/ r \in Payments /\ PayStep(r),
           NEW q \in Requests, q # r
    PROVE  /\ pc'[q] = pc[q] /\ held'[q] = held[q] /\ copy'[q] = copy[q]
           /\ q \in Scans => target'[q] = target[q]
<1> USE DEF GotoWith, Finish, Goto, Fail, TypeOK
<1>1. CASE r \in Scans /\ ScanStep(r)
  BY <1>1 DEF ScanStep, ScanFindTable, ScanFindActive, ScanExpire, ScanCount,
              ScanAdopt, ScanCreate, ScanRecover, ScanBuild
<1>2. CASE r \in Closes /\ CloseStep(r)
  BY <1>2 DEF CloseStep, CloseFind, CloseTally, CloseSave
<1>3. CASE r \in Payments /\ PayStep(r)
  BY <1>3 DEF PayStep, PayFind, PaySave
<1>4. QED
  BY <1>1, <1>2, <1>3

\* Putting these together: a step preserves CopiesBelong.
LEMMA CopiesStep ==
    ASSUME TypeOK, CopiesBelong, [Next]_vars
    PROVE  CopiesBelong'
<1>1. /\ \A r \in Requests : Belongs(r)'
      /\ \A s \in Scans : Aimed(s)'
  <2>1. CASE UNCHANGED <<pc, held, copy, target>>
    BY <2>1, BelongsKept, AimedKept DEF Requests
  <2>2. ASSUME NEW r \in Scans, ScanStep(r)
        PROVE  /\ \A q \in Requests : Belongs(q)'
               /\ \A s \in Scans : Aimed(s)'
    BY <2>2, ScanCopies, OthersKept, BelongsKept, AimedKept DEF Requests
  <2>3. ASSUME NEW r \in Closes, CloseStep(r)
        PROVE  /\ \A q \in Requests : Belongs(q)'
               /\ \A s \in Scans : Aimed(s)'
    BY <2>3, CloseCopies, OthersKept, BelongsKept, AimedKept, SessionsAssumption
       DEF Requests
  <2>4. ASSUME NEW r \in Payments, PayStep(r)
        PROVE  /\ \A q \in Requests : Belongs(q)'
               /\ \A s \in Scans : Aimed(s)'
    BY <2>4, PayCopies, OthersKept, BelongsKept, AimedKept, SessionsAssumption
       DEF Requests
  <2>5. QED
    BY <2>1, <2>2, <2>3, <2>4
       DEF Next, vars, Expire, OrdersChange, workerVars
<1>2. QED
  BY <1>1, RowsStep DEF CopiesBelong, Belongs, Aimed

\* The invariant holds in the empty database.
LEMMA InitIInv == Init => IInv
<1> SUFFICES ASSUME Init PROVE IInv
  OBVIOUS
<1>1. TypeOK
  BY InitTypeOK
<1>2. Born = {} /\ \A i \in Sessions : sessions[i] = Unborn
  BY DEF Init, Born, Unborn
<1>3. CopiesBelong
  BY <1>2, <1>1 DEF CopiesBelong, Init, Requests
<1>4. OneActivePerTable
  BY <1>2 DEF OneActivePerTable, Unborn
<1>5. QED
  BY <1>1, <1>3, <1>4 DEF IInv

\* The invariant is inductive.
LEMMA StepIInv == IInv /\ [Next]_vars => IInv'
  BY StepTypeOK, CopiesStep, OneActiveStep DEF IInv

\* TypeOK, CopiesBelong and OneActivePerTable hold in every reachable state.
LEMMA Invariance == Spec => []IInv
  BY InitIInv, StepIInv, PTL DEF Spec

\* However stale the structs that requests save, each of them belongs to the
\* row it will overwrite.
THEOREM CopiesAlwaysBelong == Spec => []CopiesBelong
<1>1. IInv => CopiesBelong
  BY DEF IInv
<1>2. QED
  BY <1>1, Invariance, PTL

\* No interleaving of scans, closes and payments, with any of their statements
\* failing, leaves a table with two ACTIVE sessions.
THEOREM OneActiveSession == Spec => []OneActivePerTable
<1>1. IInv => OneActivePerTable
  BY DEF IInv
<1>2. QED
  BY <1>1, Invariance, PTL

-----------------------------------------------------------------------------
(* Who changes a session, and to what.                                     *)

\* A row that changes is being created by a scan, closed by an expiring scan or a
\* close, or overwritten by a payment: the step saves that request's copy.
LEMMA WhoSaves ==
    ASSUME IInv, [Next]_vars, NEW i \in Sessions, sessions'[i] # sessions[i]
    PROVE  \/ \E s \in Scans :
                 /\ pc[s] = "expire" /\ held[s] = i
                 /\ sessions'[i] = [copy[s] EXCEPT !.status = "CLOSED"]
           \/ \E s \in Scans :
                 /\ pc[s] = "create" /\ i \notin Born
                 /\ sessions'[i] = [table |-> target[s], status |-> "ACTIVE",
                                    payment |-> "PENDING"]
           \/ \E c \in Closes :
                 /\ pc[c] \in {"tallied", "forced"} /\ held[c] = i
                 /\ sessions'[i] = [copy[c] EXCEPT !.status = "CLOSED"]
           \/ \E p \in Payments :
                 pc[p] = "pay" /\ held[p] = i /\ sessions'[i] = copy[p]
<1> USE DEF IInv, TypeOK, Save
<1>1. CASE \E s \in Scans : ScanStep(s)
  <2>1. PICK s \in Scans : ScanStep(s)
    BY <1>1
  <2>2. CASE ScanExpire(s)
    BY <2>2 DEF ScanExpire
  <2>3. CASE ScanCreate(s)
    BY <2>3 DEF ScanCreate
  <2>4. QED
    BY <2>1, <2>2, <2>3 DEF ScanStep, ScanFindTable, ScanFindActive, ScanCount,
                            ScanAdopt, ScanRecover, ScanBuild, dbVars
<1>2. CASE \E c \in Closes : CloseStep(c)
  BY <1>2 DEF CloseStep, CloseFind, CloseTally, CloseSave, dbVars
<1>3. CASE \E p \in Payments : PayStep(p)
  BY <1>3 DEF PayStep, PayFind, PaySave, dbVars
<1>4. QED
  BY <1>1, <1>2, <1>3 DEF Next, vars, Expire, OrdersChange

\* A step that reopens a session is the save of a payment that read it ACTIVE.
LEMMA ReopenStep ==
    ASSUME IInv, [Next]_vars, NEW i \in Sessions,
           sessions[i].status = "CLOSED", sessions'[i].status # "CLOSED"
    PROVE  \E p \in Payments :
              pc[p] = "pay" /\ held[p] = i /\ copy[p].status = "ACTIVE"
<1>1. i \in Born
  BY DEF Born
<1>2. \A r \in Requests : copy[r] \in Row
  BY DEF IInv, TypeOK
<1>3. \A r \in Requests : [copy[r] EXCEPT !.status = "CLOSED"].status = "CLOSED"
  BY <1>2 DEF Row
<1>4. PICK p \in Payments : pc[p] = "pay" /\ held[p] = i /\ sessions'[i] = copy[p]
  <2>1. ~ \E r \in Requests : sessions'[i] = [copy[r] EXCEPT !.status = "CLOSED"]
    BY <1>3
  <2>2. QED
    BY <1>1, <2>1, WhoSaves DEF Requests
<1>5. copy[p].status # "NONE"
  BY <1>4 DEF IInv, CopiesBelong, Requests
<1>6. copy[p] \in Row
  BY <1>2 DEF Requests
<1>7. copy[p].status = "ACTIVE"
  BY <1>4, <1>5, <1>6 DEF Row
<1>8. QED
  BY <1>4, <1>7

\* A CLOSED session comes back only through the stale copy of a payment.
THEOREM OnlyPaymentsReopen == Spec => ReopenedOnlyByPayment
<1>1. ASSUME IInv, [Next]_vars
      PROVE  [\A i \in Sessions :
                 sessions[i].status = "CLOSED" /\ sessions'[i].status # "CLOSED"
                 => \E p \in Payments :
                       pc[p] = "pay" /\ held[p] = i /\ copy[p].status = "ACTIVE"]_vars
  BY <1>1, ReopenStep
<1>2. QED
  BY <1>1, Invariance, PTL DEF Spec, ReopenedOnlyByPayment

\* A scan ends a session only when it has expired.
THEOREM NoScanEndsLiveSession == Spec => ClosedOnlyOnPurpose
<1>1. ASSUME IInv, [Next]_vars
      PROVE  [\A i \in Sessions :
                 sessions[i].status = "ACTIVE" /\ sessions'[i].status # "ACTIVE"
                 => \/ i \in expired
                    \/ \E c \in Closes : pc[c] \in {"tallied", "forced"} /\ held[c] = i
                    \/ \E p \in Payments :
                          pc[p] = "pay" /\ held[p] = i /\ copy[p].status = "CLOSED"]_vars
  <2> SUFFICES ASSUME NEW i \in Sessions,
                      sessions[i].status = "ACTIVE", sessions'[i].status # "ACTIVE"
               PROVE  \/ i \in expired
                      \/ \E c \in Closes : pc[c] \in {"tallied", "forced"} /\ held[c] = i
                      \/ \E p \in Payments :
                            pc[p] = "pay" /\ held[p] = i /\ copy[p].status = "CLOSED"
    OBVIOUS
  <2>1. CASE \E s \in Scans : pc[s] = "expire" /\ held[s] = i
    BY <1>1, <2>1 DEF IInv, CopiesBelong
  <2>2. CASE \E p \in Payments : pc[p] = "pay" /\ held[p] = i /\ sessions'[i] = copy[p]
    <3>1. PICK p \in Payments : pc[p] = "pay" /\ held[p] = i /\ sessions'[i] = copy[p]
      BY <2>2
    <3>2. copy[p].status # "NONE" /\ copy[p] \in Row
      BY <1>1, <3>1 DEF IInv, CopiesBelong, TypeOK, Requests
    <3>3. QED
      BY <3>1, <3>2 DEF Row
  <2>3. QED
    BY <1>1, <2>1, <2>2, WhoSaves DEF Born
<1>2. QED
  BY <1>1, Invariance, PTL DEF Spec, ClosedOnlyOnPurpose

\* The payment of a session changes only to what a request read or was told.
THEOREM PaymentsExplained == Spec => PaymentChangesExplained
<1>1. ASSUME IInv, [Next]_vars
      PROVE  [\A i \in Sessions :
                 sessions'[i].payment # sessions[i].payment
                 => \E r \in Requests :
                       /\ pc[r] \in {"pay", "tallied", "forced", "expire"}
                       /\ held[r] = i
                       /\ copy[r].payment = sessions'[i].payment]_vars
  <2> SUFFICES ASSUME NEW i \in Sessions, sessions'[i].payment # sessions[i].payment
               PROVE  \E r \in Requests :
                         /\ pc[r] \in {"pay", "tallied", "forced", "expire"}
                         /\ held[r] = i
                         /\ copy[r].payment = sessions'[i].payment
    OBVIOUS
  <2>1. \A r \in Requests :
            [copy[r] EXCEPT !.status = "CLOSED"].payment = copy[r].payment
    BY <1>1 DEF IInv, TypeOK, Row
  <2>2. i \notin Born => sessions[i].payment = "PENDING"
    BY <1>1 DEF IInv, CopiesBelong, Unborn
  <2>3. ~ \E s \in Scans :
            /\ pc[s] = "create" /\ i \notin Born
            /\ sessions'[i] = [table |-> target[s], status |-> "ACTIVE",
                               payment |-> "PENDING"]
    <3>1. ASSUME NEW s \in Scans, i \notin Born,
                 sessions'[i] = [table |-> target[s], status |-> "ACTIVE",
                                payment |-> "PENDING"]
          PROVE  FALSE
      <4>1. sessions'[i].payment = "PENDING"
        BY <3>1
      <4>2. QED
        BY <2>2, <3>1, <4>1
    <3>2. QED
      BY <3>1
  <2>4. CASE \E r \in Requests :
                 /\ pc[r] \in {"tallied", "forced", "expire"} /\ held[r] = i
                 /\ sessions'[i] = [copy[r] EXCEPT !.status = "CLOSED"]
    BY <2>1, <2>4
  <2>5. CASE \E p \in Payments :
                 pc[p] = "pay" /\ held[p] = i /\ sessions'[i] = copy[p]
    BY <2>5 DEF Requests
  <2>6. QED
    BY <1>1, <2>3, <2>4, <2>5, WhoSaves DEF Requests
<1>2. QED
  BY <1>1, Invariance, PTL DEF Spec, PaymentChangesExplained

-----------------------------------------------------------------------------
(* Answers of scans.                                                       *)

\* A step that answers a scan names a session of the table it scanned.
LEMMA AnswerStep ==
    ASSUME IInv, ScanAnswersOwnTable, [Next]_vars
    PROVE  ScanAnswersOwnTable'
<1>1. CASE UNCHANGED <<reply, target>>
  BY <1>1, Kept DEF IInv, ScanAnswersOwnTable
<1>2. CASE reply'.code # "ok"
  BY <1>2 DEF ScanAnswersOwnTable
<1>3. ASSUME NEW r \in Closes \union Payments, reply'.to = r
      PROVE  ScanAnswersOwnTable'
  BY <1>3, SessionsAssumption DEF ScanAnswersOwnTable
<1>4. ASSUME NEW s \in Scans, ScanBuild(s), Finish(s, "ok", held[s])
      PROVE  ScanAnswersOwnTable'
  <2>1. held[s] \in Born /\ sessions[held[s]].table = target[s]
    BY <1>4 DEF IInv, CopiesBelong, ScanBuild
  <2>2. UNCHANGED <<sessions, target>> /\ reply'.to = s /\ reply'.session = held[s]
    BY <1>4 DEF ScanBuild, dbVars, Finish
  <2>3. QED
    BY <2>1, <2>2 DEF ScanAnswersOwnTable, Born
<1>5. ASSUME NEW r, NEW i, NEW code, code # "ok", Finish(r, code, i)
      PROVE  reply'.code # "ok"
  BY <1>5 DEF Finish
<1>6. ASSUME NEW r, NEW label, NEW i, NEW row, GotoWith(r, label, i, row)
      PROVE  reply'.code # "ok"
  BY <1>6 DEF GotoWith, NoReply
<1>7. ASSUME NEW r, NEW i, NEW code, Finish(r, code, i)
      PROVE  reply'.to = r
  BY <1>7 DEF Finish
<1>8. ASSUME NEW s \in Scans, ScanStep(s)
      PROVE  ScanAnswersOwnTable'
  BY <1>8, <1>2, <1>4, <1>5, <1>6
     DEF ScanStep, ScanFindTable, ScanFindActive, ScanExpire, ScanCount, ScanAdopt,
         ScanCreate, ScanRecover, ScanBuild, Goto, Fail
<1>9. ASSUME NEW c \in Closes, CloseStep(c)
      PROVE  ScanAnswersOwnTable'
  BY <1>9, <1>2, <1>3, <1>5, <1>6, <1>7
     DEF CloseStep, CloseFind, CloseTally, CloseSave, Goto, Fail
<1>10. ASSUME NEW p \in Payments, PayStep(p)
       PROVE  ScanAnswersOwnTable'
  BY <1>10, <1>2, <1>3, <1>5, <1>6, <1>7 DEF PayStep, PayFind, PaySave, Fail
<1>11. QED
  BY <1>1, <1>8, <1>9, <1>10 DEF Next, vars, Expire, OrdersChange, workerVars

\* The token a scan answers with was issued for the table it scanned, whichever
\* of the found, adopted, created or recovered session it is.
THEOREM ScansAnswerOwnTable == Spec => []ScanAnswersOwnTable
<1>1. Init => ScanAnswersOwnTable
  BY DEF Init, ScanAnswersOwnTable, NoReply
<1>2. IInv /\ ScanAnswersOwnTable /\ [Next]_vars => ScanAnswersOwnTable'
  BY AnswerStep
<1>3. QED
  BY <1>1, <1>2, Invariance, PTL DEF Spec

-----------------------------------------------------------------------------
(* What scans owe: ScanHistory.                                            *)

\* What a scan has to replace had expired when it began; what it is about to answer
\* with had not; and once it has searched, the ACTIVE session of its table is not
\* one to replace, unless it is about to save that one.
Searched == {"expire", "count", "adopt", "create", "recover", "build"}

Owes(s) ==
    /\ owed[s] \subseteq expired
    /\ pc[s] = "build" => held[s] \notin owed[s]
    /\ pc[s] \in Searched
       => \A i \in owed[s] \intersect ActiveAt(target[s]) : pc[s] = "expire" /\ held[s] = i

Owing == expired \subseteq Born /\ \A s \in Scans : Owes(s)

\* How a scan goes on.
LEMMA ScanMove ==
    ASSUME IInv, NEW s \in Scans, ScanStep(s)
    PROVE  /\ pc[s] # "idle" => target' = target
           /\ \/ pc'[s] = "idle"
              \/ pc[s] = "idle" /\ pc'[s] = "find"
              \/ pc[s] = "find" /\ pc'[s] = "expire" /\ held'[s] \in ActiveAt(target[s])
              \/ pc[s] = "find" /\ pc'[s] = "build" /\ held'[s] \in ActiveAt(target[s]) \ expired
              \/ pc[s] = "find" /\ pc'[s] = "count" /\ ActiveAt(target[s]) = {}
              \/ pc[s] = "expire" /\ pc'[s] = "count"
              \/ pc[s] = "count" /\ pc'[s] \in {"adopt", "create", "recover"}
              \/ pc[s] \in {"adopt", "create"} /\ pc'[s] = "recover"
              \/ pc[s] = "adopt" /\ pc'[s] = "build" /\ held'[s] \in ActiveAt(target[s])
              \/ pc[s] = "create" /\ pc'[s] = "build" /\ held'[s] \notin Born
              \/ pc[s] = "recover" /\ pc'[s] = "build" /\ held'[s] \notin expired
           /\ reply'.code = "expired"
              => \/ pc[s] = "recover" /\ reply'.session \in ActiveAt(target[s])
                 \/ pc[s] = "build" /\ reply'.session = held[s]
<1> USE DEF IInv, TypeOK, Requests, Goto, GotoWith, Fail, Finish, NoReply
<1>1. CASE ScanFindTable(s)
  BY <1>1 DEF ScanFindTable
<1>2. CASE ScanFindActive(s)
  BY <1>2 DEF ScanFindActive
<1>3. CASE ScanExpire(s)
  BY <1>3 DEF ScanExpire
<1>4. CASE ScanCount(s)
  BY <1>4 DEF ScanCount
<1>5. CASE ScanAdopt(s)
  BY <1>5 DEF ScanAdopt
<1>6. CASE ScanCreate(s)
  BY <1>6 DEF ScanCreate
<1>7. CASE ScanRecover(s)
  BY <1>7 DEF ScanRecover
<1>8. CASE ScanBuild(s)
  BY <1>8 DEF ScanBuild
<1>9. QED
  BY <1>1, <1>2, <1>3, <1>4, <1>5, <1>6, <1>7, <1>8 DEF ScanStep

\* A scan that takes no step keeps its locals.
LEMMA ScanRests ==
    ASSUME IInv, [Next]_vars, NEW s \in Scans, ~ScanStep(s)
    PROVE  pc'[s] = pc[s] /\ held'[s] = held[s] /\ target'[s] = target[s]
<1>1. ASSUME NEW r \in Requests, r # s,
             \/ r \in Scans /\ ScanStep(r)
             \/ r \in Closes /\ CloseStep(r)
             \/ r \in Payments /\ PayStep(r)
      PROVE  pc'[s] = pc[s] /\ held'[s] = held[s] /\ target'[s] = target[s]
  BY <1>1, OthersKept DEF IInv, Requests
<1>2. CASE UNCHANGED workerVars
  BY <1>2 DEF workerVars
<1>3. QED
  BY <1>1, <1>2, SessionsAssumption DEF Next, vars, Requests, Expire, OrdersChange, workerVars

\* An ACTIVE session that is still owed after a step was ACTIVE before it, at the
\* same table: one that comes back is no longer owed.
LEMMA StillOwed ==
    ASSUME IInv, Owing, HistoryNext, NEW s \in Scans,
           ~(pc[s] = "idle" /\ pc'[s] # "idle"), NEW i \in owed'[s]
    PROVE  /\ i \in owed[s] /\ i \notin Spared(s)
           /\ \A t \in Tables : i \in ActiveAt(t)' => i \in ActiveAt(t)
<1>1. i \in owed[s] \ (Reopened \union Spared(s)) /\ [Next]_vars
  BY DEF HistoryNext
<1>2. i \in Born /\ i \in Sessions /\ sessions[i] \in Row
  BY <1>1 DEF Owing, Owes, Born, IInv, TypeOK
<1>3. sessions'[i].table = sessions[i].table
  BY <1>1, <1>2, Kept DEF IInv
<1>4. sessions'[i].status = "ACTIVE" => sessions[i].status = "ACTIVE"
  BY <1>1, <1>2 DEF Reopened, Born, Row
<1>5. QED
  BY <1>1, <1>3, <1>4 DEF ActiveAt

\* A step preserves Owing.
LEMMA StepOwing ==
    ASSUME IInv, Owing, [HistoryNext]_<<vars, owed>>
    PROVE  Owing'
<1>1. CASE UNCHANGED <<vars, owed>>
  BY <1>1 DEF vars, Owing, Owes, Born, ActiveAt
<1>2. CASE HistoryNext
  <2>1. [Next]_vars
    BY <1>2 DEF HistoryNext
  <2>2. expired \subseteq expired' /\ expired' \subseteq Born'
    BY <2>1, ExpiredGrows, Kept DEF IInv, Owing
  <2>3. ASSUME NEW s \in Scans PROVE Owes(s)'
    <3>1. CASE pc[s] = "idle" /\ pc'[s] # "idle"
      <4>1. owed'[s] = expired
        BY <1>2, <3>1 DEF HistoryNext
      <4>2. pc'[s] = "find"
        BY <2>1, <3>1, ScanMove, ScanRests
      <4>3. QED
        BY <2>2, <4>1, <4>2 DEF Owes, Searched
    <3>2. CASE ~(pc[s] = "idle" /\ pc'[s] # "idle")
      <4>1. owed'[s] \subseteq owed[s] /\ owed'[s] \subseteq expired'
        BY <1>2, <2>2, <3>2, StillOwed DEF Owing, Owes
      <4>2. ASSUME pc'[s] # "idle"
            PROVE  /\ target'[s] = target[s] /\ target[s] \in Tables
                   /\ \A i \in owed'[s] \intersect ActiveAt(target[s])' :
                         i \in owed[s] \intersect ActiveAt(target[s]) /\ i \notin Spared(s)
        <5>1. pc[s] # "idle"
          BY <3>2, <4>2
        <5>2. target'[s] = target[s] /\ target[s] \in Tables
          BY <2>1, <5>1, ScanMove, ScanRests DEF IInv, CopiesBelong
        <5>3. QED
          BY <1>2, <3>2, <5>2, StillOwed
      <4>3. CASE ~ScanStep(s)
        <5>1. pc'[s] = pc[s] /\ held'[s] = held[s]
          BY <2>1, <4>3, ScanRests
        <5>2. QED
          BY <4>1, <4>2, <5>1 DEF Owing, Owes, Searched
      <4>4. CASE ScanStep(s) /\ pc[s] = "find"
        <5>1. \A i, j \in ActiveAt(target[s]) : i = j
          BY DEF IInv, OneActivePerTable, ActiveAt
        <5>2. QED
          BY <4>1, <4>2, <4>4, <5>1, ScanMove DEF Owing, Owes, Searched
      <4>5. CASE ScanStep(s) /\ pc[s] = "expire"
        <5>1. pc'[s] = "idle" \/ pc'[s] = "count"
          BY <4>5, ScanMove
        <5>2. ASSUME pc'[s] = "count",
                     NEW i \in owed'[s] \intersect ActiveAt(target[s])'
              PROVE  FALSE
          <6>1. i = held[s] /\ i \notin Spared(s)
            BY <4>2, <4>5, <5>2 DEF Owing, Owes, Searched
          <6>2. QED
            BY <4>5, <5>2, <6>1 DEF Spared, ActiveAt
        <5>3. QED
          BY <4>1, <4>2, <5>1, <5>2 DEF Owes, Searched
      <4>6. CASE ScanStep(s) /\ pc[s] \notin {"find", "expire"}
        <5>1. pc[s] \in Searched => owed[s] \intersect ActiveAt(target[s]) = {}
          BY <4>6 DEF Owing, Owes
        <5>2. owed[s] \subseteq Born
          BY DEF Owing, Owes
        <5>3. QED
          BY <3>2, <4>1, <4>2, <4>6, <5>1, <5>2, ScanMove DEF Owing, Owes, Searched
      <4>7. QED
        BY <4>3, <4>4, <4>5, <4>6
    <3>3. QED
      BY <3>1, <3>2
  <2>4. QED
    BY <2>2, <2>3 DEF Owing
<1>3. QED
  BY <1>1, <1>2

\* Only a step of the scan itself answers it.
LEMMA WhoReplies ==
    ASSUME IInv, [Next]_vars, NEW s \in Scans,
           reply' # reply, reply'.to = s, reply'.code = "expired"
    PROVE  ScanStep(s)
<1> USE DEF Goto, GotoWith, Fail, Finish, NoReply
<1>1. ASSUME NEW r \in Scans, ScanStep(r) PROVE r = s
  BY <1>1 DEF ScanStep, ScanFindTable, ScanFindActive, ScanExpire, ScanCount, ScanAdopt,
              ScanCreate, ScanRecover, ScanBuild
<1>2. ASSUME NEW c \in Closes, CloseStep(c) PROVE FALSE
  BY <1>2 DEF CloseStep, CloseFind, CloseTally, CloseSave
<1>3. ASSUME NEW p \in Payments, PayStep(p) PROVE FALSE
  BY <1>3 DEF PayStep, PayFind, PaySave
<1>4. QED
  BY <1>1, <1>2, <1>3 DEF Next, vars, Expire, OrdersChange, workerVars

\* A step that answers a scan with an expired session does not name one it owed.
LEMMA StepReplaces ==
    ASSUME IInv, Owing, ScanReplacesExpiredSession, [HistoryNext]_<<vars, owed>>
    PROVE  ScanReplacesExpiredSession'
<1>1. CASE UNCHANGED <<vars, owed>>
  BY <1>1 DEF vars, ScanReplacesExpiredSession
<1>2. ASSUME HistoryNext, NEW s \in Scans, reply'.to = s, reply'.code = "expired"
      PROVE  reply'.session \notin owed'[s]
  <2>1. [Next]_vars
    BY <1>2 DEF HistoryNext
  <2>2. CASE reply' = reply
    <3>1. pc[s] = "idle" => pc'[s] = "idle"
      <4>1. ASSUME pc[s] = "idle", pc'[s] # "idle" PROVE FALSE
        <5>1. ScanFindTable(s) /\ reply' = NoReply
          BY <2>1, <4>1, ScanRests
             DEF ScanStep, ScanFindTable, ScanFindActive, ScanExpire, ScanCount, ScanAdopt,
                 ScanCreate, ScanRecover, ScanBuild, IInv, TypeOK, Requests, Fail, Finish, GotoWith
        <5>2. QED
          BY <1>2, <5>1 DEF NoReply
      <4>2. QED
        BY <4>1
    <3>2. owed'[s] \subseteq owed[s]
      BY <1>2, <3>1 DEF HistoryNext
    <3>3. QED
      BY <1>2, <2>2, <3>2 DEF ScanReplacesExpiredSession
  <2>3. CASE reply' # reply
    <3>1. ScanStep(s)
      BY <1>2, <2>1, <2>3, WhoReplies
    <3>2. \/ pc[s] = "recover" /\ reply'.session \in ActiveAt(target[s])
          \/ pc[s] = "build" /\ reply'.session = held[s]
      BY <1>2, <3>1, ScanMove
    <3>3. reply'.session \notin owed[s]
      BY <3>2 DEF Owing, Owes, Searched
    <3>4. QED
      BY <1>2, <3>2, <3>3, StillOwed
  <2>4. QED
    BY <2>2, <2>3
<1>3. QED
  BY <1>1, <1>2 DEF ScanReplacesExpiredSession

\* A scan replaces the expired session of its table: it is turned away over a session
\* that had expired before it began only if its own save failed or a payment brought
\* the session back.
THEOREM ScansReplaceExpired == HistorySpec => []ScanReplacesExpiredSession
<1>1. HistoryInit => IInv /\ Owing /\ ScanReplacesExpiredSession
  BY InitIInv DEF HistoryInit, Init, Owing, Owes, ScanReplacesExpiredSession, NoReply,
     Requests, Searched
<1>2. IInv /\ Owing /\ ScanReplacesExpiredSession /\ [HistoryNext]_<<vars, owed>>
      => (IInv /\ Owing /\ ScanReplacesExpiredSession)'
  <2>1. [HistoryNext]_<<vars, owed>> => [Next]_vars
    BY DEF HistoryNext
  <2>2. QED
    BY <2>1, StepIInv, StepOwing, StepReplaces
<1>3. QED
  BY <1>1, <1>2, PTL DEF HistorySpec

-----------------------------------------------------------------------------
(* The refinement of Occupancy.                                            *)

\* Occupied is what its CHOOSE is meant to be.
OccupiedFits ==
    \A t \in Tables :
        /\ ActiveAt(t) = {} => Occupied[t] = Nil
        /\ \A i \in ActiveAt(t) : Occupied[t] = i

\* The CHOOSE in Occupied picks the only ACTIVE session of the table.
LEMMA OccupiedFacts == IInv => OccupiedFits
<1> SUFFICES ASSUME IInv, NEW t \in Tables
             PROVE  /\ ActiveAt(t) = {} => Occupied[t] = Nil
                    /\ \A i \in ActiveAt(t) : Occupied[t] = i
  BY DEF OccupiedFits
<1>1. ASSUME NEW i \in ActiveAt(t) PROVE Occupied[t] = i
  <2>1. ActiveAt(t) = {i}
    BY <1>1 DEF IInv, OneActivePerTable, ActiveAt
  <2>2. i \in Sessions
    BY DEF ActiveAt
  <2>3. (CHOOSE j \in Sessions : ActiveAt(t) = {j}) = i
    BY <2>1, <2>2
  <2>4. QED
    BY <2>1, <2>3 DEF Occupied
<1>2. QED
  BY <1>1 DEF Occupied

\* The same about the next state.
LEMMA OccupiedFactsPrimed == IInv' => OccupiedFits'
  BY OccupiedFacts, PTL

\* What saving row as session k does to each table's occupant and past.
LEMMA SaveEffect ==
    ASSUME TypeOK, NEW k \in Sessions, NEW row \in Row, Save(k, row), NEW t \in Tables
    PROVE  /\ ActiveAt(t)' = IF row.table = t /\ row.status = "ACTIVE"
                             THEN ActiveAt(t) \union {k} ELSE ActiveAt(t) \ {k}
           /\ Left'[t] = IF row.table = t /\ row.status = "CLOSED"
                         THEN Left[t] \union {k} ELSE Left[t] \ {k}
  BY DEF ActiveAt, Left, Save, TypeOK

\* A session the tables know of has been created.
LEMMA KnownBorn == IInv => Abstract!Known \subseteq Born \union {Nil}
<1> SUFFICES ASSUME IInv PROVE Abstract!Known \subseteq Born \union {Nil}
  OBVIOUS
<1>1. \A t \in Tables : Left[t] \subseteq Born
  BY DEF Left, Born
<1>2. \A t \in Tables : Occupied[t] \in Born \union {Nil}
  BY OccupiedFacts DEF OccupiedFits, ActiveAt, Born
<1>3. QED
  BY <1>1, <1>2 DEF Abstract!Known

\* Every step maps to a step of Occupancy, or changes nothing of it.
LEMMA RefinementStep ==
    ASSUME IInv, IInv', [Next]_vars
    PROVE  [Abstract!OccNext]_(Abstract!occVars)
<1>1. CASE UNCHANGED sessions
  BY <1>1 DEF Abstract!occVars, Occupied, Left, ActiveAt
<1>2. ASSUME NEW k \in Sessions, NEW row \in Row, Save(k, row), Storable(k, row)
      PROVE  [Abstract!OccNext]_(Abstract!occVars)
  <2> DEFINE t0 == row.table
  <2>1. OccupiedFits /\ OccupiedFits'
    BY OccupiedFacts, OccupiedFactsPrimed
  <2>2. t0 \in Tables /\ k # Nil /\ Nil \notin Tables
    BY <1>2, SessionsAssumption DEF Storable
  <2>3. \A t \in Tables :
           /\ ActiveAt(t)' = IF t0 = t /\ row.status = "ACTIVE"
                             THEN ActiveAt(t) \union {k} ELSE ActiveAt(t) \ {k}
           /\ Left'[t] = IF t0 = t /\ row.status = "CLOSED"
                         THEN Left[t] \union {k} ELSE Left[t] \ {k}
    BY <1>2, SaveEffect DEF IInv
  <2>4. \A t \in Tables \ {t0} : k \notin ActiveAt(t) /\ k \notin Left[t]
    BY <1>2, <2>2 DEF Storable, IInv, CopiesBelong, Unborn, ActiveAt, Left, Born
  <2>5. \A t \in Tables \ {t0} : Occupied'[t] = Occupied[t] /\ Left'[t] = Left[t]
    <3>1. \A t \in Tables \ {t0} : ActiveAt(t)' = ActiveAt(t) /\ Left'[t] = Left[t]
      BY <2>3, <2>4
    <3>2. QED
      BY <3>1, <2>1 DEF OccupiedFits
  <2>6. /\ Occupied = [t \in Tables |-> Occupied[t]]
        /\ Occupied' = [t \in Tables |-> Occupied'[t]]
        /\ Left = [t \in Tables |-> Left[t]]
        /\ Left' = [t \in Tables |-> Left'[t]]
    BY DEF Occupied, Left
  <2>7. /\ row.status = "ACTIVE" => ActiveAt(t0) \subseteq {k}
        /\ k \in Born => sessions[k].table = t0
        /\ k \notin Born => row.status = "ACTIVE"
        /\ row.status \in {"ACTIVE", "CLOSED"}
        /\ sessions[k].status \in {"NONE", "ACTIVE", "CLOSED"}
    BY <1>2 DEF Storable, IndexAdmits, IInv, TypeOK, Row
  <2>8. row.status = "ACTIVE" => Occupied'[t0] = k
    BY <2>1, <2>2, <2>3 DEF OccupiedFits
  <2>9. /\ sessions[k].status = "ACTIVE" => k \in ActiveAt(t0)
        /\ sessions[k].status # "ACTIVE" => k \notin ActiveAt(t0)
        /\ sessions[k].status = "CLOSED" => k \in Left[t0]
        /\ sessions[k].status # "CLOSED" => k \notin Left[t0]
    BY <2>2, <2>7 DEF ActiveAt, Left, Born
  <2>10. row.status = "ACTIVE" /\ sessions[k].status # "ACTIVE" => Occupied[t0] = Nil
    BY <2>1, <2>2, <2>7, <2>9 DEF OccupiedFits
  <2>11. CASE sessions[k].status = "NONE"
    <3>1. row.status = "ACTIVE" /\ k \notin Abstract!Known
      BY <2>2, <2>7, <2>11, KnownBorn DEF Born
    <3>2. Left' = Left
      BY <2>2, <2>3, <2>5, <2>6, <2>9, <2>11, <3>1
    <3>3. Occupied' = [Occupied EXCEPT ![t0] = k]
      BY <2>2, <2>5, <2>6, <2>8, <3>1
    <3>4. Abstract!Seat(t0, k)
      BY <2>10, <2>11, <3>1, <3>2, <3>3 DEF Abstract!Seat
    <3>5. QED
      BY <2>2, <3>4 DEF Abstract!OccNext, Abstract!StrictNext
  <2>12. CASE sessions[k].status = row.status
    <3>1. Left' = Left
      BY <2>2, <2>3, <2>5, <2>6, <2>7, <2>9, <2>12
    <3>2. ActiveAt(t0)' = ActiveAt(t0)
      <4>1. ActiveAt(t0)' = IF row.status = "ACTIVE" THEN ActiveAt(t0) \union {k}
                                                    ELSE ActiveAt(t0) \ {k}
        BY <2>2, <2>3
      <4>2. k \in ActiveAt(t0) <=> row.status = "ACTIVE"
        BY <2>9, <2>12
      <4>3. QED
        BY <4>1, <4>2
    <3>3. Occupied'[t0] = Occupied[t0]
      BY <2>1, <2>2, <3>2 DEF OccupiedFits
    <3>4. Occupied' = Occupied
      BY <2>5, <2>6, <3>3
    <3>5. QED
      BY <3>1, <3>4 DEF Abstract!occVars
  <2>13. CASE sessions[k].status = "ACTIVE" /\ row.status = "CLOSED"
    <3>1. Occupied[t0] = k
      BY <2>1, <2>2, <2>9, <2>13 DEF OccupiedFits
    <3>2. ActiveAt(t0) = {k}
      BY <2>9, <2>13, <2>2, <2>7 DEF IInv, OneActivePerTable, ActiveAt
    <3>3. Occupied'[t0] = Nil
      BY <2>1, <2>2, <2>3, <2>13, <3>2 DEF OccupiedFits
    <3>4. Occupied' = [Occupied EXCEPT ![t0] = Nil]
      BY <2>2, <2>5, <2>6, <3>3
    <3>5. Left' = [Left EXCEPT ![t0] = @ \union {k}]
      BY <2>2, <2>3, <2>5, <2>6, <2>13
    <3>6. Abstract!Leave(t0)
      BY <2>2, <3>1, <3>4, <3>5 DEF Abstract!Leave
    <3>7. QED
      BY <2>2, <3>6 DEF Abstract!OccNext, Abstract!StrictNext
  <2>14. CASE sessions[k].status = "CLOSED" /\ row.status = "ACTIVE"
    <3>1. Left' = [Left EXCEPT ![t0] = @ \ {k}]
      BY <2>2, <2>3, <2>5, <2>6, <2>14
    <3>2. Occupied' = [Occupied EXCEPT ![t0] = k]
      BY <2>2, <2>5, <2>6, <2>8, <2>14
    <3>3. Abstract!Reseat(t0, k)
      BY <2>9, <2>10, <2>14, <3>1, <3>2 DEF Abstract!Reseat
    <3>4. QED
      BY <2>2, <3>3 DEF Abstract!OccNext
  <2>15. QED
    BY <2>7, <2>11, <2>12, <2>13, <2>14
<1>3. QED
  BY <1>1, <1>2, StepSaves DEF Saves, IInv

\* The empty database maps to free tables without a past.
LEMMA RefinementInit == Init => Abstract!OccInit
<1> SUFFICES ASSUME Init PROVE Abstract!OccInit
  OBVIOUS
<1>1. \A t \in Tables : ActiveAt(t) = {} /\ Left[t] = {}
  BY DEF Init, Unborn, ActiveAt, Left
<1>2. QED
  BY <1>1 DEF Abstract!OccInit, Occupied, Left

\* Whatever scans, closes and payments interleave, a table is only ever given
\* to a new session, left by its session, or given back to a session that left
\* it: Sessions implements Occupancy.
THEOREM SessionsImplementOccupancy == Spec => ImplementsOccupancy
<1>1. Init => Abstract!OccInit
  BY RefinementInit
<1>2. IInv /\ IInv' /\ [Next]_vars => [Abstract!OccNext]_(Abstract!occVars)
  BY RefinementStep
<1>3. QED
  BY <1>1, <1>2, Invariance, PTL DEF Spec, ImplementsOccupancy, Abstract!Promise

\* Without payment requests no step is a Reseat.
LEMMA StrictStep ==
    ASSUME Payments = {}, IInv, IInv', [Next]_vars
    PROVE  [Abstract!StrictNext]_(Abstract!occVars)
<1>1. ASSUME NEW t \in Tables, NEW i \in Sessions, Abstract!Reseat(t, i)
      PROVE  FALSE
  <2>1. sessions[i].status = "CLOSED"
    BY <1>1 DEF Abstract!Reseat, Left
  <2>2. Occupied'[t] = i
    BY <1>1 DEF Abstract!Reseat, Occupied
  <2>3. i # Nil
    BY SessionsAssumption
  <2>4. ActiveAt(t)' # {}
    BY <2>2, <2>3, OccupiedFactsPrimed DEF OccupiedFits
  <2>5. i \in ActiveAt(t)'
    BY <2>2, <2>4, OccupiedFactsPrimed DEF OccupiedFits
  <2>6. sessions'[i].status = "ACTIVE"
    BY <2>5 DEF ActiveAt
  <2>7. QED
    BY <2>1, <2>6, ReopenStep
<1>2. QED
  BY <1>1, RefinementStep DEF Abstract!OccNext

\* A deployment that never records payments keeps the stricter promise: a
\* session that has left its table never comes back.
THEOREM NoPaymentsNoReseat == Payments = {} => (Spec => ImplementsStrictOccupancy)
<1>1. Init => Abstract!OccInit
  BY RefinementInit
<1>2. Payments = {} => (IInv /\ IInv' /\ [Next]_vars => [Abstract!StrictNext]_(Abstract!occVars))
  BY StrictStep
<1>3. ASSUME Payments = {} PROVE Spec => ImplementsStrictOccupancy
  <2>1. IInv /\ IInv' /\ [Next]_vars => [Abstract!StrictNext]_(Abstract!occVars)
    BY <1>2, <1>3
  <2>2. QED
    BY <1>1, <2>1, Invariance, PTL DEF Spec, ImplementsStrictOccupancy, Abstract!StrictPromise
<1>4. QED
  BY <1>3
=============================================================================
