---------------------------- MODULE TablesProofs -----------------------------
(***************************************************************************)
(* Proofs about Tables for every number of tables, codes, tokens and       *)
(* workers.                                                                *)
(*                                                                         *)
(* The argument.  Every save passes the two unique constraints, so codes   *)
(* and tokens stay unique whatever the copies hold; that a table with      *)
(* sessions keeps its row is inductive because the foreign key is tested   *)
(* by the DELETE itself.  A revoked token can only come back from a copy   *)
(* that holds it, and copies hold what was on a table or freshly drawn.    *)
(***************************************************************************)
EXTENDS Tables, TLAPS

\* What worker w holds where it is in its request.
Request(w) ==
    /\ pc[w] \in {"insert", "code", "save", "saveInsert"} =>
          row[w] \in Row /\ row[w].state = "live"
    /\ pc[w] \in {"code", "save", "saveInsert", "sessions", "delete", "seat"} =>
          target[w] \in Tables /\ table[target[w]] # NoRow

IInv ==
    /\ TypeOK
    /\ \A w \in Workers : Request(w)
    /\ CodesAndTokensUnique
    /\ SeatedTableStays

-----------------------------------------------------------------------------
\* The empty database and idle workers satisfy the invariant.
LEMMA InitIInv == Init => IInv
  BY DEF Init, IInv, TypeOK, Request, CodesAndTokensUnique, SeatedTableStays, Live, NoRow

\* The row of an identity not in use is not a row.
LEMMA NoRowIsNone == NoRow \notin Row
  BY DEF NoRow, Row

\* Saving a row that the constraints admit keeps codes and tokens unique.
LEMMA Saving ==
    ASSUME IInv, NEW t \in Tables, NEW r \in Row, IndexAdmits(t, r), r.state = "live",
           table' = [table EXCEPT ![t] = r], session' = session
    PROVE  CodesAndTokensUnique' /\ SeatedTableStays'
<1>1. table \in [Tables -> Row \union {NoRow}]
  BY DEF IInv, TypeOK
<1>2. table'[t] = r /\ \A s \in Tables \ {t} : table'[s] = table[s]
  BY <1>1
<1>3. Live' = Live \union {t}
  BY <1>2 DEF Live
<1>4. \A s \in Live \ {t} : table[s].code # r.code /\ table[s].token # r.token
  BY DEF IndexAdmits
<1>5. QED
  BY <1>2, <1>3, <1>4 DEF IInv, CodesAndTokensUnique, SeatedTableStays, Live

\* So does keeping the table as it is.
LEMMA Keeping ==
    ASSUME IInv, UNCHANGED <<table, session>>
    PROVE  CodesAndTokensUnique' /\ SeatedTableStays'
  BY DEF IInv, CodesAndTokensUnique, SeatedTableStays, Live

\* The table and the sessions under a step of staff.
LEMMA StaffTables ==
    ASSUME IInv, NEW u \in Staff, StaffStep(u)
    PROVE  /\ table' \in [Tables -> Row \union {NoRow}]
           /\ \A t \in Tables : table[t] # NoRow => table'[t] # NoRow
           /\ CodesAndTokensUnique' /\ SeatedTableStays'
           /\ session' = session
<1>1. /\ table \in [Tables -> Row \union {NoRow}]
      /\ Request(u)
  BY DEF IInv, TypeOK, Workers
<1>2. session' = session
  BY DEF StaffStep, CreateCheck, CreateInsert, UpdateFind, UpdateCode, RegenerateFind, SaveUpdate,
     SaveInsert, DeleteFind, DeleteCheck, DeleteRow, StaffFail, Start
<1>3. CASE table' = table
  BY <1>1, <1>2, <1>3, Keeping
<1>4. CASE \E t \in Tables, r \in Row : /\ IndexAdmits(t, r)
                                     /\ r.state = "live"
                                     /\ table' = [table EXCEPT ![t] = r]
  BY <1>1, <1>2, <1>4, Saving, NoRowIsNone
<1>5. CASE /\ pc[u] = "delete"
           /\ session[target[u]] = "none"
           /\ table' = [table EXCEPT ![target[u]].state = "deleted"]
  <2>1. target[u] \in Tables /\ table[target[u]] \in Row
    BY <1>1, <1>5 DEF Request
  <2>2. [table[target[u]] EXCEPT !.state = "deleted"] \in Row
    BY <2>1 DEF Row
  <2>3. table' \in [Tables -> Row \union {NoRow}] /\ table'[target[u]] \in Row
    BY <1>1, <1>5, <2>1, <2>2
  <2>4. \A t \in Tables \ {target[u]} : table'[t] = table[t]
    BY <1>1, <1>5
  <2>5. Live' = Live \ {target[u]}
    BY <1>1, <1>5, <2>1, <2>4 DEF Live, Row
  <2>6. CodesAndTokensUnique' /\ SeatedTableStays'
    BY <1>2, <1>5, <2>4, <2>5 DEF IInv, CodesAndTokensUnique, SeatedTableStays, Live
  <2>7. QED
    BY <1>1, <1>2, <2>3, <2>4, <2>6, NoRowIsNone
<1>6. CASE CreateInsert(u)
  <2>1. row[u] \in Row /\ row[u].state = "live"
    BY <1>1, <1>6 DEF CreateInsert, Request
  <2>2. Inserted(row[u]) \in Row /\ Inserted(row[u]).state = "live"
    BY <2>1 DEF Inserted, Row
  <2>3. \A t \in Tables : IndexAdmits(t, row[u]) => IndexAdmits(t, Inserted(row[u]))
    BY <2>1 DEF IndexAdmits, Inserted, Row
  <2>4. QED
    BY <1>3, <1>4, <1>6, <2>2, <2>3 DEF CreateInsert
<1>7. CASE SaveUpdate(u)
  <2>1. row[u] \in Row /\ row[u].state = "live"
    BY <1>1, <1>7 DEF SaveUpdate, Request
  <2>2. QED
    BY <1>3, <1>4, <1>7, <2>1 DEF SaveUpdate, Live
<1>8. CASE SaveInsert(u)
  <2>1. row[u] \in Row /\ row[u].state = "live" /\ target[u] \in Tables
    BY <1>1, <1>8 DEF SaveInsert, Request
  <2>2. Inserted(row[u]) \in Row /\ Inserted(row[u]).state = "live"
    BY <2>1 DEF Inserted, Row
  <2>3. IndexAdmits(target[u], row[u]) => IndexAdmits(target[u], Inserted(row[u]))
    BY <2>1 DEF IndexAdmits, Inserted, Row
  <2>4. QED
    BY <1>3, <1>4, <1>8, <2>1, <2>2, <2>3 DEF SaveInsert
<1>9. CASE ~CreateInsert(u) /\ ~SaveUpdate(u) /\ ~SaveInsert(u)
  BY <1>3, <1>5, <1>9 DEF StaffStep, CreateCheck, UpdateFind, UpdateCode, RegenerateFind, DeleteFind,
     DeleteCheck, DeleteRow, StaffFail, Start
<1>10. QED
  BY <1>6, <1>7, <1>8, <1>9

\* The locals under a step of staff.
LEMMA StaffLocals ==
    ASSUME IInv, NEW u \in Staff, StaffStep(u)
    PROVE  /\ issued' \subseteq Tokens
           /\ pc' \in [Workers -> {"idle", "insert", "code", "save", "saveInsert", "sessions",
                                   "delete", "seat"}]
           /\ target' \in [Workers -> Tables \union {Nil}]
           /\ row' \in [Workers -> Row \union {Nil}]
           /\ \A w \in Workers : Request(w)'
<1>1. /\ TypeOK
      /\ \A w \in Workers : Request(w)
      /\ \A t \in Tables : table[t] # NoRow => table'[t] # NoRow
      /\ u \in Workers
  BY StaffTables DEF IInv, Workers
<1>2. \A t \in Live : /\ table[t] # NoRow
                       /\ table[t] \in Row
                       /\ table[t].state = "live"
  BY <1>1 DEF TypeOK, Live, NoRow
<1> USE <1>1, <1>2 DEF TypeOK, Request
<1>3. CASE CreateCheck(u)
  <2>1. PICK code \in Codes, token \in Fresh :
            /\ Start(u, "insert", Nil, [state |-> "live", code |-> code, token |-> token,
                                        active |-> TRUE])
            /\ issued' = issued \union {token}
    BY <1>3 DEF CreateCheck
  <2>2. [state |-> "live", code |-> code, token |-> token, active |-> TRUE] \in Row
    BY DEF Row, Fresh
  <2>3. QED
    BY <2>1, <2>2 DEF Start, Fresh
<1>4. CASE UpdateFind(u)
  <2>1. PICK t \in Live, active \in BOOLEAN, label \in {"save", "code"} :
            Start(u, label, t, [table[t] EXCEPT !.active = active])
    BY <1>4 DEF UpdateFind
  <2>2. /\ [table[t] EXCEPT !.active = active] \in Row
        /\ [table[t] EXCEPT !.active = active].state = "live"
    BY DEF Row
  <2>3. t \in Tables
    BY DEF Live
  <2>4. QED
    BY <1>4, <2>1, <2>2, <2>3 DEF Start, UpdateFind
<1>5. CASE UpdateCode(u)
  <2>1. row[u] \in Row /\ row[u].state = "live"
    BY <1>5 DEF UpdateCode
  <2>2. \A code \in Codes : /\ [row[u] EXCEPT !.code = code] \in Row
                           /\ [row[u] EXCEPT !.code = code].state = "live"
    BY <2>1 DEF Row
  <2>3. CASE Done(u)
    BY <1>5, <2>3 DEF UpdateCode, Done
  <2>4. CASE ~Done(u)
    <3>1. PICK code \in Codes : /\ pc' = [pc EXCEPT ![u] = "save"]
                               /\ row' = [row EXCEPT ![u].code = code]
                               /\ UNCHANGED <<target, issued>>
      BY <1>5, <2>4 DEF UpdateCode
    <3>2. row' = [row EXCEPT ![u] = [row[u] EXCEPT !.code = code]]
      BY <3>1
    <3>3. target[u] \in Tables /\ table'[target[u]] # NoRow
      BY <1>5 DEF UpdateCode
    <3>4. QED
      BY <2>2, <3>1, <3>2, <3>3
  <2>5. QED
    BY <2>3, <2>4
<1>6. CASE RegenerateFind(u)
  <2>1. PICK t \in Live, token \in Fresh :
            /\ Start(u, "save", t, [table[t] EXCEPT !.token = token])
            /\ issued' = issued \union {token}
    BY <1>6 DEF RegenerateFind
  <2>2. /\ [table[t] EXCEPT !.token = token] \in Row
        /\ [table[t] EXCEPT !.token = token].state = "live"
    BY DEF Row, Fresh
  <2>3. t \in Tables
    BY DEF Live
  <2>4. QED
    BY <2>1, <2>2, <2>3 DEF Start, Fresh
<1>7. CASE SaveUpdate(u)
  BY <1>7 DEF SaveUpdate, Goto, Done
<1>8. CASE DeleteFind(u)
  <2>1. PICK t \in Live : Start(u, "sessions", t, Nil)
    BY <1>8 DEF DeleteFind
  <2>2. t \in Tables
    BY DEF Live
  <2>3. QED
    BY <1>8, <2>1, <2>2 DEF DeleteFind, Start
<1>9. CASE DeleteCheck(u)
  BY <1>9 DEF DeleteCheck, Goto, Done
<1>10. CASE Done(u) /\ issued' = issued
  BY <1>10 DEF Done
<1>11. QED
  BY <1>3, <1>4, <1>5, <1>6, <1>7, <1>8, <1>9, <1>10 DEF StaffStep, CreateInsert, SaveInsert, DeleteRow,
     StaffFail

\* A step of a guest or of a session keeps the invariant.
LEMMA OtherIInv ==
    ASSUME IInv,
           \/ \E g \in Guests : ScanFind(g) \/ ScanRefused(g) \/ ScanSeat(g)
           \/ \E t \in Tables : SessionChange(t)
    PROVE  IInv' /\ UNCHANGED <<table, issued>> /\ \A u \in Staff : row'[u] = row[u]
<1>1. /\ TypeOK
      /\ \A w \in Workers : Request(w)
      /\ CodesAndTokensUnique /\ SeatedTableStays
      /\ \A g \in Guests : g \in Workers /\ g \notin Staff
      /\ \A t \in Live : t \in Tables /\ table[t] # NoRow
  BY TablesAssumption DEF IInv, Workers, Live, NoRow
<1> USE <1>1 DEF TypeOK, Request
<1>2. CASE \E g \in Guests : ScanFind(g)
  <2>1. PICK g \in Guests, t \in Live : Start(g, "seat", t, Nil) /\ UNCHANGED issued
    BY <1>2 DEF ScanFind
  <2>2. TypeOK' /\ \A w \in Workers : Request(w)'
    BY <2>1 DEF Start
  <2>3. QED
    BY <2>1, <2>2 DEF Start, IInv, CodesAndTokensUnique, SeatedTableStays, Live
<1>3. CASE \E g \in Guests : ScanRefused(g)
  BY <1>3 DEF ScanRefused, vars, IInv, CodesAndTokensUnique, SeatedTableStays, Live
<1>4. CASE \E g \in Guests : ScanSeat(g)
  <2>1. PICK g \in Guests : ScanSeat(g)
    BY <1>4
  <2>2. TypeOK' /\ \A w \in Workers : Request(w)'
    BY <2>1 DEF ScanSeat, Done
  <2>3. QED
    BY <2>1, <2>2 DEF ScanSeat, Done, IInv, CodesAndTokensUnique, SeatedTableStays, Live
<1>5. CASE \E t \in Tables : SessionChange(t)
  <2>1. TypeOK' /\ \A w \in Workers : Request(w)'
    BY <1>5 DEF SessionChange
  <2>2. QED
    BY <1>5, <2>1 DEF SessionChange, IInv, CodesAndTokensUnique, SeatedTableStays, Live
<1>6. QED
  BY <1>2, <1>3, <1>4, <1>5

\* So does every step.
LEMMA StepIInv == IInv /\ [Next]_vars => IInv'
<1>1. ASSUME IInv, NEW u \in Staff, StaffStep(u)
      PROVE  IInv'
  <2>1. TypeOK'
    BY <1>1, StaffTables, StaffLocals DEF IInv, TypeOK
  <2>2. QED
    BY <1>1, <2>1, StaffTables, StaffLocals DEF IInv
<1>2. IInv /\ UNCHANGED vars => IInv'
  BY DEF vars, IInv, TypeOK, Request, CodesAndTokensUnique, SeatedTableStays, Live
<1>3. QED
  BY <1>1, <1>2, OtherIInv DEF Next

\* IInv holds in every reachable state.
LEMMA Invariance == Spec => []IInv
  BY InitIInv, StepIInv, PTL DEF Spec

\* Tables keeps its types (internal/table), whichever requests race.
THEOREM TablesTypeCorrect == Spec => []TypeOK
<1>1. IInv => TypeOK
  BY DEF IInv
<1>2. QED
  BY <1>1, Invariance, PTL

\* No two tables ever share a code or a QR token.
THEOREM CodesAndTokensAreUnique == Spec => []CodesAndTokensUnique
<1>1. IInv => CodesAndTokensUnique
  BY DEF IInv
<1>2. QED
  BY <1>1, Invariance, PTL

\* A table that ever had a session is never deleted.
THEOREM SeatedTablesStay == Spec => []SeatedTableStays
<1>1. IInv => SeatedTableStays
  BY DEF IInv
<1>2. QED
  BY <1>1, Invariance, PTL

-----------------------------------------------------------------------------
(* Revoked tokens.                                                         *)

\* A token on a table after a step of staff was on it before, or in the copy saved.
LEMMA TokensOnTables ==
    ASSUME IInv, NEW u \in Staff, StaffStep(u), NEW t \in Live'
    PROVE  \/ t \in Live /\ table'[t].token = table[t].token
           \/ row[u] # Nil /\ table'[t].token = row[u].token
<1>1. /\ TypeOK /\ Request(u) /\ u \in Workers
      /\ t \in Tables /\ table'[t].state = "live"
  BY TablesAssumption DEF IInv, Workers, Live, Row
<1> USE <1>1 DEF TypeOK
<1>2. CASE table' = table
  BY <1>2 DEF Live
<1>3. CASE row[u] \in Row /\ \E s \in Tables : table' = [table EXCEPT ![s] = Inserted(row[u])]
  <2>1. row[u] # Nil
    BY NilAssumption, <1>3
  <2>2. Inserted(row[u]).token = row[u].token
    BY <1>3 DEF Inserted, Row
  <2>3. QED
    BY <1>3, <2>1, <2>2 DEF Live
<1>4. CASE row[u] \in Row /\ \E s \in Tables : table' = [table EXCEPT ![s] = row[u]]
  BY <1>4, NilAssumption DEF Live
<1>5. CASE DeleteRow(u)
  <2>1. target[u] \in Tables /\ table[target[u]] \in Row
    BY <1>5 DEF DeleteRow, Request
  <2>2. CASE table' = [table EXCEPT ![target[u]].state = "deleted"]
    <3>1. t # target[u]
      BY <2>1, <2>2 DEF Row
    <3>2. QED
      BY <2>2, <3>1 DEF Live
  <2>3. QED
    BY <1>2, <1>5, <2>2 DEF DeleteRow
<1>6. CASE CreateInsert(u)
  BY <1>2, <1>3, <1>6 DEF CreateInsert, Request
<1>7. CASE SaveUpdate(u)
  BY <1>2, <1>4, <1>7 DEF SaveUpdate, Request
<1>8. CASE SaveInsert(u)
  BY <1>2, <1>3, <1>8 DEF SaveInsert, Request
<1>9. QED
  BY <1>2, <1>5, <1>6, <1>7, <1>8 DEF StaffStep, CreateCheck, UpdateFind, UpdateCode, RegenerateFind,
     DeleteFind, DeleteCheck, StaffFail, Start

\* A token in a copy after a step of staff was there before, on a table, or is new.
LEMMA TokensInCopies ==
    ASSUME IInv, NEW u \in Staff, StaffStep(u), NEW v \in Staff, row'[v] # Nil
    PROVE  \/ row[v] # Nil /\ row'[v].token = row[v].token
           \/ \E t \in Live : row'[v].token = table[t].token
           \/ row'[v].token \in Fresh
<1>1. /\ TypeOK /\ Request(u) /\ u \in Workers /\ v \in Workers
      /\ \A t \in Live : table[t] \in Row
  BY DEF IInv, Workers, TypeOK, Live, NoRow
<1> USE <1>1 DEF TypeOK
<1>2. CASE row' = row \/ row' = [row EXCEPT ![u] = Nil]
  BY <1>2
<1>3. CASE CreateCheck(u)
  BY <1>3 DEF CreateCheck, Start
<1>4. CASE UpdateFind(u)
  <2>1. PICK t \in Live, active \in BOOLEAN :
            row' = [row EXCEPT ![u] = [table[t] EXCEPT !.active = active]]
    BY <1>4 DEF UpdateFind, Start
  <2>2. [table[t] EXCEPT !.active = active].token = table[t].token
    BY DEF Row
  <2>3. QED
    BY <2>1, <2>2
<1>5. CASE RegenerateFind(u)
  <2>1. PICK t \in Live, token \in Fresh : row' = [row EXCEPT ![u] = [table[t] EXCEPT !.token = token]]
    BY <1>5 DEF RegenerateFind, Start
  <2>2. [table[t] EXCEPT !.token = token].token = token
    BY DEF Row
  <2>3. QED
    BY <2>1, <2>2
<1>6. CASE UpdateCode(u)
  <2>1. row[u] \in Row /\ row[u] # Nil
    BY <1>6, NilAssumption DEF UpdateCode, Request
  <2>2. CASE \E code \in Codes : row' = [row EXCEPT ![u].code = code]
    <3>1. PICK code \in Codes : row' = [row EXCEPT ![u] = [row[u] EXCEPT !.code = code]]
      BY <2>2
    <3>2. [row[u] EXCEPT !.code = code].token = row[u].token
      BY <2>1 DEF Row
    <3>3. QED
      BY <2>1, <3>1, <3>2
  <2>3. QED
    BY <1>2, <1>6, <2>2 DEF UpdateCode, Done
<1>7. QED
  BY <1>2, <1>3, <1>4, <1>5, <1>6 DEF StaffStep, CreateInsert, SaveUpdate, SaveInsert, DeleteFind,
     DeleteCheck, DeleteRow, StaffFail, Start, Goto, Done

\* A step of staff neither stores nor copies a token that was revoked.
LEMMA StaffKeepsRevoked ==
    ASSUME IInv, NEW u \in Staff, StaffStep(u), NEW k \in Tokens, Revoked(k)
    PROVE  Revoked(k)'
<1>1. k \in issued'
  BY DEF Revoked, StaffStep, CreateCheck, CreateInsert, UpdateFind, UpdateCode, RegenerateFind,
     SaveUpdate, SaveInsert, DeleteFind, DeleteCheck, DeleteRow, StaffFail
<1>2. \A t \in Live' : table'[t].token # k
  BY TokensOnTables DEF Revoked
<1>3. \A v \in Staff : row'[v] # Nil => row'[v].token # k
  BY TokensInCopies DEF Revoked, Fresh
<1>4. QED
  BY <1>1, <1>2, <1>3 DEF Revoked

\* A token that is on no table and in no copy to be saved never comes back.
THEOREM RevokedTokensStayRevoked == Spec => RevokedStaysRevoked
<1>1. ASSUME IInv, [Next]_vars
      PROVE  [\A k \in Tokens : Revoked(k) => Revoked(k)']_vars
  <2>1. SUFFICES ASSUME Next, NEW k \in Tokens, Revoked(k)
                 PROVE  Revoked(k)'
    BY <1>1
  <2>2. CASE \E u \in Staff : StaffStep(u)
    BY <1>1, <2>1, <2>2, StaffKeepsRevoked
  <2>3. CASE ~ \E u \in Staff : StaffStep(u)
    BY <1>1, <2>1, <2>3, OtherIInv DEF Next, Revoked, Live
  <2>4. QED
    BY <2>2, <2>3
<1>2. QED
  BY <1>1, Invariance, PTL DEF Spec, RevokedStaysRevoked
=============================================================================
