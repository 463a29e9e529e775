------------------------------- MODULE Tables --------------------------------
(***************************************************************************)
(* The tables of a restaurant and their QR tokens: staff create, update    *)
(* and delete tables and regenerate tokens, guests scan them               *)
(* (internal/table, and the part of Scan that depends on the table).       *)
(*                                                                         *)
(* A worker serves one request after the other, and a statement is one     *)
(* atomic step.  Of a session only its table and status are kept.  The     *)
(* database enforces two unique constraints and a foreign key.             *)
(***************************************************************************)
CONSTANTS
    Tables,            \* identities of table rows
    Codes,             \* table codes staff ask for
    Tokens,            \* QR tokens; bounds how many are generated
    Staff,             \* workers serving requests of staff
    Guests,            \* workers serving scans
    Nil

ASSUME TablesAssumption ==
    /\ Staff \intersect Guests = {}
    /\ Nil \notin Tables \union Codes \union Tokens

VARIABLES
    table,             \* the tables table: id -> row
    session,           \* the status of the latest session of each table
    issued,            \* the tokens generated so far
    pc,                \* where each worker is in its request
    target,            \* the table of the request
    row                \* staff: the row the request is about to write

vars == <<table, session, issued, pc, target, row>>

Workers == Staff \union Guests

Row == [state : {"live", "deleted"}, code : Codes, token : Tokens, active : BOOLEAN]
ASSUME NilAssumption == Nil \notin Row

NoRow == [state |-> "none", code |-> Nil, token |-> Nil, active |-> FALSE]

Live == {t \in Tables : table[t].state = "live"}

\* Mutant of IndexAdmits: codes are not compared.
IndexAdmitsAnyCode(t, r) == \A s \in Live \ {t} : table[s].token # r.token

\* UNIQUE (restaurant_id, table_code) and UNIQUE (qr_token).
IndexAdmits(t, r) ==
    \A s \in Live \ {t} : table[s].code # r.code /\ table[s].token # r.token

\* Mutant of Fresh: a token may be drawn again once its table has another.
FreshUnused == Tokens \ {table[t].token : t \in Live}

\* 32 random bytes are never drawn twice.
Fresh == Tokens \ issued

\* An INSERT replaces is_active FALSE by the column's default TRUE.
Inserted(r) == [r EXCEPT !.active = TRUE]

Start(w, label, t, r) ==
    /\ pc[w] = "idle"
    /\ pc' = [pc EXCEPT ![w] = label]
    /\ target' = [target EXCEPT ![w] = t]
    /\ row' = [row EXCEPT ![w] = r]
    /\ UNCHANGED <<table, session>>

Goto(w, label) ==
    /\ pc' = [pc EXCEPT ![w] = label]
    /\ UNCHANGED <<target, row>>

Done(w) ==
    /\ pc' = [pc EXCEPT ![w] = "idle"]
    /\ target' = [target EXCEPT ![w] = Nil]
    /\ row' = [row EXCEPT ![w] = Nil]

Init ==
    /\ table = [t \in Tables |-> NoRow]
    /\ session = [t \in Tables |-> "none"]
    /\ issued = {}
    /\ pc = [w \in Workers |-> "idle"]
    /\ target = [w \in Workers |-> Nil]
    /\ row = [w \in Workers |-> Nil]

-----------------------------------------------------------------------------
(* Staff: table/service.go.                                                *)

\* Create: no table has the code; a token is generated.
CreateCheck(u) ==
    \E code \in Codes, token \in Fresh :
        /\ \A t \in Live : table[t].code # code
        /\ Start(u, "insert", Nil, [state |-> "live", code |-> code, token |-> token,
                                    active |-> TRUE])
        /\ issued' = issued \union {token}

CreateInsert(u) ==
    /\ pc[u] = "insert"
    /\ \E t \in Tables :
          /\ table[t] = NoRow
          /\ table' = IF IndexAdmits(t, row[u])
                      THEN [table EXCEPT ![t] = Inserted(row[u])]
                      ELSE table
    /\ Done(u)
    /\ UNCHANGED <<session, issued>>

\* Update without and with a new code.
UpdateFind(u) ==
    /\ \E t \in Live, active \in BOOLEAN, label \in {"save", "code"} :
          Start(u, label, t, [table[t] EXCEPT !.active = active])
    /\ UNCHANGED issued

\* The code is refused if some table has it and the copy has another.
UpdateCode(u) ==
    /\ pc[u] = "code"
    /\ \E code \in Codes :
          \/ /\ row[u].code = code \/ \A t \in Live : table[t].code # code
             /\ pc' = [pc EXCEPT ![u] = "save"]
             /\ row' = [row EXCEPT ![u].code = code]
             /\ UNCHANGED target
          \/ /\ row[u].code # code
             /\ \E t \in Live : table[t].code = code
             /\ Done(u)
    /\ UNCHANGED <<table, session, issued>>

RegenerateFind(u) ==
    \E t \in Live, token \in Fresh :
        /\ Start(u, "save", t, [table[t] EXCEPT !.token = token])
        /\ issued' = issued \union {token}

\* gorm's Save, for Update and RegenerateQR: an UPDATE of every column, and if
\* the row is gone, an INSERT of it.
SaveUpdate(u) ==
    /\ pc[u] = "save"
    /\ \/ /\ target[u] \in Live
          /\ table' = IF IndexAdmits(target[u], row[u])
                      THEN [table EXCEPT ![target[u]] = row[u]]
                      ELSE table
          /\ Done(u)
       \/ /\ target[u] \notin Live
          /\ Goto(u, "saveInsert")
          /\ UNCHANGED table
    /\ UNCHANGED <<session, issued>>

SaveInsert(u) ==
    /\ pc[u] = "saveInsert"
    /\ table' = IF IndexAdmits(target[u], row[u])
                THEN [table EXCEPT ![target[u]] = Inserted(row[u])]
                ELSE table
    /\ Done(u)
    /\ UNCHANGED <<session, issued>>

DeleteFind(u) ==
    /\ \E t \in Live : Start(u, "sessions", t, Nil)
    /\ UNCHANGED issued

DeleteCheck(u) ==
    /\ pc[u] = "sessions"
    /\ \/ session[target[u]] = "active" /\ Done(u)
       \/ session[target[u]] # "active" /\ Goto(u, "delete")
    /\ UNCHANGED <<table, session, issued>>

\* Mutant of DeleteRow: sessions are deleted with their table.
DeleteRowCascading(u) ==
    /\ pc[u] = "delete"
    /\ table' = [table EXCEPT ![target[u]].state = "deleted"]
    /\ Done(u)
    /\ UNCHANGED <<session, issued>>

\* A row that sessions refer to, ended or not, is not deleted: an error.
DeleteRow(u) ==
    /\ pc[u] = "delete"
    /\ table' = IF session[target[u]] = "none"
                THEN [table EXCEPT ![target[u]].state = "deleted"]
                ELSE table
    /\ Done(u)
    /\ UNCHANGED <<session, issued>>

\* A statement fails, or it was applied and its answer is lost.
StaffFail(u) ==
    /\ pc[u] # "idle"
    /\ Done(u)
    /\ UNCHANGED <<table, session, issued>>

StaffStep(u) ==
    \/ CreateCheck(u) \/ CreateInsert(u)
    \/ UpdateFind(u) \/ UpdateCode(u) \/ RegenerateFind(u) \/ SaveUpdate(u) \/ SaveInsert(u)
    \/ DeleteFind(u) \/ DeleteCheck(u) \/ DeleteRow(u)
    \/ StaffFail(u)

-----------------------------------------------------------------------------
(* Guests, and the sessions as the other requests change them.             *)

\* Scan finds the active table of a token ...
ScanFind(g) ==
    /\ \E t \in Live : table[t].active /\ Start(g, "seat", t, Nil)
    /\ UNCHANGED issued

\* ... a token that no active table has is refused ...
ScanRefused(g) ==
    /\ pc[g] = "idle"
    /\ \E k \in Tokens : \A t \in Live : table[t].active => table[t].token # k
    /\ UNCHANGED vars

\* ... and joins its session or inserts one, unless the table is gone.
ScanSeat(g) ==
    /\ pc[g] = "seat"
    /\ session' = IF target[g] \in Live
                  THEN [session EXCEPT ![target[g]] = "active"]
                  ELSE session
    /\ Done(g)
    /\ UNCHANGED <<table, issued>>

\* Sessions are closed, expire and are reopened.
SessionChange(t) ==
    /\ session[t] # "none"
    /\ \E status \in {"active", "ended"} : session' = [session EXCEPT ![t] = status]
    /\ UNCHANGED <<table, issued, pc, target, row>>

Next ==
    \/ \E u \in Staff : StaffStep(u)
    \/ \E g \in Guests : ScanFind(g) \/ ScanRefused(g) \/ ScanSeat(g)
    \/ \E t \in Tables : SessionChange(t)

Spec == Init /\ [][Next]_vars

-----------------------------------------------------------------------------
(* Properties.                                                             *)

\* Every variable has its type; a row has its code and token once inserted.
TypeOK ==
    /\ table \in [Tables -> Row \union {NoRow}]
    /\ session \in [Tables -> {"none", "active", "ended"}]
    /\ issued \subseteq Tokens
    /\ pc \in [Workers -> {"idle", "insert", "code", "save", "saveInsert", "sessions",
                           "delete", "seat"}]
    /\ target \in [Workers -> Tables \union {Nil}]
    /\ row \in [Workers -> Row \union {Nil}]

\* No two tables answer to one code or to one token, whichever requests race
\* between the test of a code and the save.
CodesAndTokensUnique ==
    \A s, t \in Live :
        table[s].code = table[t].code \/ table[s].token = table[t].token => s = t

\* Printed, and replaced or gone with its table, and in no copy still to be saved.
Revoked(k) ==
    /\ k \in issued
    /\ \A t \in Live : table[t].token # k
    /\ \A u \in Staff : row[u] # Nil => row[u].token # k

\* A regenerated QR token may be undone by an update that read the table before;
\* once none is under way, the old code on the table opens nothing any more.
RevokedStaysRevoked == [][\A k \in Tokens : Revoked(k) => Revoked(k)']_vars

\* A table that ever had a session keeps its row, also when a guest scans it
\* between the test for active sessions and the deletion.
SeatedTableStays == \A t \in Tables : session[t] # "none" => t \in Live
=============================================================================
