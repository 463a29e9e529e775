------------------------------ MODULE Sessions ------------------------------
(***************************************************************************)
(* Dining sessions: the public QR scan, and the staff requests that close  *)
(* a session or record its payment (internal/session).                     *)
(*                                                                         *)
(* Every request runs in a goroutine of its own and talks to PostgreSQL    *)
(* (READ COMMITTED) one statement at a time, so a request is a program     *)
(* counter with locals, and each statement is one atomic step.  A worker   *)
(* in Scans, Closes or Payments serves one request after the other.  No    *)
(* statement locks a row: GORM v2 ignores the "gorm:query_option" setting. *)
(* The partial unique index on sessions(table_id) WHERE status = 'ACTIVE'  *)
(* is what the database itself enforces.                                   *)
(***************************************************************************)
CONSTANTS
    Tables,
    Sessions,          \* identities of session rows; bounds how many are created
    Scans,             \* workers serving GET /public/scan
    Closes,            \* workers serving POST .../sessions/:sid/close
    Payments,          \* workers serving PATCH .../sessions/:sid/payment
    PaymentStatus,     \* the payment statuses staff record in this instance
    Faults,            \* whether a database statement may fail
    Nil

ASSUME SessionsAssumption ==
    /\ Nil \notin Tables \union Sessions
    /\ Scans \intersect Closes = {}
    /\ Scans \intersect Payments = {}
    /\ Closes \intersect Payments = {}
    /\ PaymentStatus \subseteq {"PENDING", "PARTIAL", "PAID"}
    /\ Faults \in BOOLEAN

VARIABLES
    sessions,          \* the sessions table: id -> row
    expired,           \* sessions whose expires_at has passed
    unfinished,        \* sessions with an order in PENDING or ACCEPTED
    pc,                \* where each worker is in its request
    target,            \* scans: the table the QR token names
    held,              \* the session a request has loaded or created
    copy,              \* the request's own struct of columns it will save
    reply              \* the response sent by the last step of a request, if any

dbVars == <<sessions, expired, unfinished>>
workerVars == <<pc, target, held, copy, reply>>
vars == <<sessions, expired, unfinished, pc, target, held, copy, reply>>

Requests == Scans \union Closes \union Payments

Row == [table : Tables \union {Nil},
        status : {"NONE", "ACTIVE", "CLOSED"},
        payment : {"PENDING", "PARTIAL", "PAID"}]

\* An identity no session has been created with.
Unborn == [table |-> Nil, status |-> "NONE", payment |-> "PENDING"]

Born == {i \in Sessions : sessions[i].status # "NONE"}

ActiveAt(t) == {i \in Sessions : sessions[i].table = t /\ sessions[i].status = "ACTIVE"}

\* Mutant of IndexAdmits: the index is missing.
IndexMissing(i, row) == TRUE

\* The partial unique index lets row be stored as session i.
IndexAdmits(i, row) == row.status = "ACTIVE" => ActiveAt(row.table) \subseteq {i}

\* repository.Update is gorm's Save: every column of the struct is written.
Save(i, row) == sessions' = [sessions EXCEPT ![i] = row]

NoReply == [to |-> Nil, code |-> "none", session |-> Nil]

\* A request moves on with session i, and a struct of columns to save later.
GotoWith(r, label, i, row) ==
    /\ pc' = [pc EXCEPT ![r] = label]
    /\ held' = [held EXCEPT ![r] = i]
    /\ copy' = [copy EXCEPT ![r] = row]
    /\ reply' = NoReply

Goto(r, label) == GotoWith(r, label, held[r], copy[r])

\* A request is answered, naming session i, and its locals are gone.
Finish(r, code, i) ==
    /\ pc' = [pc EXCEPT ![r] = "idle"]
    /\ held' = [held EXCEPT ![r] = Nil]
    /\ copy' = [copy EXCEPT ![r] = Unborn]
    /\ reply' = [to |-> r, code |-> code, session |-> i]

Fail(r, code) == Finish(r, code, Nil)

Init ==
    /\ sessions = [i \in Sessions |-> Unborn]
    /\ expired = {}
    /\ unfinished = {}
    /\ pc = [r \in Requests |-> "idle"]
    /\ target = [s \in Scans |-> Nil]
    /\ held = [r \in Requests |-> Nil]
    /\ copy = [r \in Requests |-> Unborn]
    /\ reply = NoReply

-----------------------------------------------------------------------------
(* Scan: session/service.go Scan and buildScanResponse.                    *)

\* FindByQRToken: an unknown token, an inactive table or a failed query is
\* answered at once; otherwise the request goes on with the table it found.
ScanFindTable(s) ==
    /\ pc[s] = "idle"
    /\ \/ \E t \in Tables :
            /\ target' = [target EXCEPT ![s] = t]
            /\ GotoWith(s, "find", Nil, Unborn)
       \/ Fail(s, "refused") /\ UNCHANGED target
    /\ UNCHANGED dbVars

\* Mutant of ScanFindActive: the test for expiry is inverted or lost.
ScanFindActiveExpiring(s) ==
    /\ pc[s] = "find"
    /\ \/ \E i \in ActiveAt(target[s]) : GotoWith(s, "expire", i, sessions[i])
       \/ ActiveAt(target[s]) = {} /\ Goto(s, "count")
       \/ Faults /\ Fail(s, "error")
    /\ UNCHANGED <<dbVars, target>>

\* Mutant of ScanFindActive: any ACTIVE session is good enough.
ScanFindActiveTrusting(s) ==
    /\ pc[s] = "find"
    /\ \/ \E i \in ActiveAt(target[s]) : GotoWith(s, "build", i, Unborn)
       \/ ActiveAt(target[s]) = {} /\ Goto(s, "count")
       \/ Faults /\ Fail(s, "error")
    /\ UNCHANGED <<dbVars, target>>

\* FindActiveByTableID, and the test of the session found for expiry.
ScanFindActive(s) ==
    /\ pc[s] = "find"
    /\ \/ \E i \in ActiveAt(target[s]) :
            \/ i \in expired /\ GotoWith(s, "expire", i, sessions[i])
            \/ i \notin expired /\ GotoWith(s, "build", i, Unborn)
       \/ ActiveAt(target[s]) = {} /\ Goto(s, "count")
       \/ Faults /\ Fail(s, "error")
    /\ UNCHANGED <<dbVars, target>>

\* Mutant of ScanExpire: the expired session is not saved.
ScanExpireUnsaved(s) ==
    /\ pc[s] = "expire"
    /\ GotoWith(s, "count", Nil, Unborn)
    /\ UNCHANGED <<dbVars, target>>

\* Mutant of ScanExpire: the expired session is deleted.
ScanExpireDeleting(s) ==
    /\ pc[s] = "expire"
    /\ Save(held[s], Unborn)
    /\ GotoWith(s, "count", Nil, Unborn)
    /\ UNCHANGED <<expired, unfinished, target>>

\* The expired session is saved as CLOSED from the copy; an error is ignored.
ScanExpire(s) ==
    /\ pc[s] = "expire"
    /\ \/ Save(held[s], [copy[s] EXCEPT !.status = "CLOSED"])
       \/ Faults /\ UNCHANGED sessions
    /\ GotoWith(s, "count", Nil, Unborn)
    /\ UNCHANGED <<expired, unfinished, target>>

\* In the transaction: the table row is read (not locked) and its ACTIVE
\* sessions are counted.
ScanCount(s) ==
    /\ pc[s] = "count"
    /\ \/ Goto(s, IF ActiveAt(target[s]) = {} THEN "create" ELSE "adopt")
       \/ Faults /\ Goto(s, "recover")
    /\ UNCHANGED <<dbVars, target>>

\* Mutant of ScanAdopt: the query forgets the table.
ScanAdoptAnywhere(s) ==
    /\ pc[s] = "adopt"
    /\ \E i \in Sessions : /\ sessions[i].status = "ACTIVE"
                           /\ GotoWith(s, "build", i, Unborn)
    /\ UNCHANGED <<dbVars, target>>

\* The count was positive: load the ACTIVE session, if it is still there.
ScanAdopt(s) ==
    /\ pc[s] = "adopt"
    /\ \/ \E i \in ActiveAt(target[s]) : GotoWith(s, "build", i, Unborn)
       \/ (Faults \/ ActiveAt(target[s]) = {}) /\ Goto(s, "recover")
    /\ UNCHANGED <<dbVars, target>>

\* The count was zero: insert a session and commit.  The index rejects it if
\* the table has an ACTIVE session by now; a commit that reports an error may
\* have been applied.
ScanCreate(s) ==
    /\ pc[s] = "create"
    /\ \/ \E i \in Sessions \ Born :
            LET row == [table |-> target[s], status |-> "ACTIVE", payment |-> "PENDING"]
            IN  /\ IndexAdmits(i, row)
                /\ Save(i, row)
                /\ \/ GotoWith(s, "build", i, Unborn)
                   \/ Faults /\ Goto(s, "recover")
       \/ /\ Faults \/ ActiveAt(target[s]) # {}
          /\ Goto(s, "recover")
          /\ UNCHANGED sessions
    /\ UNCHANGED <<expired, unfinished, target>>

\* The transaction failed: use the session that got in its way, if any.
ScanRecover(s) ==
    /\ pc[s] = "recover"
    /\ \/ \E i \in ActiveAt(target[s]) :
            \/ i \in expired /\ Finish(s, "expired", i)
            \/ i \notin expired /\ GotoWith(s, "build", i, Unborn)
       \/ (Faults \/ ActiveAt(target[s]) = {}) /\ Fail(s, "error")
    /\ UNCHANGED <<dbVars, target>>

\* buildScanResponse: the restaurant may be gone; the session, ACTIVE when it
\* was read, is tested for expiry once more; otherwise its token is returned.
ScanBuild(s) ==
    /\ pc[s] = "build"
    /\ \/ held[s] \in expired /\ Finish(s, "expired", held[s])
       \/ held[s] \notin expired /\ Finish(s, "ok", held[s])
       \/ Fail(s, "error")
    /\ UNCHANGED <<dbVars, target>>

ScanStep(s) ==
    \/ ScanFindTable(s) \/ ScanFindActive(s) \/ ScanExpire(s) \/ ScanCount(s)
    \/ ScanAdopt(s) \/ ScanCreate(s) \/ ScanRecover(s) \/ ScanBuild(s)

-----------------------------------------------------------------------------
(* Close: session/service.go Close.                                        *)

\* FindByID with the tenant check and the test for an already CLOSED session;
\* force=true skips the tally of orders.
CloseFind(c) ==
    /\ pc[c] = "idle"
    /\ \/ \E i \in Born :
            \/ sessions[i].status = "CLOSED" /\ Fail(c, "conflict")
            \/ /\ sessions[i].status # "CLOSED"
               /\ \E label \in {"tally", "forced"} : GotoWith(c, label, i, sessions[i])
       \/ Fail(c, "refused")
    /\ UNCHANGED <<dbVars, target>>

\* Without force: CountOrdersBySession must find no PENDING or ACCEPTED order.
CloseTally(c) ==
    /\ pc[c] = "tally"
    /\ \/ held[c] \in unfinished /\ Fail(c, "conflict")
       \/ held[c] \notin unfinished /\ Goto(c, "tallied")
       \/ Faults /\ Fail(c, "error")
    /\ UNCHANGED <<dbVars, target>>

\* Mutant of CloseSave: the copy is saved as it was read.
CloseSaveUnmarked(c) ==
    /\ pc[c] \in {"tallied", "forced"}
    /\ Save(held[c], copy[c])
    /\ Finish(c, "ok", held[c])
    /\ UNCHANGED <<expired, unfinished, target>>

\* Mutant of CloseSave: closing a session also settles its bill.
CloseSaveSettling(c) ==
    /\ pc[c] \in {"tallied", "forced"}
    /\ Save(held[c], [copy[c] EXCEPT !.status = "CLOSED", !.payment = "PAID"])
    /\ Finish(c, "ok", held[c])
    /\ UNCHANGED <<expired, unfinished, target>>

\* The copy is saved as CLOSED; a save that reports an error may be applied.
CloseSave(c) ==
    /\ pc[c] \in {"tallied", "forced"}
    /\ \/ /\ Save(held[c], [copy[c] EXCEPT !.status = "CLOSED"])
          /\ Finish(c, "ok", held[c]) \/ (Faults /\ Fail(c, "error"))
       \/ Faults /\ Fail(c, "error") /\ UNCHANGED sessions
    /\ UNCHANGED <<expired, unfinished, target>>

CloseStep(c) == CloseFind(c) \/ CloseTally(c) \/ CloseSave(c)

-----------------------------------------------------------------------------
(* Payment: session/service.go UpdatePayment.                              *)

\* FindByID, the tenant check, and the new status set in the copy.
PayFind(p) ==
    /\ pc[p] = "idle"
    /\ \/ \E i \in Born, v \in PaymentStatus :
            GotoWith(p, "pay", i, [sessions[i] EXCEPT !.payment = v])
       \/ Fail(p, "refused")
    /\ UNCHANGED <<dbVars, target>>

\* The whole copy is saved, with the status as it was read.
PaySave(p) ==
    /\ pc[p] = "pay"
    /\ \/ /\ IndexAdmits(held[p], copy[p])
          /\ Save(held[p], copy[p])
          /\ Finish(p, "ok", held[p]) \/ (Faults /\ Fail(p, "error"))
       \/ /\ Faults \/ ~IndexAdmits(held[p], copy[p])
          /\ Fail(p, "error")
          /\ UNCHANGED sessions
    /\ UNCHANGED <<expired, unfinished, target>>

PayStep(p) == PayFind(p) \/ PaySave(p)

-----------------------------------------------------------------------------
(* What the session requests do not control.                               *)

\* Time passes the expires_at of a session.
Expire(i) ==
    /\ i \in Born \ expired
    /\ expired' = expired \union {i}
    /\ UNCHANGED <<sessions, unfinished, workerVars>>

\* A session gets its first PENDING or ACCEPTED order, or loses the last one.
OrdersChange(i) ==
    /\ i \in Born
    /\ unfinished' \in {unfinished \union {i}, unfinished \ {i}}
    /\ UNCHANGED <<sessions, expired, workerVars>>

Next ==
    \/ \E s \in Scans : ScanStep(s)
    \/ \E c \in Closes : CloseStep(c)
    \/ \E p \in Payments : PayStep(p)
    \/ \E i \in Sessions : Expire(i) \/ OrdersChange(i)

Spec == Init /\ [][Next]_vars

\* A goroutine that can run does run; clients owe no further requests, but a
\* request once begun is not abandoned by the server.
Fairness ==
    \A s \in Scans : WF_vars(pc[s] # "idle" /\ ScanStep(s))

FairSpec == Spec /\ Fairness

-----------------------------------------------------------------------------
(* Properties.                                                             *)

\* Every variable has its type.
TypeOK ==
    /\ sessions \in [Sessions -> Row]
    /\ expired \subseteq Sessions
    /\ unfinished \subseteq Sessions
    /\ pc \in [Requests -> {"idle", "find", "expire", "count", "adopt", "create",
                            "recover", "build", "tally", "tallied", "forced", "pay"}]
    /\ target \in [Scans -> Tables \union {Nil}]
    /\ held \in [Requests -> Sessions \union {Nil}]
    /\ copy \in [Requests -> Row]
    /\ reply \in [to : Requests \union {Nil},
                 code : {"none", "ok", "refused", "conflict", "expired", "error"},
                 session : Sessions \union {Nil}]

\* What a request is about to write belongs to the row it will overwrite: its
\* copy was read from that session and names the same table, however many other
\* requests have saved the row since; a scan expires only what has expired and
\* answers only with a session of its table.
CopiesBelong ==
    /\ \A i \in Born : sessions[i].table \in Tables
    /\ \A i \in Sessions \ Born : sessions[i] = Unborn
    /\ \A r \in Requests :
          pc[r] \in {"expire", "tally", "tallied", "forced", "pay"}
          => /\ held[r] \in Born
             /\ copy[r].status # "NONE"
             /\ copy[r].table = sessions[held[r]].table
    /\ \A s \in Scans :
          /\ pc[s] # "idle" => target[s] \in Tables
          /\ pc[s] = "expire" => held[s] \in expired
          /\ pc[s] = "build" => held[s] \in Born /\ sessions[held[s]].table = target[s]

\* No table ever has two ACTIVE sessions, whatever scans, closes and stale
\* payment saves interleave (migration 000006: "Only ONE active session per
\* table").
OneActivePerTable ==
    \A i, j \in Sessions :
        /\ sessions[i].status = "ACTIVE"
        /\ sessions[j].status = "ACTIVE"
        /\ sessions[i].table = sessions[j].table
        => i = j

\* A session leaves ACTIVE only because it has expired, because a close request
\* chose it, or because a payment request saves a copy it read while the session
\* was CLOSED: a scan never ends the session of customers still dining.
ClosedOnlyOnPurpose ==
    [][\A i \in Sessions :
        sessions[i].status = "ACTIVE" /\ sessions'[i].status # "ACTIVE"
        => \/ i \in expired
           \/ \E c \in Closes : pc[c] \in {"tallied", "forced"} /\ held[c] = i
           \/ \E p \in Payments :
                 pc[p] = "pay" /\ held[p] = i /\ copy[p].status = "CLOSED"]_vars

\* A CLOSED session becomes ACTIVE again only when a payment request saves a
\* copy it read while the session was ACTIVE; no scan and no close revives one.
ReopenedOnlyByPayment ==
    [][\A i \in Sessions :
        sessions[i].status = "CLOSED" /\ sessions'[i].status # "CLOSED"
        => \E p \in Payments :
              pc[p] = "pay" /\ held[p] = i /\ copy[p].status = "ACTIVE"]_vars

\* The recorded payment changes only to what a payment request is saving, or
\* back to what a close or an expiring scan read before it (gorm's Save of a
\* stale struct); nothing else ever touches it.
PaymentChangesExplained ==
    [][\A i \in Sessions :
        sessions'[i].payment # sessions[i].payment
        => \E r \in Requests :
              /\ pc[r] \in {"pay", "tallied", "forced", "expire"}
              /\ held[r] = i
              /\ copy[r].payment = sessions'[i].payment]_vars

\* The inductive invariant of the proofs.
IInv == TypeOK /\ CopiesBelong /\ OneActivePerTable

\* The session token a scan answers with was issued for the table it scanned.
ScanAnswersOwnTable ==
    \A s \in Scans :
        reply.to = s /\ reply.code = "ok"
        => reply.session \in Born /\ sessions[reply.session].table = target[s]

\* Without faults an expired session does not block its table: once a scan
\* looks for the table's session, the expired one is CLOSED in the end.
ExpiredSessionIsClosed ==
    \A s \in Scans, i \in Sessions :
        /\ pc[s] = "find"
        /\ target[s] = sessions[i].table
        /\ sessions[i].status = "ACTIVE"
        /\ i \in expired
        ~> sessions[i].status = "CLOSED"

-----------------------------------------------------------------------------
(* The component implements Occupancy.                                     *)

\* The abstract table state that the rows of the sessions table stand for.
Occupied == [t \in Tables |->
    IF ActiveAt(t) = {} THEN Nil ELSE CHOOSE i \in Sessions : ActiveAt(t) = {i}]
Left == [t \in Tables |->
    {i \in Sessions : sessions[i].table = t /\ sessions[i].status = "CLOSED"}]

Abstract == INSTANCE Occupancy WITH occupant <- Occupied, past <- Left

\* Scans, closes and payments together implement Occupancy: the only thing
\* their interleavings can do to a table is seat, leave and reseat.
ImplementsOccupancy == Abstract!Promise

\* Without payment requests no session ever comes back.
ImplementsStrictOccupancy == Abstract!StrictPromise
=============================================================================
