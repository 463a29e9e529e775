------------------------------- MODULE Orders -------------------------------
(***************************************************************************)
(* Orders: customers place them with an optional idempotency key, staff    *)
(* move them through their statuses, and every status update is broadcast  *)
(* to the customers of the session (internal/order).                       *)
(*                                                                         *)
(* As in Sessions, a worker serves one request after the other, a request  *)
(* is a program counter with locals and a database statement is one atomic *)
(* step that locks nothing.  The unique index on (session_id,              *)
(* idempotency_key) is what the database enforces.  A request body stands  *)
(* for its fingerprint; prices, items and menu rows are left out.          *)
(***************************************************************************)
CONSTANTS
    Sessions,
    Orders,            \* identities of order rows; bounds how many are placed
    Keys,              \* idempotency keys clients send
    Bodies,            \* request bodies clients send
    Placements,        \* workers serving POST /public/sessions/:sessionToken/orders
    Staff,             \* workers serving PATCH .../orders/:oid/status
    Faults,            \* whether a database statement may fail
    Nil

ASSUME OrdersAssumption ==
    /\ Nil \notin Sessions \union Orders \union Keys \union Bodies
    /\ Nil \notin Placements \union Staff
    /\ Placements \intersect Staff = {}
    /\ Faults \in BOOLEAN

VARIABLES
    active,            \* sessions whose row is ACTIVE
    expired,           \* sessions whose expires_at has passed
    orders,            \* the orders table: id -> row
    pc,                \* where each worker is in its request
    ticket,            \* placements: the session, key and body of the request
    held,              \* the order a request has loaded or created
    status,            \* staff: the status asked for, then the one re-read
    feed,              \* the last status broadcast about each order, or Nil
    reply              \* the response sent by the last step of a request, if any

sessionVars == <<active, expired>>
workerVars == <<pc, ticket, held, status, reply>>
vars == <<active, expired, orders, pc, ticket, held, status, feed, reply>>

Requests == Placements \union Staff

validTransitions ==
    [PENDING   |-> {"ACCEPTED", "CANCELLED"},
     ACCEPTED  |-> {"PREPARING", "CANCELLED"},
     PREPARING |-> {"READY"},
     READY     |-> {"COMPLETED"},
     COMPLETED |-> {},
     CANCELLED |-> {}]

Status == DOMAIN validTransitions

Ticket == [session : Sessions \union {Nil}, key : Keys \union {Nil}, body : Bodies \union {Nil}]
NoTicket == [session |-> Nil, key |-> Nil, body |-> Nil]

Row == [request : Ticket, status : Status \union {"NONE"}]

\* An identity no order has been created with.
Unplaced == [request |-> NoTicket, status |-> "NONE"]

Placed == {o \in Orders : orders[o].status # "NONE"}

\* Mutant of SameKey: two missing keys count as equal.
SameKeyOrNone(t) ==
    {o \in Placed : /\ orders[o].request.session = t.session
                    /\ orders[o].request.key = t.key}

\* The rows FindBySessionAndIdempotencyKey finds; a request without a key
\* never looks, and the partial unique index does not cover it.
SameKey(t) ==
    {o \in Placed : /\ t.key # Nil
                    /\ orders[o].request.session = t.session
                    /\ orders[o].request.key = t.key}

\* Mutant of Usable: the status of the session is not tested.
UsableUntilExpired(i) == i \notin expired

Usable(i) == i \in active /\ i \notin expired

NoReply == [to |-> Nil, code |-> "none", order |-> Nil]

GotoWith(r, label, o) ==
    /\ pc' = [pc EXCEPT ![r] = label]
    /\ held' = [held EXCEPT ![r] = o]
    /\ reply' = NoReply

Goto(r, label) == GotoWith(r, label, held[r])

Finish(r, code, o) ==
    /\ pc' = [pc EXCEPT ![r] = "idle"]
    /\ held' = [held EXCEPT ![r] = Nil]
    /\ reply' = [to |-> r, code |-> code, order |-> o]

Fail(r, code) == Finish(r, code, Nil)

Init ==
    /\ active = {}
    /\ expired = {}
    /\ orders = [o \in Orders |-> Unplaced]
    /\ pc = [r \in Requests |-> "idle"]
    /\ ticket = [p \in Placements |-> NoTicket]
    /\ held = [r \in Requests |-> Nil]
    /\ status = [u \in Staff |-> Nil]
    /\ feed = [o \in Orders |-> Nil]
    /\ reply = NoReply

-----------------------------------------------------------------------------
(* Placing an order: order/service.go PlaceOrder.                          *)

\* FindBySessionToken and the tests of the session, then the key is looked up
\* if there is one.
PlaceFind(p) ==
    /\ pc[p] = "idle"
    /\ \E t \in [session : Sessions, key : Keys \union {Nil}, body : Bodies] :
          /\ ticket' = [ticket EXCEPT ![p] = t]
          /\ \/ ~Usable(t.session) /\ Fail(p, "refused")
             \/ Usable(t.session) /\ Goto(p, IF t.key = Nil THEN "menu" ELSE "lookup")
             \/ Faults /\ Fail(p, "error")
    /\ UNCHANGED <<sessionVars, orders, status, feed>>

\* Mutant of Replay: the fingerprints are not compared.
ReplayAnyBody(p) == \E o \in SameKey(ticket[p]) : Finish(p, "ok", o)

\* An order that exists under the key answers the request: with the order if
\* the fingerprints agree, with a conflict otherwise.
Replay(p) ==
    \E o \in SameKey(ticket[p]) :
        \/ orders[o].request.body = ticket[p].body /\ Finish(p, "ok", o)
        \/ orders[o].request.body # ticket[p].body /\ Finish(p, "conflict", o)

PlaceLookup(p) ==
    /\ pc[p] = "lookup"
    /\ \/ Replay(p)
       \/ SameKey(ticket[p]) = {} /\ Goto(p, "menu")
       \/ Faults /\ Fail(p, "error")
    /\ UNCHANGED <<sessionVars, orders, ticket, status, feed>>

\* The items are read and priced; an unknown, foreign or unavailable item or
\* a bad selection rejects the request.
PlaceMenu(p) ==
    /\ pc[p] = "menu"
    /\ Goto(p, "check") \/ Fail(p, "invalid")
    /\ UNCHANGED <<sessionVars, orders, ticket, status, feed>>

\* Mutant of PlaceCheck: the session is not tested again.
PlaceCheckSkipped(p) ==
    /\ pc[p] = "check"
    /\ Goto(p, "insert")
    /\ UNCHANGED <<sessionVars, orders, ticket, status, feed>>

\* In the transaction the session is read again (not locked) and tested.
PlaceCheck(p) ==
    /\ pc[p] = "check"
    /\ \/ Usable(ticket[p].session) /\ Goto(p, "insert")
       \/ ~Usable(ticket[p].session) /\ Goto(p, "forbidden")
       \/ Faults /\ Goto(p, "failed")
    /\ UNCHANGED <<sessionVars, orders, ticket, status, feed>>

\* Mutant of PlaceInsert: there is no unique index on session and key.
PlaceInsertUnindexed(p) ==
    /\ pc[p] = "insert"
    /\ \E o \in Orders \ Placed :
          /\ orders' = [orders EXCEPT ![o] = [request |-> ticket[p], status |-> "PENDING"]]
          /\ GotoWith(p, "reload", o)
    /\ UNCHANGED <<sessionVars, ticket, status, feed>>

\* The order and its items are inserted and committed.  The index rejects a
\* key already taken; a commit that reports an error may have been applied.
PlaceInsert(p) ==
    /\ pc[p] = "insert"
    /\ \/ \E o \in Orders \ Placed :
            /\ SameKey(ticket[p]) = {}
            /\ orders' = [orders EXCEPT ![o] =
                            [request |-> ticket[p], status |-> "PENDING"]]
            /\ \/ GotoWith(p, "reload", o)
               \/ Faults /\ Goto(p, "failed")
       \/ /\ Faults \/ SameKey(ticket[p]) # {}
          /\ Goto(p, "failed")
          /\ UNCHANGED orders
    /\ UNCHANGED <<sessionVars, ticket, status, feed>>

\* The transaction failed: if the key is taken by now, answer with its order.
PlaceRecover(p) ==
    /\ pc[p] \in {"forbidden", "failed"}
    /\ \/ Replay(p)
       \/ /\ Faults \/ SameKey(ticket[p]) = {}
          /\ Fail(p, IF pc[p] = "forbidden" THEN "refused" ELSE "error")
    /\ UNCHANGED <<sessionVars, orders, ticket, status, feed>>

\* The committed order is loaded for the response.
PlaceReload(p) ==
    /\ pc[p] = "reload"
    /\ \/ Finish(p, "ok", held[p])
       \/ Faults /\ Fail(p, "error")
    /\ UNCHANGED <<sessionVars, orders, ticket, status, feed>>

PlaceStep(p) ==
    \/ PlaceFind(p) \/ PlaceLookup(p) \/ PlaceMenu(p) \/ PlaceCheck(p)
    \/ PlaceInsert(p) \/ PlaceRecover(p) \/ PlaceReload(p)

-----------------------------------------------------------------------------
(* Moving an order on: order/service.go UpdateStatus.                      *)

\* A staff request is answered, and the status it was about is gone.
Answer(u, code, o) == Finish(u, code, o) /\ status' = [status EXCEPT ![u] = Nil]

\* Mutant of UpdateFind: the transition is not tested.
UpdateFindUntested(u) ==
    /\ pc[u] = "idle"
    /\ \E o \in Placed, n \in Status :
          /\ GotoWith(u, "write", o)
          /\ status' = [status EXCEPT ![u] = n]
    /\ UNCHANGED <<sessionVars, orders, ticket, feed>>

\* FindByID with the tenant check, and the test of the transition.
UpdateFind(u) ==
    /\ pc[u] = "idle"
    /\ \/ \E o \in Placed, n \in Status :
            \/ /\ n \in validTransitions[orders[o].status]
               /\ GotoWith(u, "write", o)
               /\ status' = [status EXCEPT ![u] = n]
            \/ /\ n \notin validTransitions[orders[o].status]
               /\ Answer(u, "conflict", Nil)
       \/ Answer(u, "refused", Nil)
    /\ UNCHANGED <<sessionVars, orders, ticket, feed>>

\* repository.UpdateStatus writes the status whatever it is by now; a write
\* that reports an error may have been applied.
UpdateWrite(u) ==
    /\ pc[u] = "write"
    /\ LET written == [orders EXCEPT ![held[u]].status = status[u]]
       IN  \/ orders' = written /\ Goto(u, "reread") /\ UNCHANGED status
           \/ Faults /\ orders' \in {orders, written} /\ Answer(u, "error", Nil)
    /\ UNCHANGED <<sessionVars, ticket, feed>>

\* The session's token and the order are read again.  Without the session the
\* broadcast is skipped; without the order the handler panics.
UpdateReread(u) ==
    /\ pc[u] = "reread"
    /\ \/ /\ Goto(u, "send")
          /\ status' = [status EXCEPT ![u] = orders[held[u]].status]
       \/ Faults /\ (Answer(u, "ok", held[u]) \/ Answer(u, "error", Nil))
    /\ UNCHANGED <<sessionVars, orders, ticket, feed>>

\* Mutant of UpdateSend: the broadcast is left out.
UpdateSendForgotten(u) ==
    /\ pc[u] = "send"
    /\ Answer(u, "ok", held[u])
    /\ UNCHANGED <<sessionVars, orders, ticket, feed>>

\* The order as it was read is broadcast to the session's customers.
UpdateSend(u) ==
    /\ pc[u] = "send"
    /\ feed' = [feed EXCEPT ![held[u]] = status[u]]
    /\ Answer(u, "ok", held[u])
    /\ UNCHANGED <<sessionVars, orders, ticket>>

UpdateStep(u) == UpdateFind(u) \/ UpdateWrite(u) \/ UpdateReread(u) \/ UpdateSend(u)

-----------------------------------------------------------------------------
(* What the order requests do not control: session rows and time.          *)

SessionChange(i) ==
    /\ active' \in {active \union {i}, active \ {i}}
    /\ UNCHANGED <<expired, orders, workerVars, feed>>

SessionExpire(i) ==
    /\ expired' = expired \union {i}
    /\ UNCHANGED <<active, orders, workerVars, feed>>

Next ==
    \/ \E p \in Placements : PlaceStep(p)
    \/ \E u \in Staff : UpdateStep(u)
    \/ \E i \in Sessions : SessionChange(i) \/ SessionExpire(i)

Spec == Init /\ [][Next]_vars

-----------------------------------------------------------------------------
(* Properties.                                                             *)

\* Every variable has its type.
TypeOK ==
    /\ active \subseteq Sessions
    /\ expired \subseteq Sessions
    /\ orders \in [Orders -> Row]
    /\ pc \in [Requests -> {"idle", "lookup", "menu", "check", "insert", "forbidden",
                            "failed", "reload", "write", "reread", "send"}]
    /\ ticket \in [Placements -> Ticket]
    /\ held \in [Requests -> Orders \union {Nil}]
    /\ status \in [Staff -> Status \union {Nil}]
    /\ feed \in [Orders -> Status \union {Nil}]
    /\ reply \in [to : Requests \union {Nil},
                  code : {"none", "ok", "refused", "conflict", "invalid", "error"},
                  order : Orders \union {Nil}]

\* Client retries and concurrent submissions under one idempotency key leave
\* at most one order in a session (docs/DECISIONS.md: "prevents duplicate
\* order side effects on client retries").
OneOrderPerKey ==
    \A o, q \in Placed :
        /\ orders[o].request.key # Nil
        /\ orders[o].request.key = orders[q].request.key
        /\ orders[o].request.session = orders[q].request.session
        => o = q

\* A customer is told "placed" only about an order made from the very request
\* sent: its session, its key and its body, also when a retry is answered with
\* the order that another worker inserted.
OkNamesTheRequest ==
    \A p \in Placements :
        reply.to = p /\ reply.code = "ok"
        => reply.order \in Placed /\ orders[reply.order].request = ticket[p]

\* A customer is told of a conflict only while an order really exists in the
\* session under the same key with another body.
ConflictIsReal ==
    \A p \in Placements :
        reply.to = p /\ reply.code = "conflict"
        => \E o \in SameKey(ticket[p]) : orders[o].request.body # ticket[p].body

\* What a customer is told of is in the table, whichever worker put it there
\* (order/service.go:91, 197): both of the above.
AnswersMatchOrders == OkNamesTheRequest /\ ConflictIsReal
=============================================================================
