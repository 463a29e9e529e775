------------------------------- MODULE Dining -------------------------------
(***************************************************************************)
(* Sessions and orders over one database: the order requests test the very *)
(* session rows that scans, closes and payments write, and an unforced     *)
(* close tallies the very orders that customers place and staff move on.   *)
(* Each component keeps its own requests; a step of the system is one step *)
(* of one of them.  That each component sees no more of the other than its *)
(* own module lets its environment do is ComponentsKeepTheirSpecs.         *)
(***************************************************************************)
CONSTANTS
    Tables, Sessions, Scans, Closes, Payments, PaymentStatus,
    Orders, Keys, Bodies, Placements, Staff,
    Faults, Nil

VARIABLES
    sessions, expired,                          \* the sessions table and time
    sPc, target, sHeld, copy, sReply,           \* scans, closes and payments
    orders,                                     \* the orders table
    oPc, ticket, oHeld, status, feed, oReply    \* placements and staff updates

sessionVars == <<sessions, expired, sPc, target, sHeld, copy, sReply>>
orderVars == <<orders, oPc, ticket, oHeld, status, feed, oReply>>
vars == <<sessionVars, orderVars>>

\* What an order request asks of a session row.
ActiveSessions == {i \in Sessions : sessions[i].status = "ACTIVE"}

\* What CountOrdersBySession counts as pending (session/repository.go).
OrdersIn(i, statuses) ==
    {o \in Orders : orders[o].request.session = i /\ orders[o].status \in statuses}

\* Mutant of UnfinishedSessions: only PENDING orders are counted.
SessionsPending == {i \in Sessions : OrdersIn(i, {"PENDING"}) # {}}

UnfinishedSessions == {i \in Sessions : OrdersIn(i, {"PENDING", "ACCEPTED"}) # {}}

S == INSTANCE Sessions
        WITH unfinished <- UnfinishedSessions, pc <- sPc, held <- sHeld, reply <- sReply

O == INSTANCE Orders
        WITH active <- ActiveSessions, pc <- oPc, held <- oHeld, reply <- oReply

ASSUME DiningAssumption == S!SessionsAssumption /\ O!OrdersAssumption

Init ==
    /\ orders = [o \in Orders |-> O!Unplaced]
    /\ S!Init
    /\ O!Init

SessionStep ==
    /\ UNCHANGED orderVars
    /\ \/ \E s \in Scans : S!ScanStep(s)
       \/ \E c \in Closes : S!CloseStep(c)
       \/ \E p \in Payments : S!PayStep(p)
       \/ \E i \in Sessions : S!Expire(i)

OrderStep ==
    /\ UNCHANGED sessionVars
    /\ \/ \E p \in Placements : O!PlaceStep(p)
       \/ \E u \in Staff : O!UpdateStep(u)

Next == SessionStep \/ OrderStep

Spec == Init /\ [][Next]_vars

-----------------------------------------------------------------------------
(* Properties.                                                             *)

\* The composed system is an instance of each component: orders change for the
\* session requests only as OrdersChange says, and session rows change for the
\* order requests only as SessionChange and SessionExpire say.
ComponentsKeepTheirSpecs == S!Spec /\ O!Spec

\* A CLOSED session that no placement has already tested as ACTIVE and no
\* payment request holds a stale ACTIVE copy of.
Sealed(i) ==
    /\ sessions[i].status = "CLOSED"
    /\ \A p \in Placements : ~(oPc[p] = "insert" /\ ticket[p].session = i)
    /\ \A p \in Payments : ~(sPc[p] = "pay" /\ sHeld[p] = i /\ copy[p].status = "ACTIVE")

\* Once a session is sealed it stays CLOSED for good and never receives another
\* order: the races that let an order or a stale save into a closed session
\* need a request that was under way when it was closed.
SealedStaysSealed ==
    [][\A i \in Sessions : Sealed(i) =>
        /\ Sealed(i)'
        /\ \A o \in Orders :
              orders'[o].request.session = i => orders[o].request.session = i]_vars

\* order/service.go:155 "Lock session row": with the row locked, an order can
\* be inserted only into a session that is ACTIVE at that moment.
OrdersEnterActiveSession ==
    [][\A o \in Orders :
        orders[o].status = "NONE" /\ orders'[o].status # "NONE"
        => orders'[o].request.session \in ActiveSessions]_vars
=============================================================================
