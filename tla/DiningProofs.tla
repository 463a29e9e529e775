---------------------------- MODULE DiningProofs ----------------------------
(***************************************************************************)
(* Proofs about Dining for every number of tables, sessions, orders and    *)
(* workers.                                                                *)
(*                                                                         *)
(* The argument.  What was proved about sessions and about orders holds in *)
(* the composition because each sees the other only as the environment of  *)
(* its own module: an order step changes which sessions have unfinished    *)
(* orders one created session at a time (OrderSteps), and a session step   *)
(* changes one row at most (SessionSteps).  For the former the invariants  *)
(* of the components are not enough: an order must be in a session that    *)
(* was created, which Linked adds.  An unforced close needs to know, until *)
(* it saves, that the orders of its session that are not newcomers are     *)
(* finished (Counted).                                                     *)
(***************************************************************************)
EXTENDS DiningHistory, TLAPS

\* The components' own histories are not observed here: nothing below cites a
\* fact about them.
SP == INSTANCE SessionsProofs
        WITH unfinished <- UnfinishedSessions, pc <- sPc, held <- sHeld, reply <- sReply,
             owed <- {}

OP == INSTANCE OrdersProofs
        WITH active <- ActiveSessions, pc <- oPc, held <- oHeld, reply <- oReply,
             been <- {}, untold <- {}, failed <- {}, raced <- {}, told <- {}

\* Orders are placed in sessions that have been created.
Linked ==
    /\ \A p \in Placements :
          oPc[p] \in {"lookup", "menu", "check", "insert"} => ticket[p].session \in SP!Born
    /\ \A o \in OP!Placed : orders[o].request.session \in SP!Born

DInv == SP!IInv /\ OP!IInv /\ Linked

-----------------------------------------------------------------------------
(* The instances of the proofs are about the instances in Dining.          *)

\* SP is about the very actions and variables that S is about.
LEMMA SameSessions ==
    /\ S!SessionsAssumption <=> SP!SessionsAssumption
    /\ S!Init <=> SP!Init
    /\ S!Next <=> SP!Next
    /\ [S!Next]_(S!vars) <=> [SP!Next]_(SP!vars)
<1> USE DEF S!dbVars, SP!dbVars, S!workerVars, SP!workerVars, S!Requests, SP!Requests,
            S!Unborn, SP!Unborn, S!Born, SP!Born, S!ActiveAt, SP!ActiveAt,
            S!IndexAdmits, SP!IndexAdmits, S!Save, SP!Save, S!NoReply, SP!NoReply,
            S!GotoWith, SP!GotoWith, S!Goto, SP!Goto, S!Finish, SP!Finish, S!Fail, SP!Fail
<1>1. S!SessionsAssumption <=> SP!SessionsAssumption
  BY DEF S!SessionsAssumption, SP!SessionsAssumption
<1>2. (S!Init <=> SP!Init) /\ (UNCHANGED S!vars <=> UNCHANGED SP!vars)
  BY DEF S!Init, SP!Init, S!vars, SP!vars
<1>3. \A s : S!ScanStep(s) <=> SP!ScanStep(s)
  BY DEF S!ScanStep, SP!ScanStep, S!ScanFindTable, SP!ScanFindTable,
         S!ScanFindActive, SP!ScanFindActive, S!ScanExpire, SP!ScanExpire,
         S!ScanCount, SP!ScanCount, S!ScanAdopt, SP!ScanAdopt, S!ScanCreate, SP!ScanCreate,
         S!ScanRecover, SP!ScanRecover, S!ScanBuild, SP!ScanBuild
<1>4. \A c : S!CloseStep(c) <=> SP!CloseStep(c)
  BY DEF S!CloseStep, SP!CloseStep, S!CloseFind, SP!CloseFind, S!CloseTally, SP!CloseTally,
         S!CloseSave, SP!CloseSave
<1>5. \A p : S!PayStep(p) <=> SP!PayStep(p)
  BY DEF S!PayStep, SP!PayStep, S!PayFind, SP!PayFind, S!PaySave, SP!PaySave
<1>6. \A i : (S!Expire(i) <=> SP!Expire(i)) /\ (S!OrdersChange(i) <=> SP!OrdersChange(i))
  BY DEF S!Expire, SP!Expire, S!OrdersChange, SP!OrdersChange
<1>7. S!Next <=> SP!Next
  BY <1>3, <1>4, <1>5, <1>6 DEF S!Next, SP!Next
<1>8. QED
  BY <1>1, <1>2, <1>7

\* OP is about the very actions and variables that O is about.
LEMMA SameOrders ==
    /\ O!OrdersAssumption <=> OP!OrdersAssumption
    /\ O!Init <=> OP!Init
    /\ O!Next <=> OP!Next
    /\ [O!Next]_(O!vars) <=> [OP!Next]_(OP!vars)
<1> USE DEF O!sessionVars, OP!sessionVars, O!workerVars, OP!workerVars,
            O!Requests, OP!Requests, O!NoTicket, OP!NoTicket, O!Unplaced, OP!Unplaced,
            O!Placed, OP!Placed, O!SameKey, OP!SameKey, O!Usable, OP!Usable,
            O!NoReply, OP!NoReply, O!GotoWith, OP!GotoWith, O!Goto, OP!Goto,
            O!Finish, OP!Finish, O!Fail, OP!Fail, O!validTransitions, OP!validTransitions,
            O!Status, OP!Status
<1>1. O!OrdersAssumption <=> OP!OrdersAssumption
  BY DEF O!OrdersAssumption, OP!OrdersAssumption
<1>2. (O!Init <=> OP!Init) /\ (UNCHANGED O!vars <=> UNCHANGED OP!vars)
  BY DEF O!Init, OP!Init, O!vars, OP!vars
<1>3. \A p : O!PlaceStep(p) <=> OP!PlaceStep(p)
  BY DEF O!PlaceStep, OP!PlaceStep, O!PlaceFind, OP!PlaceFind, O!PlaceLookup, OP!PlaceLookup,
         O!PlaceMenu, OP!PlaceMenu, O!PlaceCheck, OP!PlaceCheck, O!PlaceInsert, OP!PlaceInsert,
         O!PlaceRecover, OP!PlaceRecover, O!PlaceReload, OP!PlaceReload, O!Replay, OP!Replay
<1>4. \A u : O!UpdateStep(u) <=> OP!UpdateStep(u)
  BY DEF O!UpdateStep, OP!UpdateStep, O!UpdateFind, OP!UpdateFind, O!UpdateWrite, OP!UpdateWrite,
         O!UpdateReread, OP!UpdateReread, O!UpdateSend, OP!UpdateSend, O!Answer, OP!Answer
<1>5. \A i : /\ O!SessionChange(i) <=> OP!SessionChange(i)
             /\ O!SessionExpire(i) <=> OP!SessionExpire(i)
  BY DEF O!SessionChange, OP!SessionChange, O!SessionExpire, OP!SessionExpire
<1>6. O!Next <=> OP!Next
  BY <1>3, <1>4, <1>5 DEF O!Next, OP!Next
<1>7. QED
  BY <1>1, <1>2, <1>6

\* The assumptions of both components hold of the constants.
LEMMA Assumptions == SP!SessionsAssumption /\ OP!OrdersAssumption
  BY DiningAssumption, SameSessions, SameOrders

-----------------------------------------------------------------------------
(* What each component sees of a step of the other.                        *)

\* A step of the session requests is, for the order requests, the change or the
\* expiry of one session, or nothing.
LEMMA SessionSteps ==
    ASSUME SP!IInv, SessionStep
    PROVE  S!Next /\ [O!Next]_(O!vars)
<1>1. S!Next
  BY DEF SessionStep, S!Next
<1>2. CASE \E i \in Sessions : S!Expire(i)
  <2>1. PICK i \in Sessions : S!Expire(i)
    BY <1>2
  <2>2. O!SessionExpire(i)
    BY <2>1 DEF S!Expire, O!SessionExpire, SessionStep, orderVars, O!workerVars, ActiveSessions
  <2>3. QED
    BY <1>1, <2>2 DEF O!Next
<1>3. CASE ~ \E i \in Sessions : S!Expire(i)
  <2>1. UNCHANGED expired /\ UNCHANGED orderVars
    BY <1>3 DEF SessionStep, S!ScanStep, S!ScanFindTable, S!ScanFindActive, S!ScanExpire,
       S!ScanCount, S!ScanAdopt, S!ScanCreate, S!ScanRecover, S!ScanBuild, S!CloseStep,
       S!CloseFind, S!CloseTally, S!CloseSave, S!PayStep, S!PayFind, S!PaySave, S!dbVars
  <2>2. UNCHANGED sessions \/ SP!Saves
    BY <1>1, Assumptions, SameSessions, SP!StepSaves DEF SP!IInv
  <2>3. CASE UNCHANGED sessions
    BY <1>1, <2>1, <2>3 DEF O!vars, orderVars, ActiveSessions
  <2>4. CASE SP!Saves
    <3>1. PICK i \in Sessions : \E row : sessions' = [sessions EXCEPT ![i] = row]
      BY <2>4 DEF SP!Saves, SP!Save
    <3>2. sessions \in [Sessions -> SP!Row]
      BY DEF SP!IInv, SP!TypeOK
    <3>3. \A j \in Sessions \ {i} : sessions'[j] = sessions[j]
      BY <3>1, <3>2
    <3>4. ActiveSessions' \in {ActiveSessions \union {i}, ActiveSessions \ {i}}
      BY <3>3 DEF ActiveSessions
    <3>5. O!SessionChange(i)
      BY <2>1, <3>4 DEF O!SessionChange, orderVars, O!workerVars
    <3>6. QED
      BY <1>1, <3>5 DEF O!Next
  <2>5. QED
    BY <2>2, <2>3, <2>4
<1>4. QED
  BY <1>2, <1>3

\* A step of the order requests gives one session that was created an unfinished
\* order or takes it away, or changes nothing that session requests see.
LEMMA OrderSteps ==
    ASSUME DInv, OrderStep
    PROVE  O!Next /\ OP!Evolves /\ [S!Next]_(S!vars)
<1>1. O!Next
  BY DEF OrderStep, O!Next
<1>2. OP!Evolves
  BY <1>1, Assumptions, SameOrders, OP!StepEvolves DEF DInv
<1>3. orders \in [Orders -> OP!Row]
  BY DEF DInv, OP!IInv, OP!TypeOK
<1>4. UNCHANGED sessionVars
  BY DEF OrderStep
<1>5. CASE UNCHANGED orders
  <2>1. UnfinishedSessions' = UnfinishedSessions
    BY <1>5 DEF UnfinishedSessions, OrdersIn
  <2>2. QED
    BY <1>1, <1>2, <1>4, <2>1 DEF S!vars, sessionVars
<1>6. ASSUME NEW o \in Orders, NEW i \in Sessions, i \in SP!Born,
             \A q \in Orders \ {o} : orders'[q] = orders[q],
             orders[o].status \in {"PENDING", "ACCEPTED"} => orders[o].request.session = i,
             orders'[o].request.session = i
      PROVE  [S!Next]_(S!vars)
  <2>1. \A j \in Sessions \ {i} : (OrdersIn(j, {"PENDING", "ACCEPTED"}) # {})'
                                  <=> OrdersIn(j, {"PENDING", "ACCEPTED"}) # {}
    BY <1>6 DEF OrdersIn
  <2>2. UnfinishedSessions' \in {UnfinishedSessions \union {i}, UnfinishedSessions \ {i}}
    BY <2>1 DEF UnfinishedSessions
  <2>3. S!OrdersChange(i)
    BY <1>4, <1>6, <2>2 DEF S!OrdersChange, S!Born, SP!Born, sessionVars, S!workerVars
  <2>4. QED
    BY <2>3 DEF S!Next
<1>7. ASSUME NEW o \in Orders \ OP!Placed, NEW p \in Placements, oPc[p] = "insert",
             orders' = [orders EXCEPT ![o] = [request |-> ticket[p], status |-> "PENDING"]]
      PROVE  [S!Next]_(S!vars)
  <2>1. ticket[p].session \in SP!Born
    BY <1>7 DEF DInv, Linked
  <2>2. orders[o].status = "NONE" /\ orders'[o].request = ticket[p]
    BY <1>3, <1>7 DEF OP!Placed
  <2>3. QED
    BY <1>3, <1>6, <1>7, <2>1, <2>2 DEF SP!Born
<1>8. ASSUME NEW o \in OP!Placed, NEW n, orders' = [orders EXCEPT ![o].status = n]
      PROVE  [S!Next]_(S!vars)
  <2>1. orders[o].request.session \in SP!Born
    BY <1>8 DEF DInv, Linked
  <2>2. o \in Orders /\ orders'[o].request = orders[o].request
    BY <1>3, <1>8 DEF OP!Placed, OP!Row
  <2>3. QED
    BY <1>3, <1>6, <1>8, <2>1, <2>2 DEF SP!Born
<1>9. QED
  BY <1>1, <1>2, <1>5, <1>7, <1>8 DEF OP!Evolves

\* Every step of the system is a step of each component, or a stutter of it.
LEMMA ComponentSteps == DInv /\ [Next]_vars => [S!Next]_(S!vars) /\ [O!Next]_(O!vars)
<1>1. UNCHANGED vars => UNCHANGED S!vars /\ UNCHANGED O!vars
  BY DEF vars, sessionVars, orderVars, S!vars, O!vars, UnfinishedSessions, OrdersIn,
         ActiveSessions
<1>2. QED
  BY <1>1, SessionSteps, OrderSteps DEF DInv, Next

-----------------------------------------------------------------------------
(* The invariant.                                                          *)

\* The empty database satisfies the invariant.
LEMMA InitDInv == Init => DInv
<1> SUFFICES ASSUME Init PROVE DInv
  OBVIOUS
<1>1. SP!IInv /\ OP!IInv
  BY Assumptions, SameSessions, SameOrders, SP!InitIInv, OP!InitIInv DEF Init
<1>2. Linked
  BY DEF Init, O!Init, O!Requests, O!Unplaced, OP!Placed, Linked
<1>3. QED
  BY <1>1, <1>2 DEF DInv

\* A placement leaves the tickets and labels of the others alone, starts with a
\* session that is usable, and gets to its insert only past that test.
LEMMA PlacementStep ==
    ASSUME DInv, NEW p \in Placements, O!PlaceStep(p)
    PROVE  /\ \A q \in Placements \ {p} : oPc'[q] = oPc[q] /\ ticket'[q] = ticket[q]
           /\ ticket'[p] # ticket[p] \/ oPc[p] = "idle"
              => \/ oPc'[p] = "idle"
                 \/ O!Usable(ticket'[p].session) /\ oPc'[p] \in {"menu", "lookup"}
           /\ oPc'[p] = "insert" => O!Usable(ticket[p].session) /\ ticket'[p] = ticket[p]
           /\ oPc'[p] \in {"lookup", "menu", "check", "insert"}
              => oPc[p] \in {"idle", "lookup", "menu", "check"}
<1>1. /\ oPc \in [OP!Requests -> OP!Label] /\ ticket \in [Placements -> OP!Ticket]
      /\ p \in OP!Requests /\ Placements \subseteq OP!Requests
  BY DEF DInv, OP!IInv, OP!TypeOK, OP!Label, OP!Requests
<1> USE <1>1 DEF O!Goto, O!GotoWith, O!Fail, O!Finish
<1>2. CASE O!PlaceFind(p)
  <2>1. PICK t : /\ ticket' = [ticket EXCEPT ![p] = t]
                 /\ \/ O!Fail(p, "refused") \/ O!Fail(p, "error")
                    \/ /\ O!Usable(t.session)
                       /\ O!Goto(p, IF t.key = Nil THEN "menu" ELSE "lookup")
    BY <1>2 DEF O!PlaceFind
  <2>2. oPc[p] = "idle" /\ ticket'[p] = t
    BY <1>2, <2>1 DEF O!PlaceFind
  <2>3. \/ oPc'[p] = "idle"
        \/ O!Usable(t.session) /\ oPc'[p] \in {"menu", "lookup"}
    BY <2>1
  <2>4. QED
    BY <2>1, <2>2, <2>3
<1>3. CASE O!PlaceLookup(p)
  BY <1>3 DEF O!PlaceLookup, O!Replay
<1>4. CASE O!PlaceMenu(p)
  BY <1>4 DEF O!PlaceMenu
<1>5. CASE O!PlaceCheck(p)
  BY <1>5 DEF O!PlaceCheck
<1>6. CASE O!PlaceInsert(p)
  BY <1>6 DEF O!PlaceInsert
<1>7. CASE O!PlaceRecover(p)
  BY <1>7 DEF O!PlaceRecover, O!Replay
<1>8. CASE O!PlaceReload(p)
  BY <1>8 DEF O!PlaceReload
<1>9. QED
  BY <1>2, <1>3, <1>4, <1>5, <1>6, <1>7, <1>8 DEF O!PlaceStep

\* A staff update leaves placements alone.
LEMMA StaffStep ==
    ASSUME DInv, NEW u \in Staff, O!UpdateStep(u)
    PROVE  \A q \in Placements : oPc'[q] = oPc[q] /\ ticket'[q] = ticket[q]
<1>1. /\ oPc \in [OP!Requests -> OP!Label] /\ u \notin Placements
      /\ Placements \subseteq OP!Requests
  BY Assumptions DEF DInv, OP!IInv, OP!TypeOK, OP!Label, OP!Requests, OP!OrdersAssumption
<1>2. QED
  BY <1>1 DEF O!UpdateStep, O!UpdateFind, O!UpdateWrite, O!UpdateReread, O!UpdateSend,
     O!Answer, O!Goto, O!GotoWith, O!Finish

\* Orders stay in sessions that were created: sessions are never deleted, and a
\* placement goes on only with one that was ACTIVE.
LEMMA LinkedStep == DInv /\ [Next]_vars => Linked'
<1> SUFFICES ASSUME DInv, [Next]_vars PROVE Linked'
  OBVIOUS
<1>1. CASE SessionStep \/ UNCHANGED vars
  <2>1. [SP!Next]_(SP!vars)
    BY ComponentSteps, SameSessions
  <2>2. SP!Born \subseteq SP!Born'
    BY <2>1, Assumptions, SP!Kept DEF DInv, SP!IInv
  <2>3. UNCHANGED orderVars
    BY <1>1 DEF SessionStep, vars
  <2>4. QED
    BY <2>2, <2>3 DEF DInv, Linked, orderVars, OP!Placed
<1>2. CASE OrderStep
  <2>1. SP!Born' = SP!Born
    BY <1>2 DEF OrderStep, sessionVars, SP!Born
  <2>2. ASSUME NEW q \in Placements, oPc'[q] \in {"lookup", "menu", "check", "insert"}
        PROVE  ticket'[q].session \in SP!Born
    <3>1. ASSUME oPc'[q] = oPc[q], ticket'[q] = ticket[q]
          PROVE  ticket'[q].session \in SP!Born
      BY <2>2, <3>1 DEF DInv, Linked
    <3>2. ASSUME O!PlaceStep(q) PROVE ticket'[q].session \in SP!Born
      <4>1. CASE ticket'[q] # ticket[q] \/ oPc[q] = "idle"
        BY <2>2, <3>2, <4>1, PlacementStep DEF O!Usable, ActiveSessions, SP!Born
      <4>2. CASE ticket'[q] = ticket[q] /\ oPc[q] # "idle"
        BY <2>2, <3>2, <4>2, PlacementStep DEF DInv, Linked
      <4>3. QED
        BY <4>1, <4>2
    <3>3. QED
      BY <1>2, <3>1, <3>2, PlacementStep, StaffStep DEF OrderStep
  <2>3. ASSUME NEW o \in OP!Placed' PROVE orders'[o].request.session \in SP!Born
    <3>1. orders \in [Orders -> OP!Row] /\ OP!Evolves
      BY <1>2, OrderSteps DEF DInv, OP!IInv, OP!TypeOK
    <3>2. CASE orders'[o].request = orders[o].request /\ o \in OP!Placed
      BY <3>2 DEF DInv, Linked
    <3>3. CASE \E p \in Placements : oPc[p] = "insert" /\ orders'[o].request = ticket[p]
      BY <3>3 DEF DInv, Linked
    <3>4. QED
      BY <2>3, <3>1, <3>2, <3>3 DEF OP!Evolves, OP!Placed, OP!Row
  <2>4. QED
    BY <2>1, <2>2, <2>3 DEF Linked
<1>3. QED
  BY <1>1, <1>2 DEF Next

\* A step preserves the invariant.
LEMMA StepDInv == DInv /\ [Next]_vars => DInv'
<1> SUFFICES ASSUME DInv, [Next]_vars PROVE DInv'
  OBVIOUS
<1>1. [SP!Next]_(SP!vars) /\ [OP!Next]_(OP!vars)
  BY ComponentSteps, SameSessions, SameOrders
<1>2. SP!IInv' /\ OP!IInv'
  BY <1>1, Assumptions, SP!StepIInv, OP!StepIInv DEF DInv
<1>3. QED
  BY <1>2, LinkedStep DEF DInv

\* DInv holds in every reachable state.
LEMMA Invariance == Spec => []DInv
  BY InitDInv, StepDInv, PTL DEF Spec

-----------------------------------------------------------------------------
(* The theorems.                                                           *)

\* Sessions and orders over one database are sessions as Sessions describes them
\* and orders as Orders does (ComponentsKeepTheirSpecs), so what was proved about
\* either holds of both together.
THEOREM CompositionIsSound == Spec => ComponentsKeepTheirSpecs
<1>1. Init => S!Init /\ O!Init
  BY DEF Init
<1>2. DInv /\ [Next]_vars => [S!Next]_(S!vars) /\ [O!Next]_(O!vars)
  BY ComponentSteps
<1>3. QED
  BY <1>1, <1>2, Invariance, PTL DEF Spec, ComponentsKeepTheirSpecs, S!Spec, O!Spec

\* What sessions and orders promise on their own.
SessionsPromise ==
    /\ [](S!OneActivePerTable /\ S!ScanAnswersOwnTable)
    /\ S!ReopenedOnlyByPayment
    /\ S!ClosedOnlyOnPurpose
    /\ S!PaymentChangesExplained
    /\ S!ImplementsOccupancy

OrdersPromise == [](O!OneOrderPerKey /\ O!AnswersMatchOrders)

\* The sessions of the composition keep what was proved of sessions alone.
LEMMA SessionsKeepTheirs == Spec => SessionsPromise
<1>1. Spec => SP!Spec
  BY CompositionIsSound, SameSessions, PTL DEF ComponentsKeepTheirSpecs, S!Spec, SP!Spec
<1>2. SP!Spec => [](S!OneActivePerTable /\ S!ScanAnswersOwnTable)
  <2>1. /\ S!OneActivePerTable <=> SP!OneActivePerTable
        /\ S!ScanAnswersOwnTable <=> SP!ScanAnswersOwnTable
    BY DEF S!OneActivePerTable, SP!OneActivePerTable, S!ScanAnswersOwnTable,
           SP!ScanAnswersOwnTable, S!Born, SP!Born
  <2>2. QED
    BY <2>1, Assumptions, SP!OneActiveSession, SP!ScansAnswerOwnTable, PTL
<1>3. SP!Spec => S!ReopenedOnlyByPayment
  <2>1. SP!ReopenedOnlyByPayment => S!ReopenedOnlyByPayment
    BY PTL DEF S!ReopenedOnlyByPayment, SP!ReopenedOnlyByPayment, S!vars, SP!vars
  <2>2. QED
    BY <2>1, Assumptions, SP!OnlyPaymentsReopen
<1>4. SP!Spec => S!ClosedOnlyOnPurpose
  <2>1. SP!ClosedOnlyOnPurpose => S!ClosedOnlyOnPurpose
    BY PTL DEF S!ClosedOnlyOnPurpose, SP!ClosedOnlyOnPurpose, S!vars, SP!vars
  <2>2. QED
    BY <2>1, Assumptions, SP!NoScanEndsLiveSession
<1>5. SP!Spec => S!PaymentChangesExplained
  <2>1. SP!PaymentChangesExplained => S!PaymentChangesExplained
    BY PTL DEF S!PaymentChangesExplained, SP!PaymentChangesExplained, S!vars, SP!vars,
       S!Requests, SP!Requests
  <2>2. QED
    BY <2>1, Assumptions, SP!PaymentsExplained
<1>6. SP!Spec => S!ImplementsOccupancy
  <2> USE DEF S!Occupied, SP!Occupied, S!Left, SP!Left, S!ActiveAt, SP!ActiveAt
  <2>1. S!Abstract!OccInit <=> SP!Abstract!OccInit
    BY DEF S!Abstract!OccInit, SP!Abstract!OccInit
  <2>2. /\ S!Abstract!OccNext <=> SP!Abstract!OccNext
        /\ UNCHANGED S!Abstract!occVars <=> UNCHANGED SP!Abstract!occVars
    BY DEF S!Abstract!occVars, SP!Abstract!occVars, S!Abstract!OccNext, SP!Abstract!OccNext,
           S!Abstract!StrictNext, SP!Abstract!StrictNext, S!Abstract!Known, SP!Abstract!Known,
           S!Abstract!Seat, SP!Abstract!Seat, S!Abstract!Leave, SP!Abstract!Leave,
           S!Abstract!Reseat, SP!Abstract!Reseat
  <2>3. SP!ImplementsOccupancy => S!ImplementsOccupancy
    BY <2>1, <2>2, PTL DEF S!ImplementsOccupancy, SP!ImplementsOccupancy,
                           S!Abstract!Promise, SP!Abstract!Promise
  <2>4. QED
    BY <2>3, Assumptions, SP!SessionsImplementOccupancy
<1>7. QED
  BY <1>1, <1>2, <1>3, <1>4, <1>5, <1>6, PTL DEF SessionsPromise

\* The orders of the composition keep what was proved of orders alone.
LEMMA OrdersKeepTheirs == Spec => OrdersPromise
<1>1. Spec => OP!Spec
  BY CompositionIsSound, SameOrders, PTL DEF ComponentsKeepTheirSpecs, O!Spec, OP!Spec
<1>2. /\ O!OneOrderPerKey <=> OP!OneOrderPerKey
      /\ O!AnswersMatchOrders <=> OP!AnswersMatchOrders
  BY DEF O!OneOrderPerKey, OP!OneOrderPerKey, O!AnswersMatchOrders, OP!AnswersMatchOrders,
         O!OkNamesTheRequest, OP!OkNamesTheRequest, O!ConflictIsReal, OP!ConflictIsReal,
         O!Placed, OP!Placed, O!SameKey, OP!SameKey
<1>3. QED
  BY <1>1, <1>2, Assumptions, OP!OneOrder, OP!AnswersAreTrue, PTL DEF OrdersPromise

\* Whatever races, in the composition, too, a table has one ACTIVE session and a key
\* one order, guests are told of sessions at their own table and customers the truth
\* about their orders, sessions end, come back and change their payment only as their
\* own requests explain, and tables are seated and left as Occupancy says.
THEOREM TogetherTheyKeepTheirPromises == Spec => SessionsPromise /\ OrdersPromise
  BY SessionsKeepTheirs, OrdersKeepTheirs

\* What holds of one step for a sealed session.
StaysSealed(i) ==
    Sealed(i) =>
        /\ Sealed(i)'
        /\ \A o \in Orders :
              orders'[o].request.session = i => orders[o].request.session = i

\* A session request cannot break the seal: only a payment with an ACTIVE copy could
\* reopen the session, and payments that read it now copy CLOSED.
LEMMA SealedBySessions ==
    ASSUME DInv, SessionStep, NEW i \in Sessions, Sealed(i)
    PROVE  Sealed(i)' /\ UNCHANGED orders
<1>1. UNCHANGED orderVars
  BY DEF SessionStep
<1>2. [SP!Next]_(SP!vars) /\ SP!IInv
  BY SessionSteps, SameSessions DEF DInv
<1>3. sessions'[i].status = "CLOSED"
  BY <1>2, Assumptions, SP!ReopenStep DEF Sealed
<1>4. ASSUME NEW p \in Payments, sPc'[p] = "pay", sHeld'[p] = i, copy'[p].status = "ACTIVE"
      PROVE  FALSE
  <2>1. SP!TypeOK /\ p \in SP!Requests
    BY <1>2 DEF SP!IInv, SP!Requests
  <2>2. CASE sPc'[p] = sPc[p] /\ sHeld'[p] = sHeld[p] /\ copy'[p] = copy[p]
    BY <1>4, <2>2 DEF Sealed
  <2>3. CASE SP!PayStep(p)
    BY <1>4, <2>1, <2>3 DEF SP!PayStep, SP!PayFind, SP!PaySave, SP!Fail, SP!Finish, SP!GotoWith,
       SP!TypeOK, SP!Row, SP!Born, Sealed
  <2>4. CASE UNCHANGED SP!vars
    BY <2>2, <2>4 DEF SP!vars
  <2>5. CASE SP!Next
    <3>1. ASSUME NEW j \in Sessions, SP!Expire(j) \/ SP!OrdersChange(j) PROVE FALSE
      BY <2>2, <3>1 DEF SP!Expire, SP!OrdersChange, SP!workerVars
    <3>2. ASSUME NEW r \in SP!Requests, r # p,
                 \/ r \in Scans /\ SP!ScanStep(r)
                 \/ r \in Closes /\ SP!CloseStep(r)
                 \/ r \in Payments /\ SP!PayStep(r)
          PROVE  FALSE
      BY <1>2, <2>1, <2>2, <3>2, Assumptions, SP!OthersKept DEF SP!IInv
    <3>3. p \notin Scans /\ p \notin Closes
      BY Assumptions DEF SP!SessionsAssumption
    <3>4. QED
      BY <2>3, <2>5, <3>1, <3>2, <3>3 DEF SP!Next, SP!Requests
  <2>6. QED
    BY <1>2, <2>4, <2>5
<1>5. QED
  BY <1>1, <1>3, <1>4 DEF Sealed, orderVars

\* A placement cannot break the seal: it tests the session again before it inserts.
LEMMA SealedByOrders ==
    ASSUME DInv, OrderStep, NEW i \in Sessions, Sealed(i)
    PROVE  /\ Sealed(i)'
           /\ \A o \in Orders :
                 orders'[o].request.session = i => orders[o].request.session = i
<1>1. UNCHANGED sessionVars
  BY DEF OrderStep
<1>2. ASSUME NEW p \in Placements, oPc'[p] = "insert", ticket'[p].session = i
      PROVE  FALSE
  <2>1. CASE oPc'[p] = oPc[p] /\ ticket'[p] = ticket[p]
    BY <1>2, <2>1 DEF Sealed
  <2>2. CASE O!PlaceStep(p)
    BY <1>2, <2>2, PlacementStep DEF O!Usable, ActiveSessions, Sealed
  <2>3. QED
    BY <2>1, <2>2, PlacementStep, StaffStep DEF OrderStep
<1>3. ASSUME NEW o \in Orders, orders'[o].request.session = i
      PROVE  orders[o].request.session = i
  <2>1. orders \in [Orders -> OP!Row] /\ OP!Evolves
    BY OrderSteps DEF DInv, OP!IInv, OP!TypeOK
  <2>2. CASE orders'[o].request = orders[o].request
    BY <1>3, <2>2
  <2>3. CASE \E p \in Placements : oPc[p] = "insert" /\ orders'[o].request = ticket[p]
    BY <1>3, <2>3 DEF Sealed
  <2>4. QED
    BY <2>1, <2>2, <2>3 DEF OP!Evolves, OP!Placed, OP!Row
<1>4. QED
  BY <1>1, <1>2, <1>3 DEF Sealed, sessionVars

\* A closed session that no request under way still holds as ACTIVE is closed for
\* good and gets no more orders (SealedStaysSealed), whatever else races.
THEOREM SealedForGood == Spec => SealedStaysSealed
<1>1. ASSUME DInv, [Next]_vars
      PROVE  [\A i \in Sessions : StaysSealed(i)]_vars
  BY <1>1, SealedBySessions, SealedByOrders DEF Next, StaysSealed
<1>2. DInv /\ [Next]_vars
      => [\A i \in Sessions : Sealed(i) =>
            /\ Sealed(i)'
            /\ \A o \in Orders :
                  orders'[o].request.session = i => orders[o].request.session = i]_vars
  BY <1>1 DEF StaysSealed
<1>3. QED
  BY <1>2, Invariance, PTL DEF Spec, SealedStaysSealed

-----------------------------------------------------------------------------
(* Unforced closes: DiningHistory.                                         *)

\* The orders of a session that are not finished.
UnfinishedIn(i) == {o \in Unfinished : orders[o].request.session = i}

\* Between its tally and its save, an unforced close knows the unfinished orders
\* of its session but for those that came or came back since.
Counted ==
    \A c \in Closes : sPc[c] = "tallied" => UnfinishedIn(sHeld[c]) \subseteq newcomers[c]

\* A close is about to save either because it has just tallied, found nothing
\* unfinished and changed no order, or because it was about to already.
LEMMA TallyStep ==
    ASSUME DInv, [Next]_vars, NEW c \in Closes, sPc'[c] = "tallied"
    PROVE  /\ sHeld'[c] = sHeld[c]
           /\ \/ sPc[c] = "tallied"
              \/ sPc[c] # "tallied" /\ orders' = orders /\ UnfinishedIn(sHeld[c]) = {}
<1>1. [SP!Next]_(SP!vars) /\ SP!TypeOK /\ c \in SP!Requests
  BY ComponentSteps, SameSessions DEF DInv, SP!IInv, SP!Requests
<1>2. CASE SP!CloseStep(c)
  <2>1. SP!CloseTally(c)
    BY <1>1, <1>2 DEF SP!CloseStep, SP!CloseFind, SP!CloseSave, SP!Fail, SP!Finish,
       SP!GotoWith, SP!TypeOK
  <2>2. sPc[c] = "tally" /\ sHeld'[c] = sHeld[c] /\ sHeld[c] \notin UnfinishedSessions
    BY <1>1, <2>1 DEF SP!CloseTally, SP!Goto, SP!GotoWith, SP!Fail, SP!Finish, SP!TypeOK
  <2>3. sHeld[c] \in Sessions
    BY <1>1, <2>2 DEF DInv, SP!IInv, SP!CopiesBelong, SP!Born
  <2>4. UnfinishedIn(sHeld[c]) = {}
    BY <2>2, <2>3 DEF UnfinishedSessions, OrdersIn, UnfinishedIn, Unfinished
  <2>5. orders' = orders
    BY <2>2 DEF Next, SessionStep, OrderStep, vars, sessionVars, orderVars
  <2>6. QED
    BY <2>2, <2>4, <2>5
<1>3. CASE ~SP!CloseStep(c)
  <2>1. ASSUME NEW r \in SP!Requests, r # c,
               \/ r \in Scans /\ SP!ScanStep(r)
               \/ r \in Closes /\ SP!CloseStep(r)
               \/ r \in Payments /\ SP!PayStep(r)
        PROVE  sPc'[c] = sPc[c] /\ sHeld'[c] = sHeld[c]
    BY <1>1, <2>1, Assumptions, SP!OthersKept
  <2>2. c \notin Scans /\ c \notin Payments
    BY Assumptions DEF SP!SessionsAssumption
  <2>3. QED
    BY <1>1, <1>3, <2>1, <2>2
       DEF SP!Next, SP!vars, SP!Requests, SP!Expire, SP!OrdersChange, SP!workerVars
<1>4. QED
  BY <1>2, <1>3

\* An order that is unfinished after a step and was before is in the same session.
LEMMA UnfinishedKept ==
    ASSUME DInv, [Next]_vars, NEW o \in Unfinished
    PROVE  orders'[o].request = orders[o].request
<1>1. OP!TypeOK /\ o \in OP!Placed
  BY DEF DInv, OP!IInv, Unfinished, OP!Placed
<1>2. OP!Evolves
  BY ComponentSteps, SameOrders, Assumptions, OP!StepEvolves DEF DInv
<1>3. QED
  BY <1>1, <1>2, Assumptions, OP!EvolvesKeeps

\* A step preserves Counted.
LEMMA StepCounted ==
    ASSUME DInv, Counted, [HistoryNext]_<<vars, newcomers>>
    PROVE  Counted'
<1>1. CASE UNCHANGED <<vars, newcomers>>
  BY <1>1 DEF Counted, UnfinishedIn, Unfinished, vars, sessionVars, orderVars
<1>2. CASE HistoryNext
  <2> SUFFICES ASSUME NEW c \in Closes, sPc'[c] = "tallied",
                      NEW o \in UnfinishedIn(sHeld[c])'
               PROVE  o \in newcomers'[c]
    BY DEF Counted
  <2>1. [Next]_vars /\ sHeld'[c] = sHeld[c]
    BY <1>2, TallyStep DEF HistoryNext
  <2>2. o \in Unfinished' /\ orders'[o].request.session = sHeld[c]
    BY <2>1 DEF UnfinishedIn
  <2>3. CASE sPc[c] = "tallied"
    <3>1. newcomers'[c] = newcomers[c] \union (Unfinished' \ Unfinished)
      BY <1>2, <2>3 DEF HistoryNext
    <3>2. CASE o \in Unfinished
      <4>1. o \in UnfinishedIn(sHeld[c])
        BY <2>1, <2>2, <3>2, UnfinishedKept DEF UnfinishedIn
      <4>2. QED
        BY <2>3, <3>1, <4>1 DEF Counted
    <3>3. QED
      BY <2>2, <3>1, <3>2
  <2>4. CASE sPc[c] # "tallied"
    <3>1. orders' = orders /\ UnfinishedIn(sHeld[c]) = {}
      BY <2>1, <2>4, TallyStep
    <3>2. QED
      BY <2>1, <2>2, <3>1 DEF UnfinishedIn, Unfinished
  <2>5. QED
    BY <2>3, <2>4
<1>3. QED
  BY <1>1, <1>2

\* A close without force leaves no unfinished order behind but those that came, or
\* came back, after it counted, however many requests race with it.
THEOREM ClosesLeaveNewcomers == HistorySpec => UnforcedCloseLeavesNewcomers
<1>1. HistoryInit => DInv /\ Counted
  <2>1. HistoryInit => DInv
    BY InitDInv DEF HistoryInit
  <2>2. HistoryInit => Counted
    BY DEF HistoryInit, Init, S!Init, S!Requests, Counted
  <2>3. QED
    BY <2>1, <2>2
<1>2. DInv /\ Counted /\ [HistoryNext]_<<vars, newcomers>> => (DInv /\ Counted)'
  <2>1. [HistoryNext]_<<vars, newcomers>> => [Next]_vars
    BY DEF HistoryNext
  <2>2. QED
    BY <2>1, StepDInv, StepCounted
<1>3. Counted => [\A c \in Closes :
                    sPc[c] = "tallied" /\ S!CloseSave(c) /\ sessions' # sessions
                    => {o \in Unfinished : orders[o].request.session = sHeld[c]}
                       \subseteq newcomers[c]]_<<vars, newcomers>>
  BY DEF Counted, UnfinishedIn
<1>4. QED
  BY <1>1, <1>2, <1>3, PTL DEF HistorySpec, UnforcedCloseLeavesNewcomers
=============================================================================
