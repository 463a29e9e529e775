------------------------------- MODULE Serving -------------------------------
(***************************************************************************)
(* The server process around requests that change the order of a menu: a   *)
(* request is received, limited, handled by Reorder or turned into a       *)
(* websocket, counted and answered, while the process is told to stop.     *)
(* When the process is gone, the database rolls its transactions back.     *)
(***************************************************************************)
EXTENDS Reorder

CONSTANTS
    Sockets, Environments                       \* as in Server

VARIABLES
    process, listener, late, exit, place, code, \* as in Server, where place is
    httpRequests, statusCounts, panicCount      \* called request

serverVars == <<process, listener, late, exit, place, code,
                httpRequests, statusCounts, panicCount>>
servingVars == <<serverVars, vars>>

S == INSTANCE Server WITH request <- place

ServingInit == S!Init /\ Init

\* The status of the error that a service returns (shared/errors).
CodeOf(answer) ==
    CASE answer = "ok" -> "ok"
      [] answer = "notFound" -> "rejected"
      [] answer = "internal" -> "failed"

\* The request passes the middleware and its handler starts.
Handle(r) ==
    /\ place[r] = "running"
    /\ Begin(r)
    /\ UNCHANGED serverVars

\* The rate limiter, Auth or the validation of the body answers instead.
TurnAway(r) ==
    /\ pc[r] = "idle"
    /\ S!Answer(r, "rejected")
    /\ UNCHANGED vars

HandlerStep(r) ==
    /\ Step(r)
    /\ UNCHANGED serverVars

HandlerReturns(r) ==
    /\ pc[r] = "done"
    /\ S!Answer(r, CodeOf(reply[r]))
    /\ UNCHANGED vars

\* gorm rolls back the transaction that a panic passes through.
HandlerPanics(r) ==
    /\ pc[r] # "done"
    /\ S!Panic(r)
    /\ Abandon({r})

\* The request turns out to be for a websocket, and its handler is ServeWS.
BecomesSocket(r) ==
    /\ pc[r] = "idle"
    /\ S!Upgrade(r)
    /\ UNCHANGED vars

RequestStep(r) ==
    \/ (S!Arrive(r) \/ S!Record(r)) /\ UNCHANGED vars
    \/ TurnAway(r) \/ BecomesSocket(r)
    \/ Handle(r) \/ HandlerStep(r) \/ HandlerReturns(r) \/ HandlerPanics(r)

\* The process starts or goes on.
ProcessStep ==
    /\ S!Start \/ S!Signal \/ S!Deadline
    /\ process' # "exited"
    /\ UNCHANGED vars

\* The process ends, with every handler in it.
ProcessEnds ==
    /\ S!Start \/ S!Signal \/ S!Deadline \/ S!Leave
    /\ process' = "exited"
    /\ Abandon(Requests)

ServingNext == ProcessStep \/ ProcessEnds \/ \E r \in Requests : RequestStep(r)

ServingSpec == ServingInit /\ [][ServingNext]_servingVars

-----------------------------------------------------------------------------
(* Liveness.                                                               *)

\* What the code does of itself, once it may: some goroutine goes on, PostgreSQL
\* answers and breaks a deadlock, and time passes.  Nothing obliges a client to
\* send, a statement to fail, a peer to close its websocket, or anybody to stop
\* the process.  No request is favoured: as each is made once, all have their turn.
Work ==
    \E r \in Requests :
        \/ S!Record(r) /\ UNCHANGED vars
        \/ BecomesSocket(r) \/ Handle(r) \/ HandlerReturns(r)
        \/ (Proceed(r) \/ BreakDeadlock(r)) /\ UNCHANGED serverVars

Expires == S!Deadline /\ UNCHANGED vars

Stops == (S!ShutdownDone \/ S!ShutdownExpired) /\ Abandon(Requests)

FairSpec ==
    /\ ServingSpec
    /\ WF_servingVars(Work)
    /\ WF_servingVars(Expires)
    /\ WF_servingVars(Stops)

-----------------------------------------------------------------------------
(* Properties.                                                             *)

\* The counters that /metrics serves account for every request whose handler has
\* ended, however it ended (router.go:63-66, metrics.go:49-55).
CountersAddUp == S!CountersAddUp

\* No request is cut off by a shutdown before the deadline, whatever its handler
\* is waiting for (main.go:70-90).
CutOnlyAfterDeadline == S!CutOnlyAfterDeadline

Busy == process = "draining" \/ \E r \in Requests : S!InFlight(r)

\* Every request that was received is over some day, however many wait for locks
\* or for the pool, and a process that was told to stop does (menu/repository.go:113,
\* postgres.go:29, main.go:85).
NothingHangs == Busy ~> ~Busy
=============================================================================
