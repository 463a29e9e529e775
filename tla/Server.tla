------------------------------- MODULE Server -------------------------------
(***************************************************************************)
(* The server process from start to exit (cmd/server/main.go), and the     *)
(* path of a request through it (app/router.go): rate limiter, handler,    *)
(* Recovery, and the counters of shared/metrics that are served at         *)
(* /metrics.                                                               *)
(*                                                                         *)
(* Recovery is outside metrics.Middleware, so a handler that panics is     *)
(* counted by the former alone.  Shutdown (net/http) waits for every       *)
(* request except those that became websockets, for five seconds at most.  *)
(* What the handlers do is left to Serving.                                *)
(***************************************************************************)
EXTENDS Naturals, FiniteSets

CONSTANTS
    Requests,       \* the requests that arrive, of any route
    Sockets,        \* those that may be for a websocket
    Environments    \* what the environment variables may hold

Codes == {"ok", "rejected", "failed"}       \* classes of status codes

VARIABLES
    process,        \* how far main has come
    listener,       \* the listening socket
    late,           \* the deadline of Shutdown has passed
    exit,           \* how the process ended, or "none"
    request,        \* where each request is
    code,           \* the status a request is answered with
    httpRequests,   \* the counter of all requests
    statusCounts,   \* the counters by status
    panicCount      \* the counter of panics

lifecycle == <<process, listener, late, exit>>
counters == <<httpRequests, statusCounts, panicCount>>
vars == <<lifecycle, request, code, counters>>

\* A request whose handler or middleware has not returned.
InFlight(r) == request[r] \in {"running", "counted"}

Init ==
    /\ process = "loading"
    /\ listener = "none"
    /\ late = FALSE
    /\ exit = "none"
    /\ request = [r \in Requests |-> "none"]
    /\ code = [r \in Requests |-> "ok"]
    /\ httpRequests = 0
    /\ statusCounts = [c \in Codes |-> 0]
    /\ panicCount = 0

\* The process is gone, and with it whatever it was doing.
Exit(how) ==
    /\ process' = "exited"
    /\ exit' = how
    /\ listener' = "none"
    /\ request' = [r \in Requests |-> IF InFlight(r) THEN "cut" ELSE request[r]]
    /\ UNCHANGED <<late, code, counters>>

-----------------------------------------------------------------------------
(* Start-up (main.go:22-69, config.go, postgres.go).                       *)

\* A variable that is not set, or is no number (both <<>>), takes its default.
IntOr(value, default) == IF value = <<>> THEN default ELSE value[1]

ValidConfig(env) ==
    /\ IntOr(env.bcryptCost, 12) \in 4 .. 31
    /\ env.production => env.secret = "strong" /\ env.ssl
    /\ IntOr(env.sessionHours, 8) \in 1 .. 72

\* One of the steps before the server listens succeeds, or ends the process.
Advance(from, to) ==
    /\ process = from
    /\ process' = to
    /\ UNCHANGED <<listener, late, exit, request, code, counters>>

GiveUp(from) == process = from /\ Exit("fatal")

LoadConfig ==
    \E env \in Environments :
        IF ValidConfig(env) THEN Advance("loading", "connecting") ELSE GiveUp("loading")

Connect == Advance("connecting", "migrating") \/ GiveUp("connecting")

RunMigrations == Advance("migrating", "starting") \/ GiveUp("migrating")

\* The goroutine of ListenAndServe; main goes on without it.
Listen ==
    /\ process \in {"starting", "waiting"}
    /\ listener = "none"
    /\ listener' = "open"
    /\ UNCHANGED <<process, late, exit, request, code, counters>>

\* From here on SIGTERM is a message to main.
Notify == Advance("starting", "waiting")

\* ListenAndServe cannot bind, or cannot accept any more.
ServerFailed ==
    /\ \/ process \in {"starting", "waiting"} /\ listener = "none"
       \/ listener = "open"
    /\ Exit("broken")

-----------------------------------------------------------------------------
(* Requests (router.go:62-85, metrics.go, recovery.go, ratelimit.go).      *)

\* Also on a connection that was accepted before the listener was closed.
Arrive(r) ==
    /\ listener # "none"
    /\ request[r] = "none"
    /\ request' = [request EXCEPT ![r] = "running"]
    /\ UNCHANGED <<lifecycle, code, counters>>

\* The handler or a middleware before it has answered; RecordHTTP counts the request ...
Answer(r, c) ==
    /\ request[r] = "running"
    /\ request' = [request EXCEPT ![r] = "counted"]
    /\ code' = [code EXCEPT ![r] = c]
    /\ httpRequests' = httpRequests + 1
    /\ UNCHANGED <<lifecycle, statusCounts, panicCount>>

\* ... and then, under its mutex, the status.
Record(r) ==
    /\ request[r] = "counted"
    /\ request' = [request EXCEPT ![r] = "answered"]
    /\ statusCounts' = [statusCounts EXCEPT ![code[r]] = @ + 1]
    /\ UNCHANGED <<lifecycle, code, httpRequests, panicCount>>

\* ServeWS takes the connection over, starts its pumps and returns with the status
\* that gin starts with.  Shutdown knows nothing of the connection any more.
Upgrade(r) == r \in Sockets /\ Answer(r, "ok")

\* Mutant of Panic: metrics.Middleware outside Recovery.
PanicCountedTwice(r) ==
    /\ request[r] = "running"
    /\ request' = [request EXCEPT ![r] = "recovered"]
    /\ code' = [code EXCEPT ![r] = "failed"]
    /\ panicCount' = panicCount + 1
    /\ httpRequests' = httpRequests + 1
    /\ UNCHANGED <<lifecycle, statusCounts>>

\* A panic passes by metrics.Middleware and Logger, which have no defer, up to
\* Recovery, which counts it and answers.
Panic(r) ==
    /\ request[r] = "running"
    /\ request' = [request EXCEPT ![r] = "recovered"]
    /\ code' = [code EXCEPT ![r] = "failed"]
    /\ panicCount' = panicCount + 1
    /\ UNCHANGED <<lifecycle, httpRequests, statusCounts>>

-----------------------------------------------------------------------------
(* Shutdown (main.go:70-90).                                               *)

\* SIGTERM: main calls Shutdown, which closes the listener at once, and with it
\* ListenAndServe, whose ErrServerClosed the goroutine ignores.  Before Notify, the
\* signal kills the process.
Signal ==
    \/ /\ process = "waiting"
       /\ process' = "draining"
       /\ listener' = "closed"
       /\ UNCHANGED <<late, exit, request, code, counters>>
    \/ process \notin {"waiting", "draining", "exited"} /\ Exit("killed")

Deadline ==
    /\ process = "draining"
    /\ ~late
    /\ late' = TRUE
    /\ UNCHANGED <<process, listener, exit, request, code, counters>>

\* Mutant of ShutdownDone: Close instead of Shutdown.
ShutdownAtOnce ==
    /\ process = "draining"
    /\ Exit("clean")

\* Every connection that Shutdown knows of is idle.
ShutdownDone ==
    /\ process = "draining"
    /\ \A r \in Requests : ~InFlight(r)
    /\ Exit("clean")

\* The deadline counts even if every connection has just become idle.
ShutdownExpired ==
    /\ process = "draining"
    /\ late
    /\ Exit("fatal")

\* SIGKILL, or the machine stops.
Kill ==
    /\ process # "exited"
    /\ Exit("killed")

Start == LoadConfig \/ Connect \/ RunMigrations \/ Listen \/ Notify
Leave == ServerFailed \/ ShutdownDone \/ ShutdownExpired \/ Kill

Next ==
    \/ Start \/ Signal \/ Deadline \/ Leave
    \/ \E r \in Requests :
          \/ Arrive(r) \/ Upgrade(r) \/ Record(r) \/ Panic(r)
          \/ \E c \in Codes : Answer(r, c)

Spec == Init /\ [][Next]_vars

-----------------------------------------------------------------------------
(* Properties.                                                             *)

TypeOK ==
    /\ process \in {"loading", "connecting", "migrating", "starting", "waiting", "draining",
                    "exited"}
    /\ listener \in {"none", "open", "closed"}
    /\ late \in BOOLEAN
    /\ exit \in {"none", "clean", "fatal", "broken", "killed"}
    /\ request \in [Requests -> {"none", "running", "counted", "answered", "recovered", "cut"}]
    /\ code \in [Requests -> Codes]
    /\ httpRequests \in Nat /\ panicCount \in Nat
    /\ statusCounts \in [Codes -> Nat]

With(places) == {r \in Requests : request[r] \in places}

\* The counters that /metrics serves account for every request whose handler has
\* ended, each once: in the total and then by its status, or as a panic; between
\* the two, a request is in the total alone (router.go:63-66, metrics.go:49-55).
CountersAddUp ==
    process # "exited" =>
        /\ httpRequests + panicCount = Cardinality(With({"counted", "answered", "recovered"}))
        /\ \A c \in Codes :
              statusCounts[c] = Cardinality({r \in With({"answered"}) : code[r] = c})

\* A request is cut off only if the process was killed, could not listen any more,
\* or had been waiting for it until the deadline (main.go:70-90).
CutOnlyAfterDeadline ==
    With({"cut"}) # {} => exit \in {"killed", "broken"} \/ (exit = "fatal" /\ late)
=============================================================================
