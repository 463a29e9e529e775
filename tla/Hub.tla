-------------------------------- MODULE Hub ---------------------------------
(***************************************************************************)
(* The websocket hub that pushes order updates to the customers of a       *)
(* session (internal/websocket).                                           *)
(*                                                                         *)
(* A connection is served by the handler ServeWS until it is registered,   *)
(* then by a reader and a writer goroutine of its own; an update is        *)
(* broadcast by the goroutine of the staff request that made it.  They     *)
(* share the hub's map of rooms under a sync.RWMutex, and one buffered     *)
(* channel per connection.  A broadcast holds the read lock over all its   *)
(* sends, each of which is a step; Register and Unregister hold the write  *)
(* lock and are one step each.                                             *)
(***************************************************************************)
EXTENDS Naturals, Sequences, FiniteSets

CONSTANTS
    Clients,           \* connections; each is made at most once
    Sessions,
    Tokens,            \* session tokens as requests write them: session, spelling
    Canonical,         \* the spelling that uuid.UUID.String produces
    Updates,           \* order updates; each is broadcast at most once
    Capacity           \* of a connection's channel (256 in the code)

ASSUME HubAssumption ==
    /\ \A t \in Tokens : t = [session |-> t.session, spelling |-> t.spelling]
    /\ \A i \in Sessions : [session |-> i, spelling |-> Canonical] \in Tokens
    /\ \A t \in Tokens : t.session \in Sessions
    /\ Capacity \in Nat \ {0}
    /\ IsFiniteSet(Clients)

VARIABLES
    usable,            \* sessions that are ACTIVE and have not expired
    token,             \* the session token each connection asked for
    stage,             \* how far each connection's handler or reader has come
    conn,              \* the TCP connection
    rooms,             \* Hub.sessions: token -> registered connections
    active,            \* the gauge websocket_active_connections
    queue,             \* the buffered messages of each channel
    closed,            \* connections whose channel has been closed
    writer,            \* whether each connection's writer is running
    written,          \* the updates written to each connection
    topic,             \* the session each update is about, once it is broadcast
    todo,              \* the connections a broadcast has not come to yet
    audience           \* the connections in the room when the broadcast began

hubVars == <<rooms, active, queue, closed>>
castVars == <<topic, todo, audience>>
vars == <<usable, token, stage, conn, hubVars, writer, written, castVars>>

Registered == UNION {rooms[t] : t \in Tokens}

\* Broadcasts in progress hold the read lock, and keep writers out.
ReadLocked == \E u \in Updates : todo[u] # {}

Init ==
    /\ usable \in SUBSET Sessions
    /\ token \in [Clients -> Tokens]
    /\ stage = [c \in Clients |-> "absent"]
    /\ conn = [c \in Clients |-> "none"]
    /\ rooms = [t \in Tokens |-> {}]
    /\ active = 0
    /\ queue = [c \in Clients |-> <<>>]
    /\ closed = {}
    /\ writer = [c \in Clients |-> "none"]
    /\ written = [c \in Clients |-> <<>>]
    /\ topic = [u \in Updates |-> {}]
    /\ todo = [u \in Updates |-> {}]
    /\ audience = [u \in Updates |-> {}]

-----------------------------------------------------------------------------
(* ServeWS: websocket/handler.go.                                          *)

\* The token is parsed and an ACTIVE, unexpired session with it is looked up.
Find(c) ==
    /\ stage[c] = "absent"
    /\ \/ token[c].session \in usable /\ stage' = [stage EXCEPT ![c] = "found"]
       \/ token[c].session \notin usable /\ stage' = [stage EXCEPT ![c] = "refused"]
    /\ UNCHANGED <<usable, token, conn, hubVars, writer, written, castVars>>

\* The origin is checked and the connection upgraded; either may fail.
Upgrade(c) ==
    /\ stage[c] = "found"
    /\ \/ /\ stage' = [stage EXCEPT ![c] = "upgraded"]
          /\ conn' = [conn EXCEPT ![c] = "open"]
       \/ stage' = [stage EXCEPT ![c] = "refused"] /\ UNCHANGED conn
    /\ UNCHANGED <<usable, token, hubVars, writer, written, castVars>>

\* Hub.Register, under the token as the request spelled it; then the writer
\* and the reader are started.
Register(c) ==
    /\ stage[c] = "upgraded"
    /\ ~ReadLocked
    /\ rooms' = [rooms EXCEPT ![token[c]] = @ \union {c}]
    /\ active' = active + 1
    /\ stage' = [stage EXCEPT ![c] = "reading"]
    /\ writer' = [writer EXCEPT ![c] = "running"]
    /\ UNCHANGED <<usable, token, conn, queue, closed, written, castVars>>

-----------------------------------------------------------------------------
(* The reader and the writer of a connection: websocket/handler.go.        *)

\* ReadMessage fails: the peer left, sent too much, missed the pong deadline,
\* or the writer has closed the connection.
ReadFail(c) ==
    /\ stage[c] = "reading"
    /\ stage' = [stage EXCEPT ![c] = "leaving"]
    /\ UNCHANGED <<usable, token, conn, hubVars, writer, written, castVars>>

\* Mutant of Unregister: the write lock is not taken.
UnregisterUnlocked(c) ==
    /\ stage[c] = "leaving"
    /\ rooms' = [rooms EXCEPT ![token[c]] = @ \ {c}]
    /\ closed' = closed \union {c}
    /\ active' = active - 1
    /\ stage' = [stage EXCEPT ![c] = "gone"]
    /\ conn' = [conn EXCEPT ![c] = "closed"]
    /\ UNCHANGED <<usable, token, queue, writer, written, castVars>>

\* Mutant of Unregister: only the connection is closed.
UnregisterForgotten(c) ==
    /\ stage[c] = "leaving"
    /\ stage' = [stage EXCEPT ![c] = "gone"]
    /\ conn' = [conn EXCEPT ![c] = "closed"]
    /\ UNCHANGED <<usable, token, hubVars, writer, written, castVars>>

\* Hub.Unregister and conn.Close.  A connection that is not in its room is left
\* as it is.
Unregister(c) ==
    /\ stage[c] = "leaving"
    /\ ~ReadLocked
    /\ LET member == {c} \intersect rooms[token[c]]
       IN  /\ rooms' = [rooms EXCEPT ![token[c]] = @ \ member]
           /\ closed' = closed \union member
           /\ active' = active - Cardinality(member)
    /\ stage' = [stage EXCEPT ![c] = "gone"]
    /\ conn' = [conn EXCEPT ![c] = "closed"]
    /\ UNCHANGED <<usable, token, queue, writer, written, castVars>>

WriterStops(c) ==
    /\ writer' = [writer EXCEPT ![c] = "done"]
    /\ conn' = [conn EXCEPT ![c] = "closed"]

\* A message is taken from the channel and written, or the write fails.
Write(c) ==
    /\ writer[c] = "running"
    /\ queue[c] # <<>>
    /\ queue' = [queue EXCEPT ![c] = Tail(@)]
    /\ \/ /\ conn[c] # "closed"
          /\ written' = [written EXCEPT ![c] = Append(@, Head(queue[c]))]
          /\ UNCHANGED <<writer, conn>>
       \/ WriterStops(c) /\ UNCHANGED written
    /\ UNCHANGED <<usable, token, stage, rooms, active, closed, castVars>>

\* The channel is closed and drained.
WriteLast(c) ==
    /\ writer[c] = "running"
    /\ c \in closed
    /\ queue[c] = <<>>
    /\ WriterStops(c)
    /\ UNCHANGED <<usable, token, stage, hubVars, written, castVars>>

\* A ping cannot be written.
PingFail(c) ==
    /\ writer[c] = "running"
    /\ WriterStops(c)
    /\ UNCHANGED <<usable, token, stage, hubVars, written, castVars>>

-----------------------------------------------------------------------------
(* Hub.BroadcastToSession: websocket/hub.go.                               *)

\* Mutant of Broadcast: everybody is told.
BroadcastToAll(u) ==
    /\ topic[u] = {}
    /\ \E i \in Sessions : topic' = [topic EXCEPT ![u] = {i}]
    /\ todo' = [todo EXCEPT ![u] = Registered]
    /\ audience' = [audience EXCEPT ![u] = Registered]
    /\ UNCHANGED <<usable, token, stage, conn, hubVars, writer, written>>

\* The read lock is taken and the room of the session looked up, under the
\* token as the session row spells it.  An empty room ends the broadcast.
Broadcast(u) ==
    /\ topic[u] = {}
    /\ \E i \in Sessions :
          LET room == rooms[[session |-> i, spelling |-> Canonical]]
          IN  /\ topic' = [topic EXCEPT ![u] = {i}]
              /\ todo' = [todo EXCEPT ![u] = room]
              /\ audience' = [audience EXCEPT ![u] = room]
    /\ UNCHANGED <<usable, token, stage, conn, hubVars, writer, written>>

\* Mutant of Send: a full channel ends the broadcast.
SendUntilFull(u) ==
    /\ \E c \in todo[u] :
          IF Len(queue[c]) < Capacity
          THEN /\ todo' = [todo EXCEPT ![u] = @ \ {c}]
               /\ queue' = [queue EXCEPT ![c] = Append(@, u)]
          ELSE /\ todo' = [todo EXCEPT ![u] = {}]
               /\ UNCHANGED queue
    /\ UNCHANGED <<usable, token, stage, conn, rooms, active, closed, writer,
                   written, topic, audience>>

\* Mutant of Send: without a default case the send waits for room in the channel.
SendWaiting(u) ==
    /\ \E c \in todo[u] :
          /\ Len(queue[c]) < Capacity
          /\ todo' = [todo EXCEPT ![u] = @ \ {c}]
          /\ queue' = [queue EXCEPT ![c] = Append(@, u)]
    /\ UNCHANGED <<usable, token, stage, conn, rooms, active, closed, writer,
                   written, topic, audience>>

\* The next connection, in the map's random order: its channel takes the
\* update, or is full and the update is dropped.  The last one ends the
\* broadcast and frees the read lock.
Send(u) ==
    /\ \E c \in todo[u] :
          /\ todo' = [todo EXCEPT ![u] = @ \ {c}]
          /\ IF Len(queue[c]) < Capacity
             THEN queue' = [queue EXCEPT ![c] = Append(@, u)]
             ELSE UNCHANGED queue
    /\ UNCHANGED <<usable, token, stage, conn, rooms, active, closed, writer,
                   written, topic, audience>>

-----------------------------------------------------------------------------
(* What the hub does not control.                                          *)

\* A session is closed, expires, or is opened.
SessionChange(i) ==
    /\ usable' \in {usable \union {i}, usable \ {i}}
    /\ UNCHANGED <<token, stage, conn, hubVars, writer, written, castVars>>

\* A peer vanishes without closing its end.
Vanish(c) ==
    /\ conn[c] = "open"
    /\ conn' = [conn EXCEPT ![c] = "lost"]
    /\ UNCHANGED <<usable, token, stage, hubVars, writer, written, castVars>>

Next ==
    \/ \E c \in Clients :
          \/ Find(c) \/ Upgrade(c) \/ Register(c) \/ ReadFail(c)
          \/ Unregister(c) \/ Write(c) \/ WriteLast(c) \/ PingFail(c) \/ Vanish(c)
    \/ \E u \in Updates : Broadcast(u) \/ Send(u)
    \/ \E i \in Sessions : SessionChange(i)

Spec == Init /\ [][Next]_vars

\* The goroutines of a connection: its handler, then its reader; and its writer.
\* Both notice that the connection is lost or closed (the pong deadline, a ping).
ReaderStep(c) ==
    Register(c) \/ Unregister(c) \/ (conn[c] # "open" /\ ReadFail(c))
WriterStep(c) ==
    Write(c) \/ WriteLast(c) \/ (conn[c] # "open" /\ PingFail(c))

\* Goroutines that can run do run.  A pending Lock keeps new readers out of an
\* RWMutex, so that Register and Unregister get their turn.
Fairness ==
    /\ \A c \in Clients : SF_vars(ReaderStep(c)) /\ WF_vars(WriterStep(c))
    /\ \A u \in Updates : WF_vars(Send(u))

-----------------------------------------------------------------------------
(* Properties.                                                             *)

Elements(seq) == {seq[n] : n \in DOMAIN seq}

\* Every variable has its type, and no channel holds more than it can.
TypeOK ==
    /\ usable \subseteq Sessions
    /\ token \in [Clients -> Tokens]
    /\ stage \in [Clients -> {"absent", "found", "refused", "upgraded", "reading",
                              "leaving", "gone"}]
    /\ conn \in [Clients -> {"none", "open", "lost", "closed"}]
    /\ rooms \in [Tokens -> SUBSET Clients]
    /\ active \in Nat
    /\ queue \in [Clients -> Seq(Updates)]
    /\ \A c \in Clients : Len(queue[c]) <= Capacity
    /\ closed \subseteq Clients
    /\ writer \in [Clients -> {"none", "running", "done"}]
    /\ written \in [Clients -> Seq(Updates)]
    /\ topic \in [Updates -> SUBSET Sessions]
    /\ todo \in [Updates -> SUBSET Clients]
    /\ audience \in [Updates -> SUBSET Clients]

\* No broadcast ever sends to a channel that its connection's reader has closed
\* meanwhile, which would panic in the staff member's request.
SendsFindOpenChannels == \A u \in Updates : todo[u] \intersect closed = {}

\* A connection is in the hub's map from Register to Unregister, in its own room
\* only, and the gauge counts the connections in the map: none is leaked, none
\* is removed twice, however readers, broadcasts and new connections race.
RegistryExact ==
    /\ \A c \in Clients, t \in Tokens :
          c \in rooms[t] <=> t = token[c] /\ stage[c] \in {"reading", "leaving"}
    /\ active = Cardinality(Registered)

\* A connection is sent only updates about the session it asked for, and each
\* of them at most once.
OnlyOwnUpdates ==
    \A c \in Clients :
        LET sent == written[c] \o queue[c]
        IN  /\ \A u \in Elements(sent) : topic[u] = {token[c].session}
            /\ Cardinality(Elements(sent)) = Len(sent)

\* Once a connection is lost, or its writer has closed it, it leaves the hub and
\* both of its goroutines end: broadcasts never block on it.
GoneIsForgotten ==
    \A c \in Clients :
        conn[c] \in {"lost", "closed"} ~> stage[c] = "gone" /\ writer[c] = "done"
=============================================================================
