----------------------------- MODULE HubHistory ------------------------------
(***************************************************************************)
(* The hub with a history variable for the updates it drops: what was in   *)
(* the channel of the connection at that moment.                           *)
(***************************************************************************)
EXTENDS MCHub

VARIABLE
    ahead              \* the updates in a connection's channel when a broadcast
                       \* went past it without leaving its update there

HistoryInit ==
    /\ Init
    /\ ahead = [u \in Updates |-> [c \in Clients |-> {}]]

HistoryNext ==
    /\ Next
    /\ ahead' = [u \in Updates |-> [c \in Clients |->
           IF c \in todo[u] \ todo'[u] /\ u \notin Elements(queue'[c])
           THEN Elements(queue[c])
           ELSE ahead[u][c]]]

HistorySpec == HistoryInit /\ [][HistoryNext]_<<vars, ahead>>

FairHistorySpec == HistorySpec /\ Fairness

\* What a connection has got, or has yet to be written.
Got(c) == Elements(queue[c]) \union Elements(written[c])

\* A connection misses an update that was broadcast while it was in the room only
\* if its channel was full at that moment, and as long as its writer runs it still
\* gets every update that filled it ("Buffer full, drop message", hub.go:69).
LostOnlyBehindFullQueue ==
    \A u \in Updates : \A c \in audience[u] \ todo[u] :
        writer[c] = "running"
        => \/ u \in Got(c)
           \/ ahead[u][c] \subseteq Got(c) /\ Cardinality(ahead[u][c]) = Capacity
=============================================================================
