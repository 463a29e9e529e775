---------------------------- MODULE DiningHistory ----------------------------
(***************************************************************************)
(* Dining with a history variable for the orders that a close missed.      *)
(***************************************************************************)
EXTENDS MCDining

\* The orders that became PENDING or ACCEPTED since a close found none.
VARIABLE newcomers

Unfinished == {o \in Orders : orders[o].status \in {"PENDING", "ACCEPTED"}}

HistoryInit == Init /\ newcomers = [c \in Closes |-> {}]

HistoryNext ==
    /\ Next
    /\ newcomers' = [c \in Closes |->
           IF {sPc[c], sPc'[c]} = {"tallied"}
           THEN newcomers[c] \union (Unfinished' \ Unfinished) ELSE {}]

HistorySpec == HistoryInit /\ [][HistoryNext]_<<vars, newcomers>>

\* A close without force leaves no PENDING or ACCEPTED order in the session but
\* those placed, or put back by a racing update, after it counted ("Session has
\* pending or accepted orders. Use force=true to close anyway", session/service.go).
UnforcedCloseLeavesNewcomers ==
    [][\A c \in Closes :
        sPc[c] = "tallied" /\ S!CloseSave(c) /\ sessions' # sessions
        => {o \in Unfinished : orders[o].request.session = sHeld[c]} \subseteq newcomers[c]
      ]_<<vars, newcomers>>
=============================================================================
