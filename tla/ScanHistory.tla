----------------------------- MODULE ScanHistory ----------------------------
(***************************************************************************)
(* Sessions with one history variable: the expired sessions each scan has  *)
(* to replace.                                                             *)
(***************************************************************************)
EXTENDS MCSessions

\* The sessions that had expired when the scan began, without those that came
\* back to ACTIVE since and the one whose save by this scan failed.
VARIABLE owed

Reopened == {i \in Sessions : sessions[i].status = "CLOSED" /\ sessions'[i].status = "ACTIVE"}

Spared(s) == {i \in {held[s]} : /\ pc[s] = "expire" /\ pc'[s] # "expire"
                                /\ sessions'[i].status = "ACTIVE"}

HistoryInit == Init /\ owed = [s \in Scans |-> {}]

HistoryNext ==
    /\ Next
    /\ owed' = [s \in Scans |->
                    IF pc[s] = "idle" /\ pc'[s] # "idle" THEN expired
                    ELSE owed[s] \ (Reopened \union Spared(s))]

HistorySpec == HistoryInit /\ [][HistoryNext]_<<vars, owed>>

FairHistorySpec == HistorySpec /\ Fairness

\* README.md, Product Notes: "scanning the same QR creates a fresh active
\* session" once the old one has expired: a scan is turned away over a session
\* that had expired before it began only if its own save of that session failed,
\* or a payment request brought the session back; no other interleaving of scans
\* and closes does that.
ScanReplacesExpiredSession ==
    \A s \in Scans :
        reply.to = s /\ reply.code = "expired" => reply.session \notin owed[s]
=============================================================================
