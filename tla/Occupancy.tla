----------------------------- MODULE Occupancy ------------------------------
(***************************************************************************)
(* What the dining sessions promise, without requests, copies or rows: a   *)
(* table is free or occupied by one session, a session belongs to one      *)
(* table for good, and a table is given to the next session only when it   *)
(* is free.  The staff's payment requests weaken the promise by one step,  *)
(* Reseat: a session that has left can come back to its own free table.    *)
(***************************************************************************)
CONSTANTS Tables, Sessions, Nil

VARIABLES
    occupant,          \* the session at each table, or Nil
    past               \* the sessions that were at each table and left

occVars == <<occupant, past>>

Known == {occupant[t] : t \in Tables} \union UNION {past[t] : t \in Tables}

OccInit ==
    /\ occupant = [t \in Tables |-> Nil]
    /\ past = [t \in Tables |-> {}]

Seat(t, i) ==
    /\ occupant[t] = Nil
    /\ i \notin Known
    /\ occupant' = [occupant EXCEPT ![t] = i]
    /\ UNCHANGED past

Leave(t) ==
    /\ occupant[t] # Nil
    /\ occupant' = [occupant EXCEPT ![t] = Nil]
    /\ past' = [past EXCEPT ![t] = @ \union {occupant[t]}]

Reseat(t, i) ==
    /\ occupant[t] = Nil
    /\ i \in past[t]
    /\ occupant' = [occupant EXCEPT ![t] = i]
    /\ past' = [past EXCEPT ![t] = @ \ {i}]

StrictNext ==
    \E t \in Tables : Leave(t) \/ \E i \in Sessions : Seat(t, i)

OccNext == StrictNext \/ \E t \in Tables, i \in Sessions : Reseat(t, i)

\* The promise of the whole component, and of the component without payments.
Promise == OccInit /\ [][OccNext]_occVars
StrictPromise == OccInit /\ [][StrictNext]_occVars
=============================================================================
