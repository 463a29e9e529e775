--------------------------- MODULE OrderLifecycle ---------------------------
(***************************************************************************)
(* What a staff member may see of an order: it is placed once, as PENDING, *)
(* and from then on each change of its status follows the documented       *)
(* table.                                                                  *)
(***************************************************************************)
CONSTANTS Orders, Transitions

VARIABLE stage         \* the status of each order, "NONE" before it is placed

LifecycleInit == stage = [o \in Orders |-> "NONE"]

Place(o) ==
    /\ stage[o] = "NONE"
    /\ stage' = [stage EXCEPT ![o] = "PENDING"]

Advance(o) ==
    /\ stage[o] # "NONE"
    /\ \E n \in Transitions[stage[o]] : stage' = [stage EXCEPT ![o] = n]

Lifecycle == LifecycleInit /\ [][\E o \in Orders : Place(o) \/ Advance(o)]_stage
=============================================================================
