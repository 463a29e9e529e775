-------------------------- MODULE PlacementHistory --------------------------
(***************************************************************************)
(* Orders with a history variable for the answers customers were given:    *)
(* properties that relate one answer to another are stated over it.        *)
(***************************************************************************)
EXTENDS MCOrders

VARIABLE told          \* the ok answers to placements: request and order

AnswersInit == Init /\ told = {}

AnswersNext ==
    /\ Next
    /\ told' = IF reply' # reply /\ reply'.code = "ok" /\ reply'.to \in Placements
               THEN told \union {[request |-> ticket[reply'.to], order |-> reply'.order]}
               ELSE told

AnswersSpec == AnswersInit /\ [][AnswersNext]_<<vars, told>>

\* Requests without a key never share an order: an order told to one of them
\* has not been told to any request before.
UnkeyedNeverShared ==
    [][\A a \in told : \A p \in Placements :
        /\ reply' # reply
        /\ reply'.to = p
        /\ reply'.code = "ok"
        /\ ticket[p].key = Nil
        => reply'.order # a.order]_<<vars, told>>
=============================================================================
