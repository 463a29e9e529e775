------------------------------- MODULE MCHub --------------------------------
(* The session tokens of the instance: one session is also asked for in a      *)
(* spelling that uuid.Parse accepts and uuid.UUID.String does not produce.     *)
EXTENDS Hub

CONSTANTS Twice, Other

MCTokens ==
    [session : Sessions, spelling : {Canonical}]
        \union {[session |-> Twice, spelling |-> Other]}
=============================================================================
