------------------------------ MODULE MCServing ------------------------------
(***************************************************************************)
(* Model-checking module for Serving: two items of one category and one of *)
(* another, reorders that cross, repeat a row or name a foreign one, a     *)
(* deletion of a row they name, and updates with and without a place; one  *)
(* environment of each verdict.                                            *)
(***************************************************************************)
EXTENDS Serving

MCHome == [i \in Rows |-> IF i = "c" THEN "k2" ELSE "k1"]

Place(i, n) == [id |-> i, sort |-> n]
OrderOf(scope, order) == [kind |-> "reorder", scope |-> scope, order |-> order]
SaveOf(i, n) == [kind |-> "save", row |-> i, sort |-> n]
RemovalOf(i) == [kind |-> "remove", row |-> i]

MCFirst == [i \in Rows |-> 1]

MCBodies == [r \in Requests |->
    CASE r = "r1" -> {OrderOf("k1", <<Place("a", 1), Place("b", 2)>>), SaveOf("a", 2)}
      [] r = "r2" -> {OrderOf("k1", <<Place("b", 2), Place("a", 2), Place("b", 1)>>),
                      RemovalOf("b")}
      [] r = "r3" -> {SaveOf("b", Nil), OrderOf("k1", <<Place("a", 2), Place("c", 2)>>)}]

Env(production, secret, ssl, cost, hours) ==
    [production |-> production, secret |-> secret, ssl |-> ssl,
     bcryptCost |-> cost, sessionHours |-> hours]

MCEnvironments == {
    Env(TRUE, "strong", TRUE, <<>>, <<8>>),
    Env(TRUE, "placeholder", TRUE, <<12>>, <<>>),
    Env(FALSE, "placeholder", FALSE, <<3>>, <<8>>)}
=============================================================================
