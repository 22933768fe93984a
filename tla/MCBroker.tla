------------------------------ MODULE MCBroker ------------------------------
(* Broker for TLC: one user, who is spelled in two ways, and one host. *)
EXTENDS Broker, TLC

CONSTANTS r1, r2, v1

Spellings == {"bob", "Bob"}
Targets   == {"dc"}
ToLower   == [n \in Spellings \cup Targets |-> IF n = "Bob" THEN "bob" ELSE n]
Asks      == r1 :> <<"bob", "dc">> @@ r2 :> <<"Bob", "dc">>
TakesFrom == v1 :> <<"Bob", "dc">>
=============================================================================
