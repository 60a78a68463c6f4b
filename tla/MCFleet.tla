------------------------------ MODULE MCFleet -------------------------------
(* Two requests on two numbers, which nodes and pre-auth keys share.       *)
EXTENDS Fleet

CONSTANTS n1, n2, u1, u2

MCTyped == {<<"given_name", "new">>, <<"machine_key", "new">>, <<"id", n2>>}
MCNodes == {n1, n2}
MCIds == {n1, n2}
MCNames == {u1, u2}
MCLookalikes == [u \in {u2} |-> n2]
=============================================================================
