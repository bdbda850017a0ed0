------------------------------ MODULE MCMinter ------------------------------
(***************************************************************************)
(* Values for the constants of Minter: k1 is a pair as `ca init' makes     *)
(* it, x one of a CA that is not constrained.                              *)
(***************************************************************************)
EXTENDS Minter

CONSTANTS k1, x

AllPairs == {k1, x}
Good == {k1}
MCLabels == {"", "localhost", "app", "App", "a_b"}
Valid == {"localhost", "app"}
MCLower == [l \in MCLabels |-> IF l = "App" THEN "app" ELSE l]
Snis == {NoName, <<"app", TLD>>, <<"App", TLD>>, <<"a_b", TLD>>}
=============================================================================
