------------------------------ MODULE MCHealth ------------------------------
(***************************************************************************)
(* Values for the constants of Health.                                     *)
(***************************************************************************)
EXTENDS Health, TLC

(* The path of a's conventional socket can also be a user's target.        *)
MCSocketPath == [n \in Names |-> IF n = "a" THEN "a.sock" ELSE n]
=============================================================================
