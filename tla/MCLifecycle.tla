---------------------------- MODULE MCLifecycle -----------------------------
(***************************************************************************)
(* Values for the constants of Lifecycle.                                  *)
(***************************************************************************)
EXTENDS Lifecycle, TLC

(* Every instance on the default ports.                                    *)
DefaultPorts == {"1080", "1443"}
SameHTTP == [i \in Instances |-> "1080"]
SameHTTPS == [i \in Instances |-> "1443"]
=============================================================================
