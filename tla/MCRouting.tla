----------------------------- MODULE MCRouting ------------------------------
(***************************************************************************)
(* Values for the constants of Routing.                                    *)
(***************************************************************************)
EXTENDS Routing, TLC

BothKinds == {"relay", "user"}

Tcp(a, s, c) == [addr |-> a, scheme |-> s, network |-> "tcp", clean |-> c]
Unix(a, c) == [addr |-> a, scheme |-> "http", network |-> "unix", clean |-> c]

RelayInfos == {Tcp("a1", "http", FALSE), Tcp("a2", "https", TRUE)}
UserInfos == {Unix("s1", FALSE), Unix("s2", TRUE)}

TwoTargets == RelayInfos \cup UserInfos
MCTargetOk == [k \in Kinds |-> Infos \cap (IF k = "relay" THEN RelayInfos ELSE UserInfos)]

OneRelay == {Tcp("a1", "http", FALSE)}

RoutingSymmetry == Permutations(Handlers) \cup Permutations(Visitors)
=============================================================================
