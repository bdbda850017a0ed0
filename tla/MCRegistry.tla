----------------------------- MODULE MCRegistry -----------------------------
(***************************************************************************)
(* Values for the constants of Registry.                                   *)
(***************************************************************************)
EXTENDS Registry, TLC

CONSTANT badTarget   \* a target that relayDial, or filepath.IsAbs, refuses

BothKinds == {"relay", "user"}
OnlyRelays == {"relay"}

MCTargetOk == [k \in Kinds |-> Infos \ {badTarget}]

ClientSymmetry == Permutations(Clients)
=============================================================================
