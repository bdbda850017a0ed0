--------------------------- MODULE MCRegistryAudit ---------------------------
(***************************************************************************)
(* Values for the constants of RegistryAudit.                              *)
(***************************************************************************)
EXTENDS RegistryAudit, TLC

BothKinds == {"relay", "user"}
OnlyRelays == {"relay"}

MCTargetOk == [k \in Kinds |-> Infos]

ClientSymmetry == Permutations(Clients)
=============================================================================
