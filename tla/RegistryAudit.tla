--------------------------- MODULE RegistryAudit ---------------------------
(***************************************************************************)
(* Registry with two history variables, which no step reads: what a client *)
(* was promised by an answer that no other request overlapped.             *)
(***************************************************************************)
EXTENDS Registry

CONSTANT Unknown

ASSUME UnknownAssumption == Unknown \notin RegMap

VARIABLES
    solo,    \* solo[c]: no other request on its registry since c's began
    acked    \* acked[k]: the map as the last uncontended "ok" left it,
             \* Unknown from the moment a later request on k begins

auditVars == <<vars, solo, acked>>

(* The types, with those of the history variables.                         *)
AuditTypeOK ==
    /\ TypeOK
    /\ solo \in [Clients -> BOOLEAN]
    /\ acked \in [Kinds -> RegMap \cup {Unknown}]

AuditInit ==
    /\ Init
    /\ solo = [c \in Clients |-> FALSE]
    /\ acked = [k \in Kinds |-> Unknown]

StillSolo(c) ==
    /\ pc'[c] # "idle"
    /\ pc[c] = "idle" \/ solo[c]
    /\ \A d \in Clients \ {c} : pc'[d] # "idle" => req'[d].kind # req'[c].kind

InUse(k) == \E c \in Clients : Using(c, k)

SoloOk(k) == \E c \in Clients : Using(c, k) /\ solo[c] /\ reply'[c] = "ok"

AuditNext ==
    /\ Next
    /\ solo' = [c \in Clients |-> StillSolo(c)]
    /\ acked' = [k \in Kinds |-> IF InUse(k)' THEN Unknown
                                 ELSE IF SoloOk(k) THEN reg'[k]
                                 ELSE acked[k]]

AuditSpec == AuditInit /\ [][AuditNext]_auditVars

(* What an uncontended "ok" promised is on disk, and in memory whenever    *)
(* the daemon is up, through any number of crashes, restarts and failing   *)
(* saves of the other registry, until the next request on that registry.   *)
AckedSurvives ==
    \A k \in Kinds : acked[k] # Unknown =>
        /\ Saved(k) = acked[k]
        /\ up = "up" => reg[k] = acked[k]
=============================================================================
