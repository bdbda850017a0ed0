---------------------------- MODULE HealthProofs ----------------------------
(***************************************************************************)
(* Proofs about Health, for any sets of names and targets.                 *)
(***************************************************************************)
EXTENDS Health, TLAPS

(* What a step of listEntries found is an entry.                           *)
LEMMA FoundEntry ==
    ASSUME NEW n \in Names, NEW k \in {"relay", "user", "socket"},
           NEW t \in Targets \cup {NoTarget}
    PROVE  Found(n, k, t) \subseteq Entries
BY DEF Found, Entries

(* The path of a conventional socket is a target.                          *)
LEMMA PathTarget == \A n \in Names : SocketPath[n] \in Targets
BY HealthAssumption DEF Targets

(* The types hold when the checks start.                                   *)
LEMMA TypeInit == Init => HealthTypeOK
BY DEF Init, HealthTypeOK, Unknown, Stages

(* Every step of the checker, the handlers and the environment keeps them. *)
LEMMA TypeStep == HealthTypeOK /\ [Next]_vars => HealthTypeOK'
<1> SUFFICES ASSUME HealthTypeOK, [Next]_vars PROVE HealthTypeOK'
    OBVIOUS
<1> USE DEF HealthTypeOK, registry, around, Stages, Enter
<1>1. CASE VisitRelay
    <2>1. PICK n \in todo :
            /\ entries' = entries \cup Found(n, "relay", relays[n])
            /\ IF todo = {n} THEN Enter("users", Names) ELSE Enter("relays", todo \ {n})
        BY <1>1 DEF VisitRelay, VisitKey
    <2>2. Found(n, "relay", relays[n]) \subseteq Entries
        BY <2>1, FoundEntry DEF Targets
    <2> QED
        BY <1>1, <2>1, <2>2 DEF VisitRelay, VisitKey
<1>2. CASE VisitUser
    <2>1. PICK n \in todo :
            /\ entries' = entries \cup Found(n, "user", users[n])
            /\ IF todo = {n} THEN Enter("readdir", {}) ELSE Enter("users", todo \ {n})
        BY <1>2 DEF VisitUser, VisitKey
    <2>2. Found(n, "user", users[n]) \subseteq Entries
        BY <2>1, FoundEntry DEF Targets
    <2> QED
        BY <1>2, <2>1, <2>2 DEF VisitUser, VisitKey
<1>3. CASE ReadDir
    BY <1>3 DEF ReadDir, Services
<1>4. CASE CheckShadow
    BY <1>4 DEF CheckShadow
<1>5. CASE StatSocket
    <2>1. PICK n \in cur : entries' = entries \cup
                             IF sock[n] THEN Found(n, "socket", SocketPath[n]) ELSE {}
        BY <1>5 DEF StatSocket
    <2>2. Found(n, "socket", SocketPath[n]) \subseteq Entries
        BY <2>1, FoundEntry, PathTarget
    <2> QED
        BY <1>5, <2>1, <2>2 DEF StatSocket
<1>6. CASE EndList
    BY <1>6 DEF EndList
<1>7. CASE BeginRound
    BY <1>7 DEF BeginRound
<1>8. CASE StartDials
    BY <1>8 DEF StartDials
<1>9. ASSUME NEW t \in Targets, Dial(t) PROVE HealthTypeOK'
    BY <1>9 DEF Dial
<1>10. CASE StoreStatuses
    BY <1>10 DEF StoreStatuses, RoundOver, EndRound, Unknown
<1>11. CASE Return
    BY <1>11 DEF Return
<1>12. CASE TickerFires
    BY <1>12 DEF TickerFires
<1>13. CASE Close
    BY <1>13 DEF Close
<1>14. ASSUME NEW n \in Services, ChangeRelay(n) PROVE HealthTypeOK'
    BY <1>14 DEF ChangeRelay, Touch, Services
<1>15. ASSUME NEW n \in Services, ChangeUser(n) PROVE HealthTypeOK'
    BY <1>15 DEF ChangeUser, Touch, Services
<1>16. ASSUME NEW n \in Services, ToggleSocket(n) PROVE HealthTypeOK'
    BY <1>16 DEF ToggleSocket, Touch, Services
<1>17. ASSUME NEW t \in Targets \ Unparsable, ToggleBackend(t) PROVE HealthTypeOK'
    BY <1>17 DEF ToggleBackend
<1>18. CASE UNCHANGED vars
    BY <1>18 DEF vars
<1> QED
    BY <1>1, <1>2, <1>3, <1>4, <1>5, <1>6, <1>7, <1>8, <1>9, <1>10, <1>11, <1>12, <1>13,
       <1>14, <1>15, <1>16, <1>17, <1>18 DEF Next, CheckerStep, ListStep

(* The types of Health's state, and that no round inherits anything from   *)
(* the one before it.                                                      *)
THEOREM HealthTypeCorrect == Spec => []HealthTypeOK
BY TypeInit, TypeStep, PTL DEF Spec

-----------------------------------------------------------------------------
(* Statuses                                                                *)

(* What the dials of a round found out is still so for the steady targets. *)
DialsRight ==
    \A t \in steady : status[t] # "unknown" => (status[t] = "up") = Reachable(t)

(* No dial has answered when the checks start.                             *)
LEMMA DialsInit == Init => DialsRight
BY DEF Init, DialsRight, Unknown

(* A dial records what it found; a backend that changes stops being        *)
(* steady.                                                                 *)
LEMMA DialsStep == HealthTypeOK /\ DialsRight /\ [Next]_vars => DialsRight'
<1> SUFFICES ASSUME HealthTypeOK, DialsRight, [Next]_vars PROVE DialsRight'
    OBVIOUS
<1> USE DEF HealthTypeOK, DialsRight, Reachable
<1>1. CASE BeginRound
    BY <1>1 DEF BeginRound, Unknown
<1>2. ASSUME NEW t \in Targets, Dial(t) PROVE DialsRight'
    BY <1>2 DEF Dial
<1>3. CASE StoreStatuses
    BY <1>3 DEF StoreStatuses, EndRound
<1>4. ASSUME NEW t \in Targets \ Unparsable, ToggleBackend(t) PROVE DialsRight'
    BY <1>4 DEF ToggleBackend
<1>5. CASE UNCHANGED <<accepts, status, steady>>
    BY <1>5
<1>6. CASE ListStep \/ StartDials \/ Return \/ TickerFires \/ Close
    BY <1>5, <1>6 DEF ListStep, VisitRelay, VisitUser, VisitKey, ReadDir, CheckShadow, StatSocket,
       EndList, StartDials, Return, TickerFires, Close, around
<1>7. ASSUME NEW n \in Services, ChangeRelay(n) \/ ChangeUser(n) \/ ToggleSocket(n)
      PROVE  DialsRight'
    BY <1>5, <1>7 DEF ChangeRelay, ChangeUser, ToggleSocket, Touch, around
<1> QED
    BY <1>1, <1>2, <1>3, <1>4, <1>5, <1>6, <1>7 DEF Next, CheckerStep, vars, around

(* For any set of relays and backends, and however they change while a     *)
(* round of checks runs, the round stores no wrong status of a target that *)
(* did not change.                                                         *)
THEOREM StatusAlwaysRight == Spec => StatusRight
<1>1. HealthTypeOK /\ DialsRight /\ [Next]_vars =>
        ((at = "dial" /\ at' = "idle") =>
            \A t \in steady : alive'[t] # "unknown" => (alive'[t] = "up") = Reachable(t))
    <2> SUFFICES ASSUME DialsRight, [Next]_vars, at = "dial", at' = "idle"
                 PROVE  alive' = status
        BY DEF DialsRight
    <2>1. StoreStatuses => alive' = status
        BY DEF StoreStatuses
    <2>2. ~UNCHANGED at
        OBVIOUS
    <2>3. ~ListStep /\ ~BeginRound /\ ~StartDials /\ ~Return
        BY <2>2 DEF ListStep, VisitRelay, VisitUser, VisitKey, ReadDir, CheckShadow, StatSocket,
           EndList, BeginRound, StartDials, Return, around
    <2>4. \A t : ~Dial(t) /\ ~ToggleBackend(t)
        BY <2>2 DEF Dial, ToggleBackend
    <2>5. \A n : ~ChangeRelay(n) /\ ~ChangeUser(n) /\ ~ToggleSocket(n)
        BY <2>2 DEF ChangeRelay, ChangeUser, ToggleSocket, Touch
    <2> QED
        BY <2>1, <2>2, <2>3, <2>4, <2>5
           DEF Next, CheckerStep, vars, TickerFires, Close
<1> QED
    BY <1>1, TypeInit, TypeStep, DialsInit, DialsStep, PTL DEF Spec, StatusRight
-----------------------------------------------------------------------------
(* The list                                                                *)

ListStages == {"relays", "users", "readdir", "scan", "listed"}

Of(n) == {e \in entries : e.name = n}

SocketOf(n) ==
    IF n \in Services /\ relays[n] = NoTarget /\ sock[n]
    THEN Found(n, "socket", SocketPath[n]) ELSE {}

(* The part of a name's entries that is listed so far.                     *)
SoFar(n) ==
    (IF at = "relays" /\ n \in todo THEN {} ELSE Found(n, "relay", relays[n])) \cup
    (IF at = "relays" \/ (at = "users" /\ n \in todo)
     THEN {} ELSE Found(n, "user", users[n])) \cup
    (IF at \in {"relays", "users", "readdir"} \/ n \in todo \cup cur
     THEN {} ELSE SocketOf(n))

(* A file that waits for its turn is still there; one that has passed the  *)
(* look into relays is still not shadowed.                                 *)
Pending(n) ==
    /\ at = "scan" /\ n \in todo \cup cur => n \in Services /\ sock[n]
    /\ n \in cur => relays[n] = NoTarget

ListInv ==
    /\ \A m, n \in cur : m = n
    /\ todo \cap cur = {}
    /\ at \in ListStages => \A n \in Names \ touched : Of(n) = SoFar(n) /\ Pending(n)

(* What one step adds to the list concerns one name.                       *)
LEMMA OfFound ==
    ASSUME NEW m, NEW k, NEW t, entries' = entries \cup Found(m, k, t), NEW n
    PROVE  Of(n)' = Of(n) \cup IF n = m THEN Found(m, k, t) ELSE {}
BY DEF Of, Found

(* Nothing is listed when the checks start.                                *)
LEMMA ListInit == Init => ListInv
<1> SUFFICES ASSUME Init PROVE ListInv
    OBVIOUS
<1>1. \A n \in Names : Of(n) = {} /\ SoFar(n) = {}
    BY DEF Init, Of, SoFar
<1> QED
    BY <1>1 DEF Init, ListInv, Pending

(* A name that is not changed, in a step that leaves the list alone.       *)
LEMMA ListKept ==
    ASSUME HealthTypeOK, ListInv, UNCHANGED <<at, todo, cur, entries>>,
           touched \subseteq touched',
           \A n \in Names \ touched' :
               relays'[n] = relays[n] /\ users'[n] = users[n] /\ sock'[n] = sock[n]
    PROVE  ListInv'
<1>1. \A n \in Names \ touched' : SoFar(n)' = SoFar(n) /\ Of(n)' = Of(n)
    BY DEF SoFar, SocketOf, Of, Found
<1> QED
    BY <1>1 DEF ListInv, Pending

(* Every step keeps the list so far in agreement with the registries.      *)
LEMMA ListStepKept == HealthTypeOK /\ ListInv /\ [Next]_vars => ListInv'
<1> SUFFICES ASSUME HealthTypeOK, ListInv, [Next]_vars PROVE ListInv'
    OBVIOUS
<1> USE DEF registry, around, Enter, ListStages
<1>1. CASE VisitRelay
    <2>1. PICK m \in todo :
            /\ entries' = entries \cup Found(m, "relay", relays[m])
            /\ IF todo = {m} THEN Enter("users", Names) ELSE Enter("relays", todo \ {m})
        BY <1>1 DEF VisitRelay, VisitKey
    <2>2. at = "relays" /\ UNCHANGED <<registry, cur, touched>> /\ cur = {}
        BY <1>1 DEF VisitRelay, VisitKey, HealthTypeOK
    <2>3. ASSUME NEW n \in Names \ touched PROVE Of(n)' = SoFar(n)'
        <3>1. Of(n) = SoFar(n)
            BY <2>2 DEF ListInv
        <3>2. SoFar(n) = IF n \in todo THEN {} ELSE Found(n, "relay", relays[n])
            BY <2>2 DEF SoFar
        <3>3. SoFar(n)' = IF n \in todo /\ n # m THEN {} ELSE Found(n, "relay", relays[n])
            BY <2>1, <2>2 DEF SoFar, HealthTypeOK, Found
        <3> QED
            BY <2>1, <3>1, <3>2, <3>3, OfFound
    <2> QED
        BY <2>1, <2>2, <2>3 DEF ListInv, Pending
<1>2. CASE VisitUser
    <2>1. PICK m \in todo :
            /\ entries' = entries \cup Found(m, "user", users[m])
            /\ IF todo = {m} THEN Enter("readdir", {}) ELSE Enter("users", todo \ {m})
        BY <1>2 DEF VisitUser, VisitKey
    <2>2. at = "users" /\ UNCHANGED <<registry, cur, touched>> /\ cur = {}
        BY <1>2 DEF VisitUser, VisitKey, HealthTypeOK
    <2>3. ASSUME NEW n \in Names \ touched PROVE Of(n)' = SoFar(n)'
        <3>1. Of(n) = SoFar(n)
            BY <2>2 DEF ListInv
        <3>2. SoFar(n) = Found(n, "relay", relays[n]) \cup
                           IF n \in todo THEN {} ELSE Found(n, "user", users[n])
            BY <2>2 DEF SoFar
        <3>3. SoFar(n)' = Found(n, "relay", relays[n]) \cup
                            IF n \in todo /\ n # m THEN {} ELSE Found(n, "user", users[n])
            BY <2>1, <2>2 DEF SoFar, HealthTypeOK, Found
        <3> QED
            BY <2>1, <3>1, <3>2, <3>3, OfFound
    <2> QED
        BY <2>1, <2>2, <2>3 DEF ListInv, Pending
<1>3. CASE ReadDir
    <2>1. CASE touched' = Names
        BY <1>3, <2>1 DEF ReadDir, HealthTypeOK, ListInv
    <2>2. CASE Enter("scan", {n \in Services : sock[n]}) /\ UNCHANGED touched
        <3>1. at = "readdir" /\ cur = {} /\ UNCHANGED <<registry, cur, entries>>
            BY <1>3 DEF ReadDir, HealthTypeOK
        <3>2. ASSUME NEW n \in Names \ touched PROVE Of(n)' = SoFar(n)'
            <4>1. Of(n) = Found(n, "relay", relays[n]) \cup Found(n, "user", users[n])
                BY <3>1 DEF ListInv, SoFar
            <4>2. SoFar(n)' = Found(n, "relay", relays[n]) \cup Found(n, "user", users[n])
                BY <2>2, <3>1 DEF SoFar, SocketOf, Found
            <4> QED
                BY <3>1, <4>1, <4>2 DEF Of
        <3> QED
            BY <2>2, <3>1, <3>2 DEF ListInv, Pending
    <2> QED
        BY <1>3, <2>1, <2>2 DEF ReadDir
<1>4. CASE CheckShadow
    <2>1. PICK m \in todo :
            /\ todo' = todo \ {m}
            /\ cur' = IF relays[m] # NoTarget THEN {} ELSE {m}
        BY <1>4 DEF CheckShadow
    <2>2. at = "scan" /\ cur = {} /\ UNCHANGED <<registry, at, entries, touched>>
        BY <1>4 DEF CheckShadow
    <2>3. ASSUME NEW n \in Names \ touched PROVE Of(n)' = SoFar(n)' /\ Pending(n)'
        <3>1. Of(n) = SoFar(n) /\ Pending(n)
            BY <2>2 DEF ListInv
        <3>2. SoFar(n)' = SoFar(n)
            BY <2>1, <2>2 DEF SoFar, SocketOf, Found
        <3> QED
            BY <2>1, <2>2, <3>1, <3>2 DEF Of, Pending
    <2> QED
        BY <2>1, <2>2, <2>3 DEF ListInv
<1>5. CASE StatSocket
    <2>1. PICK m \in cur : entries' = entries \cup
                             IF sock[m] THEN Found(m, "socket", SocketPath[m]) ELSE {}
        BY <1>5 DEF StatSocket
    <2>2. at = "scan" /\ cur = {m} /\ cur' = {} /\ m \notin todo
          /\ UNCHANGED <<registry, at, todo, touched>>
        BY <1>5, <2>1 DEF StatSocket, HealthTypeOK, ListInv
    <2>3. ASSUME NEW n \in Names \ touched PROVE Of(n)' = SoFar(n)' /\ Pending(n)'
        <3>1. Of(n) = SoFar(n) /\ Pending(n)
            BY <2>2 DEF ListInv
        <3>2. CASE n # m
            <4>1. Of(n)' = Of(n)
                BY <2>1, <3>2 DEF Of, Found
            <4>2. SoFar(n)' = SoFar(n)
                BY <2>2, <3>2 DEF SoFar, SocketOf, Found
            <4> QED
                BY <2>2, <3>1, <4>1, <4>2 DEF Pending
        <3>3. CASE n = m
            <4>1. n \in Services /\ sock[n] /\ relays[n] = NoTarget
                BY <2>2, <3>1, <3>3 DEF Pending
            <4>2. Of(n)' = Of(n) \cup Found(n, "socket", SocketPath[n])
                BY <2>1, <3>3, <4>1, OfFound
            <4>3. SoFar(n)' = SoFar(n) \cup Found(n, "socket", SocketPath[n])
                BY <2>2, <3>3, <4>1 DEF SoFar, SocketOf, Found
            <4> QED
                BY <2>2, <3>1, <4>2, <4>3 DEF Pending
        <3> QED
            BY <3>2, <3>3
    <2> QED
        BY <2>2, <2>3 DEF ListInv
<1>6. CASE EndList
    <2>1. \A n : SoFar(n)' = SoFar(n) /\ Of(n)' = Of(n)
        BY <1>6 DEF EndList, SoFar, SocketOf, Found, Of
    <2> QED
        BY <1>6, <2>1 DEF EndList, ListInv, Pending
<1>7. CASE BeginRound
    <2>1. \A n \in Names : SoFar(n)' = {} /\ Of(n)' = {}
        BY <1>7 DEF BeginRound, HealthTypeOK, SoFar, Of
    <2> QED
        BY <1>7, <2>1 DEF BeginRound, HealthTypeOK, ListInv, Pending
<1>8. CASE StartDials \/ StoreStatuses \/ Return
    BY <1>8 DEF StartDials, StoreStatuses, EndRound, Return, ListInv, HealthTypeOK
<1>9. CASE UNCHANGED <<registry, at, todo, cur, entries, touched>>
    BY <1>9, ListKept
<1>10. CASE (\E t \in Targets : Dial(t) \/ ToggleBackend(t)) \/ TickerFires \/ Close
    BY <1>9, <1>10 DEF Dial, ToggleBackend, TickerFires, Close
<1>11. ASSUME NEW n \in Services, ChangeRelay(n) \/ ChangeUser(n) \/ ToggleSocket(n)
       PROVE  ListInv'
    <2>1. UNCHANGED <<at, todo, cur, entries>>
        BY <1>11 DEF ChangeRelay, ChangeUser, ToggleSocket, Touch
    <2>2. CASE at \in {"idle", "dial", "returned"}
        BY <2>1, <2>2 DEF ListInv
    <2>3. CASE at \notin {"idle", "dial", "returned"}
        <3>1. touched' = touched \cup {n}
            BY <1>11, <2>3 DEF ChangeRelay, ChangeUser, ToggleSocket, Touch
        <3>2. \A m \in Names \ {n} :
                relays'[m] = relays[m] /\ users'[m] = users[m] /\ sock'[m] = sock[m]
            BY <1>11 DEF ChangeRelay, ChangeUser, ToggleSocket, HealthTypeOK
        <3> QED
            BY <2>1, <3>1, <3>2, ListKept
    <2> QED
        BY <2>2, <2>3
<1> QED
    BY <1>1, <1>2, <1>3, <1>4, <1>5, <1>6, <1>7, <1>8, <1>9, <1>10, <1>11
       DEF Next, CheckerStep, ListStep, vars

(* For any names and registries, and however they change meanwhile, a list *)
(* agrees with the router on every name that did not change.               *)
THEOREM ListAlwaysAgrees == Spec => []ListAgreesWithRouting
<1>1. HealthTypeOK /\ ListInv => ListAgreesWithRouting
    BY DEF HealthTypeOK, ListInv, ListAgreesWithRouting, ListStages, SoFar, SocketOf, Of,
           Routed
<1> QED
    BY <1>1, TypeInit, TypeStep, ListInit, ListStepKept, PTL DEF Spec
=============================================================================
