--------------------------- MODULE RegistryProofs ---------------------------
(***************************************************************************)
(* Proofs about Registry and RegistryAudit, for any number of clients,     *)
(* names and failures.                                                     *)
(***************************************************************************)
EXTENDS RegistryAudit, TLAPS

-----------------------------------------------------------------------------
(* Type correctness                                                        *)

(* What a file may hold, or that there is none.                            *)
FileState == Content \cup {NoFile}

(* An open descriptor refers to a file of its registry, or to none.        *)
LEMMA HeldType ==
    ASSUME TypeOK, NEW c \in Clients, Kind(c) \in Kinds
    PROVE  Held(c) \in FileState
<1>1. tmp[Kind(c)] \in FileState /\ json[Kind(c)] \in FileState
    BY DEF TypeOK, FileState
<1>2. Empty \in FileState
    BY DEF FileState, Content
<1> QED
    BY <1>1, <1>2 DEF Held

(* Writing through a descriptor leaves files that hold contents.           *)
LEMMA PutType ==
    ASSUME TypeOK, NEW c \in Clients, NEW data \in FileState, Put(c, data)
    PROVE  /\ json' \in [Kinds -> FileState]
           /\ tmp' \in [Kinds -> FileState]
           /\ fd' \in [Clients -> {"none", "tmp", "json", "gone"}]
BY DEF TypeOK, FileState, Put

(* An answer leaves the variables it sets well typed.                      *)
LEMMA AnswerType ==
    ASSUME TypeOK, NEW c \in Clients, NEW res \in {"ok", "err"}, Answer(c, res)
    PROVE  /\ pc' \in [Clients -> Steps]
           /\ req' \in [Clients -> Requests \cup {NoReq}]
           /\ \A d \in Clients : pc'[d] # "idle" => req'[d] \in Requests
           /\ snap' \in [Clients -> RegMap]
           /\ todo' \in [Clients -> SUBSET Names]
           /\ reply' \in [Clients -> {"none", "ok", "err"}]
<1>1. EmptyMap \in RegMap
    BY DEF EmptyMap, RegMap
<1>2. pc' = [pc EXCEPT ![c] = "idle"]
    BY DEF Answer, Goto
<1> QED
    BY <1>1, <1>2 DEF TypeOK, Answer, Steps

(* The kind of a running request is a registry of the daemon.              *)
LEMMA KindType ==
    ASSUME TypeOK, NEW c \in Clients, pc[c] # "idle"
    PROVE  /\ Kind(c) \in Kinds
           /\ req[c].name \in Names
           /\ req[c].info \in Infos \cup {NoInfo}
BY DEF TypeOK, Requests, Kind

(* The types hold before the first start.                                  *)
LEMMA InitType == Init => TypeOK
<1> SUFFICES ASSUME Init PROVE TypeOK
    OBVIOUS
<1>1. EmptyMap \in RegMap
    BY DEF EmptyMap, RegMap
<1>2. MaxFails \in Nat /\ MaxCrashes \in Nat
    BY RegistryAssumption
<1> QED
    BY <1>1, <1>2 DEF Init, TypeOK, Steps

(* Every step of the daemon keeps the types.                               *)
LEMMA StepType == TypeOK /\ [Next]_vars => TypeOK'
<1> SUFFICES ASSUME TypeOK, [Next]_vars PROVE TypeOK'
    OBVIOUS
<1> USE DEF Goto, Steps
<1>1. EmptyMap \in RegMap
    BY DEF EmptyMap, RegMap
<1>2. ASSUME NEW c \in Clients, Begin(c) PROVE TypeOK'
    BY <1>2 DEF TypeOK, Begin, files, locals, bounds
<1>3. ASSUME NEW c \in Clients, Reject(c) PROVE TypeOK'
    <2>1. Answer(c, "err")
        BY <1>3 DEF Reject
    <2> QED
        BY <1>3, <2>1, AnswerType DEF Reject, TypeOK, files, bounds
<1>4. ASSUME NEW c \in Clients, CheckAdd(c) PROVE TypeOK'
    BY <1>4 DEF TypeOK, CheckAdd, files, locals, bounds
<1>5. ASSUME NEW c \in Clients, StoreAdd(c) PROVE TypeOK'
    <2>1. Kind(c) \in Kinds /\ req[c].name \in Names /\ req[c].info \in Infos \cup {NoInfo}
        BY <1>5, KindType DEF StoreAdd
    <2>2. reg' \in [Kinds -> RegMap]
        BY <1>5, <2>1 DEF StoreAdd, TypeOK, RegMap
    <2> QED
        BY <1>5, <2>2 DEF TypeOK, StoreAdd, files, locals, bounds
<1>6. ASSUME NEW c \in Clients, DeleteEntry(c) PROVE TypeOK'
    <2>1. Kind(c) \in Kinds /\ req[c].name \in Names
        BY <1>6, KindType DEF DeleteEntry
    <2>2. reg' \in [Kinds -> RegMap]
        BY <1>6, <2>1 DEF DeleteEntry, TypeOK, RegMap
    <2> QED
        BY <1>6, <2>2 DEF TypeOK, DeleteEntry, files, locals, bounds
<1>7. ASSUME NEW c \in Clients, DropProxy(c) PROVE TypeOK'
    BY <1>7 DEF TypeOK, DropProxy, files, bounds
<1>8. ASSUME NEW c \in Clients, CopyKey(c) PROVE TypeOK'
    <2>1. Kind(c) \in Kinds
        BY <1>8, KindType DEF CopyKey
    <2>2. PICK n \in todo[c] :
            /\ snap' = [snap EXCEPT ![c][n] = reg[Kind(c)][n]]
            /\ todo' = [todo EXCEPT ![c] = todo[c] \ {n}]
            /\ pc' = [pc EXCEPT ![c] = IF todo[c] = {n} THEN "open" ELSE "range"]
        BY <1>8 DEF CopyKey
    <2>3. n \in Names /\ reg[Kind(c)][n] \in Infos \cup {NoInfo}
        BY <2>1, <2>2 DEF TypeOK, RegMap
    <2>4. snap' \in [Clients -> RegMap]
        BY <2>2, <2>3 DEF TypeOK, RegMap
    <2>5. todo' \in [Clients -> SUBSET Names]
        BY <2>2 DEF TypeOK
    <2>6. pc' \in [Clients -> Steps]
        BY <2>2 DEF TypeOK
    <2>7. \A d \in Clients : pc'[d] # "idle" => req[d] \in Requests
        BY <1>8, <2>2 DEF TypeOK, CopyKey
    <2> QED
        BY <1>8, <2>4, <2>5, <2>6, <2>7 DEF TypeOK, CopyKey, files, bounds
<1>9. ASSUME NEW c \in Clients, OpenTmp(c) PROVE TypeOK'
    BY <1>9 DEF TypeOK, OpenTmp, bounds, Content
<1>10. ASSUME NEW c \in Clients, WriteTmp(c) PROVE TypeOK'
    <2>1. PICK data \in Overlay(Held(c), snap[c]) : Put(c, data)
        BY <1>10 DEF WriteTmp
    <2>2. data \in FileState
        BY <2>1 DEF Overlay, TypeOK, FileState, Content
    <2>3. /\ json' \in [Kinds -> FileState]
          /\ tmp' \in [Kinds -> FileState]
          /\ fd' \in [Clients -> {"none", "tmp", "json", "gone"}]
        BY <2>1, <2>2, PutType
    <2> QED
        BY <1>10, <2>3 DEF TypeOK, WriteTmp, bounds, FileState
<1>11. ASSUME NEW c \in Clients, Rename(c) PROVE TypeOK'
    <2>1. Answer(c, "ok") /\ Kind(c) \in Kinds
        BY <1>11, KindType DEF Rename
    <2>2. json' \in [Kinds -> FileState] /\ tmp' \in [Kinds -> FileState]
        BY <1>11, <2>1 DEF Rename, TypeOK, FileState
    <2>3. fd' \in [Clients -> {"none", "tmp", "json", "gone"}]
        BY <1>11 DEF Rename, TypeOK, Relinked
    <2> QED
        BY <1>11, <2>1, <2>2, <2>3, AnswerType DEF Rename, TypeOK, FileState, bounds
<1>12. ASSUME NEW c \in Clients, RenameMissing(c) PROVE TypeOK'
    <2>1. Answer(c, "err")
        BY <1>12 DEF RenameMissing
    <2> QED
        BY <1>12, <2>1, AnswerType DEF RenameMissing, TypeOK, files, bounds
<1>13. ASSUME NEW c \in Clients, FailSave(c) PROVE TypeOK'
    <2>1. Answer(c, "err") /\ Kind(c) \in Kinds
        BY <1>13, KindType DEF FailSave
    <2>2. /\ json' \in [Kinds -> FileState]
          /\ tmp' \in [Kinds -> FileState]
          /\ fd' \in [Clients -> {"none", "tmp", "json", "gone"}]
        <3>1. CASE UNCHANGED <<files, fd>>
            BY <3>1 DEF TypeOK, files, FileState
        <3>2. CASE \E data \in {Held(c), Torn} : Put(c, data)
            <4>1. PICK data \in {Held(c), Torn} : Put(c, data)
                BY <3>2
            <4>2. data \in FileState
                BY <2>1, HeldType DEF FileState, Content
            <4> QED
                BY <4>1, <4>2, PutType
        <3> QED
            BY <1>13, <3>1, <3>2 DEF FailSave
    <2>3. fails' \in 0 .. MaxFails
        BY <1>13, RegistryAssumption DEF FailSave, TypeOK
    <2> QED
        BY <1>13, <2>1, <2>2, <2>3, AnswerType DEF FailSave, TypeOK, FileState
<1>14. ASSUME Crash PROVE TypeOK'
    <2>1. crashes' \in 0 .. MaxCrashes
        BY <1>14, RegistryAssumption DEF Crash, TypeOK
    <2> QED
        BY <1>1, <1>14, <2>1 DEF Crash, TypeOK, files
<1>15. ASSUME LoadRegistries PROVE TypeOK'
    <2>1. \A k \in Kinds : Saved(k) \in RegMap
        BY <1>1, <1>15 DEF LoadRegistries, Saved, Unreadable, TypeOK, Content
    <2> QED
        BY <1>15, <2>1 DEF LoadRegistries, TypeOK, files, locals, bounds
<1>16. ASSUME RefuseToStart PROVE TypeOK'
    BY <1>16 DEF RefuseToStart, TypeOK, files, locals, bounds
<1>17. CASE UNCHANGED vars
    BY <1>17 DEF vars, TypeOK
<1> QED
    BY <1>2, <1>3, <1>4, <1>5, <1>6, <1>7, <1>8, <1>9, <1>10, <1>11, <1>12,
       <1>13, <1>14, <1>15, <1>16, <1>17 DEF Next, HandlerStep, FinishSave, ProcessStep, New

(* TypeOK is an invariant: every step keeps files, descriptors and local   *)
(* variables within the shapes save and load expect.                       *)
THEOREM TypeCorrect == Spec => []TypeOK
<1> QED
    BY InitType, StepType, PTL DEF Spec

-----------------------------------------------------------------------------
(* What an uncontended request leaves behind                               *)

(* No handler outlives the process, and a running handler has not answered *)
(* yet.                                                                    *)
HandlersInv ==
    /\ up # "up" => \A c \in Clients : pc[c] = "idle"
    /\ \A c \in Clients : pc[c] # "idle" => reply[c] = "none"

(* How far an uncontended save has come: its snapshot agrees with the map  *)
(* on the keys visited, then with the whole map, then the temporary file   *)
(* with the snapshot.                                                      *)
SoloSave(c) ==
    /\ pc[c] = "range" => \A n \in Names \ todo[c] : snap[c][n] = reg[Kind(c)][n]
    /\ pc[c] \in {"open", "write", "rename"} => snap[c] = reg[Kind(c)]
    /\ pc[c] = "write" => fd[c] = "tmp" /\ tmp[Kind(c)] = Empty
    /\ pc[c] = "rename" => tmp[Kind(c)] = snap[c]

(* A request that no other one overlapped has its registry to itself.      *)
SoloInv ==
    \A c \in Clients : solo[c] =>
        /\ pc[c] # "idle"
        /\ \A d \in Clients \ {c} : ~Using(d, Kind(c))
        /\ SoloSave(c)

(* A promise stands only while nobody works on its registry.               *)
AckedInv ==
    \A k \in Kinds : acked[k] # Unknown =>
        /\ ~InUse(k)
        /\ Saved(k) = acked[k]
        /\ up = "up" => reg[k] = acked[k]

AuditInv == AuditTypeOK /\ HandlersInv /\ SoloInv /\ AckedInv

(* The invariant holds before the first start.                             *)
LEMMA AuditInitInv == AuditInit => AuditInv
<1> SUFFICES ASSUME AuditInit PROVE AuditInv
    OBVIOUS
<1>1. AuditTypeOK
    BY InitType DEF AuditInit, AuditTypeOK
<1>2. HandlersInv
    BY DEF AuditInit, Init, HandlersInv
<1>3. SoloInv
    BY DEF AuditInit, SoloInv
<1>4. AckedInv
    BY DEF AuditInit, AckedInv
<1> QED
    BY <1>1, <1>2, <1>3, <1>4 DEF AuditInv

(* The history variables keep their types.                                 *)
LEMMA AuditStepType == AuditTypeOK /\ [AuditNext]_auditVars => AuditTypeOK'
<1> SUFFICES ASSUME AuditTypeOK, [AuditNext]_auditVars PROVE AuditTypeOK'
    OBVIOUS
<1>1. TypeOK'
    BY StepType DEF AuditTypeOK, AuditNext, auditVars
<1>2. solo' \in [Clients -> BOOLEAN]
    <2>1. CASE AuditNext
        <3>1. \A c \in Clients : StillSolo(c) \in BOOLEAN
            BY DEF StillSolo
        <3> QED
            BY <2>1, <3>1 DEF AuditNext
    <2>2. CASE UNCHANGED auditVars
        BY <2>2 DEF auditVars, AuditTypeOK
    <2> QED
        BY <2>1, <2>2
<1>3. acked' \in [Kinds -> RegMap \cup {Unknown}]
    BY <1>1 DEF AuditTypeOK, AuditNext, auditVars, TypeOK
<1> QED
    BY <1>1, <1>2, <1>3 DEF AuditTypeOK

(* AuditTypeOK is an invariant of the specification with its history.      *)
THEOREM AuditTypeCorrect == AuditSpec => []AuditTypeOK
<1>1. AuditInit => AuditTypeOK
    BY AuditInitInv DEF AuditInv
<1> QED
    BY <1>1, AuditStepType, PTL DEF AuditSpec

(* Handlers begin while the daemon is up only, and a crash ends them all.  *)
LEMMA HandlersStep == TypeOK /\ HandlersInv /\ [Next]_vars => HandlersInv'
<1> SUFFICES ASSUME TypeOK, HandlersInv, [Next]_vars PROVE HandlersInv'
    OBVIOUS
<1> USE DEF HandlersInv, Goto, Answer
<1>1. ASSUME NEW c \in Clients, HandlerStep(c) \/ DropProxy(c) PROVE HandlersInv'
    <2>1. up = "up"
        BY <1>1 DEF HandlerStep, FinishSave, Begin, Reject, CheckAdd, StoreAdd, DeleteEntry,
              DropProxy, CopyKey, OpenTmp, WriteTmp, Rename, RenameMissing, FailSave
    <2>2. up' = "up"
        BY <1>1, <2>1 DEF HandlerStep, FinishSave, Begin, Reject, CheckAdd, StoreAdd, DeleteEntry,
              DropProxy, CopyKey, OpenTmp, WriteTmp, Rename, RenameMissing, FailSave
    <2>3. \A d \in Clients : pc'[d] # "idle" => reply'[d] = "none"
        BY <1>1 DEF TypeOK, HandlerStep, FinishSave, Begin, Reject, CheckAdd, StoreAdd, DeleteEntry,
              DropProxy, CopyKey, OpenTmp, WriteTmp, Rename, RenameMissing, FailSave
    <2> QED
        BY <2>2, <2>3
<1>2. CASE Crash
    BY <1>2 DEF Crash
<1>3. CASE LoadRegistries
    BY <1>3 DEF LoadRegistries
<1>4. CASE RefuseToStart
    BY <1>4 DEF RefuseToStart
<1>5. CASE UNCHANGED vars
    BY <1>5 DEF vars
<1> QED
    BY <1>1, <1>2, <1>3, <1>4, <1>5 DEF Next, ProcessStep, New

(* A handler touches nothing of a registry it does not work on ...         *)
LEMMA OtherRegistry ==
    ASSUME TypeOK, NEW d \in Clients, NEW k \in Kinds, Kind(d) # k, pc[d] # "idle",
           HandlerStep(d) \/ DropProxy(d)
    PROVE  reg'[k] = reg[k] /\ json'[k] = json[k] /\ tmp'[k] = tmp[k]
BY DEF TypeOK, HandlerStep, FinishSave, Begin, Reject, CheckAdd, StoreAdd, DeleteEntry,
       DropProxy, CopyKey, OpenTmp, WriteTmp, Rename, RenameMissing, FailSave,
       Put, files

(* ... and nothing at all when it begins.                                  *)
LEMMA BeginsOnly ==
    ASSUME NEW d \in Clients, pc[d] = "idle", HandlerStep(d) \/ DropProxy(d)
    PROVE  Begin(d) /\ reg' = reg /\ json' = json /\ tmp' = tmp
BY DEF HandlerStep, FinishSave, Begin, Reject, CheckAdd, StoreAdd, DeleteEntry, DropProxy,
       CopyKey, OpenTmp, WriteTmp, Rename, RenameMissing, FailSave, files

(* A handler leaves the local state of another one alone, and moves the    *)
(* descriptor of another one only on its own registry.                     *)
LEMMA OtherHandler ==
    ASSUME TypeOK, NEW d \in Clients, NEW c \in Clients \ {d},
           HandlerStep(d) \/ DropProxy(d)
    PROVE  /\ pc'[c] = pc[c] /\ req'[c] = req[c] /\ reply'[c] = reply[c]
           /\ snap'[c] = snap[c] /\ todo'[c] = todo[c]
           /\ ~Using(c, Kind(d)) => fd'[c] = fd[c]
BY DEF TypeOK, HandlerStep, FinishSave, Begin, Reject, CheckAdd, StoreAdd, DeleteEntry,
       DropProxy, CopyKey, OpenTmp, WriteTmp, Rename, RenameMissing, FailSave,
       Put, files, locals, Goto, Answer, Using

(* A handler's own step either answers or keeps its request.               *)
LEMMA OwnRequest ==
    ASSUME TypeOK, NEW c \in Clients, pc[c] # "idle", HandlerStep(c) \/ DropProxy(c),
           pc'[c] # "idle"
    PROVE  req'[c] = req[c]
BY DEF TypeOK, HandlerStep, FinishSave, Begin, Reject, CheckAdd, StoreAdd, DeleteEntry,
       DropProxy, CopyKey, OpenTmp, WriteTmp, Rename, RenameMissing, FailSave,
       Goto, Answer

(* An uncontended save goes on: its own step leads to the next stage.      *)
LEMMA OwnSave ==
    ASSUME TypeOK, NEW c \in Clients, pc[c] # "idle", SoloSave(c),
           HandlerStep(c) \/ DropProxy(c), pc'[c] # "idle"
    PROVE  SoloSave(c)'
<1> DEFINE k == Kind(c)
<1>1. k \in Kinds /\ req'[c] = req[c] /\ Kind(c)' = k
    BY KindType, OwnRequest DEF Kind
<1> USE DEF Goto
<1>2. CASE CheckAdd(c) \/ StoreAdd(c) \/ DeleteEntry(c)
    <2>1. pc'[c] \in {"store", "drop"}
        BY <1>2 DEF TypeOK, CheckAdd, StoreAdd, DeleteEntry
    <2> QED
        BY <2>1 DEF SoloSave
<1>3. CASE DropProxy(c)
    <2>1. pc'[c] = "range" /\ todo'[c] = Names
        BY <1>3 DEF TypeOK, DropProxy
    <2> QED
        BY <2>1 DEF SoloSave
<1>4. CASE CopyKey(c)
    <2>1. PICK n \in todo[c] :
            /\ snap' = [snap EXCEPT ![c][n] = reg[k][n]]
            /\ todo' = [todo EXCEPT ![c] = todo[c] \ {n}]
            /\ pc' = [pc EXCEPT ![c] = IF todo[c] = {n} THEN "open" ELSE "range"]
        BY <1>4 DEF CopyKey
    <2>2. reg' = reg /\ pc[c] = "range" /\ n \in Names
        BY <1>4, <2>1 DEF CopyKey, TypeOK
    <2>3. \A m \in Names \ todo'[c] : snap'[c][m] = reg[k][m]
        BY <2>1, <2>2 DEF TypeOK, RegMap, SoloSave
    <2>4. CASE todo[c] = {n}
        <3>1. \A m \in Names : snap'[c][m] = reg[k][m]
            BY <2>1, <2>3, <2>4 DEF TypeOK
        <3>2. snap'[c] \in RegMap /\ reg[k] \in RegMap
            BY StepType, <1>1, <1>4 DEF TypeOK, Next, HandlerStep, FinishSave
        <3>3. snap'[c] = reg[k]
            BY <3>1, <3>2 DEF RegMap
        <3>4. pc'[c] = "open"
            BY <2>1, <2>4 DEF TypeOK
        <3> QED
            BY <1>1, <2>2, <3>3, <3>4 DEF SoloSave
    <2>5. CASE todo[c] # {n}
        <3>1. pc'[c] = "range"
            BY <2>1, <2>5 DEF TypeOK
        <3> QED
            BY <1>1, <2>2, <2>3, <3>1 DEF SoloSave
    <2> QED
        BY <2>4, <2>5
<1>5. CASE OpenTmp(c)
    <2>1. /\ pc'[c] = "write" /\ fd'[c] = "tmp" /\ tmp'[k] = Empty
          /\ reg' = reg /\ snap' = snap /\ pc[c] = "open"
        BY <1>1, <1>5 DEF TypeOK, OpenTmp
    <2> QED
        BY <1>1, <2>1 DEF SoloSave
<1>6. CASE WriteTmp(c)
    <2>1. /\ pc'[c] = "rename" /\ reg' = reg /\ snap' = snap /\ pc[c] = "write"
        BY <1>6 DEF TypeOK, WriteTmp
    <2>2. Held(c) = Empty /\ snap[c] = reg[k] /\ fd[c] = "tmp"
        BY <2>1 DEF SoloSave, Held
    <2>3. Put(c, snap[c])
        BY <1>6, <2>2 DEF WriteTmp, Overlay
    <2>4. tmp'[k] = snap[c]
        BY <1>1, <2>2, <2>3 DEF Put, TypeOK
    <2> QED
        BY <1>1, <2>1, <2>2, <2>4 DEF SoloSave
<1>7. CASE Begin(c)
    BY <1>7 DEF Begin
<1>8. CASE Reject(c) \/ Rename(c) \/ RenameMissing(c) \/ FailSave(c)
    BY <1>8 DEF Reject, Rename, RenameMissing, FailSave, Answer, TypeOK
<1> QED
    BY <1>2, <1>3, <1>4, <1>5, <1>6, <1>7, <1>8 DEF HandlerStep, FinishSave

(* An uncontended save is not disturbed by the steps of other handlers.    *)
LEMMA OthersSave ==
    ASSUME TypeOK, NEW c \in Clients, pc[c] # "idle", SoloSave(c),
           NEW d \in Clients \ {c}, ~Using(d, Kind(c)),
           HandlerStep(d) \/ DropProxy(d)
    PROVE  SoloSave(c)'
<1>1. Kind(c) \in Kinds /\ Kind(c)' = Kind(c)
    BY KindType, OtherHandler DEF Kind
<1>2. /\ reg'[Kind(c)] = reg[Kind(c)] /\ tmp'[Kind(c)] = tmp[Kind(c)]
      /\ fd'[c] = fd[c] \/ pc[d] = "idle"
    <2>1. CASE pc[d] = "idle"
        BY <2>1, BeginsOnly
    <2>2. CASE pc[d] # "idle"
        BY <1>1, <2>2, OtherRegistry, OtherHandler DEF Using
    <2> QED
        BY <2>1, <2>2
<1>3. fd'[c] = fd[c]
    BY <1>2, BeginsOnly DEF Begin, locals
<1> QED
    BY <1>1, <1>2, <1>3, OtherHandler DEF SoloSave

(* What is known of an uncontended save is kept by every step.             *)
LEMMA SoloStep == AuditInv /\ AuditNext => SoloInv'
<1> SUFFICES ASSUME AuditInv, AuditNext,
                    NEW c \in Clients, solo'[c]
             PROVE  /\ pc'[c] # "idle"
                    /\ \A d \in Clients \ {c} : ~Using(d, Kind(c))'
                    /\ SoloSave(c)'
    BY DEF SoloInv
<1> USE DEF AuditInv, AuditTypeOK
<1>1. StillSolo(c)
    BY DEF AuditNext
<1>2. /\ pc'[c] # "idle"
      /\ \A d \in Clients \ {c} : ~Using(d, Kind(c))'
    BY <1>1 DEF StillSolo, Using, Kind
<1>3. SoloSave(c)'
    <2>1. ASSUME NEW d \in Clients, HandlerStep(d) \/ DropProxy(d) PROVE SoloSave(c)'
        <3>1. CASE pc[c] = "idle"
            <4>1. d = c
                BY <1>2, <2>1, <3>1, OtherHandler
            <4>2. pc'[c] = "check"
                BY <2>1, <3>1, <4>1, BeginsOnly DEF Begin, Goto, TypeOK
            <4> QED
                BY <4>2 DEF SoloSave
        <3>2. CASE pc[c] # "idle"
            <4>1. /\ SoloSave(c)
                  /\ \A e \in Clients \ {c} : ~Using(e, Kind(c))
                BY <1>1, <3>2 DEF StillSolo, SoloInv
            <4> QED
                BY <1>2, <2>1, <3>2, <4>1, OwnSave, OthersSave
        <3> QED
            BY <3>1, <3>2
    <2>2. CASE ProcessStep
        <3>1. up # "up" \/ Crash
            BY <2>2 DEF ProcessStep, New, LoadRegistries, RefuseToStart
        <3>2. pc'[c] = "idle"
            BY <2>2, <3>1 DEF ProcessStep, New, Crash, LoadRegistries, RefuseToStart, HandlersInv
        <3> QED
            BY <1>2, <3>2
    <2> QED
        BY <2>1, <2>2 DEF AuditNext, Next
<1> QED
    BY <1>2, <1>3

(* The answer that makes a promise: it comes from the rename.              *)
LEMMA SoloAnswer ==
    ASSUME AuditInv, AuditNext, NEW k \in Kinds, SoloOk(k), ~InUse(k)'
    PROVE  Saved(k)' = reg'[k]
<1> USE DEF AuditInv, AuditTypeOK
<1>1. PICK c \in Clients : Using(c, k) /\ solo[c] /\ reply'[c] = "ok"
    BY DEF SoloOk
<1>2. /\ pc[c] # "idle" /\ Kind(c) = k /\ reply[c] = "none" /\ SoloSave(c)
    BY <1>1 DEF Using, HandlersInv, SoloInv
<1>3. Rename(c)
    <2>1. ASSUME NEW d \in Clients, HandlerStep(d) \/ DropProxy(d) PROVE Rename(c)
        <3>1. d = c
            BY <1>1, <1>2, <2>1, OtherHandler
        <3> QED
            BY <1>1, <1>2, <2>1, <3>1 DEF TypeOK, HandlerStep, FinishSave, Begin, Reject, CheckAdd,
               StoreAdd, DeleteEntry, DropProxy, CopyKey, OpenTmp, WriteTmp,
               RenameMissing, FailSave, Answer, Goto
    <2>2. CASE ProcessStep
        BY <1>1, <1>2, <2>2 DEF ProcessStep, New, Crash, LoadRegistries, RefuseToStart
    <2> QED
        BY <2>1, <2>2 DEF AuditNext, Next
<1>4. reg' = reg /\ json'[k] = tmp[k] /\ tmp[k] = reg[k]
    BY <1>2, <1>3 DEF Rename, SoloSave, TypeOK
<1>5. json'[k] # NoFile
    BY <1>4, RegistryAssumption DEF TypeOK, Content
<1> QED
    BY <1>4, <1>5 DEF Saved

(* A promise is kept by every step that does not withdraw it.              *)
LEMMA AckedStep == AuditInv /\ AuditNext => AckedInv'
<1> SUFFICES ASSUME AuditInv, AuditNext, NEW k \in Kinds, acked'[k] # Unknown
             PROVE  /\ ~InUse(k)'
                    /\ Saved(k)' = acked'[k]
                    /\ up' = "up" => reg'[k] = acked'[k]
    BY DEF AckedInv
<1> USE DEF AuditInv, AuditTypeOK
<1>1. /\ ~InUse(k)'
      /\ acked'[k] = IF SoloOk(k) THEN reg'[k] ELSE acked[k]
    BY DEF AuditNext
<1>2. CASE SoloOk(k)
    BY <1>1, <1>2, SoloAnswer
<1>3. CASE ~SoloOk(k)
    <2>1. /\ acked'[k] = acked[k] /\ ~InUse(k)
          /\ Saved(k) = acked[k] /\ (up = "up" => reg[k] = acked[k])
        BY <1>1, <1>3 DEF AckedInv
    <2>2. ASSUME NEW d \in Clients, HandlerStep(d) \/ DropProxy(d)
          PROVE  reg'[k] = reg[k] /\ Saved(k)' = Saved(k) /\ up = "up"
        <3>1. up = "up"
            BY <2>2 DEF HandlersInv, HandlerStep, FinishSave, Begin, Reject, CheckAdd, StoreAdd,
               DeleteEntry, DropProxy, CopyKey, OpenTmp, WriteTmp, Rename,
               RenameMissing, FailSave
        <3>2. CASE pc[d] = "idle"
            BY <2>2, <3>1, <3>2, BeginsOnly DEF Saved
        <3>3. CASE pc[d] # "idle"
            BY <2>1, <2>2, <3>1, <3>3, OtherRegistry DEF InUse, Using, Saved
        <3> QED
            BY <3>2, <3>3
    <2>3. CASE Crash
        BY <1>1, <2>1, <2>3 DEF Crash, Saved, files
    <2>4. CASE LoadRegistries
        BY <1>1, <2>1, <2>4 DEF LoadRegistries, Saved, files
    <2>5. CASE RefuseToStart
        BY <1>1, <2>1, <2>5 DEF RefuseToStart, Saved, files
    <2> QED
        BY <1>1, <2>1, <2>2, <2>3, <2>4, <2>5 DEF AuditNext, Next, ProcessStep, New
<1> QED
    BY <1>2, <1>3

(* Every step keeps the invariant.                                         *)
LEMMA AuditStepInv == AuditInv /\ [AuditNext]_auditVars => AuditInv'
<1> SUFFICES ASSUME AuditInv, [AuditNext]_auditVars PROVE AuditInv'
    OBVIOUS
<1>1. AuditTypeOK'
    BY AuditStepType DEF AuditInv
<1>2. CASE AuditNext
    <2>1. HandlersInv'
        BY <1>2, HandlersStep DEF AuditInv, AuditTypeOK, AuditNext
    <2> QED
        BY <1>1, <1>2, <2>1, SoloStep, AckedStep DEF AuditInv
<1>3. CASE UNCHANGED auditVars
    BY <1>1, <1>3 DEF auditVars, vars, AuditInv, HandlersInv, SoloInv, SoloSave,
       AckedInv, InUse, Using, Kind, Saved
<1> QED
    BY <1>2, <1>3

(* What an uncontended "ok" promised outlives crashes, restarts and        *)
(* failing saves, whatever other clients do to the other registry.         *)
THEOREM AckedAlwaysSurvives == AuditSpec => []AckedSurvives
<1>1. AuditInv => AckedSurvives
    BY DEF AuditInv, AckedInv, AckedSurvives
<1> QED
    BY <1>1, AuditInitInv, AuditStepInv, PTL DEF AuditSpec

=============================================================================
