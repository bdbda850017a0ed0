------------------------ MODULE RegistrySerialProofs ------------------------
(***************************************************************************)
(* What holds of the registries as long as requests come one at a time:    *)
(* the case every test of the repository exercises.                        *)
(***************************************************************************)
EXTENDS RegistryProofs

(* There is one control client.                                            *)
Serial == \A c, d \in Clients : c = d

(* A save is always as far as its step says, and no file is ever left in a *)
(* state a start could not load.                                           *)
SerialInv ==
    /\ TypeOK
    /\ HandlersInv
    /\ \A c \in Clients : pc[c] # "idle" => SoloSave(c)
    /\ AlwaysLoadable

(* The invariant holds before the first start: there are no files.         *)
LEMMA SerialInit == Init => SerialInv
<1> SUFFICES ASSUME Init PROVE SerialInv
    OBVIOUS
<1>1. AlwaysLoadable
    BY RegistryAssumption DEF Init, AlwaysLoadable, Unreadable, Content
<1> QED
    BY <1>1, InitType DEF Init, SerialInv, HandlersInv

(* Only a rename gives the JSON file a new content: the snapshot.          *)
LEMMA SerialFiles ==
    ASSUME SerialInv, NEW c \in Clients, pc[c] # "idle",
           HandlerStep(c) \/ DropProxy(c)
    PROVE  \/ json' = json
           \/ /\ Rename(c) /\ reg' = reg
              /\ json' = [json EXCEPT ![Kind(c)] = reg[Kind(c)]]
<1> USE DEF SerialInv
<1>1. CASE WriteTmp(c)
    <2>1. PICK data : Put(c, data)
        BY <1>1 DEF WriteTmp
    <2> QED
        BY <1>1, <2>1 DEF Put, WriteTmp, SoloSave
<1>2. CASE FailSave(c)
    <2>1. CASE UNCHANGED <<files, fd>>
        BY <2>1 DEF files
    <2>2. CASE pc[c] = "write" /\ \E data \in {Held(c), Torn} : Put(c, data)
        <3>1. PICK data : Put(c, data)
            BY <2>2
        <3> QED
            BY <2>2, <3>1 DEF Put, SoloSave
    <2> QED
        BY <1>2, <2>1, <2>2 DEF FailSave
<1>3. CASE Rename(c)
    BY <1>3 DEF Rename, SoloSave
<1>4. CASE ~WriteTmp(c) /\ ~FailSave(c) /\ ~Rename(c)
    BY <1>4 DEF HandlerStep, FinishSave, Begin, Reject, CheckAdd, StoreAdd, DeleteEntry,
       DropProxy, CopyKey, OpenTmp, RenameMissing, files
<1> QED
    BY <1>1, <1>2, <1>3, <1>4

(* Every step of a serial client and of the process keeps it.              *)
LEMMA SerialStep ==
    ASSUME Serial
    PROVE  SerialInv /\ [Next]_vars => SerialInv'
<1> SUFFICES ASSUME SerialInv, [Next]_vars PROVE SerialInv'
    OBVIOUS
<1>1. TypeOK' /\ HandlersInv'
    BY StepType, HandlersStep DEF SerialInv
<1>2. ASSUME NEW c \in Clients, HandlerStep(c) \/ DropProxy(c) PROVE SerialInv'
    <2>1. \A d \in Clients : d = c
        BY DEF Serial
    <2>2. pc'[c] # "idle" => SoloSave(c)'
        <3>1. CASE pc[c] = "idle"
            <4>1. pc'[c] = "check"
                BY <1>2, <3>1, BeginsOnly DEF Begin, Goto, SerialInv, TypeOK
            <4> QED
                BY <4>1 DEF SoloSave
        <3>2. CASE pc[c] # "idle"
            BY <1>2, <3>2, OwnSave DEF SerialInv
        <3> QED
            BY <3>1, <3>2
    <2>3. AlwaysLoadable'
        <3>1. CASE json' = json
            BY <3>1 DEF SerialInv, AlwaysLoadable, Unreadable
        <3>2. CASE json' # json
            <4>1. pc[c] # "idle"
                BY <1>2, <3>2, BeginsOnly
            <4>2. json' = [json EXCEPT ![Kind(c)] = reg[Kind(c)]] /\ Kind(c) \in Kinds
                BY <1>2, <3>2, <4>1, SerialFiles, KindType DEF SerialInv
            <4>3. reg[Kind(c)] \notin {Empty, Torn}
                <5>1. reg[Kind(c)] \in RegMap
                    BY <4>2 DEF SerialInv, TypeOK
                <5> QED
                    BY <5>1, RegistryAssumption
            <4> QED
                BY <4>2, <4>3 DEF SerialInv, AlwaysLoadable, Unreadable, TypeOK
        <3> QED
            BY <3>1, <3>2
    <2> QED
        BY <1>1, <2>1, <2>2, <2>3 DEF SerialInv
<1>3. CASE ProcessStep
    BY <1>1, <1>3 DEF SerialInv, ProcessStep, New, Crash, LoadRegistries, RefuseToStart,
       HandlersInv, AlwaysLoadable, Unreadable, files
<1>4. CASE UNCHANGED vars
    BY <1>1, <1>4 DEF vars, SerialInv, SoloSave, Kind, AlwaysLoadable, Unreadable
<1> QED
    BY <1>2, <1>3, <1>4 DEF Next

(* With one request at a time, a crash at any instant, a failing file      *)
(* operation included, leaves registries that the next start can load.     *)
THEOREM SerialAlwaysLoadable ==
    ASSUME Serial
    PROVE  Spec => []AlwaysLoadable
<1>1. SerialInv => AlwaysLoadable
    BY DEF SerialInv
<1> QED
    BY <1>1, SerialInit, SerialStep, PTL DEF Spec

-----------------------------------------------------------------------------
(* Refinement                                                              *)

(* Each step of a serial client or of the process is a step of the durable *)
(* maps, or leaves them alone.                                             *)
LEMMA SerialSimulation ==
    ASSUME Serial
    PROVE  SerialInv /\ [Next]_vars => [Durable!Next]_(Durable!dvars)
<1> DEFINE dur == [k \in Kinds |-> Saved(k)]
<1> SUFFICES ASSUME SerialInv, [Next]_vars
             PROVE  \/ Durable!Next
                    \/ (up = "up")' = (up = "up") /\ reg' = reg /\ dur' = dur
    BY DEF Durable!dvars
<1>1. ASSUME NEW c \in Clients, HandlerStep(c) \/ DropProxy(c)
      PROVE  \/ Durable!Next
             \/ (up = "up")' = (up = "up") /\ reg' = reg /\ dur' = dur
    <2>1. up = "up" /\ up' = "up"
        BY <1>1 DEF SerialInv, HandlersInv, HandlerStep, FinishSave, Begin, Reject, CheckAdd,
           StoreAdd, DeleteEntry, DropProxy, CopyKey, OpenTmp, WriteTmp, Rename,
           RenameMissing, FailSave
    <2>2. CASE StoreAdd(c) \/ DeleteEntry(c)
        <3>1. /\ Kind(c) \in Kinds /\ req[c].name \in Names
              /\ req[c].info \in Infos \cup {NoInfo}
            BY <2>2, KindType DEF StoreAdd, DeleteEntry, SerialInv
        <3>2. PICK i \in Infos \cup {NoInfo} : reg' = [reg EXCEPT ![Kind(c)][req[c].name] = i]
            BY <2>2, <3>1 DEF StoreAdd, DeleteEntry
        <3>3. dur' = dur
            BY <2>2 DEF StoreAdd, DeleteEntry, Saved, files
        <3>4. Durable!Change
            BY <2>1, <3>1, <3>2, <3>3 DEF Durable!Change
        <3> QED
            BY <3>4 DEF Durable!Next
    <2>3. CASE reg' = reg /\ json' = json
        <3>1. dur' = dur
            BY <2>3 DEF Saved
        <3> QED
            BY <2>1, <2>3, <3>1
    <2>4. CASE json' # json
        <3>1. pc[c] # "idle"
            BY <1>1, <2>4, BeginsOnly
        <3>2. /\ Kind(c) \in Kinds /\ reg' = reg
              /\ json' = [json EXCEPT ![Kind(c)] = reg[Kind(c)]]
            BY <1>1, <2>4, <3>1, SerialFiles, KindType DEF SerialInv
        <3>3. reg[Kind(c)] \in RegMap
            BY <3>2 DEF SerialInv, TypeOK
        <3>4. reg[Kind(c)] # NoFile
            BY <3>3, RegistryAssumption DEF Content
        <3>5. dur' = [dur EXCEPT ![Kind(c)] = reg[Kind(c)]]
            BY <3>2, <3>4 DEF Saved, SerialInv, TypeOK
        <3>6. Durable!Persist
            BY <2>1, <3>2, <3>5 DEF Durable!Persist
        <3> QED
            BY <3>6 DEF Durable!Next
    <2>5. StoreAdd(c) \/ DeleteEntry(c) \/ reg' = reg
        BY <1>1 DEF HandlerStep, FinishSave, Begin, Reject, CheckAdd, DropProxy, CopyKey, OpenTmp,
           WriteTmp, Rename, RenameMissing, FailSave
    <2> QED
        BY <2>2, <2>3, <2>4, <2>5
<1>2. CASE Crash
    <2>1. dur' = dur
        BY <1>2 DEF Crash, Saved, files
    <2>2. reg' = Durable!Blank
        BY <1>2 DEF Crash, Durable!Blank, EmptyMap
    <2>3. Durable!Lose
        BY <1>2, <2>1, <2>2 DEF Crash, Durable!Lose
    <2> QED
        BY <2>3 DEF Durable!Next
<1>3. CASE LoadRegistries
    <2>1. dur' = dur /\ reg' = dur
        BY <1>3 DEF LoadRegistries, Saved, files
    <2>2. Durable!Recover
        BY <1>3, <2>1 DEF LoadRegistries, Durable!Recover
    <2> QED
        BY <2>2 DEF Durable!Next
<1>4. CASE RefuseToStart
    BY <1>4 DEF RefuseToStart, Saved, files
<1>5. CASE UNCHANGED vars
    BY <1>5 DEF vars, Saved
<1> QED
    BY <1>1, <1>2, <1>3, <1>4, <1>5 DEF Next, ProcessStep, New

(* The durable maps start empty.                                           *)
LEMMA SerialSimulationInit == Init => Durable!Init
BY DEF Init, Durable!Init, Durable!Blank, Saved, EmptyMap

(* With one request at a time the registries are durable maps: disk and    *)
(* memory part only while a request is being saved or its save failed.     *)
THEOREM SerialImplementsDurable ==
    ASSUME Serial
    PROVE  Spec => ImplementsDurable
<1> QED
    BY SerialInit, SerialStep, SerialSimulation, SerialSimulationInit, PTL
       DEF Spec, ImplementsDurable, Durable!Spec


-----------------------------------------------------------------------------
(* One kind per name                                                       *)

Disjoint(m) ==
    \A n \in Names, j, k \in Kinds : (m[j][n] # NoInfo /\ m[k][n] # NoInfo) => j = k

SavedMaps == [k \in Kinds |-> Saved(k)]

(* No handler on k has changed the map in memory yet.                      *)
Unchanged(k) == \A c \in Clients : Using(c, k) => pc[c] \in {"check", "store"}

(* The file is what a restart brings back: it must not overlap the other   *)
(* file either, and it only differs from memory while a handler is between *)
(* its effect and its rename.                                              *)
OneKindInv ==
    /\ Disjoint(reg)
    /\ Disjoint(SavedMaps)
    /\ up = "up" => \A k \in Kinds : Unchanged(k) => Saved(k) = reg[k]
    /\ \A c \in Clients : pc[c] = "store" =>
        \A k \in Kinds \ {Kind(c)} : reg[k][req[c].name] = NoInfo

OneKindSafe == fails = 0 => OneKindInv

(* The maps are apart before the first start: they are empty.              *)
LEMMA OneKindInit == Init => OneKindSafe
BY DEF Init, OneKindSafe, OneKindInv, Disjoint, SavedMaps, Saved, EmptyMap

(* The two maps stay apart through every step of a serial client.          *)
LEMMA OneKindHandler ==
    ASSUME Serial, SerialInv, OneKindInv, fails' = 0,
           NEW c \in Clients, HandlerStep(c) \/ DropProxy(c)
    PROVE  OneKindInv'
<1> USE DEF SerialInv, Goto
<1>1. \A d \in Clients : d = c
    BY DEF Serial
<1>2. up = "up"
    BY DEF HandlersInv, HandlerStep, FinishSave, Begin, Reject, CheckAdd, StoreAdd, DeleteEntry,
       DropProxy, CopyKey, OpenTmp, WriteTmp, Rename, RenameMissing, FailSave
<1>3. ~FailSave(c)
    BY DEF FailSave, TypeOK
<1>4. ~RenameMissing(c)
    <2>1. ASSUME pc[c] = "rename" PROVE tmp[Kind(c)] # NoFile
        <3>1. tmp[Kind(c)] = reg[Kind(c)] /\ Kind(c) \in Kinds
            BY <2>1, KindType DEF SoloSave
        <3>2. reg[Kind(c)] \in RegMap
            BY <3>1 DEF TypeOK
        <3> QED
            BY <3>1, <3>2, RegistryAssumption DEF Content
    <2> QED
        BY <2>1 DEF RenameMissing
<1>5. CASE Begin(c)
    <2>1. /\ reg' = reg /\ json' = json /\ up' = up /\ pc[c] = "idle" /\ pc'[c] = "check"
        BY <1>5 DEF Begin, files, TypeOK
    <2>2. \A k \in Kinds : Unchanged(k)
        BY <1>1, <2>1 DEF Unchanged, Using
    <2> QED
        BY <1>1, <1>2, <2>1, <2>2 DEF OneKindInv, SavedMaps, Saved, Disjoint
<1>6. CASE Reject(c)
    <2>1. /\ reg' = reg /\ json' = json /\ up' = up /\ pc[c] = "check" /\ pc'[c] = "idle"
        BY <1>6 DEF Reject, files, TypeOK, Answer
    <2>2. \A k \in Kinds : Unchanged(k)
        BY <1>1, <2>1 DEF Unchanged, Using
    <2> QED
        BY <1>1, <1>2, <2>1, <2>2 DEF OneKindInv, SavedMaps, Saved, Disjoint
<1>7. CASE CheckAdd(c)
    <2>1. /\ reg' = reg /\ json' = json /\ up' = up /\ req' = req
          /\ pc[c] = "check" /\ pc'[c] = "store"
        BY <1>7 DEF CheckAdd, files, TypeOK
    <2>2. \A k \in Kinds : Unchanged(k)
        BY <1>1, <2>1 DEF Unchanged, Using
    <2>3. \A k \in Kinds \ {Kind(c)} : reg[k][req[c].name] = NoInfo
        BY <1>7 DEF CheckAdd, Acceptable, Kind
    <2> QED
        BY <1>1, <1>2, <2>1, <2>2, <2>3 DEF OneKindInv, SavedMaps, Saved, Disjoint, Kind
<1>8. CASE StoreAdd(c) \/ DeleteEntry(c)
    <2>1. /\ json' = json /\ up' = up /\ req' = req /\ pc'[c] = "drop"
          /\ Kind(c) \in Kinds /\ req[c].name \in Names
        BY <1>8, KindType DEF StoreAdd, DeleteEntry, files, TypeOK
    <2>2. PICK i \in Infos \cup {NoInfo} :
            /\ reg' = [reg EXCEPT ![Kind(c)][req[c].name] = i]
            /\ i = NoInfo \/ \A k \in Kinds \ {Kind(c)} : reg[k][req[c].name] = NoInfo
        BY <1>8, KindType DEF StoreAdd, DeleteEntry, OneKindInv
    <2>3. Disjoint(reg')
        BY <2>1, <2>2 DEF OneKindInv, Disjoint, TypeOK, RegMap
    <2>4. \A k \in Kinds : k # Kind(c) => reg'[k] = reg[k] /\ Unchanged(k) /\ Saved(k) = reg[k]
        BY <1>1, <1>2, <2>1, <2>2 DEF TypeOK, OneKindInv, Unchanged, Using
    <2>5. \A k \in Kinds : k = Kind(c) => ~Unchanged(k)'
        BY <2>1 DEF Unchanged, Using, Kind
    <2>6. SavedMaps' = SavedMaps /\ Disjoint(SavedMaps')
        BY <2>1 DEF SavedMaps, Saved, OneKindInv
    <2>7. \A k \in Kinds : Unchanged(k)' => Saved(k)' = reg'[k]
        BY <2>1, <2>4, <2>5 DEF Saved
    <2>8. \A d \in Clients : pc'[d] # "store"
        BY <1>1, <2>1
    <2> QED
        BY <2>3, <2>6, <2>7, <2>8 DEF OneKindInv
<1>9. CASE DropProxy(c) \/ CopyKey(c) \/ OpenTmp(c) \/ WriteTmp(c)
    <2>1. /\ reg' = reg /\ up' = up /\ req' = req
          /\ pc[c] \in {"drop", "range", "open", "write"}
          /\ pc'[c] \in {"range", "open", "write", "rename"}
        BY <1>9 DEF DropProxy, CopyKey, OpenTmp, WriteTmp, TypeOK
    <2>2. json' = json
        BY <2>1, SerialFiles DEF Rename
    <2>3. \A k \in Kinds : Unchanged(k)' => Unchanged(k)
        BY <1>1, <2>1 DEF Unchanged, Using, Kind
    <2> QED
        BY <1>1, <2>1, <2>2, <2>3 DEF OneKindInv, SavedMaps, Saved, Disjoint
<1>10. CASE Rename(c)
    <2>1. /\ reg' = reg /\ up' = up /\ pc[c] = "rename" /\ pc'[c] = "idle"
          /\ Kind(c) \in Kinds
        BY <1>10, KindType DEF Rename, Answer, TypeOK
    <2>2. json' = [json EXCEPT ![Kind(c)] = reg[Kind(c)]]
        BY <1>10, <2>1 DEF Rename, SoloSave
    <2>3. reg[Kind(c)] # NoFile
        <3>1. reg[Kind(c)] \in RegMap
            BY <2>1 DEF TypeOK
        <3> QED
            BY <3>1, RegistryAssumption DEF Content
    <2>4. \A k \in Kinds : k # Kind(c) => Unchanged(k)
        BY <1>1 DEF Unchanged, Using
    <2>5. \A k \in Kinds : Saved(k)' = reg[k]
        BY <1>2, <2>1, <2>2, <2>3, <2>4 DEF Saved, TypeOK, OneKindInv
    <2>6. Disjoint(SavedMaps')
        BY <2>5 DEF OneKindInv, SavedMaps, Disjoint
    <2> QED
        BY <1>1, <2>1, <2>5, <2>6 DEF OneKindInv
<1> QED
    BY <1>3, <1>4, <1>5, <1>6, <1>7, <1>8, <1>9, <1>10 DEF HandlerStep, FinishSave

(* They stay apart through crashes and restarts.                           *)
LEMMA OneKindStep ==
    ASSUME Serial
    PROVE  SerialInv /\ OneKindSafe /\ [Next]_vars => OneKindSafe'
<1> SUFFICES ASSUME SerialInv, fails = 0 => OneKindInv, [Next]_vars, fails' = 0
             PROVE  OneKindInv'
    BY DEF OneKindSafe
<1>1. fails = 0
    BY DEF SerialInv, TypeOK, Next, HandlerStep, FinishSave, ProcessStep, New, vars, bounds, Begin,
       Reject, CheckAdd, StoreAdd, DeleteEntry, DropProxy, CopyKey, OpenTmp,
       WriteTmp, Rename, RenameMissing, FailSave, Crash, LoadRegistries, RefuseToStart
<1>2. ASSUME NEW c \in Clients, HandlerStep(c) \/ DropProxy(c) PROVE OneKindInv'
    BY <1>1, <1>2, OneKindHandler
<1>3. CASE Crash
    BY <1>1, <1>3 DEF Crash, OneKindInv, Disjoint, SavedMaps, Saved, EmptyMap, files
<1>4. CASE LoadRegistries
    <2>1. reg' = SavedMaps /\ SavedMaps' = SavedMaps
        BY <1>4 DEF LoadRegistries, SavedMaps, Saved, files
    <2>2. \A k \in Kinds : Saved(k)' = reg'[k]
        BY <1>4 DEF LoadRegistries, Saved, files
    <2>3. \A c \in Clients : pc'[c] = "idle"
        BY <1>4 DEF LoadRegistries, SerialInv, HandlersInv
    <2> QED
        BY <1>1, <2>1, <2>2, <2>3 DEF OneKindInv
<1>5. CASE RefuseToStart
    BY <1>1, <1>5 DEF RefuseToStart, OneKindInv, Disjoint, SavedMaps, Saved, files,
       SerialInv, HandlersInv
<1>6. CASE UNCHANGED vars
    BY <1>1, <1>6 DEF vars, OneKindInv, Disjoint, SavedMaps, Saved, Unchanged, Using, Kind
<1> QED
    BY <1>2, <1>3, <1>4, <1>5, <1>6 DEF Next, ProcessStep, New

(* With one request at a time and no failing save, no name is ever both an *)
(* explicit relay and a user, restarts included.                           *)
THEOREM SerialOneKind ==
    ASSUME Serial
    PROVE  Spec => []OneKindUnlessSaveFailed
<1>1. OneKindSafe => OneKindUnlessSaveFailed
    BY DEF OneKindSafe, OneKindInv, Disjoint, OneKindUnlessSaveFailed, OneKindPerName
<1> QED
    BY <1>1, OneKindInit, SerialInit, SerialStep, OneKindStep, PTL DEF Spec

=============================================================================
