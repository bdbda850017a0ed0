------------------------------ MODULE Registry ------------------------------
(***************************************************************************)
(* The two registries of the daemon (servers/relay.go): `relays' maps a    *)
(* name to an explicit relay, `users' maps a username to a delegation.     *)
(* Each lives in a concurrent map in memory and in a JSON file that is     *)
(* rewritten, through one temporary file, by every successful mutation.    *)
(*                                                                         *)
(* The control server runs every add and remove in a goroutine of its own  *)
(* and the handlers take no lock, so a handler is a sequence of steps here *)
(* with one operation on shared state (a map or the file system) in each.  *)
(* The handlers for relays and for users have the same steps; kind says    *)
(* which of the two registries and files a handler works on.               *)
(*                                                                         *)
(* A file's content is one of: a whole registry, Empty (just truncated by  *)
(* os.WriteFile), Torn (bytes that json.Unmarshal rejects).  A descriptor  *)
(* is named by where its inode is linked now: as the temporary file, as    *)
(* the JSON file, or "gone" (replaced by a later rename).                  *)
(***************************************************************************)
EXTENDS Naturals

CONSTANTS
    Kinds,         \* the registries in play, among "relay" and "user"
    Names,         \* the names requests carry
    Labels,        \* those ValidName accepts
    ReservedName,  \* "control"
    Infos,         \* relayInfo values: a target and its clean-url flag
    TargetOk,      \* TargetOk[k]: the infos whose target kind k's add accepts
    KnownUsers,    \* the names user.Lookup finds
    NoInfo,        \* absence of an entry
    Clients,       \* control connections: one request at a time on each
    NoFile, Empty, Torn,
    MaxFails,      \* bound: failing file operations
    MaxCrashes     \* bound: crashes (or stops) of the daemon

RegMap == [Names -> Infos \cup {NoInfo}]
EmptyMap == [n \in Names |-> NoInfo]
Content == RegMap \cup {Empty, Torn}

ASSUME RegistryAssumption ==
    /\ Kinds \subseteq {"relay", "user"}
    /\ Names # {} /\ Labels \subseteq Names
    /\ TargetOk \in [Kinds -> SUBSET Infos]
    /\ NoInfo \notin Infos
    /\ NoFile \notin Content /\ Empty \notin RegMap /\ Torn \notin RegMap
    /\ MaxFails \in Nat /\ MaxCrashes \in Nat

VARIABLES
    up,       \* the daemon: "down", "up", or "refused" (New returned an error)
    reg,      \* reg[k]: the map in memory
    json,     \* json[k]: relays.json, users.json
    tmp,      \* tmp[k]: relays.json.tmp, users.json.tmp
    pc,       \* pc[c]: the next step of the handler serving c
    req,      \* req[c]: its request
    snap,     \* snap[c]: the copy of the map that save builds
    todo,     \* todo[c]: the keys its Range has still to visit
    fd,       \* fd[c]: the temporary file that os.WriteFile has open
    reply,    \* reply[c]: the last answer, "none" while one is awaited
    fails, crashes

files == <<json, tmp>>
locals == <<snap, todo, fd>>
bounds == <<fails, crashes>>
vars == <<up, reg, json, tmp, pc, req, snap, todo, fd, reply, fails, crashes>>

(* AddRequest and RemoveRequest: a remove carries no info.                 *)
Requests == [kind : Kinds, name : Names, info : Infos \cup {NoInfo}]
NoReq == [kind |-> "none", name |-> "none", info |-> NoInfo]

Steps == {"idle", "check", "store", "drop", "range", "open", "write", "rename"}

(* The types, and that a running handler has a request.                    *)
TypeOK ==
    /\ up \in {"down", "up", "refused"}
    /\ reg \in [Kinds -> RegMap]
    /\ json \in [Kinds -> Content \cup {NoFile}]
    /\ tmp \in [Kinds -> Content \cup {NoFile}]
    /\ pc \in [Clients -> Steps]
    /\ req \in [Clients -> Requests \cup {NoReq}]
    /\ \A c \in Clients : pc[c] # "idle" => req[c] \in Requests
    /\ snap \in [Clients -> RegMap]
    /\ todo \in [Clients -> SUBSET Names]
    /\ fd \in [Clients -> {"none", "tmp", "json", "gone"}]
    /\ reply \in [Clients -> {"none", "ok", "err"}]
    /\ fails \in 0 .. MaxFails
    /\ crashes \in 0 .. MaxCrashes

Init ==
    /\ up = "down"
    /\ reg = [k \in Kinds |-> EmptyMap]
    /\ json = [k \in Kinds |-> NoFile]
    /\ tmp = [k \in Kinds |-> NoFile]
    /\ pc = [c \in Clients |-> "idle"]
    /\ req = [c \in Clients |-> NoReq]
    /\ snap = [c \in Clients |-> EmptyMap]
    /\ todo = [c \in Clients |-> {}]
    /\ fd = [c \in Clients |-> "none"]
    /\ reply = [c \in Clients |-> "none"]
    /\ fails = 0
    /\ crashes = 0

-----------------------------------------------------------------------------
(* Helpers                                                                 *)

Kind(c) == req[c].kind
Using(c, k) == pc[c] # "idle" /\ Kind(c) = k
IsAdd(c) == req[c].info # NoInfo

Goto(c, step) == pc' = [pc EXCEPT ![c] = step]

(* The handler returns; its local variables go out of scope.               *)
Answer(c, res) ==
    /\ Goto(c, "idle")
    /\ reply' = [reply EXCEPT ![c] = res]
    /\ req' = [req EXCEPT ![c] = NoReq]
    /\ snap' = [snap EXCEPT ![c] = EmptyMap]
    /\ todo' = [todo EXCEPT ![c] = {}]

(* Mutant of Acceptable: handleAddUser does not look into relays.          *)
AcceptableOneSided(c) ==
    LET r == req[c] IN
    /\ r.name \in Labels
    /\ IF IsAdd(c)
       THEN /\ r.name # ReservedName
            /\ r.kind = "relay" =>
                \A k \in Kinds \ {r.kind} : reg[k][r.name] = NoInfo
            /\ r.info \in TargetOk[r.kind]
            /\ r.kind = "user" => r.name \in KnownUsers
       ELSE reg[r.kind][r.name] # NoInfo

(* What the handler checks before it changes anything.                     *)
Acceptable(c) ==
    LET r == req[c] IN
    /\ r.name \in Labels
    /\ IF IsAdd(c)
       THEN /\ r.name # ReservedName
            /\ \A k \in Kinds \ {r.kind} : reg[k][r.name] = NoInfo
            /\ r.info \in TargetOk[r.kind]
            /\ r.kind = "user" => r.name \in KnownUsers
       ELSE reg[r.kind][r.name] # NoInfo

(* Bytes written at offset 0 over what the file holds: the tail of a       *)
(* longer old content stays behind.                                        *)
Overlay(old, new) == IF old \in {Empty, new} THEN {new} ELSE {new, Torn}

Held(c) == IF fd[c] = "tmp" THEN tmp[Kind(c)]
           ELSE IF fd[c] = "json" THEN json[Kind(c)] ELSE Empty

Put(c, data) ==
    /\ tmp' = IF fd[c] = "tmp" THEN [tmp EXCEPT ![Kind(c)] = data] ELSE tmp
    /\ json' = IF fd[c] = "json" THEN [json EXCEPT ![Kind(c)] = data] ELSE json
    /\ fd' = [fd EXCEPT ![c] = "none"]

(* What an open descriptor refers to once the temporary file is renamed.   *)
Relinked(f) == IF f = "tmp" THEN "json" ELSE IF f = "json" THEN "gone" ELSE f

(* Mutant of Saved: a missing file is not told from a file.                *)
SavedUnchecked(k) == json[k]

Unreadable(k) == json[k] \in {Empty, Torn}
Saved(k) == IF json[k] = NoFile THEN EmptyMap ELSE json[k]

-----------------------------------------------------------------------------
(* The handlers                                                            *)

(* A control connection delivers a request.                                *)
Begin(c) ==
    /\ up = "up" /\ pc[c] = "idle"
    /\ \E r \in Requests : req' = [req EXCEPT ![c] = r]
    /\ reply' = [reply EXCEPT ![c] = "none"]
    /\ Goto(c, "check")
    /\ UNCHANGED <<up, reg, files, locals, bounds>>

Reject(c) ==
    /\ pc[c] = "check" /\ ~Acceptable(c)
    /\ Answer(c, "err")
    /\ UNCHANGED <<up, reg, files, fd, bounds>>

CheckAdd(c) ==
    /\ pc[c] = "check" /\ IsAdd(c) /\ Acceptable(c)
    /\ Goto(c, "store")
    /\ UNCHANGED <<up, reg, files, req, locals, reply, bounds>>

StoreAdd(c) ==
    /\ pc[c] = "store"
    /\ reg' = [reg EXCEPT ![Kind(c)][req[c].name] = req[c].info]
    /\ Goto(c, "drop")
    /\ UNCHANGED <<up, files, req, locals, reply, bounds>>

(* LoadAndDelete: the check of a remove and its effect are one operation.  *)
DeleteEntry(c) ==
    /\ pc[c] = "check" /\ ~IsAdd(c) /\ Acceptable(c)
    /\ reg' = [reg EXCEPT ![Kind(c)][req[c].name] = NoInfo]
    /\ Goto(c, "drop")
    /\ UNCHANGED <<up, files, req, locals, reply, bounds>>

(* The cached proxy of the name is dropped (its effect is in Routing), and *)
(* save starts to Range over the map.                                      *)
DropProxy(c) ==
    /\ pc[c] = "drop"
    /\ todo' = [todo EXCEPT ![c] = Names]
    /\ Goto(c, "range")
    /\ UNCHANGED <<up, reg, files, req, snap, fd, reply, bounds>>

(* Range visits the keys one by one, in no fixed order.                    *)
CopyKey(c) ==
    /\ pc[c] = "range"
    /\ \E n \in todo[c] :
        /\ snap' = [snap EXCEPT ![c][n] = reg[Kind(c)][n]]
        /\ todo' = [todo EXCEPT ![c] = @ \ {n}]
        /\ Goto(c, IF todo[c] = {n} THEN "open" ELSE "range")
    /\ UNCHANGED <<up, reg, files, req, fd, reply, bounds>>

(* Mutant of OpenTmp: the file is rewritten in place.                      *)
OpenInPlace(c) ==
    /\ pc[c] = "open"
    /\ json' = [json EXCEPT ![Kind(c)] = Empty]
    /\ fd' = [fd EXCEPT ![c] = "json"]
    /\ Goto(c, "write")
    /\ UNCHANGED <<up, reg, tmp, req, snap, todo, reply, bounds>>

(* os.WriteFile opens with O_CREATE and O_TRUNC ...                        *)
OpenTmp(c) ==
    /\ pc[c] = "open"
    /\ tmp' = [tmp EXCEPT ![Kind(c)] = Empty]
    /\ fd' = [fd EXCEPT ![c] = "tmp"]
    /\ Goto(c, "write")
    /\ UNCHANGED <<up, reg, json, req, snap, todo, reply, bounds>>

(* ... and writes through the descriptor, wherever its inode is by now.    *)
WriteTmp(c) ==
    /\ pc[c] = "write"
    /\ \E data \in Overlay(Held(c), snap[c]) : Put(c, data)
    /\ Goto(c, "rename")
    /\ UNCHANGED <<up, reg, req, snap, todo, reply, bounds>>

Rename(c) ==
    /\ pc[c] = "rename" /\ tmp[Kind(c)] # NoFile
    /\ json' = [json EXCEPT ![Kind(c)] = tmp[Kind(c)]]
    /\ tmp' = [tmp EXCEPT ![Kind(c)] = NoFile]
    /\ fd' = [d \in Clients |-> IF Using(d, Kind(c)) THEN Relinked(fd[d]) ELSE fd[d]]
    /\ Answer(c, "ok")
    /\ UNCHANGED <<up, reg, bounds>>

(* Another handler has renamed the temporary file away.                    *)
RenameMissing(c) ==
    /\ pc[c] = "rename" /\ tmp[Kind(c)] = NoFile
    /\ Answer(c, "err")
    /\ UNCHANGED <<up, reg, files, fd, bounds>>

(* os.Rename, with its two outcomes.                                       *)
FinishSave(c) ==
    /\ pc[c] = "rename"
    /\ IF tmp[Kind(c)] = NoFile THEN RenameMissing(c) ELSE Rename(c)

(* Mutants of FailSave: the error of os.WriteFile is ignored and the       *)
(* rename goes ahead; the error of save is swallowed by the handler.       *)
WriteErrorIgnored(c) ==
    /\ fails < MaxFails
    /\ fails' = fails + 1
    /\ pc[c] = "write" /\ \E data \in {Held(c), Torn} : Put(c, data)
    /\ Goto(c, "rename")
    /\ UNCHANGED <<up, reg, crashes, req, snap, todo, reply>>

SaveErrorSwallowed(c) ==
    /\ fails < MaxFails
    /\ fails' = fails + 1
    /\ \/ pc[c] \in {"open", "rename"} /\ UNCHANGED <<files, fd>>
       \/ pc[c] = "write" /\ \E data \in {Held(c), Torn} : Put(c, data)
    /\ Answer(c, "ok")
    /\ UNCHANGED <<up, reg, crashes>>

(* A file operation fails; the entry in memory stays as the handler left   *)
(* it.  A failing write may leave a part of its data behind.               *)
FailSave(c) ==
    /\ fails < MaxFails
    /\ fails' = fails + 1
    /\ \/ pc[c] \in {"open", "rename"} /\ UNCHANGED <<files, fd>>
       \/ pc[c] = "write" /\ \E data \in {Held(c), Torn} : Put(c, data)
    /\ Answer(c, "err")
    /\ UNCHANGED <<up, reg, crashes>>

-----------------------------------------------------------------------------
(* The daemon's process                                                    *)

(* The process ends, by a signal or a crash: Stop does not wait for the    *)
(* handlers in flight, so both cut them off anywhere.                      *)
Crash ==
    /\ up = "up" /\ crashes < MaxCrashes
    /\ crashes' = crashes + 1
    /\ up' = "down"
    /\ reg' = [k \in Kinds |-> EmptyMap]
    /\ pc' = [c \in Clients |-> "idle"]
    /\ req' = [c \in Clients |-> NoReq]
    /\ snap' = [c \in Clients |-> EmptyMap]
    /\ todo' = [c \in Clients |-> {}]
    /\ fd' = [c \in Clients |-> "none"]
    /\ reply' = [c \in Clients |-> "none"]
    /\ UNCHANGED <<files, fails>>

(* New: loadRelays and loadUsers, which reject a file that is not whole.   *)
LoadRegistries ==
    /\ up = "down" /\ \A k \in Kinds : ~Unreadable(k)
    /\ reg' = [k \in Kinds |-> Saved(k)]
    /\ up' = "up"
    /\ UNCHANGED <<files, pc, req, locals, reply, bounds>>

RefuseToStart ==
    /\ up = "down" /\ \E k \in Kinds : Unreadable(k)
    /\ up' = "refused"
    /\ UNCHANGED <<reg, files, pc, req, locals, reply, bounds>>

New == IF \E k \in Kinds : Unreadable(k) THEN RefuseToStart ELSE LoadRegistries

HandlerStep(c) ==
    \/ Begin(c) \/ Reject(c) \/ CheckAdd(c) \/ StoreAdd(c) \/ DeleteEntry(c)
    \/ CopyKey(c) \/ OpenTmp(c) \/ WriteTmp(c)
    \/ FinishSave(c) \/ FailSave(c)

ProcessStep == Crash \/ New

Next == (\E c \in Clients : HandlerStep(c) \/ DropProxy(c)) \/ ProcessStep

Spec == Init /\ [][Next]_vars

-----------------------------------------------------------------------------
(* Properties                                                              *)

(* With one client at a time the registries are durable maps: a file only  *)
(* ever becomes, in one step, the whole of the map in memory, and a start  *)
(* loads exactly the file.                                                 *)
Durable == INSTANCE DurableRegistry
           WITH running <- up = "up", mem <- reg,
                durable <- [k \in Kinds |-> Saved(k)]

ImplementsDurable == Durable!Spec

Quiet == up = "up" /\ \A c \in Clients : pc[c] = "idle"

(* When the daemon is up, no handler runs and none was answered with an    *)
(* error, each file holds what is in memory: `kept in sync with            *)
(* relaysPath'.                                                            *)
KeptInSync ==
    (Quiet /\ \A c \in Clients : reply[c] # "err")
        => \A k \in Kinds : Saved(k) = reg[k]

(* At every instant, a crash included, relays.json and users.json are      *)
(* absent or hold a whole registry, so that the next start can load them:  *)
(* the purpose of writing a temporary file and renaming it.                *)
AlwaysLoadable == \A k \in Kinds : ~Unreadable(k)

(* No name is an explicit relay and a user delegation at the same time,    *)
(* which the cross checks at the head of both add handlers are there for.  *)
OneKindPerName ==
    \A n \in Names, j, k \in Kinds :
        (reg[j][n] # NoInfo /\ reg[k][n] # NoInfo) => j = k

(* The same while no file operation has failed: failed saves are the one   *)
(* way in which a serial client can bring the two registries to overlap.   *)
OneKindUnlessSaveFailed == fails = 0 => OneKindPerName
=============================================================================
