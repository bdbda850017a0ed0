------------------------- MODULE TrustStoresProofs --------------------------
(***************************************************************************)
(* Proofs about CAFiles and TrustStores, for any certificates, databases,  *)
(* platforms, combinations of flags and bounds.                            *)
(***************************************************************************)
EXTENDS TrustStores, TLAPS

(* Where ca init is with the directory it makes.                           *)
DirInv ==
    /\ Doing("init", "dir") => dir.cert # Absent
    /\ Doing("init", "cert") => dir.cert # Absent /\ dir.closed \subseteq {"cert"}

(* Which files of the leaf are there while ca cert writes them.            *)
LeafInv ==
    /\ Doing("cert", "key") => leaf = NoLeaf
    /\ Doing("cert", "csr") \/ Doing("cert", "sign") => leaf = [key |-> ran, crt |-> 0]
    /\ Doing("cert", "cleanup") => leaf.key \in {0, ran} /\ leaf.crt \in {0, ran}
    /\ crashes = 0 => leaf.key = leaf.crt \/ (cmd.op = "cert" /\ cmd.at # "chosen")

Browsers == {"firefox", "chrome"}
Working == cmd.at \in {"dbs", "delete", "add", "dump", "remove"}
Trusting == cmd.op \in {"install", "uninstall"}

(* The databases of b that the command has still to go through.            *)
Ahead(b) ==
    IF b \notin cmd.todo THEN {} ELSE IF Working /\ Target = b THEN cmd.dbs ELSE DBsOf(b)

(* The place where the command is belongs to its current target.           *)
PlaceInv ==
    Trusting =>
        /\ cmd.at \in {"system", "refresh"} => System \in cmd.todo
        /\ cmd.at \in Browsers => Target = cmd.at /\ cmd.at \in cmd.todo
        /\ cmd.at = "create" => Target = "chrome" /\ "chrome" \in cmd.todo
        /\ Working => System \notin cmd.todo /\ cmd.todo # {} /\ cmd.dbs \subseteq DBsOf(Target)
        /\ cmd.at = "refresh" => platform = "linux"
        /\ cmd.at \in {"delete", "add", "dump", "remove"} =>
            cmd.dbs # {} /\ Current \in present
        /\ System \in cmd.todo => System \in cmd.flags
        /\ cmd.flags # {} => cmd.todo \subseteq cmd.flags

(* What is wanted is done or still ahead, and nothing is done twice.       *)
WantInv ==
    Trusting =>
        /\ cmd.want \subseteq {System} \cup present
        /\ System \in cmd.want \ cmd.did => System \in cmd.todo
        /\ System \in cmd.todo => System \notin cmd.did
        /\ \A b \in Browsers :
            /\ cmd.want \cap DBsOf(b) \subseteq cmd.did \cup Ahead(b)
            /\ cmd.did \cap Ahead(b) = {}
        /\ cmd.at = "create" => cmd.want \cap Chrome = {}
        /\ cmd.flags = {} /\ "firefox" \in cmd.todo => cmd.want \cap Firefox # {}

(* Store s has the certificate, or does not have it, for good: until       *)
(* another command is run.                                                 *)
Holds(s, c) ==
    IF s = System THEN c \in trusted /\ (platform = "linux" => anchor = c /\ trusted = {c})
                  ELSE db[s] = c
Gone(s, c) ==
    IF s = System THEN c \notin trusted /\ (platform = "linux" => anchor # c)
                  ELSE db[s] # c

(* What an install has done so far.                                        *)
InstallInv ==
    cmd.op = "install" =>
        /\ dir.cert # Absent
        /\ cmd.at = "refresh" => anchor = dir.cert
        /\ cmd.at = "add" /\ ~cmd.dirty => db[Current] \in Others \cup {Absent}
        /\ dir.cert \in Certs => \A s \in cmd.did : Holds(s, dir.cert)

(* What an uninstall has done so far; no local CA is trusted but for the   *)
(* one among the anchors if the bundle was in order when it began.         *)
UninstallInv ==
    cmd.op = "uninstall" =>
        /\ LocalhostCA(dir.cert)
        /\ cmd.at = "remove" => LocalhostCA(db[Current])
        /\ cmd.at = "refresh" => ~LocalhostCA(anchor)
        /\ cmd.synced /\ ~cmd.dirty =>
            /\ platform = "linux" /\ System \in cmd.todo /\ cmd.at # "refresh"
                => trusted \cap LocalCAs \subseteq {anchor}
            /\ \A s \in cmd.did : Gone(s, dir.cert)

(* What the last command has left.                                         *)
ResultInv ==
    Idle =>
        /\ last.op = "install" /\ last.cert \in Certs =>
            /\ \A s \in last.did : Holds(s, last.cert)
            /\ last.ok => last.want \subseteq last.did
        /\ last.op = "uninstall" /\ last.ok /\ last.clean =>
            /\ LocalhostCA(last.cert)
            /\ \A s \in last.want : Gone(s, last.cert)

TrustInv ==
    /\ TrustTypeOK /\ DirInv /\ LeafInv /\ PublicCA
    /\ PlaceInv /\ WantInv /\ InstallInv /\ UninstallInv /\ ResultInv
-----------------------------------------------------------------------------
(* Types                                                                   *)

(* The flags are targets, and these are places of their own.               *)
LEMMA Names ==
    /\ Flags = {"system", "firefox", "chrome"} /\ System = "system"
    /\ Stores = DBs \cup {System} /\ System \notin DBs
    /\ MaxCommands \in Nat /\ MaxFails \in Nat /\ MaxCrashes \in Nat /\ MaxEvents \in Nat
    /\ Absent \notin Certs /\ Junk \notin Certs /\ Junk # Absent
    /\ LocalCAs \cap Others = {}
    /\ Certs \subseteq Content /\ Absent \in Content /\ Junk \in Content
BY CAFilesAssumption, TrustAssumption DEF System, Certs, Content

(* A command that ends leaves a result.                                    *)
LEMMA EndType ==
    ASSUME NEW c \in Commands, NEW ok \in BOOLEAN, dir \in Dirs, End(c, ok)
    PROVE  cmd' \in Commands /\ last' \in Results
<1>1. cmd' \in Commands
    BY DEF End, NoCommand, Commands, Places
<1>2. /\ c.op \in Ops \cup {"none"} /\ c.did \in SUBSET Stores /\ c.want \in SUBSET Stores
      /\ dir.cert \in Content
    BY DEF Commands, Dirs
<1>3. (c.synced /\ ~c.dirty) \in BOOLEAN
    OBVIOUS
<1>4. Result(c, ok) \in Results
    BY <1>2, <1>3 DEF Result, Results
<1> QED
    BY <1>1, <1>4 DEF End

(* So does one that a call fails, and one that refuses or succeeds.        *)
LEMMA StopType ==
    ASSUME FilesTypeOK, Fail \/ Refuse \/ Succeed
    PROVE  /\ cmd' \in Commands /\ last' \in Results
           /\ ran' \in Runs /\ fails' \in 0..MaxFails /\ crashes' \in 0..MaxCrashes
<1>1. cmd \in Commands /\ dir \in Dirs
      /\ ran \in Runs /\ fails \in 0..MaxFails /\ crashes \in 0..MaxCrashes
    BY DEF FilesTypeOK
<1>2. [cmd EXCEPT !.dirty = TRUE] \in Commands
    BY <1>1 DEF Commands
<1>3. cmd' \in Commands /\ last' \in Results
    BY <1>1, <1>2, EndType DEF Fail, Refuse, Succeed
<1>4. ran' \in Runs /\ crashes' \in 0..MaxCrashes
    BY <1>1 DEF Fail, Refuse, Succeed, End
<1>5. fails' \in 0..MaxFails
    <2>1. fails' = fails \/ (fails < MaxFails /\ fails' = fails + 1)
        BY DEF Fail, Refuse, Succeed
    <2> QED
        BY <1>1, <2>1, Names
<1> QED
    BY <1>3, <1>4, <1>5

(* A command that goes on elsewhere.                                       *)
LEMMA GotoType ==
    ASSUME FilesTypeOK, NEW place \in Places, Goto(place)
    PROVE  /\ cmd' \in Commands /\ last' \in Results
           /\ ran' \in Runs /\ fails' \in 0..MaxFails /\ crashes' \in 0..MaxCrashes
BY DEF FilesTypeOK, Goto, Commands

(* A command that begins.                                                  *)
LEMMA BeginType ==
    ASSUME FilesTypeOK, ran < MaxCommands, NEW c \in Commands, Begin(c)
    PROVE  /\ cmd' \in Commands /\ last' \in Results
           /\ ran' \in Runs /\ fails' \in 0..MaxFails /\ crashes' \in 0..MaxCrashes
<1>1. NoResult \in Results
    BY DEF NoResult, Results, Content
<1> QED
    BY <1>1, Names DEF FilesTypeOK, Begin, Runs

(* When no command runs there is a record of one all the same.             *)
LEMMA NoCommandType == NoCommand \in Commands
BY DEF NoCommand, Commands, Places

(* The steps of the certificate commands keep the types.                   *)
LEMMA FilesStepType ==
    ASSUME TrustTypeOK, FilesStep
    PROVE  FilesTypeOK'
<1>1. FilesTypeOK /\ dir \in Dirs /\ leaf \in [key : Runs, crt : Runs] /\ cmd \in Commands
      /\ last \in Results /\ ran \in Runs
      /\ fails \in 0..MaxFails /\ crashes \in 0..MaxCrashes
    BY DEF TrustTypeOK, FilesTypeOK
<1>2. /\ cmd' \in Commands /\ last' \in Results
      /\ ran' \in Runs /\ fails' \in 0..MaxFails /\ crashes' \in 0..MaxCrashes
    <2>1. CASE Fail \/ Refuse \/ Succeed
        BY <1>1, <2>1, StopType
    <2>2. CASE \E place \in Places : Goto(place)
        BY <1>1, <2>2, GotoType
    <2>3. CASE CertFails
        <3>1. cmd' \in Commands
            BY <1>1, <2>3 DEF CertFails, Commands, Places
        <3> QED
            BY <1>1, <2>3, <3>1, Names DEF CertFails
    <2>4. {"key", "csr", "sign", "cleanup", "dir", "cert"} \subseteq Places
        BY DEF Places
    <2> QED
        BY <2>1, <2>2, <2>3, <2>4
           DEF FilesStep, CreateCA, ChmodDir, ChmodCert, Chmod, CheckLeaf, GenerateECKey,
               CreateCSR, SignServerCert, Cleanup
<1>3. dir' \in Dirs
    <2>1. ASSUME NEW c \in LocalCAs, NEW d \in {c, Absent} PROVE Made(c, c, d) \in Dirs
        BY <1>1 DEF Made, Dirs, Content, Certs, Commands
    <2>2. ASSUME NEW place PROVE [dir EXCEPT !.closed = @ \ {place}] \in Dirs
        BY <1>1 DEF Dirs
    <2>3. CASE UNCHANGED dir
        BY <1>1, <2>3
    <2> QED
        BY <2>1, <2>2, <2>3
           DEF FilesStep, CreateCA, ChmodDir, ChmodCert, Chmod, CheckLeaf, GenerateECKey,
               CreateCSR, SignServerCert, Cleanup
<1>4. leaf' \in [key : Runs, crt : Runs]
    <2>1. NoLeaf \in [key : Runs, crt : Runs]
        BY Names DEF NoLeaf, Runs
    <2>2. /\ [leaf EXCEPT !.key = ran] \in [key : Runs, crt : Runs]
          /\ [leaf EXCEPT !.crt = ran] \in [key : Runs, crt : Runs]
        BY <1>1
    <2>3. CASE UNCHANGED leaf
        BY <1>1, <2>3
    <2> QED
        BY <2>1, <2>2, <2>3
           DEF FilesStep, CreateCA, ChmodDir, ChmodCert, Chmod, CheckLeaf, GenerateECKey,
               CreateCSR, SignServerCert, Cleanup
<1> QED
    BY <1>2, <1>3, <1>4 DEF FilesTypeOK

(* What a command that begins on the stores is.                            *)
LEMMA CommandType ==
    ASSUME TrustTypeOK, NEW op \in {"install", "uninstall"}, NEW flags \in FlagSets,
           NEW root \in BOOLEAN
    PROVE  /\ Command(op, flags, root) \in Commands
           /\ Targets(flags) \subseteq {System, "firefox", "chrome"}
           /\ Wanted(Targets(flags)) \subseteq {System} \cup present
<1>1. flags \subseteq {System, "firefox", "chrome"}
    BY TrustAssumption
<1>2. Targets(flags) \subseteq {System, "firefox", "chrome"}
    BY <1>1 DEF Targets
<1>3. Wanted(Targets(flags)) \subseteq {System} \cup present
    BY DEF Wanted
<1>4. present \subseteq DBs /\ InSync \in BOOLEAN
    BY DEF TrustTypeOK, InSync
<1> QED
    BY <1>1, <1>2, <1>3, <1>4, Names DEF Command, NoCommand, Commands, Places, Ops

(* The steps that begin a command keep the types.                          *)
LEMMA BeginsType ==
    ASSUME TrustTypeOK, NEW root \in BOOLEAN,
           \/ CAInit(root)
           \/ CACert(root)
           \/ \E op \in {"install", "uninstall"}, flags \in FlagSets : Start(op, flags, root)
    PROVE  FilesTypeOK'
<1>1. FilesTypeOK /\ dir \in Dirs /\ leaf \in [key : Runs, crt : Runs]
      /\ fails \in 0..MaxFails /\ crashes \in 0..MaxCrashes /\ ran \in Runs
    BY DEF TrustTypeOK, FilesTypeOK
<1>2. CASE CAInit(root) \/ CACert(root)
    <2>1. /\ [NoCommand EXCEPT !.op = "init", !.root = root, !.at = "create"] \in Commands
          /\ [NoCommand EXCEPT !.op = "cert", !.root = root] \in Commands
        BY DEF NoCommand, Commands, Places, Ops
    <2> QED
        BY <1>1, <1>2, <2>1, BeginType DEF CAInit, CACert, FilesTypeOK
<1>3. ASSUME NEW op \in {"install", "uninstall"}, NEW flags \in FlagSets,
             Start(op, flags, root)
      PROVE  FilesTypeOK'
    <2> DEFINE c == Command(op, flags, root)
    <2>1. c \in Commands
        BY CommandType
    <2> HIDE DEF c
    <2>2. CASE Begin(c)
        BY <1>1, <1>3, <2>1, <2>2, BeginType DEF Start, FilesTypeOK, c
    <2>3. CASE ran' = ran + 1 /\ End(c, FALSE) /\ UNCHANGED fails
        <3>1. cmd' \in Commands /\ last' \in Results
            BY <1>1, <2>1, <2>3, EndType
        <3>2. ran' \in Runs /\ fails' = fails /\ crashes' = crashes
            BY <1>1, <1>3, <2>3, Names DEF Start, Runs, End
        <3> QED
            BY <1>1, <1>3, <3>1, <3>2 DEF Start, FilesTypeOK
    <2> QED
        BY <1>3, <2>2, <2>3 DEF Start, c
<1> QED
    BY <1>2, <1>3

(* The databases of a target are databases, and the current one of some is *)
(* one of them.                                                            *)
LEMMA CurrentDB ==
    /\ \A b : DBsOf(b) \subseteq DBs
    /\ cmd.dbs # {} => Current \in cmd.dbs
BY DEF DBsOf, DBs, Current

(* A command that goes on with other fields.                               *)
LEMMA BecomesType ==
    ASSUME FilesTypeOK, NEW c \in Commands, Becomes(c) \/ Overlooked(c)
    PROVE  /\ cmd' \in Commands /\ last' \in Results
           /\ ran' \in Runs /\ fails' \in 0..MaxFails /\ crashes' \in 0..MaxCrashes
<1>1. CASE Becomes(c)
    BY <1>1 DEF FilesTypeOK, Becomes
<1>2. CASE Overlooked(c)
    <2>1. fails' \in 0..MaxFails
        BY <1>2, Names DEF FilesTypeOK, Overlooked
    <2>2. [c EXCEPT !.dirty = TRUE] \in Commands
        BY DEF Commands
    <2> QED
        BY <1>2, <2>1, <2>2 DEF FilesTypeOK, Overlooked
<1> QED
    BY <1>1, <1>2

(* The commands that these steps go on as.                                 *)
LEMMA NextType ==
    ASSUME TrustTypeOK
    PROVE  /\ \A did \in SUBSET Stores :
                [cmd EXCEPT !.at = "chosen", !.todo = @ \ {Target}, !.did = @ \cup did]
                    \in Commands
           /\ PassedOver \in Commands
           /\ cmd.dbs # {} => Handled \in Commands
           /\ \A dbs \in SUBSET DBs : \A place \in Places :
                [cmd EXCEPT !.dbs = dbs, !.at = place] \in Commands
           /\ [cmd EXCEPT !.at = "add"] \in Commands
<1>1. cmd \in Commands
    BY DEF TrustTypeOK, FilesTypeOK
<1>2. PassedOver \in Commands
    BY <1>1 DEF PassedOver, Commands, Places
<1>3. cmd.dbs # {} => Handled \in Commands
    BY <1>1, <1>2, CurrentDB DEF Handled, Commands
<1>4. ASSUME NEW did \in SUBSET Stores
      PROVE  [cmd EXCEPT !.at = "chosen", !.todo = @ \ {Target}, !.did = @ \cup did] \in Commands
    BY <1>1 DEF Commands, Places
<1>5. ASSUME NEW dbs \in SUBSET DBs, NEW place \in Places
      PROVE  [cmd EXCEPT !.dbs = dbs, !.at = place] \in Commands
    BY <1>1, Names DEF Commands
<1>6. [cmd EXCEPT !.at = "add"] \in Commands
    BY <1>1 DEF Commands, Places
<1> QED
    BY <1>2, <1>3, <1>4, <1>5, <1>6

(* The steps of the store commands keep the types.                         *)
LEMMA TrustStepType ==
    ASSUME TrustTypeOK, PlaceInv, TrustStep
    PROVE  TrustTypeOK'
<1>1. /\ FilesTypeOK /\ dir \in Dirs /\ dir.cert \in Content /\ cmd \in Commands
      /\ anchor \in Content /\ trusted \subseteq Certs
      /\ present \subseteq DBs /\ db \in [DBs -> Certs \cup {Absent}]
      /\ \A d \in DBs \ present : db[d] = Absent
    BY DEF TrustTypeOK, FilesTypeOK, Dirs
<1>2. /\ UNCHANGED <<dir, leaf, platform, events>>
      /\ cmd' \in Commands /\ last' \in Results
      /\ ran' \in Runs /\ fails' \in 0..MaxFails /\ crashes' \in 0..MaxCrashes
    <2>1. UNCHANGED <<dir, leaf, platform, events>>
        BY DEF TrustStep, TakeTarget, SystemRefused, WriteAnchor, RemoveAnchor, Refresh, Keychain,
               ListDBs, CreateDB, TakeDB, DeleteOld, AddNew, Dump, DeleteCA, tvars
    <2>2. CASE Fail \/ Refuse \/ Succeed
        BY <1>1, <2>1, <2>2, StopType
    <2>3. CASE \E place \in Places : Goto(place)
        BY <1>1, <2>1, <2>3, GotoType
    <2>4. CASE \E c \in Commands : Becomes(c) \/ Overlooked(c)
        BY <1>1, <2>1, <2>4, BecomesType
    <2>5. /\ {"refresh", "dbs", "delete", "add", "dump", "remove", "create"} \subseteq Places
          /\ Target \in Places
        BY Names DEF Places, Target
    <2>6. CASE TakeTarget \/ SystemRefused
        BY <2>2, <2>3, <2>5, <2>6 DEF TakeTarget, SystemRefused
    <2>7. CASE WriteAnchor \/ RemoveAnchor \/ Refresh \/ Keychain
        <3>1. StoreDone => \E c \in Commands : Becomes(c)
            BY NextType, Names DEF StoreDone, NextTarget
        <3> QED
            BY <2>2, <2>3, <2>4, <2>5, <2>7, <3>1 DEF WriteAnchor, RemoveAnchor, Refresh, Keychain
    <2>8. CASE ListDBs
        <3>1. Firefox \subseteq DBs /\ Chrome \cap present \subseteq DBs
            BY DEF DBs
        <3> QED
            BY <2>2, <2>4, <2>5, <2>8, <3>1, NextType DEF ListDBs
    <2>9. CASE CreateDB
        <3>1. {DefaultDB} \subseteq DBs
            BY TrustAssumption DEF DBs
        <3> QED
            BY <2>2, <2>4, <2>5, <2>9, <3>1, NextType DEF CreateDB
    <2>10. CASE TakeDB
        BY <2>2, <2>3, <2>4, <2>5, <2>10, NextType DEF TakeDB, NextTarget
    <2>11. CASE DeleteOld
        BY <2>3, <2>4, <2>5, <2>11, NextType DEF DeleteOld
    <2>12. CASE AddNew \/ Dump \/ DeleteCA
        <3>1. Handled \in Commands
            BY <2>12, NextType DEF PlaceInv, Trusting, AddNew, Dump, DeleteCA, Doing
        <3> QED
            BY <2>2, <2>3, <2>4, <2>5, <2>12, <3>1 DEF AddNew, Dump, DeleteCA
    <2> QED
        BY <2>6, <2>7, <2>8, <2>9, <2>10, <2>11, <2>12 DEF TrustStep
<1>3. anchor' \in Content
    BY <1>1, Names DEF TrustStep, TakeTarget, SystemRefused, WriteAnchor, RemoveAnchor, Refresh,
               Keychain, ListDBs, CreateDB, TakeDB, DeleteOld, AddNew, Dump, DeleteCA, tvars,
               system
<1>4. trusted' \subseteq Certs
    <2>1. Bundle(anchor) \subseteq Certs
        BY DEF Bundle
    <2> QED
        BY <1>1, <2>1 DEF TrustStep, TakeTarget, SystemRefused, WriteAnchor, RemoveAnchor, Refresh,
               Keychain, ListDBs, CreateDB, TakeDB, DeleteOld, AddNew, Dump, DeleteCA, tvars,
               system
<1>5. present' \subseteq DBs /\ present \subseteq present'
    BY <1>1, TrustAssumption DEF TrustStep, TakeTarget, SystemRefused, WriteAnchor, RemoveAnchor,
               Refresh, Keychain, ListDBs, CreateDB, TakeDB, DeleteOld, AddNew, Dump, DeleteCA,
               tvars, browsers, DBs
<1>6. \/ db' = db
      \/ db' = [db EXCEPT ![Current] = Absent]
      \/ Doing("install", "add") /\ Addable /\ db' = [db EXCEPT ![Current] = dir.cert]
    BY DEF TrustStep, TakeTarget, SystemRefused, WriteAnchor, RemoveAnchor,
               Refresh, Keychain, ListDBs, CreateDB, TakeDB, DeleteOld, AddNew, Dump, DeleteCA,
               tvars, browsers
<1>7. db' \in [DBs -> Certs \cup {Absent}]
    BY <1>1, <1>6 DEF Addable
<1>8. ASSUME NEW d \in DBs \ present' PROVE db'[d] = Absent
    <2>1. db[d] = Absent
        BY <1>1, <1>5
    <2>2. CASE Doing("install", "add")
        <3>1. Current # d
            BY <1>5, <2>2 DEF PlaceInv, Trusting, Doing
        <3> QED
            BY <1>1, <1>6, <2>1, <3>1
    <2>3. CASE ~Doing("install", "add")
        BY <1>1, <1>6, <2>1, <2>3
    <2> QED
        BY <2>2, <2>3
<1> QED
    BY <1>1, <1>2, <1>3, <1>4, <1>5, <1>7, <1>8 DEF TrustTypeOK, FilesTypeOK

(* What happens behind the commands' back keeps the types.                 *)
LEMMA EnvironmentType ==
    ASSUME TrustTypeOK, Environment
    PROVE  TrustTypeOK'
<1>1. /\ dir \in Dirs /\ anchor \in Content /\ trusted \subseteq Certs
      /\ present \subseteq DBs /\ db \in [DBs -> Certs \cup {Absent}]
      /\ \A d \in DBs \ present : db[d] = Absent
      /\ events \in 0..MaxEvents
    BY DEF TrustTypeOK, FilesTypeOK
<1>2. Event /\ events' \in 0..MaxEvents
    <2>1. Event
        BY DEF Environment, Refreshed, Appears, Imported, Dropped, Supplied
    <2> QED
        BY <1>1, <2>1, Names DEF Event
<1>3. Others \subseteq Certs
    BY DEF Certs
<1>4. CASE Refreshed
    <2>1. trusted' \subseteq Certs
        BY <1>4 DEF Refreshed, Bundle
    <2> QED
        BY <1>1, <1>2, <1>4, <2>1
           DEF TrustTypeOK, FilesTypeOK, Refreshed, Event, browsers
<1>5. ASSUME NEW d \in DBs, Appears(d) PROVE TrustTypeOK'
    BY <1>1, <1>2, <1>5 DEF TrustTypeOK, FilesTypeOK, Appears, Event, system
<1>6. ASSUME NEW c \in Others, Dropped(c) PROVE TrustTypeOK'
    BY <1>1, <1>2, <1>3, <1>6, Names DEF TrustTypeOK, FilesTypeOK, Dropped, Event, browsers
<1>7. ASSUME NEW c \in Others, NEW d \in DBs, Imported(d, c) PROVE TrustTypeOK'
    <2>1. db' \in [DBs -> Certs \cup {Absent}] /\ \A e \in DBs \ present' : db'[e] = Absent
        BY <1>1, <1>3, <1>7 DEF Imported
    <2> QED
        BY <1>1, <1>2, <1>7, <2>1 DEF TrustTypeOK, FilesTypeOK, Imported, Event, system
<1>8. ASSUME NEW c \in Others \cup {Junk}, Supplied(c) PROVE TrustTypeOK'
    <2>1. dir' \in Dirs
        BY <1>1, <1>3, <1>8, Names DEF Supplied, Dirs
    <2> QED
        BY <1>1, <1>2, <1>8, <2>1 DEF TrustTypeOK, FilesTypeOK, Supplied, Event, system, browsers
<1> QED
    BY <1>4, <1>5, <1>6, <1>7, <1>8 DEF Environment

(* Every step keeps the types.                                             *)
LEMMA TypeStep == TrustTypeOK /\ PlaceInv /\ [TrustNext]_vars => TrustTypeOK'
<1> SUFFICES ASSUME TrustTypeOK, PlaceInv, [TrustNext]_vars PROVE TrustTypeOK'
    OBVIOUS
<1>1. FilesTypeOK' /\ UNCHANGED tvars => TrustTypeOK'
    BY DEF TrustTypeOK, tvars
<1>2. CASE UNCHANGED vars
    BY <1>1, <1>2 DEF vars, fvars, TrustTypeOK, FilesTypeOK
<1>3. CASE FilesStep /\ UNCHANGED tvars
    BY <1>1, <1>3, FilesStepType
<1>4. ASSUME NEW root \in BOOLEAN, CAInit(root) \/ CACert(root), UNCHANGED tvars
      PROVE  TrustTypeOK'
    BY <1>1, <1>4, BeginsType
<1>5. ASSUME NEW root \in BOOLEAN, NEW flags \in FlagSets,
             CAInstall(flags, root) \/ CAUninstall(flags, root)
      PROVE  TrustTypeOK'
    BY <1>1, <1>5, BeginsType DEF CAInstall, CAUninstall, Start
<1>6. CASE RemoveLeaf /\ UNCHANGED tvars
    <2>1. leaf' \in [key : Runs, crt : Runs]
        BY <1>6, Names DEF RemoveLeaf, NoLeaf, Runs
    <2> QED
        BY <1>1, <1>6, <2>1 DEF RemoveLeaf, TrustTypeOK, FilesTypeOK
<1>7. CASE Kill /\ UNCHANGED tvars
    <2>1. cmd' \in Commands /\ last' \in Results
        <3>1. /\ cmd.op \in Ops \cup {"none"} /\ cmd.did \in SUBSET Stores
              /\ cmd.want \in SUBSET Stores /\ dir.cert \in Content
            BY DEF TrustTypeOK, FilesTypeOK, Commands, Dirs
        <3>2. (cmd.synced /\ ~cmd.dirty) \in BOOLEAN
            OBVIOUS
        <3>3. Result(cmd, FALSE) \in Results
            BY <3>1, <3>2 DEF Result, Results
        <3> QED
            BY <1>7, <3>3, NoCommandType DEF Kill
    <2>2. crashes' \in 0..MaxCrashes
        BY <1>7, Names DEF Kill, TrustTypeOK, FilesTypeOK
    <2> QED
        BY <1>1, <1>7, <2>1, <2>2 DEF Kill, TrustTypeOK, FilesTypeOK
<1>8. CASE TrustStep
    BY <1>8, TrustStepType
<1>9. CASE Environment
    BY <1>9, EnvironmentType
<1>10. CASE Rest
    BY <1>2, <1>10 DEF Rest
<1> QED
    BY <1>2, <1>3, <1>4, <1>5, <1>6, <1>7, <1>8, <1>9, <1>10 DEF TrustNext, Files, FilesNext

-----------------------------------------------------------------------------
(* The files                                                               *)

(* A command on the stores leaves the files alone; it goes on as the same  *)
(* command, or it ends.                                                    *)
LEMMA TrustFrame ==
    ASSUME TrustTypeOK, TrustStep
    PROVE  /\ Trusting /\ UNCHANGED <<dir, leaf, platform, events, ran, crashes>>
           /\ \/ Fail \/ Refuse \/ Succeed
              \/ /\ cmd'.op = cmd.op /\ cmd'.want = cmd.want /\ cmd'.flags = cmd.flags
                 /\ cmd'.root = cmd.root /\ cmd'.synced = cmd.synced
                 /\ cmd.dirty => cmd'.dirty
<1>1. cmd \in Commands
    BY DEF TrustTypeOK, FilesTypeOK
<1>2. /\ Trusting /\ UNCHANGED <<dir, leaf, platform, events>>
      /\ UNCHANGED <<ran, crashes>>
    <2>1. UNCHANGED <<dir, leaf, platform, events>>
        BY DEF TrustStep, TakeTarget, SystemRefused, WriteAnchor, RemoveAnchor, Refresh, Keychain,
               ListDBs, CreateDB, TakeDB, DeleteOld, AddNew, Dump, DeleteCA, tvars
    <2>2. Trusting
        BY DEF TrustStep, TakeTarget, SystemRefused, WriteAnchor, RemoveAnchor, Refresh, Keychain,
               ListDBs, CreateDB, TakeDB, DeleteOld, AddNew, Dump, DeleteCA, At, Doing, Trusting
    <2>3. UNCHANGED <<ran, crashes>>
        BY DEF TrustStep, TakeTarget, SystemRefused, WriteAnchor, RemoveAnchor, Refresh, Keychain,
               ListDBs, CreateDB, TakeDB, DeleteOld, AddNew, Dump, DeleteCA, Fail, Refuse,
               Succeed, End, Goto, Becomes, Overlooked, StoreDone, NextTarget
    <2> QED
        BY <2>1, <2>2, <2>3
<1> DEFINE Onward ==
        /\ cmd'.op = cmd.op /\ cmd'.want = cmd.want /\ cmd'.flags = cmd.flags
        /\ cmd'.root = cmd.root /\ cmd'.synced = cmd.synced
        /\ cmd.dirty => cmd'.dirty
<1>3. /\ \A place : Goto(place) => Onward
      /\ \A did : NextTarget(did) => Onward
      /\ \A dbs, place : Becomes([cmd EXCEPT !.dbs = dbs, !.at = place]) => Onward
    BY <1>1 DEF Goto, NextTarget, Becomes, Commands
<1>4. /\ Becomes(PassedOver) => Onward
      /\ Becomes(Handled) \/ Overlooked(Handled) => Onward
      /\ Overlooked([cmd EXCEPT !.at = "add"]) => Onward
    BY <1>1 DEF Becomes, Overlooked, PassedOver, Handled, Commands
<1> HIDE DEF Onward
<1>5. Fail \/ Refuse \/ Succeed \/ Onward
    BY <1>3, <1>4
       DEF TrustStep, TakeTarget, SystemRefused, WriteAnchor, RemoveAnchor, Refresh, Keychain,
           ListDBs, CreateDB, TakeDB, DeleteOld, AddNew, Dump, DeleteCA, StoreDone
<1> QED
    BY <1>2, <1>5 DEF Onward

(* What a command leaves when it ends.                                     *)
LEMMA EndOf ==
    ASSUME NEW c, NEW ok, End(c, ok)
    PROVE  /\ cmd' = NoCommand /\ cmd'.op = "none" /\ cmd'.at = "chosen"
           /\ last'.op = c.op /\ last'.ok = ok /\ last'.cert = dir.cert
           /\ last'.did = c.did /\ last'.want = c.want
           /\ last'.clean = (c.synced /\ ~c.dirty)
<1>1. cmd' = NoCommand /\ last' = Result(c, ok)
    BY DEF End
<1>2. /\ Result(c, ok).op = c.op /\ Result(c, ok).ok = ok /\ Result(c, ok).cert = dir.cert
      /\ Result(c, ok).did = c.did /\ Result(c, ok).want = c.want
    BY DEF Result
<1>3. Result(c, ok).clean = (c.synced /\ ~c.dirty)
    BY Zenon DEF Result
<1>4. NoCommand.op = "none" /\ NoCommand.at = "chosen"
    BY DEF NoCommand
<1> QED
    BY <1>1, <1>2, <1>3, <1>4

(* A command that fails, refuses or is killed has not succeeded; what its  *)
(* end says of it is what was true of it.                                  *)
LEMMA Ended ==
    ASSUME cmd \in Commands, Fail \/ Refuse \/ Succeed \/ Kill
    PROVE  /\ cmd' = NoCommand /\ cmd'.op = "none" /\ cmd'.at = "chosen"
           /\ last'.op = cmd.op /\ last'.cert = dir.cert
           /\ last'.did = cmd.did /\ last'.want = cmd.want
           /\ last'.ok => Succeed
           /\ Fail \/ Refuse \/ Kill => ~last'.ok
           /\ last'.clean => cmd.synced /\ ~cmd.dirty
<1>1. CASE Fail
    <2> DEFINE c == [cmd EXCEPT !.dirty = TRUE]
    <2>1. End(c, FALSE)
        BY <1>1 DEF Fail
    <2>2. c.op = cmd.op /\ c.did = cmd.did /\ c.want = cmd.want /\ c.dirty = TRUE
        BY DEF Commands
    <2> HIDE DEF c
    <2> QED
        BY <2>1, <2>2, EndOf
<1>2. ASSUME NEW ok, End(cmd, ok)
      PROVE  /\ cmd' = NoCommand /\ cmd'.op = "none" /\ cmd'.at = "chosen"
             /\ last'.op = cmd.op /\ last'.cert = dir.cert /\ last'.ok = ok
             /\ last'.did = cmd.did /\ last'.want = cmd.want
             /\ last'.clean => cmd.synced /\ ~cmd.dirty
    BY <1>2, EndOf
<1>3. CASE Refuse
    BY <1>2, <1>3 DEF Refuse
<1>4. CASE Succeed
    <2>1. Succeed /\ last'.ok = TRUE
        BY <1>2, <1>4 DEF Succeed
    <2>2. ~(Fail \/ Refuse \/ Kill)
        <3>1. ~Fail
            <4>1. ASSUME Fail PROVE last'.ok = FALSE
                BY <4>1, EndOf DEF Fail
            <4> QED
                BY <2>1, <4>1
        <3>2. ~Refuse
            BY <1>2, <2>1 DEF Refuse
        <3>3. ~Kill
            <4>1. ASSUME Kill PROVE last'.ok = FALSE
                BY <4>1 DEF Kill, Result
            <4> QED
                BY <2>1, <4>1
        <3> QED
            BY <3>1, <3>2, <3>3
    <2> QED
        BY <1>2, <1>4, <2>2 DEF Succeed
<1>5. CASE Kill
    <2>1. cmd' = NoCommand /\ last' = Result(cmd, FALSE)
        BY <1>5 DEF Kill
    <2>2. /\ Result(cmd, FALSE).op = cmd.op /\ Result(cmd, FALSE).ok = FALSE
          /\ Result(cmd, FALSE).cert = dir.cert
          /\ Result(cmd, FALSE).did = cmd.did /\ Result(cmd, FALSE).want = cmd.want
        BY DEF Result
    <2>3. Result(cmd, FALSE).clean = (cmd.synced /\ ~cmd.dirty)
        BY Zenon DEF Result
    <2>4. NoCommand.op = "none" /\ NoCommand.at = "chosen"
        BY DEF NoCommand
    <2> QED
        BY <2>1, <2>2, <2>3, <2>4
<1> QED
    BY <1>1, <1>3, <1>4, <1>5

(* A command on the stores begins, or is refused at once.                  *)
LEMMA Begun ==
    ASSUME NEW op, NEW flags, NEW root, Start(op, flags, root)
    PROVE  /\ Idle
           /\ \/ /\ cmd' = Command(op, flags, root) /\ Accepted(op, root) /\ last' = NoResult
                 /\ cmd'.op = op /\ cmd'.at = "chosen"
              \/ /\ cmd'.op = "none" /\ cmd'.at = "chosen"
                 /\ last'.op = op /\ last'.ok = FALSE /\ last'.did = {}
           /\ UNCHANGED <<dir, leaf, tvars, fails, crashes>>
<1> DEFINE c == Command(op, flags, root)
<1>1. c.op = op /\ c.at = "chosen" /\ c.did = {}
    BY DEF Command, NoCommand
<1> HIDE DEF c
<1>2. Idle /\ UNCHANGED <<dir, leaf, tvars>>
    BY DEF Start
<1>3. \/ Begin(c) /\ Accepted(op, root)
      \/ End(c, FALSE) /\ fails' = fails
    BY DEF Start, c
<1>4. CASE Begin(c) /\ Accepted(op, root)
    <2>1. cmd' = c /\ last' = NoResult /\ UNCHANGED <<fails, crashes>>
        BY <1>4 DEF Begin
    <2> QED
        BY <1>1, <1>2, <1>4, <2>1 DEF c
<1>5. CASE End(c, FALSE) /\ fails' = fails
    <2>1. UNCHANGED <<fails, crashes>>
        BY <1>5 DEF End
    <2> QED
        BY <1>1, <1>2, <1>5, <2>1, EndOf
<1> QED
    BY <1>3, <1>4, <1>5

(* Every step keeps the directory as ca init wants it.                     *)
LEMMA DirStep == TrustTypeOK /\ DirInv /\ PublicCA /\ [TrustNext]_vars => DirInv' /\ PublicCA'
<1> SUFFICES ASSUME TrustTypeOK, DirInv, PublicCA, [TrustNext]_vars PROVE DirInv' /\ PublicCA'
    OBVIOUS
<1>1. dir \in Dirs /\ cmd \in Commands /\ last \in Results
    BY DEF TrustTypeOK, FilesTypeOK
<1>2. CASE UNCHANGED vars
    BY <1>2 DEF vars, fvars, DirInv, PublicCA, Doing, Idle, CertReadable
<1>3. ASSUME Fail \/ Refuse \/ Kill PROVE DirInv' /\ PublicCA'
    BY <1>3, <1>1, Ended DEF DirInv, PublicCA, Doing
<1>4. CASE CreateCA
    <2>1. ASSUME NEW c \in LocalCAs, dir' = Made(c, c, c), Goto("dir") PROVE DirInv' /\ PublicCA'
        BY <1>1, <1>4, <2>1, Names
           DEF CreateCA, Made, Goto, DirInv, PublicCA, Doing, Idle, Certs, Commands
    <2>2. CASE Fail \/ Refuse
        BY <1>3, <2>2
    <2> QED
        BY <1>4, <2>1, <2>2 DEF CreateCA
<1>5. CASE ChmodDir
    <2>1. CASE Fail
        BY <1>3, <2>1
    <2>2. CASE dir' = [dir EXCEPT !.closed = @ \ {"dir"}] /\ Goto("cert")
        <3>1. dir'.cert = dir.cert /\ dir'.closed \subseteq {"cert"}
            BY <1>1, <2>2 DEF Dirs
        <3>2. cmd'.op = "init" /\ cmd'.at = "cert"
            BY <1>1, <1>5, <2>2 DEF ChmodDir, Chmod, Doing, Goto, Commands
        <3> QED
            BY <1>5, <3>1, <3>2 DEF ChmodDir, Chmod, DirInv, PublicCA, Doing, Idle
    <2> QED
        BY <1>5, <2>1, <2>2 DEF ChmodDir, Chmod
<1>6. CASE ChmodCert
    <2>1. CASE Fail
        BY <1>3, <2>1
    <2>2. CASE dir' = [dir EXCEPT !.closed = @ \ {"cert"}] /\ Succeed
        <3>1. dir'.cert # Absent /\ dir'.closed = {}
            BY <1>1, <1>6, <2>2 DEF Dirs, DirInv, ChmodCert, Chmod
        <3> QED
            BY <1>1, <2>2, <3>1, Ended DEF DirInv, PublicCA, Doing, CertReadable
    <2> QED
        BY <1>6, <2>1, <2>2 DEF ChmodCert, Chmod
<1>7. CASE CheckLeaf \/ GenerateECKey \/ CreateCSR \/ SignServerCert \/ Cleanup
    <2>1. cmd.op = "cert"
        BY <1>7 DEF CheckLeaf, GenerateECKey, CreateCSR, SignServerCert, Cleanup, Doing
    <2>2. CASE Refuse \/ Succeed
        BY <1>1, <2>1, <2>2, Ended DEF DirInv, PublicCA, Doing
    <2>3. CASE \E place : Goto(place)
        BY <1>1, <2>1, <2>3 DEF Goto, DirInv, PublicCA, Doing, Idle, Commands
    <2>4. CASE CertFails
        BY <1>1, <2>1, <2>4 DEF CertFails, DirInv, PublicCA, Doing, Idle, Commands
    <2> QED
        BY <1>7, <2>2, <2>3, <2>4
           DEF CheckLeaf, GenerateECKey, CreateCSR, SignServerCert, Cleanup
<1>8. ASSUME NEW root \in BOOLEAN, CAInit(root) \/ CACert(root) PROVE DirInv' /\ PublicCA'
    <2>1. cmd'.op \in {"init", "cert"} /\ cmd'.at \in {"create", "chosen"}
        BY <1>8 DEF CAInit, CACert, Begin, NoCommand
    <2> QED
        BY <2>1 DEF DirInv, PublicCA, Doing, Idle
<1>9. ASSUME NEW op \in {"install", "uninstall"}, NEW flags, NEW root, Start(op, flags, root)
      PROVE  DirInv' /\ PublicCA'
    <2>1. cmd'.op # "init" /\ (cmd'.op = "none" => last'.op # "init")
        BY <1>9, Begun
    <2> QED
        BY <2>1 DEF DirInv, PublicCA, Doing, Idle
<1>10. CASE TrustStep
    <2>1. CASE Fail \/ Refuse \/ Succeed
        BY <1>1, <1>10, <2>1, TrustFrame, Ended DEF DirInv, PublicCA, Doing, Trusting
    <2> QED
        BY <1>10, <2>1, TrustFrame DEF DirInv, PublicCA, Doing, Idle, Trusting
<1>11. CASE Kill
    BY <1>3, <1>11
<1>12. CASE Environment
    <2>1. cmd' = cmd /\ last' = last
        BY <1>12 DEF Environment, Refreshed, Appears, Imported, Dropped, Supplied, Event
    <2>2. CASE dir' = dir
        BY <2>1, <2>2 DEF DirInv, PublicCA, Doing, Idle, CertReadable
    <2>3. ASSUME NEW c \in Others \cup {Junk}, Supplied(c) PROVE DirInv' /\ PublicCA'
        <3>1. /\ Idle /\ c # Absent
              /\ dir'.cert = c /\ dir'.byRoot = dir.byRoot /\ dir'.closed = dir.closed
            BY <1>1, <2>3, Names DEF Supplied, Certs, Dirs
        <3> QED
            BY <2>1, <3>1 DEF DirInv, PublicCA, Doing, Idle, CertReadable
    <2> QED
        BY <1>12, <2>2, <2>3 DEF Environment, Refreshed, Appears, Imported, Dropped
<1>13. CASE RemoveLeaf
    BY <1>13 DEF RemoveLeaf, DirInv, PublicCA, Doing, Idle, CertReadable
<1> QED
    BY <1>2, <1>4, <1>5, <1>6, <1>7, <1>8, <1>9, <1>10, <1>11, <1>12, <1>13
       DEF TrustNext, Files, FilesNext, FilesStep, CAInstall, CAUninstall, Rest

(* Every step keeps the leaf as ca cert wants it.                          *)
LEMMA LeafStep == TrustTypeOK /\ LeafInv /\ [TrustNext]_vars => LeafInv'
<1> SUFFICES ASSUME TrustTypeOK, LeafInv, [TrustNext]_vars PROVE LeafInv'
    OBVIOUS
<1>1. /\ leaf \in [key : Runs, crt : Runs] /\ cmd \in Commands
      /\ crashes \in 0..MaxCrashes /\ MaxCrashes \in Nat
    BY Names DEF TrustTypeOK, FilesTypeOK
<1>2. CASE UNCHANGED vars
    BY <1>2 DEF vars, fvars, LeafInv, Doing
<1>3. ASSUME cmd'.op # "cert" \/ cmd'.at = "chosen", crashes' = crashes, leaf' = leaf,
             cmd.op # "cert" \/ cmd.at = "chosen"
      PROVE  LeafInv'
    BY <1>3 DEF LeafInv, Doing
<1>4. CASE CreateCA \/ ChmodDir \/ ChmodCert
    <2>1. cmd.op = "init" /\ leaf' = leaf
        BY <1>4 DEF CreateCA, ChmodDir, ChmodCert, Chmod, Doing
    <2>2. CASE Fail \/ Refuse \/ Succeed
        BY <1>1, <1>3, <2>1, <2>2, Ended DEF Fail, Refuse, Succeed, End
    <2>3. CASE Goto("dir") \/ Goto("cert")
        BY <1>1, <1>3, <2>1, <2>3 DEF Goto, Commands
    <2> QED
        BY <1>4, <2>2, <2>3 DEF CreateCA, ChmodDir, ChmodCert, Chmod
<1>5. CASE CheckLeaf
    <2>1. CASE Refuse
        BY <1>1, <1>3, <1>5, <2>1, Ended DEF CheckLeaf, Doing, Refuse, End
    <2>2. CASE leaf = NoLeaf /\ Goto("key")
        BY <1>1, <1>5, <2>2 DEF CheckLeaf, Doing, Goto, LeafInv, Commands, NoLeaf
    <2> QED
        BY <1>5, <2>1, <2>2 DEF CheckLeaf
<1>6. ASSUME CertFails, cmd.op = "cert", leaf'.key \in {0, ran}, leaf'.crt \in {0, ran}
      PROVE  LeafInv'
    BY <1>1, <1>6 DEF CertFails, LeafInv, Doing, Commands
<1>7. CASE GenerateECKey
    <2>1. leaf = [key |-> 0, crt |-> 0] /\ cmd.op = "cert"
        BY <1>7 DEF GenerateECKey, LeafInv, Doing, NoLeaf
    <2>2. CASE leaf' = [leaf EXCEPT !.key = ran] /\ Goto("csr")
        BY <1>1, <1>7, <2>1, <2>2 DEF GenerateECKey, Goto, LeafInv, Doing, Commands
    <2>3. CASE CertFails /\ leaf' \in {leaf, [leaf EXCEPT !.key = ran]}
        BY <1>6, <2>1, <2>3
    <2> QED
        BY <1>7, <2>2, <2>3 DEF GenerateECKey
<1>8. CASE CreateCSR
    <2>1. leaf = [key |-> ran, crt |-> 0] /\ cmd.op = "cert"
        BY <1>8 DEF CreateCSR, LeafInv, Doing
    <2>2. CASE Goto("sign")
        BY <1>1, <1>8, <2>1, <2>2 DEF CreateCSR, Goto, LeafInv, Doing, Commands
    <2>3. CASE CertFails
        BY <1>6, <1>8, <2>1, <2>3 DEF CreateCSR
    <2> QED
        BY <1>8, <2>2, <2>3 DEF CreateCSR
<1>9. CASE SignServerCert
    <2>1. leaf = [key |-> ran, crt |-> 0] /\ cmd.op = "cert"
        BY <1>9 DEF SignServerCert, LeafInv, Doing
    <2>2. CASE leaf' = [leaf EXCEPT !.crt = ran] /\ Succeed
        BY <1>1, <2>1, <2>2, Ended DEF LeafInv, Doing
    <2>3. CASE Goto("cleanup") /\ UNCHANGED leaf
        BY <1>1, <2>1, <2>3 DEF Goto, LeafInv, Doing, Commands
    <2>4. CASE CertFails /\ leaf' \in {leaf, [leaf EXCEPT !.crt = ran]}
        BY <1>6, <2>1, <2>4
    <2> QED
        BY <1>9, <2>2, <2>3, <2>4 DEF SignServerCert
<1>10. CASE Cleanup
    BY <1>1, <1>10, Ended DEF Cleanup, LeafInv, Doing, NoLeaf
<1>11. CASE RemoveLeaf
    BY <1>11 DEF RemoveLeaf, LeafInv, Doing, Idle, NoLeaf
<1>12. CASE Kill
    <2>1. crashes' # 0
        BY <1>1, <1>12 DEF Kill
    <2>2. cmd'.op = "none"
        BY <1>1, <1>12, Ended
    <2> QED
        BY <2>1, <2>2 DEF LeafInv, Doing
<1>13. ASSUME NEW root, CAInit(root) \/ CACert(root) PROVE LeafInv'
    BY <1>3, <1>13 DEF CAInit, CACert, Begin, NoCommand, Idle
<1>14. ASSUME NEW op \in {"install", "uninstall"}, NEW flags, NEW root, Start(op, flags, root)
      PROVE  LeafInv'
    BY <1>3, <1>14, Begun DEF Idle
<1>15. CASE TrustStep
    <2>1. cmd.op # "cert" /\ leaf' = leaf /\ crashes' = crashes
        BY <1>15, TrustFrame DEF Trusting
    <2>2. cmd'.op # "cert"
        BY <1>1, <1>15, <2>1, TrustFrame, Ended
    <2> QED
        BY <1>3, <2>1, <2>2
<1>16. CASE Environment
    BY <1>16 DEF Environment, Refreshed, Appears, Imported, Dropped, Supplied, Event, LeafInv,
                 Doing
<1> QED
    BY <1>2, <1>4, <1>5, <1>7, <1>8, <1>9, <1>10, <1>11, <1>12, <1>13, <1>14, <1>15, <1>16
       DEF TrustNext, Files, FilesNext, FilesStep, CAInstall, CAUninstall, Rest

-----------------------------------------------------------------------------
(* The targets and the databases                                           *)

(* The command goes on with these fields, the others as they are.          *)
Onward(at, todo, dbs, did) ==
    /\ cmd'.at = at /\ cmd'.todo = todo /\ cmd'.dbs = dbs /\ cmd'.did = did
    /\ cmd'.op = cmd.op /\ cmd'.want = cmd.want /\ cmd'.flags = cmd.flags
    /\ cmd'.synced = cmd.synced

(* How a command on the stores may go on.                                  *)
LEMMA OnwardSteps ==
    ASSUME TrustTypeOK
    PROVE  /\ \A place : Goto(place) => Onward(place, cmd.todo, cmd.dbs, cmd.did)
           /\ \A did : NextTarget(did) =>
                Onward("chosen", cmd.todo \ {Target}, cmd.dbs, cmd.did \cup did)
           /\ NextTarget({}) => Onward("chosen", cmd.todo \ {Target}, cmd.dbs, cmd.did)
           /\ \A dbs, place : Becomes([cmd EXCEPT !.dbs = dbs, !.at = place])
                => Onward(place, cmd.todo, dbs, cmd.did)
           /\ Becomes(PassedOver) => Onward("dbs", cmd.todo, cmd.dbs \ {Current}, cmd.did)
           /\ Becomes(Handled) \/ Overlooked(Handled) =>
                Onward("dbs", cmd.todo, cmd.dbs \ {Current}, cmd.did \cup {Current})
           /\ Overlooked([cmd EXCEPT !.at = "add"])
                => Onward("add", cmd.todo, cmd.dbs, cmd.did)
<1>1. cmd \in Commands
    BY DEF TrustTypeOK, FilesTypeOK
<1>2. \A place : Goto(place) => Onward(place, cmd.todo, cmd.dbs, cmd.did)
    BY <1>1 DEF Goto, Commands, Onward
<1>3. ASSUME NEW did, NextTarget(did)
      PROVE  Onward("chosen", cmd.todo \ {Target}, cmd.dbs, cmd.did \cup did)
    BY <1>1, <1>3 DEF NextTarget, Becomes, Commands, Onward
<1>4. NextTarget({}) => Onward("chosen", cmd.todo \ {Target}, cmd.dbs, cmd.did)
    <2>1. cmd.did \cup {} = cmd.did
        OBVIOUS
    <2> QED
        BY <1>3, <2>1
<1>5. \A dbs, place : Becomes([cmd EXCEPT !.dbs = dbs, !.at = place])
            => Onward(place, cmd.todo, dbs, cmd.did)
    BY <1>1 DEF Becomes, Commands, Onward
<1>6. /\ Becomes(PassedOver) => Onward("dbs", cmd.todo, cmd.dbs \ {Current}, cmd.did)
      /\ Becomes(Handled) \/ Overlooked(Handled) =>
            Onward("dbs", cmd.todo, cmd.dbs \ {Current}, cmd.did \cup {Current})
    BY <1>1 DEF Becomes, Overlooked, PassedOver, Handled, Commands, Onward
<1>7. Overlooked([cmd EXCEPT !.at = "add"]) => Onward("add", cmd.todo, cmd.dbs, cmd.did)
    BY <1>1 DEF Overlooked, Commands, Onward
<1> QED
    BY <1>2, <1>3, <1>4, <1>5, <1>6, <1>7

(* The current target is in todo; the current database stays the current   *)
(* one as long as the databases ahead are the same.                        *)
LEMMA Currents ==
    ASSUME TrustTypeOK
    PROVE  /\ cmd.todo # {} => Target \in cmd.todo /\ Target \in {System} \cup Browsers
           /\ cmd'.todo = cmd.todo => Target' = Target
           /\ cmd'.dbs = cmd.dbs => Current' = Current
<1>1. cmd.todo \subseteq {System, "firefox", "chrome"}
    BY Names DEF TrustTypeOK, FilesTypeOK, Commands
<1>2. cmd.todo # {} => Target \in cmd.todo /\ Target \in {System} \cup Browsers
    BY <1>1 DEF Target, Browsers
<1>3. cmd'.todo = cmd.todo => Target' = Target
    BY DEF Target
<1>4. cmd'.dbs = cmd.dbs => Current' = Current
    BY DEF Current
<1> QED
    BY <1>2, <1>3, <1>4

(* Every step keeps the command at a place of its target.                  *)
LEMMA PlaceStep == TrustTypeOK /\ PlaceInv /\ [TrustNext]_vars => PlaceInv'
<1> SUFFICES ASSUME TrustTypeOK, PlaceInv, [TrustNext]_vars PROVE PlaceInv'
    OBVIOUS
<1>1. cmd \in Commands /\ cmd.todo \subseteq {System, "firefox", "chrome"} /\ System = "system"
    BY Names DEF TrustTypeOK, FilesTypeOK, Commands
<1>2. CASE UNCHANGED vars
    BY <1>2, Currents DEF vars, fvars, tvars, PlaceInv, Trusting, Working
<1>3. ASSUME cmd'.op \notin {"install", "uninstall"} PROVE PlaceInv'
    BY <1>3 DEF PlaceInv, Trusting
<1>4. CASE Fail \/ Refuse \/ Succeed \/ Kill
    BY <1>1, <1>3, <1>4, Ended
<1>5. CASE FilesStep
    <2>1. cmd.op \in {"init", "cert"}
        BY <1>5 DEF FilesStep, CreateCA, ChmodDir, ChmodCert, Chmod, CheckLeaf, GenerateECKey,
                    CreateCSR, SignServerCert, Cleanup, Doing
    <2>2. CASE (\E place : Goto(place)) \/ CertFails
        BY <1>1, <1>3, <2>1, <2>2 DEF Goto, CertFails, Commands
    <2> QED
        BY <1>4, <1>5, <2>2
           DEF FilesStep, CreateCA, ChmodDir, ChmodCert, Chmod, CheckLeaf, GenerateECKey,
               CreateCSR, SignServerCert, Cleanup
<1>6. CASE RemoveLeaf
    BY <1>3, <1>6 DEF RemoveLeaf, Idle
<1>7. ASSUME NEW root, CAInit(root) \/ CACert(root) PROVE PlaceInv'
    BY <1>3, <1>7 DEF CAInit, CACert, Begin, NoCommand
<1>8. ASSUME NEW op \in {"install", "uninstall"}, NEW flags \in FlagSets, NEW root,
             Start(op, flags, root)
      PROVE  PlaceInv'
    <2>1. CASE cmd' = Command(op, flags, root)
        <3>1. cmd'.at = "chosen" /\ cmd'.flags = flags /\ cmd'.todo = Targets(flags)
            BY <2>1 DEF Command, NoCommand
        <3>2. /\ System \in Targets(flags) => System \in flags
              /\ flags # {} => Targets(flags) \subseteq flags
            BY Names DEF Targets
        <3> QED
            BY <1>1, <3>1, <3>2 DEF PlaceInv, Working, Browsers
    <2> QED
        BY <1>3, <1>8, <2>1, Begun
<1>9. CASE Environment
    <2>1. cmd' = cmd /\ platform' = platform
        BY <1>9 DEF Environment, Refreshed, Appears, Imported, Dropped, Supplied, Event
    <2>2. present \subseteq present'
        BY <1>9 DEF Environment, Refreshed, Appears, Imported, Dropped, Supplied, browsers
    <2> QED
        BY <2>1, <2>2, Currents DEF PlaceInv, Trusting, Working
<1>10. ASSUME TrustStep PROVE PlaceInv'
    <2>1. /\ Trusting /\ platform' = platform
          /\ System \in cmd.todo => System \in cmd.flags
        BY <1>10, TrustFrame DEF PlaceInv
    <2>2. ASSUME NEW todo \in SUBSET cmd.todo, NEW dbs, NEW did,
                 Onward("chosen", todo, dbs, did)
          PROVE  PlaceInv'
        BY <1>1, <2>1, <2>2 DEF Onward, PlaceInv, Working, Browsers
    <2>3. StoreDone => PlaceInv'
        BY <2>2, OnwardSteps DEF StoreDone, NextTarget
    <2>4. CASE TakeTarget
        <3>1. CASE cmd.todo # {} /\ Goto(Target)
            <4>1. Onward(Target, cmd.todo, cmd.dbs, cmd.did) /\ Target \in cmd.todo
                  /\ Target \in {System} \cup Browsers /\ Target' = Target
                BY <3>1, OnwardSteps, Currents DEF Onward
            <4> QED
                BY <1>1, <2>1, <4>1 DEF Onward, PlaceInv, Working, Browsers
        <3> QED
            BY <1>4, <2>4, <3>1 DEF TakeTarget
    <2>5. CASE WriteAnchor \/ RemoveAnchor
        <3>1. CASE Goto("refresh")
            <4>1. Onward("refresh", cmd.todo, cmd.dbs, cmd.did)
                BY <3>1, OnwardSteps
            <4>2. platform = "linux" /\ cmd.at = "system"
                BY <2>5 DEF WriteAnchor, RemoveAnchor, Doing
            <4> QED
                BY <1>1, <2>1, <4>1, <4>2 DEF Onward, PlaceInv, Working, Browsers
        <3> QED
            BY <1>4, <2>3, <2>5, <3>1 DEF WriteAnchor, RemoveAnchor
    <2>6. CASE SystemRefused \/ Refresh \/ Keychain
        BY <1>4, <2>3, <2>6 DEF SystemRefused, Refresh, Keychain
    <2>7. ASSUME NEW dbs, NEW did, Onward("dbs", cmd.todo, dbs, did), cmd.todo # {},
                 System \notin cmd.todo, dbs \subseteq DBsOf(Target)
          PROVE  PlaceInv'
        <3>1. Target' = Target
            BY <2>7, Currents DEF Onward
        <3> QED
            BY <1>1, <2>1, <2>7, <3>1 DEF Onward, PlaceInv, Working, Browsers, DBsOf
    <2>8. ASSUME NEW place \in {"delete", "add", "dump", "remove"}, Working,
                 Onward(place, cmd.todo, cmd.dbs, cmd.did), cmd.dbs # {}, Current \in present'
          PROVE  PlaceInv'
        <3>1. Target' = Target /\ Current' = Current
            BY <2>8, Currents DEF Onward
        <3> QED
            BY <1>1, <2>1, <2>8, <3>1 DEF Onward, PlaceInv, Working, Browsers, DBsOf
    <2>9. CASE ListDBs
        <3>1. Target = cmd.at /\ cmd.at \in cmd.todo /\ System \notin cmd.todo
            BY <1>1, <2>1, <2>9 DEF ListDBs, At, PlaceInv, Browsers, Target
        <3>2. ASSUME Onward("create", cmd.todo, {}, cmd.did), cmd.at = "chrome" PROVE PlaceInv'
            <4>1. Target' = Target
                BY <3>2, Currents DEF Onward
            <4> QED
                BY <1>1, <2>1, <3>1, <3>2, <4>1 DEF Onward, PlaceInv, Working, Browsers
        <3>3. ASSUME NEW dbs, dbs = IF cmd.at = "firefox" THEN Firefox ELSE Chrome \cap present,
                     Onward("dbs", cmd.todo, dbs, cmd.did)
              PROVE  PlaceInv'
            BY <2>7, <2>9, <3>1, <3>3 DEF ListDBs, At, DBsOf
        <3> QED
            BY <1>4, <2>9, <3>2, <3>3, OnwardSteps DEF ListDBs
    <2>10. CASE CreateDB
        <3>1. Target = "chrome" /\ cmd.todo # {} /\ System \notin cmd.todo
              /\ {DefaultDB} \subseteq DBsOf(Target)
            BY <1>1, <2>1, <2>10, TrustAssumption
               DEF CreateDB, Doing, PlaceInv, DBsOf, Target
        <3> QED
            BY <1>4, <2>7, <2>10, <3>1, OnwardSteps DEF CreateDB
    <2>11. CASE TakeDB
        <3>1. Working /\ cmd.todo # {} /\ System \notin cmd.todo /\ cmd.dbs \subseteq DBsOf(Target)
            BY <2>1, <2>11 DEF TakeDB, At, PlaceInv, Working
        <3>2. CASE NextTarget({})
            BY <2>2, <3>2, OnwardSteps
        <3>3. CASE Becomes(PassedOver)
            BY <2>7, <3>1, <3>3, OnwardSteps
        <3>4. CASE cmd.dbs # {} /\ Current \in present
                   /\ Goto(IF cmd.op = "install" THEN "delete" ELSE "dump")
            BY <2>8, <2>11, <3>1, <3>4, OnwardSteps DEF TakeDB, tvars
        <3> QED
            BY <1>4, <2>11, <3>2, <3>3, <3>4 DEF TakeDB
    <2>12. CASE DeleteOld
        <3>1. Working /\ cmd.dbs # {} /\ Current \in present'
            BY <2>1, <2>12 DEF DeleteOld, Doing, PlaceInv, Working
        <3> QED
            BY <2>8, <2>12, <3>1, OnwardSteps DEF DeleteOld
    <2>13. CASE AddNew \/ Dump \/ DeleteCA
        <3>1. Working /\ cmd.todo # {} /\ System \notin cmd.todo /\ cmd.dbs \subseteq DBsOf(Target)
              /\ cmd.dbs # {} /\ Current \in present'
            BY <2>1, <2>13 DEF AddNew, Dump, DeleteCA, Doing, PlaceInv, Working, tvars
        <3>2. CASE Becomes(Handled) \/ Overlooked(Handled)
            BY <2>7, <3>1, <3>2, OnwardSteps
        <3>3. CASE Goto("remove")
            BY <2>8, <3>1, <3>3, OnwardSteps
        <3> QED
            BY <1>4, <2>13, <3>2, <3>3 DEF AddNew, Dump, DeleteCA
    <2> QED
        BY <1>10, <2>4, <2>5, <2>6, <2>9, <2>10, <2>11, <2>12, <2>13 DEF TrustStep
<1> QED
    BY <1>2, <1>4, <1>5, <1>6, <1>7, <1>8, <1>9, <1>10
       DEF TrustNext, Files, FilesNext, CAInstall, CAUninstall, Rest

(* The databases of the two browsers are not the same, nor the store.      *)
LEMMA Apart ==
    /\ DBsOf("firefox") = Firefox /\ DBsOf("chrome") = Chrome
    /\ Firefox \cap Chrome = {} /\ System \notin Firefox \cup Chrome
    /\ DefaultDB \in Chrome
    /\ \A b, e \in Browsers : b # e => DBsOf(b) \cap DBsOf(e) = {}
BY TrustAssumption DEF DBsOf, DBs, Browsers

(* A command starts with everything it wants ahead of it.                  *)
LEMMA WantStart ==
    ASSUME TrustTypeOK, NEW op \in {"install", "uninstall"}, NEW flags \in FlagSets, NEW root,
           cmd' = Command(op, flags, root), present' = present
    PROVE  WantInv'
<1> DEFINE targets == Targets(flags)
           want == Wanted(targets)
<1>1. /\ cmd'.todo = targets /\ cmd'.want = want /\ cmd'.did = {} /\ cmd'.at = "chosen"
      /\ cmd'.flags = flags
    BY DEF Command, NoCommand
<1>2. targets \subseteq {System, "firefox", "chrome"} /\ System = "system"
    BY Names, TrustAssumption DEF Targets
<1>3. /\ want \subseteq {System} \cup present
      /\ System \in want => System \in targets
      /\ \A b \in Browsers : want \cap DBsOf(b) # {} => b \in targets
    <2>1. /\ want \subseteq {System} \cup present
          /\ \A d \in want : d # System => \E e \in targets \ {System} : d \in DBsOf(e)
        BY DEF Wanted
    <2>2. System \in want => System \in targets
        <3>1. present \subseteq DBs
            BY DEF TrustTypeOK
        <3> QED
            BY <3>1, Names DEF Wanted
    <2>3. ASSUME NEW b \in Browsers, NEW d \in want \cap DBsOf(b) PROVE b \in targets
        <3>1. PICK e \in targets \ {System} : d \in DBsOf(e)
            BY <2>1, <2>3, Apart DEF Browsers
        <3>2. e \in Browsers
            BY <1>2, <3>1 DEF Browsers
        <3> QED
            BY <2>3, <3>1, <3>2, Apart
    <2> QED
        BY <2>1, <2>2, <2>3
<1>4. flags = {} /\ "firefox" \in targets => want \cap Firefox # {}
    <2> SUFFICES ASSUME flags = {}, "firefox" \in targets PROVE want \cap Firefox # {}
        OBVIOUS
    <2>1. PICK d \in present : d \in Firefox
        BY DEF Targets, BrowserPresent, DBsOf
    <2>2. "firefox" \in targets \ {System}
        BY <1>2
    <2>3. d \in want
        BY <2>1, <2>2, Apart DEF Wanted
    <2> QED
        BY <2>1, <2>3
<1> HIDE DEF targets, want
<1> QED
    BY <1>1, <1>3, <1>4 DEF WantInv, Ahead, Working

(* Every step keeps the order of what is wanted, done and ahead.           *)
LEMMA WantStep == TrustTypeOK /\ PlaceInv /\ WantInv /\ [TrustNext]_vars => WantInv'
<1> SUFFICES ASSUME TrustTypeOK, PlaceInv, WantInv, [TrustNext]_vars PROVE WantInv'
    OBVIOUS
<1>1. cmd \in Commands /\ cmd.todo \subseteq {System, "firefox", "chrome"} /\ System = "system"
    BY Names DEF TrustTypeOK, FilesTypeOK, Commands
<1>2. CASE UNCHANGED vars
    BY <1>2, Currents DEF vars, fvars, tvars, WantInv, Trusting, Working, Ahead
<1>3. ASSUME cmd'.op \notin {"install", "uninstall"} PROVE WantInv'
    BY <1>3 DEF WantInv, Trusting
<1>4. CASE Fail \/ Refuse \/ Succeed \/ Kill
    BY <1>1, <1>3, <1>4, Ended
<1>5. CASE FilesStep
    <2>1. cmd.op \in {"init", "cert"}
        BY <1>5 DEF FilesStep, CreateCA, ChmodDir, ChmodCert, Chmod, CheckLeaf, GenerateECKey,
                    CreateCSR, SignServerCert, Cleanup, Doing
    <2>2. CASE (\E place : Goto(place)) \/ CertFails
        BY <1>1, <1>3, <2>1, <2>2 DEF Goto, CertFails, Commands
    <2> QED
        BY <1>4, <1>5, <2>2
           DEF FilesStep, CreateCA, ChmodDir, ChmodCert, Chmod, CheckLeaf, GenerateECKey,
               CreateCSR, SignServerCert, Cleanup
<1>6. CASE RemoveLeaf
    BY <1>3, <1>6 DEF RemoveLeaf, Idle
<1>7. ASSUME NEW root, CAInit(root) \/ CACert(root) PROVE WantInv'
    BY <1>3, <1>7 DEF CAInit, CACert, Begin, NoCommand
<1>8. ASSUME NEW op \in {"install", "uninstall"}, NEW flags \in FlagSets, NEW root,
             Start(op, flags, root)
      PROVE  WantInv'
    BY <1>3, <1>8, Begun, WantStart DEF tvars
<1>9. CASE Environment
    <2>1. cmd' = cmd /\ present \subseteq present'
        BY <1>9 DEF Environment, Refreshed, Appears, Imported, Dropped, Supplied, Event, browsers
    <2> QED
        BY <2>1, Currents DEF WantInv, Trusting, Working, Ahead
<1>10. ASSUME TrustStep PROVE WantInv'
    <2>1. /\ Trusting
          /\ cmd.want \subseteq {System} \cup present
          /\ System \in cmd.want \ cmd.did => System \in cmd.todo
          /\ System \in cmd.todo => System \notin cmd.did
          /\ \A b \in Browsers :
                /\ cmd.want \cap DBsOf(b) \subseteq cmd.did \cup Ahead(b)
                /\ cmd.did \cap Ahead(b) = {}
          /\ cmd.at = "create" => cmd.want \cap Chrome = {}
          /\ cmd.flags = {} /\ "firefox" \in cmd.todo => cmd.want \cap Firefox # {}
        BY <1>10, TrustFrame DEF WantInv
    <2>2. present \subseteq present'
        BY <1>10 DEF TrustStep, TakeTarget, SystemRefused, WriteAnchor, RemoveAnchor, Refresh,
               Keychain, ListDBs, CreateDB, TakeDB, DeleteOld, AddNew, Dump, DeleteCA,
               tvars, browsers
    <2>3. ASSUME NEW place, NEW todo \in SUBSET cmd.todo, NEW dbs, NEW did,
                 Onward(place, todo, dbs, did),
                 cmd.did \subseteq did,
                 System \in cmd.todo \ todo => System \in did,
                 System \in did \ cmd.did => System \notin todo,
                 place = "create" => cmd.want \cap Chrome = {},
                 \A b \in Browsers : /\ cmd.want \cap Ahead(b) \subseteq did \cup Ahead(b)'
                                     /\ did \cap Ahead(b)' = {}
          PROVE  WantInv'
        BY <2>1, <2>2, <2>3 DEF Onward, WantInv
    <2>4. ASSUME NEW place, Onward(place, cmd.todo, cmd.dbs, cmd.did), place # "create",
                 Working <=> place \in {"dbs", "delete", "add", "dump", "remove"}
          PROVE  WantInv'
        <3>1. Target' = Target /\ (Working' <=> Working)
            BY <2>4, Currents DEF Onward, Working
        <3>2. \A b \in Browsers : Ahead(b)' = Ahead(b)
            BY <2>4, <3>1 DEF Onward, Ahead
        <3> QED
            BY <2>1, <2>3, <2>4, <3>2
    <2>5. ASSUME StoreDone, cmd.at \in {"system", "refresh"} PROVE WantInv'
        <3>1. System \in cmd.todo /\ Target = System
            BY <2>1, <2>5 DEF PlaceInv, Target
        <3>2. Onward("chosen", cmd.todo \ {System}, cmd.dbs, cmd.did \cup {System})
            BY <2>5, <3>1, OnwardSteps DEF StoreDone
        <3>3. \A b \in Browsers : Ahead(b)' = Ahead(b) /\ System \notin Ahead(b)
            BY <1>1, <2>1, <2>5, <3>2, Apart DEF Onward, Ahead, Working, Browsers, PlaceInv
        <3>4. /\ cmd.todo \ {System} \in SUBSET cmd.todo
              /\ cmd.did \subseteq cmd.did \cup {System}
            OBVIOUS
        <3>5. \A b \in Browsers :
                /\ cmd.want \cap Ahead(b) \subseteq (cmd.did \cup {System}) \cup Ahead(b)'
                /\ (cmd.did \cup {System}) \cap Ahead(b)' = {}
            BY <2>1, <3>3
        <3> QED
            BY <2>3, <3>2, <3>4, <3>5
    <2>6. CASE TakeTarget
        <3>1. CASE cmd.todo # {} /\ Goto(Target)
            <4>1. Onward(Target, cmd.todo, cmd.dbs, cmd.did) /\ Target \in {System} \cup Browsers
                BY <3>1, OnwardSteps, Currents
            <4>2. ~Working
                BY <2>6 DEF TakeTarget, At, Working
            <4> QED
                BY <1>1, <2>4, <4>1, <4>2 DEF Browsers
        <3> QED
            BY <1>4, <2>6, <3>1 DEF TakeTarget
    <2>7. CASE WriteAnchor \/ RemoveAnchor
        <3>1. cmd.at = "system" /\ ~Working
            BY <2>7 DEF WriteAnchor, RemoveAnchor, Doing, Working
        <3>2. CASE Goto("refresh")
            BY <2>4, <3>1, <3>2, OnwardSteps
        <3> QED
            BY <1>4, <2>5, <2>7, <3>1, <3>2 DEF WriteAnchor, RemoveAnchor
    <2>8. CASE SystemRefused \/ Refresh \/ Keychain
        BY <1>4, <2>5, <2>8 DEF SystemRefused, Refresh, Keychain, At
    <2>9. ASSUME NEW dbs, Onward("dbs", cmd.todo, dbs, cmd.did), Target \in cmd.todo,
                 Target \in Browsers, dbs \subseteq Ahead(Target),
                 cmd.want \cap Ahead(Target) \subseteq dbs
          PROVE  WantInv'
        <3>1. Target' = Target /\ Working'
            BY <2>9, Currents DEF Onward, Working
        <3>2. ASSUME NEW b \in Browsers
              PROVE  /\ cmd.want \cap Ahead(b) \subseteq cmd.did \cup Ahead(b)'
                     /\ cmd.did \cap Ahead(b)' = {}
            <4>1. CASE b = Target
                <5>1. Ahead(b)' = dbs
                    BY <2>9, <3>1, <4>1 DEF Onward, Ahead
                <5> QED
                    BY <2>1, <2>9, <4>1, <5>1
            <4>2. CASE b # Target
                <5>1. Ahead(b)' = Ahead(b)
                    BY <2>9, <3>1, <4>2 DEF Onward, Ahead
                <5> QED
                    BY <2>1, <5>1
            <4> QED
                BY <4>1, <4>2
        <3> QED
            BY <2>3, <2>9, <3>2
    <2>10. CASE ListDBs
        <3>1. Target = cmd.at /\ cmd.at \in cmd.todo /\ Target \in Browsers /\ ~Working
              /\ Ahead(Target) = DBsOf(Target)
            BY <2>1, <2>10 DEF ListDBs, At, PlaceInv, Browsers, Working, Ahead
        <3>2. ASSUME Onward("create", cmd.todo, {}, cmd.did), cmd.at = "chrome",
                     Chrome \cap present = {}
              PROVE  WantInv'
            <4>1. cmd.want \cap Chrome = {}
                BY <2>1, <3>2, Apart
            <4>2. \A b \in Browsers : Ahead(b)' = Ahead(b)
                BY <3>1, <3>2 DEF Onward, Ahead, Working
            <4> QED
                BY <2>1, <2>3, <3>2, <4>1, <4>2
        <3>3. CASE cmd.at = "firefox" /\ Onward("dbs", cmd.todo, Firefox, cmd.did)
            BY <2>9, <3>1, <3>3, Apart
        <3>4. CASE cmd.at = "chrome" /\ Onward("dbs", cmd.todo, Chrome \cap present, cmd.did)
            <4>1. cmd.want \cap Chrome \subseteq Chrome \cap present
                BY <2>1, Apart
            <4> QED
                BY <2>9, <3>1, <3>4, <4>1, Apart
        <3> QED
            BY <1>4, <2>10, <3>1, <3>2, <3>3, <3>4, OnwardSteps DEF ListDBs, Browsers
    <2>11. CASE CreateDB
        <3>1. Target = "chrome" /\ Target \in cmd.todo /\ Target \in Browsers
              /\ Ahead(Target) = Chrome /\ cmd.want \cap Chrome = {}
            BY <2>1, <2>11, Apart DEF CreateDB, Doing, PlaceInv, Browsers, Ahead, Working
        <3>2. CASE Onward("dbs", cmd.todo, {DefaultDB}, cmd.did)
            BY <2>9, <3>1, <3>2, Apart
        <3> QED
            BY <1>4, <2>11, <3>2, OnwardSteps DEF CreateDB
    <2>12. CASE TakeDB
        <3>1. Working /\ Target \in cmd.todo /\ Target \in Browsers /\ Ahead(Target) = cmd.dbs
            BY <1>1, <2>1, <2>12, Currents DEF TakeDB, At, PlaceInv, Working, Ahead
        <3>2. CASE NextTarget({}) /\ cmd.dbs = {}
            <4>1. Onward("chosen", cmd.todo \ {Target}, cmd.dbs, cmd.did)
                BY <3>2, OnwardSteps
            <4>2. System \notin cmd.todo
                BY <2>1, <3>1 DEF PlaceInv
            <4>3. \A b \in Browsers : Ahead(b)' = Ahead(b)
                BY <3>1, <3>2, <4>1 DEF Onward, Ahead, Working
            <4>4. \A b \in Browsers : /\ cmd.want \cap Ahead(b) \subseteq cmd.did \cup Ahead(b)'
                                      /\ cmd.did \cap Ahead(b)' = {}
                BY <2>1, <4>3
            <4> QED
                BY <2>3, <4>1, <4>2, <4>4
        <3>3. CASE cmd.dbs # {} /\ Current \notin present /\ Becomes(PassedOver)
            <4>1. Current \notin cmd.want
                <5>1. Current # System
                    BY <2>1, <3>1, <3>3, CurrentDB, Names DEF PlaceInv
                <5> QED
                    BY <2>1, <3>3, <5>1
            <4> QED
                BY <2>9, <3>1, <3>3, <4>1, OnwardSteps
        <3>4. CASE Goto(IF cmd.op = "install" THEN "delete" ELSE "dump")
            BY <2>4, <3>1, <3>4, OnwardSteps
        <3> QED
            BY <1>4, <2>12, <3>2, <3>3, <3>4 DEF TakeDB
    <2>13. CASE DeleteOld
        <3>1. Working
            BY <2>13 DEF DeleteOld, Doing, Working
        <3> QED
            BY <2>4, <2>13, <3>1, OnwardSteps DEF DeleteOld
    <2>14. CASE AddNew \/ Dump \/ DeleteCA
        <3>1. Working /\ Target \in cmd.todo /\ Target \in Browsers /\ Ahead(Target) = cmd.dbs
              /\ cmd.dbs # {} /\ cmd.dbs \subseteq DBsOf(Target)
            BY <1>1, <2>1, <2>14, Currents
               DEF AddNew, Dump, DeleteCA, Doing, PlaceInv, Working, Ahead
        <3>2. CASE Becomes(Handled) \/ Overlooked(Handled)
            <4> DEFINE did == cmd.did \cup {Current}
            <4>1. Onward("dbs", cmd.todo, cmd.dbs \ {Current}, did)
                BY <3>2, OnwardSteps
            <4>2. Target' = Target /\ Working'
                BY <4>1, Currents DEF Onward, Working
            <4>3. Current \in cmd.dbs /\ Current \in DBsOf(Target) /\ Current \in DBs
                BY <3>1, CurrentDB
            <4>4. ASSUME NEW b \in Browsers
                  PROVE  /\ cmd.want \cap Ahead(b) \subseteq did \cup Ahead(b)'
                         /\ did \cap Ahead(b)' = {}
                <5>1. CASE b = Target
                    <6>1. Ahead(b)' = cmd.dbs \ {Current} /\ Ahead(b) = cmd.dbs
                        BY <3>1, <4>1, <4>2, <5>1 DEF Onward, Ahead
                    <6> QED
                        BY <2>1, <6>1
                <5>2. CASE b # Target
                    <6>1. Ahead(b)' = Ahead(b)
                        BY <4>1, <4>2, <5>2 DEF Onward, Ahead
                    <6>2. Current \notin Ahead(b)
                        BY <3>1, <4>3, <5>2, Apart DEF Ahead
                    <6> QED
                        BY <2>1, <6>1, <6>2
                <5> QED
                    BY <5>1, <5>2
            <4>5. cmd.did \subseteq did /\ System \notin did \ cmd.did
                BY <4>3, Names
            <4> HIDE DEF did
            <4> QED
                BY <2>3, <4>1, <4>4, <4>5
        <3>3. CASE Goto("remove")
            BY <2>4, <3>1, <3>3, OnwardSteps
        <3> QED
            BY <1>4, <2>14, <3>2, <3>3 DEF AddNew, Dump, DeleteCA
    <2> QED
        BY <1>10, <2>6, <2>7, <2>8, <2>10, <2>11, <2>12, <2>13, <2>14 DEF TrustStep
<1> QED
    BY <1>2, <1>4, <1>5, <1>6, <1>7, <1>8, <1>9, <1>10
       DEF TrustNext, Files, FilesNext, CAInstall, CAUninstall, Rest

-----------------------------------------------------------------------------
(* The stores                                                              *)

(* What happens behind the commands' back takes a certificate from no      *)
(* store, and gives a local CA to none.                                    *)
LEMMA KeptOutside ==
    ASSUME TrustTypeOK, Environment, NEW s \in Stores, NEW c
    PROVE  /\ c \in Certs /\ Holds(s, c) => Holds(s, c)'
           /\ c \in LocalCAs /\ Gone(s, c) => Gone(s, c)'
<1>1. platform' = platform
    BY DEF Environment, Refreshed, Appears, Imported, Dropped, Supplied, Event
<1>2. db \in [DBs -> Certs \cup {Absent}] /\ (s # System => s \in DBs)
    BY Names DEF TrustTypeOK
<1>3. CASE Refreshed
    BY <1>1, <1>3, Names DEF Refreshed, InSync, Bundle, browsers, Holds, Gone
<1>4. ASSUME NEW d \in DBs, Appears(d)
      PROVE  UNCHANGED <<anchor, trusted, db>>
    BY <1>4 DEF Appears, system
<1>5. ASSUME NEW e \in Others, Dropped(e)
      PROVE  /\ c \in Certs /\ Holds(s, c) => Holds(s, c)'
             /\ c \in LocalCAs /\ Gone(s, c) => Gone(s, c)'
    BY <1>1, <1>5, Names DEF Dropped, browsers, Holds, Gone
<1>6. ASSUME NEW e \in Others, NEW d \in DBs, Imported(d, e)
      PROVE  /\ c \in Certs /\ Holds(s, c) => Holds(s, c)'
             /\ c \in LocalCAs /\ Gone(s, c) => Gone(s, c)'
    BY <1>1, <1>2, <1>6, Names DEF Imported, system, Holds, Gone
<1>7. ASSUME NEW e, Supplied(e) PROVE UNCHANGED <<anchor, trusted, db>>
    BY <1>7 DEF Supplied, system, browsers
<1>8. CASE UNCHANGED <<anchor, trusted, db>>
    BY <1>1, <1>8 DEF Holds, Gone
<1> QED
    BY <1>3, <1>4, <1>5, <1>6, <1>7, <1>8 DEF Environment

(* A command does not come back to a store it is done with.                *)
LEMMA KeptDone ==
    ASSUME TrustTypeOK, PlaceInv, WantInv, TrustStep, NEW s \in cmd.did, NEW c
    PROVE  /\ Holds(s, c) => Holds(s, c)'
           /\ Gone(s, c) => Gone(s, c)'
<1>1. Trusting /\ platform' = platform
    BY TrustFrame
<1>2. cmd \in Commands /\ db \in [DBs -> Certs \cup {Absent}]
    BY DEF TrustTypeOK, FilesTypeOK
<1>3. CASE s = System
    <2>1. cmd.at \notin {"system", "refresh"}
        BY <1>1, <1>3 DEF PlaceInv, WantInv
    <2>2. UNCHANGED <<anchor, trusted>>
        BY <2>1 DEF TrustStep, TakeTarget, SystemRefused, WriteAnchor, RemoveAnchor, Refresh,
               Keychain, ListDBs, CreateDB, TakeDB, DeleteOld, AddNew, Dump, DeleteCA, At, Doing,
               tvars, system
    <2> QED
        BY <1>1, <1>3, <2>2 DEF Holds, Gone
<1>4. CASE s # System
    <2>1. s \in DBs
        BY <1>2, <1>4, Names DEF Commands
    <2>2. CASE db' = db
        BY <1>4, <2>2 DEF Holds, Gone
    <2>3. CASE DeleteOld \/ AddNew \/ DeleteCA
        <3>1. Working /\ cmd.dbs # {}
            BY <1>1, <2>3 DEF DeleteOld, AddNew, DeleteCA, Doing, PlaceInv, Working
        <3>2. Target \in cmd.todo /\ Target \in Browsers
            BY <1>1, <3>1, Currents DEF PlaceInv
        <3>3. Ahead(Target) = cmd.dbs
            BY <3>1, <3>2 DEF Ahead
        <3>4. Current # s
            BY <1>1, <3>1, <3>2, <3>3, CurrentDB DEF WantInv
        <3>5. db'[s] = db[s]
            BY <1>2, <2>1, <2>3, <3>4 DEF DeleteOld, AddNew, DeleteCA
        <3> QED
            BY <1>4, <3>5 DEF Holds, Gone
    <2> QED
        BY <2>2, <2>3 DEF TrustStep, TakeTarget, SystemRefused, WriteAnchor, RemoveAnchor,
               Refresh, Keychain, ListDBs, CreateDB, TakeDB, Dump, tvars, browsers
<1> QED
    BY <1>3, <1>4

(* The steps that are not of a command on the stores, nor of what happens  *)
(* behind its back, leave the stores alone.                                *)
LEMMA StoresAlone ==
    ASSUME UNCHANGED tvars, NEW s, NEW c
    PROVE  (Holds(s, c)' <=> Holds(s, c)) /\ (Gone(s, c)' <=> Gone(s, c))
BY DEF tvars, Holds, Gone

(* Every step keeps what an install has done.                              *)
LEMMA InstallStep ==
    TrustTypeOK /\ PlaceInv /\ WantInv /\ InstallInv /\ [TrustNext]_vars => InstallInv'
<1> SUFFICES ASSUME TrustTypeOK, PlaceInv, WantInv, InstallInv, [TrustNext]_vars
             PROVE  InstallInv'
    OBVIOUS
<1>1. cmd \in Commands /\ cmd.did \subseteq Stores /\ db \in [DBs -> Certs \cup {Absent}]
    BY DEF TrustTypeOK, FilesTypeOK, Commands
<1>2. CASE UNCHANGED vars
    <2>1. \A s, c : Holds(s, c) <=> Holds(s, c)'
        BY <1>2, StoresAlone DEF vars
    <2>2. UNCHANGED <<cmd, dir, anchor, db>>
        BY <1>2 DEF vars, fvars, tvars
    <2>3. Current' = Current
        BY <2>2, Currents
    <2> QED
        BY <2>1, <2>2, <2>3 DEF InstallInv
<1>3. ASSUME cmd'.op # "install" PROVE InstallInv'
    BY <1>3 DEF InstallInv
<1>4. CASE Fail \/ Refuse \/ Succeed \/ Kill
    BY <1>1, <1>3, <1>4, Ended
<1>5. CASE FilesStep
    <2>1. cmd.op \in {"init", "cert"}
        BY <1>5 DEF FilesStep, CreateCA, ChmodDir, ChmodCert, Chmod, CheckLeaf, GenerateECKey,
                    CreateCSR, SignServerCert, Cleanup, Doing
    <2>2. CASE (\E place : Goto(place)) \/ CertFails
        BY <1>1, <1>3, <2>1, <2>2 DEF Goto, CertFails, Commands
    <2> QED
        BY <1>4, <1>5, <2>2
           DEF FilesStep, CreateCA, ChmodDir, ChmodCert, Chmod, CheckLeaf, GenerateECKey,
               CreateCSR, SignServerCert, Cleanup
<1>6. CASE RemoveLeaf
    BY <1>3, <1>6 DEF RemoveLeaf, Idle
<1>7. ASSUME NEW root, CAInit(root) \/ CACert(root) PROVE InstallInv'
    BY <1>3, <1>7 DEF CAInit, CACert, Begin, NoCommand
<1>8. ASSUME NEW op \in {"install", "uninstall"}, NEW flags \in FlagSets, NEW root,
             Start(op, flags, root)
      PROVE  InstallInv'
    <2>1. CASE cmd' = Command("install", flags, root) /\ Accepted("install", root)
        <3>1. cmd'.at = "chosen" /\ cmd'.did = {}
            BY <2>1 DEF Command, NoCommand
        <3>2. dir'.cert # Absent
            BY <1>8, <2>1, Begun DEF Accepted
        <3> QED
            BY <3>1, <3>2 DEF InstallInv
    <2> QED
        BY <1>3, <1>8, <2>1, Begun
<1>9. CASE Environment /\ cmd.op = "install"
    <2>1. cmd' = cmd /\ Current' = Current
        BY <1>9, Currents DEF Environment, Refreshed, Appears, Imported, Dropped, Supplied, Event
    <2>2. dir' = dir
        BY <1>9 DEF Environment, Refreshed, Appears, Imported, Dropped, Supplied, Event, Idle
    <2>3. anchor # Absent => anchor' = anchor
        BY <1>9 DEF Environment, Refreshed, Appears, Imported, Dropped, Supplied, Event, system
    <2>4. db[Current] \in Others \cup {Absent} => db'[Current] \in Others \cup {Absent}
        <3>1. ASSUME NEW d \in DBs, NEW c \in Others, Imported(d, c),
                     db[Current] \in Others \cup {Absent}
              PROVE  db'[Current] \in Others \cup {Absent}
            BY <1>1, <3>1 DEF Imported
        <3> QED
            BY <1>9, <3>1 DEF Environment, Refreshed, Appears, Dropped, Supplied, system, browsers
    <2>5. \A s \in Stores : \A c \in Certs : Holds(s, c) => Holds(s, c)'
        BY <1>9, KeptOutside
    <2> QED
        BY <1>1, <1>9, <2>1, <2>2, <2>3, <2>4, <2>5 DEF InstallInv
<1>10. ASSUME TrustStep, cmd.op = "install" PROVE InstallInv'
    <2>1. PICK c : c = dir.cert
        OBVIOUS
    <2>2. dir'.cert = c /\ c # Absent /\ platform' = platform
        BY <1>10, <2>1, TrustFrame DEF InstallInv
    <2>3. c \in Certs => \A s \in cmd.did : Holds(s, c)'
        <3>1. c \in Certs => \A s \in cmd.did : Holds(s, c)
            BY <1>10, <2>1 DEF InstallInv
        <3> QED
            BY <1>10, <3>1, KeptDone
    <2>4. ASSUME c \in Certs => \A s \in cmd'.did : Holds(s, c)'
           PROVE  dir'.cert \in Certs => \A s \in cmd'.did : Holds(s, dir.cert)'
        BY <2>2, <2>4 DEF Holds
    <2>5. ASSUME cmd'.at \notin {"refresh", "add"},
                 \A s \in cmd'.did \ cmd.did : c \in Certs => Holds(s, c)'
          PROVE  InstallInv'
        BY <2>2, <2>5, <2>3, <2>4 DEF InstallInv
    <2>6. ASSUME NEW place, NEW todo, NEW dbs, Onward(place, todo, dbs, cmd.did),
                 place \notin {"refresh", "add"}
          PROVE  InstallInv'
        BY <2>5, <2>6 DEF Onward
    <2>7. CASE TakeTarget
        <3>1. CASE cmd.todo # {} /\ Goto(Target)
            BY <2>6, <3>1, OnwardSteps, Currents, Names DEF Browsers
        <3> QED
            BY <1>4, <2>7, <3>1 DEF TakeTarget
    <2>8. CASE SystemRefused \/ ListDBs \/ CreateDB \/ TakeDB
        <3>1. CASE NextTarget({})
            <4>1. Onward("chosen", cmd.todo \ {Target}, cmd.dbs, cmd.did)
                BY <3>1, OnwardSteps
            <4> QED
                BY <2>6, <4>1
        <3>2. ASSUME NEW dbs, NEW place \in {"create", "dbs"},
                     Becomes([cmd EXCEPT !.dbs = dbs, !.at = place])
              PROVE  InstallInv'
            <4>1. Onward(place, cmd.todo, dbs, cmd.did)
                BY <3>2, OnwardSteps
            <4> QED
                BY <2>6, <3>2, <4>1
        <3>3. CASE Goto("delete") \/ Goto("dump") \/ Becomes(PassedOver)
            <4>1. \E place \in {"delete", "dump", "dbs"} : \E dbs :
                    Onward(place, cmd.todo, dbs, cmd.did)
                BY <3>3, OnwardSteps
            <4> QED
                BY <2>6, <4>1
        <3>4. CASE ListDBs
            BY <1>4, <3>2, <3>4 DEF ListDBs
        <3>5. CASE CreateDB
            BY <1>4, <3>2, <3>5 DEF CreateDB
        <3> QED
            BY <1>4, <2>8, <3>1, <3>3, <3>4, <3>5 DEF SystemRefused, TakeDB
    <2>9. CASE WriteAnchor
        <3>1. CASE anchor' = dir.cert /\ Goto("refresh")
            <4>1. Onward("refresh", cmd.todo, cmd.dbs, cmd.did)
                BY <3>1, OnwardSteps
            <4> QED
                BY <2>1, <2>2, <2>3, <2>4, <3>1, <4>1 DEF Onward, InstallInv
        <3> QED
            BY <1>4, <2>9, <3>1 DEF WriteAnchor
    <2>10. ASSUME StoreDone, c \in Certs => Holds(System, c)' PROVE InstallInv'
        <3>1. cmd'.at = "chosen" /\ cmd'.did = cmd.did \cup {System}
            BY <2>10, OnwardSteps DEF StoreDone, Onward
        <3> QED
            BY <2>5, <2>10, <3>1
    <2>11. CASE Refresh
        <3>1. platform = "linux" /\ anchor = dir.cert /\ anchor' = anchor
            BY <1>10, <2>11, TrustFrame DEF Refresh, At, PlaceInv, InstallInv
        <3>2. CASE trusted' = Bundle(anchor) /\ StoreDone
            BY <2>1, <2>2, <2>10, <3>1, <3>2 DEF Bundle, Holds
        <3> QED
            BY <1>4, <2>11, <3>2 DEF Refresh
    <2>12. CASE Keychain
        <3>1. CASE trusted' = trusted \cup {dir.cert} /\ StoreDone
            BY <2>1, <2>2, <2>10, <2>12, <3>1 DEF Keychain, Holds
        <3> QED
            BY <1>4, <1>10, <2>12, <3>1 DEF Keychain
    <2>13. CASE DeleteOld
        <3>1. Onward("add", cmd.todo, cmd.dbs, cmd.did)
            BY <2>13, OnwardSteps DEF DeleteOld
        <3>2. Current' = Current /\ Current \in DBs
            <4>1. cmd.dbs # {} /\ cmd.dbs \subseteq DBsOf(Target)
                BY <2>13 DEF DeleteOld, Doing, PlaceInv, Trusting, Working
            <4> QED
                BY <3>1, <4>1, Currents, CurrentDB DEF Onward
        <3>3. ~cmd'.dirty => db'[Current] = Absent
            <4>1. CASE db' = [db EXCEPT ![Current] = Absent]
                BY <1>1, <3>2, <4>1
            <4>2. CASE Overlooked([cmd EXCEPT !.at = "add"])
                <5>1. cmd'.dirty = TRUE
                    BY <1>1, <4>2 DEF Overlooked, Commands
                <5> QED
                    BY <5>1
            <4> QED
                BY <2>13, <4>1, <4>2 DEF DeleteOld
        <3> QED
            BY <2>2, <2>3, <2>4, <3>1, <3>2, <3>3 DEF Onward, InstallInv
    <2>14. CASE AddNew
        <3>1. CASE db' = [db EXCEPT ![Current] = dir.cert] /\ Becomes(Handled)
            <4>1. Current \in DBs
                <5>1. cmd.dbs # {} /\ cmd.dbs \subseteq DBsOf(Target)
                    BY <2>14 DEF AddNew, Doing, PlaceInv, Trusting, Working
                <5> QED
                    BY <5>1, CurrentDB
            <4>2. \A d : d = Current => Holds(d, c)'
                BY <1>1, <2>1, <3>1, <4>1, Names DEF Holds
            <4>3. Onward("dbs", cmd.todo, cmd.dbs \ {Current}, cmd.did \cup {Current})
                BY <3>1, OnwardSteps
            <4> QED
                BY <2>5, <4>2, <4>3 DEF Onward
        <3> QED
            BY <1>4, <2>14, <3>1 DEF AddNew
    <2> QED
        BY <1>10, <2>7, <2>8, <2>9, <2>11, <2>12, <2>13, <2>14
           DEF TrustStep, RemoveAnchor, Dump, DeleteCA, Doing
<1>11. CASE (TrustStep \/ Environment) /\ cmd.op # "install"
    <2>1. cmd'.op \in {cmd.op, "none"}
        BY <1>1, <1>11, TrustFrame, Ended
           DEF Environment, Refreshed, Appears, Imported, Dropped, Supplied, Event
    <2> QED
        BY <1>3, <1>11, <2>1
<1> QED
    BY <1>2, <1>4, <1>5, <1>6, <1>7, <1>8, <1>9, <1>10, <1>11
       DEF TrustNext, Files, FilesNext, CAInstall, CAUninstall, Rest

(* Every step keeps what an uninstall has done.                            *)
LEMMA UninstallStep ==
    TrustTypeOK /\ PlaceInv /\ WantInv /\ UninstallInv /\ [TrustNext]_vars => UninstallInv'
<1> SUFFICES ASSUME TrustTypeOK, PlaceInv, WantInv, UninstallInv, [TrustNext]_vars
             PROVE  UninstallInv'
    OBVIOUS
<1>1. cmd \in Commands /\ cmd.did \subseteq Stores /\ db \in [DBs -> Certs \cup {Absent}]
      /\ trusted \subseteq Certs
    BY DEF TrustTypeOK, FilesTypeOK, Commands
<1>2. CASE UNCHANGED vars
    <2>1. \A s, c : Gone(s, c) <=> Gone(s, c)'
        BY <1>2, StoresAlone DEF vars
    <2>2. UNCHANGED <<cmd, dir, platform, anchor, trusted, db>>
        BY <1>2 DEF vars, fvars, tvars
    <2>3. Current' = Current
        BY <2>2, Currents
    <2> QED
        BY <2>1, <2>2, <2>3 DEF UninstallInv, LocalhostCA
<1>3. ASSUME cmd'.op # "uninstall" PROVE UninstallInv'
    BY <1>3 DEF UninstallInv
<1>4. CASE Fail \/ Refuse \/ Succeed \/ Kill
    BY <1>1, <1>3, <1>4, Ended
<1>5. CASE FilesStep
    <2>1. cmd.op \in {"init", "cert"}
        BY <1>5 DEF FilesStep, CreateCA, ChmodDir, ChmodCert, Chmod, CheckLeaf, GenerateECKey,
                    CreateCSR, SignServerCert, Cleanup, Doing
    <2>2. CASE (\E place : Goto(place)) \/ CertFails
        BY <1>1, <1>3, <2>1, <2>2 DEF Goto, CertFails, Commands
    <2> QED
        BY <1>4, <1>5, <2>2
           DEF FilesStep, CreateCA, ChmodDir, ChmodCert, Chmod, CheckLeaf, GenerateECKey,
               CreateCSR, SignServerCert, Cleanup
<1>6. CASE RemoveLeaf
    BY <1>3, <1>6 DEF RemoveLeaf, Idle
<1>7. ASSUME NEW root, CAInit(root) \/ CACert(root) PROVE UninstallInv'
    BY <1>3, <1>7 DEF CAInit, CACert, Begin, NoCommand
<1>8. ASSUME NEW op \in {"install", "uninstall"}, NEW flags \in FlagSets, NEW root,
             Start(op, flags, root)
      PROVE  UninstallInv'
    <2>1. CASE cmd' = Command("uninstall", flags, root) /\ Accepted("uninstall", root)
        <3>1. cmd'.at = "chosen" /\ cmd'.did = {} /\ (cmd'.synced => InSync)
            BY <2>1 DEF Command, NoCommand
        <3>2. LocalhostCA(dir'.cert) /\ UNCHANGED <<platform, anchor, trusted>>
            BY <1>8, <2>1, Begun DEF Accepted, tvars, LocalhostCA
        <3>3. InSync /\ platform = "linux" => trusted \cap LocalCAs \subseteq {anchor}
            BY DEF InSync, Bundle
        <3> QED
            BY <3>1, <3>2, <3>3 DEF UninstallInv, LocalhostCA
    <2> QED
        BY <1>3, <1>8, <2>1, Begun
<1>9. CASE Environment /\ cmd.op = "uninstall"
    <2>1. cmd' = cmd /\ platform' = platform /\ Current' = Current
        BY <1>9, Currents DEF Environment, Refreshed, Appears, Imported, Dropped, Supplied, Event
    <2>2. dir' = dir
        BY <1>9 DEF Environment, Refreshed, Appears, Imported, Dropped, Supplied, Event, Idle
    <2>3. PICK c : c = dir.cert
        OBVIOUS
    <2>4. LocalhostCA(db[Current]) => db'[Current] = db[Current]
        <3>1. ASSUME NEW d \in DBs, NEW e \in Others, Imported(d, e), LocalhostCA(db[Current])
              PROVE  db'[Current] = db[Current]
            <4>1. d # Current
                BY <3>1, Names DEF Imported, LocalhostCA, Certs
            <4> QED
                BY <1>1, <3>1, <4>1 DEF Imported
        <3> QED
            BY <1>9, <3>1 DEF Environment, Refreshed, Appears, Dropped, Supplied, system, browsers
    <2>5. ~LocalhostCA(anchor) => ~LocalhostCA(anchor')
        BY <1>9, Names DEF Environment, Refreshed, Appears, Imported, Dropped, Supplied, system,
               browsers, LocalhostCA
    <2>6. trusted \cap LocalCAs \subseteq {anchor} => trusted' \cap LocalCAs \subseteq {anchor'}
        <3>1. CASE Refreshed
            BY <3>1 DEF Refreshed, Bundle, browsers
        <3>2. ASSUME NEW e, Dropped(e), trusted \cap LocalCAs \subseteq {anchor}
              PROVE  trusted' \cap LocalCAs \subseteq {anchor'}
            BY <3>2, Names DEF Dropped, Certs
        <3> QED
            BY <1>9, <3>1, <3>2 DEF Environment, Appears, Imported, Supplied, system
    <2>7. \A s \in cmd.did : Gone(s, c) => Gone(s, c)'
        BY <1>1, <1>9, <2>3, KeptOutside DEF UninstallInv, LocalhostCA
    <2>8. \A s \in cmd.did : Gone(s, dir.cert) => Gone(s, dir.cert)'
        BY <2>2, <2>3, <2>7 DEF Gone
    <2> QED
        BY <1>9, <2>1, <2>2, <2>4, <2>5, <2>6, <2>8 DEF UninstallInv, LocalhostCA
<1>10. ASSUME TrustStep, cmd.op = "uninstall" PROVE UninstallInv'
    <2>1. PICK c : c = dir.cert
        OBVIOUS
    <2>2. dir'.cert = c /\ c \in LocalCAs /\ platform' = platform
        BY <1>10, <2>1, TrustFrame DEF UninstallInv, LocalhostCA
    <2> DEFINE clean == cmd.synced /\ ~cmd.dirty
    <2>3. clean => \A s \in cmd.did : Gone(s, c)'
        <3>1. clean => \A s \in cmd.did : Gone(s, c)
            BY <1>10, <2>1 DEF UninstallInv
        <3> QED
            BY <1>10, <3>1, KeptDone
    <2>4. \/ Fail \/ Refuse \/ Succeed
          \/ cmd'.op = "uninstall" /\ (cmd'.synced /\ ~cmd'.dirty => clean)
        BY <1>10, TrustFrame
    <2>5. ASSUME cmd'.at # "remove",
                 cmd'.at = "refresh" => anchor' \notin LocalCAs,
                 clean /\ platform = "linux" /\ System \in cmd'.todo /\ cmd'.at # "refresh"
                    => trusted' \cap LocalCAs \subseteq {anchor'},
                 cmd'.synced /\ ~cmd'.dirty /\ clean => \A s \in cmd'.did \ cmd.did : Gone(s, c)'
          PROVE  UninstallInv'
        <3>1. cmd'.synced /\ ~cmd'.dirty /\ clean => \A s \in cmd'.did : Gone(s, dir.cert)'
            BY <2>2, <2>3, <2>5 DEF Gone
        <3> QED
            BY <1>4, <2>2, <2>4, <2>5, <3>1 DEF UninstallInv, LocalhostCA
    <2>6. ASSUME NEW place, NEW todo \in SUBSET cmd.todo, NEW dbs,
                 Onward(place, todo, dbs, cmd.did), cmd.at # "refresh",
                 place \notin {"remove", "refresh"}, UNCHANGED <<anchor, trusted>>
          PROVE  UninstallInv'
        <3>1. clean /\ platform = "linux" /\ System \in cmd'.todo
                => trusted' \cap LocalCAs \subseteq {anchor'}
            BY <1>10, <2>6 DEF Onward, UninstallInv
        <3> HIDE DEF clean
        <3> QED
            BY <2>5, <2>6, <3>1 DEF Onward
    <2>7. CASE TakeTarget
        <3>1. CASE cmd.todo # {} /\ Goto(Target)
            <4>1. Onward(Target, cmd.todo, cmd.dbs, cmd.did)
                  /\ Target \notin {"remove", "refresh"}
                BY <3>1, OnwardSteps, Currents, Names DEF Browsers
            <4> QED
                BY <2>6, <2>7, <4>1 DEF TakeTarget, At, tvars
        <3> QED
            BY <1>4, <2>7, <3>1 DEF TakeTarget
    <2>8. CASE SystemRefused \/ ListDBs \/ TakeDB
        <3>1. UNCHANGED <<anchor, trusted>> /\ cmd.at # "refresh"
            BY <2>8 DEF SystemRefused, ListDBs, TakeDB, tvars, At, System
        <3>2. CASE NextTarget({})
            <4>1. Onward("chosen", cmd.todo \ {Target}, cmd.dbs, cmd.did)
                BY <3>2, OnwardSteps
            <4> QED
                BY <2>6, <3>1, <4>1
        <3>3. ASSUME NEW dbs, NEW place \in {"create", "dbs"},
                     Becomes([cmd EXCEPT !.dbs = dbs, !.at = place])
              PROVE  UninstallInv'
            <4>1. Onward(place, cmd.todo, dbs, cmd.did)
                BY <3>3, OnwardSteps
            <4> QED
                BY <2>6, <3>1, <3>3, <4>1
        <3>4. CASE Goto("delete") \/ Goto("dump") \/ Becomes(PassedOver)
            <4>1. \E place \in {"delete", "dump", "dbs"} : \E dbs :
                    Onward(place, cmd.todo, dbs, cmd.did)
                BY <3>4, OnwardSteps
            <4> QED
                BY <2>6, <3>1, <4>1
        <3>5. CASE ListDBs
            BY <1>4, <3>3, <3>5 DEF ListDBs
        <3> QED
            BY <1>4, <2>8, <3>2, <3>4, <3>5 DEF SystemRefused, TakeDB
    <2>9. ASSUME StoreDone, clean => Gone(System, c)', cmd.at \in {"system", "refresh"}
          PROVE  UninstallInv'
        <3>1. Target = System
            BY <1>10, <2>9 DEF PlaceInv, Trusting, Target
        <3>2. cmd'.at = "chosen" /\ cmd'.did = cmd.did \cup {System} /\ System \notin cmd'.todo
            BY <2>9, <3>1, OnwardSteps DEF StoreDone, Onward
        <3> HIDE DEF clean
        <3> QED
            BY <2>5, <2>9, <3>2
    <2>10. CASE RemoveAnchor
        <3>1. cmd.at = "system" /\ platform = "linux" /\ trusted' = trusted
            BY <2>10 DEF RemoveAnchor, Doing
        <3>2. CASE anchor = Absent /\ StoreDone /\ UNCHANGED anchor
            <4>1. System \in cmd.todo
                BY <1>10, <3>1 DEF PlaceInv, Trusting
            <4>2. clean => trusted \cap LocalCAs \subseteq {Absent}
                BY <1>10, <3>1, <3>2, <4>1 DEF UninstallInv
            <4>3. clean => Gone(System, c)'
                BY <2>2, <3>1, <3>2, <4>2, Names DEF Gone, Certs
            <4> QED
                BY <2>9, <3>1, <3>2, <4>3
        <3>3. CASE anchor' = Absent /\ Goto("refresh")
            <4>1. Onward("refresh", cmd.todo, cmd.dbs, cmd.did)
                BY <3>3, OnwardSteps
            <4>2. anchor' \notin LocalCAs
                BY <3>3, Names DEF Certs
            <4> HIDE DEF clean
            <4> QED
                BY <2>5, <4>1, <4>2 DEF Onward
        <3> QED
            BY <1>4, <2>10, <3>2, <3>3 DEF RemoveAnchor
    <2>11. CASE Refresh
        <3>1. platform = "linux" /\ anchor \notin LocalCAs /\ anchor' = anchor
              /\ cmd.at = "refresh"
            BY <1>10, <2>11, TrustFrame DEF Refresh, At, PlaceInv, UninstallInv, LocalhostCA
        <3>2. CASE trusted' = Bundle(anchor) /\ StoreDone
            <4>1. Gone(System, c)'
                BY <2>2, <3>1, <3>2 DEF Bundle, Gone
            <4> QED
                BY <2>9, <3>1, <3>2, <4>1
        <3> QED
            BY <1>4, <2>11, <3>2 DEF Refresh
    <2>12. CASE Keychain
        <3>1. CASE trusted' = trusted \ {dir.cert} /\ StoreDone
            <4>1. Gone(System, c)' /\ cmd.at = "system"
                BY <2>1, <2>2, <2>12, <3>1 DEF Keychain, Gone, At
            <4> QED
                BY <2>9, <3>1, <4>1
        <3> QED
            BY <1>4, <1>10, <2>12, <3>1 DEF Keychain
    <2>13. ASSUME Becomes(Handled) \/ Overlooked(Handled), UNCHANGED <<anchor, trusted>>,
                  Becomes(Handled) => db'[Current] = Absent, cmd.at \in {"dump", "remove"}
           PROVE  UninstallInv'
        <3>1. Onward("dbs", cmd.todo, cmd.dbs \ {Current}, cmd.did \cup {Current})
            BY <2>13, OnwardSteps
        <3>2. System \notin cmd.todo /\ Current \in DBs /\ Current # System
            BY <1>10, <2>13, CurrentDB, Names DEF PlaceInv, Trusting, Working
        <3>3. Overlooked(Handled) => cmd'.dirty
            <4>1. Handled \in Commands
                BY <1>10, <2>13, NextType DEF PlaceInv, Trusting
            <4> QED
                BY <4>1 DEF Overlooked, Commands
        <3>4. Becomes(Handled) => \A d : d = Current => Gone(d, c)'
            BY <2>2, <2>13, <3>2, Names DEF Gone, Certs
        <3> HIDE DEF clean
        <3> QED
            BY <2>5, <2>13, <3>1, <3>2, <3>3, <3>4 DEF Onward
    <2>14. CASE Dump
        <3>1. CASE LocalhostCA(db[Current]) /\ Goto("remove")
            <4>1. Onward("remove", cmd.todo, cmd.dbs, cmd.did) /\ db' = db
                  /\ UNCHANGED <<anchor, trusted>>
                BY <2>14, <3>1, OnwardSteps DEF Dump, tvars
            <4>2. System \notin cmd.todo /\ Current' = Current
                BY <1>10, <2>14, <4>1, Currents
                   DEF Dump, Doing, PlaceInv, Trusting, Working, Onward
            <4>3. cmd'.synced /\ ~cmd'.dirty /\ clean => \A s \in cmd'.did : Gone(s, dir.cert)'
                BY <2>2, <2>3, <4>1 DEF Gone, Onward
            <4> QED
                BY <1>4, <2>2, <2>4, <3>1, <4>1, <4>2, <4>3 DEF Onward, UninstallInv, LocalhostCA
        <3>2. UNCHANGED <<anchor, trusted, db>> /\ cmd.at = "dump"
            BY <2>14 DEF Dump, Doing, tvars
        <3>3. CASE db[Current] = Absent /\ Becomes(Handled)
            BY <2>13, <3>2, <3>3
        <3>4. CASE Overlooked(Handled) /\ ~Becomes(Handled)
            BY <2>13, <3>2, <3>4
        <3>5. Overlooked(Handled) => ~Becomes(Handled)
            BY Names DEF Overlooked, Becomes, TrustTypeOK, FilesTypeOK
        <3> QED
            BY <1>4, <2>14, <3>1, <3>3, <3>4, <3>5 DEF Dump
    <2>15. CASE DeleteCA
        <3>1. CASE db' = [db EXCEPT ![Current] = Absent] /\ Becomes(Handled)
            <4>1. Current \in DBs
                BY <1>10, <2>15, CurrentDB DEF DeleteCA, Doing, PlaceInv, Trusting, Working
            <4>2. db'[Current] = Absent /\ UNCHANGED <<anchor, trusted>> /\ cmd.at = "remove"
                BY <1>1, <2>15, <3>1, <4>1 DEF DeleteCA, Doing, system
            <4> QED
                BY <2>13, <3>1, <4>2
        <3> QED
            BY <1>4, <2>15, <3>1 DEF DeleteCA
    <2> QED
        BY <1>10, <2>7, <2>8, <2>10, <2>11, <2>12, <2>14, <2>15
           DEF TrustStep, WriteAnchor, CreateDB, DeleteOld, AddNew, Doing
<1>11. CASE (TrustStep \/ Environment) /\ cmd.op # "uninstall"
    <2>1. cmd'.op \in {cmd.op, "none"}
        BY <1>1, <1>11, TrustFrame, Ended
           DEF Environment, Refreshed, Appears, Imported, Dropped, Supplied, Event
    <2> QED
        BY <1>3, <1>11, <2>1
<1> QED
    BY <1>2, <1>4, <1>5, <1>6, <1>7, <1>8, <1>9, <1>10, <1>11
       DEF TrustNext, Files, FilesNext, CAInstall, CAUninstall, Rest

(* A command on the stores succeeds when there are no more targets.        *)
LEMMA Success ==
    ASSUME TrustTypeOK, TrustStep, Succeed
    PROVE  cmd.todo = {}
<1>1. cmd \in Commands /\ Trusting
    BY TrustFrame DEF TrustTypeOK, FilesTypeOK
<1>2. cmd'.op = "none" /\ last'.ok = TRUE
    BY EndOf DEF Succeed
<1>3. ~Fail /\ ~Refuse
    BY <1>1, <1>2, Ended
<1>4. ~(\E place, todo, dbs, did : Onward(place, todo, dbs, did))
    BY <1>1, <1>2 DEF Onward, Trusting
<1>5. /\ \A place : ~Goto(place)
      /\ \A did : ~NextTarget(did)
      /\ \A dbs, place : ~Becomes([cmd EXCEPT !.dbs = dbs, !.at = place])
      /\ ~Becomes(PassedOver) /\ ~Becomes(Handled) /\ ~Overlooked(Handled)
      /\ ~Overlooked([cmd EXCEPT !.at = "add"])
    BY <1>4, OnwardSteps
<1> HIDE DEF Onward
<1>6. TakeTarget
    BY <1>3, <1>5
       DEF TrustStep, SystemRefused, WriteAnchor, RemoveAnchor, Refresh, Keychain, ListDBs,
           CreateDB, TakeDB, DeleteOld, AddNew, Dump, DeleteCA, StoreDone
<1> QED
    BY <1>5, <1>6 DEF TakeTarget

(* Every step leaves a result that is true of the stores.                  *)
LEMMA ResultStep ==
    /\ TrustTypeOK /\ PlaceInv /\ WantInv /\ InstallInv /\ UninstallInv /\ ResultInv
    /\ [TrustNext]_vars
    => ResultInv'
<1> SUFFICES ASSUME TrustTypeOK, PlaceInv, WantInv, InstallInv, UninstallInv, ResultInv,
                    [TrustNext]_vars
             PROVE  ResultInv'
    OBVIOUS
<1>1. cmd \in Commands /\ cmd.did \subseteq Stores
      /\ last.did \subseteq Stores /\ last.want \subseteq Stores
    BY DEF TrustTypeOK, FilesTypeOK, Commands, Results
<1>2. ASSUME cmd'.op # "none" \/ last'.op \notin {"install", "uninstall"} PROVE ResultInv'
    BY <1>2 DEF ResultInv, Idle
<1>3. ASSUME UNCHANGED tvars PROVE \A s, c : (Holds(s, c) => Holds(s, c)')
                                             /\ (Gone(s, c) => Gone(s, c)')
    BY <1>3, StoresAlone
<1>4. ASSUME Idle, last' = last, UNCHANGED tvars \/ Environment PROVE ResultInv'
    <2>1. PICK c : c = last.cert
        OBVIOUS
    <2>2. \A s \in Stores : /\ c \in Certs /\ Holds(s, c) => Holds(s, c)'
                            /\ c \in LocalCAs /\ Gone(s, c) => Gone(s, c)'
        BY <1>3, <1>4, KeptOutside
    <2>3. last.op = "install" /\ c \in Certs =>
            /\ \A s \in last.did : Holds(s, last.cert)'
            /\ last.ok => last.want \subseteq last.did
        <3>1. last.op = "install" /\ c \in Certs => \A s \in last.did : Holds(s, c)'
            BY <1>1, <1>4, <2>1, <2>2 DEF ResultInv
        <3> QED
            BY <1>4, <2>1, <3>1 DEF ResultInv, Holds
    <2>4. last.op = "uninstall" /\ last.ok /\ last.clean =>
            /\ LocalhostCA(c)
            /\ \A s \in last.want : Gone(s, last.cert)'
        <3>1. last.op = "uninstall" /\ last.ok /\ last.clean =>
                LocalhostCA(c) /\ \A s \in last.want : Gone(s, c)'
            BY <1>1, <1>4, <2>1, <2>2 DEF ResultInv, LocalhostCA
        <3> QED
            BY <1>4, <2>1, <3>1 DEF Gone
    <2> QED
        BY <1>4, <2>1, <2>3, <2>4 DEF ResultInv, LocalhostCA
<1>5. ASSUME Fail \/ Refuse \/ Succeed \/ Kill, (Kill /\ UNCHANGED tvars) \/ TrustStep
      PROVE  ResultInv'
    <2>1. /\ last'.op = cmd.op /\ last'.cert = dir.cert
          /\ last'.did = cmd.did /\ last'.want = cmd.want
          /\ last'.ok => Succeed
          /\ Kill => ~last'.ok
          /\ last'.clean => cmd.synced /\ ~cmd.dirty
        BY <1>1, <1>5, Ended
    <2>2. PICK c : c = dir.cert
        OBVIOUS
    <2>3. \A s \in cmd.did : (Holds(s, c) => Holds(s, c)') /\ (Gone(s, c) => Gone(s, c)')
        BY <1>3, <1>5, KeptDone
    <2>4. Trusting /\ last'.ok => cmd.want \subseteq cmd.did
        <3> SUFFICES ASSUME Trusting, last'.ok PROVE cmd.want \subseteq cmd.did
            OBVIOUS
        <3>1. cmd.todo = {}
            BY <1>5, <2>1, Success
        <3>2. \A b \in Browsers : Ahead(b) = {}
            BY <3>1 DEF Ahead
        <3>3. present \subseteq DBsOf("firefox") \cup DBsOf("chrome")
            BY Apart DEF TrustTypeOK, DBs
        <3> QED
            BY <3>1, <3>2, <3>3 DEF WantInv, Browsers
    <2>5. cmd.op = "install" /\ c \in Certs =>
            /\ \A s \in cmd.did : Holds(s, last.cert)'
            /\ last'.ok => cmd.want \subseteq cmd.did
        <3>1. cmd.op = "install" /\ c \in Certs => \A s \in cmd.did : Holds(s, c)'
            BY <2>2, <2>3 DEF InstallInv
        <3> QED
            BY <2>1, <2>2, <2>4, <3>1 DEF Holds, Trusting
    <2>6. cmd.op = "uninstall" /\ last'.ok /\ last'.clean =>
            /\ LocalhostCA(c)
            /\ \A s \in cmd.want : Gone(s, last.cert)'
        <3>1. cmd.op = "uninstall" /\ last'.ok /\ last'.clean =>
                LocalhostCA(c) /\ \A s \in cmd.did : Gone(s, c)'
            BY <2>1, <2>2, <2>3 DEF UninstallInv
        <3> QED
            BY <2>1, <2>2, <2>4, <3>1 DEF Gone, Trusting
    <2> QED
        BY <2>1, <2>2, <2>5, <2>6 DEF ResultInv, LocalhostCA
<1>6. CASE FilesStep
    <2>1. cmd.op \in {"init", "cert"}
        BY <1>6 DEF FilesStep, CreateCA, ChmodDir, ChmodCert, Chmod, CheckLeaf, GenerateECKey,
                    CreateCSR, SignServerCert, Cleanup, Doing
    <2>2. CASE (\E place : Goto(place)) \/ CertFails
        BY <1>1, <1>2, <2>1, <2>2 DEF Goto, CertFails, Commands
    <2>3. CASE Fail \/ Refuse \/ Succeed
        BY <1>1, <1>2, <2>1, <2>3, Ended
    <2> QED
        BY <1>6, <2>2, <2>3
           DEF FilesStep, CreateCA, ChmodDir, ChmodCert, Chmod, CheckLeaf, GenerateECKey,
               CreateCSR, SignServerCert, Cleanup
<1>7. ASSUME NEW root, CAInit(root) \/ CACert(root) PROVE ResultInv'
    BY <1>2, <1>7 DEF CAInit, CACert, Begin, NoCommand
<1>8. ASSUME NEW op \in {"install", "uninstall"}, NEW flags \in FlagSets, NEW root,
             Start(op, flags, root)
      PROVE  ResultInv'
    <2>1. CASE cmd'.op = op
        BY <1>2, <2>1
    <2>2. CASE last'.ok = FALSE /\ last'.did = {}
        BY <2>2 DEF ResultInv
    <2> QED
        BY <1>8, <2>1, <2>2, Begun
<1>9. CASE TrustStep
    <2>1. Trusting
        BY <1>9, TrustFrame
    <2>2. CASE cmd'.op = cmd.op
        BY <1>2, <2>1, <2>2 DEF Trusting
    <2> QED
        BY <1>5, <1>9, <2>2, TrustFrame
<1>10. CASE Environment \/ (RemoveLeaf /\ UNCHANGED tvars) \/ UNCHANGED vars
    <2>1. last' = last /\ cmd' = cmd /\ (Environment \/ UNCHANGED tvars)
        BY <1>10 DEF Environment, Refreshed, Appears, Imported, Dropped, Supplied, Event,
                     RemoveLeaf, vars, fvars
    <2>2. CASE Idle
        BY <1>4, <2>1, <2>2
    <2>3. CASE ~Idle
        BY <1>2, <2>1, <2>3 DEF Idle
    <2> QED
        BY <2>2, <2>3
<1> QED
    BY <1>5, <1>6, <1>7, <1>8, <1>9, <1>10
       DEF TrustNext, Files, FilesNext, CAInstall, CAUninstall, Rest

-----------------------------------------------------------------------------
(* The invariant and what follows from it                                  *)

(* It holds before the first command.                                      *)
LEMMA TrustStart == TrustInit => TrustInv
<1> SUFFICES ASSUME TrustInit PROVE TrustInv
    OBVIOUS
<1>1. /\ cmd = NoCommand /\ last = NoResult /\ leaf = NoLeaf
      /\ ran = 0 /\ fails = 0 /\ crashes = 0 /\ events = 0
    BY DEF TrustInit, FilesInit
<1>2. cmd.op = "none" /\ cmd.at = "chosen" /\ last.op = "none"
    BY <1>1 DEF NoCommand, NoResult
<1>3. dir \in Dirs
    <2>1. LocalCAs \cup {Absent} \subseteq Content
        BY Names DEF Certs
    <2>2. CASE dir = [cert |-> Absent, key |-> Absent, byRoot |-> FALSE, closed |-> {}]
        BY <2>1, <2>2 DEF Dirs
    <2>3. ASSUME NEW c \in LocalCAs, NEW r \in BOOLEAN,
                 dir = [cert |-> c, key |-> c, byRoot |-> r, closed |-> {}]
          PROVE  dir \in Dirs
        BY <2>1, <2>3 DEF Dirs
    <2> QED
        BY <2>2, <2>3 DEF TrustInit, FilesInit
<1>4. FilesTypeOK
    <2>1. cmd \in Commands
        BY <1>1, NoCommandType
    <2>2. last \in Results
        BY <1>1, Names DEF NoResult, Results
    <2>3. leaf \in [key : Runs, crt : Runs] /\ ran \in Runs
          /\ fails \in 0..MaxFails /\ crashes \in 0..MaxCrashes
        BY <1>1, Names DEF NoLeaf, Runs
    <2> QED
        BY <1>3, <2>1, <2>2, <2>3 DEF FilesTypeOK
<1>5. TrustTypeOK
    <2>1. dir.cert \in LocalCAs \cup {Absent}
        BY DEF TrustInit, FilesInit
    <2>2. anchor \in Content /\ trusted \subseteq Certs
        BY <2>1, Names DEF TrustInit, Bundle, Certs, Content
    <2>3. /\ db \in [DBs -> Certs \cup {Absent}]
          /\ \A d \in DBs \ present : db[d] = Absent
        <3>1. db \in [DBs -> {Absent, dir.cert}]
              /\ \A d \in DBs \ present : db[d] = Absent
            BY DEF TrustInit
        <3>2. {Absent, dir.cert} \subseteq Certs \cup {Absent}
            BY <2>1 DEF Certs
        <3> QED
            BY <3>1, <3>2
    <2>4. platform \in Platforms /\ present \subseteq DBs /\ events \in 0..MaxEvents
        BY <1>1, Names DEF TrustInit
    <2> QED
        BY <1>4, <2>2, <2>3, <2>4 DEF TrustTypeOK
<1>6. DirInv /\ PublicCA /\ LeafInv
    BY <1>1, <1>2 DEF DirInv, PublicCA, LeafInv, Doing, NoLeaf
<1>7. PlaceInv /\ WantInv /\ InstallInv /\ UninstallInv /\ ResultInv
    BY <1>2 DEF PlaceInv, WantInv, InstallInv, UninstallInv, ResultInv, Trusting
<1> QED
    BY <1>5, <1>6, <1>7 DEF TrustInv

(* Every step of the commands and of the world keeps it.                   *)
LEMMA TrustKept == TrustInv /\ [TrustNext]_vars => TrustInv'
BY TypeStep, DirStep, LeafStep, PlaceStep, WantStep, InstallStep, UninstallStep, ResultStep
   DEF TrustInv

(* So it always holds.                                                     *)
THEOREM TrustAlways == TrustSpec => []TrustInv
BY TrustStart, TrustKept, PTL DEF TrustSpec

(* Types: the directory, the leaf, the stores and the command that runs    *)
(* keep theirs, a database that is not initialised has no certificate.     *)
THEOREM TrustTypeCorrect == TrustSpec => []TrustTypeOK
<1>1. TrustInv => TrustTypeOK
    BY DEF TrustInv
<1> QED
    BY <1>1, TrustAlways, PTL

(* "A root-created CA directory stays world-readable": after a ca init     *)
(* that succeeded, whatever runs or fails since, everybody can read the    *)
(* certificate.                                                            *)
THEOREM AlwaysPublicCA == TrustSpec => []PublicCA
<1>1. TrustInv => PublicCA
    BY DEF TrustInv
<1> QED
    BY <1>1, TrustAlways, PTL

(* The cleanup of ca cert: without a kill there never is a key without its *)
(* certificate, nor one of another run's, between commands.                *)
THEOREM AlwaysNoHalfPair == TrustSpec => []NoHalfPair
<1>1. TrustInv => NoHalfPair
    BY DEF TrustInv, LeafInv, NoHalfPair, Idle
<1> QED
    BY <1>1, TrustAlways, PTL

(* ca install: every store that it reports done trusts the certificate     *)
(* until another command is run, and none of the selected ones is left out *)
(* of a success.                                                           *)
THEOREM InstallAlwaysTrusts == TrustSpec => []InstallTrusts
<1>1. TrustInv => InstallTrusts
    BY DEF TrustInv, ResultInv, InstallTrusts, Holds, Trusts
<1> QED
    BY <1>1, TrustAlways, PTL

(* ca uninstall: no selected store trusts the CA after a success under     *)
(* which no tool failed and that found the system store in order.          *)
THEOREM UninstallAlwaysRevokes == TrustSpec => []UninstallRevokes
<1>1. TrustInv => UninstallRevokes
    BY DEF TrustInv, ResultInv, UninstallRevokes, Gone, Trusts
<1> QED
    BY <1>1, TrustAlways, PTL

-----------------------------------------------------------------------------
(* What no step does                                                       *)

(* ca cert writes and removes only files of its own run: a pair that an    *)
(* earlier run delivered survives a later one, at every step.              *)
THEOREM PairAlwaysKept == TrustSpec => PairKept
<1> DEFINE Kept == (~Idle /\ leaf.key = leaf.crt /\ leaf.key \notin {0, ran}) => leaf' = leaf
<1>1. TrustInv /\ [TrustNext]_vars => [Kept]_fvars
    <2> SUFFICES ASSUME TrustInv, [TrustNext]_vars, ~Idle, leaf.key = leaf.crt,
                        leaf.key \notin {0, ran}
                 PROVE  leaf' = leaf
        OBVIOUS
    <2>1. LeafInv
        BY DEF TrustInv
    <2>2. ~GenerateECKey /\ ~SignServerCert /\ ~Cleanup
        BY <2>1 DEF LeafInv, GenerateECKey, SignServerCert, Cleanup, Doing, NoLeaf
    <2>3. CASE FilesStep
        BY <2>2, <2>3 DEF FilesStep, CreateCA, ChmodDir, ChmodCert, Chmod, CheckLeaf, CreateCSR
    <2>4. CASE TrustStep
        BY <2>4, TrustFrame DEF TrustInv
    <2>5. CASE Environment
        BY <2>5 DEF Environment, Refreshed, Appears, Imported, Dropped, Supplied, Event
    <2>6. ~(\E root : CAInit(root) \/ CACert(root)) /\ ~RemoveLeaf
          /\ ~(\E op, flags, root : Start(op, flags, root))
        BY DEF CAInit, CACert, RemoveLeaf, Start
    <2>7. CASE Kill \/ UNCHANGED vars
        BY <2>7 DEF Kill, vars, fvars
    <2> QED
        BY <2>3, <2>4, <2>5, <2>6, <2>7
           DEF TrustNext, Files, FilesNext, CAInstall, CAUninstall, Rest
<1> QED
    BY <1>1, TrustAlways, PTL DEF TrustSpec, PairKept

(* "ca uninstall never removes an unrelated certificate", from any of the  *)
(* stores, whatever is imported or installed behind its back.              *)
THEOREM OthersAlwaysSpared == TrustSpec => SparesOthers
<1> DEFINE Spares ==
        cmd.op = "uninstall" =>
            /\ \A d \in DBs : db[d] \in Others => db'[d] = db[d]
            /\ anchor \in Others => anchor' = anchor
            /\ platform = "darwin" => trusted \cap Others \subseteq trusted'
<1>1. TrustInv /\ [TrustNext]_vars => [Spares]_vars
    <2> SUFFICES ASSUME TrustInv, [TrustNext]_vars, cmd.op = "uninstall" PROVE Spares
        OBVIOUS
    <2>1. UninstallInv /\ PlaceInv /\ Trusting /\ db \in [DBs -> Certs \cup {Absent}]
          /\ LocalCAs \cap Others = {} /\ Absent \notin Others
        BY Names DEF TrustInv, Trusting, TrustTypeOK, Certs
    <2>2. CASE UNCHANGED tvars
        BY <2>2 DEF tvars
    <2>3. CASE DeleteCA
        <3>1. db[Current] \in LocalCAs
            BY <2>1, <2>3 DEF DeleteCA, Doing, UninstallInv, LocalhostCA
        <3>2. db' = db \/ db' = [db EXCEPT ![Current] = Absent]
            BY <2>3 DEF DeleteCA
        <3>3. UNCHANGED <<anchor, trusted>>
            BY <2>3 DEF DeleteCA, system
        <3> QED
            BY <2>1, <3>1, <3>2, <3>3
    <2>4. CASE RemoveAnchor
        BY <2>1, <2>4 DEF RemoveAnchor, LocalhostCA, browsers
    <2>5. CASE Refresh
        BY <2>1, <2>5 DEF Refresh, At, PlaceInv, browsers
    <2>6. CASE Keychain
        BY <2>1, <2>6 DEF Keychain, UninstallInv, LocalhostCA, browsers
    <2>7. CASE CreateDB \/ WriteAnchor \/ DeleteOld \/ AddNew
        BY <2>7 DEF CreateDB, WriteAnchor, DeleteOld, AddNew, Doing
    <2>8. CASE TakeTarget \/ SystemRefused \/ ListDBs \/ TakeDB \/ Dump
        BY <2>2, <2>8 DEF TakeTarget, SystemRefused, ListDBs, TakeDB, Dump
    <2>9. CASE Environment
        <3>1. CASE Refreshed
            BY <3>1 DEF Refreshed, browsers
        <3>2. ASSUME NEW d \in DBs, Appears(d) PROVE Spares
            BY <3>2 DEF Appears, system
        <3>3. ASSUME NEW c \in Others, Dropped(c) PROVE Spares
            BY <2>1, <3>3 DEF Dropped, browsers
        <3>4. ASSUME NEW c \in Others, NEW d \in DBs, Imported(d, c) PROVE Spares
            BY <2>1, <3>4 DEF Imported, system
        <3>5. ASSUME NEW c, Supplied(c) PROVE Spares
            BY <3>5 DEF Supplied, Idle
        <3> QED
            BY <2>9, <3>1, <3>2, <3>3, <3>4, <3>5 DEF Environment
    <2>10. CASE \E op, flags, root : Start(op, flags, root)
        BY <2>10 DEF Start, Idle
    <2> QED
        BY <2>2, <2>3, <2>4, <2>5, <2>6, <2>7, <2>8, <2>9, <2>10
           DEF TrustNext, TrustStep, Files, CAInstall, CAUninstall, Rest, vars
<1> QED
    BY <1>1, TrustAlways, PTL DEF TrustSpec, SparesOthers

(* A command under which no tool fails ends with an error only for what    *)
(* the user gave it or what others did to the stores: never for what an    *)
(* earlier command, failed or killed, has left in a database or a keychain.*)
THEOREM AlwaysFailsForReason == TrustSpec => FailsForReason
<1> DEFINE Failed ==
        /\ cmd.op \in {"install", "uninstall"} /\ cmd'.op = "none" /\ ~last'.ok
        /\ ~cmd.dirty /\ fails' = fails /\ crashes' = crashes
<1>1. TrustInv /\ [TrustNext]_vars => [Failed => Reason]_vars
    <2> SUFFICES ASSUME TrustInv, [TrustNext]_vars, Failed PROVE Reason
        OBVIOUS
    <2>1. /\ TrustTypeOK /\ PlaceInv /\ WantInv /\ InstallInv /\ Trusting
          /\ fails \in Nat /\ crashes \in Nat /\ cmd \in Commands
        BY Names DEF TrustInv, Trusting, TrustTypeOK, FilesTypeOK
    <2>2. cmd' # cmd
        BY <2>1 DEF Trusting
    <2>3. TrustStep
        <3>1. ~FilesStep
            BY <2>1 DEF Trusting, FilesStep, CreateCA, ChmodDir, ChmodCert, Chmod, CheckLeaf,
                        GenerateECKey, CreateCSR, SignServerCert, Cleanup, Doing
        <3>2. ~RemoveLeaf /\ ~(\E root : CAInit(root) \/ CACert(root))
              /\ ~(\E op, flags, root : Start(op, flags, root))
            BY <2>1 DEF Trusting, RemoveLeaf, CAInit, CACert, Start, Idle
        <3>3. Kill => crashes' = crashes + 1
            BY DEF Kill
        <3>4. ~Environment /\ ~UNCHANGED vars
            BY <2>2 DEF Environment, Refreshed, Appears, Imported, Dropped, Supplied, Event,
                        vars, fvars
        <3>5. crashes + 1 # crashes
            BY <2>1
        <3> QED
            BY <3>1, <3>2, <3>3, <3>4, <3>5
               DEF TrustNext, Files, FilesNext, CAInstall, CAUninstall, Rest
    <2>4. ~Fail /\ ~Succeed
        <3>1. Fail => fails' = fails + 1
            BY DEF Fail
        <3>2. Succeed => last'.ok = TRUE
            BY EndOf DEF Succeed
        <3> QED
            BY <2>1, <3>1, <3>2
    <2>5. ~(\E place, todo, dbs, did : Onward(place, todo, dbs, did))
        BY <2>1 DEF Onward, Trusting
    <2>6. /\ \A place : ~Goto(place)
          /\ \A did : ~NextTarget(did)
          /\ \A dbs, place : ~Becomes([cmd EXCEPT !.dbs = dbs, !.at = place])
          /\ ~Becomes(PassedOver) /\ ~Becomes(Handled) /\ ~Overlooked(Handled)
          /\ ~Overlooked([cmd EXCEPT !.at = "add"])
        BY <2>1, <2>5, OnwardSteps
    <2>7. ~TakeTarget /\ ~WriteAnchor /\ ~Refresh /\ ~ListDBs /\ ~CreateDB /\ ~DeleteOld
          /\ ~DeleteCA
        BY <2>4, <2>6 DEF TakeTarget, WriteAnchor, Refresh, ListDBs, CreateDB, DeleteOld,
                          DeleteCA, StoreDone
    <2>8. CASE SystemRefused
        BY <2>1, <2>8 DEF SystemRefused, MaySystem, At, PlaceInv, Reason
    <2>9. CASE RemoveAnchor
        <3>1. anchor # Absent /\ ~LocalhostCA(anchor) /\ Doing("uninstall", "system")
            BY <2>4, <2>6, <2>9 DEF RemoveAnchor, StoreDone
        <3>2. anchor \in Others \cup {Junk}
            BY <2>1, <3>1 DEF TrustTypeOK, Content, Certs, LocalhostCA
        <3> QED
            BY <2>1, <3>1, <3>2 DEF Doing, PlaceInv, Reason
    <2>10. CASE Keychain
        <3>1. IF cmd.op = "install" THEN dir.cert \notin Certs ELSE dir.cert \notin trusted
            BY <2>4, <2>6, <2>10 DEF Keychain, StoreDone
        <3>2. Certs = LocalCAs \cup Others
            BY DEF Certs
        <3> QED
            BY <2>1, <2>10, <3>1 DEF Keychain, At, PlaceInv, Trusting, Reason
    <2>11. CASE TakeDB
        <3>1. /\ cmd.at = "dbs" /\ cmd.dbs = {} /\ cmd.op = "install" /\ Target = "firefox"
              /\ cmd.did \cap Firefox = {}
            BY <2>4, <2>6, <2>11 DEF TakeDB, At
        <3>2. "firefox" \in cmd.todo
            BY <2>1, <3>1, Currents DEF PlaceInv, Working
        <3>3. cmd.want \cap Firefox = {}
            <4>1. Ahead("firefox") = {}
                BY <3>1, <3>2 DEF Ahead, Working
            <4> QED
                BY <2>1, <3>1, <4>1 DEF WantInv, Browsers, DBsOf
        <3>4. "firefox" \in cmd.flags
            BY <2>1, <3>2, <3>3 DEF PlaceInv, WantInv
        <3> QED
            BY <3>1, <3>4 DEF Reason
    <2>12. CASE AddNew
        <3>1. ~Addable /\ cmd.op = "install" /\ cmd.at = "add" /\ ~cmd.dirty
            BY <2>4, <2>6, <2>12 DEF AddNew, Doing
        <3>2. db[Current] \in Others \cup {Absent}
            BY <2>1, <3>1 DEF InstallInv
        <3> QED
            BY <3>1, <3>2 DEF Addable, Reason
    <2>13. CASE Dump
        <3>1. db[Current] # Absent /\ ~LocalhostCA(db[Current]) /\ Doing("uninstall", "dump")
            BY <2>4, <2>6, <2>13 DEF Dump
        <3>2. Current \in present
            BY <2>1, <3>1 DEF PlaceInv, Doing
        <3>3. db[Current] \in Others
            BY <2>1, <3>1, <3>2 DEF TrustTypeOK, Certs, LocalhostCA
        <3> QED
            BY <3>1, <3>2, <3>3 DEF Doing, Reason
    <2> QED
        BY <2>3, <2>7, <2>8, <2>9, <2>10, <2>11, <2>12, <2>13 DEF TrustStep
<1> QED
    BY <1>1, TrustAlways, PTL DEF TrustSpec, FailsForReason
=============================================================================
