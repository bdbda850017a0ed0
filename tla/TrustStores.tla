---------------------------- MODULE TrustStores -----------------------------
(***************************************************************************)
(* `ca install' and `ca uninstall' (subcmds/ca_install.go, ca_uninstall.go,*)
(* ca_install_nss.go, ca_system_*.go): they work through the system trust  *)
(* store, the Firefox profiles and the Chrome databases in turn, with a    *)
(* tool of the platform for each, and stop at the first failure.           *)
(*                                                                         *)
(* The stores are external.  An NSS database has at most one certificate   *)
(* under the nickname, which all of the CAs here share (the default -cn);  *)
(* certutil -D fails when there is none, -A when another one is there or   *)
(* the file is no certificate.  On Linux the system store is the anchor    *)
(* file and the bundle that a refresh command makes of it; on macOS it is  *)
(* the keychain alone.                                                     *)
(***************************************************************************)
EXTENDS CAFiles

CONSTANTS
    Platforms,
    FlagSets,  \* the combinations of flags that are given
    Firefox,   \* the candidate profile directories
    Chrome,    \* the NSS directories of Chrome
    DefaultDB, \* the one of these that ca install makes when there is none
    MaxEvents  \* bound on what happens behind the commands' back

System == "system"
DBs == Firefox \cup Chrome

ASSUME TrustAssumption ==
    /\ Flags = {System, "firefox", "chrome"}
    /\ FlagSets \subseteq SUBSET Flags
    /\ Platforms \subseteq {"linux", "darwin", "other"}
    /\ Stores = DBs \cup {System} /\ System \notin DBs
    /\ Firefox \cap Chrome = {} /\ DefaultDB \in Chrome
    /\ MaxEvents \in Nat

VARIABLES
    platform,
    anchor,    \* the anchor file of localrelay
    trusted,   \* the certificates the system store trusts on its account
    present,   \* the databases that are initialised
    db,        \* db[d]: the certificate under the nickname
    events

tvars == <<platform, anchor, trusted, present, db, events>>
vars == <<fvars, tvars>>
system == <<anchor, trusted>>
browsers == <<present, db>>

TrustTypeOK ==
    /\ FilesTypeOK
    /\ platform \in Platforms
    /\ anchor \in Content
    /\ trusted \subseteq Certs
    /\ present \subseteq DBs
    /\ db \in [DBs -> Certs \cup {Absent}]
    /\ \A d \in DBs \ present : db[d] = Absent
    /\ events \in 0..MaxEvents

(* What a refresh makes of the anchor.                                     *)
Bundle(a) == {a} \cap Certs

(* Earlier commands may have installed the CA in any of the stores.        *)
TrustInit ==
    /\ FilesInit
    /\ platform \in Platforms
    /\ \E c \in {Absent, dir.cert} :
        /\ anchor = IF platform = "linux" THEN c ELSE Absent
        /\ trusted = Bundle(c)
    /\ present \in SUBSET DBs
    /\ db \in {f \in [DBs -> {Absent, dir.cert}] : \A d \in DBs \ present : f[d] = Absent}
    /\ events = 0

-----------------------------------------------------------------------------
(* Choosing the targets                                                    *)

DBsOf(b) == IF b = "firefox" THEN Firefox ELSE Chrome
BrowserPresent(b) == present \cap DBsOf(b) # {}

(* The flags given, or else the browsers that are present.                 *)
Targets(flags) ==
    IF flags # {} THEN flags ELSE {b \in {"firefox", "chrome"} : BrowserPresent(b)}

(* The stores a command with these targets has to work through.            *)
Wanted(targets) ==
    (targets \cap {System})
        \cup {d \in present : \E b \in targets \ {System} : d \in DBsOf(b)}

InSync == platform = "linux" => trusted = Bundle(anchor)

(* localhostCACert accepts it.                                             *)
LocalhostCA(c) == c \in LocalCAs

(* Install only stats cert.pem, uninstall reads it and wants a localhost CA. *)
Accepted(op, root) ==
    IF op = "install"
    THEN dir.cert # Absent /\ (root \/ ~dir.byRoot \/ "dir" \notin dir.closed)
    ELSE CertReadable(root) /\ LocalhostCA(dir.cert)

Command(op, flags, root) ==
    [NoCommand EXCEPT !.op = op, !.flags = flags, !.root = root, !.synced = InSync,
                      !.todo = Targets(flags), !.want = Wanted(Targets(flags))]

Start(op, flags, root) ==
    LET c == Command(op, flags, root)
    IN /\ Idle /\ ran < MaxCommands
       /\ IF Accepted(op, root) /\ c.todo # {}
          THEN Begin(c)
          ELSE /\ ran' = ran + 1 /\ End(c, FALSE)
               /\ UNCHANGED fails
       /\ UNCHANGED <<dir, leaf, tvars>>

CAInstall(flags, root) == Start("install", flags, root)
CAUninstall(flags, root) == Start("uninstall", flags, root)

At(place) == cmd.at = place /\ cmd.op \in {"install", "uninstall"}
Becomes(c) == cmd' = c /\ UNCHANGED <<last, ran, fails, crashes>>

(* The targets have their order; one stays in todo until it is done.       *)
Target ==
    IF System \in cmd.todo THEN System
    ELSE IF "firefox" \in cmd.todo THEN "firefox" ELSE "chrome"

TakeTarget ==
    /\ At("chosen")
    /\ IF cmd.todo = {} THEN Succeed ELSE Goto(Target)
    /\ UNCHANGED <<dir, leaf, tvars>>

NextTarget(did) ==
    Becomes([cmd EXCEPT !.at = "chosen", !.todo = @ \ {Target}, !.did = @ \cup did])

StoreDone == NextTarget({System})

-----------------------------------------------------------------------------
(* The system store                                                        *)

MaySystem == cmd.root /\ platform # "other"

SystemRefused ==
    /\ At("system") /\ ~MaySystem
    /\ Refuse
    /\ UNCHANGED <<dir, leaf, tvars>>

(* os.WriteFile may fail half way.                                         *)
WriteAnchor ==
    /\ Doing("install", "system") /\ MaySystem /\ platform = "linux"
    /\ \/ anchor' = dir.cert /\ Goto("refresh")
       \/ Fail /\ anchor' \in {anchor, Junk}
    /\ UNCHANGED <<dir, leaf, platform, trusted, browsers, events>>

RemoveAnchor ==
    /\ Doing("uninstall", "system") /\ MaySystem /\ platform = "linux"
    /\ \/ anchor = Absent /\ StoreDone /\ UNCHANGED anchor
       \/ anchor # Absent /\ ~LocalhostCA(anchor) /\ Refuse /\ UNCHANGED anchor
       \/ LocalhostCA(anchor) /\ anchor' = Absent /\ Goto("refresh")
       \/ Fail /\ UNCHANGED anchor
    /\ UNCHANGED <<dir, leaf, platform, trusted, browsers, events>>

(* Mutant of Refresh: its failure is ignored.                              *)
RefreshIgnored ==
    /\ At("refresh")
    /\ \/ trusted' = Bundle(anchor) /\ StoreDone
       \/ StoreDone /\ UNCHANGED trusted
    /\ UNCHANGED <<dir, leaf, platform, anchor, browsers, events>>

Refresh ==
    /\ At("refresh")
    /\ \/ trusted' = Bundle(anchor) /\ StoreDone
       \/ Fail /\ trusted' \in {trusted, Bundle(anchor)}
    /\ UNCHANGED <<dir, leaf, platform, anchor, browsers, events>>

(* security add-trusted-cert and remove-trusted-cert.                      *)
Keychain ==
    /\ At("system") /\ MaySystem /\ platform = "darwin"
    /\ \/ /\ cmd.op = "install" /\ dir.cert \in Certs
          /\ trusted' = trusted \cup {dir.cert} /\ StoreDone
       \/ /\ cmd.op = "uninstall" /\ dir.cert \in trusted
          /\ trusted' = trusted \ {dir.cert} /\ StoreDone
       \/ Fail /\ UNCHANGED trusted
       \/ /\ IF cmd.op = "install" THEN dir.cert \notin Certs ELSE dir.cert \notin trusted
          /\ Refuse /\ UNCHANGED trusted
    /\ UNCHANGED <<dir, leaf, platform, anchor, browsers, events>>

-----------------------------------------------------------------------------
(* The browsers                                                            *)

(* certutil is looked up and the databases are listed: every profile of    *)
(* Firefox, the initialised ones of Chrome.                                *)
ListDBs ==
    /\ At("firefox") \/ At("chrome")
    /\ \/ LET dbs == IF cmd.at = "firefox" THEN Firefox ELSE Chrome \cap present
              none == cmd.op = "install" /\ cmd.at = "chrome" /\ dbs = {}
          IN Becomes([cmd EXCEPT !.dbs = dbs, !.at = IF none THEN "create" ELSE "dbs"])
       \/ Fail
    /\ UNCHANGED <<dir, leaf, tvars>>

(* certutil -N makes the default database of Chrome.                       *)
CreateDB ==
    /\ Doing("install", "create")
    /\ \/ /\ present' = present \cup {DefaultDB}
          /\ Becomes([cmd EXCEPT !.dbs = {DefaultDB}, !.at = "dbs"])
       \/ Fail /\ UNCHANGED present
    /\ UNCHANGED <<dir, leaf, platform, system, db, events>>

(* The databases are gone through in some order.                           *)
Current == CHOOSE d \in cmd.dbs : TRUE
PassedOver == [cmd EXCEPT !.at = "dbs", !.dbs = @ \ {Current}]
Handled == [PassedOver EXCEPT !.did = @ \cup {Current}]

(* Mutant of TakeDB: a profile directory is taken for a database.          *)
TakeAnyDB ==
    /\ At("dbs")
    /\ IF cmd.dbs = {} THEN NextTarget({})
       ELSE Goto(IF cmd.op = "install" THEN "delete" ELSE "dump")
    /\ UNCHANGED <<dir, leaf, tvars>>

(* Go through the list; a profile that is not initialised is passed over,  *)
(* and ca install wants at least one that is.                              *)
TakeDB ==
    /\ At("dbs")
    /\ IF cmd.dbs = {}
       THEN IF cmd.op = "install" /\ Target = "firefox" /\ cmd.did \cap Firefox = {}
            THEN Refuse
            ELSE NextTarget({})
       ELSE IF Current \in present
            THEN Goto(IF cmd.op = "install" THEN "delete" ELSE "dump")
            ELSE Becomes(PassedOver)
    /\ UNCHANGED <<dir, leaf, tvars>>

(* A call of certutil fails and the command goes on as c.                  *)
Overlooked(c) ==
    /\ fails < MaxFails /\ fails' = fails + 1
    /\ cmd' = [c EXCEPT !.dirty = TRUE]
    /\ UNCHANGED <<last, ran, crashes>>

(* Mutant of DeleteOld: the error of certutil -D is returned.              *)
DeleteOldChecked ==
    /\ Doing("install", "delete")
    /\ IF db[Current] = Absent THEN Refuse /\ UNCHANGED db
                               ELSE Goto("add") /\ db' = [db EXCEPT ![Current] = Absent]
    /\ UNCHANGED <<dir, leaf, platform, system, present, events>>

(* addToNSSDB, first certutil -D, whose error is ignored ...               *)
DeleteOld ==
    /\ Doing("install", "delete")
    /\ \/ Goto("add") /\ db' = [db EXCEPT ![Current] = Absent]
       \/ db[Current] # Absent /\ Overlooked([cmd EXCEPT !.at = "add"]) /\ UNCHANGED db
    /\ UNCHANGED <<dir, leaf, platform, system, present, events>>

Addable == CertReadable(cmd.root) /\ dir.cert \in Certs /\ db[Current] \in {Absent, dir.cert}

(* Mutant of AddNew: the other databases are done although this one failed. *)
AddNewOrSkip ==
    /\ Doing("install", "add")
    /\ \/ Addable /\ db' = [db EXCEPT ![Current] = dir.cert] /\ Becomes(Handled)
       \/ Becomes(PassedOver) /\ UNCHANGED db
    /\ UNCHANGED <<dir, leaf, platform, system, present, events>>

(* ... then certutil -A.                                                   *)
AddNew ==
    /\ Doing("install", "add")
    /\ \/ Addable /\ db' = [db EXCEPT ![Current] = dir.cert] /\ Becomes(Handled)
       \/ ~Addable /\ Refuse /\ UNCHANGED db
       \/ Fail /\ UNCHANGED db
    /\ UNCHANGED <<dir, leaf, platform, system, present, events>>

(* Mutant of Dump: the certificate is not looked at.                       *)
DumpUnchecked ==
    /\ Doing("uninstall", "dump")
    /\ IF db[Current] = Absent THEN Becomes(Handled) ELSE Goto("remove")
    /\ UNCHANGED <<dir, leaf, tvars>>

(* removeLocalhostCAFromNSSDB, first certutil -L: any failure of it counts *)
(* as an absent nickname ...                                               *)
Dump ==
    /\ Doing("uninstall", "dump")
    /\ \/ db[Current] = Absent /\ Becomes(Handled)
       \/ db[Current] # Absent /\ Overlooked(Handled)
       \/ db[Current] # Absent /\ ~LocalhostCA(db[Current]) /\ Refuse
       \/ LocalhostCA(db[Current]) /\ Goto("remove")
    /\ UNCHANGED <<dir, leaf, tvars>>

(* ... then certutil -D.                                                   *)
DeleteCA ==
    /\ Doing("uninstall", "remove")
    /\ \/ db' = [db EXCEPT ![Current] = Absent] /\ Becomes(Handled)
       \/ Fail /\ UNCHANGED db
    /\ UNCHANGED <<dir, leaf, platform, system, present, events>>

-----------------------------------------------------------------------------
(* What happens behind the commands' back                                  *)

Event ==
    /\ events < MaxEvents /\ events' = events + 1
    /\ UNCHANGED <<leaf, platform, cmd, last, ran, fails, crashes>>

(* A browser is started for the first time.                                *)
Appears(d) ==
    /\ d \notin present /\ present' = present \cup {d}
    /\ Event /\ UNCHANGED <<dir, system, db>>

(* Somebody imports a certificate of the same nickname, or puts a file of  *)
(* that name among the anchors.                                            *)
Imported(d, c) ==
    /\ d \in present /\ db[d] = Absent /\ db' = [db EXCEPT ![d] = c]
    /\ Event /\ UNCHANGED <<dir, system, present>>

Dropped(c) ==
    /\ anchor = Absent /\ anchor' = c
    /\ Event /\ UNCHANGED <<dir, trusted, browsers>>

(* The user puts another file in the place of cert.pem.                    *)
Supplied(c) ==
    /\ Idle /\ dir' = [dir EXCEPT !.cert = c]
    /\ Event /\ UNCHANGED <<system, browsers>>

(* The system's package manager refreshes the bundle.                      *)
Refreshed ==
    /\ platform = "linux" /\ ~InSync /\ trusted' = Bundle(anchor)
    /\ Event /\ UNCHANGED <<dir, anchor, browsers>>

-----------------------------------------------------------------------------
(* Specification                                                           *)

TrustStep ==
    \/ TakeTarget \/ SystemRefused \/ WriteAnchor \/ RemoveAnchor \/ Refresh \/ Keychain
    \/ ListDBs \/ CreateDB \/ TakeDB \/ DeleteOld \/ AddNew \/ Dump \/ DeleteCA

Environment ==
    \/ Refreshed
    \/ \E d \in DBs : Appears(d)
    \/ \E c \in Others : Dropped(c) \/ \E d \in DBs : Imported(d, c)
    \/ \E c \in Others \cup {Junk} : Supplied(c)

(* Nobody runs a command.                                                  *)
Rest == Idle /\ UNCHANGED vars

Files == (FilesNext \/ Kill) /\ UNCHANGED tvars

TrustNext ==
    \/ \E flags \in FlagSets, root \in BOOLEAN :
            CAInstall(flags, root) \/ CAUninstall(flags, root)
    \/ TrustStep \/ Files \/ Environment \/ Rest

TrustSpec == TrustInit /\ [][TrustNext]_vars

-----------------------------------------------------------------------------
(* Properties                                                              *)

Trusts(s, c) == IF s = System THEN c \in trusted ELSE db[s] = c

(* An install that succeeds leaves no selected store out, and one that     *)
(* fails half way has not undone what it had done before.  (On Linux ca    *)
(* install -system copies cert.pem without a look at it: a file that is no *)
(* certificate is "installed" there.)                                      *)
InstallTrusts ==
    (Idle /\ last.op = "install" /\ last.cert \in Certs) =>
        /\ \A s \in last.did : Trusts(s, last.cert)
        /\ last.ok => last.want \subseteq last.did

(* After an uninstall that succeeds, no selected store trusts the CA: with *)
(* two exceptions of the code, a certutil -L that failed and a system      *)
(* store that an earlier command had left behind its anchor.               *)
UninstallRevokes ==
    (Idle /\ last.op = "uninstall" /\ last.ok /\ last.clean)
        => \A s \in last.want : ~Trusts(s, last.cert)

(* "ca uninstall never removes an unrelated certificate": not from a       *)
(* database, not from among the anchors, not from the keychain.            *)
SparesOthers ==
    [][cmd.op = "uninstall" =>
        /\ \A d \in DBs : db[d] \in Others => db'[d] = db[d]
        /\ anchor \in Others => anchor' = anchor
        /\ platform = "darwin" => trusted \cap Others \subseteq trusted']_vars

(* Why a command may end with an error when no tool failed under it.       *)
Reason ==
    \/ ~CertReadable(cmd.root)
    \/ System \in cmd.flags /\ ~(cmd.root /\ platform # "other")
    \/ /\ cmd.op = "install"
       /\ \/ dir.cert \notin Certs
          \/ "firefox" \in cmd.flags /\ cmd.did \cap Firefox = {}
          \/ cmd.at = "add" /\ db[Current] \in Others  \* imported after the -D
    \/ /\ cmd.op = "uninstall"
       /\ \/ \E d \in present : db[d] \in Others
          \/ System \in cmd.flags /\ anchor \in Others \cup {Junk}
          \/ System \in cmd.flags /\ platform = "darwin" /\ dir.cert \notin trusted

(* Nothing an earlier command left behind, failed or killed at any step,   *)
(* makes a later one fail, but for a torn anchor, which ca uninstall does  *)
(* not take for its own: an install always repairs what it finds.          *)
FailsForReason ==
    [][(cmd.op \in {"install", "uninstall"} /\ cmd'.op = "none" /\ ~last'.ok
            /\ ~cmd.dirty /\ fails' = fails /\ crashes' = crashes) => Reason]_vars
=============================================================================
