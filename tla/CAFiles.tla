------------------------------ MODULE CAFiles -------------------------------
(***************************************************************************)
(* The files of the certificate commands: `ca init' (subcmds/ca_init.go)   *)
(* makes a CA directory, `ca cert' (subcmds/ca_cert.go) signs with it a    *)
(* leaf for one name in the working directory.                             *)
(*                                                                         *)
(* Commands run one at a time, each as root or as the user; every call of  *)
(* a tool or of the kernel is a step of its own, may fail, and the command *)
(* may be killed between two of them.  openssl is external: a call that    *)
(* fails may leave the file it was writing.                                *)
(***************************************************************************)
EXTENDS Naturals

CONSTANTS
    LocalCAs,  \* CA certificates name-constrained to localhost, with keys
    Others,    \* certificates that are something else
    Junk,      \* a file that is no certificate
    Absent,    \* no file, no entry
    Flags,     \* the targets of ca install and ca uninstall
    Stores,    \* what a command may have worked through
    MaxCommands, MaxFails, MaxCrashes  \* bounds on commands, failures, kills

ASSUME CAFilesAssumption ==
    /\ LocalCAs \cap Others = {}
    /\ {Junk, Absent} \cap (LocalCAs \cup Others) = {} /\ Junk # Absent
    /\ MaxCommands \in Nat /\ MaxFails \in Nat /\ MaxCrashes \in Nat

VARIABLES
    dir,      \* the CA directory: cert.pem, key.pem, its maker, what is closed
    leaf,     \* <name>.key and <name>.crt: the run that wrote each, 0 for none
    cmd,      \* the running command
    last,     \* how the last command ended
    ran, fails, crashes

fvars == <<dir, leaf, cmd, last, ran, fails, crashes>>

Certs == LocalCAs \cup Others
Content == Certs \cup {Junk, Absent}
Ops == {"init", "cert", "install", "uninstall"}
Places == {"chosen", "create", "dir", "cert", "key", "csr", "sign", "cleanup", "refresh",
           "dbs", "delete", "add", "dump", "remove"} \cup Flags

Runs == 0..MaxCommands
NoLeaf == [key |-> 0, crt |-> 0]

(* At "chosen" a command looks for its next target in todo.                *)
NoCommand == [op |-> "none", flags |-> {}, root |-> FALSE, at |-> "chosen",
              todo |-> {}, dbs |-> {}, did |-> {}, want |-> {},
              synced |-> TRUE, dirty |-> FALSE]
NoResult == [op |-> "none", ok |-> FALSE, clean |-> FALSE, cert |-> Absent,
             did |-> {}, want |-> {}]

Commands == [op : Ops \cup {"none"}, flags : SUBSET Flags, root : BOOLEAN,
             at : Places, todo : SUBSET Flags, dbs : SUBSET Stores,
             did : SUBSET Stores, want : SUBSET Stores, synced : BOOLEAN,
             dirty : BOOLEAN]

Dirs == [cert : Content, key : LocalCAs \cup {Absent}, byRoot : BOOLEAN,
         closed : SUBSET {"dir", "cert"}]
Results == [op : Ops \cup {"none"}, ok : BOOLEAN, clean : BOOLEAN, cert : Content,
            did : SUBSET Stores, want : SUBSET Stores]

FilesTypeOK ==
    /\ dir \in Dirs
    /\ leaf \in [key : Runs, crt : Runs]
    /\ cmd \in Commands
    /\ last \in Results
    /\ ran \in Runs /\ fails \in 0..MaxFails /\ crashes \in 0..MaxCrashes

FilesInit ==
    /\ dir \in {[cert |-> c, key |-> c, byRoot |-> r, closed |-> {}] :
                    c \in LocalCAs, r \in BOOLEAN}
               \cup {[cert |-> Absent, key |-> Absent, byRoot |-> FALSE, closed |-> {}]}
    /\ leaf = NoLeaf
    /\ cmd = NoCommand
    /\ last = NoResult
    /\ ran = 0 /\ fails = 0 /\ crashes = 0

-----------------------------------------------------------------------------
(* Running a command                                                       *)

Idle == cmd.op = "none"
Doing(op, place) == cmd.op = op /\ cmd.at = place

Begin(c) == cmd' = c /\ ran' = ran + 1 /\ last' = NoResult /\ UNCHANGED <<fails, crashes>>
Goto(place) == cmd' = [cmd EXCEPT !.at = place] /\ UNCHANGED <<last, ran, fails, crashes>>

(* What remains of a command; it was clean when no tool failed under it    *)
(* and the system store was in order when it began.                        *)
Result(c, ok) ==
    [op |-> c.op, ok |-> ok, clean |-> c.synced /\ ~c.dirty, cert |-> dir.cert,
     did |-> c.did, want |-> c.want]

End(c, ok) ==
    /\ cmd' = NoCommand
    /\ last' = Result(c, ok)
    /\ UNCHANGED crashes

Succeed == End(cmd, TRUE) /\ UNCHANGED <<ran, fails>>
Refuse == End(cmd, FALSE) /\ UNCHANGED <<ran, fails>>

(* A call fails, and with it the command.                                  *)
Fail ==
    /\ fails < MaxFails /\ fails' = fails + 1
    /\ End([cmd EXCEPT !.dirty = TRUE], FALSE)
    /\ UNCHANGED ran

(* The process is killed: no deferred function runs.                       *)
Kill ==
    /\ ~Idle /\ crashes < MaxCrashes
    /\ crashes' = crashes + 1
    /\ cmd' = NoCommand
    /\ last' = Result(cmd, FALSE)
    /\ UNCHANGED <<dir, leaf, ran, fails>>

(* cert.pem is public once nothing is closed; key.pem stays its maker's.   *)
CertReadable(root) == dir.cert # Absent /\ (root \/ ~dir.byRoot \/ dir.closed = {})
KeyReadable(root) == dir.key # Absent /\ (root \/ ~dir.byRoot)

-----------------------------------------------------------------------------
(* ca init: openssl makes the directory for its owner alone, and run opens *)
(* it and the certificate to the others.                                   *)

CAInit(root) ==
    /\ Idle /\ ran < MaxCommands
    /\ Begin([NoCommand EXCEPT !.op = "init", !.root = root, !.at = "create"])
    /\ UNCHANGED <<dir, leaf>>

Made(c, key, cert) ==
    [cert |-> cert, key |-> key, byRoot |-> cmd.root, closed |-> {"dir", "cert"}]

(* Only root gets into a directory that root made.                         *)
CreateCA ==
    /\ Doing("init", "create")
    /\ \/ /\ cmd.root \/ ~dir.byRoot
          /\ \E c \in LocalCAs \ {dir.cert} :
              \/ dir' = Made(c, c, c) /\ Goto("dir")
              \/ Fail /\ dir' \in {dir, Made(c, c, Absent)}
       \/ ~cmd.root /\ dir.byRoot /\ Refuse /\ UNCHANGED dir
    /\ UNCHANGED leaf

(* Mutant of Chmod: the certificate keeps the mode openssl gave it.        *)
ChmodDirOnly(place, next) ==
    /\ Doing("init", place)
    /\ \/ /\ dir' = [dir EXCEPT !.closed = @ \ {"dir"}]
          /\ IF next = "done" THEN Succeed ELSE Goto(next)
       \/ Fail /\ UNCHANGED dir
    /\ UNCHANGED leaf

Chmod(place, next) ==
    /\ Doing("init", place)
    /\ \/ /\ dir' = [dir EXCEPT !.closed = @ \ {place}]
          /\ IF next = "done" THEN Succeed ELSE Goto(next)
       \/ Fail /\ UNCHANGED dir
    /\ UNCHANGED leaf

ChmodDir == Chmod("dir", "cert")
ChmodCert == Chmod("cert", "done")

-----------------------------------------------------------------------------
(* ca cert                                                                 *)

CACert(root) ==
    /\ Idle /\ ran < MaxCommands
    /\ Begin([NoCommand EXCEPT !.op = "cert", !.root = root])
    /\ UNCHANGED <<dir, leaf>>

(* Mutant of CheckLeaf: the cleanup is deferred before the files are       *)
(* looked for.                                                             *)
CheckLeafDeferred ==
    /\ Doing("cert", "chosen")
    /\ Goto(IF leaf = NoLeaf THEN "key" ELSE "cleanup")
    /\ UNCHANGED <<dir, leaf>>

(* Neither file may exist, and nothing is cleaned up when one does.        *)
CheckLeaf ==
    /\ Doing("cert", "chosen")
    /\ IF leaf = NoLeaf THEN Goto("key") ELSE Refuse
    /\ UNCHANGED <<dir, leaf>>

(* A call of ca cert fails: on to the deferred cleanup.                    *)
CertFails ==
    /\ fails < MaxFails /\ fails' = fails + 1
    /\ cmd' = [cmd EXCEPT !.at = "cleanup", !.dirty = TRUE]
    /\ UNCHANGED <<last, ran, crashes>>

GenerateECKey ==
    /\ Doing("cert", "key")
    /\ \/ leaf' = [leaf EXCEPT !.key = ran] /\ Goto("csr")
       \/ CertFails /\ leaf' \in {leaf, [leaf EXCEPT !.key = ran]}
    /\ UNCHANGED dir

CreateCSR ==
    /\ Doing("cert", "csr")
    /\ Goto("sign") \/ CertFails
    /\ UNCHANGED <<dir, leaf>>

Signs == CertReadable(cmd.root) /\ KeyReadable(cmd.root) /\ dir.key = dir.cert

SignServerCert ==
    /\ Doing("cert", "sign")
    /\ \/ Signs /\ leaf' = [leaf EXCEPT !.crt = ran] /\ Succeed
       \/ ~Signs /\ Goto("cleanup") /\ UNCHANGED leaf
       \/ CertFails /\ leaf' \in {leaf, [leaf EXCEPT !.crt = ran]}
    /\ UNCHANGED dir

(* Mutant of Cleanup: the key is left.                                     *)
CleanupCertOnly ==
    /\ Doing("cert", "cleanup")
    /\ leaf' = [leaf EXCEPT !.crt = 0] /\ Refuse
    /\ UNCHANGED dir

Cleanup ==
    /\ Doing("cert", "cleanup")
    /\ leaf' = NoLeaf /\ Refuse
    /\ UNCHANGED dir

(* The user clears the working directory.                                  *)
RemoveLeaf ==
    /\ Idle /\ leaf # NoLeaf
    /\ leaf' = NoLeaf
    /\ UNCHANGED <<dir, cmd, last, ran, fails, crashes>>

FilesStep ==
    \/ CreateCA \/ ChmodDir \/ ChmodCert
    \/ CheckLeaf \/ GenerateECKey \/ CreateCSR \/ SignServerCert \/ Cleanup

FilesNext == (\E root \in BOOLEAN : CAInit(root) \/ CACert(root)) \/ FilesStep \/ RemoveLeaf

-----------------------------------------------------------------------------
(* Properties                                                              *)

(* "A root-created CA directory stays world-readable": once ca init has     *)
(* succeeded, everybody can read the certificate.                          *)
PublicCA == (Idle /\ last.op = "init" /\ last.ok) => CertReadable(FALSE)

(* "Leave no half-written key/cert behind if a later step fails": between  *)
(* commands, unless one was killed, there is a pair of one run or nothing. *)
NoHalfPair == (Idle /\ crashes = 0) => leaf.key = leaf.crt

(* A key and a certificate that a run of ca cert has delivered are never   *)
(* touched by a later one, whether it fails or is killed.                  *)
PairKept ==
    [][(~Idle /\ leaf.key = leaf.crt /\ leaf.key \notin {0, ran}) => leaf' = leaf]_fvars
=============================================================================
