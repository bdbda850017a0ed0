------------------------------- MODULE Minter -------------------------------
(***************************************************************************)
(* The certificate minter of the daemon (servers/tlsmint.go) and the part  *)
(* of Options.Check that loads it (servers/options.go).                    *)
(*                                                                         *)
(* The daemon reads cert.pem and key.pem of the CA directory when it       *)
(* starts, one after the other, and twice over: the run command checks its *)
(* options, then New checks them again.  From then on TLS handshakes,      *)
(* each a goroutine of its own, get the leaf of their server name from the *)
(* cache or mint it.  The files may be rewritten at any time.              *)
(*                                                                         *)
(* Time counts hours, a leaf is valid from an hour before it is minted     *)
(* until a year (Year hours) after.                                        *)
(***************************************************************************)
EXTENDS Names

CONSTANTS
    Asked,        \* the server names clients send, <<"">> for none
    Clients,      \* concurrent handshakes
    Pairs,        \* key pairs: cert.pem and key.pem of one `ca init'
    Authorities,  \* the pairs whose certificate is a CA's,
    Constrained,  \* and those that permit the dNSName localhost
    NoFile, Junk, \* what a file may hold instead of one half of a pair
    NoPair, NoLeaf,
    Year, MaxTime, MaxWrites

ASSUME MinterAssumption ==
    /\ \A h \in Asked : h \in Seq(Labels) /\ h # <<>>
    /\ Authorities \subseteq Pairs /\ Constrained \subseteq Pairs
    /\ {NoFile, Junk, NoPair} \cap Pairs = {}
    /\ Year \in Nat \ {0} /\ MaxTime \in Nat /\ MaxWrites \in Nat

Hour == 1
NoName == <<"">>

(* Mutant: the server name is taken as it comes.                           *)
ServedNameAsSent(sni) == IF sni = NoName THEN Localhost ELSE sni

(* getCertificate: the name a client is served under.                      *)
ServedName(sni) == IF Lowered(sni) = NoName THEN Localhost ELSE Lowered(sni)
Hosts == {ServedName(h) : h \in Asked}

VARIABLES
    disk,    \* disk.cert and disk.key: what the files hold
    boot,    \* how far the daemon has come with loading them
    ca,      \* the CA of the daemon's minter
    cache,
    shake,   \* shake[c]: the handshake of client c
    now,
    since,   \* when the daemon was started
    whole,   \* the files were a pair when last read, and stayed so meanwhile
    writes

vars == <<disk, boot, ca, cache, shake, now, since, whole, writes>>

Contents == Pairs \cup {NoFile, Junk}
Leaves == [host : Hosts, by : Pairs, from : Nat, to : Nat, serial : Clients]

ASSUME NoLeafAssumption == NoLeaf \notin Leaves

Shakes == [at : {"idle", "lookup", "mint", "store", "served", "refused"},
           sni : Asked \cup {NoName}, leaf : Leaves \cup {NoLeaf}, when : Nat]

NoShake == [at |-> "idle", sni |-> NoName, leaf |-> NoLeaf, when |-> 0]
NoCA == [cert |-> NoPair, key |-> NoPair]

(* Only a certificate and a key ever make it into the minter.              *)
MinterTypeOK ==
    /\ disk \in [cert : Contents, key : Contents]
    /\ boot \in [at : {"down", "cert", "key", "up"}, pass : 1..2,
                 cert : Contents \cup {NoPair}]
    /\ ca \in [cert : Pairs \cup {NoPair}, key : Pairs \cup {NoPair}]
    /\ boot.at = "up" => NoPair \notin {ca.cert, ca.key}
    /\ cache \in [Hosts -> Leaves \cup {NoLeaf}]
    /\ shake \in [Clients -> Shakes]
    /\ now \in Hour..(Hour + MaxTime) /\ since \in Nat /\ since <= now
    /\ whole \in BOOLEAN
    /\ writes \in 0..MaxWrites

Down == [at |-> "down", pass |-> 1, cert |-> NoPair]
EmptyCache == [h \in Hosts |-> NoLeaf]

Init ==
    /\ disk \in [cert : Contents, key : Contents]
    /\ boot = Down
    /\ ca = NoCA
    /\ cache = EmptyCache
    /\ shake = [c \in Clients |-> NoShake]
    /\ now = Hour /\ since = Hour
    /\ whole = FALSE
    /\ writes = 0

-----------------------------------------------------------------------------
(* Starting and stopping                                                   *)

served == <<cache, shake>>

Start ==
    /\ boot.at = "down"
    /\ boot' = [Down EXCEPT !.at = "cert"]
    /\ since' = now
    /\ UNCHANGED <<disk, ca, served, now, whole, writes>>

(* Nothing of the minter outlives the process.                             *)
GoDown ==
    /\ boot' = Down
    /\ ca' = NoCA
    /\ cache' = EmptyCache
    /\ shake' = [c \in Clients |-> NoShake]
    /\ whole' = FALSE
    /\ UNCHANGED <<disk, now, since, writes>>

ReadCert ==
    /\ boot.at = "cert" /\ disk.cert # NoFile
    /\ boot' = [boot EXCEPT !.at = "key", !.cert = disk.cert]
    /\ whole' = (disk.cert = disk.key)
    /\ UNCHANGED <<disk, ca, served, now, since, writes>>

(* Mutant: any PEM block will do for a key.                                *)
ParsesAnyKey(cert, key) ==
    cert \in Authorities \cap Constrained /\ key # NoFile

(* newCertMinter has both files: the certificate has to be that of a CA    *)
(* constrained to localhost.  Nothing compares it to the key.              *)
Parses(cert, key) ==
    cert \in Authorities \cap Constrained /\ key \in Pairs

ReadKey ==
    /\ boot.at = "key" /\ Parses(boot.cert, disk.key)
    /\ ca' = [cert |-> boot.cert, key |-> disk.key]
    /\ boot' = IF boot.pass = 1 THEN [at |-> "cert", pass |-> 2, cert |-> NoPair]
                                ELSE [boot EXCEPT !.at = "up"]
    /\ UNCHANGED <<disk, served, now, since, whole, writes>>

LoadFails ==
    /\ \/ boot.at = "cert" /\ disk.cert = NoFile
       \/ boot.at = "key" /\ ~Parses(boot.cert, disk.key)
    /\ GoDown

Stop == boot.at = "up" /\ GoDown

-----------------------------------------------------------------------------
(* A handshake (getCertificate)                                            *)

Goes(c, s) ==
    /\ shake' = [shake EXCEPT ![c] = s]
    /\ UNCHANGED <<disk, boot, ca, now, since, whole, writes>>

At(c, stage) == boot.at = "up" /\ shake[c].at = stage

Answer(c, leaf) ==
    [shake[c] EXCEPT !.at = "served", !.leaf = leaf, !.when = now]
Refuse(c) == Goes(c, [shake[c] EXCEPT !.at = "refused"]) /\ UNCHANGED cache

Ask(c, sni) ==
    /\ boot.at = "up" /\ shake[c].at \in {"idle", "served", "refused"}
    /\ Goes(c, [NoShake EXCEPT !.at = "lookup", !.sni = sni])
    /\ UNCHANGED cache

(* Mutant: validLocalhostName is left out.                                 *)
LookupUnchecked(c) ==
    LET host == ServedName(shake[c].sni) IN
    /\ At(c, "lookup")
    /\ Goes(c, IF cache[host] # NoLeaf THEN Answer(c, cache[host])
                                       ELSE [shake[c] EXCEPT !.at = "mint"])
    /\ UNCHANGED cache

Lookup(c) ==
    LET host == ServedName(shake[c].sni) IN
    /\ At(c, "lookup")
    /\ \/ /\ ~validLocalhostName(host)
          /\ Refuse(c)
       \/ /\ validLocalhostName(host)
          /\ Goes(c, IF cache[host] # NoLeaf THEN Answer(c, cache[host])
                                             ELSE [shake[c] EXCEPT !.at = "mint"])
          /\ UNCHANGED cache

(* Mutant: the validity begins at the time of minting.                     *)
NewLeafFromNow(c) ==
    [host |-> ServedName(shake[c].sni), by |-> ca.cert,
     from |-> now, to |-> now + Year, serial |-> c]

NewLeaf(c) ==
    [host |-> ServedName(shake[c].sni), by |-> ca.cert,
     from |-> now - Hour, to |-> now + Year, serial |-> c]

(* x509.CreateCertificate refuses a key that is not the certificate's.     *)
Mint(c) ==
    /\ At(c, "mint")
    /\ IF ca.key # ca.cert
       THEN Refuse(c)
       ELSE /\ Goes(c, [shake[c] EXCEPT !.at = "store", !.leaf = NewLeaf(c)])
            /\ UNCHANGED cache

(* Mutant: Store instead of LoadOrStore.                                   *)
StoreOver(c) ==
    LET host == ServedName(shake[c].sni) IN
    /\ At(c, "store")
    /\ cache' = [cache EXCEPT ![host] = shake[c].leaf]
    /\ Goes(c, Answer(c, shake[c].leaf))

(* Mutant: who comes second waits for a leaf of its own to be stored.      *)
StoreFirstOnly(c) ==
    LET host == ServedName(shake[c].sni) IN
    /\ At(c, "store") /\ cache[host] = NoLeaf
    /\ cache' = [cache EXCEPT ![host] = shake[c].leaf]
    /\ Goes(c, Answer(c, shake[c].leaf))

(* LoadOrStore: whoever comes second takes the leaf of the first.          *)
Store(c) ==
    LET host == ServedName(shake[c].sni)
        leaf == IF cache[host] # NoLeaf THEN cache[host] ELSE shake[c].leaf
    IN /\ At(c, "store")
       /\ cache' = [cache EXCEPT ![host] = leaf]
       /\ Goes(c, Answer(c, leaf))

-----------------------------------------------------------------------------
(* The world                                                               *)

Tick ==
    /\ now < Hour + MaxTime
    /\ now' = now + 1
    /\ UNCHANGED <<disk, boot, ca, served, since, whole, writes>>

(* Someone removes or rewrites one of the two files.                       *)
Rewrite(file, content) ==
    /\ writes < MaxWrites
    /\ writes' = writes + 1
    /\ disk[file] # content
    /\ disk' = [disk EXCEPT ![file] = content]
    /\ whole' = (whole /\ boot.at = "up")
    /\ UNCHANGED <<boot, ca, served, now, since>>

Handshake(c) == Lookup(c) \/ Mint(c) \/ Store(c)

Next ==
    \/ Start \/ ReadCert \/ ReadKey \/ LoadFails \/ Stop
    \/ \E c \in Clients : Handshake(c) \/ \E h \in Asked : Ask(c, h)
    \/ Tick
    \/ \E f \in {"cert", "key"}, x \in Contents : Rewrite(f, x)

(* A goroutine that can take its next step takes it eventually.            *)
Fairness ==
    /\ WF_vars(ReadCert \/ ReadKey \/ LoadFails)
    /\ \A c \in Clients : WF_vars(Handshake(c))

MinterSpec == Init /\ [][Next]_vars /\ Fairness

-----------------------------------------------------------------------------
(* Properties                                                              *)

(* However handshakes race in getCertificate, all clients that ask for one *)
(* name of a daemon are served one and the same leaf.                      *)
OneLeafPerHost ==
    \A c, d \in Clients :
        /\ shake[c].at = "served" /\ shake[d].at = "served"
        /\ ServedName(shake[c].sni) = ServedName(shake[d].sni)
        => shake[c].leaf = shake[d].leaf

(* What a client is served is a leaf for the very name it asked for, a     *)
(* name under localhost, signed by the key that belongs to the certificate *)
(* the leaf names as its issuer, one constrained to localhost.             *)
RightLeaf ==
    \A c \in Clients : shake[c].at = "served" =>
        LET leaf == shake[c].leaf IN
        /\ \/ leaf.host = Lowered(shake[c].sni)
           \/ leaf.host = Localhost /\ shake[c].sni = NoName
        /\ validLocalhostName(leaf.host)
        /\ leaf.by \in Authorities \cap Constrained
        /\ ca = [cert |-> leaf.by, key |-> leaf.by]

(* In the first year of a daemon, less an hour, a client accepts the leaf  *)
(* it is served, though its clock be an hour off.  (Cached leaves are      *)
(* never renewed: later on this is false.)                                 *)
ServedValid ==
    \A c \in Clients :
        /\ shake[c].at = "served"
        /\ shake[c].when - since <= Year - Hour
        => \A clock \in (shake[c].when - Hour)..(shake[c].when + Hour) :
              shake[c].leaf.from <= clock /\ clock <= shake[c].leaf.to

(* A client is turned away for its server name, where neither case nor a   *)
(* missing name is held against it, or because the daemon has              *)
(* a certificate and a key of different pairs; which it only has if the    *)
(* files were no pair when it read them, or were written at that time.     *)
RefusedRightly ==
    \A c \in Clients :
        /\ shake[c].at = "refused"
        /\ shake[c].sni = NoName \/ validLocalhostName(Lowered(shake[c].sni))
        => ~whole /\ ca.cert # ca.key

(* A handshake that has begun ends, and so does the start of a daemon.     *)
Settles ==
    /\ \A c \in Clients :
        shake[c].at \in {"lookup", "mint", "store"}
            ~> shake[c].at \in {"idle", "served", "refused"}
    /\ boot.at \in {"cert", "key"} ~> boot.at \in {"up", "down"}
=============================================================================
