---------------------------- MODULE MinterProofs ----------------------------
(***************************************************************************)
(* Proofs about Minter, for any number of clients, any names, pairs and    *)
(* bounds and a year of any length.                                        *)
(***************************************************************************)
EXTENDS Minter, TLAPS

(* A leaf for this host that the running daemon minted, not later than t.  *)
LeafFor(leaf, host, t) ==
    /\ leaf \in Leaves
    /\ leaf.host = host /\ validLocalhostName(host)
    /\ leaf.by = ca.cert /\ ca.key = ca.cert
    /\ since <= leaf.from + Hour /\ leaf.from + Hour <= t
    /\ leaf.to = leaf.from + Hour + Year

(* Where the daemon is with its files: what it holds is what Parses let    *)
(* pass, and a pair if nobody wrote between the reads.                     *)
BootInv ==
    /\ boot.at = "key" /\ whole => boot.cert = disk.key
    /\ boot.at = "up" =>
        /\ ca.cert \in Authorities \cap Constrained /\ ca.key \in Pairs
        /\ whole => ca.cert = ca.key

CacheInv ==
    \A h \in Hosts : cache[h] # NoLeaf => boot.at = "up" /\ LeafFor(cache[h], h, now)

(* What client c has got out of its handshake so far.                      *)
ShakeInv(c) ==
    LET s == shake[c]
        host == ServedName(s.sni)
    IN /\ s.at # "idle" => boot.at = "up" /\ s.sni \in Asked
       /\ s.at = "mint" => validLocalhostName(host)
       /\ s.at = "store" => LeafFor(s.leaf, host, now)
       /\ s.at = "served" =>
            /\ s.when <= now
            /\ s.leaf = cache[host] /\ LeafFor(s.leaf, host, s.when)
       /\ s.at = "refused" => ~validLocalhostName(host) \/ ca.cert # ca.key

MinterInv ==
    /\ MinterTypeOK
    /\ BootInv
    /\ CacheInv
    /\ \A c \in Clients : ShakeInv(c)

-----------------------------------------------------------------------------
(* Lemmas                                                                  *)

(* The name a client is served under is one of Hosts, and Localhost is a   *)
(* valid one.                                                              *)
LEMMA HostType ==
    /\ \A h \in Asked : ServedName(h) \in Hosts
    /\ validLocalhostName(Localhost)
BY DEF Hosts, ServedName, validLocalhostName

(* Bounds are numbers, and what is not a certificate is not a pair.        *)
LEMMA Numbers ==
    /\ Year \in Nat \ {0} /\ MaxTime \in Nat /\ MaxWrites \in Nat
    /\ Hour = 1
    /\ NoPair \notin Pairs
    /\ Authorities \subseteq Pairs
BY MinterAssumption DEF Hour

(* What a daemon that is down holds is well typed.                         *)
LEMMA DownType ==
    /\ Down \in [at : {"down", "cert", "key", "up"}, pass : 1..2,
                 cert : Contents \cup {NoPair}]
    /\ NoCA \in [cert : Pairs \cup {NoPair}, key : Pairs \cup {NoPair}]
    /\ EmptyCache \in [Hosts -> Leaves \cup {NoLeaf}]
    /\ [c \in Clients |-> NoShake] \in [Clients -> Shakes]
    /\ Down.at # "up"
<1>1. NoShake \in Shakes
    BY DEF NoShake, Shakes
<1>2. [c \in Clients |-> NoShake] \in [Clients -> Shakes]
    BY <1>1
<1>3. EmptyCache \in [Hosts -> Leaves \cup {NoLeaf}]
    BY DEF EmptyCache
<1>4. Down.at # "up"
    BY DEF Down
<1>5. /\ Down \in [at : {"down", "cert", "key", "up"}, pass : 1..2,
                 cert : Contents \cup {NoPair}]
      /\ NoCA \in [cert : Pairs \cup {NoPair}, key : Pairs \cup {NoPair}]
    BY DEF Down, NoCA
<1> QED
    BY <1>2, <1>3, <1>4, <1>5

(* The invariant holds before the first start.                             *)
LEMMA InitMinter == Init => MinterInv
<1> SUFFICES ASSUME Init PROVE MinterInv
    OBVIOUS
<1>1. MinterTypeOK
    <2>1. now \in Hour..(Hour + MaxTime) /\ since \in Nat /\ since <= now
        BY Numbers DEF Init
    <2>2. writes \in 0..MaxWrites
        BY Numbers DEF Init
    <2>3. whole \in BOOLEAN
        BY Zenon DEF Init
    <2>4. shake \in [Clients -> Shakes] /\ cache \in [Hosts -> Leaves \cup {NoLeaf}]
        BY DownType DEF Init
    <2>5. /\ boot \in [at : {"down", "cert", "key", "up"}, pass : 1..2,
                      cert : Contents \cup {NoPair}]
          /\ ca \in [cert : Pairs \cup {NoPair}, key : Pairs \cup {NoPair}]
          /\ boot.at # "up"
        BY DownType DEF Init
    <2> QED
        BY <2>1, <2>2, <2>4, <2>5, <2>3 DEF Init, MinterTypeOK
<1>2. BootInv /\ CacheInv /\ \A c \in Clients : ShakeInv(c)
    BY DEF Init, BootInv, CacheInv, ShakeInv, Down, EmptyCache, NoShake
<1> QED
    BY <1>1, <1>2 DEF MinterInv

(* A step of one handshake that takes no leaf out of the cache leaves      *)
(* what the others have got alone.                                         *)
LEMMA OneShake ==
    ASSUME MinterInv, NEW c \in Clients, NEW s \in Shakes, Goes(c, s), boot.at = "up",
           cache' \in [Hosts -> Leaves \cup {NoLeaf}],
           \A h \in Hosts : cache[h] # NoLeaf => cache'[h] = cache[h],
           CacheInv', ShakeInv(c)'
    PROVE  MinterInv'
<1> USE DEF Goes
<1>1. MinterTypeOK'
    BY DEF MinterInv, MinterTypeOK
<1>2. BootInv'
    BY DEF MinterInv, BootInv
<1>3. ASSUME NEW d \in Clients, d # c PROVE ShakeInv(d)'
    <2>1. shake'[d] = shake[d]
        BY <1>3 DEF MinterInv, MinterTypeOK
    <2>2. shake[d].at = "served" => cache'[ServedName(shake[d].sni)] = shake[d].leaf
        BY HostType, NoLeafAssumption DEF MinterInv, ShakeInv, LeafFor
    <2> QED
        BY <2>1, <2>2 DEF MinterInv, ShakeInv, LeafFor
<1> QED
    BY <1>1, <1>2, <1>3 DEF MinterInv

(* The same for a step that does not touch the cache.                      *)
LEMMA OneShakeOnly ==
    ASSUME MinterInv, NEW c \in Clients, NEW s \in Shakes, Goes(c, s), boot.at = "up",
           cache' = cache, ShakeInv(c)'
    PROVE  MinterInv'
<1>1. CacheInv'
    BY DEF MinterInv, CacheInv, LeafFor, Goes
<1> QED
    BY <1>1, OneShake DEF MinterInv, MinterTypeOK

-----------------------------------------------------------------------------
(* The steps                                                               *)

(* Every step of a handshake keeps the invariant.                          *)
LEMMA ShakeStep ==
    ASSUME MinterInv, NEW c \in Clients,
           Handshake(c) \/ \E h \in Asked : Ask(c, h)
    PROVE  MinterInv'
<1> DEFINE s == shake[c]
           host == ServedName(s.sni)
<1>1. s \in Shakes /\ shake \in [Clients -> Shakes]
    BY DEF MinterInv, MinterTypeOK
<1>2. ShakeInv(c)
    BY DEF MinterInv
<1>3. now \in Nat
    BY Numbers DEF MinterInv, MinterTypeOK
<1>4. ASSUME NEW h \in Asked, Ask(c, h) PROVE MinterInv'
    <2> DEFINE t == [NoShake EXCEPT !.at = "lookup", !.sni = h]
    <2>1. Goes(c, t) /\ boot.at = "up" /\ cache' = cache
        BY <1>4 DEF Ask
    <2>2. t \in Shakes
        BY DEF NoShake, Shakes
    <2>3. ShakeInv(c)'
        BY <1>1, <2>1 DEF ShakeInv, Goes, NoShake
    <2> QED
        BY <2>1, <2>2, <2>3, OneShakeOnly
<1>5. ASSUME Refuse(c), boot.at = "up", s.sni \in Asked,
             ~validLocalhostName(host) \/ ca.cert # ca.key
      PROVE  MinterInv'
    <2> DEFINE t == [shake[c] EXCEPT !.at = "refused"]
    <2>1. Goes(c, t) /\ cache' = cache
        BY <1>5 DEF Refuse
    <2>2. t \in Shakes
        BY <1>1 DEF Shakes
    <2>3. ShakeInv(c)'
        BY <1>1, <1>5, <2>1 DEF ShakeInv, Goes, Shakes
    <2> QED
        BY <1>5, <2>1, <2>2, <2>3, OneShakeOnly
<1>6. CASE Lookup(c)
    <2>1. At(c, "lookup") /\ boot.at = "up" /\ s.sni \in Asked /\ host \in Hosts
        BY <1>2, <1>6, HostType DEF Lookup, At, ShakeInv
    <2>2. CASE ~validLocalhostName(host) /\ Refuse(c)
        BY <1>5, <2>1, <2>2
    <2>3. CASE validLocalhostName(host) /\ cache[host] # NoLeaf
               /\ Goes(c, Answer(c, cache[host])) /\ UNCHANGED cache
        <3>1. LeafFor(cache[host], host, now)
            BY <2>1, <2>3 DEF MinterInv, CacheInv
        <3>2. Answer(c, cache[host]) \in Shakes
            BY <1>1, <1>3, <3>1 DEF Answer, Shakes, LeafFor
        <3>3. ShakeInv(c)'
            <4>1. /\ shake'[c].at = "served" /\ shake'[c].sni = s.sni
                  /\ shake'[c].leaf = cache[host] /\ shake'[c].when = now
                BY <1>1, <2>3 DEF Goes, Answer, Shakes
            <4> QED
                BY <1>3, <2>1, <2>3, <3>1, <4>1 DEF ShakeInv, LeafFor, Goes
        <3> QED
            BY <2>1, <2>3, <3>2, <3>3, OneShakeOnly
    <2>4. CASE validLocalhostName(host) /\ cache[host] = NoLeaf
               /\ Goes(c, [shake[c] EXCEPT !.at = "mint"]) /\ UNCHANGED cache
        <3>1. [shake[c] EXCEPT !.at = "mint"] \in Shakes
            BY <1>1 DEF Shakes
        <3>2. ShakeInv(c)'
            BY <1>1, <2>1, <2>4 DEF ShakeInv, Goes, Shakes
        <3> QED
            BY <2>1, <2>4, <3>1, <3>2, OneShakeOnly
    <2> QED
        BY <1>6, <2>2, <2>3, <2>4 DEF Lookup
<1>7. CASE Mint(c)
    <2>1. At(c, "mint") /\ boot.at = "up" /\ s.sni \in Asked /\ host \in Hosts
          /\ validLocalhostName(host)
        BY <1>2, <1>7, HostType DEF Mint, At, ShakeInv
    <2>2. CASE ca.key # ca.cert /\ Refuse(c)
        BY <1>5, <2>1, <2>2
    <2>3. CASE ca.key = ca.cert /\ UNCHANGED cache
               /\ Goes(c, [shake[c] EXCEPT !.at = "store", !.leaf = NewLeaf(c)])
        <3>1. LeafFor(NewLeaf(c), host, now)
            <4>1. ca.cert \in Pairs /\ since \in Nat /\ since <= now /\ now >= Hour
                BY <2>1, Numbers DEF MinterInv, MinterTypeOK, BootInv
            <4>2. NewLeaf(c) \in Leaves
                BY <1>3, <2>1, <4>1, Numbers DEF NewLeaf, Leaves
            <4> QED
                BY <1>3, <2>1, <2>3, <4>1, <4>2, Numbers DEF LeafFor, NewLeaf
        <3>2. [shake[c] EXCEPT !.at = "store", !.leaf = NewLeaf(c)] \in Shakes
            BY <1>1, <3>1 DEF Shakes, LeafFor
        <3>3. ShakeInv(c)'
            <4>1. /\ shake'[c].at = "store" /\ shake'[c].sni = s.sni
                  /\ shake'[c].leaf = NewLeaf(c)
                BY <1>1, <2>3 DEF Goes, Shakes
            <4> QED
                BY <2>1, <2>3, <3>1, <4>1 DEF ShakeInv, LeafFor, Goes
        <3> QED
            BY <2>1, <2>3, <3>2, <3>3, OneShakeOnly
    <2> QED
        BY <1>7, <2>2, <2>3 DEF Mint
<1>8. CASE Store(c)
    <2> DEFINE leaf == IF cache[host] # NoLeaf THEN cache[host] ELSE s.leaf
    <2>1. /\ s.at = "store" /\ boot.at = "up" /\ s.sni \in Asked /\ host \in Hosts
          /\ LeafFor(s.leaf, host, now)
        BY <1>2, <1>8, HostType DEF Store, At, ShakeInv
    <2>2. cache' = [cache EXCEPT ![host] = leaf] /\ Goes(c, Answer(c, leaf))
        BY <1>8 DEF Store
    <2>3. LeafFor(leaf, host, now)
        BY <2>1 DEF MinterInv, CacheInv
    <2>4. /\ cache' \in [Hosts -> Leaves \cup {NoLeaf}]
          /\ cache'[host] = leaf
          /\ \A h \in Hosts \ {host} : cache'[h] = cache[h]
          /\ \A h \in Hosts : cache[h] # NoLeaf => cache'[h] = cache[h]
        BY <2>1, <2>2, <2>3 DEF MinterInv, MinterTypeOK, LeafFor
    <2>5. Answer(c, leaf) \in Shakes
        BY <1>1, <1>3, <2>3 DEF Answer, Shakes, LeafFor
    <2>6. CacheInv'
        <3> SUFFICES ASSUME NEW h \in Hosts, cache'[h] # NoLeaf
                     PROVE  LeafFor(cache'[h], h, now)
            BY <2>1, <2>2 DEF CacheInv, LeafFor, Goes
        <3> QED
            BY <2>3, <2>4 DEF MinterInv, CacheInv
    <2>7. ShakeInv(c)'
        <3>1. /\ shake'[c].at = "served" /\ shake'[c].sni = s.sni
              /\ shake'[c].leaf = leaf /\ shake'[c].when = now
            BY <1>1, <2>2 DEF Goes, Answer, Shakes
        <3> QED
            BY <1>3, <2>1, <2>2, <2>3, <2>4, <3>1 DEF ShakeInv, LeafFor, Goes
    <2> QED
        BY <2>1, <2>2, <2>4, <2>5, <2>6, <2>7, OneShake
<1> QED
    BY <1>4, <1>6, <1>7, <1>8 DEF Handshake

(* Starts and stops, the passage of time and whoever writes the files keep *)
(* the invariant.                                                          *)
LEMMA DaemonStep ==
    ASSUME MinterInv,
           \/ Start \/ ReadCert \/ ReadKey \/ LoadFails \/ Stop \/ Tick
           \/ \E f \in {"cert", "key"}, x \in Contents : Rewrite(f, x)
    PROVE  MinterInv'
<1> USE DEF MinterInv, served
<1>1. now \in Nat /\ since \in Nat /\ since <= now
    BY Numbers DEF MinterTypeOK
<1>2. CASE GoDown
    <2>1. MinterTypeOK'
        BY <1>2, DownType DEF GoDown, MinterTypeOK
    <2> QED
        BY <1>2, <2>1 DEF GoDown, BootInv, CacheInv, ShakeInv, Down, EmptyCache, NoShake
<1>3. ASSUME NEW c \in Clients, boot.at # "up" PROVE shake[c].at = "idle"
    BY <1>3 DEF ShakeInv
<1>4. ASSUME boot.at # "up" PROVE \A h \in Hosts : cache[h] = NoLeaf
    BY <1>4 DEF CacheInv
<1>5. CASE Start
    <2>1. MinterTypeOK'
        BY <1>1, <1>5 DEF Start, MinterTypeOK, Down
    <2> QED
        BY <1>3, <1>4, <1>5, <2>1 DEF Start, BootInv, CacheInv, ShakeInv, Down
<1>6. CASE ReadCert
    <2>1. MinterTypeOK'
        BY <1>6 DEF ReadCert, MinterTypeOK
    <2>2. BootInv'
        BY <1>6 DEF ReadCert, MinterTypeOK, BootInv
    <2>3. CacheInv' /\ \A c \in Clients : ShakeInv(c)'
        BY <1>3, <1>4, <1>6 DEF ReadCert, CacheInv, ShakeInv
    <2> QED
        BY <2>1, <2>2, <2>3
<1>7. CASE ReadKey
    <2>1. /\ boot.cert \in Authorities \cap Constrained /\ disk.key \in Pairs
          /\ ca' = [cert |-> boot.cert, key |-> disk.key]
          /\ boot.cert \in Pairs /\ NoPair \notin {boot.cert, disk.key}
        BY <1>7, Numbers DEF ReadKey, Parses
    <2>2. boot' \in [at : {"cert", "up"}, pass : 1..2, cert : Contents \cup {NoPair}]
        BY <1>7 DEF ReadKey, MinterTypeOK
    <2>3. MinterTypeOK'
        BY <1>7, <2>1, <2>2 DEF ReadKey, MinterTypeOK
    <2>4. BootInv'
        BY <1>7, <2>1, <2>2 DEF ReadKey, MinterTypeOK, BootInv
    <2>5. CacheInv' /\ \A c \in Clients : ShakeInv(c)'
        BY <1>3, <1>4, <1>7 DEF ReadKey, CacheInv, ShakeInv
    <2> QED
        BY <2>3, <2>4, <2>5
<1>8. CASE Tick
    <2>1. now' = now + 1 /\ now + 1 \in Hour..(Hour + MaxTime)
        BY <1>8, Numbers DEF Tick, MinterTypeOK
    <2>2. MinterTypeOK'
        BY <1>1, <1>8, <2>1 DEF Tick, MinterTypeOK
    <2>3. \A leaf, h : LeafFor(leaf, h, now) => LeafFor(leaf, h, now)'
        BY <1>1, <1>8, <2>1, Numbers DEF Tick, LeafFor, Leaves
    <2>4. CacheInv'
        BY <1>8, <2>3 DEF Tick, CacheInv
    <2>5. ASSUME NEW c \in Clients PROVE ShakeInv(c)'
        <3>1. shake[c].when \in Nat
            BY DEF MinterTypeOK, Shakes
        <3> QED
            BY <1>1, <1>8, <2>1, <2>3, <3>1 DEF Tick, ShakeInv, LeafFor
    <2> QED
        BY <1>8, <2>2, <2>4, <2>5 DEF Tick, BootInv
<1>9. ASSUME NEW f \in {"cert", "key"}, NEW x \in Contents, Rewrite(f, x)
      PROVE  MinterInv'
    <2>1. MinterTypeOK'
        BY <1>9, Numbers DEF Rewrite, MinterTypeOK
    <2>2. BootInv'
        BY <1>9 DEF Rewrite, BootInv
    <2> QED
        BY <1>9, <2>1, <2>2 DEF Rewrite, CacheInv, ShakeInv, LeafFor
<1> QED
    BY <1>2, <1>5, <1>6, <1>7, <1>8, <1>9 DEF LoadFails, Stop

(* Every step keeps the invariant.                                         *)
LEMMA MinterStep == MinterInv /\ [Next]_vars => MinterInv'
<1>1. CASE UNCHANGED vars
    BY <1>1 DEF vars, MinterInv, MinterTypeOK, BootInv, CacheInv, ShakeInv, LeafFor
<1> QED
    BY <1>1, ShakeStep, DaemonStep DEF Next

-----------------------------------------------------------------------------
(* Theorems                                                                *)

(* The invariant holds in every behaviour.                                 *)
LEMMA MinterAlways == MinterSpec => []MinterInv
BY InitMinter, MinterStep, PTL DEF MinterSpec

(* The types of the minter's state: in particular, that a daemon which is  *)
(* up holds a certificate and a key.                                       *)
THEOREM MinterTypeCorrect == MinterSpec => []MinterTypeOK
BY MinterAlways, PTL DEF MinterInv

(* However many handshakes race, the clients of one name share one leaf:   *)
(* what is served is the cached leaf, and a cached leaf stays.             *)
THEOREM OneLeafAlways == MinterSpec => []OneLeafPerHost
<1>1. MinterInv => OneLeafPerHost
    BY DEF MinterInv, ShakeInv, OneLeafPerHost
<1> QED
    BY <1>1, MinterAlways, PTL

(* A name of one label.                                                    *)
LEMMA OneLabel ==
    ASSUME NEW l
    PROVE  /\ <<l>> = [i \in 1..1 |-> l]
           /\ DOMAIN <<l>> = 1..1
           /\ <<l>>[1] = l
<1>1. <<l>> = [i \in 1..1 |-> l]
    OBVIOUS
<1>2. DOMAIN <<l>> = 1..1
    OBVIOUS
<1>3. <<l>>[1] = l
    OBVIOUS
<1> QED
    BY <1>1, <1>2, <1>3

(* ToLower of a name is the empty name only if the name is.                *)
LEMMA LoweredEmpty ==
    ASSUME NEW h \in Asked, Lowered(h) = NoName
    PROVE  h = NoName
<1>1. h \in Seq(Labels)
    BY MinterAssumption
<1>2. DOMAIN h = 1..Len(h) /\ Len(h) \in Nat /\ \A i \in 1..Len(h) : h[i] \in Labels
    BY <1>1
<1>3. DOMAIN Lowered(h) = 1..Len(h) /\ \A i \in 1..Len(h) : Lowered(h)[i] = Lower[h[i]]
    BY <1>2 DEF Lowered
<1>4. DOMAIN Lowered(h) = 1..1 /\ Lowered(h)[1] = ""
    BY OneLabel DEF NoName
<1>5. 1..Len(h) = 1..1
    BY <1>3, <1>4
<1>6. Len(h) = 1
    BY <1>2, <1>5
<1>7. h[1] = ""
    <2>1. 1 \in 1..Len(h)
        BY <1>6
    <2>2. h[1] \in Labels /\ Lower[h[1]] = ""
        BY <2>1, <1>2, <1>3, <1>4
    <2> QED
        BY <2>2, NamesAssumption
<1>8. h = <<h[1]>>
    BY <1>1, <1>6
<1> QED
    BY <1>7, <1>8 DEF NoName

(* A client is served a leaf for the name it asked for, a valid one, by a  *)
(* constrained CA that the daemon has the key of.                          *)
THEOREM RightLeafAlways == MinterSpec => []RightLeaf
<1>1. ASSUME MinterInv, NEW c \in Clients, shake[c].at = "served"
      PROVE  LET leaf == shake[c].leaf IN
             /\ \/ leaf.host = Lowered(shake[c].sni)
                \/ leaf.host = Localhost /\ shake[c].sni = NoName
             /\ validLocalhostName(leaf.host)
             /\ leaf.by \in Authorities \cap Constrained
             /\ ca = [cert |-> leaf.by, key |-> leaf.by]
    <2>1. /\ boot.at = "up" /\ shake[c].sni \in Asked
          /\ LeafFor(shake[c].leaf, ServedName(shake[c].sni), shake[c].when)
        BY <1>1 DEF MinterInv, ShakeInv
    <2>2. \/ shake[c].leaf.host = Lowered(shake[c].sni)
          \/ shake[c].leaf.host = Localhost /\ shake[c].sni = NoName
        BY <2>1, LoweredEmpty DEF LeafFor, ServedName
    <2>3. ca.cert \in Authorities \cap Constrained
        BY <1>1, <2>1 DEF MinterInv, BootInv
    <2>4. ca = [cert |-> shake[c].leaf.by, key |-> shake[c].leaf.by]
        BY <1>1, <2>1 DEF MinterInv, MinterTypeOK, LeafFor
    <2> QED
        BY <2>1, <2>2, <2>3, <2>4 DEF LeafFor
<1>2. MinterInv => RightLeaf
    BY <1>1 DEF RightLeaf
<1> QED
    BY <1>2, MinterAlways, PTL

(* In the first year of a daemon, less an hour, every leaf that is served  *)
(* is valid for a client whose clock is off by up to an hour.              *)
THEOREM ServedAlwaysValid == MinterSpec => []ServedValid
<1>1. ASSUME MinterInv, NEW c \in Clients, shake[c].at = "served",
             shake[c].when - since <= Year - Hour,
             NEW clock \in (shake[c].when - Hour)..(shake[c].when + Hour)
      PROVE  shake[c].leaf.from <= clock /\ clock <= shake[c].leaf.to
    <2>1. LeafFor(shake[c].leaf, ServedName(shake[c].sni), shake[c].when)
        BY <1>1 DEF MinterInv, ShakeInv
    <2>2. /\ shake[c].when \in Nat /\ since \in Nat
          /\ shake[c].leaf.from \in Nat /\ shake[c].leaf.to \in Nat
        BY <1>1, <2>1 DEF MinterInv, MinterTypeOK, Shakes, LeafFor, Leaves
    <2> QED
        BY <1>1, <2>1, <2>2, Numbers DEF LeafFor
<1>2. MinterInv => ServedValid
    BY <1>1 DEF ServedValid
<1> QED
    BY <1>2, MinterAlways, PTL

(* A client with a good server name, or none, is only turned away when the *)
(* daemon has a certificate and a key of different pairs, which it has     *)
(* only if its files were so or were written while it read them.           *)
THEOREM RefusedAlwaysRightly == MinterSpec => []RefusedRightly
<1>1. ASSUME MinterInv, NEW c \in Clients, shake[c].at = "refused",
             shake[c].sni = NoName \/ validLocalhostName(Lowered(shake[c].sni))
      PROVE  ~whole /\ ca.cert # ca.key
    <2>1. Lowered(NoName) = NoName
        <3>1. DOMAIN NoName = 1..1
            BY OneLabel DEF NoName
        <3>2. Lower[""] = ""
            BY NamesAssumption
        <3>3. NoName = [i \in 1..1 |-> ""]
            BY OneLabel DEF NoName
        <3>4. Lowered(NoName) = [i \in 1..1 |-> Lower[""]]
            BY <3>1, <3>3 DEF Lowered
        <3> QED
            BY <3>2, <3>4, <3>3
    <2>2. validLocalhostName(ServedName(shake[c].sni))
        BY <1>1, <2>1, HostType DEF ServedName
    <2> QED
        BY <1>1, <2>2 DEF MinterInv, ShakeInv, BootInv
<1>2. MinterInv => RefusedRightly
    BY <1>1 DEF RefusedRightly
<1> QED
    BY <1>2, MinterAlways, PTL
=============================================================================
