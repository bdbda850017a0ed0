-------------------------- MODULE DelegationProofs --------------------------
(***************************************************************************)
(* Proofs about Delegation, for any daemons, services, ports, names and    *)
(* registries.                                                             *)
(***************************************************************************)
EXTENDS Delegation, SequenceTheorems, TLAPS

OnTheWay == req.at \in {"daemon", "page"}

(* A registry has what is offered, and one entry of a kind for a name.     *)
RegInv ==
    \A d \in Daemons :
        /\ reg[d] \subseteq Offers[d]
        /\ \A e, f \in reg[d] : e.name = f.name /\ e.kind = f.kind => e = f

(* A page is for localhost.                                                *)
PageInv == req.at = "page" => Host = Localhost

(* Where delegations alone have led a request: it has lost its labels down *)
(* to the one of the user whose daemon it is at, unless its host was       *)
(* cleaned and leads nowhere.                                              *)
TypedInv ==
    OnTheWay /\ (\A g \in req.routed : g.entry.kind = "user") =>
        \/ ~UnderTLD(Host) /\ Host # Localhost
        \/ Host = Lowered(req.typed) /\ req.daemon = req.door
        \/ \E i \in 1..(Len(req.typed) - 1) :
            /\ Len(Host) = i /\ Host[i] = TLD
            /\ req.daemon = Lower[req.typed[i]]
            /\ \A j \in 1..(i - 1) : Host[j] = Lower[req.typed[j]]

-----------------------------------------------------------------------------
(* What a request shows of how it came                                     *)

(* The port that a browser names.                                          *)
PortOf(d, s) == IF Ports[d][s] = Standard[s] THEN NoPort ELSE Ports[d][s]

(* Daemon d delegates to that of user u, under the names that were asked.  *)
Delegates(d, u) ==
    \E e \in reg[d] :
        /\ e.kind = "user" /\ e.name = u /\ e.to = u /\ ~e.clean
        /\ d \in {Root, u}

IsApex(h, u) == Len(h) = 2 /\ h[1] = u /\ h[2] = TLD
IsBelow(h, l, u) == Len(h) = 3 /\ h[1] = l /\ h[2] = u /\ h[3] = TLD

DirectInv ==
    OnTheWay /\ req.hops = 0 =>
        /\ req.daemon = req.door /\ req.host = req.typed
        /\ req.port = PortOf(req.door, req.scheme)
        /\ req.xproto = "none" /\ req.xhost = <<>>

DelegatedInv ==
    OnTheWay /\ req.hops = 1 /\ Host = Localhost =>
        /\ Delegates(req.door, req.daemon)
        /\ req.xproto \in Schemes /\ req.xport = PortOf(req.door, req.xproto)
        /\ req.xhost = req.typed /\ IsApex(Lowered(req.typed), req.daemon)

(* The entry of a link is the only one of its name on the page.            *)
Unique(g) ==
    /\ g.entry \in Listed(g.at) /\ g.entry.name \in ValidNames
    /\ \A f \in Listed(g.at) : f.name = g.entry.name => f = g.entry

(* A request that has its goal before it, or a delegation and its goal.    *)
OnCourse(d, h, g) ==
    \/ d = g.at /\ IsApex(h, g.entry.name)
    \/ Delegates(d, g.at) /\ IsBelow(h, g.entry.name, g.at)

(* A link that was followed leads to its entry at once or by a delegation. *)
GoalInv ==
    req.goal # NoGoal =>
        /\ req.at # "lost"
        /\ req.goal \notin req.routed =>
            /\ req.at \in {"daemon", "500", "502"}
            /\ Unique(req.goal)
            /\ OnCourse(req.daemon, Host, req.goal)

DelegationInv ==
    /\ DelegationTypeOK /\ RegInv /\ PageInv /\ TypedInv
    /\ DirectInv /\ DelegatedInv /\ GoalInv

-----------------------------------------------------------------------------
(* Names                                                                   *)

(* Lower case keeps the length of a name, and lower case.                  *)
LEMMA LowerName ==
    ASSUME NEW h \in Seq(Labels)
    PROVE  /\ Lowered(h) \in Seq(Labels) /\ Len(Lowered(h)) = Len(h)
           /\ \A i \in 1..Len(h) : Lowered(h)[i] = Lower[h[i]]
           /\ Lowered(Lowered(h)) = Lowered(h)
<1>1. DOMAIN h = 1..Len(h) /\ Len(h) \in Nat /\ \A i \in 1..Len(h) : h[i] \in Labels
    OBVIOUS
<1>2. /\ Lowered(h) = [i \in 1..Len(h) |-> Lower[h[i]]]
      /\ \A i \in 1..Len(h) : Lower[h[i]] \in Labels
    BY <1>1, NamesAssumption DEF Lowered
<1>3. Lowered(h) \in Seq(Labels) /\ Len(Lowered(h)) = Len(h)
    BY <1>1, <1>2
<1>4. DOMAIN Lowered(h) = 1..Len(h)
    BY <1>2
<1>5. Lowered(Lowered(h)) = [i \in 1..Len(h) |-> Lower[Lower[h[i]]]]
    BY <1>2, <1>4 DEF Lowered
<1>6. \A i \in 1..Len(h) : Lower[Lower[h[i]]] = Lower[h[i]]
    BY <1>1, NamesAssumption
<1> QED
    BY <1>2, <1>3, <1>5, <1>6

(* A name with labels is not empty.                                        *)
LEMMA NotEmpty ==
    ASSUME NEW h \in Seq(Labels), Len(h) > 0
    PROVE  h # <<>>
<1>1. Len(<<>>) = 0
    OBVIOUS
<1>2. SUFFICES ASSUME h = <<>> PROVE FALSE
    OBVIOUS
<1>3. Len(h) = 0
    BY <1>1, <1>2, Zenon
<1> QED
    BY <1>3

(* Names of one and two labels.                                            *)
LEMMA ShortNames ==
    ASSUME NEW l \in Labels, NEW m \in Labels
    PROVE  /\ <<l>> \in Seq(Labels) /\ Len(<<l>>) = 1 /\ <<l>>[1] = l
           /\ <<l, m>> \in Seq(Labels) /\ Len(<<l, m>>) = 2
           /\ <<l, m>>[1] = l /\ <<l, m>>[2] = m
OBVIOUS

(* What the tuples are that stand for names.                               *)
LEMMA Tuples ==
    /\ Localhost \in Seq(Labels) /\ Localhost # <<>>
    /\ Len(Localhost) = 1 /\ Localhost[1] = TLD
    /\ Lower[TLD] = TLD /\ TLD \in Labels /\ TLD # ""
    /\ \A h \in Seq(Labels) : Len(h) = 1 /\ h[1] = TLD <=> h = Localhost
    /\ \A l \in Labels : /\ <<l, TLD>> \in Seq(Labels) /\ Len(<<l, TLD>>) = 2
                         /\ <<l, TLD>>[1] = l /\ <<l, TLD>>[2] = TLD
<1>1. TLD \in Labels /\ Lower[TLD] = TLD /\ TLD # ""
    BY NamesAssumption
<1>2. Localhost \in Seq(Labels) /\ Len(Localhost) = 1 /\ Localhost[1] = TLD
    BY <1>1, ShortNames, Zenon DEF Localhost
<1>3. ASSUME NEW h \in Seq(Labels), Len(h) = 1, h[1] = TLD PROVE h = Localhost
    BY <1>2, <1>3, SeqEqual
<1>4. ASSUME NEW l \in Labels
      PROVE  /\ <<l, TLD>> \in Seq(Labels) /\ Len(<<l, TLD>>) = 2
             /\ <<l, TLD>>[1] = l /\ <<l, TLD>>[2] = TLD
    BY <1>1, <1>4, ShortNames, Zenon
<1>5. Localhost # <<>>
    BY DEF Localhost
<1> QED
    BY <1>1, <1>2, <1>3, <1>4, <1>5

(* A link puts a label before a name.                                      *)
LEMMA LinkName ==
    ASSUME NEW l \in Labels, NEW h \in Seq(Labels)
    PROVE  /\ <<l>> \o h \in Seq(Labels) /\ Len(<<l>> \o h) = Len(h) + 1
           /\ (<<l>> \o h)[1] = l
           /\ \A i \in 1..Len(h) : (<<l>> \o h)[i + 1] = h[i]
<1>1. <<l>> \in Seq(Labels) /\ Len(<<l>>) = 1 /\ <<l>>[1] = l
    OBVIOUS
<1> QED
    BY <1>1, ConcatProperties

(* A label is put behind a name.                                           *)
LEMMA Suffixed ==
    ASSUME NEW s \in Seq(Labels), NEW t \in Seq(Labels), Len(t) = 1
    PROVE  /\ s \o t \in Seq(Labels) /\ Len(s \o t) = Len(s) + 1
           /\ (s \o t)[Len(s) + 1] = t[1]
           /\ \A i \in 1..Len(s) : (s \o t)[i] = s[i]
<1>1. Len(s) \in Nat
    OBVIOUS
<1>2. /\ s \o t \in Seq(Labels) /\ Len(s \o t) = Len(s) + Len(t)
      /\ \A i \in 1..(Len(s) + Len(t)) :
            (s \o t)[i] = IF i <= Len(s) THEN s[i] ELSE t[i - Len(s)]
    BY ConcatProperties
<1> QED
    BY <1>1, <1>2

(* All but the last two labels of a name.                                  *)
LEMMA Shortened ==
    ASSUME NEW h \in Seq(Labels), Len(h) > 2
    PROVE  \E s \in Seq(Labels) :
            /\ s = SubSeq(h, 1, Len(h) - 2)
            /\ Len(s) = Len(h) - 2 /\ \A i \in 1..(Len(h) - 2) : s[i] = h[i]
<1>1. Len(h) \in Nat /\ Len(h) - 2 \in Int /\ Len(h) - 2 > 0
    OBVIOUS
<1>2. SubSeq(h, 1, Len(h) - 2) \in Seq(Labels)
    BY <1>1
<1>3. /\ Len(SubSeq(h, 1, Len(h) - 2)) = Len(h) - 2
      /\ \A i \in 1..(Len(h) - 2) : SubSeq(h, 1, Len(h) - 2)[i] = h[i]
    BY <1>1
<1> QED
    BY <1>2, <1>3

(* userBackendHost drops the label before the last one.                    *)
LEMMA BackendName ==
    ASSUME NEW h \in Seq(Labels), Len(h) > 1
    PROVE  \E b \in Seq(Labels) :
            /\ b = userBackendHost(h)
            /\ Len(b) = Len(h) - 1 /\ b[Len(h) - 1] = TLD
            /\ \A i \in 1..(Len(h) - 2) : b[i] = h[i]
<1>1. Len(h) \in Nat
    OBVIOUS
<1>2. CASE Len(h) = 2
    <2>1. userBackendHost(h) = Localhost
        BY <1>2 DEF userBackendHost
    <2>2. PICK t \in Seq(Labels) : t = Localhost /\ Len(t) = 1 /\ t[1] = TLD
        BY Tuples
    <2>3. /\ Len(t) = Len(h) - 1 /\ t[Len(h) - 1] = TLD
          /\ \A i \in 1..(Len(h) - 2) : t[i] = h[i]
        BY <1>2, <2>2
    <2> QED
        BY <2>1, <2>2, <2>3, Zenon
<1>3. CASE Len(h) > 2
    <2>1. PICK s \in Seq(Labels) :
            /\ s = SubSeq(h, 1, Len(h) - 2)
            /\ Len(s) = Len(h) - 2 /\ \A i \in 1..(Len(h) - 2) : s[i] = h[i]
        BY <1>3, Shortened
    <2>2. PICK t \in Seq(Labels) : t = Localhost /\ Len(t) = 1 /\ t[1] = TLD
        BY Tuples
    <2>3. userBackendHost(h) = s \o t
        BY <1>3, <2>1, <2>2 DEF userBackendHost
    <2>4. PICK b \in Seq(Labels) :
            /\ b = s \o t /\ Len(b) = Len(s) + 1 /\ b[Len(s) + 1] = t[1]
            /\ \A i \in 1..Len(s) : b[i] = s[i]
        BY <2>2, Suffixed
    <2>5. Len(s) + 1 = Len(h) - 1 /\ Len(s) = Len(h) - 2
        BY <1>1, <2>1
    <2>6. /\ Len(b) = Len(h) - 1 /\ b[Len(h) - 1] = TLD
          /\ \A i \in 1..(Len(h) - 2) : b[i] = h[i]
        <3>1. Len(b) = Len(h) - 1 /\ b[Len(h) - 1] = TLD
            BY <2>2, <2>4, <2>5, Zenon
        <3>2. \A i \in 1..(Len(h) - 2) : b[i] = h[i]
            BY <2>1, <2>4, <2>5, Zenon
        <3> QED
            BY <3>1, <3>2
    <2> QED
        BY <2>3, <2>4, <2>6, Zenon
<1>4. Len(h) = 2 \/ Len(h) > 2
    BY <1>1
<1> QED
    BY <1>2, <1>3, <1>4, Zenon

-----------------------------------------------------------------------------
(* What steps do to the request                                            *)

(* The fields of a request.                                                *)
LEMMA Fields ==
    ASSUME DelegationTypeOK
    PROVE  /\ req.daemon \in Daemons /\ req.door \in Daemons
           /\ req.typed \in Seq(Labels) /\ req.host \in Seq(Labels) /\ req.host # <<>>
           /\ req.scheme \in Schemes /\ req.port \in Nat
           /\ req.xproto \in Schemes \cup {"none"} /\ req.xhost \in Seq(Labels)
           /\ req.xport \in Nat /\ req.routed \in SUBSET Goals /\ req.hops \in 0..3
           /\ req.goal \in Goals \cup {NoGoal}
           /\ reg[req.daemon] \subseteq Entries
           /\ Host \in Seq(Labels) /\ Len(Host) = Len(req.host) /\ Len(Host) \in Nat \ {0}
           /\ \A i \in 1..Len(Host) : Host[i] \in Labels
<1>1. /\ req.daemon \in Daemons /\ req.door \in Daemons
      /\ req.typed \in Seq(Labels) /\ req.host \in Seq(Labels) /\ req.host # <<>>
      /\ req.scheme \in Schemes /\ req.port \in Nat
      /\ req.xproto \in Schemes \cup {"none"} /\ req.xhost \in Seq(Labels)
      /\ req.xport \in Nat /\ req.routed \in SUBSET Goals /\ req.hops \in 0..3
      /\ req.goal \in Goals \cup {NoGoal}
    BY DEF DelegationTypeOK, Requests
<1>2. reg[req.daemon] \subseteq Entries
    BY <1>1 DEF DelegationTypeOK
<1>3. PICK h \in Seq(Labels) : h = req.host
    BY <1>1
<1>4. PICK l \in Seq(Labels) : l = Lowered(h) /\ Len(l) = Len(h)
    BY LowerName, Zenon
<1>5. Len(h) \in Nat \ {0} /\ \A i \in 1..Len(l) : l[i] \in Labels
    BY <1>1, <1>3
<1> QED
    BY <1>1, <1>2, <1>3, <1>4, <1>5, Zenon DEF Host

(* A browser connects.                                                     *)
LEMMA ArrivesStep ==
    ASSUME DelegationTypeOK, NEW d \in Daemons, NEW s \in Schemes,
           NEW h \in Seq(Labels), h # <<>>, NEW g \in Goals \cup {NoGoal},
           Becomes(Arrives(d, s, h, g))
    PROVE  /\ DelegationTypeOK' /\ UNCHANGED reg
           /\ req'.at = "daemon" /\ req'.daemon = d /\ req'.door = d
           /\ req'.typed = h /\ req'.host = h
           /\ req'.scheme = s /\ req'.port = PortOf(d, s)
           /\ req'.xproto = "none" /\ req'.xhost = <<>>
           /\ req'.routed = {} /\ req'.hops = 0 /\ req'.goal = g
<1>1. <<>> \in Seq(Labels) /\ NoPort \in Nat
    BY DEF NoPort
<1>2. PortOf(d, s) \in Nat
    BY DelegationAssumption DEF PortOf, NoPort
<1>3. req' = [at |-> "daemon", daemon |-> d, door |-> d, typed |-> h,
              scheme |-> s, host |-> h, port |-> PortOf(d, s),
              xproto |-> "none", xhost |-> <<>>, xport |-> NoPort,
              routed |-> {}, hops |-> 0, goal |-> g]
    BY DEF Becomes, Arrives, Blank, PortOf
<1>4. req' \in Requests
    BY <1>1, <1>2, <1>3 DEF Requests
<1> QED
    BY <1>3, <1>4 DEF DelegationTypeOK, Becomes

(* A daemon or a link gives up, or a welcome page is found.                *)
LEMMA EndsStep ==
    ASSUME DelegationTypeOK, NEW how \in {"page", "404", "500", "502", "lost"},
           NEW rs \in SUBSET Goals, NEW g \in Goals \cup {NoGoal},
           Becomes([req EXCEPT !.at = how, !.routed = rs, !.goal = g])
    PROVE  /\ DelegationTypeOK' /\ UNCHANGED reg
           /\ req'.at = how /\ req'.routed = rs /\ req'.goal = g
           /\ req'.daemon = req.daemon /\ req'.door = req.door
           /\ req'.typed = req.typed /\ req'.host = req.host
           /\ req'.scheme = req.scheme /\ req'.port = req.port
           /\ req'.xproto = req.xproto /\ req'.xhost = req.xhost
           /\ req'.xport = req.xport /\ req'.hops = req.hops
<1>1. req \in Requests /\ req' = [req EXCEPT !.at = how, !.routed = rs, !.goal = g]
    BY DEF DelegationTypeOK, Becomes
<1>2. req' \in Requests
    BY <1>1 DEF Requests
<1> QED
    BY <1>1, <1>2 DEF DelegationTypeOK, Becomes, Requests

(* An end that changes nothing else.                                       *)
LEMMA PlainEnd ==
    ASSUME DelegationTypeOK, NEW how \in {"page", "404", "500", "502"}, Ends(how)
    PROVE  /\ DelegationTypeOK' /\ UNCHANGED reg
           /\ req'.at = how /\ req'.routed = req.routed /\ req'.goal = req.goal
           /\ req'.daemon = req.daemon /\ req'.door = req.door
           /\ req'.typed = req.typed /\ req'.host = req.host
           /\ req'.scheme = req.scheme /\ req'.port = req.port
           /\ req'.xproto = req.xproto /\ req'.xhost = req.xhost
           /\ req'.xport = req.xport /\ req'.hops = req.hops
<1>1. Becomes([req EXCEPT !.at = how, !.routed = req.routed, !.goal = req.goal])
    BY DEF DelegationTypeOK, Ends, Requests
<1>2. /\ how \in {"page", "404", "500", "502", "lost"}
      /\ req.routed \in SUBSET Goals /\ req.goal \in Goals \cup {NoGoal}
    BY Fields
<1> HIDE DEF Becomes
<1> QED
    BY <1>1, <1>2, EndsStep, Zenon

(* An entry that a daemon has.                                             *)
LEMMA TargetEntry ==
    ASSUME DelegationTypeOK, RegInv, NEW e \in Target
    PROVE  /\ e \in reg[req.daemon] /\ e \in Offers[req.daemon] /\ e \in Entries
           /\ Routed(e) \in Goals
           /\ UnderTLD(Host) /\ Len(Host) > 1
           /\ e.name # ReservedName
           /\ e.name \in Labels
           /\ e.name = Last
           /\ e.kind = "user" => /\ e.name \in Users /\ e.name \in ValidNames
                                 /\ e.by = "unix" /\ e.scheme = "http"
           /\ Len(Host) > 2 => e.kind = "user"
<1>1. req.daemon \in Daemons
    BY Fields
<1>2. e \in reg[req.daemon] /\ UnderTLD(Host) /\ e.name = Last
      /\ (Len(Host) > 2 => e.kind = "user")
    <2>1. UnderTLD(Host)
        <3>1. ~UnderTLD(Host) => Target = {}
            BY Zenon DEF Target
        <3> QED
            BY <3>1
    <2>2. CASE Len(Host) > 2
        <3>1. e \in Found("user", Last)
            BY <2>1, <2>2 DEF Target
        <3> QED
            BY <2>1, <3>1, Zenon DEF Found
    <2>3. CASE ~(Len(Host) > 2)
        <3>1. e \in Named(Last)
            BY <2>1, <2>3 DEF Target
        <3>2. \E k \in {"relay", "socket", "user"} : e \in Found(k, Last)
            BY <3>1, Zenon DEF Named
        <3> QED
            BY <2>1, <2>3, <3>2, Zenon DEF Found
    <2> QED
        BY <2>2, <2>3
<1>3. e \in Offers[req.daemon] /\ e \in Entries
    BY <1>1, <1>2 DEF RegInv, DelegationTypeOK
<1>4. /\ e.name # ReservedName /\ e.name \in Labels
      /\ e.kind = "user" => /\ e.name \in Users /\ e.name \in ValidNames
                            /\ e.by = "unix" /\ e.scheme = "http"
    BY <1>1, <1>3, DelegationAssumption DEF Entries
<1>5. Routed(e) \in Goals
    BY <1>1, <1>3 DEF Routed, Goals
<1> QED
    BY <1>2, <1>3, <1>4, <1>5, Zenon DEF UnderTLD

(* What a proxy makes of a host.                                           *)
ProxyHost(e) ==
    CASE e.kind = "socket" -> req.host
      [] e.kind = "relay"  -> IF e.clean THEN CleanHost(e) ELSE <<e.name, TLD>>
      [] e.kind = "user"   -> IF e.clean THEN CleanHost(e) ELSE userBackendHost(Host)

(* Addresses are no names, and lead nowhere.                               *)
LEMMA CleanName ==
    ASSUME NEW e
    PROVE  /\ CleanHost(e) \in Seq(Labels) /\ Len(CleanHost(e)) > 0
           /\ ~UnderTLD(Lowered(CleanHost(e))) /\ Lowered(CleanHost(e)) # Localhost
<1>1. /\ "unix" \in Labels /\ "127" \in Labels /\ "0" \in Labels /\ "1" \in Labels
      /\ Lower["unix"] = "unix" /\ Lower["127"] = "127" /\ Lower["0"] = "0" /\ Lower["1"] = "1"
    BY NamesAssumption, DelegationAssumption
<1>2. PICK t \in Seq(Labels) : t = <<"unix">> /\ Len(t) = 1 /\ t[1] = "unix"
    BY <1>1, ShortNames, Zenon
<1>3. PICK n \in Seq(Labels) : n = <<"127", "0", "0", "1">> /\ Len(n) = 4 /\ n[4] = "1"
    <2>1. /\ <<"127", "0", "0", "1">> \in Seq(Labels)
          /\ Len(<<"127", "0", "0", "1">>) = 4 /\ <<"127", "0", "0", "1">>[4] = "1"
        BY <1>1
    <2> QED
        BY <2>1, Zenon
<1>4. PICK l \in Seq(Labels) : l = Lowered(t) /\ Len(l) = 1 /\ l[1] = "unix"
    <2>1. 1 \in 1..Len(t)
        BY <1>2
    <2> QED
        BY <1>1, <1>2, <2>1, LowerName, Zenon
<1>5. PICK m \in Seq(Labels) : m = Lowered(n) /\ Len(m) = 4 /\ m[4] = "1"
    <2>1. 4 \in 1..Len(n)
        BY <1>3
    <2>2. PICK m \in Seq(Labels) :
            m = Lowered(n) /\ Len(m) = Len(n) /\ \A i \in 1..Len(n) : m[i] = Lower[n[i]]
        BY LowerName, Zenon
    <2> QED
        BY <1>1, <1>3, <2>1, <2>2
<1>6. ~UnderTLD(l) /\ l # Localhost
    <2>1. ~UnderTLD(l)
        BY <1>4 DEF UnderTLD
    <2>2. "unix" # TLD
        BY DEF TLD
    <2> QED
        BY <1>4, <2>1, <2>2, Tuples, Zenon
<1>7. ~UnderTLD(m) /\ m # Localhost
    <2>1. ~UnderTLD(m)
        BY <1>5 DEF UnderTLD, TLD
    <2>2. 4 # 1
        OBVIOUS
    <2> QED
        BY <1>5, <2>1, <2>2, Tuples, Zenon
<1>8. CASE e.by = "unix"
    <2>1. CleanHost(e) = t
        BY <1>2, <1>8 DEF CleanHost
    <2> QED
        BY <1>2, <1>4, <1>6, <2>1
<1>9. CASE e.by # "unix"
    <2>1. CleanHost(e) = n
        BY <1>3, <1>9 DEF CleanHost
    <2> QED
        BY <1>3, <1>5, <1>7, <2>1
<1> QED
    BY <1>8, <1>9

(* The host that a proxy makes is the name of a service, an address, or    *)
(* what was asked without the label of the user.                           *)
LEMMA ProxyName ==
    ASSUME DelegationTypeOK, RegInv, NEW e \in Target
    PROVE  /\ ProxyHost(e) \in Seq(Labels) /\ ProxyHost(e) # <<>>
           /\ e.kind = "socket" =>
                /\ Lowered(ProxyHost(e)) = Host
           /\ e.kind # "socket" /\ e.clean =>
                ~UnderTLD(Lowered(ProxyHost(e))) /\ Lowered(ProxyHost(e)) # Localhost
           /\ e.kind = "relay" /\ ~e.clean => Lowered(ProxyHost(e)) # Localhost
           /\ e.kind = "user" /\ ~e.clean =>
                \E b \in Seq(Labels) :
                    /\ b = Lowered(ProxyHost(e))
                    /\ Len(b) = Len(Host) - 1 /\ b[Len(Host) - 1] = TLD
                    /\ \A i \in 1..(Len(Host) - 2) : b[i] = Host[i]
<1>1. e.kind \in {"relay", "user", "socket"} /\ e.clean \in BOOLEAN /\ e.name \in Labels
    BY TargetEntry DEF Entries
<1>2. CASE e.kind = "socket"
    <2>1. ProxyHost(e) = req.host
        BY <1>2 DEF ProxyHost
    <2> QED
        BY <1>2, <2>1, Fields DEF Host
<1>3. CASE e.kind # "socket" /\ e.clean
    <2>1. ProxyHost(e) = CleanHost(e)
        BY <1>1, <1>3 DEF ProxyHost
    <2>2. PICK c \in Seq(Labels) :
            /\ c = CleanHost(e) /\ Len(c) > 0
            /\ ~UnderTLD(Lowered(c)) /\ Lowered(c) # Localhost
        BY CleanName, Zenon
    <2>3. c # <<>>
        BY <2>2
    <2> QED
        BY <1>3, <2>1, <2>2, <2>3
<1>4. CASE e.kind = "relay" /\ ~e.clean
    <2>1. ProxyHost(e) = <<e.name, TLD>>
        BY <1>4 DEF ProxyHost
    <2>2. PICK t \in Seq(Labels) : t = <<e.name, TLD>> /\ Len(t) = 2
        BY <1>1, Tuples, Zenon
    <2>3. PICK l \in Seq(Labels) : l = Lowered(t) /\ Len(l) = Len(t)
        BY LowerName, Zenon
    <2>4. t # <<>> /\ Len(l) # 1
        BY <2>2, <2>3
    <2>5. l # Localhost
        BY <2>4, Tuples, Zenon
    <2> QED
        BY <1>4, <2>1, <2>2, <2>3, <2>4, <2>5
<1>5. CASE e.kind = "user" /\ ~e.clean
    <2>1. ProxyHost(e) = userBackendHost(Host)
        BY <1>5 DEF ProxyHost
    <2>2. PICK h \in Seq(Labels) :
            /\ h = Host /\ Len(h) > 1 /\ Lowered(h) = h /\ Len(h) \in Nat
            /\ \A i \in 1..Len(h) : Lower[h[i]] = h[i]
        <3>1. PICK k \in Seq(Labels) : k = req.host
            BY Fields
        <3>2. PICK h \in Seq(Labels) :
                /\ h = Lowered(k) /\ Lowered(h) = h
            BY LowerName, Zenon
        <3>3. /\ Len(Lowered(h)) = Len(h)
              /\ \A i \in 1..Len(h) : Lowered(h)[i] = Lower[h[i]]
            BY LowerName, Zenon
        <3>4. h = Host
            BY <3>1, <3>2, Zenon DEF Host
        <3> QED
            BY <3>2, <3>3, <3>4, Fields, TargetEntry, Zenon
    <2>3. PICK b \in Seq(Labels) :
            /\ b = userBackendHost(h) /\ Len(b) = Len(h) - 1 /\ b[Len(h) - 1] = TLD
            /\ \A i \in 1..(Len(h) - 2) : b[i] = h[i]
        BY <2>2, BackendName, Zenon
    <2>4. PICK l \in Seq(Labels) :
            /\ l = Lowered(b) /\ Len(l) = Len(b)
            /\ \A i \in 1..Len(b) : l[i] = Lower[b[i]]
        BY LowerName, Zenon
    <2>5. Lower[TLD] = TLD
        BY NamesAssumption
    <2>6. l[Len(h) - 1] = TLD
        BY <2>2, <2>3, <2>4, <2>5
    <2>7. \A i \in 1..(Len(h) - 2) : l[i] = h[i]
        BY <2>2, <2>3, <2>4
    <2>8. Len(l) = Len(h) - 1 /\ b # <<>>
        BY <2>2, <2>3, <2>4
    <2> QED
        BY <1>5, <2>1, <2>2, <2>3, <2>4, <2>6, <2>7, <2>8, Zenon
<1> QED
    BY <1>1, <1>2, <1>3, <1>4, <1>5, Zenon

(* What is dialed is asked with the host that the proxy makes.             *)
LEMMA ProxyStep ==
    ASSUME DelegationTypeOK, RegInv, NEW e \in Target,
           Becomes([Rewritten(e) EXCEPT
                      !.at = IF e.to \in Daemons THEN "daemon" ELSE "service",
                      !.daemon = IF e.to \in Daemons THEN e.to ELSE @,
                      !.routed = @ \cup {Routed(e)},
                      !.hops = IF @ < 2 THEN @ + 1 ELSE 5 - @])
    PROVE  /\ DelegationTypeOK' /\ UNCHANGED reg
           /\ e.to \in Daemons => req'.at = "daemon" /\ req'.daemon = e.to
           /\ e.to \notin Daemons => req'.at = "service"
           /\ req'.door = req.door /\ req'.typed = req.typed /\ req'.goal = req.goal
           /\ req'.routed = req.routed \cup {Routed(e)}
           /\ req'.hops = IF req.hops < 2 THEN req.hops + 1 ELSE 5 - req.hops
           /\ req'.host = ProxyHost(e)
           /\ e.kind = "user" =>
                /\ req'.xproto = req.scheme /\ req'.xhost = req.host
                /\ req'.xport = req.port
<1>1. e.kind \in {"relay", "user", "socket"} /\ e.scheme \in Schemes /\ Routed(e) \in Goals
    BY TargetEntry DEF Entries
<1>2. PICK h \in Seq(Labels) : h = ProxyHost(e) /\ h # <<>>
    BY ProxyName, Zenon
<1>3. req \in Requests /\ <<>> \in Seq(Labels) /\ NoPort \in Nat
    BY DEF DelegationTypeOK, NoPort
<1>4. /\ Rewritten(e) \in Requests /\ Rewritten(e).at = req.at
      /\ Rewritten(e).door = req.door /\ Rewritten(e).typed = req.typed
      /\ Rewritten(e).goal = req.goal /\ Rewritten(e).routed = req.routed
      /\ Rewritten(e).hops = req.hops /\ Rewritten(e).daemon = req.daemon
      /\ Rewritten(e).host = h
      /\ e.kind = "user" =>
            /\ Rewritten(e).xproto = req.scheme /\ Rewritten(e).xhost = req.host
            /\ Rewritten(e).xport = req.port
    <2>1. CASE e.kind = "socket"
        <3>1. Rewritten(e) = [req EXCEPT !.xproto = "none", !.xhost = <<>>,
                                         !.xport = NoPort, !.scheme = e.scheme]
            BY <2>1 DEF Rewritten
        <3>2. h = req.host
            BY <1>2, <2>1 DEF ProxyHost
        <3> QED
            BY <1>1, <1>3, <2>1, <3>1, <3>2 DEF Requests
    <2>2. CASE e.kind = "relay"
        <3>1. h = IF e.clean THEN CleanHost(e) ELSE <<e.name, TLD>>
            BY <1>2, <2>2 DEF ProxyHost
        <3>2. Rewritten(e) = [[req EXCEPT !.xproto = "none", !.xhost = <<>>,
                                          !.xport = NoPort, !.scheme = e.scheme]
                                EXCEPT !.host = h, !.port = NoPort]
            BY <2>2, <3>1 DEF Rewritten
        <3> QED
            BY <1>1, <1>3, <2>2, <3>2 DEF Requests
    <2>3. CASE e.kind = "user"
        <3>1. h = IF e.clean THEN CleanHost(e) ELSE userBackendHost(Host)
            BY <1>2, <2>3 DEF ProxyHost
        <3>2. PICK q \in Requests :
                /\ q = [req EXCEPT !.xproto = "none", !.xhost = <<>>,
                                   !.xport = NoPort, !.scheme = e.scheme]
                /\ q.at = req.at /\ q.door = req.door /\ q.typed = req.typed
                /\ q.goal = req.goal /\ q.routed = req.routed /\ q.hops = req.hops
                /\ q.daemon = req.daemon
            <4> DEFINE r == [req EXCEPT !.xproto = "none", !.xhost = <<>>,
                                        !.xport = NoPort, !.scheme = e.scheme]
            <4>1. r \in Requests
                BY <1>1, <1>3 DEF Requests
            <4>2. /\ r.at = req.at /\ r.door = req.door /\ r.typed = req.typed
                  /\ r.goal = req.goal /\ r.routed = req.routed /\ r.hops = req.hops
                  /\ r.daemon = req.daemon
                BY <1>3 DEF Requests
            <4> QED
                BY <4>1, <4>2, Zenon
        <3>3. Rewritten(e) = [q EXCEPT !.host = h, !.port = NoPort, !.xproto = req.scheme,
                                       !.xhost = req.host, !.xport = req.port]
            BY <2>3, <3>1, <3>2 DEF Rewritten
        <3>4. req.scheme \in Schemes \cup {"none"} /\ req.host \in Seq(Labels) /\ req.port \in Nat
            BY <1>3 DEF Requests
        <3>5. Rewritten(e) \in Requests
            BY <1>3, <3>3, <3>4 DEF Requests
        <3>6. /\ Rewritten(e).at = q.at /\ Rewritten(e).door = q.door
              /\ Rewritten(e).typed = q.typed /\ Rewritten(e).goal = q.goal
              /\ Rewritten(e).routed = q.routed /\ Rewritten(e).hops = q.hops
              /\ Rewritten(e).daemon = q.daemon /\ Rewritten(e).host = h
              /\ Rewritten(e).xproto = req.scheme /\ Rewritten(e).xhost = req.host
              /\ Rewritten(e).xport = req.port
            BY <3>3 DEF Requests
        <3> QED
            BY <3>2, <3>5, <3>6, Zenon
    <2> QED
        BY <1>1, <2>1, <2>2, <2>3
<1>5. PICK r \in Requests : r = Rewritten(e)
    BY <1>4
<1>6. req' = [r EXCEPT !.at = IF e.to \in Daemons THEN "daemon" ELSE "service",
                       !.daemon = IF e.to \in Daemons THEN e.to ELSE r.daemon,
                       !.routed = r.routed \cup {Routed(e)},
                       !.hops = IF r.hops < 2 THEN r.hops + 1 ELSE 5 - r.hops]
    BY <1>5 DEF Becomes
<1>7. r.routed \in SUBSET Goals /\ r.hops \in 0..3 /\ r.daemon \in Daemons
    BY DEF Requests
<1>8. /\ r.routed \cup {Routed(e)} \in SUBSET Goals
      /\ (IF r.hops < 2 THEN r.hops + 1 ELSE 5 - r.hops) \in 0..3
    BY <1>1, <1>7
<1>9. req' \in Requests
    BY <1>6, <1>7, <1>8 DEF Requests
<1>10. /\ e.to \in Daemons => req'.at = "daemon" /\ req'.daemon = e.to
       /\ e.to \notin Daemons => req'.at = "service"
       /\ req'.routed = r.routed \cup {Routed(e)}
       /\ req'.hops = IF r.hops < 2 THEN r.hops + 1 ELSE 5 - r.hops
       /\ req'.door = r.door /\ req'.typed = r.typed /\ req'.goal = r.goal
       /\ req'.host = r.host /\ req'.xproto = r.xproto /\ req'.xhost = r.xhost
       /\ req'.xport = r.xport
    BY <1>6 DEF Requests
<1>11. UNCHANGED reg
    BY DEF Becomes
<1>12. DelegationTypeOK'
    BY <1>2, <1>4, <1>5, <1>9, <1>10, <1>11 DEF DelegationTypeOK
<1> QED
    BY <1>2, <1>4, <1>5, <1>10, <1>11, <1>12, Zenon

-----------------------------------------------------------------------------
(* The invariant                                                           *)

(* What depends on registries alone stays as it is.                        *)
LEMMA SameRegistry ==
    ASSUME UNCHANGED reg
    PROVE  /\ RegInv => RegInv'
           /\ \A d : Listed(d)' = Listed(d)
           /\ \A d, u : Delegates(d, u)' <=> Delegates(d, u)
           /\ \A g : Unique(g)' <=> Unique(g)
           /\ \A d, h, g : OnCourse(d, h, g)' <=> OnCourse(d, h, g)
BY Zenon DEF RegInv, Listed, Delegates, Unique, OnCourse, IsApex, IsBelow

(* The browser has nothing to do.                                          *)
LEMMA BlankHolds ==
    ASSUME reg \in [Daemons -> SUBSET Entries], RegInv, req = Blank
    PROVE  DelegationInv
<1>1. PICK h \in Seq(Labels) : h = Localhost /\ h # <<>>
    BY Tuples, Zenon
<1>2. req = [at |-> "blank", daemon |-> Root, door |-> Root, typed |-> h,
             scheme |-> "http", host |-> h, port |-> NoPort,
             xproto |-> "none", xhost |-> <<>>, xport |-> NoPort,
             routed |-> {}, hops |-> 0, goal |-> NoGoal]
    BY <1>1 DEF Blank
<1>3. <<>> \in Seq(Labels) /\ NoPort \in Nat /\ Root \in Daemons
    BY DEF NoPort, Daemons
<1>4. req \in Requests /\ req.at = "blank" /\ req.goal = NoGoal /\ req.host = h
    BY <1>2, <1>3 DEF Requests, Schemes
<1> QED
    BY <1>1, <1>4 DEF DelegationInv, DelegationTypeOK, PageInv, TypedInv, DirectInv,
        DelegatedInv, GoalInv, OnTheWay

(* The browser leaves a page or an answer.                                 *)
LEMMA LeaveKeeps ==
    ASSUME DelegationInv, Leave
    PROVE  DelegationInv'
<1>1. reg' \in [Daemons -> SUBSET Entries] /\ RegInv' /\ req' = Blank
    BY SameRegistry DEF Leave, Becomes, DelegationInv, DelegationTypeOK
<1>2. PICK h \in Seq(Labels) : h = Localhost /\ h # <<>>
    BY Tuples, Zenon
<1>3. req' = [at |-> "blank", daemon |-> Root, door |-> Root, typed |-> h,
              scheme |-> "http", host |-> h, port |-> NoPort,
              xproto |-> "none", xhost |-> <<>>, xport |-> NoPort,
              routed |-> {}, hops |-> 0, goal |-> NoGoal]
    BY <1>1, <1>2 DEF Blank
<1>4. <<>> \in Seq(Labels) /\ NoPort \in Nat /\ Root \in Daemons
    BY DEF NoPort, Daemons
<1>5. req' \in Requests /\ req'.at = "blank" /\ req'.goal = NoGoal /\ req'.host = h
    BY <1>3, <1>4 DEF Requests, Schemes
<1> QED
    BY <1>1, <1>2, <1>5 DEF DelegationInv, DelegationTypeOK, PageInv, TypedInv, DirectInv,
        DelegatedInv, GoalInv, OnTheWay

(* A browser connects to the daemon of its link.                           *)
LEMMA ArrivalKeeps ==
    ASSUME DelegationInv, NEW d \in Daemons, NEW s \in Schemes,
           NEW h \in Seq(Labels), h # <<>>, NEW g \in Goals \cup {NoGoal},
           Becomes(Arrives(d, s, h, g)),
           g # NoGoal => Unique(g) /\ OnCourse(d, Lowered(h), g)
    PROVE  DelegationInv'
<1>1. /\ DelegationTypeOK' /\ UNCHANGED reg
      /\ req'.at = "daemon" /\ req'.daemon = d /\ req'.door = d
      /\ req'.typed = h /\ req'.host = h
      /\ req'.scheme = s /\ req'.port = PortOf(d, s)
      /\ req'.xproto = "none" /\ req'.xhost = <<>>
      /\ req'.routed = {} /\ req'.hops = 0 /\ req'.goal = g
    BY ArrivesStep DEF DelegationInv
<1>2. RegInv'
    BY <1>1, SameRegistry DEF DelegationInv
<1>3. PageInv' /\ DelegatedInv'
    BY <1>1 DEF PageInv, DelegatedInv
<1>4. TypedInv' /\ DirectInv'
    BY <1>1, Zenon DEF TypedInv, DirectInv, Host, PortOf
<1>5. GoalInv'
    BY <1>1, SameRegistry, Zenon DEF GoalInv, Host
<1> QED
    BY <1>1, <1>2, <1>3, <1>4, <1>5 DEF DelegationInv

(* The user types a name.                                                  *)
LEMMA TypeKeeps ==
    ASSUME DelegationInv, NEW d \in Daemons, NEW s \in Schemes, NEW h \in Asked, Type(d, s, h)
    PROVE  DelegationInv'
<1>1. h \in Seq(Labels) /\ h # <<>>
    BY DelegationAssumption
<1> QED
    BY <1>1, ArrivalKeeps DEF Type

(* Where a link leads to, as the browser reads it.                         *)
FollowPort == IF LinkPort = NoPort THEN Standard[LinkScheme] ELSE LinkPort
FollowHost(e) == <<e.name>> \o LinkBase

(* A link is a name.                                                       *)
LEMMA LinkType ==
    ASSUME DelegationTypeOK, NEW e \in Entries
    PROVE  /\ LinkScheme \in Schemes
           /\ LinkBase \in Seq(Labels) /\ FollowHost(e) \in Seq(Labels) /\ FollowHost(e) # <<>>
<1>1. e.name \in Labels
    BY DEF Entries
<1>2. LinkScheme \in Schemes
    BY Fields DEF LinkScheme
<1>3. PICK b \in Seq(Labels) : b = LinkBase
    BY Fields DEF LinkBase
<1>4. <<e.name>> \o b \in Seq(Labels) /\ Len(<<e.name>> \o b) = Len(b) + 1
    BY <1>1, LinkName
<1>5. Len(b) \in Nat
    OBVIOUS
<1>6. <<e.name>> \o b # <<>>
    BY <1>4, <1>5
<1> QED
    BY <1>2, <1>3, <1>4, <1>6 DEF FollowHost

(* The browser names the port that it would take anyway.                   *)
LEMMA PortRead ==
    ASSUME NEW d \in Daemons, NEW s \in Schemes, NEW p, p = PortOf(d, s)
    PROVE  /\ p = Standard[s] => FALSE
           /\ (IF p = NoPort THEN Standard[s] ELSE p) = Ports[d][s]
<1>1. Ports[d][s] \in Nat \ {0} /\ Standard[s] \in Nat \ {0}
    BY DelegationAssumption DEF Standard, Schemes, NoPort
<1> QED
    BY <1>1 DEF PortOf, NoPort

(* The link of an entry leads back to the daemon that the browser asked.   *)
LEMMA LinkCourse ==
    ASSUME DelegationInv, req.at = "page", NEW e \in Listed(req.daemon), Simple(e)
    PROVE  /\ FollowPort = Ports[req.door][LinkScheme]
           /\ OnCourse(req.door, Lowered(FollowHost(e)), Routed(e))
<1>1. /\ DelegationTypeOK /\ Host = Localhost /\ OnTheWay
      /\ req.daemon \in Daemons /\ req.door \in Daemons
      /\ req.scheme \in Schemes /\ req.host \in Seq(Labels) /\ req.host # <<>>
      /\ req.xhost \in Seq(Labels) /\ req.typed \in Seq(Labels)
    BY Fields, Zenon DEF DelegationInv, PageInv, OnTheWay
<1>2. e.name \in ValidNames /\ e.name \in Labels /\ Lower[e.name] = e.name
    BY NamesAssumption DEF Simple
<1>3. req.hops = 0 \/ req.hops = 1
    BY <1>1, Fields DEF Simple
<1>4. Routed(e).at = req.daemon /\ Routed(e).entry = e
    BY DEF Routed
<1>5. ASSUME NEW b \in Seq(Labels)
      PROVE  \E h \in Seq(Labels) :
                /\ h = Lowered(<<e.name>> \o b) /\ Len(h) = Len(b) + 1 /\ h[1] = e.name
                /\ \A i \in 1..Len(b) : h[i + 1] = Lowered(b)[i]
    <2>1. PICK k \in Seq(Labels) :
            /\ k = <<e.name>> \o b /\ Len(k) = Len(b) + 1 /\ k[1] = e.name
            /\ \A i \in 1..Len(b) : k[i + 1] = b[i]
        BY <1>2, LinkName, Zenon
    <2>2. PICK h \in Seq(Labels) :
            /\ h = Lowered(k) /\ Len(h) = Len(k) /\ \A i \in 1..Len(k) : h[i] = Lower[k[i]]
        BY LowerName, Zenon
    <2>3. Len(b) \in Nat
        OBVIOUS
    <2>4. h[1] = e.name
        BY <1>2, <2>1, <2>2, <2>3
    <2>5. \A i \in 1..Len(b) : h[i + 1] = Lower[b[i]]
        BY <2>1, <2>2, <2>3
    <2>6. \A i \in 1..Len(b) : Lowered(b)[i] = Lower[b[i]]
        BY LowerName, Zenon
    <2>7. \A i \in 1..Len(b) : h[i + 1] = Lowered(b)[i]
        BY <2>5, <2>6, Zenon
    <2> QED
        BY <2>1, <2>2, <2>4, <2>7, Zenon
<1>6. CASE req.hops = 0
    <2>1. /\ req.daemon = req.door /\ req.port = PortOf(req.door, req.scheme)
          /\ req.xproto = "none" /\ req.xhost = <<>>
        BY <1>1, <1>6 DEF DelegationInv, DirectInv
    <2>2. LinkScheme = req.scheme /\ LinkBase = req.host
        BY <2>1 DEF LinkScheme, LinkBase
    <2>3. LinkPort = req.port
        BY <1>1, <2>1, <2>2, PortRead DEF LinkPort
    <2>4. FollowPort = Ports[req.door][LinkScheme]
        BY <1>1, <2>1, <2>2, <2>3, PortRead DEF FollowPort
    <2>5. PICK h \in Seq(Labels) :
            /\ h = Lowered(<<e.name>> \o req.host) /\ Len(h) = Len(req.host) + 1
            /\ h[1] = e.name
            /\ \A i \in 1..Len(req.host) : h[i + 1] = Lowered(req.host)[i]
        BY <1>1, <1>5, Zenon
    <2>6. Len(req.host) = 1 /\ Lowered(req.host)[1] = TLD
        BY <1>1, Fields, Tuples, Zenon DEF Host
    <2>7. Len(h) = 2 /\ h[2] = TLD
        BY <2>5, <2>6
    <2>8. IsApex(h, e.name)
        BY <2>5, <2>7 DEF IsApex
    <2>9. FollowHost(e) = <<e.name>> \o req.host
        BY <2>2 DEF FollowHost
    <2> QED
        BY <1>4, <2>1, <2>4, <2>5, <2>8, <2>9, Zenon DEF OnCourse
<1>7. CASE req.hops = 1
    <2>1. /\ Delegates(req.door, req.daemon)
          /\ req.xproto \in Schemes /\ req.xport = PortOf(req.door, req.xproto)
          /\ req.xhost = req.typed /\ IsApex(Lowered(req.typed), req.daemon)
        BY <1>1, <1>7 DEF DelegationInv, DelegatedInv
    <2>2. PICK t \in Seq(Labels) :
            /\ t = req.typed /\ Len(t) = 2
            /\ Lowered(t)[1] = req.daemon /\ Lowered(t)[2] = TLD
        <3>1. Len(Lowered(req.typed)) = Len(req.typed)
            BY <1>1, LowerName, Zenon
        <3> QED
            BY <1>1, <2>1, <3>1, Zenon DEF IsApex
    <2>3. t # <<>>
        <3>1. Len(t) > 0
            BY <2>2
        <3> QED
            BY <3>1, NotEmpty
    <2>4. LinkScheme = req.xproto /\ LinkBase = t
        <3>1. req.xproto # "none"
            BY <2>1 DEF Schemes
        <3> QED
            BY <2>1, <2>2, <2>3, <3>1, Zenon DEF LinkScheme, LinkBase
    <2>5. LinkPort = req.xport
        <3>1. req.xhost # <<>>
            BY <2>1, <2>2, <2>3, Zenon
        <3> QED
            BY <1>1, <2>1, <2>4, <3>1, PortRead DEF LinkPort
    <2>6. FollowPort = Ports[req.door][LinkScheme]
        BY <1>1, <2>1, <2>4, <2>5, PortRead DEF FollowPort
    <2>7. PICK h \in Seq(Labels) :
            /\ h = Lowered(<<e.name>> \o t) /\ Len(h) = Len(t) + 1
            /\ h[1] = e.name /\ \A i \in 1..Len(t) : h[i + 1] = Lowered(t)[i]
        BY <1>5, Zenon
    <2>8. Len(h) = 3 /\ h[2] = req.daemon /\ h[3] = TLD
        BY <2>2, <2>7
    <2>9. FollowHost(e) = <<e.name>> \o t
        BY <2>4 DEF FollowHost
    <2> QED
        BY <1>4, <2>1, <2>6, <2>7, <2>8, <2>9, Zenon DEF OnCourse, IsBelow
<1> QED
    BY <1>3, <1>6, <1>7

(* The browser follows a link: to its entry, if the link promises one.     *)
LEMMA FollowKeeps ==
    ASSUME DelegationInv, NEW d \in Daemons, NEW e \in Offers[d], Follow(e)
    PROVE  DelegationInv'
<1> DEFINE doors == {c \in Daemons : Ports[c][LinkScheme] = FollowPort}
           goal == IF Simple(e) THEN Routed(e) ELSE NoGoal
<1>1. /\ req.at = "page" /\ e \in Listed(req.daemon)
      /\ IF doors = {}
         THEN Becomes([req EXCEPT !.at = "lost", !.goal = goal])
         ELSE \E c \in doors : Becomes(Arrives(c, LinkScheme, FollowHost(e), goal))
    BY Zenon DEF Follow, FollowPort, FollowHost
<1>2. /\ DelegationTypeOK /\ req.daemon \in Daemons /\ req.door \in Daemons
      /\ req.routed \in SUBSET Goals
    BY Fields DEF DelegationInv
<1>3. e \in Entries
    BY DelegationAssumption
<1>4. goal \in Goals \cup {NoGoal}
    BY <1>2, <1>3 DEF Routed, Goals
<1>5. /\ LinkScheme \in Schemes /\ FollowHost(e) \in Seq(Labels) /\ FollowHost(e) # <<>>
    BY <1>2, <1>3, LinkType
<1>6. ASSUME Simple(e)
      PROVE  /\ doors = {req.door} /\ Unique(Routed(e))
             /\ OnCourse(req.door, Lowered(FollowHost(e)), Routed(e))
    <2>1. /\ FollowPort = Ports[req.door][LinkScheme]
          /\ OnCourse(req.door, Lowered(FollowHost(e)), Routed(e))
        BY <1>1, <1>6, LinkCourse
    <2>2. doors = {req.door}
        BY <1>2, <1>5, <2>1, DelegationAssumption
    <2>3. Unique(Routed(e))
        BY <1>1, <1>6 DEF Simple, Unique, Routed
    <2> QED
        BY <2>1, <2>2, <2>3
<1>7. CASE doors = {}
    <2>1. goal = NoGoal
        BY <1>6, <1>7
    <2>2. Becomes([req EXCEPT !.at = "lost", !.goal = NoGoal])
        BY <1>1, <1>7, <2>1
    <2>3. Becomes([req EXCEPT !.at = "lost", !.routed = req.routed, !.goal = NoGoal])
        BY <1>2, <2>2 DEF Becomes, DelegationTypeOK, Requests
    <2>4. DelegationTypeOK' /\ UNCHANGED reg /\ req'.at = "lost" /\ req'.goal = NoGoal
        BY <1>2, <2>3, EndsStep
    <2>5. RegInv'
        BY <2>4, SameRegistry DEF DelegationInv
    <2> QED
        BY <2>4, <2>5 DEF DelegationInv, PageInv, TypedInv, DirectInv, DelegatedInv,
            GoalInv, OnTheWay
<1>8. ASSUME NEW c \in doors, Becomes(Arrives(c, LinkScheme, FollowHost(e), goal))
      PROVE  DelegationInv'
    <2>1. goal # NoGoal => Unique(goal) /\ OnCourse(c, Lowered(FollowHost(e)), goal)
        BY <1>6
    <2>2. c \in Daemons
        OBVIOUS
    <2> HIDE DEF goal, doors
    <2> QED
        BY <1>4, <1>5, <1>8, <2>1, <2>2, ArrivalKeeps
<1> QED
    BY <1>1, <1>7, <1>8

(* Where the goal of a link is before the request, the goal is found.      *)
LEMMA GoalTarget ==
    ASSUME DelegationInv, AtDaemon, req.goal # NoGoal, req.goal \notin req.routed,
           req.daemon = req.goal.at, IsApex(Host, req.goal.entry.name)
    PROVE  Target = {req.goal.entry}
<1>1. PICK f : f = req.goal.entry
    OBVIOUS
<1>2. /\ f \in Listed(req.daemon) /\ f.name \in ValidNames
      /\ \A c \in Listed(req.daemon) : c.name = f.name => c = f
    BY <1>1, Zenon DEF DelegationInv, GoalInv, Unique
<1>3. f \in reg[req.daemon] /\ f \in Offers[req.daemon] /\ req.daemon \in Daemons
    <2>1. req.daemon \in Daemons /\ f \in reg[req.daemon]
        BY <1>2, Fields DEF DelegationInv, Listed
    <2> QED
        BY <2>1 DEF DelegationInv, RegInv
<1>4. f.name # ReservedName /\ f.kind \in {"relay", "user", "socket"}
    BY <1>3, DelegationAssumption DEF Entries
<1>5. Len(Host) = 2 /\ Host[1] = f.name /\ Host[2] = TLD
    BY <1>1, Zenon DEF IsApex
<1>6. UnderTLD(Host) /\ Last = f.name /\ ~(Len(Host) > 2)
    <2>1. Host[Len(Host)] = TLD
        BY <1>5, Zenon
    <2>2. Len(Host) > 1 /\ ~(Len(Host) > 2) /\ Len(Host) - 1 = 1
        BY <1>5
    <2> QED
        BY <1>5, <2>1, <2>2, Zenon DEF UnderTLD, Last
<1>7. Target = Named(f.name)
    BY <1>4, <1>6 DEF Target
<1>8. \A c \in reg[req.daemon] : c.name = f.name /\ c.kind \in {"relay", "user"} => c = f
    BY <1>2 DEF Listed
<1>9. CASE Found("relay", f.name) # {}
    <2>1. Found("relay", f.name) = {f}
        BY <1>8, <1>9 DEF Found
    <2> QED
        BY <1>1, <1>7, <1>9, <2>1 DEF Named
<1>10. CASE Found("relay", f.name) = {}
    <2>1. \A c \in reg[req.daemon] : c.name = f.name => c \in Listed(req.daemon)
        BY <1>10 DEF Found, Listed
    <2>2. \A c \in reg[req.daemon] : c.name = f.name => c = f
        BY <1>2, <2>1
    <2>3. f.kind # "relay"
        BY <1>3, <1>10 DEF Found
    <2>4. CASE f.kind = "socket"
        <3>1. Found("socket", f.name) = {f}
            BY <1>3, <2>2, <2>4 DEF Found
        <3> QED
            BY <1>1, <1>7, <1>10, <3>1 DEF Named
    <2>5. CASE f.kind = "user"
        <3>1. Found("user", f.name) = {f} /\ Found("socket", f.name) = {}
            BY <1>3, <2>2, <2>5 DEF Found
        <3> QED
            BY <1>1, <1>7, <1>10, <3>1 DEF Named
    <2> QED
        BY <1>4, <2>3, <2>4, <2>5
<1> QED
    BY <1>9, <1>10

(* A delegation on the way to the goal is found as well.                   *)
LEMMA DelegateTarget ==
    ASSUME DelegationInv, AtDaemon, NEW l \in ValidNames, NEW u,
           Delegates(req.daemon, u), IsBelow(Host, l, u)
    PROVE  \E e \in Entries :
            /\ Target = {e} /\ e.kind = "user" /\ e.name = u /\ e.to = u /\ ~e.clean
            /\ req.daemon \in {Root, u} /\ u \in Users
<1>1. PICK e \in reg[req.daemon] :
        e.kind = "user" /\ e.name = u /\ e.to = u /\ ~e.clean /\ req.daemon \in {Root, u}
    BY DEF Delegates
<1>2. req.daemon \in Daemons /\ e \in Offers[req.daemon]
    BY <1>1, Fields DEF DelegationInv, RegInv
<1>3. e \in Entries /\ u \in Users
    <2>1. e \in Entries /\ (e.kind = "user" => e.name \in Users)
        BY <1>2, DelegationAssumption
    <2> QED
        BY <1>1, <2>1, Zenon
<1>4. UnderTLD(Host) /\ Len(Host) > 2 /\ Last = u /\ Host[1] # ""
    <2>1. Len(Host) = 3 /\ Host[1] = l /\ Host[2] = u /\ Host[3] = TLD
        BY Zenon DEF IsBelow
    <2>2. l # ""
        BY NamesAssumption
    <2>3. Len(Host) > 1 /\ Len(Host) > 2 /\ Len(Host) - 1 = 2
        <3>1. 3 > 1 /\ 3 > 2 /\ 3 - 1 = 2
            OBVIOUS
        <3> QED
            BY <2>1, <3>1, Zenon
    <2>4. Host[Len(Host)] = TLD
        BY <2>1, Zenon
    <2> QED
        BY <2>1, <2>3, <2>4, <2>2, Zenon DEF UnderTLD, Last
<1>5. Target = Found("user", u)
    BY <1>4, Zenon DEF Target
<1>6. Found("user", u) = {e}
    BY <1>1, <1>2 DEF DelegationInv, RegInv, Found
<1> QED
    BY <1>1, <1>3, <1>5, <1>6

(* A request on course for its goal is led there, or by a delegation that  *)
(* the owner of the socket confirms.                                       *)
LEMMA CourseTarget ==
    ASSUME DelegationInv, AtDaemon, req.goal # NoGoal, req.goal \notin req.routed
    PROVE  /\ Target # {} /\ Host # Localhost
           /\ \/ \A e \in Target : Routed(e) = req.goal
              \/ /\ Delegates(req.daemon, req.goal.at)
                 /\ IsBelow(Host, req.goal.entry.name, req.goal.at)
                 /\ \A e \in Target :
                        /\ Checked(e) /\ e.kind = "user" /\ e.to = req.goal.at /\ ~e.clean
                        /\ e.to \in Users
<1>1. /\ Unique(req.goal) /\ OnCourse(req.daemon, Host, req.goal)
      /\ req.goal.entry.name \in ValidNames
    BY Zenon DEF DelegationInv, GoalInv, Unique
<1>2. req.goal \in Goals
    BY Fields DEF DelegationInv
<1>3. Len(Localhost) = 1 /\ 2 # 1 /\ 3 # 1
    <2>1. 2 # 1 /\ 3 # 1
        OBVIOUS
    <2> QED
        BY <2>1, Tuples, Zenon
<1>4. CASE req.daemon = req.goal.at /\ IsApex(Host, req.goal.entry.name)
    <2>1. Target = {req.goal.entry}
        BY <1>4, GoalTarget
    <2>2. Routed(req.goal.entry) = req.goal
        BY <1>2, <1>4 DEF Routed, Goals
    <2>3. Host # Localhost
        BY <1>3, <1>4, Zenon DEF IsApex
    <2> QED
        BY <2>1, <2>2, <2>3, Zenon
<1>5. CASE /\ Delegates(req.daemon, req.goal.at)
           /\ IsBelow(Host, req.goal.entry.name, req.goal.at)
    <2>1. PICK e \in Entries :
            /\ Target = {e} /\ e.kind = "user" /\ e.name = req.goal.at
            /\ e.to = req.goal.at /\ ~e.clean /\ req.goal.at \in Users
        BY <1>1, <1>5, DelegateTarget, Zenon
    <2>2. e.to \notin Services
        BY <2>1, DelegationAssumption DEF Daemons
    <2>3. Checked(e)
        BY <2>1, <2>2, Zenon DEF Checked, OwnerOf
    <2>4. Host # Localhost
        BY <1>3, <1>5, Zenon DEF IsBelow
    <2> QED
        BY <1>5, <2>1, <2>3, <2>4, Zenon
<1> QED
    BY <1>1, <1>4, <1>5, Zenon DEF OnCourse

(* An answer of 404 is for a name that leads nowhere.                      *)
LEMMA PlainEndKeeps ==
    ASSUME DelegationInv, AtDaemon, NEW how \in {"404", "500", "502"}, Ends(how),
           how = "404" => Target = {}
    PROVE  DelegationInv'
<1>1. DelegationTypeOK /\ req.routed \in SUBSET Goals /\ req.goal \in Goals \cup {NoGoal}
    BY Fields DEF DelegationInv
<1>2. /\ DelegationTypeOK' /\ UNCHANGED reg
      /\ req'.at = how /\ req'.routed = req.routed /\ req'.goal = req.goal
      /\ req'.daemon = req.daemon /\ req'.host = req.host
    <2>1. how \in {"page", "404", "500", "502"}
        OBVIOUS
    <2> QED
        BY <1>1, <2>1, PlainEnd, Zenon
<1>3. RegInv'
    BY <1>2, SameRegistry DEF DelegationInv
<1>4. PageInv' /\ TypedInv' /\ DirectInv' /\ DelegatedInv'
    BY <1>2 DEF PageInv, TypedInv, DirectInv, DelegatedInv, OnTheWay
<1>5. ASSUME req.goal # NoGoal, req.goal \notin req.routed
      PROVE  Unique(req.goal)' /\ OnCourse(req.daemon, Host, req.goal)' /\ how # "404"
    <2>1. Unique(req.goal) /\ OnCourse(req.daemon, Host, req.goal)
        BY <1>5, Zenon DEF DelegationInv, GoalInv
    <2>2. how # "404"
        BY <1>5, CourseTarget
    <2>3. Host' = Host
        BY <1>2 DEF Host
    <2> QED
        BY <1>2, <2>1, <2>2, <2>3, SameRegistry
<1>6. GoalInv'
    BY <1>2, <1>5 DEF GoalInv
<1> QED
    BY <1>2, <1>3, <1>4, <1>6 DEF DelegationInv

(* The daemon shows its page.                                              *)
LEMMA WelcomeKeeps ==
    ASSUME DelegationInv, Welcome
    PROVE  DelegationInv'
<1>1. DelegationTypeOK /\ req.routed \in SUBSET Goals /\ req.goal \in Goals \cup {NoGoal}
    BY Fields DEF DelegationInv
<1>2. AtDaemon /\ Host = Localhost /\ Ends("page")
    BY DEF Welcome
<1>3. /\ DelegationTypeOK' /\ UNCHANGED reg
      /\ req'.at = "page" /\ req'.routed = req.routed /\ req'.goal = req.goal
      /\ req'.daemon = req.daemon /\ req'.door = req.door
      /\ req'.typed = req.typed /\ req'.host = req.host
      /\ req'.scheme = req.scheme /\ req'.port = req.port
      /\ req'.xproto = req.xproto /\ req'.xhost = req.xhost
      /\ req'.xport = req.xport /\ req'.hops = req.hops
    <2>1. "page" \in {"page", "404", "500", "502"}
        OBVIOUS
    <2> QED
        BY <1>1, <1>2, <2>1, PlainEnd, Zenon
<1>4. RegInv' /\ \A d, u : Delegates(d, u)' <=> Delegates(d, u)
    BY <1>3, SameRegistry DEF DelegationInv
<1>5. Host' = Host /\ OnTheWay
    BY <1>2, <1>3, Zenon DEF Host, OnTheWay, AtDaemon
<1>6. PageInv'
    BY <1>2, <1>5 DEF PageInv
<1>7. TypedInv'
    BY <1>3, <1>5, Zenon DEF DelegationInv, TypedInv
<1>8. DirectInv'
    BY <1>3, <1>5, Zenon DEF DelegationInv, DirectInv, PortOf
<1>9. DelegatedInv'
    <2>1. PortOf(req.door, req.xproto)' = PortOf(req.door, req.xproto)
        BY <1>3 DEF PortOf
    <2>2. Delegates(req.door, req.daemon)' <=> Delegates(req.door, req.daemon)
        BY <1>3, <1>4
    <2>3. IsApex(Lowered(req.typed), req.daemon)' <=> IsApex(Lowered(req.typed), req.daemon)
        BY <1>3
    <2> QED
        BY <1>3, <1>5, <2>1, <2>2, <2>3, Zenon DEF DelegationInv, DelegatedInv
<1>10. GoalInv'
    BY <1>2, <1>3, CourseTarget DEF GoalInv, DelegationInv
<1> QED
    BY <1>3, <1>4, <1>6, <1>7, <1>8, <1>9, <1>10 DEF DelegationInv

(* A socket of another user is no goal on the way, or is the goal itself.  *)
LEMMA NotOwnedKeeps ==
    ASSUME DelegationInv, NotOwned
    PROVE  DelegationInv'
<1>1. PICK e \in Target :
        ~Checked(e) /\ Becomes([req EXCEPT !.at = "404", !.routed = @ \cup {Routed(e)}])
    BY DEF NotOwned
<1>2. DelegationTypeOK /\ req.routed \in SUBSET Goals /\ req.goal \in Goals \cup {NoGoal}
    BY Fields DEF DelegationInv
<1>3. req.routed \cup {Routed(e)} \in SUBSET Goals
    BY <1>2, TargetEntry DEF DelegationInv
<1>4. Becomes([req EXCEPT !.at = "404", !.routed = req.routed \cup {Routed(e)},
                          !.goal = req.goal])
    BY <1>1, <1>2 DEF Becomes, DelegationTypeOK, Requests
<1>5. /\ DelegationTypeOK' /\ UNCHANGED reg
      /\ req'.at = "404" /\ req'.routed = req.routed \cup {Routed(e)} /\ req'.goal = req.goal
    BY <1>2, <1>3, <1>4, EndsStep
<1>6. RegInv'
    BY <1>5, SameRegistry DEF DelegationInv
<1>7. PageInv' /\ TypedInv' /\ DirectInv' /\ DelegatedInv'
    BY <1>5 DEF PageInv, TypedInv, DirectInv, DelegatedInv, OnTheWay
<1>8. req.goal # NoGoal => req.goal \in req.routed \cup {Routed(e)}
    <2> SUFFICES ASSUME req.goal # NoGoal, req.goal \notin req.routed
                 PROVE  Routed(e) = req.goal
        OBVIOUS
    <2> QED
        BY <1>1, CourseTarget DEF NotOwned
<1>9. GoalInv'
    BY <1>5, <1>8 DEF GoalInv
<1> QED
    BY <1>5, <1>6, <1>7, <1>9 DEF DelegationInv

(* A proxy to a daemon, and what it does to the request.                   *)
Proxied(e) ==
    /\ e \in Target /\ Checked(e) /\ MayDial(e)
    /\ DelegationTypeOK' /\ UNCHANGED reg
    /\ e.to \in Daemons => req'.at = "daemon" /\ req'.daemon = e.to
    /\ e.to \notin Daemons => req'.at = "service"
    /\ req'.door = req.door /\ req'.typed = req.typed /\ req'.goal = req.goal
    /\ req'.routed = req.routed \cup {Routed(e)}
    /\ req'.hops = IF req.hops < 2 THEN req.hops + 1 ELSE 5 - req.hops
    /\ Host' = Lowered(ProxyHost(e))
    /\ e.kind = "user" =>
        req'.xproto = req.scheme /\ req'.xhost = req.host /\ req'.xport = req.port

(* A delegation that the owner confirms goes to the daemon of the user.    *)
LEMMA OwnerChecked ==
    ASSUME DelegationInv, NEW e \in Target, Checked(e), e.kind = "user", e.to \in Daemons
    PROVE  e.to = e.name /\ e.name \in Users /\ e.by = "unix" /\ e.name = Last
<1>1. e.to \notin Services
    BY DelegationAssumption
<1>2. e.name \in Users /\ e.by = "unix" /\ e.name = Last
    BY TargetEntry DEF DelegationInv
<1> QED
    BY <1>1, <1>2, Zenon DEF Checked, OwnerOf

(* A delegation takes a label off.                                         *)
LEMMA ProxyTyped ==
    ASSUME DelegationInv, AtDaemon, NEW e, Proxied(e)
    PROVE  TypedInv'
<1>1. /\ e \in Target /\ Checked(e) /\ Host' = Lowered(ProxyHost(e))
      /\ req'.routed = req.routed \cup {Routed(e)}
      /\ req'.typed = req.typed /\ req'.door = req.door
    BY Zenon DEF Proxied
<1>2. SUFFICES ASSUME OnTheWay', \A g \in req'.routed : g.entry.kind = "user"
               PROVE  \/ ~UnderTLD(Host') /\ Host' # Localhost
                      \/ \E i \in 1..(Len(req.typed) - 1) :
                            /\ Len(Host') = i /\ Host'[i] = TLD
                            /\ req'.daemon = Lower[req.typed[i]]
                            /\ \A j \in 1..(i - 1) : Host'[j] = Lower[req.typed[j]]
    BY <1>1, Zenon DEF TypedInv, UnderTLD
<1>3. e.kind = "user"
    <2>1. Routed(e) \in req'.routed
        BY <1>1
    <2>2. Routed(e).entry = e
        BY DEF Routed
    <2> QED
        BY <1>2, <2>1, <2>2, Zenon
<1>4. e.to \in Daemons /\ req'.daemon = e.to
    BY <1>2 DEF OnTheWay, Proxied
<1>5. CASE e.clean
    BY <1>1, <1>3, <1>5, ProxyName, Zenon DEF DelegationInv
<1>6. CASE ~e.clean
    <2>1. req'.daemon = Last
        BY <1>1, <1>3, <1>4, OwnerChecked
    <2>2. PICK b \in Seq(Labels) :
            /\ b = Host' /\ Len(b) = Len(Host) - 1 /\ b[Len(Host) - 1] = TLD
            /\ \A j \in 1..(Len(Host) - 2) : b[j] = Host[j]
        BY <1>1, <1>3, <1>6, ProxyName, Zenon DEF DelegationInv
    <2>3. PICK h \in Seq(Labels) :
            h = Host /\ Len(h) > 1 /\ Len(h) \in Nat /\ UnderTLD(h)
        BY <1>1, Fields, TargetEntry, Zenon DEF DelegationInv
    <2>4. PICK t \in Seq(Labels) : t = req.typed
        BY Fields DEF DelegationInv
    <2>5. \E n \in 1..Len(t) : Len(h) = n /\ \A j \in 1..(n - 1) : h[j] = Lower[t[j]]
        <3>1. OnTheWay /\ \A g \in req.routed : g.entry.kind = "user"
            BY <1>1, <1>2 DEF OnTheWay, AtDaemon
        <3>2. \/ h = Lowered(t)
              \/ \E i \in 1..(Len(t) - 1) :
                    Len(h) = i /\ \A j \in 1..(i - 1) : h[j] = Lower[t[j]]
            BY <2>3, <2>4, <3>1, Zenon DEF DelegationInv, TypedInv
        <3>3. Len(t) \in Nat
            OBVIOUS
        <3>4. CASE h = Lowered(t)
            <4>1. Len(h) = Len(t) /\ \A j \in 1..Len(t) : h[j] = Lower[t[j]]
                BY <3>4, LowerName, Zenon
            <4>2. Len(t) \in 1..Len(t)
                BY <2>3, <3>3, <4>1
            <4>3. \A j \in 1..(Len(t) - 1) : h[j] = Lower[t[j]]
                BY <3>3, <4>1
            <4> QED
                BY <4>1, <4>2, <4>3, Zenon
        <3>5. ASSUME NEW i \in 1..(Len(t) - 1), Len(h) = i,
                     \A j \in 1..(i - 1) : h[j] = Lower[t[j]]
              PROVE  i \in 1..Len(t)
            BY <3>3
        <3> QED
            BY <3>2, <3>4, <3>5, Zenon
    <2>6. PICK n \in 1..Len(t) : Len(h) = n /\ \A j \in 1..(n - 1) : h[j] = Lower[t[j]]
        BY <2>5
    <2>7. n - 1 \in 1..(Len(t) - 1) /\ n - 1 \in 1..(n - 1) /\ n \in Nat
        <3>1. Len(t) \in Nat
            OBVIOUS
        <3>2. n > 1
            BY <2>3, <2>6, Zenon
        <3> QED
            BY <3>1, <3>2
    <2>8. Last = Lower[t[n - 1]]
        BY <2>3, <2>6, <2>7, Zenon DEF Last
    <2>9. Len(Host) = n
        BY <2>3, <2>6, Zenon
    <2>10. \A j \in 1..((n - 1) - 1) : b[j] = Lower[t[j]]
        <3>1. \A j \in 1..((n - 1) - 1) : j \in 1..(n - 2) /\ j \in 1..(n - 1)
            BY <2>7
        <3>2. \A j \in 1..(n - 2) : b[j] = h[j]
            BY <2>2, <2>3, <2>9, Zenon
        <3> QED
            BY <2>6, <3>1, <3>2, Zenon
    <2>11. Len(b) = n - 1 /\ b[n - 1] = TLD
        BY <2>2, <2>9, Zenon
    <2> QED
        BY <2>1, <2>2, <2>4, <2>7, <2>8, <2>10, <2>11, Zenon
<1> QED
    BY <1>5, <1>6

(* A delegation asked for by the apex of a user comes to localhost, and    *)
(* tells the daemon of the user what it was asked.                         *)
LEMMA ProxyDelegated ==
    ASSUME DelegationInv, AtDaemon, NEW e, Proxied(e)
    PROVE  DirectInv' /\ DelegatedInv'
<1>1. /\ e \in Target /\ Checked(e) /\ MayDial(e) /\ Host' = Lowered(ProxyHost(e))
      /\ UNCHANGED reg
      /\ req'.hops = IF req.hops < 2 THEN req.hops + 1 ELSE 5 - req.hops
      /\ req'.typed = req.typed /\ req'.door = req.door
      /\ req.hops \in 0..3
    BY Fields, Zenon DEF Proxied, DelegationInv
<1>2. req'.hops # 0 /\ (req'.hops = 1 => req.hops = 0)
    BY <1>1
<1>3. DirectInv'
    BY <1>2 DEF DirectInv
<1>4. SUFFICES ASSUME OnTheWay', req'.hops = 1, Host' = Localhost
               PROVE  /\ Delegates(req.door, req'.daemon)
                      /\ req'.xproto \in Schemes /\ req'.xport = PortOf(req.door, req'.xproto)
                      /\ req'.xhost = req.typed /\ IsApex(Lowered(req.typed), req'.daemon)
    <2>1. \A d, u : Delegates(d, u)' <=> Delegates(d, u)
        BY <1>1, SameRegistry
    <2>2. ASSUME Delegates(req.door, req'.daemon) PROVE Delegates(req.door, req.daemon)'
        BY <1>1, <2>1, <2>2
    <2>3. PortOf(req.door, req.xproto)' = PortOf(req.door, req'.xproto)
        BY <1>1 DEF PortOf
    <2>4. IsApex(Lowered(req.typed), req.daemon)' = IsApex(Lowered(req.typed), req'.daemon)
        BY <1>1
    <2> QED
        BY <1>1, <1>3, <2>2, <2>3, <2>4 DEF DelegatedInv
<1>5. e.to \in Daemons /\ req'.daemon = e.to
    BY <1>4 DEF OnTheWay, Proxied
<1>6. UnderTLD(Host) /\ e.kind \in {"relay", "user", "socket"} /\ e \in reg[req.daemon]
    BY <1>1, TargetEntry DEF DelegationInv, Entries
<1>7. e.kind = "user" /\ ~e.clean
    <2>1. Host # Localhost
        <3>1. Len(Host) > 1
            BY <1>6, Zenon DEF UnderTLD
        <3>2. Len(Localhost) = 1 /\ ~(1 > 1)
            <4>1. ~(1 > 1)
                OBVIOUS
            <4> QED
                BY <4>1, Tuples, Zenon
        <3> QED
            BY <3>1, <3>2, Zenon
    <2>2. e.clean \in BOOLEAN
        BY <1>1, TargetEntry DEF DelegationInv, Entries
    <2> QED
        BY <1>1, <1>4, <1>6, <2>1, <2>2, ProxyName, Zenon DEF DelegationInv
<1>8. e.to = e.name /\ e.name \in Users /\ e.by = "unix" /\ e.name = Last
    BY <1>1, <1>5, <1>7, OwnerChecked
<1>9. /\ req.daemon = req.door /\ req.host = req.typed
      /\ req.port = PortOf(req.door, req.scheme)
    <2>1. OnTheWay /\ req.hops = 0
        BY <1>2, <1>4 DEF OnTheWay, AtDaemon
    <2> QED
        BY <2>1, Zenon DEF DelegationInv, DirectInv
<1>10. /\ req'.xproto = req.scheme /\ req'.xhost = req.host /\ req'.xport = req.port
       /\ req.scheme \in Schemes
    BY <1>7, Fields, Zenon DEF Proxied, DelegationInv
<1>11. Delegates(req.door, e.to)
    <2>1. req.daemon \in {Root, e.to}
        BY <1>1, <1>8 DEF MayDial
    <2> QED
        BY <1>6, <1>7, <1>8, <1>9, <2>1, Zenon DEF Delegates
<1>12. IsApex(Host, e.to)
    <2>1. PICK b \in Seq(Labels) : b = Localhost /\ Len(b) = 1 /\ Len(b) = Len(Host) - 1
        BY <1>1, <1>4, <1>7, ProxyName, Tuples, Zenon DEF DelegationInv
    <2>2. PICK n \in Nat : n = Len(Host)
        BY Fields DEF DelegationInv
    <2>3. n = 2 /\ n - 1 = 1
        <3>1. n - 1 = 1
            BY <2>1, <2>2, Zenon
        <3> QED
            BY <3>1
    <2>4. Last = Host[1] /\ Len(Host) = 2
        BY <2>2, <2>3, Zenon DEF Last
    <2>5. Host[2] = TLD
        BY <1>6, <2>4, Zenon DEF UnderTLD
    <2> QED
        BY <1>8, <2>4, <2>5, Zenon DEF IsApex
<1>13. Host = Lowered(req.typed)
    BY <1>9, Zenon DEF Host
<1> QED
    BY <1>5, <1>9, <1>10, <1>11, <1>12, <1>13, Zenon

(* A proxy leads to the goal, or one delegation nearer.                    *)
LEMMA ProxyGoal ==
    ASSUME DelegationInv, AtDaemon, NEW e, Proxied(e)
    PROVE  GoalInv'
<1>1. /\ e \in Target /\ Host' = Lowered(ProxyHost(e)) /\ UNCHANGED reg
      /\ req'.routed = req.routed \cup {Routed(e)} /\ req'.goal = req.goal
      /\ req'.at # "lost"
    BY DEF Proxied
<1>2. SUFFICES ASSUME req.goal # NoGoal, req.goal \notin req.routed, Routed(e) # req.goal
               PROVE  /\ req'.at = "daemon" /\ Unique(req.goal)
                      /\ req'.daemon = req.goal.at /\ IsApex(Host', req.goal.entry.name)
    <2>1. SUFFICES ASSUME req.goal # NoGoal, req.goal \notin req'.routed
                   PROVE  /\ req'.at = "daemon" /\ Unique(req.goal)'
                          /\ OnCourse(req.daemon, Host, req.goal)'
        BY <1>1 DEF GoalInv
    <2>2. req.goal \notin req.routed /\ Routed(e) # req.goal
        BY <1>1, <2>1
    <2>3. /\ req'.at = "daemon" /\ Unique(req.goal)
          /\ req'.daemon = req.goal.at /\ IsApex(Host', req.goal.entry.name)
        BY <1>2, <2>1, <2>2
    <2> QED
        BY <1>1, <2>3, SameRegistry DEF OnCourse
<1>3. /\ IsBelow(Host, req.goal.entry.name, req.goal.at)
      /\ e.kind = "user" /\ e.to = req.goal.at /\ ~e.clean /\ e.to \in Users
    BY <1>1, <1>2, CourseTarget, Zenon
<1>4. req'.at = "daemon" /\ req'.daemon = req.goal.at
    BY <1>3 DEF Proxied, Daemons
<1>5. Unique(req.goal)
    BY <1>2, Zenon DEF DelegationInv, GoalInv
<1>6. IsApex(Host', req.goal.entry.name)
    <2>1. /\ Len(Host) = 3 /\ Host[1] = req.goal.entry.name
        BY <1>3, Zenon DEF IsBelow
    <2>2. 3 - 1 = 2 /\ 3 - 2 = 1 /\ 1 \in 1..1
        OBVIOUS
    <2>3. PICK b \in Seq(Labels) :
            /\ b = Host' /\ Len(b) = 2 /\ b[2] = TLD
            /\ \A i \in 1..1 : b[i] = Host[i]
        BY <1>1, <1>3, <2>1, <2>2, ProxyName, Zenon DEF DelegationInv
    <2> QED
        BY <2>1, <2>2, <2>3, Zenon DEF IsApex
<1> QED
    BY <1>4, <1>5, <1>6

(* A daemon passes the request on.                                         *)
LEMMA ProxyKeeps ==
    ASSUME DelegationInv, Proxy
    PROVE  DelegationInv'
<1>1. PICK e \in Target :
        /\ Checked(e) /\ MayDial(e)
        /\ Becomes([Rewritten(e) EXCEPT
                      !.at = IF e.to \in Daemons THEN "daemon" ELSE "service",
                      !.daemon = IF e.to \in Daemons THEN e.to ELSE @,
                      !.routed = @ \cup {Routed(e)},
                      !.hops = IF @ < 2 THEN @ + 1 ELSE 5 - @])
    BY DEF Proxy
<1>2. Proxied(e)
    BY <1>1, ProxyStep DEF DelegationInv, Proxied, Host
<1>3. AtDaemon
    BY DEF Proxy
<1>4. DelegationTypeOK' /\ RegInv'
    BY <1>2, SameRegistry DEF Proxied, DelegationInv
<1>5. PageInv'
    BY <1>2 DEF PageInv, Proxied
<1> QED
    BY <1>2, <1>3, <1>4, <1>5, ProxyTyped, ProxyDelegated, ProxyGoal DEF DelegationInv

(* Every step keeps the invariant.                                         *)
LEMMA NextKeeps ==
    ASSUME DelegationInv, [Next]_vars
    PROVE  DelegationInv'
<1>1. CASE UNCHANGED vars
    BY <1>1 DEF vars, DelegationInv, DelegationTypeOK, RegInv, PageInv, TypedInv, DirectInv,
        DelegatedInv, GoalInv, OnTheWay, Host, Delegates, IsApex, PortOf, Unique, Listed,
        OnCourse, IsBelow
<1>2. CASE NotFound
    <2>1. "404" \in {"404", "500", "502"}
        OBVIOUS
    <2> QED
        BY <1>2, <2>1, PlainEndKeeps, Zenon DEF NotFound
<1>3. CASE BadGateway
    <2>1. "502" \in {"404", "500", "502"} /\ "502" # "404"
        OBVIOUS
    <2> QED
        BY <1>3, <2>1, PlainEndKeeps, Zenon DEF BadGateway
<1>4. CASE InternalError
    <2>1. "500" \in {"404", "500", "502"} /\ "500" # "404"
        OBVIOUS
    <2> QED
        BY <1>4, <2>1, PlainEndKeeps, Zenon DEF InternalError
<1>5. CASE Serve
    BY <1>2, <1>3, <1>4, <1>5, WelcomeKeeps, NotOwnedKeeps, ProxyKeeps DEF Serve
<1>6. ASSUME NEW d \in Daemons, NEW s \in Schemes, NEW h \in Asked, Type(d, s, h)
      PROVE  DelegationInv'
    BY <1>6, TypeKeeps
<1>7. ASSUME NEW d \in Daemons, NEW e \in Offers[d], Follow(e)
      PROVE  DelegationInv'
    BY <1>7, FollowKeeps
<1> QED
    BY <1>1, <1>5, <1>6, <1>7, LeaveKeeps, Zenon DEF Next

(* The invariant holds in the beginning.                                   *)
LEMMA InitHolds ==
    ASSUME Init
    PROVE  DelegationInv
<1>1. /\ reg \in [Daemons -> UNION {SUBSET Offers[d] : d \in Daemons}] /\ req = Blank
      /\ \A d \in Daemons :
            /\ reg[d] \subseteq Offers[d]
            /\ \A e, f \in reg[d] :
                e # f /\ e.name = f.name
                    => "socket" \in {e.kind, f.kind} /\ e.kind # f.kind
    BY DEF Init
<1>2. reg \in [Daemons -> SUBSET Entries]
    BY <1>1, DelegationAssumption
<1>3. RegInv
    BY <1>1 DEF RegInv
<1> QED
    BY <1>1, <1>2, <1>3, BlankHolds

(* DelegationInv is inductive.                                             *)
THEOREM DelegationAlways == DelegationSpec => []DelegationInv
<1>1. Init => DelegationInv
    BY InitHolds
<1>2. DelegationInv /\ [Next]_vars => DelegationInv'
    BY NextKeeps
<1> QED
    BY <1>1, <1>2, PTL DEF DelegationSpec

(* Registries and requests are what they should be, and no proxy leaves a  *)
(* request without a host.                                                 *)
THEOREM DelegationTypeCorrect == DelegationSpec => []DelegationTypeOK
<1>1. DelegationInv => DelegationTypeOK
    BY DEF DelegationInv
<1> QED
    BY <1>1, DelegationAlways, PTL

(* Whoever types localhost sees the page of that daemon, and whoever types *)
(* user.localhost the page of that user, for any users, registrations and  *)
(* spellings, and through any number of delegations.                       *)
THEOREM AlwaysWhosePage == DelegationSpec => []WhosePage
<1>1. ASSUME DelegationInv PROVE WhosePage
    <2>1. SUFFICES ASSUME req.at = "page", \A g \in req.routed : g.entry.kind = "user"
                   PROVE  req.daemon = IF Len(req.typed) = 1 THEN req.door
                                       ELSE Lower[req.typed[1]]
        BY DEF WhosePage
    <2>2. Host = Localhost /\ OnTheWay
        BY <1>1, <2>1 DEF DelegationInv, PageInv, OnTheWay
    <2>3. PICK t \in Seq(Labels) : t = req.typed
        BY <1>1, Fields DEF DelegationInv
    <2>4. \/ Localhost = Lowered(t) /\ req.daemon = req.door
          \/ \E i \in 1..(Len(t) - 1) : Len(Localhost) = i /\ req.daemon = Lower[t[i]]
        BY <1>1, <2>1, <2>2, <2>3, Zenon DEF DelegationInv, TypedInv
    <2>5. Len(Localhost) = 1 /\ Len(Lowered(t)) = Len(t)
        BY Tuples, LowerName, Zenon
    <2>6. CASE Localhost = Lowered(t) /\ req.daemon = req.door
        BY <2>3, <2>5, <2>6, Zenon
    <2>7. ASSUME NEW i \in 1..(Len(t) - 1), Len(Localhost) = i, req.daemon = Lower[t[i]]
          PROVE  Len(t) # 1 /\ i = 1
        <3>1. i = 1
            BY <2>5, <2>7, Zenon
        <3>2. Len(t) # 1
            <4>1. ASSUME NEW n \in Nat, n = 1 PROVE 1..(n - 1) = {}
                BY <4>1
            <4>2. Len(t) \in Nat
                OBVIOUS
            <4> QED
                BY <4>1, <4>2
        <3> QED
            BY <3>1, <3>2, Zenon
    <2> QED
        BY <2>3, <2>4, <2>6, <2>7, Zenon
<1> QED
    BY <1>1, DelegationAlways, PTL

(* The links of a welcome page lead to the entries they were made for,     *)
(* unless a service or a socket fails.                                     *)
THEOREM AlwaysLinksLead == DelegationSpec => []LinksLead
<1>1. DelegationInv => LinksLead
    BY DEF DelegationInv, GoalInv, LinksLead, Ended
<1> QED
    BY <1>1, DelegationAlways, PTL
=============================================================================
