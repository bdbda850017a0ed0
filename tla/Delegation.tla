----------------------------- MODULE Delegation -----------------------------
(***************************************************************************)
(* One request of a browser on its way through several daemons: the        *)
(* daemon of root, which delegates subdomains to users, and the daemons of *)
(* those users (handleRequest, serveUser, the Rewrite functions of the     *)
(* proxies and checkSocketOwner in servers/relay.go), up to the welcome    *)
(* page of one of them (servers/welcome.go), a link of which the browser   *)
(* follows.                                                                *)
(*                                                                         *)
(* Registries stay as they are meanwhile (Routing has them change), so     *)
(* that what one daemon does with a request is a single step.  Services,   *)
(* browsers and the permissions of sockets are external.                   *)
(***************************************************************************)
EXTENDS Names, FiniteSets

CONSTANTS
    Root, Users,  \* the daemons; that of a user has the user's name
    Services,     \* backends that are not daemons
    Owner,        \* who owns the socket of a service
    Offers,       \* Offers[d]: what may be registered with or found by d
    Ports,        \* Ports[d][scheme]: the TCP ports of the daemon
    Asked         \* the names users type

Daemons == {Root} \cup Users
Schemes == {"http", "https"}
Standard == [http |-> 80, https |-> 443]
NoPort == 0
ReservedName == "control"

(* An entry leads to a Unix socket or, for a relay, also to a TCP port: of *)
(* a service or of a daemon, whose Unix socket is its forward socket.  A   *)
(* port has one listener.                                                  *)
Entries == [kind : {"relay", "user", "socket"}, name : Labels, to : Daemons \cup Services,
            by : {"unix", "tcp"}, scheme : Schemes, clean : BOOLEAN]

ASSUME DelegationAssumption ==
    /\ Root \notin Users /\ Users \subseteq ValidNames \ {ReservedName}
    /\ Services \cap Daemons = {}
    /\ Owner \in [Services -> Daemons]
    /\ Offers \in [Daemons -> SUBSET Entries]
    /\ \A d \in Daemons : \A e \in Offers[d] :
        /\ e.name # ReservedName
        /\ e.kind # "socket" => e.name \in ValidNames
        /\ e.kind = "user" => e.name \in Users
        /\ e.kind # "relay" => e.by = "unix" /\ e.scheme = "http"
        /\ e.by = "unix" => e.to # Root
        /\ e.to \in Users /\ e.by = "unix" => e.scheme = "http"
    /\ Ports \in [Daemons -> [Schemes -> Nat \ {NoPort}]]
    /\ \A d, e \in Daemons : \A s \in Schemes : Ports[d][s] = Ports[e][s] => d = e
    /\ \A h \in Asked : h \in Seq(Labels) /\ h # <<>>
    /\ {ReservedName, "unix", "127", "0", "1"} \subseteq ValidNames

VARIABLES
    reg,  \* reg[d]: the relays, users and conventional sockets of d
    req   \* the request

vars == <<reg, req>>

NoEntry == [kind |-> "none"]
Goals == [at : Daemons, entry : Entries]
NoGoal == [at |-> Root, entry |-> NoEntry]

(* host and port are those of the Host header, the x fields those of the   *)
(* X-Forwarded headers; routed holds the entries the request was led to so *)
(* far, and goal the entry that the link was made for.  hops counts up to  *)
(* two, and from there 3, 2, 3 and so on: no hop is a stutter.             *)
Requests ==
    [at : {"blank", "daemon", "page", "service", "404", "500", "502", "lost"},
     daemon : Daemons, door : Daemons, typed : Seq(Labels), scheme : Schemes,
     host : Seq(Labels), port : Nat, xproto : Schemes \cup {"none"},
     xhost : Seq(Labels), xport : Nat, routed : SUBSET Goals, hops : 0..3,
     goal : Goals \cup {NoGoal}]

DelegationTypeOK ==
    /\ reg \in [Daemons -> SUBSET Entries]
    /\ req \in Requests /\ req.host # <<>>

Blank == [at |-> "blank", daemon |-> Root, door |-> Root, typed |-> Localhost,
          scheme |-> "http", host |-> Localhost, port |-> NoPort,
          xproto |-> "none", xhost |-> <<>>, xport |-> NoPort,
          routed |-> {}, hops |-> 0, goal |-> NoGoal]

(* A map or a directory has one entry for a name, and add keeps relays and *)
(* users apart; only sockets are made without asking.                      *)
Init ==
    /\ reg \in [Daemons -> UNION {SUBSET Offers[d] : d \in Daemons}]
    /\ \A d \in Daemons :
        /\ reg[d] \subseteq Offers[d]
        /\ \A e, f \in reg[d] :
            e # f /\ e.name = f.name
                => "socket" \in {e.kind, f.kind} /\ e.kind # f.kind
    /\ req = Blank

-----------------------------------------------------------------------------
(* The browser                                                             *)

(* It names the port in the Host header unless the scheme implies it.      *)
Arrives(d, scheme, host, goal) ==
    [Blank EXCEPT
        !.at = "daemon", !.daemon = d, !.door = d, !.typed = host,
        !.scheme = scheme, !.host = host, !.goal = goal,
        !.port = IF Ports[d][scheme] = Standard[scheme] THEN NoPort
                                                        ELSE Ports[d][scheme]]

Ended == req.at # "daemon"
Becomes(r) == req' = r /\ UNCHANGED reg

Leave == Ended /\ req # Blank /\ Becomes(Blank)

Type(d, scheme, host) ==
    /\ req = Blank
    /\ Becomes(Arrives(d, scheme, host, NoGoal))

-----------------------------------------------------------------------------
(* A daemon (handleRequest)                                                *)

Host == Lowered(req.host)
Last == Host[Len(Host) - 1]
Found(kind, name) == {e \in reg[req.daemon] : e.kind = kind /\ e.name = name}

(* A relay goes before a socket, a socket before the apex of a user.       *)
Named(name) ==
    IF Found("relay", name) # {} THEN Found("relay", name)
    ELSE IF Found("socket", name) # {} THEN Found("socket", name)
    ELSE Found("user", name)

(* The entry the host leads to, in a set that is empty if there is none.   *)
Target ==
    IF ~UnderTLD(Host) THEN {}
    ELSE IF Len(Host) > 2
         THEN IF Host[1] = "" /\ Len(Host) = 3 THEN {} ELSE Found("user", Last)
         ELSE IF Last = ReservedName THEN {} ELSE Named(Last)

AtDaemon == req.at = "daemon"
Ends(how) == Becomes([req EXCEPT !.at = how])

(* serveHTTP: os.ErrNotExist becomes 404.                                  *)
NotFound == AtDaemon /\ Host # Localhost /\ Target = {} /\ Ends("404")

Welcome == AtDaemon /\ Host = Localhost /\ Ends("page")

Routed(e) == [at |-> req.daemon, entry |-> e]

(* checkSocketOwner                                                        *)
OwnerOf(e) == IF e.to \in Services THEN Owner[e.to] ELSE e.to
(* Mutant: any socket will do.                                             *)
CheckedNever(e) == TRUE

Checked(e) == e.kind = "user" => OwnerOf(e) = e.name

NotOwned ==
    /\ AtDaemon
    /\ \E e \in Target :
        /\ ~Checked(e)
        /\ Becomes([req EXCEPT !.at = "404", !.routed = @ \cup {Routed(e)}])

CleanHost(e) == IF e.by = "unix" THEN <<"unix">> ELSE <<"127", "0", "0", "1">>

(* Mutants: what is left of an apex is nothing; an apex stays what it is.  *)
userBackendHostBare(h) ==
    IF Len(h) > 2 THEN SubSeq(h, 1, Len(h) - 2) \o Localhost ELSE SubSeq(h, 1, Len(h) - 2)

userBackendHostSame(h) ==
    IF Len(h) > 2 THEN SubSeq(h, 1, Len(h) - 2) \o Localhost ELSE h

(* The label of the user goes; the apex becomes localhost.                 *)
userBackendHost(h) ==
    IF Len(h) > 2 THEN SubSeq(h, 1, Len(h) - 2) \o Localhost ELSE Localhost

(* The Rewrite functions, all of which drop the X-Forwarded headers that   *)
(* came in; only the one for users (SetXForwarded) sets new ones.  The one *)
(* for conventional sockets leaves the Host header alone.                  *)
Rewritten(e) ==
    LET r == [req EXCEPT !.xproto = "none", !.xhost = <<>>, !.xport = NoPort,
                         !.scheme = e.scheme]
    IN CASE e.kind = "socket" -> r
         [] e.kind = "relay"  ->
              [r EXCEPT !.host = IF e.clean THEN CleanHost(e) ELSE <<e.name, TLD>>,
                        !.port = NoPort]
         [] e.kind = "user"   ->
              [r EXCEPT !.host = IF e.clean THEN CleanHost(e) ELSE userBackendHost(Host),
                        !.port = NoPort,
                        !.xproto = req.scheme, !.xhost = req.host, !.xport = req.port]

(* The forward socket of a user's daemon has mode 0600.                    *)
MayDial(e) ==
    e.by = "unix" /\ e.to \in Users => req.daemon \in {Root, e.to}

Proxy ==
    /\ AtDaemon
    /\ \E e \in Target :
        /\ Checked(e) /\ MayDial(e)
        /\ Becomes([Rewritten(e) EXCEPT
                      !.at = IF e.to \in Daemons THEN "daemon" ELSE "service",
                      !.daemon = IF e.to \in Daemons THEN e.to ELSE @,
                      !.routed = @ \cup {Routed(e)},
                      !.hops = IF @ < 2 THEN @ + 1 ELSE 5 - @])

(* Nobody listens, or the dialer is not allowed: the ErrorHandler.         *)
BadGateway ==
    /\ AtDaemon
    /\ \E e \in Target : Checked(e)
    /\ Ends("502")

(* checkSocketOwner or the stat of a conventional socket failed otherwise. *)
InternalError ==
    /\ AtDaemon /\ UnderTLD(Host)
    /\ Ends("500")

-----------------------------------------------------------------------------
(* The welcome page (serveWelcome, listEntries)                            *)

Listed(d) ==
    {e \in reg[d] : e.kind = "socket" => ~\E f \in reg[d] : f.kind = "relay" /\ f.name = e.name}

(* Mutants: X-Forwarded-Proto is ignored; :443 is dropped for any scheme.  *)
LinkSchemeDirect == req.scheme
LinkPortStandard ==
    LET p == IF req.xhost # <<>> THEN req.xport ELSE req.port IN
    IF p \in {80, 443} THEN NoPort ELSE p

LinkScheme == IF req.xproto # "none" THEN req.xproto ELSE req.scheme
LinkBase == IF req.xhost # <<>> THEN req.xhost ELSE req.host
LinkPort ==
    LET p == IF req.xhost # <<>> THEN req.xport ELSE req.port IN
    IF p = Standard[LinkScheme] THEN NoPort ELSE p

(* The links the page answers for: of a page reached directly or by one    *)
(* delegation, for an entry whose name is a label of its own.              *)
Simple(e) ==
    /\ req.hops < 2
    /\ e.name \in ValidNames
    /\ \A f \in Listed(req.daemon) : f.name = e.name => f = e

(* The browser follows the link of an entry to whoever has the port.       *)
Follow(e) ==
    LET port == IF LinkPort = NoPort THEN Standard[LinkScheme] ELSE LinkPort
        doors == {d \in Daemons : Ports[d][LinkScheme] = port}
        goal == IF Simple(e) THEN Routed(e) ELSE NoGoal
    IN /\ req.at = "page" /\ e \in Listed(req.daemon)
       /\ IF doors = {}
          THEN Becomes([req EXCEPT !.at = "lost", !.goal = goal])
          ELSE \E d \in doors :
                Becomes(Arrives(d, LinkScheme, <<e.name>> \o LinkBase, goal))

Serve == NotFound \/ Welcome \/ NotOwned \/ Proxy \/ BadGateway \/ InternalError

Next ==
    \/ Serve \/ Leave
    \/ \E d \in Daemons, s \in Schemes, h \in Asked : Type(d, s, h)
    \/ \E d \in Daemons : \E e \in Offers[d] : Follow(e)

(* A daemon deals with the requests it has.                                *)
DelegationSpec == Init /\ [][Next]_vars /\ WF_vars(Serve)

-----------------------------------------------------------------------------
(* Properties                                                              *)

(* A link of a welcome page "points back at the host the client actually   *)
(* used": to that daemon, and there to the entry it was made for, through  *)
(* whatever port, scheme and delegation the page was reached.              *)
LinksLead ==
    /\ req.at = "lost" => req.goal = NoGoal
    /\ Ended /\ req.at \notin {"500", "502"} /\ req.goal # NoGoal
        => req.goal \in req.routed

(* Whoever types localhost sees the page of the daemon on that port, and   *)
(* whoever types user.localhost that of this user and of no other,         *)
(* whatever sockets are registered for users, as long as no relay and no   *)
(* conventional socket is in the way.                                      *)
WhosePage ==
    req.at = "page" /\ (\A g \in req.routed : g.entry.kind = "user") =>
        req.daemon = IF Len(req.typed) = 1 THEN req.door ELSE Lower[req.typed[1]]

(* A request is not routed around for ever unless a relay or a             *)
(* conventional socket leads back to a daemon: a delegation takes a label  *)
(* off, also where users delegate to themselves.                           *)
NoLoops ==
    (\A d \in Daemons : \A e \in reg[d] : e.kind # "user" => e.to \in Services)
        => (AtDaemon ~> Ended)

=============================================================================
