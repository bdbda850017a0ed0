------------------------------ MODULE Routing -------------------------------
(***************************************************************************)
(* The data plane of the daemon (handleRequest, serveUser and the reverse  *)
(* proxies of servers/relay.go) beside the control plane of Registry.      *)
(*                                                                         *)
(* A request is resolved to a reverse proxy that is kept in targetMap or   *)
(* userProxyMap; the proxy reads the registry again, once to rewrite the   *)
(* request and once more to dial, and keeps idle connections of its own.   *)
(* Every read or write of a shared map, of the file system or of the pool  *)
(* is a step of its own, so that requests interleave with each other and   *)
(* with the steps of the control handlers.                                 *)
(*                                                                         *)
(* A host is `name'.localhost, or app.`name'.localhost when sub is set.    *)
(* Backends are external: they take a connection or refuse it, and close   *)
(* idle connections when they like.                                        *)
(***************************************************************************)
EXTENDS Registry

CONSTANTS
    Visitors,      \* concurrent HTTP requests
    Handlers,      \* identities of http.Handler values
    Conventional,  \* the names under which services make sockets
    NoHandler, NoConn

Schemes == {"http", "https"}
Hosts == {"name", "app", "localhost", "unix", "127.0.0.1"}

(* What a socket proxy dials: the socket of the conventional name.         *)
OwnSocket == [conventional |-> TRUE]

(* The target of a relayInfo is its address; scheme and network are what   *)
(* relayDial reads off it (http and unix for a user's socket path).        *)
ASSUME RoutingAssumption ==
    /\ Kinds = {"relay", "user"}
    /\ \A i \in Infos : /\ i.scheme \in Schemes
                        /\ i.network \in {"tcp", "unix"}
                        /\ i.clean \in BOOLEAN
    /\ Conventional \subseteq Names
    /\ NoInfo # OwnSocket
    /\ NoHandler \notin Handlers

VARIABLES
    proxies,  \* proxies["relay"] is targetMap, proxies["user"] userProxyMap
    what,     \* what[h]: which constructor made h, "free" when unreferenced
    idle,     \* idle[h]: the idle connections of h's Transport
    sock,     \* sock[n]: <sockets-dir>/n.sock is a Unix socket
    visit     \* visit[r]: the state of request r

rvars == <<proxies, what, idle, sock, visit>>
allVars == <<vars, rvars>>

Keys == [scheme : Schemes, host : Hosts]
NoKey == [scheme |-> "none", host |-> "none"]

(* A connection remembers under which key the Transport filed it and which *)
(* target the dial went to: an info, or the socket of a conventional name. *)
Conns == [key : Keys, to : Infos \cup {OwnSocket}]

Stages == {"idle", "lookup", "relay", "stat", "apex", "users", "owner", "proxy",
           "put", "rewrite", "conn", "trip"}
Constructors == {"relay", "socket", "user"}

Visits == [at : Stages, name : Names \cup {"none"}, sub : BOOLEAN,
           want : Constructors \cup {"none"}, seen : Infos \cup {NoInfo},
           handler : Handlers \cup {NoHandler}, key : Keys \cup {NoKey},
           conn : Conns \cup {NoConn}, calm : BOOLEAN,
           status : {"none", "200", "404", "500", "502"}]

Answered(s) ==
    [at |-> "idle", name |-> "none", sub |-> FALSE, want |-> "none",
     seen |-> NoInfo, handler |-> NoHandler, key |-> NoKey, conn |-> NoConn,
     calm |-> FALSE, status |-> s]

NoProxies == [k \in Kinds |-> [n \in Names |-> NoHandler]]

(* The types: in particular, a request is only ever on a connection that   *)
(* leads somewhere.                                                        *)
RoutingTypeOK ==
    /\ TypeOK
    /\ proxies \in [Kinds -> [Names -> Handlers \cup {NoHandler}]]
    /\ what \in [Handlers -> Constructors \cup {"free"}]
    /\ idle \in [Handlers -> SUBSET Conns]
    /\ sock \in [Names -> BOOLEAN]
    /\ visit \in [Visitors -> Visits]

RoutingInit ==
    /\ Init
    /\ proxies = NoProxies
    /\ what = [h \in Handlers |-> "free"]
    /\ idle = [h \in Handlers |-> {}]
    /\ sock \in {s \in [Names -> BOOLEAN] : \A n \in Names : s[n] => n \in Conventional}
    /\ visit = [r \in Visitors |-> Answered("none")]

-----------------------------------------------------------------------------
(* Helpers                                                                 *)

Relay(n) == reg["relay"][n]
User(n) == reg["user"][n]

(* A handler and its pool are garbage once no map and no request hold it.  *)
Referenced ==
    {proxies[k][n] : k \in Kinds, n \in Names}
        \cup {visit[r].handler : r \in Visitors}

Keep(w, i) ==
    /\ what' = [h \in Handlers |-> IF h \in Referenced' THEN w[h] ELSE "free"]
    /\ idle' = [h \in Handlers |-> IF h \in Referenced' THEN i[h] ELSE {}]

(* Request r goes on to the next stage; the rest of the system stays.      *)
Advance(r, v) ==
    /\ visit' = [visit EXCEPT ![r] = v]
    /\ UNCHANGED <<vars, proxies, what, idle, sock>>

At(r, stage) == visit[r].at = stage
Goes(r, stage) == Advance(r, [visit[r] EXCEPT !.at = stage])

Respond(r, status) ==
    /\ visit' = [visit EXCEPT ![r] = Answered(status)]
    /\ UNCHANGED <<vars, proxies, sock>>
    /\ Keep(what, idle)

Uses(r, h) == Advance(r, [visit[r] EXCEPT !.at = "rewrite", !.handler = h])
Wants(r, c) == Advance(r, [visit[r] EXCEPT !.at = "put", !.want = c])

cleanHost(i) == IF i.network = "unix" THEN "unix" ELSE "127.0.0.1"

(* userBackendHost strips the user label.                                  *)
userBackendHost(v) == IF v.sub THEN "app" ELSE "localhost"

(* What the Rewrite functions put into the outgoing URL.                   *)
RelayKey(n) ==
    IF Relay(n) = NoInfo THEN [scheme |-> "http", host |-> "name"]
    ELSE [scheme |-> Relay(n).scheme,
          host   |-> IF Relay(n).clean THEN cleanHost(Relay(n)) ELSE "name"]

UserKey(v) ==
    [scheme |-> "http",
     host   |-> IF User(v.name) # NoInfo /\ User(v.name).clean
                THEN "unix" ELSE userBackendHost(v)]

KeyOf(r) ==
    LET v == visit[r] IN
    CASE what[v.handler] = "relay" -> RelayKey(v.name)
      [] what[v.handler] = "user"  -> UserKey(v)
      [] OTHER -> [scheme |-> "http", host |-> "name"]

(* Where the DialContext functions dial, NoInfo when the entry is gone.    *)
DialTarget(r) ==
    LET v == visit[r] IN
    CASE what[v.handler] = "relay" -> Relay(v.name)
      [] what[v.handler] = "user"  -> User(v.name)
      [] OTHER -> IF sock[v.name] THEN OwnSocket ELSE NoInfo

-----------------------------------------------------------------------------
(* handleRequest                                                           *)

NoControlOn(n) == \A c \in Clients : pc[c] # "idle" => req[c].name # n

Arrive(r) ==
    /\ up = "up" /\ At(r, "idle")
    /\ \E n \in Names, sub \in BOOLEAN :
        IF ~sub /\ n = ReservedName
        THEN Respond(r, "404")
        ELSE Advance(r, [Answered("none") EXCEPT
                            !.at = IF sub THEN "users" ELSE "lookup",
                            !.name = n, !.sub = sub, !.calm = NoControlOn(n)])

LookupProxy(r) ==
    /\ At(r, "lookup")
    /\ LET h == proxies["relay"][visit[r].name] IN
       IF h # NoHandler THEN Uses(r, h) ELSE Goes(r, "relay")

(* Mutant of LookupRelay: the stat of the conventional socket is skipped.  *)
LookupRelayOnly(r) ==
    /\ At(r, "relay")
    /\ IF Relay(visit[r].name) # NoInfo THEN Wants(r, "relay") ELSE Goes(r, "apex")

LookupRelay(r) ==
    /\ At(r, "relay")
    /\ IF Relay(visit[r].name) # NoInfo THEN Wants(r, "relay") ELSE Goes(r, "stat")

StatSocket(r) ==
    /\ At(r, "stat")
    /\ IF sock[visit[r].name] THEN Wants(r, "socket") ELSE Goes(r, "apex")

StatFails(r) == At(r, "stat") /\ Respond(r, "500")

LookupApex(r) ==
    /\ At(r, "apex")
    /\ IF User(visit[r].name) # NoInfo THEN Goes(r, "users") ELSE Respond(r, "404")

-----------------------------------------------------------------------------
(* serveUser                                                               *)

LoadUser(r) ==
    /\ At(r, "users")
    /\ LET i == User(visit[r].name) IN
       IF i = NoInfo THEN Respond(r, "404")
       ELSE Advance(r, [visit[r] EXCEPT !.at = "owner", !.seen = i])

(* checkSocketOwner: the user and the file are the environment's.          *)
CheckOwner(r) ==
    /\ At(r, "owner")
    /\ Goes(r, "proxy") \/ Respond(r, "404") \/ Respond(r, "500")

LookupUserProxy(r) ==
    /\ At(r, "proxy")
    /\ LET h == proxies["user"][visit[r].name] IN
       IF h # NoHandler THEN Uses(r, h) ELSE Wants(r, "user")

-----------------------------------------------------------------------------
(* The reverse proxies                                                     *)

Slot(c) == IF c = "user" THEN "user" ELSE "relay"

(* Mutant of PutProxy: Store instead of LoadOrStore.                       *)
StoreProxy(r) ==
    /\ At(r, "put")
    /\ \E new \in Handlers \ Referenced :
        /\ proxies' = [proxies EXCEPT ![Slot(visit[r].want)][visit[r].name] = new]
        /\ visit' = [visit EXCEPT ![r].at = "rewrite", ![r].handler = new]
        /\ UNCHANGED <<vars, sock>>
        /\ Keep([what EXCEPT ![new] = visit[r].want], idle)

(* LoadOrStore: the proxy made for this request is used only when no other *)
(* request put one first.                                                  *)
PutProxy(r) ==
    /\ At(r, "put")
    /\ LET v == visit[r]
           k == Slot(v.want)
           h == proxies[k][v.name] IN
       IF h # NoHandler THEN Uses(r, h)
       ELSE \E new \in Handlers \ Referenced :
            /\ proxies' = [proxies EXCEPT ![k][v.name] = new]
            /\ what' = [what EXCEPT ![new] = v.want]
            /\ visit' = [visit EXCEPT ![r].at = "rewrite", ![r].handler = new]
            /\ UNCHANGED <<vars, idle, sock>>

Rewrite(r) ==
    /\ At(r, "rewrite")
    /\ Advance(r, [visit[r] EXCEPT !.at = "conn", !.key = KeyOf(r)])

Reusable(r) == {c \in idle[visit[r].handler] : c.key = visit[r].key}

ReuseConn(r) ==
    /\ At(r, "conn")
    /\ \E c \in Reusable(r) :
        /\ visit' = [visit EXCEPT ![r].at = "trip", ![r].conn = c]
        /\ idle' = [idle EXCEPT ![visit[r].handler] = @ \ {c}]
    /\ UNCHANGED <<vars, proxies, what, sock>>

(* Mutant of Dial: a registry entry that is gone is not an error.          *)
DialUnchecked(r) ==
    /\ At(r, "conn") /\ Reusable(r) = {}
    /\ Advance(r, [visit[r] EXCEPT !.at = "trip",
                      !.conn = [key |-> visit[r].key, to |-> DialTarget(r)]])

Dial(r) ==
    /\ At(r, "conn") /\ Reusable(r) = {} /\ DialTarget(r) # NoInfo
    /\ Advance(r, [visit[r] EXCEPT !.at = "trip",
                      !.conn = [key |-> visit[r].key, to |-> DialTarget(r)]])

(* No entry, no socket, or nobody listening: the ErrorHandler answers.     *)
DialFails(r) == At(r, "conn") /\ Reusable(r) = {} /\ Respond(r, "502")

(* The backend answers; the Transport keeps the connection or closes it.   *)
Finish(r) ==
    /\ At(r, "trip")
    /\ LET h == visit[r].handler IN
       \E kept \in {{}, {visit[r].conn}} :
        /\ visit' = [visit EXCEPT ![r] = Answered("200")]
        /\ UNCHANGED <<vars, proxies, sock>>
        /\ Keep(what, [idle EXCEPT ![h] = @ \cup kept])

TripFails(r) == At(r, "trip") /\ Respond(r, "502")

Visit(r) ==
    \/ Arrive(r) \/ LookupProxy(r) \/ LookupRelay(r) \/ StatSocket(r) \/ StatFails(r)
    \/ LookupApex(r) \/ LoadUser(r) \/ CheckOwner(r) \/ LookupUserProxy(r)
    \/ PutProxy(r) \/ Rewrite(r) \/ ReuseConn(r) \/ Dial(r) \/ DialFails(r)
    \/ Finish(r) \/ TripFails(r)

-----------------------------------------------------------------------------
(* The control plane and the environment                                   *)

Disturbed(n) ==
    [r \in Visitors |-> IF visit[r].name = n THEN [visit[r] EXCEPT !.calm = FALSE]
                        ELSE visit[r]]

(* The steps of the control handlers that do not touch the proxies.        *)
Control(c) ==
    /\ HandlerStep(c)
    /\ visit' = IF pc[c] = "idle" THEN Disturbed(req'[c].name) ELSE visit
    /\ UNCHANGED <<proxies, what, idle, sock>>

(* Mutants of DropCached: a handler deletes from the other map; only the   *)
(* handlers for relays delete.                                             *)
DropWrongMap(c) ==
    /\ DropProxy(c)
    /\ proxies' = [k \in Kinds |-> IF k = Kind(c) THEN proxies[k]
                                   ELSE [proxies[k] EXCEPT ![req[c].name] = NoHandler]]
    /\ UNCHANGED <<sock, visit>>
    /\ Keep(what, idle)

DropRelaysOnly(c) ==
    /\ DropProxy(c)
    /\ proxies' = IF Kind(c) = "relay"
                  THEN [proxies EXCEPT !["relay"][req[c].name] = NoHandler] ELSE proxies
    /\ UNCHANGED <<sock, visit>>
    /\ Keep(what, idle)

(* targetMap.Delete, userProxyMap.Delete.                                  *)
DropCached(c) ==
    /\ DropProxy(c)
    /\ proxies' = [proxies EXCEPT ![Kind(c)][req[c].name] = NoHandler]
    /\ UNCHANGED <<sock, visit>>
    /\ Keep(what, idle)

(* A service creates or removes its socket.                                *)
ToggleSocket(n) ==
    /\ sock' = [sock EXCEPT ![n] = ~@]
    /\ visit' = Disturbed(n)
    /\ UNCHANGED <<vars, proxies, what, idle>>

BackendCloses(h) ==
    /\ \E c \in idle[h] : idle' = [idle EXCEPT ![h] = @ \ {c}]
    /\ UNCHANGED <<vars, proxies, what, sock, visit>>

(* Maps, proxies, pools and requests go with the process.                  *)
Process ==
    /\ ProcessStep
    /\ proxies' = NoProxies
    /\ what' = [h \in Handlers |-> "free"]
    /\ idle' = [h \in Handlers |-> {}]
    /\ visit' = [r \in Visitors |-> Answered("none")]
    /\ UNCHANGED sock

RoutingNext ==
    \/ \E c \in Clients : Control(c) \/ DropCached(c)
    \/ \E r \in Visitors : Visit(r)
    \/ \E n \in Conventional : ToggleSocket(n)
    \/ \E h \in Handlers : BackendCloses(h)
    \/ Process

RoutingSpec == RoutingInit /\ [][RoutingNext]_allVars

-----------------------------------------------------------------------------
(* Properties                                                              *)

(* A calm request is one during which no control request on its name ran   *)
(* and its conventional socket neither came nor went.                      *)
Calm(r, stage) == At(r, stage) /\ visit[r].calm
Made(r) == what[visit[r].handler]

(* A replaced or removed target is never reached by a later request: not   *)
(* by a proxy another request put back, not by a pooled connection of an   *)
(* old proxy, not under the scheme or the Host the old entry asked for.    *)
ServesRegistered ==
    \A r \in Visitors : (Calm(r, "trip") /\ Made(r) = "relay") =>
        /\ Relay(visit[r].name) # NoInfo
        /\ visit[r].conn.to = Relay(visit[r].name)
        /\ visit[r].conn.key = RelayKey(visit[r].name)

(* A calm request of a delegated user goes to the registered socket, and   *)
(* that is the one whose owner was checked for this very request, whatever *)
(* connections the proxy has pooled.                                       *)
ServesChecked ==
    \A r \in Visitors : (Calm(r, "trip") /\ Made(r) = "user") =>
        /\ visit[r].conn.to = User(visit[r].name)
        /\ visit[r].conn.to = visit[r].seen

(* Concurrent calm requests for one name share one proxy, and so its pool. *)
SharedProxy ==
    \A q, r \in Visitors :
        (Calm(q, "conn") /\ Calm(r, "conn") /\ visit[q].name = visit[r].name
            /\ Slot(Made(q)) = Slot(Made(r)))
        => visit[q].handler = visit[r].handler

(* No calm request is told that its name does not exist while an explicit  *)
(* relay or a conventional socket has it, or while its user is delegated   *)
(* and passed the owner check.                                             *)
NotFoundIsTrue ==
    [][\A r \in Visitors :
        LET v == visit[r] IN
        (v.calm /\ visit'[r].status = "404" /\ v.at # "owner") =>
            /\ User(v.name) = NoInfo
            /\ ~v.sub => Relay(v.name) = NoInfo /\ ~sock[v.name]]_allVars

(* "Drop any cached proxy so the new relay takes precedence over a         *)
(* conventional socket of the same name."                                  *)
RelayTakesPrecedence ==
    \A r \in Visitors : (Calm(r, "rewrite") /\ Made(r) = "socket")
        => Relay(visit[r].name) = NoInfo
=============================================================================
