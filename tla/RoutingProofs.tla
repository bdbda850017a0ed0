--------------------------- MODULE RoutingProofs ----------------------------
(***************************************************************************)
(* Proofs about Routing, for any number of requests and control clients,   *)
(* any names, targets and proxies.                                         *)
(***************************************************************************)
EXTENDS Routing, RegistryProofs

(* A handler has changed an entry and not dropped its cached proxy yet.    *)
Dirty(k, n) == \E c \in Clients : pc[c] = "drop" /\ Kind(c) = k /\ req[c].name = n

Holding == {"rewrite", "conn", "trip"}

(* Connection c goes where registry k has name n, filed as such.           *)
Leads(k, n, c) ==
    IF k = "relay" THEN c.to = Relay(n) /\ c.key = RelayKey(n) ELSE c.to = User(n)

(* A proxy is cached in one place, under the map of its constructor.       *)
CacheInv ==
    \A j, k \in Kinds, m, n \in Names :
        proxies[k][n] # NoHandler =>
            /\ what[proxies[k][n]] \in Constructors
            /\ Slot(what[proxies[k][n]]) = k
            /\ proxies[j][m] = proxies[k][n] => j = k /\ m = n

(* A proxy nobody refers to has no pool.                                   *)
GarbageInv == \A h \in Handlers \ Referenced : idle[h] = {}

(* The pool of a cached proxy follows the registry.                        *)
PoolInv ==
    \A k \in Kinds, n \in Names :
        LET h == proxies[k][n] IN
        h # NoHandler /\ what[h] = k /\ ~Dirty(k, n) => \A c \in idle[h] : Leads(k, n, c)

(* What is set at which stage of a request.                                *)
StageInv(v) ==
    /\ IF v.at = "idle" THEN ~v.calm ELSE v.name \in Names /\ v.status = "none"
    /\ v.at \in Holding <=> v.handler # NoHandler
    /\ v.at = "put" => v.want \in Constructors
    /\ v.at = "conn" => v.key \in Keys
    /\ v.at = "trip" => v.conn \in Conns
    /\ v.at \in {"lookup", "relay", "stat", "apex"} => ~v.sub

(* A proxy that a request holds is cached, if at all, for its name.        *)
HolderInv(v) ==
    v.handler # NoHandler =>
        /\ what[v.handler] \in Constructors
        /\ \A k \in Kinds, n \in Names :
            proxies[k][n] = v.handler => k = Slot(what[v.handler]) /\ n = v.name

(* The key and the connection of a request whose proxy is the cached one.  *)
TripInv(v) ==
    LET k == what[v.handler] IN
    (v.at \in Holding /\ k \in Kinds /\ proxies[k][v.name] = v.handler
            /\ ~Dirty(k, v.name)) =>
        /\ v.at = "conn" /\ k = "relay" => v.key = RelayKey(v.name)
        /\ v.at = "trip" => Leads(k, v.name, v.conn)

(* What a calm request has seen is still so.                               *)
CalmInv(v) ==
    v.calm =>
        /\ NoControlOn(v.name)
        /\ v.at \in {"stat", "apex"} => Relay(v.name) = NoInfo
        /\ v.at = "apex" => ~sock[v.name]
        /\ v.at = "users" /\ ~v.sub => User(v.name) # NoInfo
        /\ \/ v.at \in {"owner", "proxy"}
           \/ v.at = "put" /\ v.want = "user"
           \/ v.at \in Holding /\ what[v.handler] = "user"
           => v.seen = User(v.name)
        /\ v.at \in Holding => proxies[Slot(what[v.handler])][v.name] = v.handler

VisitInv(v) == StageInv(v) /\ HolderInv(v) /\ TripInv(v) /\ CalmInv(v)

RoutingInv ==
    /\ RoutingTypeOK
    /\ CacheInv /\ GarbageInv /\ PoolInv
    /\ \A r \in Visitors : VisitInv(visit[r])

-----------------------------------------------------------------------------
(* Lemmas about requests and proxies                                       *)

(* The two registries, and the maps of proxies beside them.                *)
LEMMA Slots ==
    /\ Kinds = {"relay", "user"}
    /\ \A c \in Constructors : Slot(c) \in Kinds /\ (Slot(c) = "user" <=> c = "user")
    /\ "free" \notin Constructors
    /\ NoHandler \notin Handlers
BY RoutingAssumption DEF Slot, Constructors

(* An answered request has no name, proxy or connection.                   *)
LEMMA AnsweredType ==
    ASSUME NEW s \in {"none", "200", "404", "500", "502"}
    PROVE  /\ Answered(s) \in Visits
           /\ Answered(s).at = "idle" /\ Answered(s).calm = FALSE
           /\ Answered(s).handler = NoHandler /\ Answered(s).status = s
BY DEF Answered, Visits, Stages

(* A request without a name or a proxy has nothing to keep to.             *)
LEMMA AnsweredInv ==
    ASSUME NEW r \in Visitors, NEW s \in {"none", "200", "404", "500", "502"},
           visit'[r] = Answered(s)
    PROVE  VisitInv(visit[r])'
BY AnsweredType DEF VisitInv, StageInv, HolderInv, TripInv, CalmInv, Holding

(* What Keep leaves of a proxy and of its pool.                            *)
LEMMA KeepEffect ==
    ASSUME NEW w \in [Handlers -> Constructors \cup {"free"}],
           NEW i \in [Handlers -> SUBSET Conns], Keep(w, i)
    PROVE  /\ what' \in [Handlers -> Constructors \cup {"free"}]
           /\ idle' \in [Handlers -> SUBSET Conns]
           /\ \A h \in Handlers : h \in Referenced' => what'[h] = w[h] /\ idle'[h] = i[h]
           /\ GarbageInv'
BY DEF Keep, GarbageInv

(* A cached proxy and one that a request holds are referred to.            *)
LEMMA ReferencedBy ==
    /\ \A k \in Kinds, n \in Names : proxies[k][n] \in Referenced
    /\ \A r \in Visitors : visit[r].handler \in Referenced
BY DEF Referenced

(* A step of request r alone keeps the invariant if it keeps r's part and  *)
(* lets go of no proxy.  It may take connections out of the pools.         *)
LEMMA MoveStep ==
    ASSUME RoutingInv, NEW r \in Visitors, NEW v \in Visits,
           visit' = [visit EXCEPT ![r] = v],
           UNCHANGED <<vars, proxies, what, sock>>,
           idle' \in [Handlers -> SUBSET Conns],
           \A h \in Handlers : idle'[h] \subseteq idle[h],
           visit[r].handler \in {NoHandler, v.handler}, VisitInv(v)
    PROVE  RoutingInv'
<1>1. /\ visit' \in [Visitors -> Visits] /\ visit'[r] = v
      /\ \A q \in Visitors \ {r} : visit'[q] = visit[q]
    BY DEF RoutingInv, RoutingTypeOK
<1>2. UNCHANGED <<vars, proxies, what, sock>>
    OBVIOUS
<1>3. RoutingTypeOK'
    <2>1. TypeOK'
        BY <1>2, StepType DEF RoutingInv, RoutingTypeOK
    <2> QED
        BY <1>1, <1>2, <2>1 DEF RoutingInv, RoutingTypeOK
<1>4. CacheInv'
    BY <1>2 DEF RoutingInv, CacheInv
<1>5. GarbageInv'
    <2>1. \A h \in Handlers : h \in Referenced => h \in Referenced'
        BY <1>1, <1>2, Slots DEF Referenced
    <2> QED
        BY <1>2, <2>1 DEF RoutingInv, GarbageInv
<1>6. PoolInv'
    BY <1>2 DEF RoutingTypeOK, RoutingInv, PoolInv, Dirty, Leads, Relay, User, RelayKey, Kind, vars
<1>7. ASSUME NEW q \in Visitors, q # r PROVE VisitInv(visit[q])'
    <2>1. visit'[q] = visit[q]
        BY <1>1, <1>7
    <2> QED
        BY <1>2, <1>7, <2>1
           DEF RoutingInv, VisitInv, StageInv, HolderInv, TripInv, CalmInv, Dirty, Leads,
               Relay, User, RelayKey, Kind, NoControlOn, vars
<1>8. VisitInv(visit[r])'
    BY <1>1, <1>2
       DEF VisitInv, StageInv, HolderInv, TripInv, CalmInv, Dirty, Leads,
           Relay, User, RelayKey, Kind, NoControlOn, vars
<1> QED
    BY <1>3, <1>4, <1>5, <1>6, <1>7, <1>8 DEF RoutingInv

(* In particular a step that changes nothing but r.                        *)
LEMMA AdvanceStep ==
    ASSUME RoutingInv, NEW r \in Visitors, NEW v \in Visits, Advance(r, v),
           visit[r].handler \in {NoHandler, v.handler}, VisitInv(v)
    PROVE  RoutingInv'
<1>1. idle' \in [Handlers -> SUBSET Conns] /\ \A h \in Handlers : idle'[h] \subseteq idle[h]
    BY DEF Advance, RoutingInv, RoutingTypeOK
<1> QED
    BY <1>1, MoveStep DEF Advance

(* So does the end of a request, after which what nobody refers to is      *)
(* reclaimed, if the connections kept lead to where they should.           *)
LEMMA EndStep ==
    ASSUME RoutingInv, NEW r \in Visitors, NEW s \in {"200", "404", "500", "502"},
           visit' = [visit EXCEPT ![r] = Answered(s)],
           UNCHANGED <<vars, proxies, sock>>,
           NEW i \in [Handlers -> SUBSET Conns], Keep(what, i),
           \A k \in Kinds, n \in Names :
               LET h == proxies[k][n] IN
               h # NoHandler /\ what[h] = k /\ ~Dirty(k, n)
                   => \A c \in i[h] : Leads(k, n, c)
    PROVE  RoutingInv'
<1>1. /\ visit' \in [Visitors -> Visits] /\ visit'[r] = Answered(s)
      /\ \A q \in Visitors \ {r} : visit'[q] = visit[q]
    BY AnsweredType DEF RoutingInv, RoutingTypeOK
<1>2. /\ what' \in [Handlers -> Constructors \cup {"free"}]
      /\ idle' \in [Handlers -> SUBSET Conns]
      /\ \A h \in Handlers : h \in Referenced' => what'[h] = what[h] /\ idle'[h] = i[h]
      /\ GarbageInv'
    BY KeepEffect DEF RoutingInv, RoutingTypeOK
<1>3. /\ \A k \in Kinds, n \in Names : proxies'[k][n] \in Referenced'
      /\ \A q \in Visitors : visit'[q].handler \in Referenced'
    BY DEF Referenced
<1>4. RoutingTypeOK'
    <2>1. TypeOK'
        BY StepType DEF RoutingInv, RoutingTypeOK
    <2> QED
        BY <1>1, <1>2, <2>1 DEF RoutingInv, RoutingTypeOK
<1>5. \A k \in Kinds, n \in Names : proxies[k][n] # NoHandler =>
        what'[proxies[k][n]] = what[proxies[k][n]] /\ idle'[proxies[k][n]] = i[proxies[k][n]]
    BY <1>2, <1>3 DEF RoutingInv, RoutingTypeOK
<1>6. CacheInv'
    BY <1>5 DEF RoutingInv, CacheInv
<1>7. PoolInv'
    BY <1>5 DEF PoolInv, Dirty, Leads, Relay, User, RelayKey, Kind, vars
<1>8. ASSUME NEW q \in Visitors, q # r PROVE VisitInv(visit[q])'
    <2>1. visit'[q] = visit[q]
        BY <1>1, <1>8
    <2>2. visit[q].handler # NoHandler => what'[visit[q].handler] = what[visit[q].handler]
        BY <1>2, <1>3, <2>1 DEF RoutingInv, RoutingTypeOK, Visits
    <2>3. StageInv(visit[q])' /\ HolderInv(visit[q])'
        BY <1>8, <2>1, <2>2 DEF RoutingInv, VisitInv, StageInv, HolderInv
    <2>4. visit[q].at \in Holding => visit[q].handler # NoHandler
        BY DEF RoutingInv, VisitInv, StageInv
    <2>5. TripInv(visit[q])' /\ CalmInv(visit[q])'
        BY <1>8, <2>1, <2>2, <2>4
           DEF RoutingInv, VisitInv, TripInv, CalmInv, Dirty, Leads,
               Relay, User, RelayKey, Kind, NoControlOn, vars
    <2> QED
        BY <2>3, <2>5 DEF VisitInv
<1>9. VisitInv(visit[r])'
    BY <1>1, AnsweredInv
<1> QED
    BY <1>2, <1>4, <1>6, <1>7, <1>8, <1>9 DEF RoutingInv

(* A request that ends without a connection to keep.                       *)
LEMMA RespondStep ==
    ASSUME RoutingInv, NEW r \in Visitors, NEW s \in {"200", "404", "500", "502"},
           Respond(r, s)
    PROVE  RoutingInv'
<1>1. idle \in [Handlers -> SUBSET Conns] /\ Keep(what, idle)
    BY DEF Respond, RoutingInv, RoutingTypeOK
<1>2. \A k \in Kinds, n \in Names :
        LET h == proxies[k][n] IN
        h # NoHandler /\ what[h] = k /\ ~Dirty(k, n) => \A c \in idle[h] : Leads(k, n, c)
    BY DEF RoutingInv, PoolInv
<1> QED
    BY <1>1, <1>2, EndStep DEF Respond

(* Nothing is cached, pooled or under way before the first start.          *)
LEMMA InitRouting == RoutingInit => RoutingInv
<1> SUFFICES ASSUME RoutingInit PROVE RoutingInv
    OBVIOUS
<1>1. \A r \in Visitors : visit[r] = Answered("none")
    BY DEF RoutingInit
<1>2. RoutingTypeOK
    <2>1. TypeOK /\ NoProxies \in [Kinds -> [Names -> Handlers \cup {NoHandler}]]
        BY InitType DEF RoutingInit, NoProxies
    <2>2. visit \in [Visitors -> Visits]
        BY AnsweredType DEF RoutingInit
    <2> QED
        BY <2>1, <2>2 DEF RoutingInit, RoutingTypeOK
<1>3. CacheInv /\ GarbageInv /\ PoolInv
    BY DEF RoutingInit, NoProxies, CacheInv, GarbageInv, PoolInv
<1>4. \A r \in Visitors : VisitInv(visit[r])
    BY <1>1, AnsweredType DEF VisitInv, StageInv, HolderInv, TripInv, CalmInv, Holding
<1> QED
    BY <1>2, <1>3, <1>4 DEF RoutingInv

-----------------------------------------------------------------------------
(* The steps of a request                                                  *)

(* The type of a request, and what is known of it.                         *)
LEMMA Known ==
    ASSUME RoutingInv, NEW r \in Visitors
    PROVE  /\ visit[r] \in Visits /\ StageInv(visit[r]) /\ HolderInv(visit[r])
           /\ TripInv(visit[r]) /\ CalmInv(visit[r])
BY DEF RoutingInv, RoutingTypeOK, VisitInv

(* A request that takes the proxy cached for its name.                     *)
LEMMA UseCached ==
    ASSUME RoutingInv, NEW r \in Visitors, NEW k \in Kinds,
           visit[r].at \notin Holding \cup {"idle"},
           proxies[k][visit[r].name] # NoHandler,
           visit[r].calm /\ k = "user" => visit[r].seen = User(visit[r].name),
           Uses(r, proxies[k][visit[r].name])
    PROVE  RoutingInv'
<1> DEFINE v == visit[r]
           h == proxies[k][v.name]
           w == [v EXCEPT !.at = "rewrite", !.handler = h]
<1>1. v.name \in Names /\ v.handler = NoHandler
    BY Known DEF StageInv
<1>2. h \in Handlers
    BY <1>1 DEF RoutingInv, RoutingTypeOK
<1>3. w \in Visits
    BY <1>2, Known DEF Visits, Stages
<1>4. what[h] \in Constructors /\ Slot(what[h]) = k /\ (what[h] = "user" => k = "user")
    BY <1>1, Slots DEF RoutingInv, CacheInv
<1>5. HolderInv(w)
    BY <1>1, <1>2, <1>4 DEF RoutingInv, CacheInv, HolderInv
<1>6. StageInv(w) /\ TripInv(w) /\ CalmInv(w)
    BY <1>1, <1>4, Known DEF StageInv, TripInv, CalmInv, Holding
<1>7. Advance(r, w)
    BY DEF Uses
<1> QED
    BY <1>1, <1>3, <1>5, <1>6, <1>7, AdvanceStep DEF VisitInv

(* A request comes in, and is calm if no control request runs on its name. *)
LEMMA ArriveInv ==
    ASSUME RoutingInv, NEW r \in Visitors, Arrive(r) PROVE RoutingInv'
<1>1. PICK n \in Names, sub \in BOOLEAN :
        IF ~sub /\ n = ReservedName
        THEN Respond(r, "404")
        ELSE Advance(r, [Answered("none") EXCEPT
                            !.at = IF sub THEN "users" ELSE "lookup",
                            !.name = n, !.sub = sub, !.calm = NoControlOn(n)])
    BY DEF Arrive
<1>2. CASE Respond(r, "404")
    BY <1>2, RespondStep
<1>3. CASE ~Respond(r, "404")
    <2> DEFINE v == [Answered("none") EXCEPT
                        !.at = IF sub THEN "users" ELSE "lookup",
                        !.name = n, !.sub = sub, !.calm = NoControlOn(n)]
    <2>1. /\ v.at = (IF sub THEN "users" ELSE "lookup") /\ v.name = n
          /\ v.handler = NoHandler /\ v.status = "none"
        BY DEF Answered
    <2>2. v.sub = sub /\ v.calm = NoControlOn(n)
        BY ZenonT(20) DEF Answered
    <2>3. NoControlOn(n) \in BOOLEAN
        BY DEF NoControlOn
    <2>4. v \in Visits
        BY <2>3 DEF Answered, Visits, Stages
    <2>5. StageInv(v) /\ HolderInv(v) /\ TripInv(v) /\ CalmInv(v)
        BY <2>1, <2>2 DEF StageInv, HolderInv, TripInv, CalmInv, Holding
    <2>6. visit[r].handler \in {NoHandler, v.handler}
        BY Known DEF Arrive, At, StageInv, Holding
    <2> HIDE DEF v
    <2>7. Advance(r, v)
        BY <1>1, <1>3 DEF v
    <2> QED
        BY <2>4, <2>5, <2>6, <2>7, AdvanceStep DEF VisitInv
<1> QED
    BY <1>2, <1>3

(* A relay or socket proxy that is cached is used, another is looked for.  *)
LEMMA LookupProxyInv ==
    ASSUME RoutingInv, NEW r \in Visitors, LookupProxy(r) PROVE RoutingInv'
<1> DEFINE v == visit[r]
           h == proxies["relay"][v.name]
<1>1. v.at = "lookup" /\ v.name \in Names /\ v.handler = NoHandler /\ ~v.sub
    BY Known DEF LookupProxy, At, StageInv, Holding
<1>2. CASE h = NoHandler
    <2> DEFINE w == [v EXCEPT !.at = "relay"]
    <2>1. w \in Visits /\ VisitInv(w)
        BY <1>1, Known DEF Visits, Stages, VisitInv, StageInv, HolderInv, TripInv, CalmInv, Holding
    <2>2. Advance(r, w)
        BY <1>2 DEF LookupProxy, Goes
    <2> QED
        BY <1>1, <2>1, <2>2, AdvanceStep
<1>3. CASE h # NoHandler
    <2>1. Uses(r, h) /\ "relay" \in Kinds
        BY <1>3, Slots DEF LookupProxy
    <2> QED
        BY <1>1, <1>3, <2>1, Known, UseCached DEF Holding
<1> QED
    BY <1>2, <1>3

(* A relay that is registered wants a proxy of its own.                    *)
LEMMA LookupRelayInv ==
    ASSUME RoutingInv, NEW r \in Visitors, LookupRelay(r) PROVE RoutingInv'
<1> DEFINE v == visit[r]
<1>1. v.at = "relay" /\ v.name \in Names /\ v.handler = NoHandler /\ ~v.sub
    BY Known DEF LookupRelay, At, StageInv, Holding
<1>2. CASE Relay(v.name) = NoInfo
    <2> DEFINE w == [v EXCEPT !.at = "stat"]
    <2>1. w \in Visits /\ VisitInv(w)
        BY <1>1, <1>2, Known
           DEF Visits, Stages, VisitInv, StageInv, HolderInv, TripInv, CalmInv, Holding
    <2>2. Advance(r, w)
        BY <1>2 DEF LookupRelay, Goes
    <2> QED
        BY <1>1, <2>1, <2>2, AdvanceStep
<1>3. CASE Relay(v.name) # NoInfo
    <2> DEFINE w == [v EXCEPT !.at = "put", !.want = "relay"]
    <2>1. w \in Visits /\ VisitInv(w)
        BY <1>1, Known DEF Visits, Stages, Constructors,
               VisitInv, StageInv, HolderInv, TripInv, CalmInv, Holding
    <2>2. Advance(r, w)
        BY <1>3 DEF LookupRelay, Wants
    <2> QED
        BY <1>1, <2>1, <2>2, AdvanceStep
<1> QED
    BY <1>2, <1>3

(* So does a conventional socket that is there.                            *)
LEMMA StatSocketInv ==
    ASSUME RoutingInv, NEW r \in Visitors, StatSocket(r) PROVE RoutingInv'
<1> DEFINE v == visit[r]
<1>1. v.at = "stat" /\ v.name \in Names /\ v.handler = NoHandler /\ ~v.sub
    BY Known DEF StatSocket, At, StageInv, Holding
<1>2. CASE ~sock[v.name]
    <2> DEFINE w == [v EXCEPT !.at = "apex"]
    <2>1. w \in Visits /\ VisitInv(w)
        BY <1>1, <1>2, Known
           DEF Visits, Stages, VisitInv, StageInv, HolderInv, TripInv, CalmInv, Holding
    <2>2. Advance(r, w)
        BY <1>2 DEF StatSocket, Goes
    <2> QED
        BY <1>1, <2>1, <2>2, AdvanceStep
<1>3. CASE sock[v.name]
    <2> DEFINE w == [v EXCEPT !.at = "put", !.want = "socket"]
    <2>1. w \in Visits /\ VisitInv(w)
        BY <1>1, Known DEF Visits, Stages, Constructors,
               VisitInv, StageInv, HolderInv, TripInv, CalmInv, Holding
    <2>2. Advance(r, w)
        BY <1>3 DEF StatSocket, Wants
    <2> QED
        BY <1>1, <2>1, <2>2, AdvanceStep
<1> QED
    BY <1>2, <1>3

(* A user is looked for last, and served under the apex.                   *)
LEMMA LookupApexInv ==
    ASSUME RoutingInv, NEW r \in Visitors, LookupApex(r) PROVE RoutingInv'
<1> DEFINE v == visit[r]
<1>1. v.at = "apex" /\ v.name \in Names /\ v.handler = NoHandler /\ ~v.sub
    BY Known DEF LookupApex, At, StageInv, Holding
<1>2. CASE User(v.name) # NoInfo
    <2> DEFINE w == [v EXCEPT !.at = "users"]
    <2>1. w \in Visits /\ VisitInv(w)
        BY <1>1, <1>2, Known
           DEF Visits, Stages, VisitInv, StageInv, HolderInv, TripInv, CalmInv, Holding
    <2>2. Advance(r, w)
        BY <1>2 DEF LookupApex, Goes
    <2> QED
        BY <1>1, <2>1, <2>2, AdvanceStep
<1>3. CASE User(v.name) = NoInfo
    <2>1. Respond(r, "404")
        BY <1>3 DEF LookupApex
    <2> QED
        BY <2>1, RespondStep
<1> QED
    BY <1>2, <1>3

(* The delegation is read, for the check of the socket's owner.            *)
LEMMA LoadUserInv ==
    ASSUME RoutingInv, NEW r \in Visitors, LoadUser(r) PROVE RoutingInv'
<1> DEFINE v == visit[r]
<1>1. v.at = "users" /\ v.name \in Names /\ v.handler = NoHandler
    BY Known DEF LoadUser, At, StageInv, Holding
<1>2. CASE User(v.name) # NoInfo
    <2> DEFINE w == [v EXCEPT !.at = "owner", !.seen = User(v.name)]
    <2>1. User(v.name) \in Infos \cup {NoInfo}
        BY <1>1, Slots DEF RoutingInv, RoutingTypeOK, TypeOK, RegMap, User
    <2>2. w \in Visits
        BY <2>1, Known DEF Visits, Stages
    <2>3. VisitInv(w)
        BY <1>1, Known DEF Visits, VisitInv, StageInv, HolderInv, TripInv, CalmInv, Holding
    <2>4. Advance(r, w)
        BY <1>2 DEF LoadUser
    <2> QED
        BY <1>1, <2>2, <2>3, <2>4, AdvanceStep
<1>3. CASE User(v.name) = NoInfo
    <2>1. Respond(r, "404")
        BY <1>3 DEF LoadUser
    <2> QED
        BY <2>1, RespondStep
<1> QED
    BY <1>2, <1>3

(* The owner of the socket is checked.                                     *)
LEMMA CheckOwnerInv ==
    ASSUME RoutingInv, NEW r \in Visitors, CheckOwner(r) PROVE RoutingInv'
<1> DEFINE v == visit[r]
           w == [v EXCEPT !.at = "proxy"]
<1>1. v.at = "owner" /\ v.name \in Names /\ v.handler = NoHandler
    BY Known DEF CheckOwner, At, StageInv, Holding
<1>2. w \in Visits /\ VisitInv(w)
    BY <1>1, Known DEF Visits, Stages, VisitInv, StageInv, HolderInv, TripInv, CalmInv, Holding
<1> QED
    BY <1>1, <1>2, AdvanceStep, RespondStep DEF CheckOwner, Goes

(* A user proxy that is cached is used.                                    *)
LEMMA LookupUserProxyInv ==
    ASSUME RoutingInv, NEW r \in Visitors, LookupUserProxy(r) PROVE RoutingInv'
<1> DEFINE v == visit[r]
           h == proxies["user"][v.name]
<1>1. v.at = "proxy" /\ v.name \in Names /\ v.handler = NoHandler
    BY Known DEF LookupUserProxy, At, StageInv, Holding
<1>2. CASE h = NoHandler
    <2> DEFINE w == [v EXCEPT !.at = "put", !.want = "user"]
    <2>1. w \in Visits /\ VisitInv(w)
        BY <1>1, Known DEF Visits, Stages, Constructors,
               VisitInv, StageInv, HolderInv, TripInv, CalmInv, Holding
    <2>2. Advance(r, w)
        BY <1>2 DEF LookupUserProxy, Wants
    <2> QED
        BY <1>1, <2>1, <2>2, AdvanceStep
<1>3. CASE h # NoHandler
    <2>1. Uses(r, h) /\ "user" \in Kinds
        BY <1>3, Slots DEF LookupUserProxy
    <2> QED
        BY <1>1, <1>3, <2>1, Known, UseCached DEF Holding, CalmInv
<1> QED
    BY <1>2, <1>3

(* The URL is rewritten: under the key that the registry asks for now.     *)
LEMMA RewriteInv ==
    ASSUME RoutingInv, NEW r \in Visitors, Rewrite(r) PROVE RoutingInv'
<1> DEFINE v == visit[r]
           w == [v EXCEPT !.at = "conn", !.key = KeyOf(r)]
<1>1. v.at = "rewrite" /\ v.name \in Names
    BY Known DEF Rewrite, At, StageInv
<1>2. KeyOf(r) \in Keys
    <2>1. RelayKey(v.name) \in Keys
        <3>1. Relay(v.name) \in Infos \cup {NoInfo}
            BY <1>1, Slots DEF RoutingInv, RoutingTypeOK, TypeOK, RegMap, Relay
        <3> QED
            BY <3>1, RoutingAssumption DEF RelayKey, Keys, Schemes, Hosts, cleanHost
    <2>2. UserKey(v) \in Keys
        BY DEF UserKey, Keys, Schemes, Hosts, userBackendHost
    <2> QED
        BY <2>1, <2>2 DEF KeyOf, Keys, Schemes, Hosts
<1>3. w \in Visits
    BY <1>2, Known DEF Visits, Stages
<1>4. HolderInv(w) /\ StageInv(w) /\ CalmInv(w)
    BY <1>1, <1>2, Known DEF Visits, StageInv, HolderInv, CalmInv, Holding
<1>5. TripInv(w)
    BY <1>1, Known DEF Visits, TripInv, KeyOf
<1>6. Advance(r, w)
    BY DEF Rewrite
<1>7. v.handler = w.handler
    BY Known DEF Visits
<1> QED
    BY <1>3, <1>4, <1>5, <1>6, <1>7, AdvanceStep DEF VisitInv

(* The proxy dials, where the registry says now.                           *)
LEMMA DialInv ==
    ASSUME RoutingInv, NEW r \in Visitors, Dial(r) PROVE RoutingInv'
<1> DEFINE v == visit[r]
           c == [key |-> v.key, to |-> DialTarget(r)]
           w == [v EXCEPT !.at = "trip", !.conn = c]
<1>1. v.at = "conn" /\ v.name \in Names /\ v.key \in Keys
    BY Known DEF Dial, At, StageInv
<1>2. DialTarget(r) \in Infos \cup {OwnSocket}
    <2>1. Relay(v.name) \in Infos \cup {NoInfo} /\ User(v.name) \in Infos \cup {NoInfo}
        BY <1>1, Slots DEF RoutingInv, RoutingTypeOK, TypeOK, RegMap, Relay, User
    <2> QED
        BY <2>1 DEF Dial, DialTarget
<1>3. c \in Conns /\ c.key = v.key /\ c.to = DialTarget(r)
    BY <1>1, <1>2 DEF Conns
<1> HIDE DEF c
<1>4. w \in Visits /\ w.conn = c /\ w.at = "trip" /\ w.handler = v.handler /\ w.name = v.name
    BY <1>3, Known DEF Visits, Stages
<1>5. HolderInv(w) /\ StageInv(w) /\ CalmInv(w)
    BY <1>1, <1>3, Known DEF Visits, StageInv, HolderInv, CalmInv, Holding
<1>6. TripInv(w)
    BY <1>1, <1>3, <1>4, Known, Slots DEF TripInv, DialTarget, Leads, Holding
<1>7. Advance(r, w)
    BY DEF Dial, c
<1> QED
    BY <1>4, <1>5, <1>6, <1>7, AdvanceStep DEF VisitInv

(* An idle connection of the proxy is taken.                               *)
LEMMA ReuseConnInv ==
    ASSUME RoutingInv, NEW r \in Visitors, ReuseConn(r) PROVE RoutingInv'
<1> DEFINE v == visit[r]
           h == v.handler
<1>1. v.at = "conn" /\ v.name \in Names /\ h \in Handlers
    BY Known DEF ReuseConn, At, StageInv, Holding, Visits
<1>2. PICK c \in Reusable(r) :
        /\ visit' = [visit EXCEPT ![r].at = "trip", ![r].conn = c]
        /\ idle' = [idle EXCEPT ![h] = @ \ {c}]
    BY DEF ReuseConn
<1>3. c \in idle[h] /\ c \in Conns
    BY <1>1, <1>2 DEF Reusable, RoutingInv, RoutingTypeOK
<1> DEFINE w == [v EXCEPT !.at = "trip", !.conn = c]
<1>4. visit' = [visit EXCEPT ![r] = w]
    BY <1>2 DEF RoutingInv, RoutingTypeOK
<1>5. w \in Visits /\ w.handler = h /\ w.at = "trip" /\ w.conn = c /\ w.name = v.name
    BY <1>3, Known DEF Visits, Stages
<1>6. HolderInv(w) /\ StageInv(w) /\ CalmInv(w)
    BY <1>1, <1>3, Known DEF Visits, StageInv, HolderInv, CalmInv, Holding
<1>7. TripInv(w)
    BY <1>1, <1>3, <1>5, Slots DEF TripInv, RoutingInv, PoolInv
<1>8. /\ idle' \in [Handlers -> SUBSET Conns]
      /\ \A g \in Handlers : idle'[g] \subseteq idle[g]
    BY <1>2 DEF RoutingInv, RoutingTypeOK
<1>9. UNCHANGED <<vars, proxies, what, sock>>
    BY DEF ReuseConn
<1> HIDE DEF w
<1> QED
    BY <1>4, <1>5, <1>6, <1>7, <1>8, <1>9, MoveStep DEF VisitInv

(* A request over, its connection goes back to the pool or is closed.      *)
LEMMA FinishInv ==
    ASSUME RoutingInv, NEW r \in Visitors, Finish(r) PROVE RoutingInv'
<1> DEFINE v == visit[r]
           h == v.handler
<1>1. v.at = "trip" /\ v.name \in Names /\ h \in Handlers /\ v.conn \in Conns
    BY Known DEF Finish, At, StageInv, Holding, Visits
<1>2. PICK kept \in {{}, {v.conn}} :
        /\ visit' = [visit EXCEPT ![r] = Answered("200")]
        /\ UNCHANGED <<vars, proxies, sock>>
        /\ Keep(what, [idle EXCEPT ![h] = @ \cup kept])
    BY DEF Finish
<1> DEFINE i == [idle EXCEPT ![h] = @ \cup kept]
<1>3. i \in [Handlers -> SUBSET Conns]
    BY <1>1 DEF RoutingInv, RoutingTypeOK
<1>4. ASSUME NEW k \in Kinds, NEW n \in Names, proxies[k][n] # NoHandler,
             what[proxies[k][n]] = k, ~Dirty(k, n),
             NEW c \in i[proxies[k][n]]
      PROVE  Leads(k, n, c)
    <2>1. proxies[k][n] \in Handlers
        BY <1>4 DEF RoutingInv, RoutingTypeOK
    <2>2. CASE c \in idle[proxies[k][n]]
        BY <1>4, <2>2 DEF RoutingInv, PoolInv
    <2>3. CASE c \notin idle[proxies[k][n]]
        <3>1. proxies[k][n] = h /\ c = v.conn
            BY <1>4, <2>1, <2>3 DEF RoutingInv, RoutingTypeOK
        <3>2. n = v.name
            BY <1>1, <3>1, <1>4, Known, Slots DEF HolderInv
        <3> QED
            BY <1>1, <1>4, <3>1, <3>2, Known DEF TripInv, Holding
    <2> QED
        BY <2>2, <2>3
<1> HIDE DEF i
<1>5. Keep(what, i)
    BY <1>2 DEF i
<1> QED
    BY <1>2, <1>3, <1>4, <1>5, EndStep

(* A proxy is made, unless another request put one there first.            *)
LEMMA PutProxyInv ==
    ASSUME RoutingInv, NEW r \in Visitors, PutProxy(r) PROVE RoutingInv'
<1> DEFINE v == visit[r]
           k == Slot(v.want)
<1>1. /\ v.at = "put" /\ v.name \in Names /\ v.handler = NoHandler
      /\ v.want \in Constructors /\ k \in Kinds /\ (k = "user" => v.want = "user")
    BY Known, Slots DEF PutProxy, At, StageInv, Holding
<1>2. CASE proxies[k][v.name] # NoHandler
    <2>1. Uses(r, proxies[k][v.name])
        BY <1>2 DEF PutProxy
    <2> QED
        BY <1>1, <1>2, <2>1, Known, UseCached DEF Holding, CalmInv
<1>3. CASE proxies[k][v.name] = NoHandler
    <2>1. PICK new \in Handlers \ Referenced :
            /\ proxies' = [proxies EXCEPT ![k][v.name] = new]
            /\ what' = [what EXCEPT ![new] = v.want]
            /\ visit' = [visit EXCEPT ![r].at = "rewrite", ![r].handler = new]
            /\ UNCHANGED <<vars, idle, sock>>
        BY <1>3 DEF PutProxy
    <2> DEFINE w == [v EXCEPT !.at = "rewrite", !.handler = new]
    <2>2. /\ visit' \in [Visitors -> Visits] /\ visit'[r] = w
          /\ \A q \in Visitors \ {r} : visit'[q] = visit[q]
        <3>1. w \in Visits
            BY Known DEF Visits, Stages
        <3>2. visit \in [Visitors -> Visits] /\ visit' = [visit EXCEPT ![r] = w]
            BY <2>1 DEF RoutingInv, RoutingTypeOK
        <3> HIDE DEF w
        <3> QED
            BY <3>1, <3>2
    <2>3. /\ proxies' \in [Kinds -> [Names -> Handlers \cup {NoHandler}]]
          /\ proxies'[k][v.name] = new
          /\ \A j \in Kinds, n \in Names :
                j # k \/ n # v.name => proxies'[j][n] = proxies[j][n]
        BY <1>1, <2>1 DEF RoutingInv, RoutingTypeOK
    <2>4. /\ what' \in [Handlers -> Constructors \cup {"free"}] /\ what'[new] = v.want
          /\ \A h \in Handlers \ {new} : what'[h] = what[h]
        BY <1>1, <2>1 DEF RoutingInv, RoutingTypeOK
    <2>5. /\ \A j \in Kinds, n \in Names : proxies[j][n] # new
          /\ \A q \in Visitors : visit[q].handler # new
          /\ new \in Handlers /\ idle[new] = {} /\ idle' = idle
        BY <2>1, ReferencedBy DEF RoutingInv, GarbageInv
    <2> HIDE DEF w
    <2>6. RoutingTypeOK'
        <3>1. TypeOK'
            BY <2>1, StepType DEF RoutingInv, RoutingTypeOK
        <3> QED
            BY <2>1, <2>2, <2>3, <2>4, <3>1 DEF RoutingInv, RoutingTypeOK
    <2>7. CacheInv'
        <3>1. \A j \in Kinds, n \in Names :
                proxies[j][n] # NoHandler => what'[proxies[j][n]] = what[proxies[j][n]]
            BY <2>4, <2>5 DEF RoutingInv, RoutingTypeOK
        <3> QED
            BY <1>1, <2>3, <2>4, <2>5, <3>1 DEF RoutingInv, CacheInv
    <2>8. GarbageInv'
        <3>1. \A h \in Handlers : h \in Referenced => h \in Referenced'
            <4>1. ASSUME NEW j \in Kinds, NEW n \in Names, proxies[j][n] \in Handlers
                  PROVE  proxies[j][n] = proxies'[j][n]
                BY <1>3, <2>3, <4>1, Slots
            <4>2. ASSUME NEW q \in Visitors, visit[q].handler \in Handlers
                  PROVE  visit[q].handler = visit'[q].handler
                BY <1>1, <2>2, <4>2, Slots
            <4> QED
                BY <4>1, <4>2 DEF Referenced
        <3> QED
            BY <2>5, <3>1 DEF RoutingInv, GarbageInv
    <2>9. PoolInv'
        <3>1. ASSUME NEW j \in Kinds, NEW n \in Names, proxies'[j][n] # NoHandler,
                     what'[proxies'[j][n]] = j, ~Dirty(j, n)',
                     NEW c \in idle'[proxies'[j][n]]
              PROVE  Leads(j, n, c)'
            <4>1. j # k \/ n # v.name
                BY <2>3, <2>5, <3>1
            <4>2. /\ proxies[j][n] # NoHandler /\ what[proxies[j][n]] = j
                  /\ ~Dirty(j, n) /\ c \in idle[proxies[j][n]]
                BY <2>1, <2>3, <2>4, <2>5, <3>1, <4>1
                   DEF Dirty, Kind, vars, RoutingInv, RoutingTypeOK
            <4>3. Leads(j, n, c)
                BY <4>2 DEF RoutingInv, PoolInv
            <4> QED
                BY <2>1, <4>3 DEF Leads, Relay, User, RelayKey, vars
        <3> QED
            BY <3>1 DEF PoolInv
    <2>10. ASSUME NEW q \in Visitors, q # r PROVE VisitInv(visit[q])'
        <3>1. visit'[q] = visit[q] /\ visit[q].handler # new
            BY <2>2, <2>5, <2>10
        <3>2. visit[q].handler # NoHandler => what'[visit[q].handler] = what[visit[q].handler]
            BY <2>4, <2>5, Known DEF Visits
        <3>3. visit[q].at \in Holding => visit[q].handler # NoHandler
            BY Known DEF StageInv
        <3>4. StageInv(visit[q])' /\ HolderInv(visit[q])'
            BY <2>3, <3>1, <3>2, Known DEF StageInv, HolderInv
        <3>5. ASSUME NEW j \in Kinds, visit[q].name \in Names, visit[q].handler # NoHandler
              PROVE  proxies'[j][visit[q].name] = visit[q].handler
                        <=> proxies[j][visit[q].name] = visit[q].handler
            BY <1>3, <2>3, <3>1, <3>5
        <3>6. visit[q].at \in Holding => visit[q].name \in Names
            BY Known DEF StageInv, Holding
        <3>7. TripInv(visit[q])'
            <4> DEFINE u == visit[q]
                       j == what[u.handler]
            <4>1. SUFFICES ASSUME u.at \in Holding, j \in Kinds,
                                  proxies'[j][u.name] = u.handler, ~Dirty(j, u.name)'
                           PROVE  /\ u.at = "conn" /\ j = "relay" => u.key = RelayKey(u.name)'
                                  /\ u.at = "trip" => Leads(j, u.name, u.conn)'
                BY <3>1, <3>2, <3>3 DEF TripInv
            <4>2. proxies[j][u.name] = u.handler /\ ~Dirty(j, u.name)
                BY <2>1, <3>1, <3>2, <3>3, <3>5, <3>6, <4>1 DEF Dirty, Kind, vars
            <4>3. /\ u.at = "conn" /\ j = "relay" => u.key = RelayKey(u.name)
                  /\ u.at = "trip" => Leads(j, u.name, u.conn)
                BY <4>1, <4>2, Known DEF TripInv
            <4> QED
                BY <2>1, <3>1, <3>2, <3>3, <4>1, <4>3 DEF Leads, Relay, User, RelayKey, vars
        <3>8. visit[q].at \in Holding => Slot(what[visit[q].handler]) \in Kinds
            BY <3>3, Known, Slots DEF HolderInv
        <3>9. CalmInv(visit[q])'
            <4> DEFINE u == visit[q]
            <4>1. u.at \in Holding =>
                    /\ what'[u.handler] = what[u.handler]
                    /\ proxies[Slot(what[u.handler])][u.name] = u.handler =>
                            proxies'[Slot(what[u.handler])][u.name] = u.handler
                BY <3>2, <3>3, <3>5, <3>6, <3>8
            <4>2. NoControlOn(u.name) => NoControlOn(u.name)'
                BY <2>1, <3>1 DEF NoControlOn, vars
            <4>3. UNCHANGED <<reg, sock>>
                BY <2>1 DEF vars
            <4>4. CASE u.calm
                BY <3>1, <4>1, <4>2, <4>3, <4>4, Known DEF CalmInv, Relay, User
            <4>5. CASE ~u.calm
                BY <3>1, <4>5 DEF CalmInv
            <4> QED
                BY <4>4, <4>5
        <3> QED
            BY <3>4, <3>7, <3>9 DEF VisitInv
    <2>11. VisitInv(visit[r])'
        <3> DEFINE u == visit'[r]
        <3>1. /\ u.at = "rewrite" /\ u.handler = new /\ u.name = v.name /\ u.seen = v.seen
              /\ u.status = v.status
            BY <2>2, Known DEF Visits, w
        <3>2. u.calm = v.calm
            BY <2>2, Known, Zenon DEF Visits, w
        <3>3. StageInv(visit[r])' /\ TripInv(visit[r])'
            BY <1>1, <2>5, <3>1, Known, Slots DEF StageInv, TripInv, Holding
        <3>4. HolderInv(visit[r])'
            BY <1>1, <2>3, <2>4, <2>5, <3>1 DEF HolderInv
        <3>5. CalmInv(visit[r])'
            <4>1. CASE v.calm
                <5>1. NoControlOn(visit[r].name)'
                    BY <2>1, <3>1, <4>1, Known DEF CalmInv, NoControlOn, vars
                <5>2. v.want = "user" => u.seen = User(visit[r].name)'
                    BY <1>1, <2>1, <3>1, <4>1, Known DEF CalmInv, User, vars
                <5> QED
                    BY <1>1, <2>3, <2>4, <3>1, <5>1, <5>2 DEF CalmInv, Holding
            <4>2. CASE ~v.calm
                BY <3>2, <4>2 DEF CalmInv
            <4> QED
                BY <4>1, <4>2
        <3> QED
            BY <3>3, <3>4, <3>5 DEF VisitInv
    <2> QED
        BY <2>6, <2>7, <2>8, <2>9, <2>10, <2>11 DEF RoutingInv
<1> QED
    BY <1>2, <1>3

(* No step of a request breaks the invariant.                              *)
LEMMA VisitStepInv ==
    ASSUME RoutingInv, NEW r \in Visitors, Visit(r) PROVE RoutingInv'
<1>1. CASE StatFails(r)
    BY <1>1, RespondStep DEF StatFails
<1>2. CASE DialFails(r)
    BY <1>2, RespondStep DEF DialFails
<1>3. CASE TripFails(r)
    BY <1>3, RespondStep DEF TripFails
<1> QED
    BY <1>1, <1>2, <1>3, ArriveInv, LookupProxyInv, LookupRelayInv, StatSocketInv, LookupApexInv,
       LoadUserInv, CheckOwnerInv, LookupUserProxyInv, PutProxyInv, RewriteInv, ReuseConnInv,
       DialInv, FinishInv DEF Visit

-----------------------------------------------------------------------------
(* The steps of the control handlers, of the backends and of the process   *)

(* A step that lets the proxies be keeps the invariant if the entries it   *)
(* changes are left dirty and disturb every request that could tell.       *)
LEMMA OutsideStep ==
    ASSUME RoutingInv, TypeOK', UNCHANGED <<proxies, what>>,
           idle' \in [Handlers -> SUBSET Conns],
           \A h \in Handlers : idle'[h] \subseteq idle[h],
           sock' \in [Names -> BOOLEAN],
           visit' \in [Visitors -> Visits],
           \A q \in Visitors :
               visit'[q] = visit[q] \/ visit'[q] = [visit[q] EXCEPT !.calm = FALSE],
           \A k \in Kinds, n \in Names :
               ~Dirty(k, n)' => ~Dirty(k, n) /\ reg'[k][n] = reg[k][n],
           \A q \in Visitors : visit'[q].calm =>
               /\ NoControlOn(visit[q].name)'
               /\ visit[q].name \in Names =>
                    /\ \A k \in Kinds : reg'[k][visit[q].name] = reg[k][visit[q].name]
                    /\ sock'[visit[q].name] = sock[visit[q].name]
    PROVE  RoutingInv'
<1>1. ASSUME NEW q \in Visitors
      PROVE  /\ visit'[q].at = visit[q].at /\ visit'[q].name = visit[q].name
             /\ visit'[q].want = visit[q].want /\ visit'[q].seen = visit[q].seen
             /\ visit'[q].handler = visit[q].handler /\ visit'[q].key = visit[q].key
             /\ visit'[q].conn = visit[q].conn /\ visit'[q].status = visit[q].status
    BY Known DEF Visits
<1>2. ASSUME NEW q \in Visitors
      PROVE  /\ visit'[q].sub = visit[q].sub
             /\ visit'[q].calm => visit[q].calm
    <2>1. CASE visit'[q] = visit[q]
        BY <2>1, Zenon
    <2>2. CASE visit'[q] = [visit[q] EXCEPT !.calm = FALSE]
        BY <2>2, Known, Zenon DEF Visits
    <2> QED
        BY <2>1, <2>2
<1>3. RoutingTypeOK'
    BY DEF RoutingInv, RoutingTypeOK
<1>4. CacheInv'
    BY DEF RoutingInv, CacheInv
<1>5. GarbageInv'
    <2>1. \A h \in Handlers : h \in Referenced => h \in Referenced'
        BY <1>1 DEF Referenced
    <2> QED
        BY <2>1 DEF RoutingInv, GarbageInv
<1>6. ASSUME NEW k \in Kinds, NEW n \in Names, ~Dirty(k, n)'
      PROVE  /\ ~Dirty(k, n)
             /\ k = "relay" => RelayKey(n)' = RelayKey(n)
             /\ \A c : Leads(k, n, c) => Leads(k, n, c)'
    <2>1. ~Dirty(k, n) /\ reg'[k][n] = reg[k][n]
        BY <1>6
    <2>2. k = "relay" \/ k = "user"
        BY Slots
    <2> QED
        BY <2>1, <2>2 DEF Leads, Relay, User, RelayKey
<1>7. PoolInv'
    <2>1. ASSUME NEW k \in Kinds, NEW n \in Names, proxies[k][n] # NoHandler,
                 what[proxies[k][n]] = k, ~Dirty(k, n)', NEW c \in idle'[proxies[k][n]]
          PROVE  Leads(k, n, c)'
        <3>1. c \in idle[proxies[k][n]]
            BY <2>1 DEF RoutingInv, RoutingTypeOK
        <3> QED
            BY <1>6, <2>1, <3>1 DEF RoutingInv, PoolInv
    <2> QED
        BY <2>1 DEF PoolInv
<1>8. ASSUME NEW q \in Visitors PROVE VisitInv(visit[q])'
    <2> DEFINE u == visit[q]
    <2>1. StageInv(visit[q])'
        BY <1>1, <1>2, Known DEF StageInv
    <2>2. HolderInv(visit[q])'
        BY <1>1, Known DEF HolderInv
    <2>3. TripInv(visit[q])'
        <3>1. SUFFICES ASSUME u.at \in Holding, what[u.handler] \in Kinds,
                              proxies[what[u.handler]][u.name] = u.handler,
                              ~Dirty(what[u.handler], u.name)'
                       PROVE  /\ u.at = "conn" /\ what[u.handler] = "relay"
                                    => u.key = RelayKey(u.name)'
                              /\ u.at = "trip" => Leads(what[u.handler], u.name, u.conn)'
            BY <1>1 DEF TripInv
        <3>2. u.name \in Names
            BY <3>1, Known DEF StageInv, Holding
        <3> QED
            BY <1>1, <1>6, <3>1, <3>2, Known DEF TripInv
    <2>4. CalmInv(visit[q])'
        <3>1. CASE visit'[q].calm
            <4>1. u.calm /\ NoControlOn(visit[q].name)'
                BY <1>1, <1>2, <3>1
            <4>2. /\ u.name \in Names /\ "relay" \in Kinds /\ "user" \in Kinds
                BY <4>1, Known, Slots DEF StageInv
            <4>3. /\ Relay(visit[q].name)' = Relay(u.name)
                  /\ User(visit[q].name)' = User(u.name)
                  /\ sock'[u.name] = sock[u.name]
                BY <1>1, <3>1, <4>2 DEF Relay, User
            <4>4. \/ u.at \in {"owner", "proxy"}
                  \/ u.at = "put" /\ u.want = "user"
                  \/ u.at \in Holding /\ what[u.handler] = "user"
                  => u.seen = User(u.name)
                BY <4>1, Known DEF CalmInv
            <4> QED
                BY <1>1, <1>2, <4>1, <4>3, <4>4, Known DEF CalmInv
        <3>2. CASE ~visit'[q].calm
            BY <3>2 DEF CalmInv
        <3> QED
            BY <3>1, <3>2
    <2> QED
        BY <2>1, <2>2, <2>3, <2>4 DEF VisitInv
<1> QED
    BY <1>3, <1>4, <1>5, <1>7, <1>8 DEF RoutingInv

(* A running handler changes no entry but its own, which is dirty then.    *)
LEMMA HandlerEffect ==
    ASSUME TypeOK, NEW c \in Clients, HandlerStep(c), pc[c] # "idle",
           NEW k \in Kinds, NEW n \in Names, ~Dirty(k, n)'
    PROVE  ~Dirty(k, n) /\ reg'[k][n] = reg[k][n]
<1>1. pc[c] # "drop"
    BY DEF HandlerStep, FinishSave, Begin, Reject, CheckAdd, StoreAdd, DeleteEntry, CopyKey,
           OpenTmp, WriteTmp, Rename, RenameMissing, FailSave
<1>2. ~Dirty(k, n)
    <2>1. SUFFICES ASSUME NEW d \in Clients, pc[d] = "drop", Kind(d) = k, req[d].name = n
                   PROVE  FALSE
        BY DEF Dirty
    <2>2. pc'[d] = pc[d] /\ req'[d] = req[d]
        BY <1>1, <2>1, OtherHandler
    <2> QED
        BY <2>1, <2>2 DEF Dirty, Kind
<1>3. reg'[k][n] = reg[k][n]
    <2>1. CASE StoreAdd(c) \/ DeleteEntry(c)
        <3>1. pc'[c] = "drop" /\ req'[c] = req[c]
            BY <2>1 DEF TypeOK, StoreAdd, DeleteEntry, Goto
        <3>2. k # Kind(c) \/ n # req[c].name
            BY <3>1 DEF Dirty, Kind
        <3>3. PICK i : reg' = [reg EXCEPT ![Kind(c)][req[c].name] = i]
            BY <2>1 DEF StoreAdd, DeleteEntry
        <3> QED
            BY <3>2, <3>3 DEF TypeOK, RegMap
    <2>2. CASE ~(StoreAdd(c) \/ DeleteEntry(c))
        BY <2>2 DEF HandlerStep, FinishSave, Begin, Reject, CheckAdd, CopyKey,
               OpenTmp, WriteTmp, Rename, RenameMissing, FailSave
    <2> QED
        BY <2>1, <2>2
<1> QED
    BY <1>2, <1>3

(* A request marked as disturbed, or left as it was.                       *)
LEMMA DisturbedEffect ==
    ASSUME RoutingInv, NEW n, visit' = Disturbed(n)
    PROVE  /\ visit' \in [Visitors -> Visits]
           /\ \A q \in Visitors :
                visit'[q] = visit[q] \/ visit'[q] = [visit[q] EXCEPT !.calm = FALSE]
           /\ \A q \in Visitors :
                visit'[q].calm => visit[q].calm /\ visit[q].name # n /\ visit'[q] = visit[q]
<1>1. \A q \in Visitors : visit[q] \in Visits
    BY Known
<1>2. \A q \in Visitors : visit'[q] = IF visit[q].name = n THEN [visit[q] EXCEPT !.calm = FALSE]
                                      ELSE visit[q]
    BY DEF Disturbed
<1>3. \A q \in Visitors : [visit[q] EXCEPT !.calm = FALSE] \in Visits
    BY <1>1 DEF Visits
<1>4. visit' \in [Visitors -> Visits]
    BY <1>1, <1>3 DEF Disturbed
<1>5. ASSUME NEW q \in Visitors, visit'[q].calm
      PROVE  visit[q].calm /\ visit[q].name # n /\ visit'[q] = visit[q]
    <2>1. [visit[q] EXCEPT !.calm = FALSE].calm = FALSE
        BY <1>1, Zenon DEF Visits
    <2>2. visit[q].name # n
        BY <1>2, <1>5, <2>1, Zenon
    <2>3. visit'[q] = visit[q]
        BY <1>2, <2>2
    <2> QED
        BY <1>5, <2>2, <2>3, Zenon
<1> QED
    BY <1>2, <1>4, <1>5

(* The steps of a control handler that do not touch the proxies.           *)
LEMMA ControlInv ==
    ASSUME RoutingInv, NEW c \in Clients, Control(c) PROVE RoutingInv'
<1> USE DEF RoutingInv, RoutingTypeOK
<1>1. HandlerStep(c) /\ UNCHANGED <<proxies, what, idle, sock>>
    BY DEF Control
<1>2. TypeOK'
    BY <1>1, StepType DEF Next
<1>3. CASE pc[c] = "idle"
    <2>1. Begin(c) /\ reg' = reg
        BY <1>1, <1>3, BeginsOnly
    <2>2. visit' = Disturbed(req'[c].name)
        BY <1>3 DEF Control
    <2>3. pc'[c] = "check" /\ \A d \in Clients \ {c} : pc'[d] = pc[d] /\ req'[d] = req[d]
        BY <2>1 DEF Begin, Goto, TypeOK
    <2>4. \A k \in Kinds, n \in Names : Dirty(k, n) => Dirty(k, n)'
        BY <1>3, <2>3 DEF Dirty, Kind
    <2>5. ASSUME NEW q \in Visitors, visit'[q].calm PROVE NoControlOn(visit[q].name)'
        <3>1. visit[q].calm /\ visit[q].name # req'[c].name /\ visit'[q] = visit[q]
            BY <2>2, <2>5, DisturbedEffect
        <3>2. NoControlOn(visit[q].name)
            BY <3>1, Known DEF CalmInv
        <3> QED
            BY <2>3, <3>1, <3>2 DEF NoControlOn
    <2> QED
        BY <1>1, <1>2, <2>1, <2>2, <2>4, <2>5, DisturbedEffect, OutsideStep
<1>4. CASE pc[c] # "idle"
    <2>1. visit' = visit
        BY <1>4 DEF Control
    <2>2. \A k \in Kinds, n \in Names : ~Dirty(k, n)' => ~Dirty(k, n) /\ reg'[k][n] = reg[k][n]
        BY <1>1, <1>4, HandlerEffect
    <2>3. ASSUME NEW q \in Visitors, visit'[q].calm
          PROVE  /\ NoControlOn(visit[q].name)'
                 /\ visit[q].name \in Names =>
                        \A k \in Kinds : reg'[k][visit[q].name] = reg[k][visit[q].name]
        <3>1. NoControlOn(visit[q].name)
            BY <2>1, <2>3, Known DEF CalmInv
        <3>2. \A d \in Clients : pc'[d] # "idle" => pc[d] # "idle" /\ req'[d] = req[d]
            BY <1>1, <1>4, OtherHandler, OwnRequest
        <3>3. NoControlOn(visit[q].name)'
            BY <2>1, <3>1, <3>2 DEF NoControlOn
        <3>4. \A k \in Kinds : ~Dirty(k, visit[q].name)'
            BY <2>1, <3>3 DEF NoControlOn, Dirty
        <3>5. ASSUME NEW k \in Kinds, visit[q].name \in Names
              PROVE  reg'[k][visit[q].name] = reg[k][visit[q].name]
            <4>1. ~Dirty(k, visit[q].name)'
                BY <3>4
            <4> QED
                BY <1>1, <1>4, <2>1, <3>5, <4>1, HandlerEffect
        <3> QED
            BY <3>3, <3>5
    <2> QED
        BY <1>1, <1>2, <2>1, <2>2, <2>3, OutsideStep
<1> QED
    BY <1>3, <1>4

(* A socket comes or goes.                                                 *)
LEMMA ToggleSocketInv ==
    ASSUME RoutingInv, NEW n \in Conventional, ToggleSocket(n) PROVE RoutingInv'
<1> USE DEF RoutingInv, RoutingTypeOK
<1>1. UNCHANGED <<vars, proxies, what, idle>> /\ visit' = Disturbed(n)
    BY DEF ToggleSocket
<1>2. TypeOK' /\ n \in Names
    BY <1>1, StepType, RoutingAssumption
<1>3. sock' \in [Names -> BOOLEAN] /\ \A m \in Names \ {n} : sock'[m] = sock[m]
    BY <1>2 DEF ToggleSocket
<1>4. \A k \in Kinds, m \in Names : Dirty(k, m) => Dirty(k, m)'
    BY <1>1 DEF Dirty, Kind, vars
<1>5. ASSUME NEW q \in Visitors, visit'[q].calm
      PROVE  /\ NoControlOn(visit[q].name)'
             /\ visit[q].name \in Names => sock'[visit[q].name] = sock[visit[q].name]
    <2>1. visit[q].calm /\ visit[q].name # n /\ visit'[q] = visit[q]
        BY <1>1, <1>5, DisturbedEffect
    <2>2. NoControlOn(visit[q].name)
        BY <2>1, Known DEF CalmInv
    <2> QED
        BY <1>1, <1>3, <2>1, <2>2 DEF NoControlOn, vars
<1>6. reg' = reg
    BY <1>1 DEF vars
<1> QED
    BY <1>1, <1>2, <1>3, <1>4, <1>5, <1>6, DisturbedEffect, OutsideStep

(* A backend closes an idle connection.                                    *)
LEMMA BackendClosesInv ==
    ASSUME RoutingInv, NEW h \in Handlers, BackendCloses(h) PROVE RoutingInv'
<1> USE DEF RoutingInv, RoutingTypeOK
<1>1. UNCHANGED <<vars, proxies, what, sock, visit>>
    BY DEF BackendCloses
<1>2. TypeOK' /\ reg' = reg
    BY <1>1, StepType DEF vars
<1>3. idle' \in [Handlers -> SUBSET Conns] /\ \A g \in Handlers : idle'[g] \subseteq idle[g]
    BY DEF BackendCloses
<1>4. \A k \in Kinds, m \in Names : Dirty(k, m) => Dirty(k, m)'
    BY <1>1 DEF Dirty, Kind, vars
<1>5. \A q \in Visitors : visit'[q].calm => NoControlOn(visit[q].name)'
    BY <1>1, Known DEF CalmInv, NoControlOn, vars
<1> QED
    BY <1>1, <1>2, <1>3, <1>4, <1>5, OutsideStep

(* The process ends or starts: maps, pools and requests begin anew.        *)
LEMMA ProcessInv ==
    ASSUME RoutingInv, Process PROVE RoutingInv'
<1>1. TypeOK'
    BY StepType DEF Process, Next, RoutingInv, RoutingTypeOK
<1>2. \A r \in Visitors : visit'[r] = Answered("none")
    BY DEF Process
<1>3. RoutingTypeOK'
    <2>1. NoProxies \in [Kinds -> [Names -> Handlers \cup {NoHandler}]]
        BY DEF NoProxies
    <2>2. visit' \in [Visitors -> Visits]
        BY AnsweredType DEF Process
    <2> QED
        BY <1>1, <2>1, <2>2 DEF Process, RoutingInv, RoutingTypeOK
<1>4. CacheInv' /\ GarbageInv' /\ PoolInv'
    BY DEF Process, NoProxies, CacheInv, GarbageInv, PoolInv
<1>5. \A r \in Visitors : VisitInv(visit[r])'
    BY <1>2, AnsweredInv
<1> QED
    BY <1>3, <1>4, <1>5 DEF RoutingInv

(* The deletion of a cached proxy: its pool is garbage once the requests   *)
(* that hold it are over, and the next request makes a proxy anew.         *)
LEMMA DropCachedInv ==
    ASSUME RoutingInv, NEW c \in Clients, DropCached(c) PROVE RoutingInv'
<1> DEFINE k == Kind(c)
           n == req[c].name
<1>1. DropProxy(c) /\ pc[c] = "drop" /\ k \in Kinds /\ n \in Names
    BY KindType DEF DropCached, DropProxy, RoutingInv, RoutingTypeOK
<1>2. TypeOK'
    BY <1>1, StepType DEF Next, RoutingInv, RoutingTypeOK
<1>3. UNCHANGED <<reg, req, sock, visit>> /\ Keep(what, idle)
    BY <1>1 DEF DropCached, DropProxy
<1>4. pc'[c] = "range" /\ \A d \in Clients \ {c} : pc'[d] = pc[d]
    BY <1>1 DEF DropProxy, Goto, RoutingInv, RoutingTypeOK, TypeOK
<1>5. /\ proxies' \in [Kinds -> [Names -> Handlers \cup {NoHandler}]]
      /\ proxies'[k][n] = NoHandler
      /\ \A j \in Kinds, m \in Names : j # k \/ m # n => proxies'[j][m] = proxies[j][m]
    BY <1>1 DEF DropCached, RoutingInv, RoutingTypeOK
<1>6. /\ what' \in [Handlers -> Constructors \cup {"free"}]
      /\ idle' \in [Handlers -> SUBSET Conns]
      /\ \A h \in Handlers : h \in Referenced' => what'[h] = what[h] /\ idle'[h] = idle[h]
      /\ GarbageInv'
    BY <1>3, KeepEffect DEF RoutingInv, RoutingTypeOK
<1>7. \A j \in Kinds, m \in Names : proxies'[j][m] # NoHandler =>
        /\ proxies[j][m] = proxies'[j][m] /\ (j # k \/ m # n)
        /\ what'[proxies[j][m]] = what[proxies[j][m]]
        /\ idle'[proxies[j][m]] = idle[proxies[j][m]]
    <2>1. \A j \in Kinds, m \in Names : proxies'[j][m] \in Referenced'
        BY DEF Referenced
    <2> QED
        BY <1>5, <1>6, <2>1
<1>8. \A j \in Kinds, m \in Names : (j # k \/ m # n) /\ Dirty(j, m) => Dirty(j, m)'
    BY <1>3, <1>4 DEF Dirty, Kind
<1>9. RoutingTypeOK'
    BY <1>2, <1>3, <1>5, <1>6 DEF RoutingInv, RoutingTypeOK
<1>10. CacheInv'
    BY <1>7 DEF RoutingInv, CacheInv
<1>11. PoolInv'
    BY <1>3, <1>7, <1>8 DEF RoutingInv, PoolInv, Leads, Relay, User, RelayKey
<1>12. ASSUME NEW q \in Visitors PROVE VisitInv(visit[q])'
    <2> DEFINE u == visit[q]
    <2>1. u.handler # NoHandler => what'[u.handler] = what[u.handler]
        <3>1. visit'[q].handler \in Referenced'
            BY DEF Referenced
        <3> QED
            BY <1>3, <1>6, <3>1, Known DEF Visits
    <2>2. u.at \in Holding => u.name \in Names /\ u.handler # NoHandler
        BY Known DEF StageInv, Holding
    <2>3. StageInv(visit[q])'
        BY <1>3, Known DEF StageInv
    <2>4. HolderInv(visit[q])'
        BY <1>3, <1>7, <2>1, Known DEF HolderInv
    <2>5. TripInv(visit[q])'
        BY <1>3, <1>7, <1>8, <2>1, <2>2, Known DEF TripInv, Leads, Relay, User, RelayKey
    <2>6. CalmInv(visit[q])'
        <3>1. CASE u.calm
            <4>1. NoControlOn(u.name)
                BY <3>1, Known DEF CalmInv
            <4>2. NoControlOn(visit[q].name)'
                BY <1>1, <1>3, <1>4, <4>1 DEF NoControlOn
            <4>3. u.name # n
                BY <1>1, <4>1 DEF NoControlOn
            <4>4. u.at \in Holding =>
                    proxies'[Slot(what'[u.handler])][u.name] = u.handler
                <5>1. SUFFICES ASSUME u.at \in Holding
                               PROVE  proxies'[Slot(what[u.handler])][u.name] = u.handler
                    BY <2>1, <2>2
                <5>2. Slot(what[u.handler]) \in Kinds
                    BY <2>2, <5>1, Known, Slots DEF HolderInv
                <5> QED
                    BY <1>5, <2>2, <3>1, <4>3, <5>1, <5>2, Known DEF CalmInv
            <4> QED
                BY <1>3, <2>1, <2>2, <3>1, <4>2, <4>4, Known DEF CalmInv, Relay, User
        <3>2. CASE ~u.calm
            BY <1>3, <3>2 DEF CalmInv
        <3> QED
            BY <3>1, <3>2
    <2> QED
        BY <2>3, <2>4, <2>5, <2>6 DEF VisitInv
<1> QED
    BY <1>6, <1>9, <1>10, <1>11, <1>12 DEF RoutingInv

(* Every step keeps the invariant.                                         *)
LEMMA RoutingStepInv == RoutingInv /\ [RoutingNext]_allVars => RoutingInv'
<1> SUFFICES ASSUME RoutingInv, [RoutingNext]_allVars PROVE RoutingInv'
    OBVIOUS
<1>1. CASE RoutingNext
    BY <1>1, ControlInv, DropCachedInv, VisitStepInv, ToggleSocketInv, BackendClosesInv,
       ProcessInv DEF RoutingNext
<1>2. CASE UNCHANGED allVars
    <2>1. UNCHANGED <<vars, proxies, what, idle, sock, visit>>
        BY <1>2 DEF allVars, rvars
    <2>2. TypeOK' /\ reg' = reg
        BY <2>1, StepType DEF vars, RoutingInv, RoutingTypeOK
    <2>3. \A k \in Kinds, m \in Names : Dirty(k, m) => Dirty(k, m)'
        BY <2>1 DEF Dirty, Kind, vars
    <2>4. \A q \in Visitors : visit'[q].calm => NoControlOn(visit[q].name)'
        BY <2>1, Known DEF CalmInv, NoControlOn, vars
    <2> QED
        BY <2>1, <2>2, <2>3, <2>4, OutsideStep DEF RoutingInv, RoutingTypeOK
<1> QED
    BY <1>1, <1>2

-----------------------------------------------------------------------------
(* The theorems                                                            *)

(* RoutingTypeOK is an invariant: in particular no request is ever on its  *)
(* way to a place that the registry or a socket does not name.             *)
THEOREM RoutingTypeCorrect == RoutingSpec => []RoutingTypeOK
<1>1. RoutingInv => RoutingTypeOK
    BY DEF RoutingInv
<1> QED
    BY <1>1, InitRouting, RoutingStepInv, PTL DEF RoutingSpec

(* A request for a relay, undisturbed, is on a connection to the target    *)
(* that is registered, filed under the scheme and host it asks for,        *)
(* whatever proxies and connections earlier targets have left.             *)
THEOREM AlwaysServesRegistered == RoutingSpec => []ServesRegistered
<1>1. RoutingInv => ServesRegistered
    <2> SUFFICES ASSUME RoutingInv, NEW r \in Visitors, Calm(r, "trip"), Made(r) = "relay"
                 PROVE  /\ Relay(visit[r].name) # NoInfo
                        /\ visit[r].conn.to = Relay(visit[r].name)
                        /\ visit[r].conn.key = RelayKey(visit[r].name)
        BY DEF ServesRegistered
    <2> DEFINE v == visit[r]
    <2>1. /\ v.at = "trip" /\ v.calm /\ what[v.handler] = "relay"
          /\ v.name \in Names /\ v.handler # NoHandler /\ v.conn \in Conns
        BY Known DEF Calm, At, Made, StageInv, Holding
    <2>2. proxies["relay"][v.name] = v.handler /\ ~Dirty("relay", v.name)
        BY <2>1, Known DEF CalmInv, Slot, Holding, NoControlOn, Dirty
    <2>3. Leads("relay", v.name, v.conn)
        BY <2>1, <2>2, Known, Slots DEF TripInv, Holding
    <2>4. v.conn.to = Relay(v.name) /\ v.conn.key = RelayKey(v.name)
        BY <2>3 DEF Leads
    <2>5. v.conn.to \in Infos \cup {OwnSocket}
        BY <2>1 DEF Conns
    <2> QED
        BY <2>4, <2>5, RegistryAssumption, RoutingAssumption
<1> QED
    BY <1>1, InitRouting, RoutingStepInv, PTL DEF RoutingSpec

(* A request for a delegated user, undisturbed, is on a connection to the  *)
(* registered socket, which is the one whose owner was checked for it.     *)
THEOREM AlwaysServesChecked == RoutingSpec => []ServesChecked
<1>1. RoutingInv => ServesChecked
    <2> SUFFICES ASSUME RoutingInv, NEW r \in Visitors, Calm(r, "trip"), Made(r) = "user"
                 PROVE  /\ visit[r].conn.to = User(visit[r].name)
                        /\ visit[r].conn.to = visit[r].seen
        BY DEF ServesChecked
    <2> DEFINE v == visit[r]
    <2>1. /\ v.at = "trip" /\ v.calm /\ what[v.handler] = "user"
          /\ v.name \in Names /\ v.handler # NoHandler
        BY Known DEF Calm, At, Made, StageInv, Holding
    <2>2. /\ proxies["user"][v.name] = v.handler /\ ~Dirty("user", v.name)
          /\ v.seen = User(v.name)
        BY <2>1, Known DEF CalmInv, Slot, Holding, NoControlOn, Dirty
    <2>3. Leads("user", v.name, v.conn)
        BY <2>1, <2>2, Known, Slots DEF TripInv, Holding
    <2> QED
        BY <2>2, <2>3 DEF Leads
<1> QED
    BY <1>1, InitRouting, RoutingStepInv, PTL DEF RoutingSpec

(* Undisturbed requests for one name share one proxy, and so one pool.     *)
THEOREM AlwaysSharedProxy == RoutingSpec => []SharedProxy
<1>1. RoutingInv => SharedProxy
    <2>1. ASSUME RoutingInv, NEW r \in Visitors, Calm(r, "conn")
          PROVE  proxies[Slot(Made(r))][visit[r].name] = visit[r].handler
        BY <2>1, Known DEF Calm, At, Made, CalmInv, Holding
    <2> QED
        BY <2>1 DEF SharedProxy
<1> QED
    BY <1>1, InitRouting, RoutingStepInv, PTL DEF RoutingSpec

(* An undisturbed request answered with "not found" has found nothing: not *)
(* a relay, not a socket, not a delegation.                                *)
THEOREM NotFoundAlwaysTrue == RoutingSpec => NotFoundIsTrue
<1> DEFINE Found ==
        \A r \in Visitors :
            LET v == visit[r] IN
            (v.calm /\ visit'[r].status = "404" /\ v.at # "owner") =>
                /\ User(v.name) = NoInfo
                /\ ~v.sub => Relay(v.name) = NoInfo /\ ~sock[v.name]
<1>1. RoutingInv /\ RoutingNext => Found
    <2> SUFFICES ASSUME RoutingInv, RoutingNext, NEW r \in Visitors, visit[r].calm,
                        visit'[r].status = "404", visit[r].at # "owner"
                 PROVE  /\ User(visit[r].name) = NoInfo
                        /\ ~visit[r].sub => /\ Relay(visit[r].name) = NoInfo
                                            /\ ~sock[visit[r].name]
        OBVIOUS
    <2> DEFINE v == visit[r]
    <2>1. v \in Visits /\ v.at # "idle" /\ v.status = "none" /\ visit \in [Visitors -> Visits]
        BY Known DEF StageInv, RoutingInv, RoutingTypeOK
    <2>2. visit' # visit
        BY <2>1
    <2>3. \A n : visit' # Disturbed(n)
        BY <2>1 DEF Disturbed, Visits
    <2>4. ~Process
        BY AnsweredType DEF Process
    <2>5. PICK q \in Visitors : Visit(q)
        BY <2>2, <2>3, <2>4
           DEF RoutingNext, Control, DropCached, ToggleSocket, BackendCloses
    <2>6. PICK w : visit' = [visit EXCEPT ![q] = w]
        BY <2>5 DEF Visit, Arrive, LookupProxy, LookupRelay, StatSocket, StatFails, LookupApex,
               LoadUser, CheckOwner, LookupUserProxy, PutProxy, Rewrite, ReuseConn, Dial,
               DialFails, Finish, TripFails, Uses, Goes, Wants, Respond, Advance
    <2>7. q = r
        BY <2>1, <2>6
    <2>8. Visit(r)
        BY <2>5, <2>7
    <2>9. \A u : visit' = [visit EXCEPT ![r] = u] => u.status = "404"
        BY <2>1
    <2>10. \A u : u.status = "none" => ~Advance(r, u)
        BY <2>9 DEF Advance
    <2>11. /\ ~Respond(r, "500") /\ ~Respond(r, "502")
           /\ visit' # [visit EXCEPT ![r] = Answered("200")]
        BY <2>1, AnsweredType DEF Respond
    <2>12. ~Arrive(r) /\ ~CheckOwner(r)
        BY <2>1 DEF Arrive, CheckOwner, At
    <2>13. ~StatFails(r) /\ ~DialFails(r) /\ ~Finish(r) /\ ~TripFails(r)
        BY <2>11 DEF StatFails, DialFails, Finish, TripFails
    <2>14. \A s, h, c : ~Goes(r, s) /\ ~Uses(r, h) /\ ~Wants(r, c)
        BY <2>1, <2>10 DEF Goes, Uses, Wants, Visits
    <2>15. ~LookupProxy(r) /\ ~LookupRelay(r) /\ ~StatSocket(r) /\ ~LookupUserProxy(r)
        BY <2>14 DEF LookupProxy, LookupRelay, StatSocket, LookupUserProxy, StatFails
    <2>16. ~Rewrite(r) /\ ~Dial(r)
        BY <2>1, <2>10 DEF Rewrite, Dial, Visits
    <2>17. ~PutProxy(r) /\ ~ReuseConn(r)
        BY <2>1, <2>14 DEF PutProxy, ReuseConn, Visits
    <2>18. CASE LookupApex(r)
        BY <2>14, <2>18, Known DEF LookupApex, At, CalmInv
    <2>19. CASE LoadUser(r)
        <3>1. v.at = "users" /\ User(v.name) = NoInfo
            BY <2>1, <2>10, <2>19 DEF LoadUser, At, Visits
        <3> QED
            BY <3>1, Known DEF CalmInv
    <2> QED
        BY <2>8, <2>12, <2>13, <2>15, <2>16, <2>17, <2>18, <2>19 DEF Visit
<1>2. UNCHANGED allVars => UNCHANGED visit
    BY DEF allVars, rvars
<1> QED
    BY <1>1, InitRouting, RoutingStepInv, <1>2, PTL DEF RoutingSpec, NotFoundIsTrue

=============================================================================
