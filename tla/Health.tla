------------------------------- MODULE Health -------------------------------
(***************************************************************************)
(* The list of active relays and their liveness (servers/relay.go).        *)
(* listEntries ranges over the registries and reads the sockets directory  *)
(* while handlers change the former and services the latter.  It runs at   *)
(* the head of every round of health checks, and for `list' requests and   *)
(* the welcome page, which change nothing: the checker's list, made at any *)
(* time, stands for theirs.  A round dials each listed target once, all at *)
(* the same time, and replaces the table of statuses when all have         *)
(* answered.                                                               *)
(***************************************************************************)
CONSTANTS
    Names,
    ReservedName,   \* "control", whose socket is always in the directory
    RelayTargets, UserTargets,
    Unparsable,     \* relay targets that relayDial rejects (an edited file)
    SocketPath,     \* SocketPath[n]: <sockets-dir>/n.sock, as a target
    NoTarget

Services == Names \ {ReservedName}
Targets == RelayTargets \cup UserTargets \cup {SocketPath[n] : n \in Names}
Entries == [name : Names, kind : {"relay", "user", "socket"}, target : Targets]

ASSUME HealthAssumption ==
    /\ Names # {} /\ Unparsable \subseteq RelayTargets
    /\ DOMAIN SocketPath = Names
    /\ RelayTargets \cap (UserTargets \cup {SocketPath[n] : n \in Names}) = {}
    /\ NoTarget \notin Targets

VARIABLES
    relays, users,  \* the registries: the target of a name, or NoTarget
    sock,           \* sock[n]: <sockets-dir>/n.sock is a Unix socket
    accepts,        \* the targets on which a connect succeeds in time
    alive,          \* alive[t]: the status of the last round, "unknown" if none
    at,             \* where the checker's goroutine is
    todo,           \* the keys or files it has still to visit
    cur,            \* the file it has looked up in relays and not yet stat'ed
    entries,        \* what it has listed so far
    status,         \* status[t]: what the round in progress knows of t
    tick,           \* the ticker's channel holds a tick
    closing,        \* lifeCtx is cancelled
    touched,        \* history: the names changed since the list began, all of
                    \* them when the directory could not be read
    steady          \* history: the targets unchanged since the round began

registry == <<relays, users, sock>>
around == <<accepts, alive, status, tick, closing, steady>>
vars == <<registry, around, at, todo, cur, entries, touched>>

Unknown == [t \in Targets |-> "unknown"]

Stages == {"idle", "relays", "users", "readdir", "scan", "listed", "dial",
           "returned"}

(* The types, and that every round begins with nothing listed or dialled.  *)
HealthTypeOK ==
    /\ relays \in [Names -> RelayTargets \cup {NoTarget}]
    /\ users \in [Names -> UserTargets \cup {NoTarget}]
    /\ sock \in [Names -> BOOLEAN]
    /\ accepts \subseteq Targets
    /\ alive \in [Targets -> {"up", "down", "unknown"}]
    /\ at \in Stages
    /\ todo \subseteq Names /\ cur \subseteq Names
    /\ entries \subseteq Entries
    /\ status \in [Targets -> {"up", "down", "unknown"}]
    /\ tick \in BOOLEAN /\ closing \in BOOLEAN
    /\ touched \subseteq Names
    /\ steady \subseteq Targets
    /\ at = "idle" => entries = {}
    /\ at \notin {"relays", "users", "scan"} => todo = {}
    /\ at # "scan" => cur = {}
    /\ at # "dial" => status = Unknown

(* Start begins the checks with a round that waits for no tick.            *)
Init ==
    /\ relays \in [Names -> RelayTargets \cup {NoTarget}]
    /\ users \in [Names -> UserTargets \cup {NoTarget}]
    /\ \A n \in Names : relays[n] = NoTarget \/ users[n] = NoTarget
    /\ ReservedName \in Names =>
        relays[ReservedName] = NoTarget /\ users[ReservedName] = NoTarget
    /\ sock = [n \in Names |-> n = ReservedName]
    /\ accepts = {}
    /\ alive = Unknown
    /\ at = "relays" /\ todo = Names /\ cur = {} /\ entries = {}
    /\ status = Unknown
    /\ tick = FALSE
    /\ closing = FALSE
    /\ touched = {} /\ steady = Targets

-----------------------------------------------------------------------------
(* listEntries                                                             *)

Found(n, kind, target) ==
    IF target = NoTarget THEN {} ELSE {[name |-> n, kind |-> kind, target |-> target]}

(* The checker enters a stage with these keys to visit.                    *)
Enter(stage, keys) == at' = stage /\ todo' = keys

(* Range over a registry, key by key in no fixed order.                    *)
VisitKey(stage, kind, map, next, keys) ==
    /\ at = stage
    /\ \E n \in todo :
        /\ entries' = entries \cup Found(n, kind, map[n])
        /\ IF todo = {n} THEN Enter(next, keys) ELSE Enter(stage, todo \ {n})
    /\ UNCHANGED <<registry, around, cur, touched>>

VisitRelay == VisitKey("relays", "relay", relays, "users", Names)
VisitUser == VisitKey("users", "user", users, "readdir", {})

(* The directory is read at once; an error gives no names.                 *)
ReadDir ==
    /\ at = "readdir"
    /\ \/ Enter("scan", {n \in Services : sock[n]}) /\ UNCHANGED touched
       \/ Enter("scan", {}) /\ touched' = Names
    /\ UNCHANGED <<registry, around, cur, entries>>

(* Mutant of CheckShadow: a socket is listed beside the relay of its name. *)
ShadowUnchecked ==
    /\ at = "scan" /\ cur = {}
    /\ \E n \in todo : todo' = todo \ {n} /\ cur' = {n}
    /\ UNCHANGED <<registry, around, at, entries, touched>>

(* A socket whose name an explicit relay has is skipped ...                *)
CheckShadow ==
    /\ at = "scan" /\ cur = {}
    /\ \E n \in todo :
        /\ todo' = todo \ {n}
        /\ cur' = IF relays[n] # NoTarget THEN {} ELSE {n}
    /\ UNCHANGED <<registry, around, at, entries, touched>>

(* ... and so is one that is gone by now.                                  *)
StatSocket ==
    /\ \E n \in cur : entries' = entries \cup
                         IF sock[n] THEN Found(n, "socket", SocketPath[n]) ELSE {}
    /\ cur' = {}
    /\ UNCHANGED <<registry, around, at, todo, touched>>

(* The list is complete: it is sorted, and each entry gets its status.     *)
EndList ==
    /\ at = "scan" /\ todo = {} /\ cur = {}
    /\ at' = "listed"
    /\ UNCHANGED <<registry, around, todo, cur, entries, touched>>

ListStep ==
    VisitRelay \/ VisitUser \/ ReadDir \/ CheckShadow \/ StatSocket \/ EndList

-----------------------------------------------------------------------------
(* The health checker                                                      *)

BeginRound ==
    /\ at = "idle" /\ tick
    /\ Enter("relays", Names)
    /\ tick' = FALSE
    /\ steady' = Targets
    /\ UNCHANGED <<registry, accepts, alive, cur, entries, status, closing, touched>>

Listed == {e.target : e \in entries}

StartDials ==
    /\ at = "listed"
    /\ at' = "dial"
    /\ touched' = {}
    /\ UNCHANGED <<registry, around, todo, cur, entries>>

Reachable(t) == t \in accepts \ Unparsable

(* The dials of a round run at the same time and end in any order.         *)
Dial(t) ==
    /\ at = "dial" /\ t \in Listed /\ status[t] = "unknown"
    /\ status' = [status EXCEPT ![t] = IF Reachable(t) THEN "up" ELSE "down"]
    /\ UNCHANGED <<registry, accepts, alive, at, todo, cur, entries, tick, closing,
                   touched, steady>>

RoundOver == at = "dial" /\ \A t \in Listed : status[t] # "unknown"

EndRound ==
    /\ at' = "idle"
    /\ status' = Unknown /\ entries' = {}
    /\ steady' = {}
    /\ UNCHANGED <<registry, accepts, todo, cur, tick, closing, touched>>

(* Mutants of StoreStatuses: the rounds share one map; results are merged  *)
(* into the old table; they are stored before every dial has answered.     *)
ShareStatuses ==
    /\ RoundOver
    /\ alive' = status
    /\ at' = "idle"
    /\ entries' = {} /\ steady' = {}
    /\ UNCHANGED <<registry, accepts, todo, cur, status, tick, closing, touched>>

MergeStatuses ==
    /\ RoundOver
    /\ alive' = [t \in Targets |-> IF status[t] = "unknown" THEN alive[t] ELSE status[t]]
    /\ EndRound

StoreEarly ==
    /\ at = "dial"
    /\ alive' = status
    /\ EndRound

(* wg.Wait, then a new table replaces the old.                             *)
StoreStatuses ==
    /\ RoundOver
    /\ alive' = status
    /\ EndRound

(* Mutant of Return: only a checker that has no tick to serve looks.       *)
ReturnWithoutTick ==
    /\ at = "idle" /\ closing /\ ~tick
    /\ at' = "returned"
    /\ UNCHANGED <<registry, around, todo, cur, entries, touched>>

(* lifeCtx.Done: `select' takes either when there is a tick as well.       *)
Return ==
    /\ at = "idle" /\ closing
    /\ at' = "returned"
    /\ UNCHANGED <<registry, around, todo, cur, entries, touched>>

(* The channel of a ticker holds one tick.  (The code makes the ticker      *)
(* after the first round; here it may fire sooner.)                        *)
TickerFires ==
    /\ at # "returned" /\ ~tick
    /\ tick' = TRUE
    /\ UNCHANGED <<registry, accepts, alive, at, todo, cur, entries, status, closing,
                   touched, steady>>

-----------------------------------------------------------------------------
(* The rest of the daemon, and the environment                             *)

Touch(n) ==
    /\ touched' = IF at \in {"idle", "dial", "returned"} THEN {} ELSE touched \cup {n}
    /\ UNCHANGED <<around, at, todo, cur, entries>>

(* An add or a remove changes one registry.  (Two handlers that pass their *)
(* cross checks at the same time are left to Registry.)                    *)
ChangeRelay(n) ==
    /\ \E t \in (RelayTargets \ Unparsable) \cup {NoTarget} :
        /\ t # NoTarget => users[n] = NoTarget
        /\ relays' = [relays EXCEPT ![n] = t]
    /\ Touch(n)
    /\ UNCHANGED <<users, sock>>

ChangeUser(n) ==
    /\ \E t \in UserTargets \cup {NoTarget} :
        /\ t # NoTarget => relays[n] = NoTarget
        /\ users' = [users EXCEPT ![n] = t]
    /\ Touch(n)
    /\ UNCHANGED <<relays, sock>>

ToggleSocket(n) ==
    /\ sock' = [sock EXCEPT ![n] = ~@]
    /\ Touch(n)
    /\ UNCHANGED <<relays, users>>

(* A backend starts to accept connections, or stops.                       *)
ToggleBackend(t) ==
    /\ accepts' = IF t \in accepts THEN accepts \ {t} ELSE accepts \cup {t}
    /\ steady' = steady \ {t}
    /\ UNCHANGED <<registry, alive, at, todo, cur, entries, status, tick, closing, touched>>

Close ==
    /\ ~closing
    /\ closing' = TRUE
    /\ UNCHANGED <<registry, accepts, alive, at, todo, cur, entries, status, tick,
                   touched, steady>>

-----------------------------------------------------------------------------
(* Specification                                                           *)

CheckerStep ==
    \/ ListStep \/ BeginRound \/ StartDials
    \/ (\E t \in Targets : Dial(t)) \/ StoreStatuses

Next ==
    \/ CheckerStep \/ Return \/ TickerFires \/ Close
    \/ \E n \in Services : ChangeRelay(n) \/ ChangeUser(n) \/ ToggleSocket(n)
    \/ \E t \in Targets \ Unparsable : ToggleBackend(t)

(* The checker's goroutine runs, and its ticker fires; `select' picks among *)
(* ready cases at random, so that a cancelled context is seen in the end.  *)
Fairness == WF_vars(CheckerStep) /\ WF_vars(TickerFires) /\ SF_vars(Return)

Spec == Init /\ [][Next]_vars /\ Fairness

-----------------------------------------------------------------------------
(* Properties                                                              *)

(* The entries under which the router serves a name: an explicit relay     *)
(* hides the conventional socket of its name, a user does not.             *)
Routed(n) ==
    Found(n, "relay", relays[n]) \cup Found(n, "user", users[n]) \cup
    (IF n \in Services /\ relays[n] = NoTarget /\ sock[n]
     THEN Found(n, "socket", SocketPath[n]) ELSE {})

(* The list agrees with the router, entry by entry, on every name that did *)
(* not change while it was made: none is missed, none is there twice.      *)
ListAgreesWithRouting ==
    at = "listed" =>
        \A n \in Names \ touched : {e \in entries : e.name = n} = Routed(n)

(* When a round ends, every status it stores is right for the targets that *)
(* did not change during the round; the others are forgotten.              *)
StatusRight ==
    [][(at = "dial" /\ at' = "idle") =>
        \A t \in steady : alive'[t] # "unknown" => (alive'[t] = "up") = Reachable(t)]_vars

Settled(e, ok) == e \in Routed(e.name) /\ Reachable(e.target) = ok /\ ~closing

(* A registered entry that stays is reported up for good once its backend  *)
(* stays up, and down once its backend stays down.                         *)
StatusSettles ==
    \A e \in {f \in Entries : f.kind # "socket"} :
        /\ <>[]Settled(e, TRUE) => <>[](alive[e.target] = "up")
        /\ <>[]Settled(e, FALSE) => <>[](alive[e.target] = "down")

(* The statuses of targets that no relay, user or socket has any more are  *)
(* forgotten.                                                              *)
Targetless(t) ==
    \A n \in Names : relays[n] # t /\ users[n] # t /\ ~(sock[n] /\ SocketPath[n] = t)

StatusForgotten ==
    \A t \in Targets : <>[](~closing /\ Targetless(t)) => <>[](alive[t] = "unknown")

(* Close does not wait for the checker for ever.                           *)
CheckerReturns == closing ~> at = "returned"
=============================================================================
