# A formal model of localrelay

localrelay is a reverse proxy for `http(s)://<name>.localhost`: it maps names
to local backends, lets a root instance delegate `<*>.<user>.localhost` to a
user's own instance, and serves HTTPS with certificates it mints. This
directory holds TLA+ modules translated from its Go source, the TLC
configurations that check them, and theorems about them whose proofs TLAPS
checks. Paths and line numbers below are those of the repository, under `src/`.

    tlc -workers 2 -config RegistrySerial.cfg MCRegistry    # a run
    tlapm RegistryProofs.tla                                # a proof

`PROJECT.json` lists components, runs, hazards, findings and theorems, names for
every definition the lines it models, and for every checked property a small
change of the code (a "mutant", kept in the module under a comment `Mutant of
...`) that makes the run fail.

## 1. The system

### Components, state, operations

| Component | State | Operations | Modelled in |
|---|---|---|---|
| Control registry (`servers/relay.go`, `api.go`) | `relays`, `users`: name -> target, clean-url | `handleAdd`, `handleAddUser`, `handleRemove`, `handleRemoveUser` | Registry |
| Persistence | `relays.json`, `users.json` and their `.tmp` | `saveRelays`, `saveUsers`, `loadRelays`, `loadUsers` | Registry, DurableRegistry |
| Routing and proxies | `targetMap`, `userProxyMap`, a connection pool in each proxy | `handleRequest`, `serveUser`, `checkSocketOwner`, `newRelayProxy`, `newUserProxy`, `newSocketProxy` | Routing |
| Lifecycle (`relay.go`, `subcmds/serve.go`) | listeners, socket files, goroutines, `wg`, `lifeCtx` | `Start`, `Stop`, `Close`, `startLocked`, `startControlLocked`, `startForwardLocked`, `run` | Lifecycle |
| Listing and health checks | `alive`, the round in progress | `listEntries`, `socketEntries`, `checkHealth`, `startHealthChecks` | Health |
| Welcome page (`welcome.go`) | none | `serveWelcome`: the entries and the links to them | Delegation (links), Health (entries) |
| Certificate minter (`tlsmint.go`) | `cache`: host -> certificate, the CA it was loaded from | `newCertMinter`, `getCertificate`, `mint`, name checks | Minter, Names |
| Options (`options.go`) | none | defaults and checks | Minter (the CA files), constants of Lifecycle |
| CA files (`subcmds/ca_init.go`, `ca_cert.go`) | `cert.pem`, `key.pem` and their modes, a leaf's `.key` and `.crt` | `ca init`, `ca cert` | CAFiles |
| CA trust stores (`subcmds/ca_install*.go`, `ca_uninstall.go`, `ca_system_*.go`) | the system store, NSS databases | `ca install`, `ca uninstall` | TrustStores |
| Command-line client (`subcmds/{add,remove,list,control}.go`) | none | one request on the control socket | the environment of Registry |

### How they interact

* The **control server** runs every add and remove in a goroutine of its own.
  The handlers take no lock: they share two concurrent maps and two pairs of
  files, and after a change drop the cached proxy of the name.
* The **data plane** reads the same maps from one goroutine per request, several
  times: to resolve the name, to rewrite the request and to dial. It fills the
  caches that the handlers empty.
* The **health checker** reads the maps and the sockets directory from one more
  goroutine, and publishes its table of statuses through an atomic pointer.
* **Start** brings up HTTP, HTTPS, the control socket and, best effort, the
  forward socket, each with a goroutine; **Stop** closes the servers in turn and
  **Close** cancels the context and waits for all goroutines. Several processes
  can share the sockets directory, the runtime directory and the ports: the one
  that stops and the one that replaces it.
* A **root instance** delegates a user's names to the user's forward socket
  after a check of who owns that socket. It takes the user's label off the host
  and tells the user's daemon in `X-Forwarded-*` headers what the browser asked
  for, from which that daemon's **welcome page** makes its links.
* The **minter** is called from a goroutine per TLS handshake. It has the CA as
  the files were when the daemon started; the **certificate commands**, which
  are processes of their own, rewrite these files and the stores of the system
  and the browsers, which other programs change too.

### What is hard here, and what must hold

The tests of the repository exercise one client, one request and one process
at a time. What they can hardly reach, and what makes each component correct:

* *Crashes and failing file operations in a save.* The next start must find
  files it can load, and what an "ok" promised must be there.
* *Two savers.* Both use the one temporary file, and their snapshots may be
  renamed in the opposite order.
* *The two registries.* A name is a relay or a user, never both; each add
  checks the other map before it changes its own.
* *Stale caches.* A request must not reach a target that was replaced or
  removed, by a cached proxy or by a pooled connection, and a delegated request
  must go to the socket whose owner was checked.
* *Starts that fail half-way, stops in the middle of a start-up of goroutines.*
  `Close` must return and leave no listener behind.
* *Socket files.* They outlive a crash, and anyone can unlink them: the daemon
  that is up must be the one a client reaches.
* *Handshakes for one new name at once, CA files rewritten while a daemon
  reads them, a daemon that runs for long.* Clients must be served one leaf,
  for their name, valid, or be turned away for a reason.
* *Commands that edit several stores in turn and may fail or be killed at each
  step.* What they report must be true, and a later command must be able to
  repair what an earlier one left.
* *A request through two or three daemons.* Host, port and scheme are rewritten
  at each, and the link on the last one's page must lead back through all.
* *Lists and statuses made while everything changes.* They must be right at
  least for what did not change, and settle once things settle.

The complete list, by line of code, is `hazards` in `PROJECT.json`.

## 2. The modules

Each module `X` is instantiated for TLC by `MCX`; the theorems about it are in
`XProofs`.

### Registry

A handler is a sequence of steps with one operation on shared state in each:

| Step of the code | Action |
|---|---|
| the request arrives | `Begin` |
| checks of an add; `relays.Store` | `CheckAdd`, `StoreAdd` |
| checks of a remove and `LoadAndDelete` (one atomic operation) | `DeleteEntry` |
| an early return with an error | `Reject` |
| `targetMap.Delete` / `userProxyMap.Delete` | `DropProxy` |
| `Range` in a save, key by key in any order | `CopyKey` |
| `os.WriteFile`: open with truncation, write | `OpenTmp`, `WriteTmp` |
| `os.Rename`, which fails when the file was renamed away | `FinishSave` |
| any of these three fails | `FailSave` |
| the process ends | `Crash` |
| `New`, which loads both files or refuses to start | `New` |

The four handlers share these actions: a request carries the kind of registry,
and info only when it is an add. A file's content is a whole registry, `Empty`
(truncated) or `Torn` (bytes that do not parse). What matters for two savers is
*which inode* a descriptor writes to after renames, so `fd` names a descriptor
by where its inode is linked now: as the temporary file, as the JSON file
(renamed under the writer), or nowhere. Writing over a longer old content
leaves its tail behind (`Overlay`). Name syntax, targets and the user database
are membership in the constants `Labels`, `TargetOk`, `KnownUsers`.

`DurableRegistry` is the abstract specification: a map in memory that changes
one entry at a time and a durable map that becomes, in one step, the whole of
it. `Registry` implements it for one client at a time (`ImplementsDurable`,
with the files read as `loadRelays` reads them as the refinement mapping).

`RegistryAudit` adds two history variables that remember what an answer
promised which no other request on that registry overlapped, for the property
of concurrent clients (`AckedSurvives`).

### Routing

Extends Registry: the control handlers and the requests interleave. Every
`Load`, `LoadOrStore`, `Stat`, dial and use of the connection pool is a step of
a request (`LookupProxy`, `LookupRelay`, `StatSocket`, `PutProxy`, `Rewrite`,
`ReuseConn`, `Dial`, ...). A proxy is an identity in `Handlers` with the
constructor that made it and a pool; it is reclaimed once neither a map nor a
request refers to it, so that a finite set of identities is enough. A pooled
connection is filed under the scheme and host of the outgoing URL, as
`http.Transport` does, and remembers where it leads. Hosts are reduced to
`name.localhost` and `app.name.localhost`, what `Rewrite` puts in the URL to
the five shapes in `Hosts`. Sockets come and go, backends answer, fail and
close connections at will.

The properties speak of *calm* requests: no control request on their name
overlapped them and their conventional socket did not change. This is the most
the code can promise, since it reads the registry several times per request.

### Lifecycle

One action per operation of `Start`, `Stop` and `Close` on the kernel or on the
process, for any number of processes (`Instances`). Any step of a start may
fail. The kernel's rules are external: a port has one listener, a socket file
outlives its process, a path that exists cannot be bound, and closing a Go
listener unlinks its *path*, whoever's file is there. So are those of
`http.Server`: `Close` closes the listeners that `Serve` has taken up, and a
`Serve` that comes after `Close` closes its own (`Serve`, `CloseServer`).
`toClose` is the list of servers that `Stop`, or the deferred closes of a
`Start` that failed, goes through; `CloseServer` passes over one that was not
started, as the code does by its nil checks and by the defers it had made. A root
instance, which has no forward socket, is the behaviour in which
`StatRuntimeDir` goes on to `Commit`. The processes of a run may be replaced
by each other in any order, so that one can be at any step of its stop or of
its failed start while the other is at any step of its own.

### Health

The checker's round: the list key by key (`VisitRelay`, `VisitUser`, `ReadDir`,
`CheckShadow`, `StatSocket`), the concurrent dials (`Dial`), the replacement of
the table (`StoreStatuses`), while handlers, services and backends change
everything they can in between. The list that the control verb and the welcome
page make runs the same code and changes nothing, so it needs no actor of its
own. Two histories are kept: the names touched since the list began, and the
targets whose backend did not change since the round began. The two control
handlers are single steps here (their interleavings are Registry's subject).

### Names and Minter

`Names` reads a host as the sequence of its labels and defines what the daemon
asks of it (`UnderTLD`, `validLocalhostName`), over the constants `ValidNames`
and `Lower` for what `ValidName` and `strings.ToLower` do with one label.

In `Minter` a handshake is the three operations that `getCertificate` makes on
shared state: `cache.Load` (`Lookup`), the signing (`Mint`) and
`cache.LoadOrStore` (`Store`). The daemon reads `cert.pem` and `key.pem` one
after the other (`ReadCert`, `ReadKey`), twice, as `Options.Check` is called by
the command and again by `New`; in between anyone may rewrite one of the files
(`Rewrite`). A file holds one half of a pair, something else or nothing. Time is
counted in hours and is only compared, so that a year may be two hours long.
`whole` is a history variable: the files were a pair when they were read.

### CAFiles and TrustStores

`CAFiles` has `ca init` and `ca cert`, `TrustStores` extends it with
`ca install` and `ca uninstall`. One command runs at a time; every call of a
tool or of the kernel is an action (`CreateCA`, `ChmodDir`, `WriteAnchor`,
`Refresh`, `DeleteOld`, `AddNew`, `Dump`, `DeleteCA`, ...) with a branch in
which it fails, perhaps after half of its effect, and `Kill` may come between
any two. `last` is what the command that ended had to do, what it had done and
whether a tool failed under it. `Appears`, `Imported`, `Dropped`, `Supplied` and
`Refreshed` are the world: browsers started for the first time, certificates
of the same name, the package manager.

A command goes through the databases of a browser in some order (`Current`): the
theorems hold for any, the run has one. ca install without flags chooses the
browsers that are present, as the code does before its first step.

The platform is one of three: on Linux the system store is a file among the
anchors and the bundle made of it, on macOS the keychain, elsewhere there is
none. All CAs share the default nickname, as the commands use it for all.

### Delegation

A request goes from browser to daemon to daemon over registries that stay as
they are; what one daemon does with it is one step: `Target` is the order of
look-ups of `handleRequest` and `serveUser`, `Rewritten` is what the three
`Rewrite` functions do with host, scheme and `X-Forwarded-*` headers. On a
welcome page the browser may follow the link of any entry (`LinkScheme`,
`LinkBase`, `LinkPort`), and arrives at whoever has the port. `routed` collects
the entries that the request was led to, `goal` is the one the link was for.
Routing, in which registries change under a request, and Delegation, in which
requests pass through several daemons, complement each other.

## 3. What the runs check

Bounds are chosen as the smallest that contain every interesting case; each run
explores its whole state space.

| Run | Bounds | Distinct states | What it shows |
|---|---|---|---|
| RegistrySerial | 1 client, both registries, 4 names (two good, one reserved, one malformed), a good and a bad target, 1 failing operation, 1 crash | 92 thousand | `AlwaysLoadable`, `OneKindUnlessSaveFailed`, `ImplementsDurable` |
| RegistryContended | 2 clients (symmetric), 1 registry, 2 names, 1 failing operation, 1 crash | 393 thousand | `AckedSurvives` |
| RoutingSteady | 1 name, 2 targets of each kind that differ in network, scheme and clean-url, a conventional socket, 1 request at a time, 3 proxies | 408 thousand | `ServesRegistered`, `ServesChecked`, `NotFoundIsTrue` |
| RoutingShared | the same with 2 requests at once and 2 relay targets | 769 thousand | `SharedProxy` |
| LifecycleReplace | 2 processes on the same ports, one with HTTPS | 254 thousand | `ForwardReachable`, `ForwardLeftAlone`, `ControlKept`, `NothingLeftOpen`, `Returns` |
| HealthRounds | 1 name, a good relay target and one that cannot be dialled, a user's target that is also the name's conventional socket | 330 thousand | `ListAgreesWithRouting`, `StatusRight`, `StatusSettles`, `StatusForgotten`, `CheckerReturns` |
| Minter | 2 clients, a good CA and one that is not constrained, 4 server names (good, in upper case, invalid, none), a year of 2 hours, 1 rewritten file | 288 thousand | `OneLeafPerHost`, `RightLeaf`, `ServedValid`, `RefusedRightly`, `Settles` |
| TrustStores | 2 commands, 1 failing call, 1 kill and 1 event of the world, Linux and macOS, 2 CAs, 1 foreign certificate, 2 Firefox profiles, 1 Chrome database | 3.5 million | `InstallTrusts`, `UninstallRevokes`, `SparesOthers`, `FailsForReason`, `PublicCA`, `NoHalfPair`, `PairKept` |
| Delegation | root and two users, every registry out of 12 entries, 7 typed hosts, any number of links | 352 thousand | `LinksLead`, `WhosePage`, `NoLoops` |
| RegistryTornSave | 2 clients, 1 registry, 2 names, nothing fails | | violation, section 5 |
| RoutingPrecedence | 1 name, 1 relay, 1 request | | violation, section 5 |
| LifecycleUnlinked | 2 processes | | violation, section 5 |

Why this is enough: in Registry, a save works on one registry through one file,
so that two clients are the least that can contend, and two names the least for
snapshots to differ; a second failure or crash meets the same states again, as
files and maps are all that survive. In Routing, caches, pools and registry are
separate for each name; three proxies are the old one in use, the cached one
and one being made. In Lifecycle, every hazard is between a process and one
other. In Health, names meet in a list only through `entries`, where each
concerns its own. In Minter, handshakes meet in the cache entry of one name,
two at a time; leaves differ in their host, and in when and by whom they were
minted. In TrustStores, a command sees nothing of those before it but files and
stores: of any two commands one finds what the other, failed or killed
anywhere, left. In Delegation, the entries are chosen such that each kind leads
to each kind of daemon, two users' entries lead to each other and to
themselves, and the ports include a standard one under the other scheme. Much
of this is proved without bounds (section 4).

The counters are `MaxFails` and `MaxCrashes` (Registry, CAFiles), `MaxCommands`
(CAFiles), `MaxEvents` (TrustStores), `MaxTime`, `Year` and `MaxWrites`
(Minter); the theorems hold for every value of those they meet. `hops` in
Delegation counts to two and then alternates.

Deadlock is checked in every run but RegistryContended: there a daemon that
finds a torn file refuses to start, and the system does stop.

**Fairness.** Lifecycle assumes that the main goroutine and every other one of a
process keep being scheduled (weak fairness per goroutine), and nothing about
launches, signals or crashes. Health assumes the same of the checker and that
the ticker fires; `Return` is strongly fair because Go's `select` picks at random among
the cases that are ready, so that a checker to which ticks keep coming sees the
cancelled context in the end. Dials end because `net.DialTimeout` has a
timeout. Minter assumes it of the goroutine of each handshake and of the start,
Delegation that a daemon deals with the request it has. Registry, Routing and
TrustStores state safety only, and assume no fairness.

## 4. What is proved

| Theorem | Statement | Assumes |
|---|---|---|
| `TypeCorrect`, `AuditTypeCorrect` (RegistryProofs) | the type invariants | |
| `AckedAlwaysSurvives` (RegistryProofs) | `AuditSpec => []AckedSurvives` | |
| `SerialAlwaysLoadable` (RegistrySerialProofs) | `Spec => []AlwaysLoadable` | `Serial` |
| `SerialImplementsDurable` (RegistrySerialProofs) | `Spec => ImplementsDurable` | `Serial` |
| `SerialOneKind` (RegistrySerialProofs) | `Spec => []OneKindUnlessSaveFailed` | `Serial` |
| `RoutingTypeCorrect` (RoutingProofs) | the type invariant | |
| `AlwaysServesRegistered`, `AlwaysServesChecked` (RoutingProofs) | `RoutingSpec => []ServesRegistered`, `[]ServesChecked` | |
| `AlwaysSharedProxy` (RoutingProofs) | `RoutingSpec => []SharedProxy` | |
| `NotFoundAlwaysTrue` (RoutingProofs) | `RoutingSpec => NotFoundIsTrue` | |
| `LifecycleTypeCorrect` (LifecycleProofs) | the type invariant | |
| `NothingEverLeftOpen` (LifecycleProofs) | `Spec => NothingLeftOpen` | |
| `ForwardAlwaysLeftAlone` (LifecycleProofs) | `Spec => ForwardLeftAlone` | `OneHTTPPort` |
| `ForwardAlwaysReachable` (LifecycleProofs) | `Spec => []ForwardReachable` | `OneHTTPPort` |
| `ControlAlwaysKept` (LifecycleProofs) | `Spec => ControlKept` | `OneHTTPPort` |
| `HealthTypeCorrect` (HealthProofs) | the type invariant | |
| `StatusAlwaysRight` (HealthProofs) | `Spec => StatusRight` | |
| `ListAlwaysAgrees` (HealthProofs) | `Spec => []ListAgreesWithRouting` | |
| `MinterTypeCorrect` (MinterProofs) | the type invariant | |
| `OneLeafAlways`, `RightLeafAlways` (MinterProofs) | `MinterSpec => []OneLeafPerHost`, `[]RightLeaf` | |
| `ServedAlwaysValid`, `RefusedAlwaysRightly` (MinterProofs) | `MinterSpec => []ServedValid`, `[]RefusedRightly` | |
| `TrustTypeCorrect` (TrustStoresProofs) | the type invariant | |
| `AlwaysPublicCA`, `AlwaysNoHalfPair` (TrustStoresProofs) | `TrustSpec => []PublicCA`, `[]NoHalfPair` | |
| `PairAlwaysKept` (TrustStoresProofs) | `TrustSpec => PairKept` | |
| `InstallAlwaysTrusts`, `UninstallAlwaysRevokes` (TrustStoresProofs) | `TrustSpec => []InstallTrusts`, `[]UninstallRevokes` | |
| `OthersAlwaysSpared`, `AlwaysFailsForReason` (TrustStoresProofs) | `TrustSpec => SparesOthers`, `FailsForReason` | |
| `DelegationTypeCorrect` (DelegationProofs) | the type invariant | |
| `AlwaysWhosePage`, `AlwaysLinksLead` (DelegationProofs) | `DelegationSpec => []WhosePage`, `[]LinksLead` | |

All hold for any sets of clients, requests, names, targets, processes,
certificates and databases and for any number of commands, failures and
crashes, under the modules' named assumptions on constants, which TLC evaluates
in the runs. Three of these are worth a word: `NamesAssumption` says of
`strings.ToLower` what the code relies on (it is idempotent, keeps the names
that `ValidName` accepts, "localhost" among them, and makes only the empty label
empty), `TrustAssumption` that no directory is a profile of Firefox and a
database of Chrome, and `DelegationAssumption` that a port has one listener,
without which the port of a link would not say whose page it leads to. The others only keep model values apart or give bounds their types.

`Serial` says there is one client; without it the first two theorems that assume
it are false (finding 1) and so is the third (section 6). `OneHTTPPort` says that
all processes have one HTTP port, the interlock that `SPEC.md` names; section 6
says what happens without it.

* **Uncontended answers** (`AuditInv`). `AckedSurvives` says nothing of a save
  in progress, so it is not inductive. `SoloSave` says how far an uncontended
  save has come: the snapshot agrees with the map on the keys visited, then on
  all, then the temporary file holds the snapshot and the descriptor is the
  temporary file's. The argument needs that no one else touches that registry
  (`SoloInv`) and that a promise is withdrawn as soon as someone begins to
  (`AckedInv`).
* **One client** (`SerialInv`). With one client every save is uncontended: the
  same `SoloSave` shows that a rename installs a whole registry. The refinement
  maps the rename to `Persist`, the store or delete to `Change`, a crash to
  `Lose`, a start to `Recover`, and every other step to a stutter.
* **One kind per name** (`OneKindSafe`). While no save has failed, the file of
  each registry is the map before or after the change in progress; so names of
  the two files and maps stay apart across restarts, and an add that has passed
  its check keeps the other map clear of its name.
* **Routing** (`RoutingInv`). The properties are about one instant of a request
  and say nothing of proxies and pools, where a stale target would come from. A
  cached proxy is in one map under one name (`CacheInv`), what nobody refers to
  has no pool (`GarbageInv`), and the pool of a cached proxy leads where the
  registry says, unless a handler has changed the entry and has the proxy still
  to drop (`PoolInv`, `Dirty`). Requests that hold a proxy return connections to
  it: those it will return must lead there as well (`TripInv`). For a calm
  request no handler is in between, and what it has read is still so (`CalmInv`).
* **Forward socket** (`InterlockInv`). From the bind of the HTTP port to the
  first step of `Stop` a process holds that port, so at most one is between its
  dial of the forward socket and its own listening on it; nobody can begin to
  answer there between the dial and the removal.
* **Socket files** (`ReachInv`). A process that has yet to close the forward
  socket owns its file (`ClaimInv`). Others close a listener of that path, and
  so unlink the file, only if they own it too; a starting daemon removes it only
  under the interlock. This needs that no server is started before its step of
  `Start` (`ServeInv`) nor closed twice (`CloseInv`). `ControlKept` follows from
  the interlock as well: a start gets to its removal of `control.sock` only with
  the HTTP port, which the process that serves it still has unless it is closing.
* **No listener left** (`OpenInv`). An open listener has a `Serve` that is still
  to take it up, or one that has and whose server nobody has closed, or is at the
  `chmod` after `listen`: so one is left to close it when `wg.Wait` returns.
* **Minter** (`MinterInv`). `OneLeafPerHost` is not inductive: a served leaf is
  the cached one, and `LoadOrStore` never replaces that. A leaf in the cache, or
  about to be stored, was minted by this daemon, for the name it is under, at a
  time since the start (`LeafFor`); the two reads of a file make a pair unless
  someone wrote in between (`BootInv`).
* **Certificate files and stores** (`TrustInv`). What the properties say of the
  last command follows from an account of the running one: at each place, which
  files of the leaf are there (`LeafInv`) and which target and database are
  current (`PlaceInv`); what is wanted is done or still ahead, and nothing is
  done twice (`WantInv`), hence a store that is done is not touched again; it
  has the certificate, or does not have it, in a way (`Holds`, `Gone`) that no
  refresh by the package manager and no import undoes (`InstallInv`,
  `UninstallInv`, `ResultInv`).
* **Health** (`DialsRight`, `ListInv`). What a dial found stays right for steady
  targets; and at each stage of the list, a name that was not touched has
  exactly the entries that the registries and files visited so far give it, a
  file that waits for its turn is still there, and one that has passed the look
  into `relays` is still not shadowed.
* **Delegation** (`DelegationInv`). `WhosePage` speaks of the name that was
  typed, which a delegated request has lost. What it has left is a prefix of it:
  `TypedInv` says that after any number of delegations the host is the first
  labels of what was typed, the last of them become "localhost", and that the
  daemon is that of the user whose label it was; a cleaned host leads nowhere.
  For `LinksLead`, `DirectInv` and `DelegatedInv` say what a request at localhost
  shows of how it came, directly or by one delegation: the scheme, host and port
  from which the page makes its links are those of the daemon the browser
  reached (`PortOf`). `GoalInv` follows the link from there: the entry is before
  the request, or one delegation further (`OnCourse`), and at each of the two
  steps the look-up finds that one entry (`CourseTarget`).

**Model-checked only:** the liveness properties (`Returns`, `CheckerReturns`,
`StatusSettles`, `StatusForgotten`, `Settles`, `NoLoops`), which the prover does
not handle.

## 5. Where the code and its comments disagree

Each has a run that ends in a counterexample.

1. **RegistryTornSave** (`relay.go:192`). A save is described as durable ("temp
   file + rename"), but two adds at once write to one temporary path: a saver's
   descriptor may refer to the inode that the other has already renamed to
   `relays.json`. A crash then, or contents of different length, leaves a file
   on which the next start fails. In the same setting the map is no longer
   "kept in sync with relaysPath" (`relay.go:184`) either: the save that copied
   the map first may rename last, both clients are told "ok" and the file lacks
   one entry (`KeptInSync` is false).
2. **RoutingPrecedence** (`relay.go:919`). An add drops the cached proxy "so the
   new relay takes precedence over a conventional socket"; a request that had
   found the socket before caches its proxy again after the drop, and the relay
   stays shadowed.
3. **LifecycleUnlinked** (`relay.go:850`). Binding the address is to be the
   single-instance interlock (`SPEC.md:360`), but `Stop` gives the HTTP port back
   before it closes the control server, which unlinks `control.sock` by path: a
   successor that starts in between loses its socket file and is up without
   being reachable.

## 6. Behaviour to know of

Visible in the models, without a run of its own: most of it nothing in the
repository denies or the source calls best effort; where `SPEC.md` has it
otherwise, that is said.

* With two clients, one add of each kind can bring a name into both registries
  (`relay.go:250`); with one client it takes a remove whose save failed, an add
  of the other kind and a restart. Hence the conditions of
  `OneKindUnlessSaveFailed`.
* After a failed save the entry in memory stays changed: the client is told of
  an error, and the change is in effect until a restart or for good.
* The cached proxy of a conventional socket outlives the socket: later requests
  get 502 rather than 404, and a delegation of that name is not looked at
  (`relay.go:906`).
* A request that an add of its name overlaps can dial the new target with the
  scheme of the old one; the properties speak of calm requests for that reason.
* A daemon that starts while its predecessor still answers on the forward socket
  exposes none and does not try again (`relay.go:725`). Two daemons on different
  HTTP ports are not interlocked: both can find the forward socket dead and one
  can remove the other's, hence `OneHTTPPort`.
* A list may show a name that changes meanwhile twice or not at all.

Certificates of the daemon:

* Leaves are cached for the life of the daemon and never renewed. After a year
  less an hour clients are served expired ones, where `SPEC.md:767-770` has them
  minted again before they expire; `ServedValid` is for the time before.
* `newCertMinter` does not compare certificate and key: a daemon that finds
  halves of different pairs starts, and refuses every handshake
  (`RefusedRightly`), where `SPEC.md:757-758` has the start fail.

Certificate commands:

* `ca uninstall -system` on Linux removes the anchor before the refresh. If the
  refresh fails or is killed, a retry finds no anchor and reports success while
  the bundle still trusts the CA (`ca_system_linux.go:74-91`). A failing
  `certutil -L` counts as an absent certificate. `UninstallRevokes` excludes
  these two.
* `ca install -system` on Linux copies `cert.pem` without a look at it. An
  anchor that was torn by a failed write makes `ca uninstall` refuse until the
  next install.
* `ca install` deletes whatever is under its nickname in a database; if the add
  then fails, the database is left without any. `ca uninstall` stops at the
  first profile with a foreign certificate under the nickname and does not get
  to later ones.
* A `ca cert` that was killed leaves its files behind, and a retry refuses until
  they are removed.

Delegation:

* A daemon that was itself reached by a delegation sets `X-Forwarded-*` anew, and
  relays and conventional sockets drop them: on a page two hops away, links have
  lost the browser's port and scheme. `LinksLead` is for one hop.
* A user's entry that a conventional socket of the same name shadows is listed
  with a link that leads to the socket; sockets whose file name is not a valid
  name are listed but have no working link.
* Nothing but the owner check limits the depth of delegation, whereas `SPEC.md`
  section 12.4 has one label; a relay whose target is the daemon's own port
  sends a request round until resources run out (premise of `NoLoops`).

## 7. What is not modelled

Power loss (nothing is synced to disk; a crash here is the end of the process);
an unexpected end of `Serve`; the retries inside `http.Transport` and how a
request is cut off when its backend fails after the first byte; the daemonizing
and lock files of the library behind `run`; the order of the sorted list; the
HTML of the welcome page.

The command-line client has no state: it sends one request and prints the
answer, and is the environment of Registry. Of the options, the defaults
(`setDefaults`, `ResolveSocketsDir`, `ResolveDataDir`) are pure functions of the
uid and the environment variables; the ports and whether there is a CA are
constants of Lifecycle (`Secure`, `HTTPPort`, `HTTPSPort`).

In Minter and CAFiles, how keys are encoded and certificates are signed is
external. Two certificate commands at once are not modelled (two `ca cert` for
one name can mix their files). Where the tools and the stores of a distribution
are, the curves and the name of the CSR's temporary directory are left out, and
so are socket files with dots in their names and browsers that send
`X-Forwarded-*` headers themselves. The platform without a system store is in
the module but not in the run: there `-system` is refused.

In Health the ticker can fire
during the first round, before the code has made it.

## 8. Plan

Done: Registry with its abstract specification and history, Routing over it,
Lifecycle, Health, Minter, the certificate commands, Delegation; the theorems of
section 4. The order was: the data that must survive first, then what reads it,
then the process around both, then what is beside them.

Every safety and action property of the runs is a theorem now. Next would be the
parts of the liveness properties that are safety: for each of them, the measure
that goes down with every step.
