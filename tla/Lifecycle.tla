----------------------------- MODULE Lifecycle ------------------------------
(***************************************************************************)
(* Starting and stopping the daemon (Start, Stop and Close of              *)
(* servers/relay.go as run in subcmds/serve.go drives them), for several   *)
(* processes of one user that share the sockets directory and the runtime  *)
(* directory: a daemon and the one that replaces it, or two daemons on     *)
(* ports of their own.                                                     *)
(*                                                                         *)
(* The kernel is external: a TCP port has one listener at a time; binding  *)
(* a Unix socket makes a file that outlives a crash; a path that exists    *)
(* cannot be bound; closing a Go listener first unlinks its path, whoever  *)
(* made the file there.  http.Server is external too: its Close closes the *)
(* listeners that Serve has taken up, and a Serve that comes later closes  *)
(* its listener itself.                                                    *)
(***************************************************************************)
EXTENDS Naturals, Sequences

CONSTANTS
    Instances,  \* the daemon's processes
    Secure,     \* those with a CA directory: they serve HTTPS too
    Ports,
    HTTPPort, HTTPSPort,  \* functions from Instances to Ports
    Nobody

Paths == {"control", "forward"}
Servers == {"http", "https"} \cup Paths

ASSUME LifecycleAssumption ==
    /\ Secure \subseteq Instances
    /\ HTTPPort \in [Instances -> Ports] /\ HTTPSPort \in [Instances -> Ports]
    /\ \A i \in Instances : HTTPPort[i] # HTTPSPort[i]
    /\ Nobody \notin Instances

VARIABLES
    at,       \* at[i]: where i is in run, Start, Stop or Close
    bound,    \* bound[p]: the instance listening on TCP port p
    file,     \* file[s]: the instance whose listener made the socket file s
    open,     \* open[i]: the servers whose listener i has open
    serve,    \* serve[i][s]: the goroutine that runs Serve for s
    shut,     \* shut[i]: the servers that i has called Close on
    toClose,  \* toClose[i]: the servers i has still to Close, in order
    health    \* health[i]: the goroutine of startHealthChecks

vars == <<at, bound, file, open, serve, shut, toClose, health>>
kernel == <<bound, file, open>>

StartSteps == {"http", "https", "remove", "listen", "chmod", "stat", "dial",
               "fremove", "flisten", "fchmod", "commit"}
Steps == {"off", "up", "close", "wait"} \cup StartSteps

PortOf(i, s) == IF s = "http" THEN HTTPPort[i] ELSE HTTPSPort[i]

(* The types, and that the kernel's tables agree with the listeners.       *)
LifecycleTypeOK ==
    /\ at \in [Instances -> Steps]
    /\ bound \in [Ports -> Instances \cup {Nobody}]
    /\ file \in [Paths -> Instances \cup {Nobody}]
    /\ open \in [Instances -> SUBSET Servers]
    /\ serve \in [Instances -> [Servers -> {"none", "started", "serving", "returned"}]]
    /\ shut \in [Instances -> SUBSET Servers]
    /\ toClose \in [Instances -> Seq(Servers)]
    /\ health \in [Instances -> {"none", "running", "returned"}]
    /\ \A i \in Instances : at[i] = "off" => open[i] = {}
    /\ \A p \in Ports : bound[p] # Nobody =>
        \E s \in open[bound[p]] \ Paths : p = PortOf(bound[p], s)

NoServe == [s \in Servers |-> "none"]

Init ==
    /\ at = [i \in Instances |-> "off"]
    /\ bound = [p \in Ports |-> Nobody]
    /\ file = [s \in Paths |-> Nobody]
    /\ open = [i \in Instances |-> {}]
    /\ serve = [i \in Instances |-> NoServe]
    /\ shut = [i \in Instances |-> {}]
    /\ toClose = [i \in Instances |-> <<>>]
    /\ health = [i \in Instances |-> "none"]

-----------------------------------------------------------------------------
(* The kernel                                                              *)

Free(i, s) == IF s \in Paths THEN file[s] = Nobody ELSE bound[PortOf(i, s)] = Nobody

(* net.Listen and the close of a listener.                                 *)
Listen(i, s) ==
    /\ Free(i, s)
    /\ open' = [open EXCEPT ![i] = @ \cup {s}]
    /\ file' = IF s \in Paths THEN [file EXCEPT ![s] = i] ELSE file
    /\ bound' = IF s \in Paths THEN bound ELSE [bound EXCEPT ![PortOf(i, s)] = i]

(* Mutant of CloseListener: the port is not given back.                    *)
LeakPort(i, s) ==
    /\ open' = [open EXCEPT ![i] = @ \ {s}]
    /\ file' = IF s \in Paths THEN [file EXCEPT ![s] = Nobody] ELSE file
    /\ bound' = bound

CloseListener(i, s) ==
    /\ open' = [open EXCEPT ![i] = @ \ {s}]
    /\ file' = IF s \in Paths THEN [file EXCEPT ![s] = Nobody] ELSE file
    /\ bound' = IF s \in Paths THEN bound
                ELSE [bound EXCEPT ![PortOf(i, s)] = IF @ = i THEN Nobody ELSE @]

Remove(s) == file' = [file EXCEPT ![s] = Nobody] /\ UNCHANGED <<bound, open>>

(* A dial to path s finds a listener.                                      *)
Answers(s) == file[s] # Nobody /\ s \in open[file[s]]

-----------------------------------------------------------------------------
(* Start: a step on the kernel may fail for a reason of its own as well as *)
(* for a port or a path that is taken.                                     *)

Goto(i, step) == at' = [at EXCEPT ![i] = step]

Started(i, s) == serve[i][s] # "none"
Spawn(i, s) == serve' = [serve EXCEPT ![i][s] = "started"]

(* Mutant of Fail: the first server is not closed.                         *)
FailKeepsHTTP(i) ==
    /\ Goto(i, "close")
    /\ toClose' = [toClose EXCEPT ![i] = <<"control", "https">>]

(* Start returns an error: the deferred closes run, last server first.     *)
Fail(i) ==
    /\ Goto(i, "close")
    /\ toClose' = [toClose EXCEPT ![i] = <<"control", "https", "http">>]

(* Mutant of Launch: the control socket is made before the ports are bound. *)
LaunchControlFirst(i) ==
    /\ at[i] = "off"
    /\ Goto(i, "remove")
    /\ UNCHANGED <<kernel, serve, shut, toClose, health>>

Launch(i) ==
    /\ at[i] = "off"
    /\ Goto(i, "http")
    /\ UNCHANGED <<kernel, serve, shut, toClose, health>>

ListenTCP(i, s, next) ==
    /\ at[i] = s
    /\ \/ /\ Listen(i, s) /\ Spawn(i, s) /\ Goto(i, next)
          /\ UNCHANGED toClose
       \/ Fail(i) /\ UNCHANGED <<kernel, serve>>
    /\ UNCHANGED <<shut, health>>

ListenHTTP(i) == ListenTCP(i, "http", IF i \in Secure THEN "https" ELSE "remove")
ListenHTTPS(i) == ListenTCP(i, "https", "remove")

(* os.Remove takes whatever is at the control path.                        *)
RemoveControl(i) ==
    /\ at[i] = "remove"
    /\ \/ Remove("control") /\ Goto(i, "listen") /\ UNCHANGED toClose
       \/ Fail(i) /\ UNCHANGED kernel
    /\ UNCHANGED <<serve, shut, health>>

ListenControl(i) ==
    /\ at[i] = "listen"
    /\ \/ Listen(i, "control") /\ Goto(i, "chmod") /\ UNCHANGED toClose
       \/ Fail(i) /\ UNCHANGED kernel
    /\ UNCHANGED <<serve, shut, health>>

(* Mutant of ChmodControl: the listener stays open when chmod fails.       *)
ChmodControlLeaks(i) ==
    /\ at[i] = "chmod"
    /\ \/ Spawn(i, "control") /\ Goto(i, "stat") /\ UNCHANGED <<kernel, toClose>>
       \/ Fail(i) /\ UNCHANGED <<kernel, serve>>
    /\ UNCHANGED <<shut, health>>

ChmodControl(i) ==
    /\ at[i] = "chmod"
    /\ \/ Spawn(i, "control") /\ Goto(i, "stat") /\ UNCHANGED <<kernel, toClose>>
       \/ CloseListener(i, "control") /\ Fail(i) /\ UNCHANGED serve
    /\ UNCHANGED <<shut, health>>

(* The forward socket is best effort: whatever fails, Start goes on.       *)
StatRuntimeDir(i) ==
    /\ at[i] = "stat"
    /\ Goto(i, "dial") \/ Goto(i, "commit")
    /\ UNCHANGED <<kernel, serve, shut, toClose, health>>

(* Mutant of DialForward: whatever is at the path counts as stale.         *)
SkipDial(i) ==
    /\ at[i] = "dial"
    /\ Goto(i, "fremove")
    /\ UNCHANGED <<kernel, serve, shut, toClose, health>>

DialForward(i) ==
    /\ at[i] = "dial"
    /\ Goto(i, IF Answers("forward") THEN "commit" ELSE "fremove")
    /\ UNCHANGED <<kernel, serve, shut, toClose, health>>

RemoveForward(i) ==
    /\ at[i] = "fremove"
    /\ \/ Remove("forward") /\ Goto(i, "flisten")
       \/ Goto(i, "commit") /\ UNCHANGED kernel
    /\ UNCHANGED <<serve, shut, toClose, health>>

ListenForward(i) ==
    /\ at[i] = "flisten"
    /\ \/ Listen(i, "forward") /\ Goto(i, "fchmod")
       \/ Goto(i, "commit") /\ UNCHANGED kernel
    /\ UNCHANGED <<serve, shut, toClose, health>>

ChmodForward(i) ==
    /\ at[i] = "fchmod"
    /\ Goto(i, "commit")
    /\ \/ Spawn(i, "forward") /\ UNCHANGED kernel
       \/ CloseListener(i, "forward") /\ UNCHANGED serve
    /\ UNCHANGED <<shut, toClose, health>>

Commit(i) ==
    /\ at[i] = "commit"
    /\ health' = [health EXCEPT ![i] = "running"]
    /\ Goto(i, "up")
    /\ UNCHANGED <<kernel, serve, shut, toClose>>

-----------------------------------------------------------------------------
(* Stop and Close                                                          *)

(* The context of run ends: Stop closes the servers in this order.         *)
Signal(i) ==
    /\ at[i] = "up"
    /\ Goto(i, "close")
    /\ toClose' = [toClose EXCEPT ![i] = <<"http", "https", "control", "forward">>]
    /\ UNCHANGED <<kernel, serve, shut, health>>

(* A server that was never started is passed over.                         *)
CloseServer(i) ==
    /\ at[i] = "close" /\ toClose[i] # <<>>
    /\ LET s == Head(toClose[i]) IN
        /\ shut' = IF Started(i, s) THEN [shut EXCEPT ![i] = @ \cup {s}] ELSE shut
        /\ IF serve[i][s] = "serving" THEN CloseListener(i, s) ELSE UNCHANGED kernel
    /\ toClose' = [toClose EXCEPT ![i] = Tail(@)]
    /\ UNCHANGED <<at, serve, health>>

(* The deferred Close: lifeCancel, then wg.Wait.                           *)
Cancel(i) ==
    /\ at[i] = "close" /\ toClose[i] = <<>>
    /\ Goto(i, "wait")
    /\ UNCHANGED <<kernel, serve, shut, toClose, health>>

(* The process is gone: the kernel closes its listeners, the files stay.   *)
Exit(i) ==
    /\ Goto(i, "off")
    /\ open' = [open EXCEPT ![i] = {}]
    /\ bound' = [p \in Ports |-> IF bound[p] = i THEN Nobody ELSE bound[p]]
    /\ serve' = [serve EXCEPT ![i] = NoServe]
    /\ shut' = [shut EXCEPT ![i] = {}]
    /\ toClose' = [toClose EXCEPT ![i] = <<>>]
    /\ health' = [health EXCEPT ![i] = "none"]
    /\ UNCHANGED file

AllReturned(i) ==
    /\ \A s \in Servers : serve[i][s] \in {"none", "returned"}
    /\ health[i] # "running"

Wait(i) == at[i] = "wait" /\ AllReturned(i) /\ Exit(i)

Crash(i) == at[i] # "off" /\ Exit(i)

-----------------------------------------------------------------------------
(* The goroutines                                                          *)

(* Serve takes the listener up unless the server was closed before.        *)
Serve(i, s) ==
    /\ serve[i][s] = "started"
    /\ IF s \in shut[i]
       THEN /\ serve' = [serve EXCEPT ![i][s] = "returned"]
            /\ CloseListener(i, s)
       ELSE /\ serve' = [serve EXCEPT ![i][s] = "serving"]
            /\ UNCHANGED kernel
    /\ UNCHANGED <<at, shut, toClose, health>>

ServeReturns(i, s) ==
    /\ serve[i][s] = "serving" /\ s \in shut[i]
    /\ serve' = [serve EXCEPT ![i][s] = "returned"]
    /\ UNCHANGED <<at, kernel, shut, toClose, health>>

HealthReturns(i) ==
    /\ health[i] = "running" /\ at[i] = "wait"
    /\ health' = [health EXCEPT ![i] = "returned"]
    /\ UNCHANGED <<at, kernel, serve, shut, toClose>>

-----------------------------------------------------------------------------
(* Specification                                                           *)

StartStep(i) ==
    \/ ListenHTTP(i) \/ ListenHTTPS(i) \/ RemoveControl(i) \/ ListenControl(i)
    \/ ChmodControl(i) \/ StatRuntimeDir(i) \/ DialForward(i) \/ RemoveForward(i)
    \/ ListenForward(i) \/ ChmodForward(i) \/ Commit(i)

StopStep(i) == CloseServer(i) \/ Cancel(i) \/ Wait(i)

Goroutine(i) ==
    \/ HealthReturns(i)
    \/ \E s \in Servers : Serve(i, s) \/ ServeReturns(i, s)

Next ==
    \E i \in Instances :
        \/ Launch(i) \/ Signal(i) \/ Crash(i)
        \/ StartStep(i) \/ StopStep(i) \/ Goroutine(i)

(* The main goroutine and the others of a process are scheduled fairly;    *)
(* nothing forces a start, a signal or a crash.                            *)
Fairness ==
    \A i \in Instances :
        /\ WF_vars(StartStep(i)) /\ WF_vars(StopStep(i))
        /\ WF_vars(HealthReturns(i))
        /\ \A s \in Servers : WF_vars(Serve(i, s)) /\ WF_vars(ServeReturns(i, s))

Spec == Init /\ [][Next]_vars /\ Fairness

-----------------------------------------------------------------------------
(* Properties                                                              *)

(* As long as the daemon is up, a client that dials control.sock reaches   *)
(* it, whatever a crash left at the path.                                  *)
ControlReachable ==
    \A i \in Instances : at[i] = "up" => file["control"] = i /\ Answers("control")

(* A daemon that starts never takes control.sock away from one that serves *)
(* it and has not been told to stop: it fails to bind the HTTP port before *)
(* it gets to the removal.  The socket is only lost to a daemon that       *)
(* closes its own control server.                                          *)
ControlKept ==
    [][\A i \in Instances :
        (serve[i]["control"] # "none" /\ at[i] # "close" /\ at[i] # "wait"
            /\ file["control"] = i /\ file'["control"] # i)
        => \E j \in Instances \ {i} : "control" \in shut'[j]]_vars

(* A daemon that exposes a forward socket keeps it: from the start of its  *)
(* server to the close, a dial of the path reaches this daemon, whatever a *)
(* predecessor that is still closing, or crashed, does to the path.        *)
ForwardReachable ==
    \A i \in Instances :
        (serve[i]["forward"] \in {"started", "serving"} /\ "forward" \notin shut[i])
        => file["forward"] = i /\ Answers("forward")

(* "If another instance is actively listening, leave its socket alone":    *)
(* Start never unlinks a forward socket that has a listener.               *)
ForwardLeftAlone ==
    [][\A i \in Instances : (at[i] = "fremove" /\ at'[i] = "flisten")
        => ~Answers("forward")]_vars

(* A daemon that has returned from Close, after a failed start as after a  *)
(* signal, had closed every listener it opened: none is left to its exit.  *)
NothingLeftOpen ==
    [][\A i \in Instances : Wait(i) => open[i] = {}]_vars

(* Whatever step Start failed at and however far the goroutines were, run  *)
(* returns: Close does not wait for a server nobody closed.                *)
Returns ==
    \A i \in Instances : at[i] \in StartSteps \cup {"close"} ~> at[i] \in {"up", "off"}
=============================================================================
