--------------------------- MODULE LifecycleProofs --------------------------
(***************************************************************************)
(* Proofs about Lifecycle, for any number of instances.                    *)
(***************************************************************************)
EXTENDS Lifecycle, TLAPS

(* Every instance is started with the same HTTP port.                      *)
OneHTTPPort == \A i, j \in Instances : HTTPPort[i] = HTTPPort[j]

(* The steps of a daemon that holds its HTTP port and has closed nothing.  *)
Interlocked == (StartSteps \ {"http"}) \cup {"up"}

(* The tables are functions of the expected shapes.                        *)
Shapes ==
    /\ at \in [Instances -> Steps]
    /\ bound \in [Ports -> Instances \cup {Nobody}]
    /\ file \in [Paths -> Instances \cup {Nobody}]
    /\ open \in [Instances -> SUBSET Servers]
    /\ shut = [i \in Instances |-> shut[i]]

PortInv ==
    \A i \in Instances :
        /\ at[i] \in Interlocked => bound[HTTPPort[i]] = i
        /\ at[i] \notin {"close", "wait"} => shut[i] = {}

(* Between the dial and the removal nobody starts to listen: that takes    *)
(* the HTTP port.                                                          *)
ForwardInv == \A i \in Instances : at[i] = "fremove" => ~Answers("forward")

InterlockInv == Shapes /\ PortInv /\ ForwardInv

(* The invariant holds before any process is launched.                     *)
LEMMA InitInterlock == Init => InterlockInv
BY DEF Init, InterlockInv, Shapes, PortInv, ForwardInv, Steps, StartSteps,
       Interlocked, Answers, Paths

(* What the kernel's operations do to the tables.                          *)
LEMMA ListenEffect ==
    ASSUME Shapes, NEW i \in Instances, NEW s \in Servers, Listen(i, s)
    PROVE  /\ bound' \in [Ports -> Instances \cup {Nobody}]
           /\ file' \in [Paths -> Instances \cup {Nobody}]
           /\ open' \in [Instances -> SUBSET Servers]
           /\ \A p \in Ports : bound[p] \in Instances => bound'[p] = bound[p]
           /\ s = "http" => bound'[HTTPPort[i]] = i
           /\ s # "forward" => file'["forward"] = file["forward"]
           /\ s # "forward" => \A j \in Instances :
                ("forward" \in open'[j]) = ("forward" \in open[j])
<1>1. HTTPPort[i] \in Ports /\ HTTPSPort[i] \in Ports
    BY LifecycleAssumption
<1> QED
    BY <1>1, LifecycleAssumption DEF Shapes, Listen, Free, PortOf, Paths, Servers

(* Closing a listener changes its own port or path only.                   *)
LEMMA CloseEffect ==
    ASSUME Shapes, NEW i \in Instances, NEW s, CloseListener(i, s)
    PROVE  /\ bound' \in [Ports -> Instances \cup {Nobody}]
           /\ file' \in [Paths -> Instances \cup {Nobody}]
           /\ open' \in [Instances -> SUBSET Servers]
           /\ \A j \in Instances \ {i}, p \in Ports : bound[p] = j => bound'[p] = j
           /\ s # "http" => (bound[HTTPPort[i]] = i => bound'[HTTPPort[i]] = i)
           /\ Answers("forward")' => Answers("forward")
<1>1. HTTPPort[i] \in Ports /\ HTTPSPort[i] \in Ports /\ HTTPPort[i] # HTTPSPort[i]
    BY LifecycleAssumption
<1> QED
    BY <1>1, LifecycleAssumption DEF Shapes, CloseListener, PortOf, Paths, Servers, Answers

(* Two instances are never both past their HTTP listener.                  *)
LEMMA Exclusive ==
    ASSUME OneHTTPPort, PortInv, NEW i \in Instances, NEW j \in Instances,
           at[i] \in Interlocked, at[j] \in Interlocked
    PROVE  i = j
BY DEF OneHTTPPort, PortInv

(* A step of i that keeps the HTTP port of every instance that holds one,  *)
(* closes nothing behind the back of the others, and makes the forward     *)
(* socket answer only while i is interlocked.                              *)
LEMMA StepOf ==
    ASSUME OneHTTPPort, InterlockInv, NEW i \in Instances, Shapes',
           \A j \in Instances \ {i} :
               at'[j] = at[j] /\ shut'[j] = shut[j],
           \A j \in Instances \ {i} :
               bound[HTTPPort[j]] = j => bound'[HTTPPort[j]] = j,
           at'[i] \in Interlocked => bound'[HTTPPort[i]] = i,
           at'[i] \notin {"close", "wait"} => shut'[i] = {},
           at'[i] = "fremove" => ~Answers("forward")',
           Answers("forward")' => Answers("forward") \/ at[i] \in Interlocked
    PROVE  InterlockInv'
<1>1. PortInv'
    BY DEF InterlockInv, PortInv
<1>2. ForwardInv'
    <2> SUFFICES ASSUME NEW j \in Instances, at'[j] = "fremove"
                 PROVE  ~Answers("forward")'
        BY DEF ForwardInv
    <2>1. CASE j = i
        BY <2>1
    <2>2. CASE j # i
        <3>1. at[j] = "fremove" /\ ~Answers("forward")
            BY <2>2 DEF InterlockInv, ForwardInv
        <3>2. at[j] \in Interlocked
            BY <3>1 DEF Interlocked, StartSteps
        <3>3. at[i] \notin Interlocked
            BY <2>2, <3>2, Exclusive DEF InterlockInv
        <3> QED
            BY <3>1, <3>3
    <2> QED
        BY <2>1, <2>2
<1> QED
    BY <1>1, <1>2 DEF InterlockInv

(* The steps of Start keep the invariant.                                  *)
LEMMA StartInterlock ==
    ASSUME OneHTTPPort, InterlockInv, NEW i \in Instances, StartStep(i)
    PROVE  InterlockInv'
<1> USE DEF InterlockInv, Goto, Fail, kernel, Steps, StartSteps, Interlocked
<1>1. CASE ListenHTTP(i)
    <2>1. PICK next \in {"https", "remove"} : ListenTCP(i, "http", next)
        BY <1>1 DEF ListenHTTP
    <2>2. at[i] = "http" /\ shut[i] = {}
        BY <2>1 DEF ListenTCP, PortInv
    <2>3. CASE Listen(i, "http") /\ at' = [at EXCEPT ![i] = next] /\ shut' = shut
        <3>1. Answers("forward")' => Answers("forward")
            BY <2>3, ListenEffect DEF Answers, Shapes, Servers, Paths
        <3>2. Shapes'
            BY <2>3, ListenEffect DEF Shapes, Servers
        <3>3. \A j \in Instances : bound[HTTPPort[j]] = j => bound'[HTTPPort[j]] = j
            BY <2>3, ListenEffect, LifecycleAssumption DEF Servers
        <3>4. bound'[HTTPPort[i]] = i
            BY <2>3, ListenEffect DEF Servers
        <3> QED
            BY <2>2, <2>3, <3>1, <3>2, <3>3, <3>4, StepOf DEF Shapes
    <2>4. CASE at' = [at EXCEPT ![i] = "close"] /\ shut' = shut /\ UNCHANGED kernel
        BY <2>2, <2>4, StepOf DEF Shapes, Answers
    <2> QED
        BY <2>1, <2>3, <2>4 DEF ListenTCP
<1>2. CASE ListenHTTPS(i)
    <2>1. ListenTCP(i, "https", "remove")
        BY <1>2 DEF ListenHTTPS
    <2>2. at[i] = "https" /\ shut[i] = {} /\ bound[HTTPPort[i]] = i
        BY <2>1 DEF ListenTCP, PortInv
    <2>3. CASE Listen(i, "https") /\ at' = [at EXCEPT ![i] = "remove"] /\ shut' = shut
        <3>1. Answers("forward")' => Answers("forward")
            BY <2>3, ListenEffect DEF Answers, Shapes, Servers, Paths
        <3>2. Shapes'
            BY <2>3, ListenEffect DEF Shapes, Servers
        <3>3. \A j \in Instances : bound[HTTPPort[j]] = j => bound'[HTTPPort[j]] = j
            BY <2>3, ListenEffect, LifecycleAssumption DEF Servers
        <3> QED
            BY <2>2, <2>3, <3>1, <3>2, <3>3, StepOf DEF Shapes
    <2>4. CASE at' = [at EXCEPT ![i] = "close"] /\ shut' = shut /\ UNCHANGED kernel
        BY <2>2, <2>4, StepOf DEF Shapes, Answers
    <2> QED
        BY <2>1, <2>3, <2>4 DEF ListenTCP
<1>3. CASE RemoveControl(i)
    <2>1. at[i] = "remove" /\ shut[i] = {} /\ bound[HTTPPort[i]] = i
        BY <1>3 DEF RemoveControl, PortInv
    <2>2. /\ Shapes' /\ shut' = shut /\ bound' = bound /\ open' = open
          /\ file'["forward"] = file["forward"]
          /\ \/ at' = [at EXCEPT ![i] = "listen"]
             \/ at' = [at EXCEPT ![i] = "close"]
        BY <1>3 DEF RemoveControl, Remove, Shapes, Paths
    <2> QED
        BY <2>1, <2>2, StepOf DEF Shapes, Answers
<1>4. CASE ListenControl(i)
    <2>1. at[i] = "listen" /\ shut[i] = {} /\ bound[HTTPPort[i]] = i
        BY <1>4 DEF ListenControl, PortInv
    <2>2. CASE Listen(i, "control") /\ at' = [at EXCEPT ![i] = "chmod"] /\ shut' = shut
        <3>1. Answers("forward")' => Answers("forward")
            BY <2>2, ListenEffect DEF Answers, Shapes, Servers, Paths
        <3>2. Shapes'
            BY <2>2, ListenEffect DEF Shapes, Servers, Paths
        <3>3. bound' = bound
            BY <2>2 DEF Listen, Paths
        <3> QED
            BY <2>1, <2>2, <3>1, <3>2, <3>3, StepOf DEF Shapes
    <2>3. CASE at' = [at EXCEPT ![i] = "close"] /\ shut' = shut /\ UNCHANGED kernel
        BY <2>1, <2>3, StepOf DEF Shapes, Answers
    <2> QED
        BY <1>4, <2>2, <2>3 DEF ListenControl
<1>5. CASE ChmodControl(i)
    <2>1. at[i] = "chmod" /\ shut[i] = {} /\ bound[HTTPPort[i]] = i
        BY <1>5 DEF ChmodControl, PortInv
    <2>2. CASE at' = [at EXCEPT ![i] = "stat"] /\ shut' = shut /\ UNCHANGED kernel
        BY <2>1, <2>2, StepOf DEF Shapes, Answers
    <2>3. CASE CloseListener(i, "control") /\ at' = [at EXCEPT ![i] = "close"] /\ shut' = shut
        <3>1. Shapes' /\ (Answers("forward")' => Answers("forward"))
            BY <2>3, CloseEffect DEF Shapes, Servers, Paths
        <3>2. bound' = bound
            BY <2>3 DEF CloseListener, Paths
        <3> QED
            BY <2>1, <2>3, <3>1, <3>2, StepOf DEF Shapes
    <2> QED
        BY <1>5, <2>2, <2>3 DEF ChmodControl
<1>6. CASE StatRuntimeDir(i)
    BY <1>6, StepOf DEF StatRuntimeDir, PortInv, Shapes, Answers
<1>7. CASE DialForward(i)
    BY <1>7, StepOf DEF DialForward, PortInv, Shapes, Answers
<1>8. CASE RemoveForward(i)
    <2>1. at[i] = "fremove" /\ shut[i] = {} /\ bound[HTTPPort[i]] = i
        BY <1>8 DEF RemoveForward, PortInv
    <2>2. /\ Shapes' /\ shut' = shut /\ bound' = bound /\ open' = open
          /\ file'["forward"] \in {Nobody, file["forward"]}
          /\ \/ at' = [at EXCEPT ![i] = "flisten"]
             \/ at' = [at EXCEPT ![i] = "commit"]
        BY <1>8 DEF RemoveForward, Remove, Shapes, Paths
    <2> QED
        BY <2>1, <2>2, StepOf DEF Shapes, Answers
<1>9. CASE ListenForward(i)
    <2>1. at[i] = "flisten" /\ shut[i] = {} /\ bound[HTTPPort[i]] = i
        BY <1>9 DEF ListenForward, PortInv
    <2>2. CASE Listen(i, "forward") /\ at' = [at EXCEPT ![i] = "fchmod"] /\ shut' = shut
        <3>1. Shapes'
            BY <2>2, ListenEffect DEF Shapes, Servers, Paths
        <3>2. bound' = bound
            BY <2>2 DEF Listen, Paths
        <3> QED
            BY <2>1, <2>2, <3>1, <3>2, StepOf DEF Shapes
    <2>3. CASE at' = [at EXCEPT ![i] = "commit"] /\ shut' = shut /\ UNCHANGED kernel
        BY <2>1, <2>3, StepOf DEF Shapes, Answers
    <2> QED
        BY <1>9, <2>2, <2>3 DEF ListenForward
<1>10. CASE ChmodForward(i)
    <2>1. at[i] = "fchmod" /\ shut[i] = {} /\ bound[HTTPPort[i]] = i
        BY <1>10 DEF ChmodForward, PortInv
    <2>2. CASE at' = [at EXCEPT ![i] = "commit"] /\ shut' = shut /\ UNCHANGED kernel
        BY <2>1, <2>2, StepOf DEF Shapes, Answers
    <2>3. CASE CloseListener(i, "forward") /\ at' = [at EXCEPT ![i] = "commit"] /\ shut' = shut
        <3>1. Shapes' /\ (Answers("forward")' => Answers("forward"))
            BY <2>3, CloseEffect DEF Shapes, Servers, Paths
        <3>2. bound' = bound
            BY <2>3 DEF CloseListener, Paths
        <3> QED
            BY <2>1, <2>3, <3>1, <3>2, StepOf DEF Shapes
    <2> QED
        BY <1>10, <2>2, <2>3 DEF ChmodForward
<1>11. CASE Commit(i)
    BY <1>11, StepOf DEF Commit, PortInv, Shapes, Answers
<1> QED
    BY <1>1, <1>2, <1>3, <1>4, <1>5, <1>6, <1>7, <1>8, <1>9, <1>10, <1>11 DEF StartStep

(* So do the launch, the signal, the steps of Stop and Close, the          *)
(* goroutines and a crash.                                                 *)
LEMMA OtherInterlock ==
    ASSUME OneHTTPPort, InterlockInv, NEW i \in Instances,
           Launch(i) \/ Signal(i) \/ Crash(i) \/ StopStep(i) \/ Goroutine(i)
    PROVE  InterlockInv'
<1> USE DEF InterlockInv, Goto, kernel, Steps, StartSteps, Interlocked
<1>1. CASE Launch(i)
    BY <1>1, StepOf DEF Launch, PortInv, Shapes, Answers
<1>2. CASE Signal(i)
    BY <1>2, StepOf DEF Signal, PortInv, Shapes, Answers
<1>3. CASE Exit(i)
    <2>1. Shapes'
        <3>1. at' \in [Instances -> Steps] /\ open' \in [Instances -> SUBSET Servers]
            BY <1>3 DEF Exit, Shapes
        <3>2. bound' \in [Ports -> Instances \cup {Nobody}]
            BY <1>3 DEF Exit, Shapes
        <3>3. file' \in [Paths -> Instances \cup {Nobody}]
            BY <1>3 DEF Exit, Shapes
        <3>4. shut' = [j \in Instances |-> shut'[j]]
            BY <1>3 DEF Exit, Shapes
        <3> QED
            BY <3>1, <3>2, <3>3, <3>4 DEF Shapes
    <2>2. Answers("forward")' => Answers("forward")
        BY <1>3 DEF Exit, Shapes, Answers
    <2>3. \A j \in Instances \ {i} : bound[HTTPPort[j]] = j => bound'[HTTPPort[j]] = j
        BY <1>3, LifecycleAssumption DEF Exit
    <2> QED
        BY <1>3, <2>1, <2>3, <2>2, StepOf DEF Exit, Shapes
<1>4. CASE CloseServer(i)
    <2>1. at[i] = "close" /\ at' = at
        BY <1>4 DEF CloseServer
    <2>2. PICK s, more : /\ shut' = [shut EXCEPT ![i] = shut[i] \cup more]
                         /\ CloseListener(i, s) \/ UNCHANGED kernel
        <3> DEFINE s == Head(toClose[i])
        <3>1. CloseListener(i, s) \/ UNCHANGED kernel
            BY <1>4 DEF CloseServer
        <3>2. CASE shut' = [shut EXCEPT ![i] = shut[i] \cup {s}]
            BY <3>1, <3>2
        <3>3. CASE shut' = shut
            <4>1. shut' = [shut EXCEPT ![i] = shut[i] \cup {}]
                BY <3>3 DEF Shapes
            <4> QED
                BY <3>1, <4>1
        <3> QED
            BY <1>4, <3>2, <3>3 DEF CloseServer
    <2>3. CASE CloseListener(i, s)
        <3>1. Shapes' /\ (Answers("forward")' => Answers("forward"))
            BY <2>1, <2>2, <2>3, CloseEffect DEF Shapes
        <3>2. \A j \in Instances \ {i} : bound[HTTPPort[j]] = j => bound'[HTTPPort[j]] = j
            BY <2>2, <2>3, CloseEffect, LifecycleAssumption
        <3> QED
            BY <2>1, <2>2, <3>1, <3>2, StepOf DEF Shapes
    <2>4. CASE UNCHANGED kernel
        BY <2>1, <2>2, <2>4, StepOf DEF Shapes, Answers
    <2> QED
        BY <2>2, <2>3, <2>4
<1>5. CASE Cancel(i)
    BY <1>5, StepOf DEF Cancel, PortInv, Shapes, Answers
<1>6. CASE HealthReturns(i)
    BY <1>6, StepOf DEF HealthReturns, PortInv, Shapes, Answers
<1>7. ASSUME NEW s \in Servers, Serve(i, s) PROVE InterlockInv'
    <2>1. CASE s \in shut[i] /\ CloseListener(i, s)
        <3>1. at[i] \in {"close", "wait"} /\ at' = at /\ shut' = shut
            BY <1>7, <2>1 DEF Serve, PortInv
        <3>2. Shapes' /\ (Answers("forward")' => Answers("forward"))
            BY <2>1, <3>1, CloseEffect DEF Shapes
        <3>3. \A j \in Instances \ {i} : bound[HTTPPort[j]] = j => bound'[HTTPPort[j]] = j
            BY <2>1, CloseEffect, LifecycleAssumption
        <3> QED
            BY <3>1, <3>2, <3>3, StepOf DEF Shapes
    <2>2. CASE UNCHANGED kernel
        BY <1>7, <2>2 DEF Serve, PortInv, ForwardInv, Shapes, Answers
    <2> QED
        BY <1>7, <2>1, <2>2 DEF Serve
<1>8. ASSUME NEW s \in Servers, ServeReturns(i, s) PROVE InterlockInv'
    BY <1>8 DEF ServeReturns, PortInv, ForwardInv, Shapes, Answers
<1> QED
    BY <1>1, <1>2, <1>3, <1>4, <1>5, <1>6, <1>7, <1>8
       DEF Crash, Wait, StopStep, Goroutine

(* Every step keeps the invariant.                                         *)
LEMMA InterlockStep ==
    ASSUME OneHTTPPort
    PROVE  InterlockInv /\ [Next]_vars => InterlockInv'
<1>1. CASE UNCHANGED vars
    BY <1>1 DEF vars, InterlockInv, Shapes, PortInv, ForwardInv, Answers
<1> QED
    BY <1>1, StartInterlock, OtherInterlock DEF Next

(* The bind of the HTTP port is the interlock of the forward socket: among *)
(* any number of daemons with one HTTP port, starting, stopping and        *)
(* crashing at will, none ever unlinks the socket another one listens on.  *)
THEOREM ForwardAlwaysLeftAlone ==
    ASSUME OneHTTPPort
    PROVE  Spec => ForwardLeftAlone
<1>1. InterlockInv =>
        \A i \in Instances : (at[i] = "fremove" /\ at'[i] = "flisten") => ~Answers("forward")
    BY DEF InterlockInv, ForwardInv
<1> QED
    BY <1>1, InitInterlock, InterlockStep, PTL DEF Spec, ForwardLeftAlone

-----------------------------------------------------------------------------
(* Type correctness                                                        *)

(* The kernel's part of the types.                                         *)
Tables ==
    /\ bound \in [Ports -> Instances \cup {Nobody}]
    /\ file \in [Paths -> Instances \cup {Nobody}]
    /\ open \in [Instances -> SUBSET Servers]
    /\ \A p \in Ports : bound[p] # Nobody =>
        \E s \in open[bound[p]] \ Paths : p = PortOf(bound[p], s)

(* An instance has a port for each server that is not on a path.           *)
LEMMA PortType ==
    ASSUME NEW i \in Instances, NEW s PROVE PortOf(i, s) \in Ports
BY LifecycleAssumption DEF PortOf

(* Whoever listens on a port has the listener of that port open, after     *)
(* each operation of the kernel.                                           *)
LEMMA ListenTables ==
    ASSUME Tables, NEW i \in Instances, NEW s \in Servers, Listen(i, s)
    PROVE  Tables' /\ \A j \in Instances \ {i} : open'[j] = open[j]
<1>1. /\ open' \in [Instances -> SUBSET Servers]
      /\ open'[i] = open[i] \cup {s} /\ \A j \in Instances \ {i} : open'[j] = open[j]
    BY DEF Tables, Listen
<1>2. file' \in [Paths -> Instances \cup {Nobody}]
    BY DEF Tables, Listen
<1>3. bound' \in [Ports -> Instances \cup {Nobody}]
    BY PortType DEF Tables, Listen
<1>4. ASSUME NEW p \in Ports, bound'[p] # Nobody
      PROVE  \E t \in open'[bound'[p]] \ Paths : p = PortOf(bound'[p], t)
    <2>1. CASE s \notin Paths /\ p = PortOf(i, s)
        <3>1. bound'[p] = i
            BY <2>1 DEF Tables, Listen
        <3> QED
            BY <1>1, <2>1, <3>1
    <2>2. CASE s \in Paths \/ p # PortOf(i, s)
        <3>1. bound'[p] = bound[p]
            BY <2>2 DEF Tables, Listen
        <3>2. PICK t \in open[bound[p]] \ Paths : p = PortOf(bound[p], t)
            BY <1>4, <3>1 DEF Tables
        <3>3. bound[p] \in Instances
            BY <1>4, <3>1 DEF Tables
        <3>4. t \in open'[bound[p]]
            BY <1>1, <3>2, <3>3
        <3> QED
            BY <3>1, <3>2, <3>4
    <2> QED
        BY <2>1, <2>2
<1> QED
    BY <1>1, <1>2, <1>3, <1>4 DEF Tables

(* Closing a listener leaves the tables of the kernel in order, and the    *)
(* descriptors of the other processes alone.                               *)
LEMMA CloseTables ==
    ASSUME Tables, NEW i \in Instances, NEW s, CloseListener(i, s)
    PROVE  /\ Tables' /\ open'[i] = open[i] \ {s}
           /\ \A j \in Instances \ {i} : open'[j] = open[j]
<1>1. /\ open' \in [Instances -> SUBSET Servers]
      /\ open'[i] = open[i] \ {s} /\ \A j \in Instances \ {i} : open'[j] = open[j]
    BY DEF Tables, CloseListener
<1>2. file' \in [Paths -> Instances \cup {Nobody}]
    BY DEF Tables, CloseListener
<1>3. bound' \in [Ports -> Instances \cup {Nobody}]
    BY PortType DEF Tables, CloseListener
<1>4. ASSUME NEW p \in Ports, bound'[p] # Nobody
      PROVE  \E t \in open'[bound'[p]] \ Paths : p = PortOf(bound'[p], t)
    <2>1. /\ bound'[p] = bound[p] /\ bound[p] \in Instances
          /\ s \in Paths \/ p # PortOf(i, s) \/ bound[p] # i
        BY <1>4, PortType, LifecycleAssumption DEF Tables, CloseListener
    <2>2. PICK t \in open[bound[p]] \ Paths : p = PortOf(bound[p], t)
        BY <1>4, <2>1 DEF Tables
    <2>3. t \in open'[bound[p]]
        BY <1>1, <2>1, <2>2
    <2> QED
        BY <2>1, <2>2, <2>3
<1> QED
    BY <1>1, <1>2, <1>3, <1>4 DEF Tables

(* So does removing a socket file, which closes nothing.                   *)
LEMMA RemoveTables ==
    ASSUME Tables, NEW s \in Paths, Remove(s) PROVE Tables' /\ open' = open
BY DEF Tables, Remove

(* The control state of a process, apart from the kernel's tables.         *)
Control ==
    /\ at \in [Instances -> Steps]
    /\ serve \in [Instances -> [Servers -> {"none", "started", "serving", "returned"}]]
    /\ shut \in [Instances -> SUBSET Servers]
    /\ toClose \in [Instances -> Seq(Servers)]
    /\ health \in [Instances -> {"none", "running", "returned"}]

(* A step of i keeps the types if it keeps those of the tables and of i's  *)
(* own control state, and a process that is off stays as it was.           *)
LEMMA TypeOf ==
    ASSUME LifecycleTypeOK, Tables', Control', NEW i \in Instances,
           at'[i] = "off" => open'[i] = {},
           \A j \in Instances \ {i} : at'[j] = at[j] /\ open'[j] = open[j]
    PROVE  LifecycleTypeOK'
BY DEF LifecycleTypeOK, Tables, Control

(* A failed step of Start.                                                 *)
LEMMA FailEffect ==
    ASSUME Control, NEW i \in Instances, Fail(i)
    PROVE  /\ at' = [at EXCEPT ![i] = "close"]
           /\ at' \in [Instances -> Steps] /\ toClose' \in [Instances -> Seq(Servers)]
<1>1. <<"control", "https", "http">> \in Seq(Servers)
    BY DEF Servers, Paths
<1> QED
    BY <1>1 DEF Control, Fail, Goto, Steps

(* A server that is started.                                               *)
LEMMA SpawnEffect ==
    ASSUME Control, NEW i \in Instances, NEW s \in Servers, Spawn(i, s)
    PROVE  /\ serve' \in [Instances -> [Servers -> {"none", "started", "serving", "returned"}]]
           /\ serve'[i][s] = "started"
           /\ \A t \in Servers \ {s} : serve'[i][t] = serve[i][t]
           /\ \A j \in Instances \ {i} : serve'[j] = serve[j]
BY DEF Control, Spawn

(* Listening on a port keeps the types, whether it fails or not.           *)
LEMMA ListenTCPType ==
    ASSUME LifecycleTypeOK, NEW i \in Instances, NEW s \in {"http", "https"},
           NEW next \in StartSteps, ListenTCP(i, s, next)
    PROVE  LifecycleTypeOK'
<1>1. Tables /\ Control /\ s \in Servers /\ next \in Steps \ {"off"}
    BY DEF LifecycleTypeOK, Tables, Control, Servers, Steps, StartSteps
<1>2. CASE Listen(i, s) /\ Spawn(i, s) /\ Goto(i, next) /\ UNCHANGED toClose
    <2>1. Tables' /\ \A j \in Instances \ {i} : open'[j] = open[j]
        BY <1>1, <1>2, ListenTables
    <2>2. Control'
        BY <1>1, <1>2, SpawnEffect DEF ListenTCP, Control, Goto
    <2> QED
        BY <1>1, <1>2, <2>1, <2>2, TypeOf DEF Goto, Control
<1>3. CASE Fail(i) /\ UNCHANGED <<kernel, serve>>
    <2>1. Tables' /\ open' = open
        BY <1>1, <1>3 DEF Tables, kernel, PortOf
    <2>2. Control'
        BY <1>1, <1>3, FailEffect DEF ListenTCP, Control
    <2> QED
        BY <1>1, <1>3, <2>1, <2>2, FailEffect, TypeOf DEF Control
<1> QED
    BY <1>2, <1>3 DEF ListenTCP

(* The steps of Start keep the types.                                      *)
LEMMA StartType ==
    ASSUME LifecycleTypeOK, NEW i \in Instances, StartStep(i)
    PROVE  LifecycleTypeOK'
<1>1. Tables /\ Control /\ {"control", "forward"} \subseteq Servers \cap Paths
    BY DEF LifecycleTypeOK, Tables, Control, Servers, Paths
<1>2. CASE ListenHTTP(i)
    BY <1>2, ListenTCPType DEF ListenHTTP, StartSteps
<1>3. CASE ListenHTTPS(i)
    BY <1>3, ListenTCPType DEF ListenHTTPS, StartSteps
<1>4. ASSUME at' \in [Instances -> Steps], at'[i] # "off",
             \A j \in Instances \ {i} : at'[j] = at[j], UNCHANGED kernel, Control'
      PROVE  LifecycleTypeOK'
    <2>1. Tables' /\ open' = open
        BY <1>1, <1>4 DEF Tables, kernel, PortOf
    <2> QED
        BY <1>4, <2>1, TypeOf
<1>5. ASSUME NEW s \in Paths, Listen(i, s) \/ CloseListener(i, s) \/ Remove(s),
             at' \in [Instances -> Steps], at'[i] # "off",
             \A j \in Instances \ {i} : at'[j] = at[j], Control'
      PROVE  LifecycleTypeOK'
    <2>1. Tables' /\ \A j \in Instances \ {i} : open'[j] = open[j]
        BY <1>1, <1>5, ListenTables, CloseTables, RemoveTables DEF Servers
    <2> QED
        BY <1>5, <2>1, TypeOf
<1>6. ASSUME NEW step \in Steps \ {"off"}, at' = [at EXCEPT ![i] = step]
      PROVE  /\ at' \in [Instances -> Steps] /\ at'[i] # "off"
             /\ \A j \in Instances \ {i} : at'[j] = at[j]
    BY <1>1, <1>6 DEF Control
<1> USE DEF Goto
<1>7. {"close", "listen", "chmod", "stat", "dial", "fremove", "flisten", "fchmod", "commit", "up"}
        \subseteq Steps \ {"off"}
    BY DEF Steps, StartSteps
<1>8. CASE RemoveControl(i)
    <2>1. Control' /\ \E step \in {"listen", "close"} : at' = [at EXCEPT ![i] = step]
        BY <1>1, <1>7, <1>8, FailEffect DEF RemoveControl, Control
    <2>2. Remove("control") \/ UNCHANGED kernel
        BY <1>8 DEF RemoveControl
    <2> QED
        BY <1>1, <1>4, <1>5, <1>6, <1>7, <2>1, <2>2
<1>9. CASE ListenControl(i)
    <2>1. Control' /\ \E step \in {"chmod", "close"} : at' = [at EXCEPT ![i] = step]
        BY <1>1, <1>7, <1>9, FailEffect DEF ListenControl, Control
    <2>2. Listen(i, "control") \/ UNCHANGED kernel
        BY <1>9 DEF ListenControl
    <2> QED
        BY <1>1, <1>4, <1>5, <1>6, <1>7, <2>1, <2>2
<1>10. CASE ChmodControl(i)
    <2>1. Control' /\ \E step \in {"stat", "close"} : at' = [at EXCEPT ![i] = step]
        <3>1. CASE Spawn(i, "control") /\ at' = [at EXCEPT ![i] = "stat"] /\ UNCHANGED toClose
            BY <1>1, <1>7, <1>10, <3>1, SpawnEffect DEF ChmodControl, Control
        <3>2. CASE Fail(i) /\ UNCHANGED serve
            BY <1>1, <1>10, <3>2, FailEffect DEF ChmodControl, Control
        <3> QED
            BY <1>10, <3>1, <3>2 DEF ChmodControl
    <2>2. CloseListener(i, "control") \/ UNCHANGED kernel
        BY <1>10 DEF ChmodControl
    <2> QED
        BY <1>1, <1>4, <1>5, <1>6, <1>7, <2>1, <2>2
<1>11. CASE StatRuntimeDir(i) \/ DialForward(i) \/ Commit(i)
    <2>1. \E step \in {"dial", "commit", "fremove", "up"} : at' = [at EXCEPT ![i] = step]
        BY <1>11 DEF StatRuntimeDir, DialForward, Commit
    <2>2. Control' /\ UNCHANGED kernel
        BY <1>1, <1>7, <1>11, <2>1 DEF StatRuntimeDir, DialForward, Commit, Control
    <2> QED
        BY <1>4, <1>6, <1>7, <2>1, <2>2
<1>12. CASE RemoveForward(i)
    <2>1. Control' /\ \E step \in {"flisten", "commit"} : at' = [at EXCEPT ![i] = step]
        BY <1>1, <1>7, <1>12 DEF RemoveForward, Control
    <2>2. Remove("forward") \/ UNCHANGED kernel
        BY <1>12 DEF RemoveForward
    <2> QED
        BY <1>1, <1>4, <1>5, <1>6, <1>7, <2>1, <2>2
<1>13. CASE ListenForward(i)
    <2>1. Control' /\ \E step \in {"fchmod", "commit"} : at' = [at EXCEPT ![i] = step]
        BY <1>1, <1>7, <1>13 DEF ListenForward, Control
    <2>2. Listen(i, "forward") \/ UNCHANGED kernel
        BY <1>13 DEF ListenForward
    <2> QED
        BY <1>1, <1>4, <1>5, <1>6, <1>7, <2>1, <2>2
<1>14. CASE ChmodForward(i)
    <2>1. Control' /\ at' = [at EXCEPT ![i] = "commit"]
        BY <1>1, <1>7, <1>14, SpawnEffect DEF ChmodForward, Control
    <2>2. CloseListener(i, "forward") \/ UNCHANGED kernel
        BY <1>14 DEF ChmodForward
    <2> QED
        BY <1>1, <1>4, <1>5, <1>6, <1>7, <2>1, <2>2
<1> QED
    BY <1>2, <1>3, <1>8, <1>9, <1>10, <1>11, <1>12, <1>13, <1>14 DEF StartStep

(* So do the other steps of a process, and its end.                        *)
LEMMA OtherType ==
    ASSUME LifecycleTypeOK, NEW i \in Instances,
           Launch(i) \/ Signal(i) \/ Crash(i) \/ StopStep(i) \/ Goroutine(i)
    PROVE  LifecycleTypeOK'
<1>1. Tables /\ Control
    BY DEF LifecycleTypeOK, Tables, Control
<1>2. ASSUME UNCHANGED kernel, Control', \A j \in Instances : at'[j] = "off" => at[j] = "off"
      PROVE  LifecycleTypeOK'
    <2>1. Tables' /\ open' = open
        BY <1>1, <1>2 DEF Tables, kernel, PortOf
    <2> QED
        BY <1>2, <2>1 DEF LifecycleTypeOK, Tables, Control
<1>3. ASSUME NEW s, CloseListener(i, s), Control', UNCHANGED at PROVE LifecycleTypeOK'
    <2>1. Tables' /\ open'[i] = open[i] \ {s} /\ \A j \in Instances \ {i} : open'[j] = open[j]
        BY <1>1, <1>3, CloseTables
    <2>2. at'[i] = "off" => open'[i] = {}
        BY <1>3, <2>1 DEF LifecycleTypeOK
    <2> QED
        BY <1>3, <2>1, <2>2, TypeOf
<1> USE DEF Goto
<1>4. CASE Launch(i)
    BY <1>1, <1>2, <1>4 DEF Launch, Control, Steps, StartSteps
<1>5. CASE Signal(i)
    <2>1. <<"http", "https", "control", "forward">> \in Seq(Servers)
        BY DEF Servers, Paths
    <2>2. Control'
        BY <1>1, <1>5, <2>1 DEF Signal, Control, Steps
    <2> QED
        BY <1>1, <1>2, <1>5, <2>2 DEF Signal, Control
<1>6. CASE Exit(i)
    <2>1. Control'
        <3>1. NoServe \in [Servers -> {"none", "started", "serving", "returned"}]
            BY DEF NoServe
        <3>2. <<>> \in Seq(Servers)
            OBVIOUS
        <3>3. at' \in [Instances -> Steps] /\ health' \in [Instances -> {"none", "running", "returned"}]
            BY <1>1, <1>6 DEF Exit, Control, Steps
        <3> QED
            BY <1>1, <1>6, <3>1, <3>2, <3>3 DEF Exit, Control
    <2>2. open' \in [Instances -> SUBSET Servers] /\ open'[i] = {}
          /\ \A j \in Instances \ {i} : open'[j] = open[j] /\ at'[j] = at[j]
        BY <1>1, <1>6 DEF Exit, Tables, Control
    <2>3. Tables'
        <3>1. file' \in [Paths -> Instances \cup {Nobody}]
            BY <1>1, <1>6 DEF Exit, Tables
        <3>2. bound' \in [Ports -> Instances \cup {Nobody}]
            BY <1>1, <1>6 DEF Exit, Tables
        <3>3. \A p \in Ports : bound'[p] # Nobody => bound'[p] = bound[p] /\ bound[p] # i
            BY <1>1, <1>6, LifecycleAssumption DEF Exit
        <3> QED
            BY <1>1, <2>2, <3>1, <3>2, <3>3 DEF Tables, PortOf
    <2> QED
        BY <2>1, <2>2, <2>3, TypeOf
<1>7. CASE CloseServer(i)
    <2> DEFINE s == Head(toClose[i])
    <2>1. s \in Servers /\ Tail(toClose[i]) \in Seq(Servers)
        BY <1>1, <1>7 DEF CloseServer, Control
    <2>2. Control' /\ UNCHANGED at
        <3>1. toClose' \in [Instances -> Seq(Servers)]
            BY <1>1, <1>7, <2>1 DEF CloseServer, Control
        <3>2. shut' \in [Instances -> SUBSET Servers]
            BY <1>1, <1>7, <2>1 DEF CloseServer, Control
        <3> QED
            BY <1>1, <1>7, <3>1, <3>2 DEF CloseServer, Control
    <2>3. CloseListener(i, s) \/ UNCHANGED kernel
        BY <1>7 DEF CloseServer
    <2> QED
        BY <1>2, <1>3, <2>2, <2>3
<1>8. CASE Cancel(i)
    BY <1>1, <1>2, <1>8 DEF Cancel, Control, Steps
<1>9. CASE HealthReturns(i)
    BY <1>1, <1>2, <1>9 DEF HealthReturns, Control
<1>10. ASSUME NEW s \in Servers, Serve(i, s) \/ ServeReturns(i, s) PROVE LifecycleTypeOK'
    <2>1. Control' /\ UNCHANGED at
        <3>1. PICK to \in {"serving", "returned"} : serve' = [serve EXCEPT ![i][s] = to]
            BY <1>10 DEF Serve, ServeReturns
        <3>2. UNCHANGED <<at, shut, toClose, health>>
            BY <1>10 DEF Serve, ServeReturns
        <3> QED
            BY <1>1, <3>1, <3>2 DEF Control
    <2>2. CloseListener(i, s) \/ UNCHANGED kernel
        BY <1>10 DEF Serve, ServeReturns
    <2> QED
        BY <1>2, <1>3, <2>1, <2>2
<1> QED
    BY <1>4, <1>5, <1>6, <1>7, <1>8, <1>9, <1>10 DEF Crash, Wait, StopStep, Goroutine

(* Every step keeps the types.                                             *)
LEMMA LifecycleStepType == LifecycleTypeOK /\ [Next]_vars => LifecycleTypeOK'
<1>1. CASE UNCHANGED vars
    BY <1>1 DEF vars, LifecycleTypeOK, PortOf
<1> QED
    BY <1>1, StartType, OtherType DEF Next

(* The types hold before any process is launched.                          *)
LEMMA LifecycleInitType == Init => LifecycleTypeOK
<1> SUFFICES ASSUME Init PROVE LifecycleTypeOK
    OBVIOUS
<1>1. NoServe \in [Servers -> {"none", "started", "serving", "returned"}] /\ <<>> \in Seq(Servers)
    BY DEF NoServe
<1> QED
    BY <1>1 DEF Init, LifecycleTypeOK, Steps

(* LifecycleTypeOK is an invariant: in particular a port is never left     *)
(* bound to a process that has no listener on it.                          *)
THEOREM LifecycleTypeCorrect == Spec => []LifecycleTypeOK
<1> QED
    BY LifecycleInitType, LifecycleStepType, PTL DEF Spec

-----------------------------------------------------------------------------
(* What a daemon has open when it returns                                  *)

(* A listener is open for the sake of a Serve that has not returned, or    *)
(* for the step that will start one.  Close finds it as long as it serves. *)
Kept(i, s) ==
    \/ serve[i][s] = "started"
    \/ serve[i][s] = "serving" /\ s \notin shut[i]
    \/ s = "control" /\ at[i] = "chmod"
    \/ s = "forward" /\ at[i] = "fchmod"

OpenInv == LifecycleTypeOK /\ \A i \in Instances : \A s \in open[i] : Kept(i, s)

(* A step of i concerns the listeners of i.                                *)
LEMMA OpenOf ==
    ASSUME OpenInv, LifecycleTypeOK', NEW i \in Instances,
           \A j \in Instances \ {i} : UNCHANGED <<at[j], serve[j], shut[j], open[j]>>,
           \A s \in open'[i] : Kept(i, s)'
    PROVE  OpenInv'
BY DEF OpenInv, Kept

(* Every step keeps it: a server is open only until its process closes it. *)
LEMMA OpenStep == OpenInv /\ [Next]_vars => OpenInv'
<1> SUFFICES ASSUME OpenInv, [Next]_vars PROVE OpenInv'
    OBVIOUS
<1>1. Control /\ LifecycleTypeOK'
    BY LifecycleStepType DEF OpenInv, LifecycleTypeOK, Control
<1>2. open \in [Instances -> SUBSET Servers]
    BY DEF OpenInv, LifecycleTypeOK
<1> USE DEF Goto
<1>3. ASSUME NEW i \in Instances,
             Launch(i) \/ Signal(i) \/ RemoveControl(i) \/ StatRuntimeDir(i) \/ DialForward(i)
                \/ RemoveForward(i) \/ Commit(i) \/ Cancel(i) \/ HealthReturns(i)
      PROVE  OpenInv'
    <2>1. open' = open /\ serve' = serve /\ shut' = shut
        BY <1>3 DEF Launch, Signal, RemoveControl, StatRuntimeDir, DialForward, RemoveForward,
               Commit, Cancel, HealthReturns, kernel, Remove
    <2>2. at[i] \notin {"chmod", "fchmod"} \/ at' = at
        BY <1>3 DEF Launch, Signal, RemoveControl, StatRuntimeDir, DialForward, RemoveForward,
               Commit, Cancel, HealthReturns
    <2>3. \A j \in Instances \ {i} : at'[j] = at[j]
        BY <1>1, <1>3 DEF Launch, Signal, RemoveControl, StatRuntimeDir, DialForward,
               RemoveForward, Commit, Cancel, HealthReturns, Control, Fail
    <2> QED
        BY <1>1, <2>1, <2>2, <2>3 DEF OpenInv, Kept
<1>4. ASSUME NEW i \in Instances, NEW s \in {"http", "https"}, NEW next, ListenTCP(i, s, next)
      PROVE  OpenInv'
    <2>1. CASE Listen(i, s) /\ Spawn(i, s) /\ Goto(i, next)
        BY <1>1, <1>2, <1>4, <2>1, OpenOf
           DEF ListenTCP, Listen, Spawn, Control, OpenInv, Kept, Servers
    <2>2. CASE Fail(i) /\ UNCHANGED <<kernel, serve>>
        BY <1>1, <1>2, <1>4, <2>2, OpenOf DEF ListenTCP, Fail, kernel, Control, OpenInv, Kept
    <2> QED
        BY <1>4, <2>1, <2>2 DEF ListenTCP
<1>5. ASSUME NEW i \in Instances, ListenControl(i) PROVE OpenInv'
    <2>1. at[i] = "listen" /\ UNCHANGED <<serve, shut>>
        BY <1>5 DEF ListenControl
    <2>2. CASE Listen(i, "control") /\ Goto(i, "chmod")
        BY <1>1, <1>2, <2>1, <2>2, OpenOf DEF Listen, Control, OpenInv, Kept
    <2>3. CASE Fail(i) /\ UNCHANGED kernel
        BY <1>1, <1>2, <2>1, <2>3, OpenOf DEF Fail, kernel, Control, OpenInv, Kept
    <2> QED
        BY <1>5, <2>2, <2>3 DEF ListenControl
<1>6. ASSUME NEW i \in Instances, ChmodControl(i) PROVE OpenInv'
    <2>1. at[i] = "chmod" /\ UNCHANGED shut
        BY <1>6 DEF ChmodControl
    <2>2. CASE Spawn(i, "control") /\ Goto(i, "stat") /\ UNCHANGED kernel
        BY <1>1, <1>2, <2>1, <2>2, OpenOf
           DEF Spawn, kernel, Control, OpenInv, Kept, Servers, Paths
    <2>3. CASE CloseListener(i, "control") /\ Fail(i) /\ UNCHANGED serve
        BY <1>1, <1>2, <2>1, <2>3, OpenOf DEF CloseListener, Fail, Control, OpenInv, Kept
    <2> QED
        BY <1>6, <2>2, <2>3 DEF ChmodControl
<1>7. ASSUME NEW i \in Instances, ListenForward(i) PROVE OpenInv'
    BY <1>1, <1>2, <1>7, OpenOf
       DEF ListenForward, Listen, kernel, Control, OpenInv, Kept
<1>8. ASSUME NEW i \in Instances, ChmodForward(i) PROVE OpenInv'
    BY <1>1, <1>2, <1>8, OpenOf
       DEF ChmodForward, CloseListener, Spawn, kernel, Control, OpenInv, Kept, Servers, Paths
<1>9. ASSUME NEW i \in Instances, CloseServer(i) PROVE OpenInv'
    <2> DEFINE s == Head(toClose[i])
    <2>1. /\ UNCHANGED <<at, serve>> /\ at[i] = "close"
          /\ \A j \in Instances \ {i} : shut'[j] = shut[j] /\ open'[j] = open[j]
          /\ \A t : t # s /\ t \notin shut[i] => t \notin shut'[i]
        BY <1>1, <1>2, <1>9 DEF CloseServer, CloseListener, kernel, Control
    <2>2. \/ serve[i][s] = "serving" /\ open'[i] = open[i] \ {s}
          \/ serve[i][s] # "serving" /\ open' = open
        BY <1>1, <1>2, <1>9 DEF CloseServer, CloseListener, kernel
    <2>3. \A t \in open'[i] : Kept(i, t)'
        BY <2>1, <2>2 DEF OpenInv, Kept
    <2> QED
        BY <1>1, <2>1, <2>3, OpenOf
<1>10. ASSUME NEW i \in Instances, Exit(i) PROVE OpenInv'
    BY <1>1, <1>2, <1>10, OpenOf DEF Exit, Control
<1>11. ASSUME NEW i \in Instances, NEW s \in Servers, Serve(i, s) PROVE OpenInv'
    <2>1. /\ UNCHANGED <<at, shut>>
          /\ \A j \in Instances \ {i} : serve'[j] = serve[j] /\ open'[j] = open[j]
          /\ \A t \in Servers \ {s} : serve'[i][t] = serve[i][t]
        BY <1>1, <1>2, <1>11 DEF Serve, CloseListener, kernel, Control
    <2>2. \/ s \in shut[i] /\ open'[i] = open[i] \ {s}
          \/ s \notin shut[i] /\ open' = open /\ serve'[i][s] = "serving"
        BY <1>1, <1>2, <1>11 DEF Serve, CloseListener, kernel, Control
    <2>3. \A t \in open'[i] : Kept(i, t)'
        BY <1>2, <2>1, <2>2 DEF OpenInv, Kept
    <2> QED
        BY <1>1, <2>1, <2>3, OpenOf
<1>12. ASSUME NEW i \in Instances, NEW s \in Servers, ServeReturns(i, s) PROVE OpenInv'
    BY <1>1, <1>2, <1>12, OpenOf DEF ServeReturns, kernel, Control, OpenInv, Kept
<1>13. CASE UNCHANGED vars
    BY <1>1, <1>13 DEF vars, OpenInv, Kept
<1> QED
    BY <1>3, <1>4, <1>5, <1>6, <1>7, <1>8, <1>9, <1>10, <1>11, <1>12, <1>13
       DEF Next, StartStep, StopStep, Goroutine, ListenHTTP, ListenHTTPS, Crash, Wait

(* Whatever step Start failed at, and whenever the goroutines of the       *)
(* servers came to run, a daemon that returns from Close has no listener   *)
(* open.                                                                   *)
THEOREM NothingEverLeftOpen == Spec => NothingLeftOpen
<1>1. Init => OpenInv
    BY LifecycleInitType DEF Init, OpenInv
<1>2. OpenInv => \A i \in Instances : Wait(i) => open[i] = {}
    BY DEF OpenInv, LifecycleTypeOK, Kept, Wait, AllReturned
<1> QED
    BY <1>1, <1>2, OpenStep, PTL DEF Spec, NothingLeftOpen

-----------------------------------------------------------------------------
(* Who holds the sockets, when every instance has the same HTTP port       *)

(* No server of a socket is started before its step of Start.              *)
ServeInv ==
    \A i \in Instances :
        /\ at[i] \in {"off", "http", "https", "remove", "listen", "chmod"}
                => serve[i]["control"] = "none"
        /\ at[i] \in {"off"} \cup (StartSteps \ {"commit"}) => serve[i]["forward"] = "none"

(* No server is closed twice.                                              *)
CloseInv ==
    \A i \in Instances :
        LET q == toClose[i] IN
        \A k \in 1 .. Len(q) : /\ q[k] \notin shut[i]
                               /\ \A l \in 1 .. Len(q) : q[k] = q[l] => k = l

(* Whoever has yet to close the forward socket owns the file.              *)
Claims(i) ==
    \/ at[i] = "fchmod"
    \/ serve[i]["forward"] = "started"
    \/ serve[i]["forward"] = "serving" /\ "forward" \notin shut[i]

ClaimInv ==
    \A i \in Instances : Claims(i) => file["forward"] = i /\ "forward" \in open[i]

ReachInv == InterlockInv /\ LifecycleTypeOK /\ ServeInv /\ CloseInv /\ ClaimInv

(* No step starts the server of a socket out of turn.                      *)
LEMMA ServeStep == LifecycleTypeOK /\ ServeInv /\ [Next]_vars => ServeInv'
<1> SUFFICES ASSUME LifecycleTypeOK, ServeInv, [Next]_vars PROVE ServeInv'
    OBVIOUS
<1>1. Control /\ {"http", "https", "control", "forward"} = Servers
    BY DEF LifecycleTypeOK, Control, Servers, Paths
<1> USE DEF Goto, Steps, StartSteps
<1>2. ASSUME NEW i \in Instances, serve' = serve, NEW step, at' = [at EXCEPT ![i] = step],
             step \in {"off", "http", "https", "remove", "listen", "chmod"}
                => at[i] \in {"off", "http", "https", "remove", "listen", "chmod"},
             step \in {"off"} \cup (StartSteps \ {"commit"})
                => at[i] \in {"off"} \cup (StartSteps \ {"commit"})
      PROVE  ServeInv'
    BY <1>1, <1>2 DEF ServeInv, Control
<1>3. ASSUME NEW i \in Instances, Fail(i), serve' = serve PROVE ServeInv'
    BY <1>2, <1>3 DEF Fail
<1>4. ASSUME NEW i \in Instances, NEW s \in Servers, Spawn(i, s),
             NEW step, at' = [at EXCEPT ![i] = step],
             \/ s \in {"http", "https"} /\ at[i] \in {"http", "https"}
             \/ s = "control" /\ at[i] = "chmod" /\ step = "stat"
             \/ s = "forward" /\ step = "commit"
      PROVE  ServeInv'
    BY <1>1, <1>4, SpawnEffect DEF ServeInv, Control
<1>5. ASSUME NEW i \in Instances, NEW s \in {"http", "https"}, NEW next, ListenTCP(i, s, next)
      PROVE  ServeInv'
    BY <1>1, <1>3, <1>4, <1>5 DEF ListenTCP
<1>6. ASSUME NEW i \in Instances,
             Launch(i) \/ Signal(i) \/ StatRuntimeDir(i) \/ DialForward(i)
                \/ RemoveForward(i) \/ ListenForward(i) \/ Commit(i) \/ Cancel(i)
      PROVE  ServeInv'
    BY <1>2, <1>6 DEF Launch, Signal, StatRuntimeDir, DialForward, RemoveForward, ListenForward,
           Commit, Cancel
<1>7. ASSUME NEW i \in Instances, RemoveControl(i) \/ ListenControl(i) PROVE ServeInv'
    BY <1>2, <1>3, <1>7 DEF RemoveControl, ListenControl
<1>8. ASSUME NEW i \in Instances, ChmodControl(i) PROVE ServeInv'
    BY <1>1, <1>3, <1>4, <1>8 DEF ChmodControl
<1>9. ASSUME NEW i \in Instances, ChmodForward(i) PROVE ServeInv'
    BY <1>1, <1>2, <1>4, <1>9 DEF ChmodForward
<1>10. ASSUME NEW i \in Instances, CloseServer(i) \/ HealthReturns(i) PROVE ServeInv'
    BY <1>10 DEF CloseServer, HealthReturns, ServeInv
<1>11. ASSUME NEW i \in Instances, Exit(i) PROVE ServeInv'
    <2>1. serve'[i] = NoServe /\ at'[i] = "off"
        BY <1>1, <1>11 DEF Exit, Control
    <2>2. \A j \in Instances \ {i} : serve'[j] = serve[j] /\ at'[j] = at[j]
        BY <1>1, <1>11 DEF Exit, Control
    <2> QED
        BY <1>1, <2>1, <2>2 DEF ServeInv, NoServe
<1>12. ASSUME NEW i \in Instances, NEW s \in Servers, Serve(i, s) \/ ServeReturns(i, s)
       PROVE  ServeInv'
    <2>1. serve[i][s] # "none" /\ at' = at
        BY <1>12 DEF Serve, ServeReturns
    <2>2. PICK to : serve' = [serve EXCEPT ![i][s] = to]
        BY <1>12 DEF Serve, ServeReturns
    <2> QED
        BY <1>1, <2>1, <2>2 DEF ServeInv, Control
<1>13. CASE UNCHANGED vars
    BY <1>13 DEF vars, ServeInv
<1> QED
    BY <1>5, <1>6, <1>7, <1>8, <1>9, <1>10, <1>11, <1>12, <1>13
       DEF Next, StartStep, StopStep, Goroutine, ListenHTTP, ListenHTTPS, Crash, Wait

(* Each server is on the list once, and off it when it has been closed.    *)
LEMMA CloseStep ==
    LifecycleTypeOK /\ PortInv /\ CloseInv /\ [Next]_vars => CloseInv'
<1> SUFFICES ASSUME LifecycleTypeOK, PortInv, CloseInv, [Next]_vars PROVE CloseInv'
    OBVIOUS
<1>1. Control
    BY DEF LifecycleTypeOK, Control
<1>2. ASSUME UNCHANGED <<shut, toClose>> PROVE CloseInv'
    BY <1>2 DEF CloseInv
<1>3. ASSUME NEW i \in Instances, shut' = shut, at[i] \notin {"close", "wait"},
             \/ toClose' = [toClose EXCEPT ![i] = <<"control", "https", "http">>]
             \/ toClose' = [toClose EXCEPT ![i] = <<"http", "https", "control", "forward">>]
      PROVE  CloseInv'
    <2>1. shut'[i] = {} /\ \A j \in Instances \ {i} : toClose'[j] = toClose[j]
        BY <1>1, <1>3 DEF PortInv, Control
    <2>2. \/ toClose'[i] = <<"control", "https", "http">>
          \/ toClose'[i] = <<"http", "https", "control", "forward">>
        BY <1>1, <1>3 DEF Control
    <2>3. \A k, l \in 1 .. Len(toClose'[i]) : toClose'[i][k] = toClose'[i][l] => k = l
        BY <2>2
    <2> QED
        BY <1>3, <2>1, <2>3 DEF CloseInv
<1>4. ASSUME NEW i \in Instances, Fail(i), shut' = shut, at[i] \notin {"close", "wait"}
      PROVE  CloseInv'
    BY <1>3, <1>4 DEF Fail
<1>5. ASSUME NEW i \in Instances, StartStep(i) PROVE CloseInv'
    BY <1>2, <1>4, <1>5 DEF StartStep, ListenHTTP, ListenHTTPS, ListenTCP, RemoveControl,
           ListenControl, ChmodControl, StatRuntimeDir, DialForward, RemoveForward,
           ListenForward, ChmodForward, Commit
<1>6. ASSUME NEW i \in Instances, Signal(i) PROVE CloseInv'
    BY <1>3, <1>6 DEF Signal
<1>7. ASSUME NEW i \in Instances, CloseServer(i) PROVE CloseInv'
    <2> DEFINE q == toClose[i]
               s == Head(q)
    <2>1. q \in Seq(Servers) /\ q # <<>>
        BY <1>1, <1>7 DEF CloseServer, Control
    <2>2. /\ Len(Tail(q)) = Len(q) - 1 /\ Len(q) \in Nat \ {0} /\ s = q[1]
          /\ \A k \in 1 .. Len(q) - 1 : Tail(q)[k] = q[k + 1]
        BY <2>1
    <2>3. toClose'[i] = Tail(q) /\ \A j \in Instances \ {i} : toClose'[j] = toClose[j]
        BY <1>1, <1>7 DEF CloseServer, Control
    <2>4. shut'[i] \subseteq shut[i] \cup {s} /\ \A j \in Instances \ {i} : shut'[j] = shut[j]
        BY <1>1, <1>7 DEF CloseServer, Control
    <2>5. ASSUME NEW k \in 1 .. Len(q) - 1
          PROVE  /\ q[k + 1] \notin shut'[i]
                 /\ \A l \in 1 .. Len(q) - 1 : q[k + 1] = q[l + 1] => k = l
        <3>1. k + 1 \in 1 .. Len(q) /\ 1 \in 1 .. Len(q) /\ k + 1 # 1
            BY <2>2
        <3>2. q[k + 1] \notin shut[i] /\ q[k + 1] # s
            BY <2>2, <3>1 DEF CloseInv
        <3>3. ASSUME NEW l \in 1 .. Len(q) - 1, q[k + 1] = q[l + 1] PROVE k = l
            <4>1. l + 1 \in 1 .. Len(q)
                BY <2>2
            <4>2. k + 1 = l + 1
                BY <3>1, <3>3, <4>1 DEF CloseInv
            <4> QED
                BY <2>2, <4>2
        <3> QED
            BY <2>4, <3>2, <3>3
    <2>6. /\ Len(toClose'[i]) = Len(q) - 1
          /\ \A k \in 1 .. Len(q) - 1 : toClose'[i][k] = q[k + 1]
        BY <2>2, <2>3
    <2>7. \A k \in 1 .. Len(toClose'[i]) :
            /\ toClose'[i][k] \notin shut'[i]
            /\ \A l \in 1 .. Len(toClose'[i]) : toClose'[i][k] = toClose'[i][l] => k = l
        BY <2>5, <2>6
    <2> QED
        BY <2>3, <2>4, <2>7 DEF CloseInv
<1>8. ASSUME NEW i \in Instances, Exit(i) PROVE CloseInv'
    <2>1. toClose'[i] = <<>>
        BY <1>1, <1>8 DEF Exit, Control
    <2>2. \A j \in Instances \ {i} : toClose'[j] = toClose[j] /\ shut'[j] = shut[j]
        BY <1>1, <1>8 DEF Exit, Control
    <2> QED
        BY <2>1, <2>2 DEF CloseInv
<1>9. CASE UNCHANGED vars
    BY <1>2, <1>9 DEF vars
<1> QED
    BY <1>2, <1>5, <1>6, <1>7, <1>8, <1>9
       DEF Next, StopStep, Goroutine, Crash, Wait, Launch, Cancel, HealthReturns, Serve,
           ServeReturns

(* A step of i keeps the owner of the forward socket if it leaves the file *)
(* alone, or if nobody else owned it, and sees to its own claim.           *)
LEMMA ClaimOf ==
    ASSUME ReachInv, NEW i \in Instances,
           \A j \in Instances \ {i} : UNCHANGED <<at[j], serve[j], shut[j], open[j]>>,
           Claims(i)' => file'["forward"] = i /\ "forward" \in open'[i],
           \/ file'["forward"] = file["forward"]
           \/ \A j \in Instances \ {i} : ~Claims(j)
    PROVE  ClaimInv'
BY DEF ReachInv, ClaimInv, Claims

(* A step that makes no claim and does nothing to the forward socket.      *)
LEMMA Aside ==
    ASSUME ReachInv, NEW i \in Instances,
           \A j \in Instances \ {i} : UNCHANGED <<at[j], serve[j], shut[j], open[j]>>,
           Claims(i)' => Claims(i),
           file'["forward"] = file["forward"],
           "forward" \in open[i] => "forward" \in open'[i]
    PROVE  ClaimInv'
<1>1. Claims(i)' => file'["forward"] = i /\ "forward" \in open'[i]
    BY DEF ReachInv, ClaimInv
<1> QED
    BY <1>1, ClaimOf

(* Every step keeps the owner of the forward socket.                       *)
LEMMA ClaimStep == ReachInv /\ [Next]_vars => ClaimInv'
<1> SUFFICES ASSUME ReachInv, [Next]_vars PROVE ClaimInv'
    OBVIOUS
<1>1. /\ Control /\ open \in [Instances -> SUBSET Servers] /\ file \in [Paths -> Instances \cup {Nobody}]
      /\ "forward" \in Servers /\ "forward" \in Paths
    BY DEF ReachInv, LifecycleTypeOK, Control, Servers, Paths
<1> USE DEF Goto
<1>2. ASSUME NEW i \in Instances, NEW step, at' = [at EXCEPT ![i] = step], step # "fchmod",
             UNCHANGED <<serve, shut, open>>, file'["forward"] = file["forward"]
      PROVE  ClaimInv'
    BY <1>1, <1>2, Aside DEF Claims, Control
<1>3. ASSUME NEW i \in Instances, Fail(i), UNCHANGED <<kernel, serve, shut>> PROVE ClaimInv'
    BY <1>2, <1>3 DEF Fail, kernel
<1>4. ASSUME NEW i \in Instances, NEW s \in {"http", "https"}, NEW next, next # "fchmod",
             ListenTCP(i, s, next)
      PROVE  ClaimInv'
    <2>1. CASE Listen(i, s) /\ Spawn(i, s) /\ Goto(i, next)
        <3>1. /\ file' = file /\ shut' = shut
              /\ \A j \in Instances \ {i} : UNCHANGED <<at[j], serve[j], open[j]>>
              /\ serve'[i]["forward"] = serve[i]["forward"] /\ open[i] \subseteq open'[i]
            BY <1>1, <1>4, <2>1 DEF ListenTCP, Listen, Spawn, Control, Paths
        <3>2. Claims(i)' => Claims(i)
            BY <1>1, <1>4, <2>1, <3>1 DEF Claims, Control
        <3> QED
            BY <3>1, <3>2, Aside
    <2>2. CASE Fail(i) /\ UNCHANGED <<kernel, serve>>
        BY <1>3, <1>4, <2>2 DEF ListenTCP
    <2> QED
        BY <1>4, <2>1, <2>2 DEF ListenTCP
<1>5. ASSUME NEW i \in Instances,
             Launch(i) \/ Signal(i) \/ StatRuntimeDir(i) \/ DialForward(i) \/ Commit(i) \/ Cancel(i)
      PROVE  ClaimInv'
    BY <1>2, <1>5 DEF Launch, Signal, StatRuntimeDir, DialForward, Commit, Cancel, kernel
<1>6. ASSUME NEW i \in Instances, RemoveControl(i) PROVE ClaimInv'
    <2>1. CASE Remove("control") /\ Goto(i, "listen")
        <3>1. file'["forward"] = file["forward"]
            BY <1>1, <2>1 DEF Remove
        <3>2. at' = [at EXCEPT ![i] = "listen"] /\ UNCHANGED <<open, serve, shut>>
            BY <1>6, <2>1 DEF RemoveControl, Remove
        <3>3. "listen" # "fchmod"
            OBVIOUS
        <3> QED
            BY <1>2, <3>1, <3>2, <3>3
    <2>2. CASE Fail(i) /\ UNCHANGED kernel
        BY <1>3, <1>6, <2>2 DEF RemoveControl
    <2> QED
        BY <1>6, <2>1, <2>2 DEF RemoveControl
<1>7. ASSUME NEW i \in Instances, ListenControl(i) PROVE ClaimInv'
    <2>1. CASE Listen(i, "control") /\ Goto(i, "chmod")
        <3>1. /\ file'["forward"] = file["forward"] /\ UNCHANGED <<serve, shut>>
              /\ \A j \in Instances \ {i} : UNCHANGED <<at[j], open[j]>>
              /\ open[i] \subseteq open'[i] /\ at'[i] # "fchmod"
            BY <1>1, <1>7, <2>1 DEF ListenControl, Listen, Control
        <3> QED
            BY <3>1, Aside DEF Claims
    <2>2. CASE Fail(i) /\ UNCHANGED kernel
        BY <1>3, <1>7, <2>2 DEF ListenControl
    <2> QED
        BY <1>7, <2>1, <2>2 DEF ListenControl
<1>8. ASSUME NEW i \in Instances, ChmodControl(i) PROVE ClaimInv'
    <2>1. /\ file'["forward"] = file["forward"] /\ UNCHANGED shut
          /\ "forward" \in open[i] => "forward" \in open'[i]
          /\ \A j \in Instances \ {i} : UNCHANGED <<at[j], open[j], serve[j]>>
          /\ serve'[i]["forward"] = serve[i]["forward"] /\ at'[i] # "fchmod"
        <3>1. CASE Spawn(i, "control") /\ Goto(i, "stat") /\ UNCHANGED kernel
            BY <1>1, <1>8, <3>1 DEF ChmodControl, Spawn, kernel, Control
        <3>2. CASE CloseListener(i, "control") /\ Fail(i) /\ UNCHANGED serve
            BY <1>1, <1>8, <3>2 DEF ChmodControl, CloseListener, Fail, Control
        <3> QED
            BY <1>8, <3>1, <3>2 DEF ChmodControl
    <2> QED
        BY <2>1, Aside DEF Claims
<1>9. ASSUME NEW i \in Instances, RemoveForward(i) PROVE ClaimInv'
    <2>1. CASE Remove("forward") /\ Goto(i, "flisten")
        <3>1. ~Answers("forward")
            BY <1>9 DEF RemoveForward, ReachInv, InterlockInv, ForwardInv
        <3>2. \A j \in Instances : ~Claims(j)
            BY <3>1, LifecycleAssumption DEF ReachInv, ClaimInv, Answers
        <3>3. ~Claims(i)'
            BY <1>1, <1>9, <2>1, <3>2 DEF RemoveForward, Remove, Claims, Control
        <3> QED
            BY <1>1, <1>9, <2>1, <3>2, <3>3, ClaimOf DEF RemoveForward, Remove, Control
    <2>2. CASE Goto(i, "commit") /\ UNCHANGED kernel
        BY <1>2, <1>9, <2>2 DEF RemoveForward, kernel
    <2> QED
        BY <1>9, <2>1, <2>2 DEF RemoveForward
<1>10. ASSUME NEW i \in Instances, ListenForward(i) PROVE ClaimInv'
    <2>1. CASE Listen(i, "forward") /\ Goto(i, "fchmod")
        <3>1. file["forward"] = Nobody /\ file'["forward"] = i /\ "forward" \in open'[i]
            BY <1>1, <2>1 DEF Listen, Free
        <3>2. \A j \in Instances : ~Claims(j)
            BY <3>1, LifecycleAssumption DEF ReachInv, ClaimInv
        <3> QED
            BY <1>1, <1>10, <2>1, <3>1, <3>2, ClaimOf DEF ListenForward, Listen, Control
    <2>2. CASE Goto(i, "commit") /\ UNCHANGED kernel
        BY <1>2, <1>10, <2>2 DEF ListenForward, kernel
    <2> QED
        BY <1>10, <2>1, <2>2 DEF ListenForward
<1>11. ASSUME NEW i \in Instances, Claims(i), file'["forward"] \in {Nobody, file["forward"]},
              ~Claims(i)',
              \A j \in Instances \ {i} : UNCHANGED <<at[j], serve[j], shut[j], open[j]>>
       PROVE  ClaimInv'
    BY <1>11, ClaimOf DEF ReachInv, ClaimInv
<1>12. ASSUME NEW i \in Instances, ChmodForward(i) PROVE ClaimInv'
    <2>1. at[i] = "fchmod" /\ serve[i]["forward"] = "none" /\ Claims(i)
        BY <1>12 DEF ChmodForward, ReachInv, ServeInv, StartSteps, Claims
    <2>2. CASE Spawn(i, "forward") /\ UNCHANGED kernel
        BY <1>1, <1>12, <2>1, <2>2, Aside DEF ChmodForward, Spawn, kernel, Control
    <2>3. CASE CloseListener(i, "forward") /\ UNCHANGED serve
        <3>1. ~Claims(i)'
            BY <1>1, <1>12, <2>1, <2>3 DEF ChmodForward, Claims, Control
        <3> QED
            BY <1>1, <1>11, <1>12, <2>1, <2>3, <3>1 DEF ChmodForward, CloseListener, Control
    <2> QED
        BY <1>12, <2>2, <2>3 DEF ChmodForward
<1>13. ASSUME NEW i \in Instances, CloseServer(i) PROVE ClaimInv'
    <2> DEFINE s == Head(toClose[i])
    <2>1. s \notin shut[i] /\ s \in Servers
        <3>1. toClose[i] \in Seq(Servers) /\ toClose[i] # <<>>
            BY <1>1, <1>13 DEF CloseServer, Control
        <3>2. 1 \in 1 .. Len(toClose[i]) /\ s = toClose[i][1] /\ s \in Servers
            BY <3>1
        <3> QED
            BY <3>2 DEF ReachInv, CloseInv
    <2>2. /\ at' = at /\ serve' = serve /\ at[i] = "close"
          /\ \A j \in Instances \ {i} : UNCHANGED <<shut[j], open[j]>>
          /\ shut[i] \subseteq shut'[i]
        BY <1>1, <1>13 DEF CloseServer, CloseListener, kernel, Control
    <2>3. CASE s = "forward" /\ serve[i][s] = "serving"
        <3>1. Claims(i)
            BY <2>1, <2>3 DEF Claims
        <3>2. "forward" \in shut'[i] /\ file'["forward"] \in {Nobody, file["forward"]}
            BY <1>1, <1>13, <2>3 DEF CloseServer, CloseListener, Started, Control
        <3>3. ~Claims(i)'
            BY <2>2, <2>3, <3>2 DEF Claims
        <3> QED
            BY <1>11, <2>2, <3>1, <3>2, <3>3
    <2>4. CASE ~(s = "forward" /\ serve[i][s] = "serving")
        <3>1. file'["forward"] = file["forward"] /\ ("forward" \in open[i] => "forward" \in open'[i])
            BY <1>1, <1>13, <2>4 DEF CloseServer, CloseListener, kernel
        <3> QED
            BY <2>2, <3>1, Aside DEF Claims
    <2> QED
        BY <2>3, <2>4
<1>14. ASSUME NEW i \in Instances, Exit(i) PROVE ClaimInv'
    <2>1. at'[i] = "off" /\ serve'[i]["forward"] = "none"
        BY <1>1, <1>14 DEF Exit, Control, NoServe
    <2>2. ~Claims(i)' /\ file' = file
        BY <1>14, <2>1 DEF Claims, Exit
    <2> QED
        BY <1>1, <1>14, <2>2, ClaimOf DEF Exit, Control
<1>15. ASSUME NEW i \in Instances, NEW s \in Servers, Serve(i, s) PROVE ClaimInv'
    <2>1. /\ at' = at /\ shut' = shut
          /\ \A j \in Instances \ {i} : UNCHANGED <<serve[j], open[j]>>
          /\ \A t \in Servers \ {s} : serve'[i][t] = serve[i][t]
        BY <1>1, <1>15 DEF Serve, CloseListener, kernel, Control
    <2>2. CASE s # "forward" \/ s \notin shut[i]
        <3>1. file'["forward"] = file["forward"] /\ ("forward" \in open[i] => "forward" \in open'[i])
            BY <1>1, <1>15, <2>2 DEF Serve, CloseListener, kernel
        <3>2. Claims(i)' => Claims(i)
            BY <1>1, <1>15, <2>1, <2>2 DEF Serve, Claims
        <3> QED
            BY <2>1, <3>1, <3>2, Aside
    <2>3. CASE s = "forward" /\ s \in shut[i]
        <3>1. Claims(i) /\ at[i] # "fchmod"
            BY <1>15, <2>3 DEF Serve, Claims, ReachInv, InterlockInv, PortInv
        <3>2. serve'[i]["forward"] = "returned" /\ file'["forward"] \in {Nobody, file["forward"]}
            BY <1>1, <1>15, <2>3 DEF Serve, CloseListener, Control
        <3>3. ~Claims(i)'
            BY <2>1, <3>1, <3>2 DEF Claims
        <3> QED
            BY <1>11, <2>1, <3>1, <3>2, <3>3
    <2> QED
        BY <2>2, <2>3
<1>16. ASSUME NEW i \in Instances, NEW s \in Servers, ServeReturns(i, s) \/ HealthReturns(i)
       PROVE  ClaimInv'
    <2>1. /\ at' = at /\ shut' = shut /\ file' = file /\ open' = open
          /\ \A j \in Instances \ {i} : serve'[j] = serve[j]
          /\ serve'[i]["forward"] \in {"returned", serve[i]["forward"]}
        BY <1>1, <1>16 DEF ServeReturns, HealthReturns, kernel, Control
    <2> QED
        BY <2>1, Aside DEF Claims
<1>17. CASE UNCHANGED vars
    BY <1>17 DEF vars, ReachInv, ClaimInv, Claims
<1> QED
    BY <1>1, <1>4, <1>5, <1>6, <1>7, <1>8, <1>9, <1>10, <1>12, <1>13, <1>14, <1>15, <1>16, <1>17
       DEF Next, StartStep, StopStep, Goroutine, ListenHTTP, ListenHTTPS, Crash, Wait

(* The invariant holds before any process is launched, and is kept.        *)
LEMMA ReachInit == Init => ReachInv
<1> SUFFICES ASSUME Init PROVE ReachInv
    OBVIOUS
<1>1. ServeInv /\ ClaimInv
    BY DEF Init, NoServe, Servers, Paths, ServeInv, ClaimInv, Claims
<1>2. CloseInv
    BY DEF Init, CloseInv
<1> QED
    BY <1>1, <1>2, InitInterlock, LifecycleInitType DEF ReachInv

(* Every step keeps it, when the daemons want the same HTTP port.          *)
LEMMA ReachStep ==
    ASSUME OneHTTPPort
    PROVE  ReachInv /\ [Next]_vars => ReachInv'
BY InterlockStep, LifecycleStepType, ServeStep, CloseStep, ClaimStep DEF ReachInv, InterlockInv

(* A daemon that serves the forward socket and has not closed it is the    *)
(* one that a dial of the path reaches, among any number of daemons that   *)
(* start on the same HTTP port, close and crash.                           *)
THEOREM ForwardAlwaysReachable ==
    ASSUME OneHTTPPort
    PROVE  Spec => []ForwardReachable
<1>1. ReachInv => ForwardReachable
    BY LifecycleAssumption DEF ReachInv, ClaimInv, Claims, ForwardReachable, Answers
<1> QED
    BY <1>1, ReachInit, ReachStep, PTL DEF Spec

(* A daemon that is to serve control.sock loses the file only to one that  *)
(* closes its own control server: the HTTP port keeps a starting daemon    *)
(* from the removal.                                                       *)
THEOREM ControlAlwaysKept ==
    ASSUME OneHTTPPort
    PROVE  Spec => ControlKept
<1> DEFINE Stays(i) ==
        (serve[i]["control"] # "none" /\ at[i] # "close" /\ at[i] # "wait"
            /\ file["control"] = i /\ file'["control"] # i)
        => \E j \in Instances \ {i} : "control" \in shut'[j]
<1>1. ReachInv /\ [Next]_vars => \A i \in Instances : Stays(i)
    <2> SUFFICES ASSUME ReachInv, [Next]_vars, NEW i \in Instances,
                        serve[i]["control"] # "none", at[i] # "close", at[i] # "wait",
                        file["control"] = i, file'["control"] # i
                 PROVE  \E j \in Instances \ {i} : "control" \in shut'[j]
        OBVIOUS
    <2>1. Control /\ file \in [Paths -> Instances \cup {Nobody}] /\ "control" \in Paths
        BY DEF ReachInv, LifecycleTypeOK, Control, Paths
    <2>2. at[i] \in Interlocked /\ shut[i] = {}
        BY <2>1 DEF Control, Steps, StartSteps, Interlocked, ReachInv, ServeInv,
               InterlockInv, PortInv
    <2>3. ASSUME NEW j \in Instances,
                 RemoveControl(j) \/ ListenControl(j) \/ ChmodControl(j)
          PROVE  FALSE
        <3>1. at[j] \in Interlocked /\ serve[j]["control"] = "none"
            BY <2>3 DEF RemoveControl, ListenControl, ChmodControl, Interlocked, StartSteps,
                   ReachInv, ServeInv
        <3>2. i = j
            BY <2>2, <3>1, Exclusive DEF ReachInv, InterlockInv
        <3> QED
            BY <3>1, <3>2
    <2>4. ASSUME NEW j \in Instances, CloseServer(j)
          PROVE  "control" \in shut'[j] /\ j # i
        <3>1. Head(toClose[j]) = "control" /\ serve[j]["control"] = "serving"
            BY <2>1, <2>4 DEF CloseServer, CloseListener, kernel
        <3> QED
            BY <2>1, <2>4, <3>1 DEF CloseServer, Started, Control
    <2>5. ASSUME NEW j \in Instances, NEW s \in Servers, Serve(j, s)
          PROVE  "control" \in shut'[j] /\ j # i
        <3>1. s = "control" /\ s \in shut[j]
            BY <2>1, <2>5 DEF Serve, CloseListener, kernel
        <3> QED
            BY <2>2, <2>5, <3>1 DEF Serve
    <2>6. ASSUME NEW j \in Instances,
                 RemoveForward(j) \/ ListenForward(j) \/ ChmodForward(j)
          PROVE  FALSE
        BY <2>1, <2>6 DEF RemoveForward, ListenForward, ChmodForward, Remove, Listen,
               CloseListener, kernel
    <2>7. ASSUME NEW j \in Instances, ListenHTTP(j) \/ ListenHTTPS(j) PROVE FALSE
        BY <2>7 DEF ListenHTTP, ListenHTTPS, ListenTCP, Listen, kernel, Paths
    <2>8. ASSUME NEW j \in Instances,
                 \/ Launch(j) \/ Signal(j) \/ Exit(j) \/ StatRuntimeDir(j) \/ DialForward(j)
                 \/ Commit(j) \/ Cancel(j) \/ HealthReturns(j)
                 \/ \E s \in Servers : ServeReturns(j, s)
          PROVE  FALSE
        BY <2>8 DEF Launch, Signal, Exit, StatRuntimeDir, DialForward, Commit, Cancel,
               HealthReturns, ServeReturns, kernel
    <2> QED
        BY <2>3, <2>4, <2>5, <2>6, <2>7, <2>8
           DEF Next, StartStep, StopStep, Goroutine, Crash, Wait, vars
<1> QED
    BY <1>1, ReachInit, ReachStep, PTL DEF Spec, ControlKept

=============================================================================
