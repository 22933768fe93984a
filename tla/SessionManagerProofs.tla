------------------------ MODULE SessionManagerProofs ------------------------
(***************************************************************************)
(* Proofs about SessionManager, for any set of sessions, any port range    *)
(* and any limit.                                                          *)
(***************************************************************************)
EXTENDS SessionManager, FiniteSetTheorems, FunctionTheorems, TLAPS

-----------------------------------------------------------------------------
(* Type correctness *)

LEMMA TypeInit == Init => TypeOK
  BY DEF Init, TypeOK, CreateSteps, States, ProcSteps, GkSteps, ConnSteps, TermSteps

LEMMA TypeCreate ==
  ASSUME TypeOK, NEW s \in Sessions, Create(s)
  PROVE  TypeOK'
<1> USE DEF TypeOK, CreateSteps, States, ProcSteps, GkSteps, ConnSteps, TermSteps,
            managerVars, procVars, GoTo
<1>1. CASE Admit(s)             BY <1>1 DEF Admit
<1>2. CASE Reject(s)            BY <1>2 DEF Reject
<1>3. CASE Allocate(s)          BY <1>3 DEF Allocate, FreePorts
<1>4. CASE NoPortsAvailable(s)  BY <1>4 DEF NoPortsAvailable
<1>5. CASE StartProxy(s)        BY <1>5 DEF StartProxy
<1>6. CASE PrepareFails(s)      BY <1>6 DEF PrepareFails, Release
<1>7. CASE WaitReady(s)         BY <1>7 DEF WaitReady
<1>8. CASE WaitReadyFails(s)    BY <1>8 DEF WaitReadyFails, Release, StopProxy, RemoveConfig
<1>9. CASE Register(s)          BY <1>9 DEF Register, RemoveConfig
<1>10. QED
  BY Create(s), <1>1, <1>2, <1>3, <1>4, <1>5, <1>6, <1>7, <1>8, <1>9 DEF Create

LEMMA TypeServe ==
  ASSUME TypeOK, NEW s \in Sessions, Serve(s)
  PROVE  TypeOK'
<1> USE DEF TypeOK, CreateSteps, States, ProcSteps, GkSteps, ConnSteps, TermSteps,
            managerVars, createVars, procVars
<1>1. CASE Listen(s)        BY <1>1 DEF Listen
<1>2. CASE Publish(s)       BY <1>2 DEF Publish
<1>3. CASE Connect(s)       BY <1>3 DEF Connect, OnConnected
<1>4. CASE ConnectFails(s)  BY <1>4 DEF ConnectFails
<1>5. CASE ClientLeaves(s)  BY <1>5 DEF ClientLeaves
<1>6. CASE ProxyHangsUp(s)  BY <1>6 DEF ProxyHangsUp
<1>7. CASE Accept(s)        BY <1>7 DEF Accept
<1>8. CASE Track(s)         BY <1>8 DEF Track
<1>9. QED
  BY Serve(s), <1>1, <1>2, <1>3, <1>4, <1>5, <1>6, <1>7, <1>8 DEF Serve

LEMMA TypeTerminate ==
  ASSUME TypeOK, NEW s \in Sessions, Terminate(s)
  PROVE  TypeOK'
<1> USE DEF TypeOK, CreateSteps, States, ProcSteps, GkSteps, ConnSteps, TermSteps,
            managerVars, createVars, procVars
<1>1. CASE ApiTerminate(s)    BY <1>1 DEF ApiTerminate, MarkTerminating
<1>2. CASE StopGatekeeper(s)  BY <1>2 DEF StopGatekeeper
<1>3. CASE KillProxy(s)       BY <1>3 DEF KillProxy, StopProxy
<1>4. CASE ReleasePort(s)     BY <1>4 DEF ReleasePort, Release, RemoveConfig
<1>5. CASE Unregister(s)      BY <1>5 DEF Unregister
<1>6. QED  BY Terminate(s), <1>1, <1>2, <1>3, <1>4, <1>5 DEF Terminate

LEMMA TypeMonitor ==
  ASSUME TypeOK, NEW s \in Sessions, Monitor(s)
  PROVE  TypeOK'
<1> USE DEF TypeOK, CreateSteps, States, ProcSteps, GkSteps, ConnSteps, TermSteps,
            managerVars, createVars, procVars
<1>1. CASE Reap(s)               BY <1>1 DEF Reap
<1>2. CASE MonitorStopped(s)     BY <1>2 DEF MonitorStopped
<1>3. CASE MonitorTerminates(s)  BY <1>3 DEF MonitorTerminates, MarkTerminating
<1>4. QED
  BY Monitor(s), <1>1, <1>2, <1>3 DEF Monitor, ProcessDone, MaxDurationReached

LEMMA TypeProcess ==
  ASSUME TypeOK, NEW s \in Sessions, Process(s)
  PROVE  TypeOK'
  BY DEF Process, ProxyListens, ProxyGivesUp, ProxyDies, ProxyCrashes, TypeOK, CreateSteps,
         States, ProcSteps, GkSteps, ConnSteps, TermSteps, managerVars, createVars, procVars

LEMMA TypeShutdown ==
  ASSUME TypeOK, Shutdown \/ ShutdownReturns \/ \E s \in Sessions : DrainTerminates(s)
  PROVE  TypeOK'
<1> USE DEF TypeOK, CreateSteps, States, ProcSteps, GkSteps, ConnSteps, TermSteps,
            managerVars, createVars, procVars
<1>1. CASE Shutdown         BY <1>1 DEF Shutdown
<1>2. CASE ShutdownReturns  BY <1>2 DEF ShutdownReturns
<1>3. ASSUME NEW s \in Sessions, DrainTerminates(s) PROVE TypeOK'
  BY <1>3 DEF DrainTerminates, MarkTerminating
<1>4. QED  BY <1>1, <1>2, <1>3

LEMMA TypeUnchanged ==
  ASSUME TypeOK, UNCHANGED vars
  PROVE  TypeOK'
  BY DEF TypeOK, vars, managerVars, createVars, procVars

-----------------------------------------------------------------------------
(* The inductive invariant: first how the goroutines of a session agree *)

LEMMA AgreesInit == Init => \A s \in Sessions : Agrees(s)
  BY DEF Init, Agrees, StateAgrees, TermAgrees, GatekeeperAgrees, ProcessAgrees, Running,
         GatekeeperClosed

LEMMA AgreesCreate ==
  ASSUME TypeOK, NEW s \in Sessions, Create(s), NEW t \in Sessions, Agrees(t)
  PROVE  Agrees(t)'
<1> USE DEF TypeOK, Agrees, StateAgrees, TermAgrees, GatekeeperAgrees, ProcessAgrees,
            Running, GatekeeperClosed, managerVars, procVars, GoTo
<1>1. CASE Admit(s)             BY <1>1 DEF Admit
<1>2. CASE Reject(s)            BY <1>2 DEF Reject
<1>3. CASE Allocate(s)          BY <1>3 DEF Allocate
<1>4. CASE NoPortsAvailable(s)  BY <1>4 DEF NoPortsAvailable
<1>5. CASE StartProxy(s)        BY <1>5 DEF StartProxy
<1>6. CASE PrepareFails(s)      BY <1>6 DEF PrepareFails
<1>7. CASE WaitReady(s)         BY <1>7 DEF WaitReady
<1>8. CASE WaitReadyFails(s)    BY <1>8 DEF WaitReadyFails, StopProxy, RemoveConfig
<1>9. CASE Register(s)          BY <1>9 DEF Register, RemoveConfig
<1>10. QED
  BY Create(s), <1>1, <1>2, <1>3, <1>4, <1>5, <1>6, <1>7, <1>8, <1>9 DEF Create

LEMMA AgreesServe ==
  ASSUME TypeOK, NEW s \in Sessions, Serve(s), NEW t \in Sessions, Agrees(t)
  PROVE  Agrees(t)'
<1> USE DEF TypeOK, Agrees, StateAgrees, TermAgrees, GatekeeperAgrees, ProcessAgrees,
            Running, GatekeeperClosed, managerVars, createVars, procVars
<1>1. CASE Listen(s)        BY <1>1 DEF Listen
<1>2. CASE Publish(s)       BY <1>2 DEF Publish
<1>3. CASE Connect(s)       BY <1>3 DEF Connect, OnConnected
<1>4. CASE ConnectFails(s)  BY <1>4 DEF ConnectFails
<1>5. CASE ClientLeaves(s)  BY <1>5 DEF ClientLeaves
<1>6. CASE ProxyHangsUp(s)  BY <1>6 DEF ProxyHangsUp
<1>7. CASE Accept(s)        BY <1>7 DEF Accept
<1>8. CASE Track(s)         BY <1>8 DEF Track
<1>9. QED
  BY Serve(s), <1>1, <1>2, <1>3, <1>4, <1>5, <1>6, <1>7, <1>8 DEF Serve

(* The step every caller of TerminateSession begins with. *)
LEMMA AgreesMark ==
  ASSUME TypeOK, NEW s \in Sessions, Terminable(s), MarkTerminating(s),
         UNCHANGED <<managerVars, createVars, procVars, gk, conn>>,
         NEW t \in Sessions, Agrees(t)
  PROVE  Agrees(t)'
  BY DEF TypeOK, States, CreateSteps, TermSteps, Terminable, MarkTerminating, Agrees, StateAgrees,
         TermAgrees, GatekeeperAgrees, ProcessAgrees, Running, GatekeeperClosed, managerVars,
         createVars, procVars

LEMMA AgreesTerminate ==
  ASSUME TypeOK, NEW s \in Sessions, Terminate(s), NEW t \in Sessions, Agrees(t)
  PROVE  Agrees(t)'
<1> USE DEF TypeOK, Agrees, StateAgrees, TermAgrees, GatekeeperAgrees, ProcessAgrees,
            Running, GatekeeperClosed, managerVars, createVars, procVars
<1>1. CASE ApiTerminate(s)    BY <1>1, AgreesMark DEF ApiTerminate
<1>2. CASE StopGatekeeper(s)  BY <1>2 DEF StopGatekeeper
<1>3. CASE KillProxy(s)       BY <1>3 DEF KillProxy, StopProxy
<1>4. CASE ReleasePort(s)     BY <1>4 DEF ReleasePort, RemoveConfig
<1>5. CASE Unregister(s)      BY <1>5 DEF Unregister
<1>6. QED  BY Terminate(s), <1>1, <1>2, <1>3, <1>4, <1>5 DEF Terminate

LEMMA AgreesMonitor ==
  ASSUME TypeOK, NEW s \in Sessions, Monitor(s) \/ DrainTerminates(s),
         NEW t \in Sessions, Agrees(t)
  PROVE  Agrees(t)'
<1> USE DEF TypeOK, Agrees, StateAgrees, TermAgrees, GatekeeperAgrees, ProcessAgrees,
            Running, GatekeeperClosed, managerVars, createVars, procVars
<1>1. CASE Reap(s)               BY <1>1 DEF Reap
<1>2. CASE MonitorStopped(s)     BY <1>2 DEF MonitorStopped
<1>3. CASE MonitorTerminates(s)
  <2>1. CASE Terminable(s)   BY <1>3, <2>1, AgreesMark DEF MonitorTerminates
  <2>2. CASE ~Terminable(s)  BY <1>3, <2>2 DEF MonitorTerminates
  <2>3. QED  BY <2>1, <2>2
<1>4. CASE DrainTerminates(s)
  <2>1. CASE Terminable(s)   BY <1>4, <2>1, AgreesMark DEF DrainTerminates
  <2>2. CASE ~Terminable(s)  BY <1>4, <2>2 DEF DrainTerminates
  <2>3. QED  BY <2>1, <2>2
<1>5. QED
  BY Monitor(s) \/ DrainTerminates(s), <1>1, <1>2, <1>3, <1>4
  DEF Monitor, ProcessDone, MaxDurationReached

LEMMA AgreesProcess ==
  ASSUME TypeOK, NEW s \in Sessions, Process(s), NEW t \in Sessions, Agrees(t)
  PROVE  Agrees(t)'
<1> USE DEF TypeOK, Agrees, StateAgrees, TermAgrees, GatekeeperAgrees, ProcessAgrees,
            Running, GatekeeperClosed, managerVars, createVars, procVars
<1>1. CASE ProxyListens(s)  BY <1>1 DEF ProxyListens
<1>2. CASE ProxyGivesUp(s)  BY <1>2 DEF ProxyGivesUp
<1>3. CASE ProxyDies(s)     BY <1>3 DEF ProxyDies
<1>4. CASE ProxyCrashes(s)  BY <1>4 DEF ProxyCrashes
<1>5. QED  BY Process(s), <1>1, <1>2, <1>3, <1>4 DEF Process

LEMMA AgreesRest ==
  ASSUME TypeOK, Shutdown \/ ShutdownReturns \/ UNCHANGED vars, NEW t \in Sessions, Agrees(t)
  PROVE  Agrees(t)'
  BY DEF Shutdown, ShutdownReturns, vars, TypeOK, Agrees, StateAgrees, TermAgrees,
         GatekeeperAgrees, ProcessAgrees, Running, GatekeeperClosed, managerVars, createVars,
         procVars

LEMMA AgreesStep ==
  ASSUME TypeOK, \A s \in Sessions : Agrees(s), [Next]_vars
  PROVE  \A s \in Sessions : Agrees(s)'
  BY AgreesCreate, AgreesServe, AgreesTerminate, AgreesMonitor, AgreesProcess, AgreesRest
  DEF Next, Stopped

-----------------------------------------------------------------------------
(* The port leases. A step grants one, returns one, or leaves them alone.   *)

LEMMA LeaseKept ==
  ASSUME PortLease, UNCHANGED <<inUse, port>>, \A t \in Sessions : Holds(t)' <=> Holds(t)
  PROVE  PortLease'
  BY DEF PortLease, Holders

LEMMA LeaseGranted ==
  ASSUME TypeOK, PortLease, NEW s \in Sessions, NEW p \in Ports \ inUse,
         ~Holds(s), Holds(s)',
         \A t \in Sessions \ {s} : Holds(t)' <=> Holds(t),
         inUse' = inUse \cup {p}, port' = [port EXCEPT ![s] = p]
  PROVE  PortLease'
<1> DEFINE H == Holders
<1>1. Holders' = H \cup {s}  BY DEF Holders
<1>2. \A t \in H : port'[t] = port[t] /\ port[t] \in inUse /\ t # s
  BY DEF PortLease, Holders, TypeOK
<1>3. port'[s] = p  BY DEF TypeOK
<1>4. inUse' = {port'[t] : t \in H \cup {s}}  BY <1>2, <1>3 DEF PortLease
<1>5. \A t, u \in H \cup {s} : port'[t] = port'[u] => t = u
  BY <1>2, <1>3 DEF PortLease
<1>6. QED  BY <1>1, <1>4, <1>5 DEF PortLease

LEMMA LeaseReturned ==
  ASSUME TypeOK, PortLease, NEW s \in Sessions, Holds(s), ~Holds(s)',
         \A t \in Sessions \ {s} : Holds(t)' <=> Holds(t),
         inUse' = inUse \ {port[s]}, port' = port
  PROVE  PortLease'
<1> DEFINE H == Holders
<1>1. s \in H /\ Holders' = H \ {s}  BY DEF Holders
<1>2. \A t \in H \ {s} : port[t] # port[s]  BY <1>1 DEF PortLease
<1>3. inUse' = {port'[t] : t \in H \ {s}}  BY <1>1, <1>2 DEF PortLease
<1>4. \A t, u \in H \ {s} : port'[t] = port'[u] => t = u  BY DEF PortLease
<1>5. QED  BY <1>1, <1>3, <1>4 DEF PortLease

LEMMA LeaseInit == Init => PortLease
  BY DEF Init, PortLease, Holders, Holds

LEMMA LeaseCreate ==
  ASSUME TypeOK, PortLease, NEW s \in Sessions, Agrees(s), Create(s)
  PROVE  PortLease'
<1> USE DEF TypeOK, managerVars, GoTo, Holds
<1>1. CASE Admit(s)             BY <1>1, LeaseKept DEF Admit
<1>2. CASE Reject(s)            BY <1>2, LeaseKept DEF Reject
<1>3. CASE Allocate(s)          BY <1>3, LeaseGranted DEF Allocate, FreePorts
<1>4. CASE NoPortsAvailable(s)  BY <1>4, LeaseKept DEF NoPortsAvailable
<1>5. CASE StartProxy(s)        BY <1>5, LeaseKept DEF StartProxy
<1>6. CASE PrepareFails(s)      BY <1>6, LeaseReturned DEF PrepareFails, Release
<1>7. CASE WaitReady(s)         BY <1>7, LeaseKept DEF WaitReady
<1>8. CASE WaitReadyFails(s)    BY <1>8, LeaseReturned DEF WaitReadyFails, Release
<1>9. CASE Register(s)
  <2>1. term[s] = "none"  BY <1>9 DEF Register, Agrees, TermAgrees
  <2>2. QED  BY <1>9, <2>1, LeaseKept DEF Register
<1>10. QED
  BY Create(s), <1>1, <1>2, <1>3, <1>4, <1>5, <1>6, <1>7, <1>8, <1>9 DEF Create

LEMMA LeaseServe ==
  ASSUME TypeOK, PortLease, NEW s \in Sessions, Serve(s) \/ Process(s)
  PROVE  PortLease'
  BY LeaseKept DEF Serve, Listen, Publish, Accept, Track, Connect, ConnectFails, ClientLeaves,
         ProxyHangsUp,
         Process, ProxyListens, ProxyGivesUp, ProxyDies, ProxyCrashes, managerVars,
         createVars, Holds

LEMMA LeaseMark ==
  ASSUME TypeOK, PortLease, NEW s \in Sessions, Agrees(s), Terminable(s), MarkTerminating(s),
         UNCHANGED <<inUse, port, pc>>
  PROVE  PortLease'
<1>1. term[s] = "none"
  BY DEF Terminable, Agrees, TermAgrees, TypeOK, TermSteps
<1>2. QED  BY <1>1, LeaseKept DEF MarkTerminating, Holds, TypeOK

LEMMA LeaseTerminate ==
  ASSUME TypeOK, PortLease, NEW s \in Sessions, Agrees(s), Terminate(s)
  PROVE  PortLease'
<1> USE DEF TypeOK, managerVars, createVars, Holds
<1>1. CASE ApiTerminate(s)    BY <1>1, LeaseMark DEF ApiTerminate
<1>2. CASE StopGatekeeper(s)  BY <1>2, LeaseKept DEF StopGatekeeper
<1>3. CASE KillProxy(s)       BY <1>3, LeaseKept DEF KillProxy
<1>4. CASE ReleasePort(s)
  <2>1. pc[s] = "returned"  BY <1>4 DEF ReleasePort, Agrees, TermAgrees
  <2>2. QED  BY <1>4, <2>1, LeaseReturned DEF ReleasePort, Release
<1>5. CASE Unregister(s)      BY <1>5, LeaseKept DEF Unregister
<1>6. QED  BY Terminate(s), <1>1, <1>2, <1>3, <1>4, <1>5 DEF Terminate

LEMMA LeaseMonitor ==
  ASSUME TypeOK, PortLease, NEW s \in Sessions, Agrees(s), Monitor(s) \/ DrainTerminates(s)
  PROVE  PortLease'
<1> USE DEF managerVars, createVars
<1>1. CASE Reap(s)            BY <1>1, LeaseKept DEF Reap, Holds
<1>2. CASE MonitorStopped(s)  BY <1>2, LeaseKept DEF MonitorStopped, Holds
<1>3. CASE MonitorTerminates(s)
  <2>1. CASE Terminable(s)   BY <1>3, <2>1, LeaseMark DEF MonitorTerminates
  <2>2. CASE ~Terminable(s)  BY <1>3, <2>2, LeaseKept DEF MonitorTerminates, Holds
  <2>3. QED  BY <2>1, <2>2
<1>4. CASE DrainTerminates(s)
  <2>1. CASE Terminable(s)   BY <1>4, <2>1, LeaseMark DEF DrainTerminates
  <2>2. CASE ~Terminable(s)  BY <1>4, <2>2, LeaseKept DEF DrainTerminates, Holds
  <2>3. QED  BY <2>1, <2>2
<1>5. QED
  BY Monitor(s) \/ DrainTerminates(s), <1>1, <1>2, <1>3, <1>4
  DEF Monitor, ProcessDone, MaxDurationReached

LEMMA LeaseRest ==
  ASSUME PortLease, Shutdown \/ ShutdownReturns \/ UNCHANGED vars
  PROVE  PortLease'
  BY LeaseKept DEF Shutdown, ShutdownReturns, vars, managerVars, createVars, Holds

LEMMA LeaseStep ==
  ASSUME TypeOK, PortLease, \A s \in Sessions : Agrees(s), [Next]_vars
  PROVE  PortLease'
  BY LeaseCreate, LeaseServe, LeaseTerminate, LeaseMonitor, LeaseRest DEF Next, Stopped

-----------------------------------------------------------------------------
(* The inductive invariant and what follows from it *)

LEMMA TypeStep == TypeOK /\ [Next]_vars => TypeOK'
<1> SUFFICES ASSUME TypeOK, [Next]_vars PROVE TypeOK'
  OBVIOUS
<1>1. CASE UNCHANGED vars  BY <1>1, TypeUnchanged
<1>2. CASE Next
  BY <1>2, TypeCreate, TypeServe, TypeTerminate, TypeMonitor, TypeProcess, TypeShutdown,
     TypeUnchanged DEF Next, Stopped
<1>3. QED  BY <1>1, <1>2

(***************************************************************************)
(* TypeCorrect: every reachable state of the manager gives its variables   *)
(* values of their types; in particular only ports of the configured range *)
(* are ever in use.                                                        *)
(***************************************************************************)
THEOREM TypeCorrect == Spec => []TypeOK
  BY TypeInit, TypeStep, PTL DEF Spec

(***************************************************************************)
(* Inductive: IndInv holds of every reachable state.                       *)
(***************************************************************************)
THEOREM Inductive == Spec => []IndInv
<1>1. Init => IndInv
  BY TypeInit, LeaseInit, AgreesInit DEF IndInv
<1>2. IndInv /\ [Next]_vars => IndInv'
  BY TypeStep, LeaseStep, AgreesStep DEF IndInv
<1>3. QED  BY <1>1, <1>2, PTL DEF Spec

(***************************************************************************)
(* LeasesExclusive: whatever the order of the requests, failures and       *)
(* terminations, inUse is exactly the ports of the sessions that own one,  *)
(* and no port is owned twice: Release is called once for each Allocate.   *)
(***************************************************************************)
THEOREM LeasesExclusive == Spec => []PortLease
  BY Inductive, PTL DEF IndInv

(***************************************************************************)
(* NoStrayProxy: a process that was not killed runs only while its session *)
(* owns the port pair.                                                     *)
(***************************************************************************)
THEOREM NoStrayProxy == Spec => []ProxyWithinLease
<1>1. IndInv => ProxyWithinLease
  BY DEF IndInv, Agrees, ProcessAgrees, ProxyWithinLease, Holds
<1>2. QED  BY <1>1, Inductive, PTL

(***************************************************************************)
(* NoStrayListener: a gatekeeper accepts connections only while its        *)
(* session owns the port, even when Start runs after Stop.                 *)
(***************************************************************************)
THEOREM NoStrayListener == Spec => []ListenerWithinLease
<1>1. IndInv => ListenerWithinLease
  BY DEF IndInv, Agrees, GatekeeperAgrees, GatekeeperClosed, ListenerWithinLease, Holds
<1>2. QED  BY <1>1, Inductive, PTL

(***************************************************************************)
(* SecretsRemoved: proxy.ini is on disk only while CreateSession waits for *)
(* its proxy, or after a WriteConfig that failed.                          *)
(***************************************************************************)
THEOREM SecretsRemoved == Spec => []SecretsOffDisk
<1>1. IndInv => SecretsOffDisk
  BY DEF IndInv, TypeOK, Agrees, ProcessAgrees, SecretsOffDisk
<1>2. QED  BY <1>1, Inductive, PTL

-----------------------------------------------------------------------------
(* The pool never loses a port *)

LEMMA PortsCounted == IsFiniteSet(Ports) /\ Cardinality(Ports) \in Nat
<1>1. IsFiniteSet(Ports)
  BY PortAssumption, FS_Interval DEF Ports
<1>2. QED  BY <1>1, FS_CardinalityType

(* The sessions that own a port are as many as the ports in use. *)
LEMMA Balanced ==
  ASSUME TypeOK, PortLease
  PROVE  Cardinality(Holders) = Cardinality(inUse) /\ Cardinality(Holders) <= Cardinality(Ports)
<1> DEFINE portOf == [s \in Holders |-> port[s]]
<1>1. IsFiniteSet(Holders)
  BY SessionsAssumption, FS_Subset DEF Holders
<1>2. ExistsBijection(Holders, inUse)
  <2>1. portOf \in [Holders -> inUse]
    BY DEF PortLease
  <2>2. \A s, t \in Holders : portOf[s] = portOf[t] => s = t
    BY DEF PortLease
  <2>3. \A p \in inUse : \E s \in Holders : portOf[s] = p
    BY DEF PortLease
  <2>4. portOf \in Injection(Holders, inUse) /\ portOf \in Surjection(Holders, inUse)
    BY <2>1, <2>2, <2>3, Fun_IsInj, Fun_IsSurj
  <2>5. QED  BY <2>4 DEF Bijection, ExistsBijection
<1>3. Cardinality(Holders) = Cardinality(inUse)
  BY <1>1, <1>2, FS_Bijection
<1>4. Cardinality(inUse) <= Cardinality(Ports)
  BY PortsCounted, FS_Subset DEF TypeOK
<1>5. QED  BY <1>3, <1>4

(***************************************************************************)
(* PoolBounds: never more sessions own ports than there are, which is the  *)
(* bound that holds where MaxConcurrentSessions does not; and a request is *)
(* told that there are none only when they are that many: whatever failed  *)
(* before, no port is lost.                                                *)
(***************************************************************************)
THEOREM PoolBounds ==
  Spec => /\ [](Cardinality(Holders) <= Cardinality(Ports))
          /\ [][\A s \in Sessions :
                   NoPortsAvailable(s) => Cardinality(Holders) = Cardinality(Ports)]_vars
<1>1. IndInv => Cardinality(Holders) <= Cardinality(Ports)
  BY Balanced DEF IndInv
<1>2. IndInv => \A s \in Sessions :
                   NoPortsAvailable(s) => Cardinality(Holders) = Cardinality(Ports)
  <2> SUFFICES ASSUME IndInv, NEW s \in Sessions, NoPortsAvailable(s)
               PROVE  Cardinality(Holders) = Cardinality(Ports)
    OBVIOUS
  <2>1. inUse = Ports
    BY DEF NoPortsAvailable, FreePorts, IndInv, TypeOK
  <2>2. QED  BY <2>1, Balanced DEF IndInv
<1>3. QED  BY <1>1, <1>2, Inductive, PTL

-----------------------------------------------------------------------------
(* Who answers on the ports of a session *)

(* A process has been started on a port that was allocated. *)
StartedOnPort == \A s \in Sessions : proc[s] # "none" => port[s] \in Ports

LEMMA StartedStep ==
  ASSUME IndInv, StartedOnPort, [Next]_vars
  PROVE  StartedOnPort'
<1> USE DEF IndInv, TypeOK, StartedOnPort, managerVars, createVars, procVars
<1>1. ASSUME NEW s \in Sessions, Create(s) PROVE StartedOnPort'
  <2>1. CASE Allocate(s)    BY <2>1 DEF Allocate, FreePorts
  <2>2. CASE StartProxy(s)
    <3>1. port[s] \in Ports
      BY <2>2 DEF StartProxy, PortLease, Holders, Holds
    <3>2. QED  BY <2>2, <3>1 DEF StartProxy
  <2>3. QED
    BY <1>1, <2>1, <2>2 DEF Create, Admit, Reject, NoPortsAvailable, PrepareFails, WaitReady,
           WaitReadyFails, Register
<1>2. ASSUME NEW s \in Sessions, Serve(s) \/ Terminate(s) \/ Monitor(s) \/ DrainTerminates(s)
      PROVE  StartedOnPort'
  BY <1>2 DEF Serve, Listen, Publish, Accept, Track, Connect, ConnectFails, ClientLeaves,
         ProxyHangsUp, Terminate, ApiTerminate, StopGatekeeper, KillProxy, ReleasePort,
         Unregister, Monitor, Reap, MonitorStopped, ProcessDone, MaxDurationReached,
         MonitorTerminates, DrainTerminates
<1>3. ASSUME NEW s \in Sessions, Process(s) PROVE StartedOnPort'
  BY <1>3 DEF Process, ProxyListens, ProxyGivesUp, ProxyDies, ProxyCrashes, Running
<1>4. CASE Shutdown \/ ShutdownReturns \/ UNCHANGED vars
  BY <1>4 DEF Shutdown, ShutdownReturns, vars
<1>5. QED  BY <1>1, <1>2, <1>3, <1>4 DEF Next, Stopped

(* The two ranges do not meet, and the offset keeps the ports apart. *)
LEMMA RangesApart ==
  ASSUME PortsApart, NEW p \in Ports, NEW q \in Ports
  PROVE  /\ InternalPort(p) # q /\ InternalPort(p) # 0
         /\ InternalPort(p) = InternalPort(q) => p = q
  BY PortAssumption DEF PortsApart, Ports, InternalPort

LEMMA OwnAnswers ==
  ASSUME PortsApart, IndInv, StartedOnPort
  PROVE  PortsOwn
<1> SUFFICES ASSUME NEW s \in Holders
             PROVE  /\ PortBound(InternalPort(port[s])) =>
                          \/ proc[s] = "listening"
                          \/ \E t \in killed : proc[t] = "listening" /\ port[t] = port[s]
                    /\ PortBound(port[s]) =>
                          \/ gk[s] \in {"bound", "listening"}
                          \/ \E t \in Sessions \ Holders : gk[t] = "bound" /\ port[t] = port[s]
  BY DEF PortsOwn
<1>1. s \in Sessions /\ port[s] \in Ports
  BY DEF Holders, IndInv, TypeOK, PortLease
<1>2. \A t \in Sessions : proc[t] = "listening" => port[t] \in Ports
  BY DEF StartedOnPort
<1>3. \A t \in Sessions : port[t] \in Ports \cup {0}
  BY DEF IndInv, TypeOK
<1>4. \A t \in Holders : port[t] = port[s] => t = s
  BY DEF IndInv, PortLease
<1>5. ASSUME PortBound(InternalPort(port[s]))
      PROVE  \/ proc[s] = "listening"
             \/ \E t \in killed : proc[t] = "listening" /\ port[t] = port[s]
  <2>1. PICK t \in Sessions :
           \/ gk[t] \in {"bound", "listening"} /\ port[t] = InternalPort(port[s])
           \/ proc[t] = "listening" /\ InternalPort(port[t]) = InternalPort(port[s])
    BY <1>5 DEF PortBound
  <2>2. proc[t] = "listening" /\ port[t] = port[s]
    BY <1>1, <1>2, <1>3, <2>1, RangesApart
  <2>3. t \in killed \/ t \in Holders
    BY <2>2 DEF IndInv, Agrees, ProcessAgrees, Running, Holders, Holds
  <2>4. QED  BY <1>4, <2>2, <2>3
<1>6. ASSUME PortBound(port[s])
      PROVE  \/ gk[s] \in {"bound", "listening"}
             \/ \E t \in Sessions \ Holders : gk[t] = "bound" /\ port[t] = port[s]
  <2>1. PICK t \in Sessions :
           \/ gk[t] \in {"bound", "listening"} /\ port[t] = port[s]
           \/ proc[t] = "listening" /\ InternalPort(port[t]) = port[s]
    BY <1>6 DEF PortBound
  <2>2. gk[t] \in {"bound", "listening"} /\ port[t] = port[s]
    BY <1>1, <1>2, <2>1, RangesApart
  <2>3. gk[t] = "listening" => t \in Holders
    BY DEF IndInv, Agrees, GatekeeperAgrees, GatekeeperClosed, Holders, Holds
  <2>4. QED  BY <1>4, <2>2, <2>3
<1>7. QED  BY <1>5, <1>6

(***************************************************************************)
(* OnlyOwnAnswer: with internal ports apart from external ones, what       *)
(* answers WaitReady, or a client's handler, while the session has its     *)
(* port is its own proxy or a killed one that is not gone yet, and what    *)
(* keeps a gatekeeper from listening is one that is about to close.        *)
(***************************************************************************)
THEOREM OnlyOwnAnswer == ASSUME PortsApart PROVE Spec => []PortsOwn
<1>1. Init => StartedOnPort
  BY DEF Init, StartedOnPort
<1>2. IndInv /\ StartedOnPort /\ [Next]_vars => StartedOnPort'
  BY StartedStep
<1>3. IndInv /\ StartedOnPort => PortsOwn
  BY OwnAnswers
<1>4. QED  BY <1>1, <1>2, <1>3, Inductive, PTL DEF Spec

-----------------------------------------------------------------------------
(* The lifecycle *)

LEMMA ForwardMark ==
  ASSUME TypeOK, NEW s \in Sessions, Terminable(s), MarkTerminating(s), NEW t \in Sessions
  PROVE  Rank[state[t]] <= Rank[state'[t]]
  BY DEF TypeOK, States, Terminable, MarkTerminating, Rank

LEMMA ForwardStep ==
  ASSUME TypeOK, \A s \in Sessions : Agrees(s), Next, NEW t \in Sessions
  PROVE  Rank[state[t]] <= Rank[state'[t]]
<1>1. CASE state' = state
  BY <1>1 DEF TypeOK, States, Rank
<1>2. ASSUME NEW s \in Sessions, Create(s) PROVE Rank[state[t]] <= Rank[state'[t]]
  BY <1>1, <1>2 DEF Create, Admit, Reject, Allocate, NoPortsAvailable, StartProxy, PrepareFails,
         WaitReady, WaitReadyFails, Register, Agrees, StateAgrees, TypeOK, States, Rank
<1>3. ASSUME NEW s \in Sessions, Serve(s) PROVE Rank[state[t]] <= Rank[state'[t]]
  BY <1>1, <1>3 DEF Serve, Listen, Publish, Accept, Track, Connect, OnConnected, ConnectFails,
         ClientLeaves,
         ProxyHangsUp, TypeOK, States, Rank
<1>4. ASSUME NEW s \in Sessions, Terminate(s) PROVE Rank[state[t]] <= Rank[state'[t]]
  <2>1. CASE ApiTerminate(s)  BY <2>1, ForwardMark DEF ApiTerminate
  <2>2. CASE Unregister(s)
    BY <2>2 DEF Unregister, Agrees, TermAgrees, TypeOK, States, Rank
  <2>3. QED
    BY <1>1, <1>4, <2>1, <2>2 DEF Terminate, StopGatekeeper, KillProxy, ReleasePort
<1>5. ASSUME NEW s \in Sessions, Monitor(s) \/ DrainTerminates(s)
      PROVE  Rank[state[t]] <= Rank[state'[t]]
  BY <1>1, <1>5, ForwardMark DEF Monitor, Reap, MonitorStopped, ProcessDone, MaxDurationReached,
         MonitorTerminates, DrainTerminates
<1>6. ASSUME NEW s \in Sessions, Process(s) PROVE Rank[state[t]] <= Rank[state'[t]]
  BY <1>1, <1>6 DEF Process, ProxyListens, ProxyGivesUp, ProxyDies, ProxyCrashes
<1>7. CASE Shutdown \/ ShutdownReturns \/ Stopped
  BY <1>1, <1>7 DEF Shutdown, ShutdownReturns, Stopped, vars
<1>8. QED  BY <1>2, <1>3, <1>4, <1>5, <1>6, <1>7 DEF Next

(***************************************************************************)
(* Forward: a session's state never goes back, whoever writes it and in    *)
(* whatever order.                                                         *)
(***************************************************************************)
THEOREM Forward == Spec => LifecycleForward
<1>1. IndInv /\ [Next]_vars => [\A s \in Sessions : Rank[state[s]] <= Rank[state'[s]]]_vars
  BY ForwardStep DEF IndInv
<1>2. QED  BY <1>1, Inductive, PTL DEF Spec, LifecycleForward

-----------------------------------------------------------------------------
(* The manager implements SessionLease. *)

PhaseMap == [s \in Sessions |-> PhaseOf(s)]
LeaseMap == {<<port[s], s>> : s \in Holders}

LEMMA RefinesInit == Init => Lease!Init
  BY DEF Init, Lease!Init, PhaseOf, Holders, Holds

(* Nothing the mapping looks at changes. *)
LEMMA MapKept ==
  ASSUME UNCHANGED port,
         \A t \in Sessions : PhaseOf(t)' = PhaseOf(t) /\ (Holds(t)' <=> Holds(t))
  PROVE  UNCHANGED <<PhaseMap, LeaseMap>>
<1>1. Holders' = Holders  BY DEF Holders
<1>2. LeaseMap' = LeaseMap  BY <1>1 DEF LeaseMap
<1>3. PhaseMap' = PhaseMap  BY DEF PhaseMap
<1>4. QED  BY <1>2, <1>3

(* One session changes its phase. *)
LEMMA MapPhase ==
  ASSUME NEW s \in Sessions, NEW x, PhaseOf(s)' = x,
         \A t \in Sessions \ {s} : PhaseOf(t)' = PhaseOf(t)
  PROVE  PhaseMap' = [PhaseMap EXCEPT ![s] = x]
  BY DEF PhaseMap

LEMMA MapLease ==
  ASSUME UNCHANGED port, \A t \in Sessions : Holds(t)' <=> Holds(t)
  PROVE  LeaseMap' = LeaseMap
<1>1. Holders' = Holders  BY DEF Holders
<1>2. QED  BY <1>1 DEF LeaseMap

(* A step of the manager seen through the mapping. *)
Refined == Lease!Next \/ UNCHANGED <<PhaseMap, LeaseMap>>

LEMMA RefinedRefuse ==
  ASSUME NEW s \in Sessions, PhaseOf(s) = "new", PhaseOf(s)' = "over",
         \A t \in Sessions \ {s} : PhaseOf(t)' = PhaseOf(t),
         UNCHANGED port, \A t \in Sessions : Holds(t)' <=> Holds(t)
  PROVE  Refined
<1>1. PhaseMap' = [PhaseMap EXCEPT ![s] = "over"]  BY MapPhase
<1>2. LeaseMap' = LeaseMap  BY MapLease
<1>3. Lease!Refuse(s)  BY <1>1, <1>2 DEF Lease!Refuse, PhaseMap, LeaseMap
<1>4. QED  BY <1>3 DEF Refined, Lease!Next

LEMMA RefinedOpen ==
  ASSUME NEW s \in Sessions, PhaseOf(s) = "leased", PhaseOf(s)' = "live",
         \A t \in Sessions \ {s} : PhaseOf(t)' = PhaseOf(t),
         UNCHANGED port, \A t \in Sessions : Holds(t)' <=> Holds(t)
  PROVE  Refined
<1>1. PhaseMap' = [PhaseMap EXCEPT ![s] = "live"]  BY MapPhase
<1>2. LeaseMap' = LeaseMap  BY MapLease
<1>3. Lease!Open(s)  BY <1>1, <1>2 DEF Lease!Open, PhaseMap, LeaseMap
<1>4. QED  BY <1>3 DEF Refined, Lease!Next

LEMMA RefinedClose ==
  ASSUME NEW s \in Sessions, PhaseOf(s) = "live", PhaseOf(s)' = "closing",
         \A t \in Sessions \ {s} : PhaseOf(t)' = PhaseOf(t),
         UNCHANGED port, \A t \in Sessions : Holds(t)' <=> Holds(t)
  PROVE  Refined
<1>1. PhaseMap' = [PhaseMap EXCEPT ![s] = "closing"]  BY MapPhase
<1>2. LeaseMap' = LeaseMap  BY MapLease
<1>3. Lease!Close(s)  BY <1>1, <1>2 DEF Lease!Close, PhaseMap, LeaseMap
<1>4. QED  BY <1>3 DEF Refined, Lease!Next

(* Allocate grants a port nobody holds, because inUse is the ports held. *)
LEMMA RefinedGrant ==
  ASSUME TypeOK, PortLease, NEW s \in Sessions, NEW p \in Ports \ inUse,
         PhaseOf(s) = "new", PhaseOf(s)' = "leased", ~Holds(s), Holds(s)',
         \A t \in Sessions \ {s} : PhaseOf(t)' = PhaseOf(t) /\ (Holds(t)' <=> Holds(t)),
         port' = [port EXCEPT ![s] = p]
  PROVE  Refined
<1>1. PhaseMap' = [PhaseMap EXCEPT ![s] = "leased"]  BY MapPhase
<1>2. Holders' = Holders \cup {s} /\ s \notin Holders  BY DEF Holders
<1>3. port'[s] = p /\ \A t \in Sessions \ {s} : port'[t] = port[t]  BY DEF TypeOK
<1>4. LeaseMap' = LeaseMap \cup {<<p, s>>}
  BY <1>2, <1>3 DEF LeaseMap, Holders
<1>5. \A t \in Sessions : <<p, t>> \notin LeaseMap
  BY DEF LeaseMap, PortLease
<1>6. Lease!Grant(s, p)
  BY <1>1, <1>4, <1>5 DEF Lease!Grant, PhaseMap, LeaseMap
<1>7. QED  BY <1>6 DEF Refined, Lease!Next

LEMMA RefinedReturn ==
  ASSUME TypeOK, PortLease, NEW s \in Sessions, Holds(s), ~Holds(s)',
         PhaseOf(s) \in {"leased", "closing"}, PhaseOf(s)' = "over",
         \A t \in Sessions \ {s} : PhaseOf(t)' = PhaseOf(t) /\ (Holds(t)' <=> Holds(t)),
         UNCHANGED port
  PROVE  Refined
<1>1. PhaseMap' = [PhaseMap EXCEPT ![s] = "over"]  BY MapPhase
<1>2. Holders' = Holders \ {s} /\ s \in Holders  BY DEF Holders
<1>3. PICK p \in Ports : p = port[s]  BY <1>2 DEF PortLease, TypeOK
<1>4. LeaseMap' = LeaseMap \ {<<p, s>>}
  BY <1>2, <1>3 DEF LeaseMap, Holders
<1>5. <<p, s>> \in LeaseMap  BY <1>2, <1>3 DEF LeaseMap
<1>6. Lease!Return(s, p)
  BY <1>1, <1>4, <1>5 DEF Lease!Return, PhaseMap, LeaseMap
<1>7. QED  BY <1>6 DEF Refined, Lease!Next

LEMMA RefinedCreate ==
  ASSUME IndInv, NEW s \in Sessions, Create(s)
  PROVE  Refined
<1> USE DEF IndInv, TypeOK, managerVars, GoTo, Holds, PhaseOf
<1>0. pc[s] # "returned" => term[s] = "none"  BY DEF Agrees, TermAgrees
<1>1. CASE Admit(s)             BY <1>1, MapKept DEF Admit, Refined
<1>2. CASE Reject(s)            BY <1>2, RefinedRefuse DEF Reject
<1>3. CASE Allocate(s)          BY <1>3, RefinedGrant DEF Allocate, FreePorts
<1>4. CASE NoPortsAvailable(s)  BY <1>4, RefinedRefuse DEF NoPortsAvailable
<1>5. CASE StartProxy(s)        BY <1>5, MapKept DEF StartProxy, Refined
<1>6. CASE PrepareFails(s)      BY <1>6, RefinedReturn DEF PrepareFails
<1>7. CASE WaitReady(s)         BY <1>7, MapKept DEF WaitReady, Refined
<1>8. CASE WaitReadyFails(s)    BY <1>8, RefinedReturn DEF WaitReadyFails
<1>9. CASE Register(s)          BY <1>0, <1>9, RefinedOpen DEF Register
<1>10. QED
  BY Create(s), <1>1, <1>2, <1>3, <1>4, <1>5, <1>6, <1>7, <1>8, <1>9 DEF Create

LEMMA RefinedMark ==
  ASSUME IndInv, NEW s \in Sessions, Terminable(s), MarkTerminating(s), UNCHANGED <<port, pc>>
  PROVE  Refined
<1>1. pc[s] = "returned" /\ term[s] = "none"
  BY DEF IndInv, Terminable, Agrees, TermAgrees, TypeOK, TermSteps
<1>2. term'[s] = "marked" /\ \A t \in Sessions \ {s} : term'[t] = term[t]
  BY DEF MarkTerminating, IndInv, TypeOK
<1>3. QED  BY <1>1, <1>2, RefinedClose DEF PhaseOf, Holds

LEMMA RefinedTerminate ==
  ASSUME IndInv, NEW s \in Sessions, Terminate(s)
  PROVE  Refined
<1> USE DEF IndInv, TypeOK, managerVars, createVars, Holds, PhaseOf
<1>0. term[s] # "none" => pc[s] = "returned"  BY DEF Agrees, TermAgrees
<1>1. CASE ApiTerminate(s)    BY <1>1, RefinedMark DEF ApiTerminate
<1>2. CASE StopGatekeeper(s)  BY <1>0, <1>2, MapKept DEF StopGatekeeper, Refined
<1>3. CASE KillProxy(s)       BY <1>0, <1>3, MapKept DEF KillProxy, Refined
<1>4. CASE ReleasePort(s)     BY <1>0, <1>4, RefinedReturn DEF ReleasePort
<1>5. CASE Unregister(s)      BY <1>0, <1>5, MapKept DEF Unregister, Refined
<1>6. QED  BY Terminate(s), <1>1, <1>2, <1>3, <1>4, <1>5 DEF Terminate

LEMMA RefinedMonitor ==
  ASSUME IndInv, NEW s \in Sessions, Monitor(s) \/ DrainTerminates(s)
  PROVE  Refined
<1> USE DEF managerVars, createVars
<1>1. CASE Reap(s)            BY <1>1, MapKept DEF Reap, Refined, Holds, PhaseOf
<1>2. CASE MonitorStopped(s)  BY <1>2, MapKept DEF MonitorStopped, Refined, Holds, PhaseOf
<1>3. CASE MonitorTerminates(s)
  <2>1. CASE Terminable(s)   BY <1>3, <2>1, RefinedMark DEF MonitorTerminates
  <2>2. CASE ~Terminable(s)
    BY <1>3, <2>2, MapKept DEF MonitorTerminates, Refined, Holds, PhaseOf
  <2>3. QED  BY <2>1, <2>2
<1>4. CASE DrainTerminates(s)
  <2>1. CASE Terminable(s)   BY <1>4, <2>1, RefinedMark DEF DrainTerminates
  <2>2. CASE ~Terminable(s)
    BY <1>4, <2>2, MapKept DEF DrainTerminates, Refined, Holds, PhaseOf
  <2>3. QED  BY <2>1, <2>2
<1>5. QED
  BY Monitor(s) \/ DrainTerminates(s), <1>1, <1>2, <1>3, <1>4
  DEF Monitor, ProcessDone, MaxDurationReached

LEMMA RefinedRest ==
  ASSUME \/ \E s \in Sessions : Serve(s) \/ Process(s)
         \/ Shutdown \/ ShutdownReturns \/ UNCHANGED vars
  PROVE  Refined
<1>1. UNCHANGED <<pc, term, port>>
  BY DEF Serve, Listen, Publish, Accept, Track, Connect, ConnectFails, ClientLeaves,
         ProxyHangsUp,
         Process, ProxyListens, ProxyGivesUp, ProxyDies, ProxyCrashes, Shutdown, ShutdownReturns,
         vars, managerVars, createVars
<1>2. QED  BY <1>1, MapKept DEF Refined, Holds, PhaseOf

(***************************************************************************)
(* Implements: every behaviour of the manager is, through the mapping, a   *)
(* behaviour of SessionLease.                                              *)
(***************************************************************************)
THEOREM Implements == Spec => ImplementsLease
<1>1. IndInv /\ [Next]_vars => [Lease!Next]_(Lease!vars)
  <2> SUFFICES ASSUME IndInv, [Next]_vars PROVE [Lease!Next]_(Lease!vars)
    OBVIOUS
  <2>1. Refined
    BY RefinedCreate, RefinedTerminate, RefinedMonitor, RefinedRest DEF Next, Stopped
  <2>2. QED  BY <2>1 DEF Refined, Lease!vars, PhaseMap, LeaseMap
<1>2. QED  BY <1>1, RefinesInit, Inductive, PTL DEF Spec, Lease!Spec, ImplementsLease
=============================================================================
