--------------------------- MODULE SessionManager ---------------------------
(***************************************************************************)
(* The life of the broker's sessions: session/manager.go together with the *)
(* port pool, the configuration writer, the freerdp-proxy processes it     *)
(* starts and the life cycle of the gatekeeper's listener.                 *)
(*                                                                         *)
(* A member of Sessions is one CreateSession request and the session it    *)
(* makes (identifiers are fresh, so none is used twice). Per session run   *)
(*   - the request goroutine, CreateSession           (pc)                 *)
(*   - the gatekeeper's goroutine, gk.Start()         (gk)                 *)
(*   - the connection handler of the client           (conn)               *)
(*   - the monitor and the goroutine in process.Wait  (monitor)            *)
(*   - the one TerminateSession call that wins        (term)               *)
(*   - Shutdown's goroutine for this session          (drain)              *)
(*   - the freerdp-proxy process                      (proc, killed)       *)
(* One action is what a goroutine does between two points where another    *)
(* one may be seen: a lock region, a system call, a channel operation.     *)
(***************************************************************************)
EXTENDS Integers, FiniteSets

CONSTANTS
    Sessions,              \* CreateSession requests
    StartPort, EndPort,    \* PortPool.startPort, endPort
    InternalOffset,        \* PortPool.internalOffset
    MaxConcurrentSessions  \* ManagerConfig.MaxConcurrentSessions

ASSUME PortAssumption ==
    /\ StartPort \in Nat \ {0}
    /\ EndPort \in Nat
    /\ InternalOffset \in Int
ASSUME LimitAssumption == MaxConcurrentSessions \in Nat
ASSUME SessionsAssumption == IsFiniteSet(Sessions)

VARIABLES
    sessions,  \* Manager.sessions: the registered sessions
    history,   \* Manager.history: the terminated ones
    shutdown,  \* Manager.shutdown and the progress of the Shutdown call
    inUse,     \* PortPool.inUse: external ports handed out
    pc,        \* where CreateSession is
    state,     \* Session.State
    port,      \* Session.ExternalPort, 0 before it is set
    secrets,   \* sessions whose proxy.ini, with the password, is on disk
    proc,      \* the freerdp-proxy process
    killed,    \* processes that have been sent SIGKILL
    gk,        \* Gatekeeper.Start
    conn,      \* the client's connection
    term,      \* where TerminateSession is
    monitor,   \* Manager.monitor
    drain      \* Shutdown's goroutine for the session

managerVars == <<sessions, history, shutdown, inUse>>
createVars  == <<pc, port, secrets>>
procVars    == <<proc, killed>>
vars == <<managerVars, createVars, procVars, state, gk, conn, term, monitor, drain>>

Ports == StartPort .. EndPort

InternalPort(p) == p + InternalOffset

-----------------------------------------------------------------------------
(* The values of the variables *)

CreateSteps == {"idle", "checked", "allocated", "started", "ready", "returned", "failed"}
States      == {"none", "creating", "active", "connected", "terminating", "terminated"}
ProcSteps   == {"none", "starting", "listening", "exited", "reaped"}
GkSteps     == {"none", "starting", "bound", "listening", "closed", "failed"}
ConnSteps   == {"none", "accepted", "handled", "cut", "open", "closing", "gone"}
TermSteps   == {"none", "marked", "stopping", "killed", "released", "done"}

TypeOK ==
    /\ sessions \subseteq Sessions
    /\ history \subseteq Sessions
    /\ shutdown \in {"running", "draining", "drained"}
    /\ inUse \subseteq Ports
    /\ pc \in [Sessions -> CreateSteps]
    /\ state \in [Sessions -> States]
    /\ port \in [Sessions -> Ports \cup {0}]
    /\ secrets \subseteq Sessions
    /\ proc \in [Sessions -> ProcSteps]
    /\ killed \subseteq Sessions
    /\ gk \in [Sessions -> GkSteps]
    /\ conn \in [Sessions -> ConnSteps]
    /\ term \in [Sessions -> TermSteps]
    /\ monitor \in [Sessions -> {"none", "watching", "done"}]
    /\ drain \in [Sessions -> {"none", "queued", "working", "done"}]

Init ==
    /\ sessions = {}
    /\ history = {}
    /\ shutdown = "running"
    /\ inUse = {}
    /\ pc = [s \in Sessions |-> "idle"]
    /\ state = [s \in Sessions |-> "none"]
    /\ port = [s \in Sessions |-> 0]
    /\ secrets = {}
    /\ proc = [s \in Sessions |-> "none"]
    /\ killed = {}
    /\ gk = [s \in Sessions |-> "none"]
    /\ conn = [s \in Sessions |-> "none"]
    /\ term = [s \in Sessions |-> "none"]
    /\ monitor = [s \in Sessions |-> "none"]
    /\ drain = [s \in Sessions |-> "none"]

-----------------------------------------------------------------------------
(* State formulae *)

(* Gatekeeper.closed and the closing of Session.stopMonitor: both happen in *)
(* TerminateSession's step out of "marked" and are never undone.            *)
GatekeeperClosed(s) == term[s] \notin {"none", "marked"}

(* The process runs; one that was killed but is not gone still does. *)
Running(s) == proc[s] \in {"starting", "listening"}

(* A socket of the broker or of one of its proxies listens on port q. *)
PortBound(q) ==
    \E s \in Sessions :
        \/ gk[s] \in {"bound", "listening"} /\ port[s] = q
        \/ proc[s] = "listening" /\ InternalPort(port[s]) = q

(* The session owns its port: from Allocate to the matching Release. *)
Holds(s) ==
    \/ pc[s] \in {"allocated", "started", "ready"}
    \/ pc[s] = "returned" /\ term[s] \notin {"released", "done"}

Holders == {s \in Sessions : Holds(s)}

(* The ports Allocate may find free. Mutants: the loop runs one port too far; *)
(* the loop does not look at inUse.                                           *)
FreePortsOneMore == (StartPort .. EndPort + 1) \ inUse
FreePortsAny == Ports
FreePorts == Ports \ inUse

(* The one its loop finds first. *)
FirstFree(p) == \A q \in FreePorts : p <= q

(* PortPool.Release. Mutant: endPort itself is taken to be out of range. *)
ReleaseBelowEnd(p) == inUse' = IF p < EndPort THEN inUse \ {p} ELSE inUse
Release(p) == inUse' = inUse \ {p}

(* ProxyManager.StopProxy: SIGKILL unless the process is already gone. *)
(* Mutant: a process that does not listen yet is left alone.           *)
StopProxyListening(s) == killed' = IF proc[s] = "listening" THEN killed \cup {s} ELSE killed
StopProxy(s) == killed' = IF Running(s) THEN killed \cup {s} ELSE killed

(* DeleteConfig and CleanupSession: proxy.ini is gone. Mutant: it stays. *)
RemoveConfigSkipped(s) == secrets' = secrets
RemoveConfig(s) == secrets' = secrets \ {s}

GoTo(s, step) == pc' = [pc EXCEPT ![s] = step]

-----------------------------------------------------------------------------
(* CreateSession *)

(* The shutdown flag and the limit are tested under m.mu, which is then released. *)
Admissible == shutdown = "running" /\ Cardinality(sessions) < MaxConcurrentSessions

Admit(s) ==
    /\ pc[s] = "idle"
    /\ Admissible
    /\ GoTo(s, "checked")
    /\ UNCHANGED <<managerVars, port, secrets, procVars, state, gk, conn, term, monitor, drain>>

Reject(s) ==
    /\ pc[s] = "idle"
    /\ ~Admissible
    /\ GoTo(s, "failed")
    /\ UNCHANGED <<managerVars, port, secrets, procVars, state, gk, conn, term, monitor, drain>>

(* PortPool.Allocate, then the session object in state "creating". *)
Allocate(s) ==
    /\ pc[s] = "checked"
    /\ \E p \in FreePorts :
          /\ FirstFree(p)
          /\ inUse' = inUse \cup {p}
          /\ port' = [port EXCEPT ![s] = p]
    /\ state' = [state EXCEPT ![s] = "creating"]
    /\ GoTo(s, "allocated")
    /\ UNCHANGED <<sessions, history, shutdown, secrets, procVars, gk, conn, term, monitor, drain>>

NoPortsAvailable(s) ==
    /\ pc[s] = "checked"
    /\ FreePorts = {}
    /\ GoTo(s, "failed")
    /\ UNCHANGED <<managerVars, port, secrets, procVars, state, gk, conn, term, monitor, drain>>

(* WriteConfig and StartProxy succeed: the password is on disk for the new process. *)
StartProxy(s) ==
    /\ pc[s] = "allocated"
    /\ secrets' = secrets \cup {s}
    /\ proc' = [proc EXCEPT ![s] = "starting"]
    /\ GoTo(s, "started")
    /\ UNCHANGED <<managerVars, port, killed, state, gk, conn, term, monitor, drain>>

(* No randomness for the identifier or the token, or StartProxy fails and the *)
(* directory is removed: nothing is left on disk. WriteConfig fails, in the   *)
(* worst case part way through proxy.ini: what was written stays.             *)
PrepareFails(s) ==
    /\ pc[s] = "allocated"
    /\ \E left \in {{}, {s}} : secrets' = secrets \cup left
    /\ Release(port[s])
    /\ GoTo(s, "failed")
    /\ UNCHANGED <<sessions, history, shutdown, port, procVars, state, gk, conn, term, monitor, drain>>

(* WaitReady's dial to 127.0.0.1:internalPort is answered, by whoever listens there. *)
DialAnswered(s) == PortBound(InternalPort(port[s]))

WaitReady(s) ==
    /\ pc[s] = "started"
    /\ DialAnswered(s)
    /\ GoTo(s, "ready")
    /\ UNCHANGED <<managerVars, port, secrets, procVars, state, gk, conn, term, monitor, drain>>

(* The timeout, or the request's context: the process is killed and not waited *)
(* for, the directory is removed and the port goes back.                       *)
WaitReadyFails(s) ==
    /\ pc[s] = "started"
    /\ StopProxy(s)
    /\ RemoveConfig(s)
    /\ Release(port[s])
    /\ GoTo(s, "failed")
    /\ UNCHANGED <<sessions, history, shutdown, port, proc, state, gk, conn, term, monitor, drain>>

(* DeleteConfig, NewGatekeeper and its goroutine, which nobody can see before *)
(* the session is registered, under m.mu and with nothing tested again; then  *)
(* the monitor's goroutine.                                                   *)
Register(s) ==
    /\ pc[s] = "ready"
    /\ RemoveConfig(s)
    /\ gk' = [gk EXCEPT ![s] = "starting"]
    /\ sessions' = sessions \cup {s}
    /\ state' = [state EXCEPT ![s] = "active"]
    /\ monitor' = [monitor EXCEPT ![s] = "watching"]
    /\ GoTo(s, "returned")
    /\ UNCHANGED <<history, shutdown, inUse, port, procVars, conn, term, drain>>

Create(s) ==
    \/ Admit(s)      \/ Reject(s)
    \/ Allocate(s)   \/ NoPortsAvailable(s)
    \/ StartProxy(s) \/ PrepareFails(s)
    \/ WaitReady(s)  \/ WaitReadyFails(s)
    \/ Register(s)

-----------------------------------------------------------------------------
(* The gatekeeper's goroutine. Start listens first and looks at closed after. *)

Listen(s) ==
    /\ gk[s] = "starting"
    /\ gk' = [gk EXCEPT ![s] = IF PortBound(port[s]) THEN "failed" ELSE "bound"]
    /\ UNCHANGED <<managerVars, createVars, procVars, state, conn, term, monitor, drain>>

(* Mutant: closed is not looked at. *)
PublishUnchecked(s) ==
    /\ gk[s] = "bound"
    /\ gk' = [gk EXCEPT ![s] = "listening"]
    /\ UNCHANGED <<managerVars, createVars, procVars, state, conn, term, monitor, drain>>

(* closed is looked at and the listener published in one region of g.mu. *)
Publish(s) ==
    /\ gk[s] = "bound"
    /\ gk' = [gk EXCEPT ![s] = IF GatekeeperClosed(s) THEN "closed" ELSE "listening"]
    /\ UNCHANGED <<managerVars, createVars, procVars, state, conn, term, monitor, drain>>

(* OnConnected, under session.mu. Mutant: it does not look at the state. *)
OnConnectedAlways(s) == state' = [state EXCEPT ![s] = "connected"]
OnConnected(s) == state' = [state EXCEPT ![s] = IF @ = "active" THEN "connected" ELSE @]

(* Accept returns the client's connection to the accept loop ... *)
Accept(s) ==
    /\ gk[s] = "listening"
    /\ conn[s] = "none"
    /\ conn' = [conn EXCEPT ![s] = "accepted"]
    /\ UNCHANGED <<managerVars, createVars, procVars, state, gk, term, monitor, drain>>

(* ... which adds it to clientConns and to activeConns and starts the handler, *)
(* without a look at closed.                                                   *)
Track(s) ==
    /\ conn[s] = "accepted"
    /\ conn' = [conn EXCEPT ![s] = "handled"]
    /\ UNCHANGED <<managerVars, createVars, procVars, state, gk, term, monitor, drain>>

(* The handler consumes the token, reaches the proxy's port and bridges. *)
Connect(s) ==
    /\ conn[s] \in {"handled", "cut"}
    /\ DialAnswered(s)
    /\ conn' = [conn EXCEPT ![s] = IF @ = "cut" THEN "closing" ELSE "open"]
    /\ OnConnected(s)
    /\ UNCHANGED <<managerVars, createVars, procVars, gk, term, monitor, drain>>

(* No packet in time, an unusable one, a token that is not valid, or no proxy. *)
ConnectFails(s) ==
    /\ conn[s] \in {"handled", "cut"}
    /\ conn' = [conn EXCEPT ![s] = "gone"]
    /\ UNCHANGED <<managerVars, createVars, procVars, state, gk, term, monitor, drain>>

ClientLeaves(s) ==
    /\ conn[s] = "open"
    /\ conn' = [conn EXCEPT ![s] = "closing"]
    /\ UNCHANGED <<managerVars, createVars, procVars, state, gk, term, monitor, drain>>

(* The client's side is closed. bridge returns when its second copy does: *)
(* when the proxy closes its side too.                                    *)
ProxyHangsUp(s) ==
    /\ conn[s] = "closing"
    /\ conn' = [conn EXCEPT ![s] = "gone"]
    /\ UNCHANGED <<managerVars, createVars, procVars, state, gk, term, monitor, drain>>

Serve(s) ==
    \/ Listen(s)  \/ Publish(s)
    \/ Accept(s)  \/ Track(s)
    \/ Connect(s) \/ ConnectFails(s)
    \/ ClientLeaves(s) \/ ProxyHangsUp(s)

-----------------------------------------------------------------------------
(* TerminateSession *)

(* A call finds the session and is the first to do so. *)
(* Mutant: a second call goes ahead too.               *)
TerminableAgain(s) == s \in sessions
Terminable(s) == s \in sessions /\ state[s] \notin {"terminating", "terminated"}

MarkTerminating(s) ==
    /\ state' = [state EXCEPT ![s] = "terminating"]
    /\ term' = [term EXCEPT ![s] = "marked"]

(* DELETE /api/sessions/{id}, or the revocation of the user's access. *)
ApiTerminate(s) ==
    /\ Terminable(s)
    /\ MarkTerminating(s)
    /\ UNCHANGED <<managerVars, createVars, procVars, gk, conn, monitor, drain>>

(* close(stopMonitor), then Gatekeeper.Stop up to its Wait: the connections in *)
(* clientConns are closed, under handlers that may not have reached the proxy. *)
StopGatekeeper(s) ==
    /\ term[s] = "marked"
    /\ gk' = [gk EXCEPT ![s] = IF @ = "listening" THEN "closed" ELSE @]
    /\ conn' = [conn EXCEPT ![s] = CASE @ = "handled" -> "cut"
                                      [] @ = "open" -> "closing"
                                      [] OTHER -> @]
    /\ term' = [term EXCEPT ![s] = "stopping"]
    /\ UNCHANGED <<managerVars, createVars, procVars, state, monitor, drain>>

(* activeConns.Wait() returns once the handlers that were counted are done. *)
HandlersDone(s) == conn[s] \notin {"handled", "cut", "open", "closing"}

KillProxy(s) ==
    /\ term[s] = "stopping"
    /\ HandlersDone(s)
    /\ StopProxy(s)
    /\ term' = [term EXCEPT ![s] = "killed"]
    /\ UNCHANGED <<managerVars, createVars, proc, state, gk, conn, monitor, drain>>

(* Release, then CleanupSession. *)
ReleasePort(s) ==
    /\ term[s] = "killed"
    /\ Release(port[s])
    /\ RemoveConfig(s)
    /\ term' = [term EXCEPT ![s] = "released"]
    /\ UNCHANGED <<sessions, history, shutdown, pc, port, procVars, state, gk, conn, monitor, drain>>

Unregister(s) ==
    /\ term[s] = "released"
    /\ state' = [state EXCEPT ![s] = "terminated"]
    /\ sessions' = sessions \ {s}
    /\ history' = history \cup {s}
    /\ term' = [term EXCEPT ![s] = "done"]
    /\ UNCHANGED <<shutdown, inUse, createVars, procVars, gk, conn, monitor, drain>>

Terminate(s) ==
    \/ ApiTerminate(s)
    \/ StopGatekeeper(s) \/ KillProxy(s) \/ ReleasePort(s) \/ Unregister(s)

-----------------------------------------------------------------------------
(* monitor and the goroutine that waits for the process *)

Reap(s) ==
    /\ monitor[s] # "none"
    /\ proc[s] = "exited"
    /\ proc' = [proc EXCEPT ![s] = "reaped"]
    /\ UNCHANGED <<managerVars, createVars, killed, state, gk, conn, term, monitor, drain>>

MonitorStopped(s) ==
    /\ monitor[s] = "watching"
    /\ GatekeeperClosed(s)
    /\ monitor' = [monitor EXCEPT ![s] = "done"]
    /\ UNCHANGED <<managerVars, createVars, procVars, state, gk, conn, term, drain>>

(* processDone or the timer wakes the monitor: it calls TerminateSession, *)
(* and may find that it is not the first.                                 *)
MonitorTerminates(s) ==
    /\ monitor[s] = "watching"
    /\ monitor' = [monitor EXCEPT ![s] = "done"]
    /\ IF Terminable(s) THEN MarkTerminating(s) ELSE UNCHANGED <<state, term>>
    /\ UNCHANGED <<managerVars, createVars, procVars, gk, conn, drain>>

(* Mutant: the monitor returns without terminating. *)
ProcessDoneOnlyLogged(s) ==
    /\ proc[s] = "reaped"
    /\ monitor[s] = "watching"
    /\ monitor' = [monitor EXCEPT ![s] = "done"]
    /\ UNCHANGED <<managerVars, createVars, procVars, state, gk, conn, term, drain>>
ProcessDone(s) == proc[s] = "reaped" /\ MonitorTerminates(s)

MaxDurationReached(s) == MonitorTerminates(s)

Monitor(s) ==
    \/ Reap(s) \/ MonitorStopped(s) \/ ProcessDone(s) \/ MaxDurationReached(s)

-----------------------------------------------------------------------------
(* Shutdown *)

Shutdown ==
    /\ shutdown = "running"
    /\ shutdown' = "draining"
    /\ drain' = [s \in Sessions |-> IF s \in sessions THEN "queued" ELSE "none"]
    /\ UNCHANGED <<sessions, history, inUse, createVars, procVars, state, gk, conn, term, monitor>>

(* The goroutine's call wins and works, or loses and returns nil at once. *)
DrainTerminates(s) ==
    /\ drain[s] = "queued"
    /\ IF Terminable(s)
         THEN MarkTerminating(s) /\ drain' = [drain EXCEPT ![s] = "working"]
         ELSE UNCHANGED <<state, term>> /\ drain' = [drain EXCEPT ![s] = "done"]
    /\ UNCHANGED <<managerVars, createVars, procVars, gk, conn, monitor>>

(* wg.Wait(): every goroutine's call has returned. At the deadline Shutdown  *)
(* returns without it, and leaves the goroutines and the manager as they are. *)
(* Mutant: a call that loses never reaches wg.Done.                           *)
DrainedByWinners ==
    \A s \in Sessions : drain[s] # "none" => drain[s] = "working" /\ term[s] = "done"
Drained == \A s \in Sessions : drain[s] # "queued" /\ (drain[s] = "working" => term[s] = "done")

ShutdownReturns ==
    /\ shutdown = "draining"
    /\ Drained
    /\ shutdown' = "drained"
    /\ UNCHANGED <<sessions, history, inUse, createVars, procVars, state, gk, conn, term, monitor, drain>>

-----------------------------------------------------------------------------
(* The freerdp-proxy process, as src/ relies on it *)

CanListen(s) == s \in secrets /\ ~PortBound(InternalPort(port[s]))

(* It reads proxy.ini and listens on its internal port ... *)
ProxyListens(s) ==
    /\ proc[s] = "starting"
    /\ s \notin killed
    /\ CanListen(s)
    /\ proc' = [proc EXCEPT ![s] = "listening"]
    /\ UNCHANGED <<managerVars, createVars, killed, state, gk, conn, term, monitor, drain>>

(* ... or exits, when the file is gone or the port is taken. *)
ProxyGivesUp(s) ==
    /\ proc[s] = "starting"
    /\ ~CanListen(s)
    /\ proc' = [proc EXCEPT ![s] = "exited"]
    /\ UNCHANGED <<managerVars, createVars, killed, state, gk, conn, term, monitor, drain>>

(* A killed process is gone some time after the signal. *)
ProxyDies(s) ==
    /\ s \in killed
    /\ Running(s)
    /\ proc' = [proc EXCEPT ![s] = "exited"]
    /\ UNCHANGED <<managerVars, createVars, killed, state, gk, conn, term, monitor, drain>>

(* It may end by itself at any time. *)
ProxyCrashes(s) ==
    /\ s \notin killed
    /\ Running(s)
    /\ proc' = [proc EXCEPT ![s] = "exited"]
    /\ UNCHANGED <<managerVars, createVars, killed, state, gk, conn, term, monitor, drain>>

Process(s) == ProxyListens(s) \/ ProxyGivesUp(s) \/ ProxyDies(s) \/ ProxyCrashes(s)

-----------------------------------------------------------------------------
(* Every request was answered, Shutdown returned and all that was started ended. *)
Finished ==
    /\ shutdown = "drained"
    /\ \A s \in Sessions :
          /\ \/ pc[s] = "failed"
             \/ pc[s] = "returned" /\ term[s] = "done"
          /\ ~Running(s)
          /\ gk[s] \notin {"starting", "bound", "listening"}
          /\ conn[s] \in {"none", "gone"}
          /\ monitor[s] \in {"none", "done"}
          /\ drain[s] # "queued"

Stopped == Finished /\ UNCHANGED vars

Next ==
    \/ \E s \in Sessions :
          Create(s) \/ Serve(s) \/ Terminate(s) \/ Monitor(s) \/ DrainTerminates(s) \/ Process(s)
    \/ Shutdown \/ ShutdownReturns
    \/ Stopped

Spec == Init /\ [][Next]_vars

(***************************************************************************)
(* Fairness. A goroutine that can take a step is eventually scheduled;     *)
(* WaitReady, the reading of the first packet and the dial have deadlines;  *)
(* the kernel delivers SIGKILL and closes the sockets of a dead process; a *)
(* process that was started either listens or exits. No request, crash,    *)
(* client or Shutdown need ever come.                                      *)
(***************************************************************************)
CreateProceeds(s) == pc[s] # "idle" /\ Create(s)
TerminateProceeds(s) == StopGatekeeper(s) \/ KillProxy(s) \/ ReleasePort(s) \/ Unregister(s)
MonitorProceeds(s) == MonitorStopped(s) \/ ProcessDone(s)

Fairness ==
    /\ \A s \in Sessions :
          /\ WF_vars(CreateProceeds(s))
          /\ WF_vars(Listen(s) \/ Publish(s))
          /\ WF_vars(Track(s))
          /\ WF_vars(Connect(s) \/ ConnectFails(s))
          /\ WF_vars(~DialAnswered(s) /\ ProxyHangsUp(s))
          /\ WF_vars(TerminateProceeds(s))
          /\ WF_vars(Reap(s))
          /\ WF_vars(MonitorProceeds(s))
          /\ WF_vars(DrainTerminates(s))
          /\ WF_vars(ProxyListens(s) \/ ProxyGivesUp(s))
          /\ WF_vars(ProxyDies(s))
    /\ WF_vars(ShutdownReturns)

(* time.After(time.Until(ExpiresAt)) fires. *)
Timers == \A s \in Sessions : WF_vars(MaxDurationReached(s))

(* A proxy whose client is gone closes its side of the connection. *)
ProxiesHangUp == \A s \in Sessions : WF_vars(ProxyHangsUp(s))

(* A client that Stop did not find, so that Stop waits for it, leaves by itself. *)
LateClientsLeave == \A s \in Sessions : WF_vars(GatekeeperClosed(s) /\ ClientLeaves(s))

FairSpec == Spec /\ Fairness /\ ProxiesHangUp /\ LateClientsLeave

-----------------------------------------------------------------------------
(* Safety *)

(***************************************************************************)
(* PortLease: the pool's inUse set is exactly the ports of the sessions    *)
(* between their Allocate and their Release, and no two of those sessions  *)
(* have the same port. Every error return of CreateSession releases, the   *)
(* racing TerminateSession calls release once: a second Release would free *)
(* a port that is already another session's.                               *)
(***************************************************************************)
PortLease ==
    /\ inUse = {port[s] : s \in Holders}
    /\ \A s, t \in Holders : port[s] = port[t] => s = t

(***************************************************************************)
(* ProxyWithinLease: a freerdp-proxy process nobody has killed belongs to  *)
(* a session that still owns its port pair: no path gives the pair back    *)
(* and leaves a live process on it.                                        *)
(***************************************************************************)
ProxyWithinLease == \A s \in Sessions : Running(s) /\ s \notin killed => Holds(s)

(***************************************************************************)
(* ListenerWithinLease: a gatekeeper that accepts connections belongs to a *)
(* session that still owns its port, however late its goroutine ran: one   *)
(* that listens after Stop must notice and close.                          *)
(***************************************************************************)
ListenerWithinLease == \A s \in Sessions : gk[s] = "listening" => Holds(s)

(* No internal port is also an external one, as with the default offset of 11000. *)
PortsApart == EndPort - StartPort < InternalOffset

(***************************************************************************)
(* PortsOwn: what answers on the ports of a session that owns them. Behind *)
(* the internal port, which WaitReady and the handlers dial, it is the     *)
(* session's own proxy or one that was killed and is not gone yet: the     *)
(* port is released without a wait for the process. What listens on the    *)
(* external port is its own gatekeeper or one whose goroutine was late and *)
(* is about to close; a Start that fails meets one of these.               *)
(***************************************************************************)
PortsOwn ==
    \A s \in Holders :
        /\ PortBound(InternalPort(port[s])) =>
              \/ proc[s] = "listening"
              \/ \E t \in killed : proc[t] = "listening" /\ port[t] = port[s]
        /\ PortBound(port[s]) =>
              \/ gk[s] \in {"bound", "listening"}
              \/ \E t \in Sessions \ Holders : gk[t] = "bound" /\ port[t] = port[s]

(***************************************************************************)
(* SecretsOffDisk: a password is on disk only while CreateSession waits    *)
(* for the proxy that reads it, except that a failed WriteConfig leaves    *)
(* what it wrote.                                                          *)
(***************************************************************************)
SecretsOffDisk ==
    \A s \in secrets : pc[s] \in {"started", "ready"} \/ (pc[s] = "failed" /\ proc[s] = "none")

Rank == [none |-> 0, creating |-> 1, active |-> 2, connected |-> 3,
         terminating |-> 4, terminated |-> 5]

(***************************************************************************)
(* LifecycleForward: the state a client, ListSessions and the guard of     *)
(* TerminateSession read only moves forward, whichever of the request, the *)
(* handler's OnConnected, the monitor, the API and Shutdown writes it.     *)
(***************************************************************************)
LifecycleForward == [][\A s \in Sessions : Rank[state[s]] <= Rank[state'[s]]]_vars

-----------------------------------------------------------------------------
(* The inductive invariant behind the safety properties: how the variables *)
(* of one session's goroutines constrain each other.                       *)

StateAgrees(s) ==
    /\ pc[s] \in {"idle", "checked"} => state[s] = "none"
    /\ pc[s] \in {"allocated", "started", "ready"} => state[s] = "creating"
    /\ pc[s] = "returned" => state[s] \in {"active", "connected", "terminating", "terminated"}

TermAgrees(s) ==
    /\ s \in sessions <=> pc[s] = "returned" /\ term[s] # "done"
    /\ term[s] # "none" => pc[s] = "returned"
    /\ state[s] = "terminating" <=> term[s] \in {"marked", "stopping", "killed", "released"}
    /\ state[s] = "terminated" <=> term[s] = "done"

GatekeeperAgrees(s) ==
    /\ gk[s] # "none" => pc[s] = "returned"
    /\ gk[s] = "listening" => ~GatekeeperClosed(s)

ProcessAgrees(s) ==
    /\ proc[s] # "none" => pc[s] \in {"started", "ready", "returned", "failed"}
    /\ Running(s) /\ s \notin killed =>
          \/ pc[s] \in {"started", "ready"}
          \/ pc[s] = "returned" /\ term[s] \in {"none", "marked", "stopping"}
    /\ s \in secrets => pc[s] \in {"started", "ready"} \/ (pc[s] = "failed" /\ proc[s] = "none")

Agrees(s) == StateAgrees(s) /\ TermAgrees(s) /\ GatekeeperAgrees(s) /\ ProcessAgrees(s)

IndInv == TypeOK /\ PortLease /\ \A s \in Sessions : Agrees(s)

-----------------------------------------------------------------------------
(* Refinement *)

PhaseOf(s) ==
    CASE pc[s] \in {"idle", "checked"}         -> "new"
      [] pc[s] = "failed"                      -> "over"
      [] pc[s] = "returned" /\ term[s] = "none" -> "live"
      [] pc[s] = "returned" /\ term[s] \in {"marked", "stopping", "killed"} -> "closing"
      [] pc[s] = "returned" /\ term[s] \in {"released", "done"} -> "over"
      [] OTHER                                 -> "leased"

(***************************************************************************)
(* Lease: the manager implements SessionLease, the promise that a session  *)
(* goes from new through leased, live and closing to over, holding one     *)
(* port that nobody else holds.                                            *)
(***************************************************************************)
Lease == INSTANCE SessionLease
            WITH phase <- [s \in Sessions |-> PhaseOf(s)],
                 lease <- {<<port[s], s>> : s \in Holders}

ImplementsLease == Lease!Spec

-----------------------------------------------------------------------------
(* Liveness *)

(***************************************************************************)
(* DeadProxyEnds: a session whose process has ended, for whatever reason   *)
(* ends too; no timer is needed, and of the client only that it leaves if  *)
(* Stop did not find it.                                                   *)
(***************************************************************************)
DeadProxyEnds == \A s \in Sessions : (s \in sessions /\ ~Running(s)) ~> (s \in history)

(***************************************************************************)
(* PortReturns: every port handed out comes back to the pool, by an error  *)
(* return, a termination or the session's maximum duration, provided the   *)
(* timers fire and the proxies hang up on clients that left.               *)
(***************************************************************************)
PortReturns ==
    Timers /\ ProxiesHangUp => \A p \in Ports : (p \in inUse) ~> (p \notin inUse)

(***************************************************************************)
(* ShutdownCompletes: Shutdown's wait for its goroutines ends even without *)
(* its deadline, provided the proxies hang up on clients that left and     *)
(* late clients leave.                                                     *)
(***************************************************************************)
ShutdownCompletes == (shutdown = "draining") ~> (shutdown = "drained")

-----------------------------------------------------------------------------
(* What the repository says of the manager and the code does not keep *)

(***************************************************************************)
(* WithinLimit: never more than MaxConcurrentSessions sessions             *)
(* ("maximum concurrent sessions reached").                                *)
(***************************************************************************)
WithinLimit == Cardinality(sessions) <= MaxConcurrentSessions

(***************************************************************************)
(* ReadyIsOwnProxy: WaitReady returns nil when the session's own proxy is  *)
(* ready, so that proxy.ini may be deleted.                                *)
(***************************************************************************)
ReadyIsOwnProxy ==
    [][\A s \in Sessions : pc[s] = "started" /\ pc'[s] = "ready" => proc[s] = "listening"]_vars
=============================================================================
