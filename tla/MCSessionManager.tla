-------------------------- MODULE MCSessionManager --------------------------
(* SessionManager for TLC: sessions are model values and interchangeable. *)
EXTENDS SessionManager, TLC

SessionSymmetry == Permutations(Sessions)

(* The liveness run leaves Shutdown out: it is never obliged to be called, *)
(* and the requests, crashes and clients that race each other remain.      *)
NextNoShutdown ==
    \E s \in Sessions :
        Create(s) \/ Serve(s) \/ Terminate(s) \/ Monitor(s) \/ Process(s)

(* The run of Shutdown leaves out what only ends a session or a connection *)
(* sooner: crashes, the maximum duration, requests that fail though the    *)
(* proxy runs, clients that leave before Stop. One client comes.           *)
NextDrain ==
    \/ \E s \in Sessions :
          \/ Admit(s) \/ Reject(s) \/ Allocate(s) \/ NoPortsAvailable(s)
          \/ StartProxy(s) \/ WaitReady(s) \/ Register(s)
          \/ proc[s] = "exited" /\ WaitReadyFails(s)
          \/ Terminate(s) \/ DrainTerminates(s)
          \/ Listen(s) \/ Publish(s) \/ Track(s) \/ Connect(s)
          \/ conn = [t \in Sessions |-> "none"] /\ Accept(s)
          \/ ~DialAnswered(s) /\ ConnectFails(s)
          \/ GatekeeperClosed(s) /\ ClientLeaves(s)
          \/ ProxyHangsUp(s)
          \/ Reap(s) \/ MonitorStopped(s) \/ ProcessDone(s)
          \/ ProxyListens(s) \/ ProxyGivesUp(s) \/ ProxyDies(s)
    \/ Shutdown \/ ShutdownReturns
    \/ Stopped

DrainSpec   == Init /\ [][NextDrain]_vars /\ Fairness /\ ProxiesHangUp /\ LateClientsLeave
ServeSpec   == Init /\ [][NextNoShutdown]_vars /\ Fairness /\ LateClientsLeave
=============================================================================
