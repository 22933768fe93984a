------------------------------- MODULE Agent -------------------------------
(***************************************************************************)
(* The agent: the Windows service, runAgent, the detector that looks for   *)
(* sessions in intervals, and a recorder for each session it finds. The    *)
(* detector calls onLogon and onLogoff one after the other and waits for   *)
(* each; the service's context is the parent of every recorder's.          *)
(***************************************************************************)
EXTENDS ScreenRecorder

CONSTANTS WindowsSessions, \* session numbers, which Windows uses again
          MaxChanges,      \* bound: logons and logoffs
          MaxAttempts      \* health checks at the start

ASSUME AgentAssumption == MaxChanges \in Nat /\ MaxAttempts \in Nat \ {0}

VARIABLES service,        \* state of the service
          attempt,        \* health checks that failed
          active,         \* the sessions somebody is logged on to
          changes,        \* logons and logoffs so far
          activeSessions, \* the detector's
          currentMap,     \* what it just enumerated
          detector,       \* where Run is
          called,         \* sessions whose callback it made
          starting,       \* the session and the recorder that onLogon starts, if any
          recorders,      \* runAgent's map, a set of pairs
          stopping,       \* the recorder whose Stop is waited for, if any
          leftOpen        \* recorders that failed to start with their recording created

pollVars  == <<activeSessions, currentMap, detector, called>>
userVars  == <<active, changes>>
agentVars == <<service, attempt, userVars, pollVars, starting, recorders, stopping, leftOpen>>
vars == <<screenVars, agentVars>>

Init ==
    /\ ScreenInit
    /\ service = "connecting" /\ attempt = 0
    /\ active = {} /\ changes = 0
    /\ activeSessions = {} /\ currentMap = {}
    /\ detector = "waiting" /\ called = {}
    /\ starting = {} /\ recorders = {} /\ stopping = {} /\ leftOpen = {}

(* Users log on, and log off or disconnect. *)
SessionChanges(w) ==
    /\ changes < MaxChanges
    /\ changes' = changes + 1
    /\ active' = IF w \in active THEN active \ {w} ELSE active \cup {w}
    /\ UNCHANGED <<screenVars, service, attempt, pollVars, starting, recorders, stopping, leftOpen>>

-----------------------------------------------------------------------------
(* Execute, and the start of runAgent *)

(* Mutant: the last attempt is not counted as the last. *)
HealthCheckAgain ==
    /\ service = "connecting"
    /\ \/ service' = "running" /\ UNCHANGED attempt
       \/ /\ attempt' = attempt + 1
          /\ service' = IF attempt' > MaxAttempts THEN "failed" ELSE service
    /\ UNCHANGED <<screenVars, userVars, pollVars, starting, recorders, stopping, leftOpen>>
HealthCheck ==
    /\ service = "connecting"
    /\ \/ service' = "running" /\ UNCHANGED attempt
       \/ /\ attempt' = attempt + 1
          /\ service' = IF attempt' = MaxAttempts THEN "failed" ELSE service
    /\ UNCHANGED <<screenVars, userVars, pollVars, starting, recorders, stopping, leftOpen>>

(* A stop control. It cancels the context, and with it those of all recorders. *)
StopControl ==
    /\ service \in {"connecting", "running"}
    /\ service' = IF service = "running" THEN "stopping" ELSE "stopped"
    /\ ctxDone' = [r \in Recorders |-> TRUE]
    /\ UNCHANGED <<ffmpeg, next, open, files, reported, watcher, monitor, restarts, stop>>
    /\ UNCHANGED <<attempt, userVars, pollVars, starting, recorders, stopping, leftOpen>>

-----------------------------------------------------------------------------
(* Detector.Run *)

(* select may choose the ticker though the context is done. *)
Enumerate ==
    /\ service \in {"running", "stopping"} /\ detector = "waiting"
    /\ currentMap' = active
    /\ detector' = "calling"
    /\ UNCHANGED <<screenVars, service, attempt, userVars, activeSessions, called, starting, recorders, stopping, leftOpen>>

NewSessions  == (currentMap \ activeSessions) \ called
GoneSessions == (activeSessions \ currentMap) \ called
CallsNext    == detector = "calling" /\ starting = {} /\ stopping = {}

Unused == {r \in Recorders \ leftOpen : watcher[r] = "off"}

(* onLogon: CreateRecording fails ... *)
LogonFails(w) ==
    /\ CallsNext /\ w \in NewSessions
    /\ called' = called \cup {w}
    /\ UNCHANGED <<screenVars, service, attempt, userVars, activeSessions, currentMap, detector>>
    /\ UNCHANGED <<starting, recorders, stopping, leftOpen>>

(* ... or the broker has a recording now, and the screen recorder is started ... *)
CreateRecording(w) ==
    /\ CallsNext /\ w \in NewSessions
    /\ service = "running"
    /\ Unused # {}
    /\ starting' = {<<w, CHOOSE r \in Unused : TRUE>>}
    /\ called' = called \cup {w}
    /\ UNCHANGED <<screenVars, service, attempt, userVars, activeSessions, currentMap, detector, recorders, stopping, leftOpen>>

(* ... which may fail. *)
StartRecorder ==
    /\ \E p \in starting :
          \/ /\ Start(p[2])
             /\ recorders' = {q \in recorders : q[1] # p[1]} \cup {p}
             /\ UNCHANGED leftOpen
          \/ /\ leftOpen' = leftOpen \cup {p[2]}
             /\ UNCHANGED <<screenVars, recorders>>
    /\ starting' = {}
    /\ UNCHANGED <<service, attempt, userVars, pollVars, stopping>>

(* Mutant: the recorder is taken from the map and not stopped. *)
OnLogoffDrops(w) ==
    /\ CallsNext /\ NewSessions = {} /\ w \in GoneSessions
    /\ recorders' = {p \in recorders : p[1] # w}
    /\ called' = called \cup {w}
    /\ UNCHANGED <<screenVars, service, attempt, userVars, activeSessions, currentMap, detector>>
    /\ UNCHANGED <<starting, stopping, leftOpen>>
(* After the logons; a session whose recorder did not start has none. *)
OnLogoff(w) ==
    /\ CallsNext /\ NewSessions = {} /\ w \in GoneSessions
    /\ LET mine == {p \in recorders : p[1] = w} IN
          /\ recorders' = recorders \ mine
          /\ stopping' = {p[2] : p \in mine}
          /\ IF mine = {} THEN UNCHANGED screenVars ELSE \E p \in mine : CallStop(p[2])
    /\ called' = called \cup {w}
    /\ UNCHANGED <<service, attempt, userVars, activeSessions, currentMap, detector, starting, leftOpen>>

StopReturned ==
    /\ stopping # {} /\ \A r \in stopping : HasStopped(r)
    /\ stopping' = {}
    /\ UNCHANGED <<screenVars, service, attempt, userVars, pollVars, starting, recorders, leftOpen>>

(* Mutant: activeSessions is not brought up to date. *)
PollEndsStale ==
    /\ CallsNext /\ NewSessions = {} /\ GoneSessions = {}
    /\ detector' = "waiting"
    /\ called' = {} /\ currentMap' = {}
    /\ UNCHANGED <<screenVars, service, attempt, userVars, activeSessions, starting, recorders, stopping, leftOpen>>
PollEnds ==
    /\ CallsNext /\ NewSessions = {} /\ GoneSessions = {}
    /\ activeSessions' = currentMap
    /\ detector' = "waiting"
    /\ called' = {} /\ currentMap' = {}
    /\ UNCHANGED <<screenVars, service, attempt, userVars, starting, recorders, stopping, leftOpen>>

Call(w) == LogonFails(w) \/ CreateRecording(w) \/ OnLogoff(w)

-----------------------------------------------------------------------------
(* The end of runAgent *)

RunEnds ==
    /\ service = "stopping" /\ detector = "waiting"
    /\ detector' = "ended"
    /\ UNCHANGED <<screenVars, service, attempt, userVars, activeSessions, currentMap, called, starting, recorders, stopping, leftOpen>>

(* It stops the recorders of its map one after the other. *)
StopsNext ==
    /\ detector = "ended" /\ stopping = {}
    /\ \E p \in recorders :
          /\ stop[p[2]] = "no"
          /\ CallStop(p[2])
          /\ stopping' = {p[2]}
    /\ UNCHANGED <<service, attempt, userVars, pollVars, starting, recorders, leftOpen>>

(* Mutant: it does not wait for the last one. *)
AgentEndsEarly ==
    /\ service = "stopping" /\ detector = "ended"
    /\ \A p \in recorders : stop[p[2]] # "no"
    /\ service' = "stopped"
    /\ UNCHANGED <<screenVars, attempt, userVars, pollVars, starting, recorders, stopping, leftOpen>>
AgentEnds ==
    /\ service = "stopping" /\ detector = "ended" /\ stopping = {}
    /\ \A p \in recorders : stop[p[2]] # "no"
    /\ service' = "stopped"
    /\ UNCHANGED <<screenVars, attempt, userVars, pollVars, starting, recorders, stopping, leftOpen>>

Agent ==
    \/ HealthCheck
    \/ Enumerate \/ StartRecorder \/ StopReturned \/ PollEnds
    \/ RunEnds \/ StopsNext \/ AgentEnds

RecorderStep(r) == Screen(r) /\ UNCHANGED agentVars

Next ==
    \/ StopControl \/ Agent
    \/ \E w \in WindowsSessions : SessionChanges(w) \/ Call(w)
    \/ \E r \in Recorders : RecorderStep(r)

(* The goroutines are scheduled, a mutex that is free now and then is had, select does not    *)
(* choose the ticker for ever, ffmpeg ends within 10 seconds when it has to, and requests     *)
(* have deadlines. ffmpeg need not write, nor the user, the service manager or the broker act. *)
Fairness ==
    /\ WF_vars(HealthCheck) /\ WF_vars(Enumerate) /\ SF_vars(RunEnds)
    /\ WF_vars(StartRecorder) /\ WF_vars(StopReturned) /\ WF_vars(PollEnds)
    /\ WF_vars(StopsNext) /\ WF_vars(AgentEnds)
    /\ \A w \in WindowsSessions : WF_vars(Call(w))
    /\ \A r \in Recorders :
          /\ SF_vars(StopLocks(r) /\ UNCHANGED agentVars)
          /\ WF_vars((StopCancels(r) \/ StopReturns(r)) /\ UNCHANGED agentVars)
          /\ WF_vars(Held(r) /\ FFmpegEnds(r) /\ UNCHANGED agentVars)
          /\ WF_vars(RestartLaunches(r) /\ UNCHANGED agentVars)

Spec == Init /\ [][Next]_vars /\ Fairness

-----------------------------------------------------------------------------
(* Properties *)

TypeOK ==
    /\ ScreenTypeOK
    /\ service \in {"connecting", "running", "stopping", "stopped", "failed"}
    /\ attempt \in 0 .. MaxAttempts
    /\ active \subseteq WindowsSessions /\ changes \in 0 .. MaxChanges
    /\ activeSessions \subseteq WindowsSessions /\ currentMap \subseteq WindowsSessions
    /\ detector \in {"waiting", "calling", "ended"}
    /\ called \subseteq WindowsSessions
    /\ starting \subseteq WindowsSessions \X Recorders
    /\ recorders \subseteq WindowsSessions \X Recorders
    /\ stopping \subseteq Recorders /\ leftOpen \subseteq Recorders

(* A recorder that runs and that nobody has stopped is in the map under exactly one session,  *)
(* and no session has two: whoever ends it, the detector or the end of the agent, will find it. *)
NoneForgotten ==
    /\ \A r \in Recorders :
          watcher[r] # "off" /\ stop[r] = "no" => \E w \in WindowsSessions : <<w, r>> \in recorders
    /\ \A p, q \in recorders : (p[1] = q[1]) <=> (p[2] = q[2])

(* When the service has stopped every recording that it began is ended, but for those whose *)
(* screen recorder did not start.                                                            *)
RecordingsEnded ==
    service = "stopped" => \A r \in Recorders : watcher[r] = "off" \/ HasStopped(r)

(* The recorder of a session that ends is stopped, unless the session number is in use again. *)
LogoffStops ==
    \A w \in WindowsSessions, r \in Recorders :
        (<<w, r>> \in recorders /\ w \notin active) ~> (w \in active \/ HasStopped(r))

(* The service stops when it is asked to, whatever is being recorded. *)
ServiceStops == (service = "stopping") ~> (service = "stopped")
=============================================================================
