---------------------------- MODULE AgentProofs ----------------------------
(***************************************************************************)
(* The invariants of Agent, for any sessions, recorders, chunks, changes   *)
(* of the resolution, logons and attempts.                                 *)
(***************************************************************************)
EXTENDS Agent, FiniteSetTheorems, TLAPS

Busy == {"called", "stopping", "stopped"}

(* The chunks on disk are numbered without a gap, and ffmpeg's next one follows them. *)
ChunksCounted == \A r \in Recorders : files[r] = 0 .. next[r] - 1

(* What the map of runAgent holds has been started; it is stopped only when it is taken from *)
(* the map, or at the end, and somebody waits for each Stop that has not returned.           *)
RecordersAgree ==
    /\ \A p \in recorders : watcher[p[2]] # "off"
    /\ \A r \in Recorders : watcher[r] = "off" => stop[r] = "no"
    /\ detector # "ended" => \A p \in recorders : stop[p[2]] = "no"
    /\ \A r \in Recorders : stop[r] \in Busy => r \in stopping

(* The sessions that have a recorder are those the detector knows, or has just called onLogon *)
(* for; those that are gone have none once it has called onLogoff.                            *)
DetectorAgrees ==
    /\ detector = "waiting" => called = {}
    /\ \A p \in starting :
          /\ detector = "calling" /\ watcher[p[2]] = "off"
          /\ p[1] \in called \cap currentMap /\ p[1] \notin activeSessions
    /\ \A p \in starting, q \in recorders : p[1] # q[1]
    /\ \A p, q \in starting : p = q
    /\ \A p \in recorders :
          \/ p[1] \in activeSessions /\ (detector = "calling" /\ p[1] \notin currentMap => p[1] \notin called)
          \/ detector = "calling" /\ p[1] \in currentMap \cap called

(* Nothing is recorded before the broker has answered, and the detector runs as long as the *)
(* service does.                                                                            *)
ServiceAgrees ==
    /\ service = "connecting" => attempt < MaxAttempts
    /\ service \in {"connecting", "failed"} =>
          recorders = {} /\ starting = {} /\ \A r \in Recorders : watcher[r] = "off"
    /\ detector = "calling" => service \in {"running", "stopping"}
    /\ detector = "ended" => service \in {"stopping", "stopped"}

IndInv ==
    /\ TypeOK /\ ChunksCounted
    /\ RecordersAgree /\ DetectorAgrees /\ ServiceAgrees
    /\ NoneForgotten /\ RecordingsEnded

-----------------------------------------------------------------------------
(* There are as many numbers below n as n. *)
LEMMA Below == ASSUME NEW n \in Nat PROVE Cardinality(0 .. n - 1) = n
<1>1. Cardinality(0 .. n - 1) = IF 0 > n - 1 THEN 0 ELSE n - 1 - 0 + 1
  BY FS_Interval
<1>2. QED
  BY <1>1

LEMMA Bounds ==
  /\ MaxChunks \in Nat /\ MaxRestarts \in Nat /\ MaxChanges \in Nat
  /\ MaxAttempts \in Nat /\ MaxAttempts > 0
BY ScreenAssumption, AgentAssumption

(* ffmpeg starts with the chunk that it would have begun anyway. *)
LEMMA Launches ==
  ASSUME ScreenTypeOK, ChunksCounted, NEW r \in Recorders, LaunchFFmpeg(r)
  PROVE  ffmpeg' = [ffmpeg EXCEPT ![r] = TRUE] /\ next' = next /\ open' = open
<1>1. next[r] \in Nat /\ next \in [Recorders -> 0 .. MaxChunks]
  BY Bounds DEF ScreenTypeOK
<1>2. Cardinality(files[r]) = next[r]
  BY <1>1, Below DEF ChunksCounted
<1>3. next' = [next EXCEPT ![r] = next[r]]
  BY <1>2 DEF LaunchFFmpeg
<1>4. QED
  BY <1>1, <1>3 DEF LaunchFFmpeg

(* What a screen recorder does by itself: it stays started, and a Stop goes its way. *)
LEMMA ScreenSteps ==
  ASSUME ScreenTypeOK, ChunksCounted, NEW r \in Recorders, Screen(r)
  PROVE  /\ ScreenTypeOK' /\ ChunksCounted'
         /\ \A q \in Recorders :
              /\ watcher'[q] = "off" <=> watcher[q] = "off"
              /\ stop'[q] = "no" <=> stop[q] = "no"
              /\ stop'[q] \in Busy => stop[q] \in Busy
              /\ HasStopped(q) => stop'[q] = stop[q]
<1> USE DEF ScreenTypeOK, Busy, HasStopped
<1>1. CASE BeginChunk(r)
  <2>1. next[r] < MaxChunks /\ next[r] \in Nat /\ MaxChunks \in Nat
    BY <1>1, Bounds DEF BeginChunk
  <2>2. next[r] \in 0 .. MaxChunks - 1 /\ next[r] + 1 \in 0 .. MaxChunks
    BY <2>1
  <2>3. (0 .. next[r] - 1) \cup {next[r]} = 0 .. (next[r] + 1) - 1
    BY <2>1
  <2>4. files' = [files EXCEPT ![r] = @ \cup {next[r]}] /\ next' = [next EXCEPT ![r] = @ + 1]
    BY <1>1 DEF BeginChunk
  <2>5. files'[r] = 0 .. next'[r] - 1
    BY <2>3, <2>4 DEF ChunksCounted
  <2>6. ChunksCounted'
    BY <2>4, <2>5 DEF ChunksCounted
  <2>7. ScreenTypeOK'
    BY <1>1, <2>2, <2>4 DEF BeginChunk
  <2>8. QED
    BY <1>1, <2>6, <2>7 DEF BeginChunk
<1>2. CASE FFmpegEnds(r)
  BY <1>2 DEF FFmpegEnds, ChunksCounted
<1>3. ASSUME NEW f, reported' = [reported EXCEPT ![r] = @ \cup Unreported(r, f)], f \subseteq files[r]
      PROVE  reported' \in [Recorders -> SUBSET (0 .. MaxChunks - 1)]
  <2>1. Unreported(r, f) \subseteq 0 .. MaxChunks - 1
    BY <1>3 DEF Unreported
  <2>2. QED
    BY <1>3, <2>1
<1>4. listChunks(r) \subseteq files[r] /\ Complete(listChunks(r)) \subseteq files[r]
  BY DEF listChunks, Complete
<1>5. CASE WatchTick(r)
  <2>1. reported' \in [Recorders -> SUBSET (0 .. MaxChunks - 1)]
    BY <1>3, <1>4, <1>5 DEF WatchTick
  <2>2. QED
    BY <1>5, <2>1 DEF WatchTick, ChunksCounted
<1>6. CASE WatchEnds(r)
  <2>1. reported' \in [Recorders -> SUBSET (0 .. MaxChunks - 1)]
    BY <1>3, <1>4, <1>6 DEF WatchEnds
  <2>2. QED
    BY <1>6, <2>1 DEF WatchEnds, ChunksCounted
<1>7. CASE ResolutionChanges(r)
  <2>1. restarts' \in 0 .. MaxRestarts
    <3>1. restarts < MaxRestarts /\ restarts' = restarts + 1 /\ restarts \in Nat
      BY <1>7, Bounds DEF ResolutionChanges
    <3>2. QED
      BY <3>1, Bounds
  <2>2. QED
    BY <1>7, <2>1 DEF ResolutionChanges, ChunksCounted
<1>8. CASE RestartLocks(r)
  BY <1>8 DEF RestartLocks, ChunksCounted
<1>9. CASE RestartLaunches(r)
  <2>1. ffmpeg' \in [Recorders -> BOOLEAN] /\ next' = next /\ open' = open
    BY <1>9, Launches DEF RestartLaunches
  <2>2. QED
    BY <1>9, <2>1 DEF RestartLaunches, ChunksCounted
<1>10. CASE MonitorEnds(r)
  BY <1>10 DEF MonitorEnds, ChunksCounted
<1>11. CASE StopLocks(r)
  BY <1>11 DEF StopLocks, ChunksCounted
<1>12. CASE StopCancels(r)
  BY <1>12 DEF StopCancels, ChunksCounted
<1>13. CASE StopReturns(r)
  BY <1>13 DEF StopReturns, ChunksCounted
<1>14. QED
  BY <1>1, <1>2, <1>5, <1>6, <1>7, <1>8, <1>9, <1>10, <1>11, <1>12, <1>13 DEF Screen, StopProceeds

-----------------------------------------------------------------------------
(* Every handler of the agent, and every step of a recorder, keeps the variables in their *)
(* sets, and ffmpeg's numbers without a gap.                                               *)
LEMMA TypesStay ==
  ASSUME IndInv, [Next]_vars
  PROVE  TypeOK' /\ ChunksCounted'
<1> USE DEF screenVars, agentVars, userVars, pollVars, TypeOK, ScreenTypeOK
<1>0. TypeOK /\ ChunksCounted /\ ServiceAgrees
  BY DEF IndInv
<1>1. ASSUME NEW w \in WindowsSessions, SessionChanges(w) PROVE TypeOK' /\ ChunksCounted'
  <2>1. changes' \in 0 .. MaxChanges
    <3>1. changes < MaxChanges /\ changes' = changes + 1 /\ changes \in Nat
      BY <1>0, <1>1, Bounds DEF SessionChanges
    <3>2. QED
      BY <3>1, Bounds
  <2>2. active' \subseteq WindowsSessions
    BY <1>0, <1>1 DEF SessionChanges
  <2>3. QED
    BY <1>0, <1>1, <2>1, <2>2 DEF SessionChanges, ChunksCounted
<1>2. ASSUME NEW w \in WindowsSessions, LogonFails(w) PROVE TypeOK' /\ ChunksCounted'
  BY <1>2, <1>0 DEF LogonFails, CallsNext, NewSessions, ChunksCounted
<1>3. ASSUME NEW w \in WindowsSessions, CreateRecording(w) PROVE TypeOK' /\ ChunksCounted'
  <2>1. PICK r \in Recorders : starting' = {<<w, r>>}
    <3>1. (CHOOSE r \in Unused : TRUE) \in Recorders
      BY <1>3 DEF CreateRecording, Unused
    <3>2. QED
      BY <1>3, <3>1 DEF CreateRecording
  <2>2. starting' \subseteq WindowsSessions \X Recorders /\ called' \subseteq WindowsSessions
    BY <1>0, <1>3, <2>1 DEF CreateRecording
  <2>3. QED
    BY <1>0, <1>3, <2>2 DEF CreateRecording, ChunksCounted
<1>4. ASSUME NEW w \in WindowsSessions, OnLogoff(w) PROVE TypeOK' /\ ChunksCounted'
  <2>1. stopping' = {p[2] : p \in {q \in recorders : q[1] = w}} /\ called' = called \cup {w}
        /\ recorders' = recorders \ {q \in recorders : q[1] = w}
    BY <1>4 DEF OnLogoff
  <2>2. stopping' \subseteq Recorders /\ recorders' \subseteq WindowsSessions \X Recorders
    BY <1>0, <2>1
  <2>3. UNCHANGED screenVars \/ \E r \in Recorders : CallStop(r)
    BY <1>0, <1>4 DEF OnLogoff
  <2>4. ScreenTypeOK' /\ ChunksCounted'
    BY <1>0, <2>3 DEF CallStop, ChunksCounted
  <2>5. QED
    BY <1>0, <1>4, <2>1, <2>2, <2>4 DEF OnLogoff
<1>5. ASSUME NEW r \in Recorders, RecorderStep(r) PROVE TypeOK' /\ ChunksCounted'
  <2>1. ScreenTypeOK' /\ ChunksCounted'
    BY <1>0, <1>5, ScreenSteps DEF RecorderStep
  <2>2. QED
    BY <1>0, <1>5, <2>1 DEF RecorderStep
<1>6. CASE HealthCheck
  <2>1. attempt' \in 0 .. MaxAttempts /\ service' \in {"connecting", "running", "failed"}
    <3>1. attempt < MaxAttempts /\ attempt \in Nat
      BY <1>0, <1>6, Bounds DEF HealthCheck, ServiceAgrees
    <3>2. attempt' \in {attempt, attempt + 1} /\ service' \in {"connecting", "running", "failed"}
      BY <1>6 DEF HealthCheck
    <3>3. QED
      BY <3>1, <3>2, Bounds
  <2>2. QED
    BY <1>0, <1>6, <2>1 DEF HealthCheck, ChunksCounted
<1>7. CASE StopControl
  BY <1>7, <1>0 DEF StopControl, ChunksCounted
<1>8. CASE Enumerate
  BY <1>8, <1>0 DEF Enumerate, ChunksCounted
<1>9. CASE StartRecorder
  <2>1. PICK p \in starting :
           \/ Start(p[2]) /\ recorders' = {q \in recorders : q[1] # p[1]} \cup {p} /\ UNCHANGED leftOpen
           \/ leftOpen' = leftOpen \cup {p[2]} /\ UNCHANGED <<screenVars, recorders>>
    BY <1>9 DEF StartRecorder
  <2>2. p \in WindowsSessions \X Recorders /\ p[2] \in Recorders
    BY <1>0
  <2>3. ScreenTypeOK' /\ ChunksCounted'
    <3>1. CASE Start(p[2])
      <4>1. ffmpeg' \in [Recorders -> BOOLEAN] /\ next' = next /\ open' = open
        BY <1>0, <2>2, <3>1, Launches DEF Start
      <4>2. QED
        BY <1>0, <2>2, <3>1, <4>1 DEF Start, ChunksCounted
    <3>2. CASE UNCHANGED screenVars
      BY <1>0, <3>2 DEF ChunksCounted
    <3>3. QED
      BY <2>1, <3>1, <3>2
  <2>4. recorders' \subseteq WindowsSessions \X Recorders /\ leftOpen' \subseteq Recorders
    BY <1>0, <2>1, <2>2
  <2>5. QED
    BY <1>0, <1>9, <2>3, <2>4 DEF StartRecorder
<1>10. CASE StopReturned
  BY <1>10, <1>0 DEF StopReturned, ChunksCounted
<1>11. CASE PollEnds
  BY <1>11, <1>0 DEF PollEnds, CallsNext, NewSessions, GoneSessions, ChunksCounted
<1>12. CASE RunEnds
  BY <1>12, <1>0 DEF RunEnds, ChunksCounted
<1>13. CASE StopsNext
  <2>1. PICK p \in recorders : CallStop(p[2]) /\ stopping' = {p[2]}
    BY <1>13 DEF StopsNext
  <2>2. p[2] \in Recorders
    BY <1>0
  <2>3. QED
    BY <1>0, <1>13, <2>1, <2>2 DEF StopsNext, CallStop, ChunksCounted
<1>14. CASE AgentEnds
  BY <1>14, <1>0 DEF AgentEnds, ChunksCounted
<1>15. CASE UNCHANGED vars
  BY <1>15, <1>0 DEF vars, ChunksCounted
<1> HIDE DEF screenVars, agentVars, userVars, pollVars, TypeOK, ScreenTypeOK
<1>16. QED
  BY <1>1, <1>2, <1>3, <1>4, <1>5, <1>6, <1>7, <1>8, <1>9, <1>10, <1>11, <1>12, <1>13, <1>14, <1>15
  DEF Next, Agent, Call

(* A recorder is put into the map when it is started and taken out when its Stop is called, *)
(* and the detector's next call waits for that Stop.                                        *)
LEMMA RecordersStay ==
  ASSUME IndInv, [Next]_vars
  PROVE  RecordersAgree'
<1> USE DEF screenVars, agentVars, userVars, pollVars, RecordersAgree, Busy
<1>0. TypeOK /\ RecordersAgree /\ DetectorAgrees /\ ServiceAgrees
  BY DEF IndInv
<1>0a. ScreenTypeOK /\ ChunksCounted /\ recorders \subseteq WindowsSessions \X Recorders
       /\ starting \subseteq WindowsSessions \X Recorders /\ stopping \subseteq Recorders
       /\ watcher \in [Recorders -> {"off", "on", "ended"}]
       /\ stop \in [Recorders -> {"no", "called", "stopping", "stopped", "removed", "kept"}]
  BY DEF IndInv, TypeOK, ScreenTypeOK
<1>1. ASSUME NEW w \in WindowsSessions, SessionChanges(w) PROVE RecordersAgree'
  BY <1>1, <1>0, <1>0a DEF SessionChanges
<1>2. ASSUME NEW w \in WindowsSessions, LogonFails(w) PROVE RecordersAgree'
  BY <1>2, <1>0, <1>0a DEF LogonFails, CallsNext, NewSessions
<1>3. ASSUME NEW w \in WindowsSessions, CreateRecording(w) PROVE RecordersAgree'
  BY <1>3, <1>0, <1>0a DEF CreateRecording, CallsNext, NewSessions, Unused
<1>4. ASSUME NEW w \in WindowsSessions, OnLogoff(w) PROVE RecordersAgree'
  <2>1. /\ recorders' = recorders \ {p \in recorders : p[1] = w}
        /\ stopping' = {p[2] : p \in {q \in recorders : q[1] = w}}
        /\ stopping = {} /\ detector' = detector /\ detector = "calling"
    BY <1>4 DEF OnLogoff, CallsNext
  <2>2. CASE {p \in recorders : p[1] = w} = {}
    BY <1>0, <1>4, <2>1, <2>2 DEF OnLogoff
  <2>3. CASE {p \in recorders : p[1] = w} # {}
    <3>1. PICK p \in recorders : p[1] = w /\ CallStop(p[2])
      BY <1>4, <2>3 DEF OnLogoff
    <3>2. p[2] \in stopping' /\ p[2] \in Recorders /\ watcher[p[2]] # "off"
      BY <1>0, <1>0a, <2>1, <3>1
    <3>3. \A q \in recorders' : q \in recorders /\ q[2] # p[2]
      <4>1. NoneForgotten
        BY DEF IndInv
      <4>2. QED
        BY <2>1, <3>1, <4>1 DEF NoneForgotten
    <3>4. watcher' = watcher /\ stop' = [stop EXCEPT ![p[2]] = "called"]
      BY <3>1 DEF CallStop
    <3>5. QED
      BY <1>0, <1>0a, <2>1, <3>2, <3>3, <3>4
  <2>4. QED
    BY <2>2, <2>3
<1>5. ASSUME NEW r \in Recorders, RecorderStep(r) PROVE RecordersAgree'
  <2>1. /\ UNCHANGED agentVars
        /\ \A q \in Recorders :
              /\ watcher'[q] = "off" <=> watcher[q] = "off"
              /\ stop'[q] = "no" <=> stop[q] = "no"
              /\ stop'[q] \in Busy => stop[q] \in Busy
              /\ HasStopped(q) => stop'[q] = stop[q]
    BY <1>0, <1>0a, <1>5, ScreenSteps DEF RecorderStep
  <2>2. QED
    BY <1>0, <1>0a, <2>1 DEF RecordersAgree, Busy
<1>6. CASE HealthCheck
  BY <1>6, <1>0, <1>0a DEF HealthCheck
<1>7. CASE StopControl
  BY <1>7, <1>0, <1>0a DEF StopControl
<1>8. CASE Enumerate
  BY <1>8, <1>0, <1>0a DEF Enumerate
<1>9. CASE StartRecorder
  <2>1. PICK p \in starting :
           \/ Start(p[2]) /\ recorders' = {q \in recorders : q[1] # p[1]} \cup {p} /\ UNCHANGED leftOpen
           \/ leftOpen' = leftOpen \cup {p[2]} /\ UNCHANGED <<screenVars, recorders>>
    BY <1>9 DEF StartRecorder
  <2>2. p[2] \in Recorders /\ watcher[p[2]] = "off"
    BY <1>0, <1>0a DEF DetectorAgrees
  <2>3. UNCHANGED <<detector, stopping>>
    BY <1>9 DEF StartRecorder
  <2>4. CASE Start(p[2]) /\ recorders' = {q \in recorders : q[1] # p[1]} \cup {p}
    BY <1>0, <1>0a, <2>2, <2>3, <2>4 DEF Start
  <2>5. CASE UNCHANGED <<screenVars, recorders>>
    BY <1>0, <2>3, <2>5
  <2>6. QED
    BY <2>1, <2>4, <2>5
<1>10. CASE StopReturned
  BY <1>0, <1>0a, <1>10 DEF StopReturned, HasStopped
<1>11. CASE PollEnds
  BY <1>11, <1>0, <1>0a DEF PollEnds, CallsNext, NewSessions, GoneSessions
<1>12. CASE RunEnds
  BY <1>12, <1>0, <1>0a DEF RunEnds
<1>13. CASE StopsNext
  BY <1>13, <1>0, <1>0a DEF StopsNext, CallStop
<1>14. CASE AgentEnds
  BY <1>14, <1>0, <1>0a DEF AgentEnds
<1>15. CASE UNCHANGED vars
  BY <1>15, <1>0, <1>0a DEF vars
<1> HIDE DEF screenVars, agentVars, userVars, pollVars, RecordersAgree, Busy
<1>16. QED
  BY <1>1, <1>2, <1>3, <1>4, <1>5, <1>6, <1>7, <1>8, <1>9, <1>10, <1>11, <1>12, <1>13, <1>14, <1>15
  DEF Next, Agent, Call

(* Run calls onLogon only for sessions that are new, onLogoff for those that are gone, each *)
(* once in a poll, and has forgotten the difference when the poll ends.                      *)
LEMMA DetectorStays ==
  ASSUME IndInv, [Next]_vars
  PROVE  DetectorAgrees'
<1> USE DEF screenVars, agentVars, userVars, pollVars, DetectorAgrees
<1>0. TypeOK /\ RecordersAgree /\ DetectorAgrees /\ ServiceAgrees
  BY DEF IndInv
<1>0a. ScreenTypeOK /\ ChunksCounted /\ recorders \subseteq WindowsSessions \X Recorders
       /\ starting \subseteq WindowsSessions \X Recorders /\ stopping \subseteq Recorders
       /\ watcher \in [Recorders -> {"off", "on", "ended"}]
       /\ stop \in [Recorders -> {"no", "called", "stopping", "stopped", "removed", "kept"}]
  BY DEF IndInv, TypeOK, ScreenTypeOK
<1>1. ASSUME NEW w \in WindowsSessions, SessionChanges(w) PROVE DetectorAgrees'
  BY <1>1, <1>0, <1>0a DEF SessionChanges
<1>2. ASSUME NEW w \in WindowsSessions, LogonFails(w) PROVE DetectorAgrees'
  BY <1>2, <1>0, <1>0a DEF LogonFails, CallsNext, NewSessions
<1>3. ASSUME NEW w \in WindowsSessions, CreateRecording(w) PROVE DetectorAgrees'
  <2>1. PICK r \in Recorders : starting' = {<<w, r>>} /\ watcher[r] = "off"
    <3>1. (CHOOSE r \in Unused : TRUE) \in Unused
      BY <1>3 DEF CreateRecording
    <3>2. QED
      BY <1>3, <3>1 DEF CreateRecording, Unused
  <2>2. /\ w \in currentMap /\ w \notin activeSessions /\ w \notin called /\ detector = "calling"
        /\ called' = called \cup {w}
        /\ UNCHANGED <<screenVars, detector, activeSessions, currentMap, recorders>>
    BY <1>3 DEF CreateRecording, CallsNext, NewSessions
  <2>3. \A q \in recorders : q[1] # w
    BY <1>0, <2>2
  <2>4. QED
    BY <1>0, <2>1, <2>2, <2>3
<1>4. ASSUME NEW w \in WindowsSessions, OnLogoff(w) PROVE DetectorAgrees'
  <2>1. /\ recorders' = recorders \ {p \in recorders : p[1] = w} /\ called' = called \cup {w}
        /\ starting = {} /\ starting' = {} /\ UNCHANGED <<detector, activeSessions, currentMap>>
        /\ detector = "calling"
    BY <1>4 DEF OnLogoff, CallsNext
  <2>2. QED
    BY <1>0, <2>1
<1>5. ASSUME NEW r \in Recorders, RecorderStep(r) PROVE DetectorAgrees'
  <2>1. /\ UNCHANGED agentVars
        /\ \A q \in Recorders :
              /\ watcher'[q] = "off" <=> watcher[q] = "off"
              /\ stop'[q] = "no" <=> stop[q] = "no"
              /\ stop'[q] \in Busy => stop[q] \in Busy
              /\ HasStopped(q) => stop'[q] = stop[q]
    BY <1>0, <1>0a, <1>5, ScreenSteps DEF RecorderStep
  <2>2. QED
    BY <1>0, <1>0a, <2>1 DEF DetectorAgrees
<1>6. CASE HealthCheck
  BY <1>6, <1>0, <1>0a DEF HealthCheck
<1>7. CASE StopControl
  BY <1>7, <1>0, <1>0a DEF StopControl
<1>8. CASE Enumerate
  <2>1. /\ detector = "waiting" /\ detector' = "calling" /\ called' = {} /\ called = {}
        /\ UNCHANGED <<screenVars, activeSessions, starting, recorders>>
    BY <1>0, <1>8 DEF Enumerate
  <2>2. QED
    BY <1>0, <2>1
<1>9. CASE StartRecorder
  <2>1. PICK p \in starting :
           \/ Start(p[2]) /\ recorders' = {q \in recorders : q[1] # p[1]} \cup {p} /\ UNCHANGED leftOpen
           \/ leftOpen' = leftOpen \cup {p[2]} /\ UNCHANGED <<screenVars, recorders>>
    BY <1>9 DEF StartRecorder
  <2>2. starting' = {} /\ UNCHANGED pollVars
    BY <1>9 DEF StartRecorder
  <2>3. QED
    BY <1>0, <2>1, <2>2
<1>10. CASE StopReturned
  BY <1>10, <1>0, <1>0a DEF StopReturned
<1>11. CASE PollEnds
  BY <1>11, <1>0, <1>0a DEF PollEnds, CallsNext, NewSessions, GoneSessions
<1>12. CASE RunEnds
  BY <1>12, <1>0, <1>0a DEF RunEnds
<1>13. CASE StopsNext
  BY <1>13, <1>0, <1>0a DEF StopsNext, CallStop
<1>14. CASE AgentEnds
  BY <1>14, <1>0, <1>0a DEF AgentEnds
<1>15. CASE UNCHANGED vars
  BY <1>15, <1>0, <1>0a DEF vars
<1> HIDE DEF screenVars, agentVars, userVars, pollVars, DetectorAgrees
<1>16. QED
  BY <1>1, <1>2, <1>3, <1>4, <1>5, <1>6, <1>7, <1>8, <1>9, <1>10, <1>11, <1>12, <1>13, <1>14, <1>15
  DEF Next, Agent, Call

(* runAgent goes on when a health check succeeded, and returns when the detector has. *)
LEMMA ServiceStays ==
  ASSUME IndInv, [Next]_vars
  PROVE  ServiceAgrees'
<1> USE DEF screenVars, agentVars, userVars, pollVars, ServiceAgrees
<1>0. TypeOK /\ RecordersAgree /\ DetectorAgrees /\ ServiceAgrees
  BY DEF IndInv
<1>0a. ScreenTypeOK /\ ChunksCounted /\ recorders \subseteq WindowsSessions \X Recorders
       /\ starting \subseteq WindowsSessions \X Recorders /\ stopping \subseteq Recorders
       /\ watcher \in [Recorders -> {"off", "on", "ended"}]
       /\ stop \in [Recorders -> {"no", "called", "stopping", "stopped", "removed", "kept"}]
  BY DEF IndInv, TypeOK, ScreenTypeOK
<1>1. ASSUME NEW w \in WindowsSessions, SessionChanges(w) PROVE ServiceAgrees'
  BY <1>1, <1>0, <1>0a DEF SessionChanges
<1>2. ASSUME NEW w \in WindowsSessions, LogonFails(w) PROVE ServiceAgrees'
  BY <1>2, <1>0, <1>0a DEF LogonFails, CallsNext, NewSessions
<1>3. ASSUME NEW w \in WindowsSessions, CreateRecording(w) PROVE ServiceAgrees'
  BY <1>0, <1>3 DEF CreateRecording
<1>4. ASSUME NEW w \in WindowsSessions, OnLogoff(w) PROVE ServiceAgrees'
  <2>1. /\ detector = "calling" /\ UNCHANGED <<service, attempt, detector, starting>>
    BY <1>4 DEF OnLogoff, CallsNext
  <2>2. QED
    BY <1>0, <2>1
<1>5. ASSUME NEW r \in Recorders, RecorderStep(r) PROVE ServiceAgrees'
  <2>1. /\ UNCHANGED agentVars
        /\ \A q \in Recorders :
              /\ watcher'[q] = "off" <=> watcher[q] = "off"
              /\ stop'[q] = "no" <=> stop[q] = "no"
              /\ stop'[q] \in Busy => stop[q] \in Busy
              /\ HasStopped(q) => stop'[q] = stop[q]
    BY <1>0, <1>0a, <1>5, ScreenSteps DEF RecorderStep
  <2>2. QED
    BY <1>0, <1>0a, <2>1 DEF ServiceAgrees
<1>6. CASE HealthCheck
  <2>1. attempt < MaxAttempts /\ attempt \in Nat /\ MaxAttempts \in Nat
    BY <1>0, <1>6, Bounds DEF HealthCheck, TypeOK
  <2>2. service' \in {"running", "failed", "connecting"} /\ (service' = "connecting" => attempt' < MaxAttempts)
    <3>1. CASE service' = "running" /\ attempt' = attempt
      BY <3>1
    <3>2. CASE attempt' = attempt + 1 /\ service' = IF attempt' = MaxAttempts THEN "failed" ELSE service
      BY <1>6, <2>1, <3>2 DEF HealthCheck
    <3>3. QED
      BY <1>6, <3>1, <3>2 DEF HealthCheck
  <2>3. QED
    BY <1>0, <1>6, <2>2 DEF HealthCheck, DetectorAgrees
<1>7. CASE StopControl
  BY <1>7, <1>0, <1>0a DEF StopControl
<1>8. CASE Enumerate
  BY <1>8, <1>0, <1>0a DEF Enumerate
<1>9. CASE StartRecorder
  <2>1. detector = "calling" /\ UNCHANGED <<service, attempt, detector>>
    BY <1>0, <1>9 DEF StartRecorder, DetectorAgrees
  <2>2. QED
    BY <1>0, <2>1
<1>10. CASE StopReturned
  BY <1>10, <1>0, <1>0a DEF StopReturned
<1>11. CASE PollEnds
  BY <1>11, <1>0, <1>0a DEF PollEnds, CallsNext, NewSessions, GoneSessions
<1>12. CASE RunEnds
  BY <1>12, <1>0, <1>0a DEF RunEnds
<1>13. CASE StopsNext
  <2>1. detector = "ended" /\ UNCHANGED <<service, attempt, detector, starting, recorders>>
    BY <1>13 DEF StopsNext
  <2>2. QED
    BY <1>0, <2>1
<1>14. CASE AgentEnds
  BY <1>14, <1>0, <1>0a DEF AgentEnds
<1>15. CASE UNCHANGED vars
  BY <1>15, <1>0, <1>0a DEF vars
<1> HIDE DEF screenVars, agentVars, userVars, pollVars, ServiceAgrees
<1>16. QED
  BY <1>1, <1>2, <1>3, <1>4, <1>5, <1>6, <1>7, <1>8, <1>9, <1>10, <1>11, <1>12, <1>13, <1>14, <1>15
  DEF Next, Agent, Call

(* onLogon puts what it starts into the map under a session that has nothing there. *)
LEMMA NoneForgottenStays ==
  ASSUME IndInv, [Next]_vars
  PROVE  NoneForgotten'
<1> USE DEF screenVars, agentVars, userVars, pollVars, NoneForgotten
<1>0. TypeOK /\ RecordersAgree /\ DetectorAgrees /\ NoneForgotten
  BY DEF IndInv
<1>0a. ScreenTypeOK /\ ChunksCounted /\ recorders \subseteq WindowsSessions \X Recorders
       /\ starting \subseteq WindowsSessions \X Recorders /\ stopping \subseteq Recorders
       /\ watcher \in [Recorders -> {"off", "on", "ended"}]
       /\ stop \in [Recorders -> {"no", "called", "stopping", "stopped", "removed", "kept"}]
  BY DEF IndInv, TypeOK, ScreenTypeOK
<1>1. ASSUME NEW w \in WindowsSessions, SessionChanges(w) PROVE NoneForgotten'
  BY <1>1, <1>0, <1>0a DEF SessionChanges
<1>2. ASSUME NEW w \in WindowsSessions, LogonFails(w) PROVE NoneForgotten'
  BY <1>2, <1>0, <1>0a DEF LogonFails, CallsNext, NewSessions
<1>3. ASSUME NEW w \in WindowsSessions, CreateRecording(w) PROVE NoneForgotten'
  BY <1>3, <1>0, <1>0a DEF CreateRecording, CallsNext, NewSessions, Unused
<1>4. ASSUME NEW w \in WindowsSessions, OnLogoff(w) PROVE NoneForgotten'
  <2>1. recorders' = recorders \ {p \in recorders : p[1] = w}
    BY <1>4 DEF OnLogoff
  <2>2. CASE {p \in recorders : p[1] = w} = {}
    BY <1>0, <1>4, <2>1, <2>2 DEF OnLogoff
  <2>3. CASE {p \in recorders : p[1] = w} # {}
    <3>1. PICK p \in recorders : p[1] = w /\ CallStop(p[2])
      BY <1>4, <2>3 DEF OnLogoff
    <3>2. p[2] \in Recorders
      BY <1>0a
    <3>3. watcher' = watcher /\ stop' = [stop EXCEPT ![p[2]] = "called"] /\ stop'[p[2]] = "called"
      BY <1>0a, <3>1, <3>2 DEF CallStop
    <3>4. ASSUME NEW r \in Recorders, watcher'[r] # "off", stop'[r] = "no"
          PROVE  \E v \in WindowsSessions : <<v, r>> \in recorders'
      <4>1. r # p[2] /\ watcher[r] # "off" /\ stop[r] = "no"
        BY <1>0a, <3>2, <3>3, <3>4
      <4>2. PICK v \in WindowsSessions : <<v, r>> \in recorders
        BY <1>0, <4>1
      <4>3. v # w
        BY <1>0, <3>1, <4>1, <4>2
      <4>4. QED
        BY <2>1, <4>2, <4>3
    <3>5. QED
      BY <1>0, <2>1, <3>4
  <2>4. QED
    BY <2>2, <2>3
<1>5. ASSUME NEW r \in Recorders, RecorderStep(r) PROVE NoneForgotten'
  <2>1. /\ UNCHANGED agentVars
        /\ \A q \in Recorders :
              /\ watcher'[q] = "off" <=> watcher[q] = "off"
              /\ stop'[q] = "no" <=> stop[q] = "no"
              /\ stop'[q] \in Busy => stop[q] \in Busy
              /\ HasStopped(q) => stop'[q] = stop[q]
    BY <1>0, <1>0a, <1>5, ScreenSteps DEF RecorderStep
  <2>2. QED
    BY <1>0, <1>0a, <2>1 DEF NoneForgotten
<1>6. CASE HealthCheck
  BY <1>6, <1>0, <1>0a DEF HealthCheck
<1>7. CASE StopControl
  BY <1>7, <1>0, <1>0a DEF StopControl
<1>8. CASE Enumerate
  BY <1>8, <1>0, <1>0a DEF Enumerate
<1>9. CASE StartRecorder
  <2>1. PICK p \in starting :
           \/ Start(p[2]) /\ recorders' = {q \in recorders : q[1] # p[1]} \cup {p} /\ UNCHANGED leftOpen
           \/ leftOpen' = leftOpen \cup {p[2]} /\ UNCHANGED <<screenVars, recorders>>
    BY <1>9 DEF StartRecorder
  <2>2. /\ p = <<p[1], p[2]>> /\ p[1] \in WindowsSessions /\ p[2] \in Recorders /\ watcher[p[2]] = "off"
        /\ \A q \in recorders : q[1] # p[1] /\ q[2] # p[2]
    BY <1>0, <1>0a DEF DetectorAgrees, RecordersAgree
  <2>3. CASE Start(p[2]) /\ recorders' = {q \in recorders : q[1] # p[1]} \cup {p}
    <3>1. recorders' = recorders \cup {<<p[1], p[2]>>}
      BY <2>2, <2>3
    <3>2. /\ stop' = stop /\ \A r \in Recorders \ {p[2]} : watcher'[r] = watcher[r]
      BY <1>0a, <2>3 DEF Start
    <3>3. \A r \in Recorders :
             watcher'[r] # "off" /\ stop'[r] = "no" => \E v \in WindowsSessions : <<v, r>> \in recorders'
      BY <1>0, <2>2, <3>1, <3>2
    <3>4. \A q, s \in recorders' : (q[1] = s[1]) <=> (q[2] = s[2])
      BY <1>0, <2>2, <2>3, <3>1
    <3>5. QED
      BY <3>3, <3>4
  <2>4. CASE UNCHANGED <<screenVars, recorders>>
    BY <1>0, <2>4
  <2>5. QED
    BY <2>1, <2>3, <2>4
<1>10. CASE StopReturned
  BY <1>10, <1>0, <1>0a DEF StopReturned
<1>11. CASE PollEnds
  BY <1>11, <1>0, <1>0a DEF PollEnds, CallsNext, NewSessions, GoneSessions
<1>12. CASE RunEnds
  BY <1>12, <1>0, <1>0a DEF RunEnds
<1>13. CASE StopsNext
  BY <1>13, <1>0, <1>0a DEF StopsNext, CallStop
<1>14. CASE AgentEnds
  BY <1>14, <1>0, <1>0a DEF AgentEnds
<1>15. CASE UNCHANGED vars
  BY <1>15, <1>0, <1>0a DEF vars
<1> HIDE DEF screenVars, agentVars, userVars, pollVars, NoneForgotten
<1>16. QED
  BY <1>1, <1>2, <1>3, <1>4, <1>5, <1>6, <1>7, <1>8, <1>9, <1>10, <1>11, <1>12, <1>13, <1>14, <1>15
  DEF Next, Agent, Call

(* runAgent returns when it has called Stop for all that is in its map, and the last returned. *)
LEMMA EndedStays ==
  ASSUME IndInv, [Next]_vars
  PROVE  RecordingsEnded'
<1> USE DEF screenVars, agentVars, userVars, pollVars, RecordingsEnded, HasStopped
<1>0. TypeOK /\ RecordersAgree /\ DetectorAgrees /\ ServiceAgrees /\ RecordingsEnded
  BY DEF IndInv
<1>0a. ScreenTypeOK /\ ChunksCounted /\ recorders \subseteq WindowsSessions \X Recorders
       /\ starting \subseteq WindowsSessions \X Recorders /\ stopping \subseteq Recorders
       /\ watcher \in [Recorders -> {"off", "on", "ended"}]
       /\ stop \in [Recorders -> {"no", "called", "stopping", "stopped", "removed", "kept"}]
  BY DEF IndInv, TypeOK, ScreenTypeOK
<1>1. ASSUME NEW w \in WindowsSessions, SessionChanges(w) PROVE RecordingsEnded'
  BY <1>1, <1>0, <1>0a DEF SessionChanges
<1>2. ASSUME NEW w \in WindowsSessions, LogonFails(w) PROVE RecordingsEnded'
  BY <1>2, <1>0, <1>0a DEF LogonFails, CallsNext, NewSessions
<1>3. ASSUME NEW w \in WindowsSessions, CreateRecording(w) PROVE RecordingsEnded'
  BY <1>3, <1>0, <1>0a DEF CreateRecording, CallsNext, NewSessions, Unused
<1>4. ASSUME NEW w \in WindowsSessions, OnLogoff(w) PROVE RecordingsEnded'
  <2>1. service # "stopped" /\ service' = service
    BY <1>0, <1>4 DEF OnLogoff, CallsNext, ServiceAgrees
  <2>2. QED
    BY <2>1
<1>5. ASSUME NEW r \in Recorders, RecorderStep(r) PROVE RecordingsEnded'
  <2>1. /\ UNCHANGED agentVars
        /\ \A q \in Recorders :
              /\ watcher'[q] = "off" <=> watcher[q] = "off"
              /\ stop'[q] = "no" <=> stop[q] = "no"
              /\ stop'[q] \in Busy => stop[q] \in Busy
              /\ HasStopped(q) => stop'[q] = stop[q]
    BY <1>0, <1>0a, <1>5, ScreenSteps DEF RecorderStep
  <2>2. QED
    BY <1>0, <1>0a, <2>1 DEF RecordingsEnded, HasStopped
<1>6. CASE HealthCheck
  BY <1>0, <1>6 DEF HealthCheck, ServiceAgrees
<1>7. CASE StopControl
  <2>1. service' = "stopped" => service = "connecting"
    BY <1>7 DEF StopControl
  <2>2. UNCHANGED <<watcher, stop>>
    BY <1>7 DEF StopControl
  <2>3. QED
    BY <1>0, <2>1, <2>2 DEF ServiceAgrees
<1>8. CASE Enumerate
  BY <1>8, <1>0, <1>0a DEF Enumerate
<1>9. CASE StartRecorder
  <2>1. service # "stopped" /\ service' = service
    BY <1>0, <1>9 DEF StartRecorder, DetectorAgrees, ServiceAgrees
  <2>2. QED
    BY <2>1
<1>10. CASE StopReturned
  BY <1>10, <1>0, <1>0a DEF StopReturned
<1>11. CASE PollEnds
  BY <1>11, <1>0, <1>0a DEF PollEnds, CallsNext, NewSessions, GoneSessions
<1>12. CASE RunEnds
  BY <1>12, <1>0, <1>0a DEF RunEnds
<1>13. CASE StopsNext
  <2>1. PICK p \in recorders : stop[p[2]] = "no" /\ CallStop(p[2]) /\ service' = service
    BY <1>13 DEF StopsNext
  <2>2. p[2] \in Recorders /\ watcher[p[2]] # "off"
    BY <1>0, <1>0a DEF RecordersAgree
  <2>3. service # "stopped"
    BY <1>0, <2>1, <2>2
  <2>4. QED
    BY <2>1, <2>3
<1>14. CASE AgentEnds
  <2>1. ASSUME NEW r \in Recorders, watcher[r] # "off" PROVE HasStopped(r)
    <3>1. stop[r] # "no"
      <4>1. NoneForgotten /\ \A p \in recorders : stop[p[2]] # "no"
        BY <1>14 DEF AgentEnds, IndInv
      <4>2. SUFFICES ASSUME stop[r] = "no" PROVE FALSE
        OBVIOUS
      <4>3. PICK v \in WindowsSessions : <<v, r>> \in recorders
        BY <2>1, <4>1, <4>2 DEF NoneForgotten
      <4>4. QED
        BY <4>1, <4>2, <4>3
    <3>2. stop[r] \notin Busy
      BY <1>0, <1>14 DEF AgentEnds, RecordersAgree
    <3>3. QED
      BY <1>0a, <3>1, <3>2 DEF Busy
  <2>2. UNCHANGED <<watcher, stop>>
    BY <1>14 DEF AgentEnds
  <2>3. QED
    BY <2>1, <2>2
<1>15. CASE UNCHANGED vars
  BY <1>15, <1>0, <1>0a DEF vars
<1> HIDE DEF screenVars, agentVars, userVars, pollVars, RecordingsEnded, HasStopped
<1>16. QED
  BY <1>1, <1>2, <1>3, <1>4, <1>5, <1>6, <1>7, <1>8, <1>9, <1>10, <1>11, <1>12, <1>13, <1>14, <1>15
  DEF Next, Agent, Call

-----------------------------------------------------------------------------
(* Before the first health check nothing is recorded. *)
LEMMA InitInv == ASSUME Init PROVE IndInv
<1>1. TypeOK
  <2>1. 0 \in 0 .. MaxChunks /\ 0 \in 0 .. MaxRestarts /\ 0 \in 0 .. MaxChanges /\ 0 \in 0 .. MaxAttempts
    BY Bounds
  <2>2. QED
    BY <2>1 DEF Init, ScreenInit, TypeOK, ScreenTypeOK
<1>2. ChunksCounted
  <2>1. 0 .. 0 - 1 = {}
    OBVIOUS
  <2>2. QED
    BY <2>1 DEF Init, ScreenInit, ChunksCounted
<1>3. RecordersAgree /\ DetectorAgrees /\ ServiceAgrees
  BY Bounds DEF Init, ScreenInit, RecordersAgree, DetectorAgrees, ServiceAgrees, Busy
<1>4. NoneForgotten /\ RecordingsEnded
  BY DEF Init, ScreenInit, NoneForgotten, RecordingsEnded
<1>5. QED
  BY <1>1, <1>2, <1>3, <1>4 DEF IndInv

LEMMA Inductive == Spec => []IndInv
<1>1. ASSUME IndInv, [Next]_vars PROVE IndInv'
  BY <1>1, TypesStay, RecordersStay, DetectorStays, ServiceStays, NoneForgottenStays, EndedStays DEF IndInv
<1>2. QED
  BY <1>1, InitInv, PTL DEF Spec

-----------------------------------------------------------------------------
(* The variables of the service, the detector and the screen recorders stay in their sets. *)
THEOREM TypeCorrect == Spec => []TypeOK
<1>1. IndInv => TypeOK
  BY DEF IndInv
<1>2. QED
  BY <1>1, Inductive, PTL

(* However often ffmpeg is started, ends by itself or is killed, it never begins a chunk *)
(* whose file exists: nextChunk counts files that are numbered without a gap.            *)
THEOREM ChunksKept == Spec => []NothingOverwritten
<1>1. ASSUME IndInv PROVE NothingOverwritten
  <2>1. ASSUME NEW r \in Recorders PROVE next[r] \notin files[r]
    <3>1. files[r] = 0 .. next[r] - 1 /\ next[r] \in Nat
      BY <1>1, Bounds DEF IndInv, ChunksCounted, TypeOK, ScreenTypeOK
    <3>2. QED
      BY <3>1
  <2>2. QED
    BY <2>1 DEF NothingOverwritten
<1>2. QED
  BY <1>1, Inductive, PTL

(* Sessions come and go between two polls, and numbers are used again; still every recorder *)
(* that runs is in the map of runAgent, under one session.                                  *)
THEOREM NoRecorderForgotten == Spec => []NoneForgotten
<1>1. IndInv => NoneForgotten
  BY DEF IndInv
<1>2. QED
  BY <1>1, Inductive, PTL

(* When runAgent has returned, Stop has returned for every recorder that was started. *)
THEOREM AllRecordingsEnded == Spec => []RecordingsEnded
<1>1. IndInv => RecordingsEnded
  BY DEF IndInv
<1>2. QED
  BY <1>1, Inductive, PTL

-----------------------------------------------------------------------------
(* What the watcher reports, where names have room for every chunk: without it chunk_1000.ts *)
(* comes before chunk_999.ts and none of the following holds.                                 *)

(* Then names are in the order of their numbers. *)
LEMMA NamesInOrder ==
  ASSUME NamesHaveRoom, NEW m \in 0 .. MaxChunks - 1, NEW n \in 0 .. MaxChunks - 1
  PROVE  NameLess(m, n) <=> m < n
<1>1. ASSUME NEW i \in 0 .. MaxChunks - 1 PROVE Digits(i) = Width
  <2>1. Width \in Width .. Width + i /\ Fits(i, Width) /\ \A j \in Width .. Width - 1 : ~Fits(i, j)
    BY ScreenAssumption, Bounds DEF NamesHaveRoom
  <2>2. ASSUME NEW k \in Width .. Width + i, \A j \in Width .. k - 1 : ~Fits(i, j) PROVE k = Width
    <3>1. k # Width => Width \in Width .. k - 1
      BY ScreenAssumption
    <3>2. QED
      BY <2>1, <2>2, <3>1
  <2>3. QED
    BY <2>1, <2>2 DEF Digits
<1>2. Digits(m) = Width /\ Digits(n) = Width /\ Width \in Nat
  BY <1>1, ScreenAssumption
<1>3. QED
  BY <1>2 DEF NameLess

(* The chunks reported are the first ones on disk: none was passed over. *)
NonePassedOver ==
    \A r \in Recorders :
        /\ reported[r] \subseteq files[r]
        /\ \A c \in reported[r], d \in files[r] : d < c => d \in reported[r]

(* Chunks come into being and are reported in three steps only. *)
LEMMA ChunkSteps ==
  ASSUME IndInv, [Next]_vars
  PROVE  \/ /\ UNCHANGED <<files, reported>>
            /\ \A r \in Recorders : watcher[r] = "on" => watcher'[r] # "ended"
         \/ \E r \in Recorders : BeginChunk(r) \/ WatchTick(r) \/ WatchEnds(r)
<1> DEFINE Same == /\ UNCHANGED <<files, reported>>
                   /\ \A r \in Recorders : watcher[r] = "on" => watcher'[r] # "ended"
<1>0. watcher \in [Recorders -> {"off", "on", "ended"}] /\ recorders \subseteq WindowsSessions \X Recorders
      /\ starting \subseteq WindowsSessions \X Recorders
  BY DEF IndInv, TypeOK, ScreenTypeOK
<1>1. UNCHANGED screenVars \/ UNCHANGED <<files, reported, watcher>> => Same
  BY <1>0 DEF screenVars
<1>2. ASSUME NEW r \in Recorders, Screen(r), ~(BeginChunk(r) \/ WatchTick(r) \/ WatchEnds(r)) PROVE Same
  <2>1. UNCHANGED <<files, reported, watcher>>
    BY <1>2 DEF Screen, FFmpegEnds, ResolutionChanges, RestartLocks, RestartLaunches, MonitorEnds,
                StopProceeds, StopLocks, StopCancels, StopReturns
  <2>2. QED
    BY <1>1, <2>1
<1>3. CASE StopControl
  BY <1>1, <1>3 DEF StopControl
<1>4. CASE Agent
  <2>1. CASE StartRecorder
    <3>1. PICK p \in starting : Start(p[2]) \/ UNCHANGED screenVars
      BY <2>1 DEF StartRecorder
    <3>2. CASE Start(p[2])
      <4>1. p[2] \in Recorders /\ UNCHANGED <<files, reported>> /\ watcher' = [watcher EXCEPT ![p[2]] = "on"]
        BY <1>0, <3>2 DEF Start
      <4>2. QED
        BY <1>0, <4>1
    <3>3. QED
      BY <1>1, <3>1, <3>2
  <2>2. CASE StopsNext
    BY <1>1, <2>2 DEF StopsNext, CallStop
  <2>3. CASE HealthCheck \/ Enumerate \/ StopReturned \/ PollEnds \/ RunEnds \/ AgentEnds
    BY <1>1, <2>3 DEF HealthCheck, Enumerate, StopReturned, PollEnds, RunEnds, AgentEnds
  <2>4. QED
    BY <1>4, <2>1, <2>2, <2>3 DEF Agent
<1>5. ASSUME NEW w \in WindowsSessions, SessionChanges(w) \/ Call(w) PROVE Same
  BY <1>1, <1>5 DEF SessionChanges, Call, LogonFails, CreateRecording, OnLogoff, CallStop
<1>6. CASE UNCHANGED vars
  BY <1>1, <1>6 DEF vars
<1>7. QED
  BY <1>2, <1>3, <1>4, <1>5, <1>6 DEF Next, RecorderStep

(* A look of the watcher at the directory, now and at the end. *)
LEMMA Reports ==
  ASSUME IndInv, NamesHaveRoom, NonePassedOver, NEW r \in Recorders,
         NEW chunks, chunks = Complete(listChunks(r)) \/ chunks = listChunks(r)
  PROVE  /\ Unreported(r, chunks) \subseteq files[r]
         /\ \A c \in Unreported(r, chunks), d \in files[r] :
               d < c => d \in reported[r] \cup Unreported(r, chunks)
<1>1. files[r] \subseteq 0 .. MaxChunks - 1 /\ reported[r] \subseteq files[r]
  BY DEF IndInv, TypeOK, ScreenTypeOK, NonePassedOver
<1>2. \A m, n \in files[r] : m \in Nat /\ n \in Nat /\ (NameLess(m, n) <=> m < n)
  BY <1>1, NamesInOrder
<1>3. listChunks(r) \subseteq files[r] /\ chunks \subseteq files[r]
  BY DEF listChunks, Complete
<1>4. ASSUME NEW c \in Unreported(r, chunks), NEW d \in files[r], d < c, d \notin reported[r]
      PROVE  d \in Unreported(r, chunks)
  <2>1. c \in chunks /\ c \in files[r] /\ listChunks(r) = files[r]
    BY <1>3 DEF Unreported, listChunks, Complete
  <2>2. d \in chunks
    <3>1. d \in Complete(listChunks(r))
      BY <1>2, <1>4, <2>1 DEF Complete
    <3>2. QED
      BY <2>1, <3>1
  <2>3. ASSUME NEW e \in reported[r] PROVE NameLess(e, d)
    <3>1. e \in files[r] /\ e # d /\ ~(d < e)
      BY <1>1, <1>4 DEF NonePassedOver
    <3>2. e < d
      BY <1>2, <3>1
    <3>3. QED
      BY <1>2, <3>1, <3>2
  <2>4. QED
    BY <2>2, <2>3 DEF Unreported
<1>5. QED
  BY <1>3, <1>4 DEF Unreported

LEMMA NonePassedStays ==
  ASSUME IndInv, NamesHaveRoom, NonePassedOver, [Next]_vars
  PROVE  NonePassedOver'
<1>0. /\ files \in [Recorders -> SUBSET (0 .. MaxChunks - 1)] /\ reported \in [Recorders -> SUBSET (0 .. MaxChunks - 1)]
      /\ \A r \in Recorders : files[r] = 0 .. next[r] - 1 /\ next[r] \in Nat
  BY Bounds DEF IndInv, TypeOK, ScreenTypeOK, ChunksCounted
<1>1. CASE UNCHANGED <<files, reported>>
  BY <1>1 DEF NonePassedOver
<1>2. ASSUME NEW r \in Recorders, BeginChunk(r) PROVE NonePassedOver'
  <2>1. files' = [files EXCEPT ![r] = @ \cup {next[r]}] /\ reported' = reported
    BY <1>2 DEF BeginChunk
  <2>2. \A c \in reported[r] : c \in Nat /\ c < next[r]
    BY <1>0 DEF NonePassedOver
  <2>3. QED
    BY <1>0, <2>1, <2>2 DEF NonePassedOver
<1>3. ASSUME NEW r \in Recorders, NEW chunks, chunks = Complete(listChunks(r)) \/ chunks = listChunks(r),
             files' = files, reported' = [reported EXCEPT ![r] = @ \cup Unreported(r, chunks)]
      PROVE  NonePassedOver'
  <2>1. reported'[r] = reported[r] \cup Unreported(r, chunks) /\ \A q \in Recorders \ {r} : reported'[q] = reported[q]
    BY <1>0, <1>3
  <2>2. QED
    BY <1>3, <2>1, Reports DEF NonePassedOver
<1>4. ASSUME NEW r \in Recorders, WatchTick(r) PROVE NonePassedOver'
  BY <1>3, <1>4 DEF WatchTick
<1>5. ASSUME NEW r \in Recorders, WatchEnds(r) PROVE NonePassedOver'
  BY <1>3, <1>5 DEF WatchEnds
<1>6. QED
  BY <1>1, <1>2, <1>4, <1>5, ChunkSteps

LEMMA InOrder == ASSUME NamesHaveRoom PROVE Spec => [](IndInv /\ NonePassedOver)
<1>1. Init => NonePassedOver
  BY DEF Init, ScreenInit, NonePassedOver
<1>2. IndInv /\ NonePassedOver /\ [Next]_vars => NonePassedOver'
  BY NonePassedStays
<1>3. QED
  BY <1>1, <1>2, Inductive, PTL DEF Spec

(* Whatever restarts ffmpeg, watchChunks gives onChunk no chunk that ffmpeg may still write. *)
THEOREM ChunksReportedWhole == ASSUME NamesHaveRoom PROVE Spec => ReportedWhole
<1> DEFINE Whole == \A r \in Recorders :
               watcher'[r] = "on" /\ open[r] => next[r] - 1 \notin reported'[r] \ reported[r]
<1>1. ASSUME IndInv, [Next]_vars PROVE Whole \/ UNCHANGED screenVars
  <2>0. /\ watcher \in [Recorders -> {"off", "on", "ended"}]
        /\ files \in [Recorders -> SUBSET (0 .. MaxChunks - 1)] /\ reported \in [Recorders -> SUBSET (0 .. MaxChunks - 1)]
        /\ \A r \in Recorders : files[r] = 0 .. next[r] - 1 /\ next[r] \in Nat
    BY <1>1, Bounds DEF IndInv, TypeOK, ScreenTypeOK, ChunksCounted
  <2>1. CASE UNCHANGED reported
    BY <2>1
  <2>2. ASSUME NEW r \in Recorders, WatchTick(r) PROVE Whole
    <3>1. next[r] - 1 \notin Complete(listChunks(r))
      <4>1. SUFFICES ASSUME NEW d \in files[r], next[r] - 1 \in files[r], NameLess(next[r] - 1, d) PROVE FALSE
        BY DEF Complete, listChunks
      <4>2. next[r] - 1 < d
        BY <2>0, <4>1, NamesInOrder
      <4>3. QED
        BY <2>0, <4>1, <4>2
    <3>2. reported' = [reported EXCEPT ![r] = @ \cup Unreported(r, Complete(listChunks(r)))]
      BY <2>2 DEF WatchTick
    <3>3. QED
      BY <2>0, <3>1, <3>2 DEF Unreported
  <2>3. ASSUME NEW r \in Recorders, WatchEnds(r) PROVE Whole
    <3>1. /\ watcher'[r] = "ended"
          /\ \A q \in Recorders \ {r} : reported'[q] = reported[q]
      BY <2>0, <2>3 DEF WatchEnds
    <3>2. QED
      BY <3>1
  <2>4. ASSUME NEW r \in Recorders, BeginChunk(r) PROVE UNCHANGED reported
    BY <2>4 DEF BeginChunk
  <2>5. QED
    BY <1>1, <2>1, <2>2, <2>3, <2>4, ChunkSteps
<1>2. QED
  BY <1>1, Inductive, PTL DEF Spec, ReportedWhole

(* Of a recorder that Stop has ended reportRemainingChunks reports what was left, so that *)
(* every chunk on disk has been given to onChunk.                                         *)
THEOREM AllChunksReported == ASSUME NamesHaveRoom PROVE Spec => AllReported
<1> DEFINE All == \A r \in Recorders :
               watcher[r] = "on" /\ watcher'[r] = "ended" /\ stop[r] = "stopped" => reported'[r] = files[r]
<1>1. ASSUME IndInv, NonePassedOver, [Next]_vars PROVE All \/ UNCHANGED screenVars
  <2>0. /\ watcher \in [Recorders -> {"off", "on", "ended"}]
        /\ files \in [Recorders -> SUBSET (0 .. MaxChunks - 1)] /\ reported \in [Recorders -> SUBSET (0 .. MaxChunks - 1)]
    BY <1>1 DEF IndInv, TypeOK, ScreenTypeOK
  <2>1. ASSUME NEW r \in Recorders, WatchEnds(r), stop[r] = "stopped" PROVE reported'[r] = files[r]
    <3>1. reported'[r] = reported[r] \cup Unreported(r, files[r])
      BY <2>0, <2>1 DEF WatchEnds, listChunks
    <3>2. ASSUME NEW c \in files[r], c \notin reported[r] PROVE c \in Unreported(r, files[r])
      <4>1. ASSUME NEW d \in reported[r] PROVE NameLess(d, c)
        <5>1. d \in files[r] /\ d # c /\ ~(c < d)
          BY <1>1, <3>2 DEF NonePassedOver
        <5>2. c \in 0 .. MaxChunks - 1 /\ d \in 0 .. MaxChunks - 1
          BY <2>0
        <5>3. d < c
          BY <5>1, <5>2, Bounds
        <5>4. QED
          BY <5>2, <5>3, NamesInOrder
      <4>2. QED
        BY <4>1 DEF Unreported
    <3>3. reported[r] \subseteq files[r] /\ Unreported(r, files[r]) \subseteq files[r]
      BY <1>1 DEF NonePassedOver, Unreported
    <3>4. QED
      BY <3>1, <3>2, <3>3
  <2>2. ASSUME NEW r \in Recorders, WatchEnds(r) PROVE All
    <3>1. \A q \in Recorders \ {r} : watcher'[q] = watcher[q]
      BY <2>0, <2>2 DEF WatchEnds
    <3>2. QED
      BY <2>1, <2>2, <3>1
  <2>3. ASSUME NEW r \in Recorders, BeginChunk(r) \/ WatchTick(r) PROVE All
    BY <2>3 DEF BeginChunk, WatchTick
  <2>4. QED
    BY <1>1, <2>2, <2>3, ChunkSteps
<1>2. QED
  BY <1>1, InOrder, PTL DEF Spec, AllReported
=============================================================================
