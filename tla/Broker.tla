------------------------------- MODULE Broker -------------------------------
(***************************************************************************)
(* The broker as a process: it starts, makes its certificate, serves, and  *)
(* shuts down, or crashes. While it serves, requests for sessions go from  *)
(* the token through the grant to a registered session, and access is      *)
(* granted and revoked next to them. The session manager is here what the  *)
(* handlers see of it; SessionManager has its goroutines.                  *)
(***************************************************************************)
EXTENDS AccessControl, Certificates, FiniteSets

CONSTANTS Requests,    \* POST /api/sessions
          Revocations, \* POST /api/revoke
          Who, Whose,  \* the address and host of each, as spelled
          MaxStarts,   \* bound: times the broker is started
          Binary,      \* FreerdpProxyBin
          Pattern      \* what pgrep looks for

ASSUME BrokerAssumption ==
    /\ MaxStarts \in Nat
    /\ Who \in [Requests -> Grant] /\ Whose \in [Revocations -> Grant]
    /\ Revocations \cap {"nobody", "api", "monitor", "shutdown"} = {}

VARIABLES phase,    \* of main
          starts,   \* times the broker was started
          expired,  \* shutdownCtx is done
          pc,       \* where each request, or the session it made, is
          from,     \* the grant it found
          killer,   \* who terminates the session
          ini,      \* proxy.ini is on disk
          running,  \* freerdp-proxy processes
          draining, \* the sessions Shutdown found
          call,     \* where each revocation is
          listed,   \* sessions it has still to look at
          \* for the properties
          asOf,     \* grants made when it revoked
          missed,   \* requests that had a grant and no session when it listed the sessions
          late,     \* requests that passed the test for shutdown before it came, and had no session yet
          cut       \* requests whose set-up was cut off: the broker went down, or proxy.ini was half written

mainVars    == <<phase, starts, expired, draining, late>>
requestVars == <<pc, from, killer, ini, running>>
callVars    == <<call, listed, asOf, missed>>
vars == <<storeVars, certVars, mainVars, requestVars, callVars, cut>>

SettingUp == {"configured", "started"}
Handled   == SettingUp \cup {"verified", "found"}

Serves    == phase \in {"serving", "draining"}
Up        == phase \in {"serving", "draining", "closing"}
Shutdown  == phase \in {"draining", "closing"}

Init ==
    /\ StoreInit /\ CertInit
    /\ phase = "stopped" /\ starts = 0 /\ expired = FALSE
    /\ pc = [r \in Requests |-> "idle"]
    /\ from = [r \in Requests |-> 0]
    /\ killer = [r \in Requests |-> "nobody"]
    /\ ini = {} /\ running = {} /\ draining = {}
    /\ call = [v \in Revocations |-> "idle"]
    /\ listed = [v \in Revocations |-> {}]
    /\ asOf = [v \in Revocations |-> 0]
    /\ missed = [v \in Revocations |-> {}]
    /\ late = {} /\ cut = {}

-----------------------------------------------------------------------------
(* A request for a session *)

Goes(r, here, there) == pc[r] = here /\ pc' = [pc EXCEPT ![r] = there]

(* ServeHTTP and Verify: the token is signed with a key of its subject's. *)
Verify(r) ==
    /\ Serves
    /\ GetPublicKeys(Who[r][1]) # {}
    /\ Goes(r, "idle", "verified")
    /\ UNCHANGED <<storeVars, certVars, mainVars, from, killer, ini, running, callVars, cut>>

(* Mutant: that there is no grant is not noticed. *)
FindsAnyGrant(r) ==
    /\ Up
    /\ Goes(r, "verified", "found")
    /\ from' = [from EXCEPT ![r] = FindGrant(Who[r][1], Who[r][2])]
    /\ UNCHANGED <<storeVars, certVars, mainVars, killer, ini, running, callVars, cut>>
FindsGrant(r) ==
    /\ Up
    /\ HasAccess(Who[r][1], Who[r][2])
    /\ Goes(r, "verified", "found")
    /\ from' = [from EXCEPT ![r] = FindGrant(Who[r][1], Who[r][2])]
    /\ UNCHANGED <<storeVars, certVars, mainVars, killer, ini, running, callVars, cut>>

(* Mutant: the manager does not look whether it is shut down. *)
AdmitAlways(r) ==
    /\ Up
    /\ Goes(r, "found", "configured")
    /\ ini' = ini \cup {r}
    /\ UNCHANGED <<storeVars, certVars, mainVars, from, killer, running, callVars, cut>>
(* The secret was resolved. The manager looks whether it is shut down; WriteConfig. *)
Admit(r) ==
    /\ Up /\ ~Shutdown
    /\ Goes(r, "found", "configured")
    /\ ini' = ini \cup {r}
    /\ UNCHANGED <<storeVars, certVars, mainVars, from, killer, running, callVars, cut>>

StartProxy(r) ==
    /\ Up
    /\ Goes(r, "configured", "started")
    /\ running' = running \cup {r}
    /\ UNCHANGED <<storeVars, certVars, mainVars, from, killer, ini, callVars, cut>>

(* Mutant: proxy.ini stays until the session ends. *)
RegisterKeepsConfig(r) ==
    /\ Up
    /\ Goes(r, "started", "active")
    /\ UNCHANGED <<storeVars, certVars, mainVars, from, killer, ini, running, callVars, cut>>
(* WaitReady returned; DeleteConfig, and the session is registered. *)
Register(r) ==
    /\ Up
    /\ Goes(r, "started", "active")
    /\ ini' = ini \ {r}
    /\ UNCHANGED <<storeVars, certVars, mainVars, from, killer, running, callVars, cut>>

(* What the request, or its session, has started is gone. *)
Ends(r) ==
    /\ pc' = [pc EXCEPT ![r] = "over"]
    /\ from' = [from EXCEPT ![r] = 0]
    /\ killer' = [killer EXCEPT ![r] = "nobody"]
    /\ ini' = ini \ {r}
    /\ running' = running \ {r}
    /\ late' = late \ {r}

(* No grant, no secret, shutdown, no room, no port, no process, no answer. *)
Refuse(r) ==
    /\ Up
    /\ pc[r] \in Handled
    /\ Ends(r)
    /\ UNCHANGED <<storeVars, certVars, phase, starts, expired, draining, callVars, cut>>

(* WriteConfig fails and leaves what it wrote. *)
WriteConfigFails(r) ==
    /\ Up
    /\ pc[r] = "configured"
    /\ pc' = [pc EXCEPT ![r] = "over"]
    /\ from' = [from EXCEPT ![r] = 0]
    /\ late' = late \ {r}
    /\ cut' = cut \cup {r}
    /\ UNCHANGED <<storeVars, certVars, phase, starts, expired, draining, killer, ini, running, callVars>>

Proceed(r) ==
    \/ FindsGrant(r) \/ Admit(r) \/ StartProxy(r) \/ Register(r)
    \/ Refuse(r) \/ WriteConfigFails(r)

-----------------------------------------------------------------------------
(* TerminateSession: the first caller marks the session, and only that one ends it. *)

Marks(r, by) ==
    /\ pc[r] = "active"
    /\ pc' = [pc EXCEPT ![r] = "terminating"]
    /\ killer' = [killer EXCEPT ![r] = by]

(* DELETE /api/sessions/{id}, or the monitor: the session's maximum duration. *)
OtherTerminates(r) ==
    /\ \/ Serves /\ Marks(r, "api")
       \/ Up /\ Marks(r, "monitor")
    /\ UNCHANGED <<storeVars, certVars, mainVars, from, ini, running, callVars, cut>>

DrainTerminates(r) ==
    /\ Up
    /\ r \in draining
    /\ Marks(r, "shutdown")
    /\ UNCHANGED <<storeVars, certVars, mainVars, from, ini, running, callVars, cut>>

(* The gatekeeper is stopped, the process killed, the directory removed. *)
Terminated(r) ==
    /\ Up
    /\ pc[r] = "terminating"
    /\ Ends(r)
    /\ UNCHANGED <<storeVars, certVars, phase, starts, expired, draining, callVars, cut>>

(* A proxy that ends by itself ends its session, too. *)
ProxyExits(r) ==
    /\ Up
    /\ Marks(r, "monitor")
    /\ running' = running \ {r}
    /\ UNCHANGED <<storeVars, certVars, mainVars, from, ini, callVars, cut>>

-----------------------------------------------------------------------------
(* Access *)

Grants(e, h) ==
    /\ Serves
    /\ GrantAccess(e, h)
    /\ UNCHANGED <<certVars, mainVars, requestVars, callVars, cut>>

ChangesKeys(e, k) ==
    /\ Serves
    /\ AddPublicKey(e, k) \/ RemovePublicKey(e, k)
    /\ UNCHANGED <<certVars, mainVars, requestVars, callVars, cut>>

CallGoes(v, here, there) == call[v] = here /\ call' = [call EXCEPT ![v] = there]

(* revokeAccess. Without a grant the answer is 404. *)
RevokeChecks(v) ==
    /\ Serves
    /\ HasAccess(Whose[v][1], Whose[v][2])
    /\ CallGoes(v, "idle", "checked")
    /\ UNCHANGED <<storeVars, certVars, mainVars, requestVars, listed, asOf, missed, cut>>

Revokes(v) ==
    /\ Up
    /\ CallGoes(v, "checked", "revoked")
    /\ RevokeAccess(Whose[v][1], Whose[v][2])
    /\ asOf' = [asOf EXCEPT ![v] = granted]
    /\ UNCHANGED <<certVars, mainVars, requestVars, listed, missed, cut>>

(* Mutant: addresses are compared as they are spelled. *)
SameSpelling(r, v) == Who[r][1] = Whose[v][1]
(* matchesUser: EqualFold. Addresses in grants have an @, so no session is known by a local part. *)
MatchesUser(r, v) == Lower[Who[r][1]] = Lower[Whose[v][1]]

(* Sessions that are terminating or terminated are passed over. *)
ListSessions(v) ==
    /\ Up
    /\ CallGoes(v, "revoked", "ending")
    /\ listed' = [listed EXCEPT ![v] = {r \in Requests : pc[r] = "active" /\ MatchesUser(r, v)}]
    /\ missed' = [missed EXCEPT ![v] = {r \in Requests : pc[r] \in SettingUp \cup {"found"}}]
    /\ UNCHANGED <<storeVars, certVars, mainVars, requestVars, asOf, cut>>

(* A session that another caller terminates is left to that caller. *)
Busy(v) == \E r \in Requests : pc[r] = "terminating" /\ killer[r] = v

(* Mutant: each listed session has to be terminated by this call. *)
RevokeTerminatesItself(v) ==
    /\ Up
    /\ call[v] = "ending" /\ ~Busy(v)
    /\ \E r \in listed[v] :
          /\ listed' = [listed EXCEPT ![v] = @ \ {r}]
          /\ Marks(r, v)
    /\ UNCHANGED <<storeVars, certVars, mainVars, from, ini, running, call, asOf, missed, cut>>
RevokeTerminates(v) ==
    /\ Up
    /\ call[v] = "ending" /\ ~Busy(v)
    /\ \E r \in listed[v] :
          /\ listed' = [listed EXCEPT ![v] = @ \ {r}]
          /\ \/ Marks(r, v)
             \/ /\ pc[r] # "active"
                /\ UNCHANGED <<pc, killer>>
    /\ UNCHANGED <<storeVars, certVars, mainVars, from, ini, running, call, asOf, missed, cut>>

RevokeReturns(v) ==
    /\ Up
    /\ listed[v] = {} /\ ~Busy(v)
    /\ CallGoes(v, "ending", "returned")
    /\ UNCHANGED <<storeVars, certVars, mainVars, requestVars, listed, asOf, missed, cut>>

Revoke(v) == Revokes(v) \/ ListSessions(v) \/ RevokeTerminates(v) \/ RevokeReturns(v)

-----------------------------------------------------------------------------
(* main *)

(* cleanupOrphanedProcesses kills what it finds, before anything else. *)
Start ==
    /\ phase \in {"stopped", "crashed"}
    /\ starts < MaxStarts
    /\ starts' = starts + 1
    /\ phase' = "starting"
    /\ running' = IF Pattern = Binary THEN {} ELSE running
    /\ UNCHANGED <<storeVars, certVars, expired, draining, late, pc, from, killer, ini, callVars, cut>>

EnsureCertificates ==
    /\ phase = "starting"
    /\ Ensure \/ Generate
    /\ UNCHANGED <<storeVars, mainVars, requestVars, callVars, cut>>

ListenAndServe ==
    /\ phase = "starting" /\ making = "done"
    /\ phase' = "serving"
    /\ UNCHANGED <<storeVars, certVars, starts, expired, draining, late, requestVars, callVars, cut>>

(* SIGTERM, or the server failed. Manager.Shutdown sets its flag and lists the sessions. *)
ShutdownBegins ==
    /\ phase = "serving"
    /\ phase' = "draining"
    /\ draining' = {r \in Requests : pc[r] \in {"active", "terminating"}}
    /\ late' = late \cup {r \in Requests : pc[r] \in SettingUp}
    /\ UNCHANGED <<storeVars, certVars, starts, expired, requestVars, callVars, cut>>

(* Its goroutines have returned: those at once whose session another caller terminates. *)
Drained ==
    \A r \in draining : pc[r] # "active" /\ ~(pc[r] = "terminating" /\ killer[r] = "shutdown")

(* Mutant: Manager.Shutdown has no deadline. *)
ServerShutdownWaits ==
    /\ phase = "draining"
    /\ Drained
    /\ phase' = "closing"
    /\ UNCHANGED <<storeVars, certVars, starts, expired, draining, late, requestVars, callVars, cut>>
(* Manager.Shutdown returns; server.Shutdown takes no more requests. *)
ServerShutdown ==
    /\ phase = "draining"
    /\ Drained \/ expired
    /\ phase' = "closing"
    /\ UNCHANGED <<storeVars, certVars, starts, expired, draining, late, requestVars, callVars, cut>>

(* No handler is running. *)
Quiet ==
    /\ \A r \in Requests : pc[r] \notin Handled /\ ~(pc[r] = "terminating" /\ killer[r] = "api")
    /\ \A v \in Revocations : call[v] \in {"idle", "returned", "over"}

Deadline ==
    /\ Shutdown /\ ~expired
    /\ expired' = TRUE
    /\ UNCHANGED <<storeVars, certVars, phase, starts, draining, late, requestVars, callVars, cut>>

(* The process ends: what was in memory is gone, files and other processes stay. *)
GoesDown(how) ==
    /\ phase' = how
    /\ StoreLost /\ GenerateEnds
    /\ pc' = [r \in Requests |-> IF pc[r] = "idle" THEN "idle" ELSE "lost"]
    /\ call' = [v \in Revocations |-> IF call[v] = "idle" THEN "idle" ELSE "over"]
    /\ from' = [r \in Requests |-> 0]
    /\ killer' = [r \in Requests |-> "nobody"]
    /\ draining' = {}
    /\ listed' = [v \in Revocations |-> {}]
    /\ asOf' = [v \in Revocations |-> 0]
    /\ missed' = [v \in Revocations |-> {}]
    /\ late' = {}
    /\ cut' = cut \cup {r \in Requests : pc[r] \in SettingUp}
    /\ expired' = FALSE
    /\ UNCHANGED <<starts, ini, running>>

Exit ==
    /\ phase = "closing"
    /\ Quiet \/ expired
    /\ GoesDown("stopped")

Crash ==
    /\ phase \in {"starting", "serving", "draining", "closing"}
    /\ GoesDown("crashed")

Main == EnsureCertificates \/ ListenAndServe \/ ServerShutdown \/ Exit

Next ==
    \/ Start \/ Main \/ ShutdownBegins \/ Deadline \/ Crash
    \/ \E r \in Requests :
          Verify(r) \/ Proceed(r) \/ OtherTerminates(r) \/ DrainTerminates(r) \/ Terminated(r) \/ ProxyExits(r)
    \/ \E e \in Emails :
          \/ \E h \in Hosts : Grants(e, h)
          \/ \E k \in Keys : ChangesKeys(e, k)
    \/ \E v \in Revocations : RevokeChecks(v) \/ Revoke(v)

(* main and the revocations are scheduled, and shutdownCtx has a deadline. No request, signal *)
(* or crash need come, no session be set up and no termination end: the gatekeeper may wait   *)
(* for the proxy.                                                                             *)
Fairness ==
    /\ WF_vars(Main) /\ WF_vars(Deadline)
    /\ \A v \in Revocations : WF_vars(Revoke(v))

Spec == Init /\ [][Next]_vars /\ Fairness

-----------------------------------------------------------------------------
(* Properties *)

TypeOK ==
    /\ StoreTypeOK /\ CertTypeOK
    /\ phase \in {"stopped", "starting", "serving", "draining", "closing", "crashed"}
    /\ starts \in 0 .. MaxStarts
    /\ expired \in BOOLEAN
    /\ pc \in [Requests -> Handled \cup {"idle", "active", "terminating", "over", "lost"}]
    /\ from \in [Requests -> 0 .. granted]
    /\ killer \in [Requests -> {"nobody", "api", "monitor", "shutdown"} \cup Revocations]
    /\ ini \subseteq Requests /\ running \subseteq Requests /\ draining \subseteq Requests
    /\ call \in [Revocations -> {"idle", "checked", "revoked", "ending", "returned", "over"}]
    /\ listed \in [Revocations -> SUBSET Requests]
    /\ asOf \in [Revocations -> 0 .. granted]
    /\ missed \in [Revocations -> SUBSET Requests]
    /\ late \subseteq Requests /\ cut \subseteq Requests

(* The session of r is of the access that v takes away: however either spells it, and by *)
(* whichever of the grants made until then.                                              *)
Covers(v, r) ==
    /\ Normalized(Who[r][1], Who[r][2]) = Normalized(Whose[v][1], Whose[v][2])
    /\ from[r] <= asOf[v]

(* When a revocation has returned, no session of that access is active, but for those whose *)
(* request had found the grant and not yet registered the session when the sessions were    *)
(* listed: revokeAccess and CreateSession share no lock.                                    *)
RevokeReachesAll ==
    \A v \in Revocations, r \in Requests :
        call[v] = "returned" /\ pc[r] = "active" /\ Covers(v, r) => r \in missed[v]

Pending == SettingUp \cup {"found"}

SessionOf(r) ==
    CASE pc[r] \in {"idle", "verified"} -> "none"
      [] pc[r] \in Pending              -> "pending"
      [] pc[r] = "active"               -> "live"
      [] OTHER                          -> "gone"

BasisOf(r) == IF pc[r] \in Pending \cup {"active"} THEN from[r] ELSE 0

CallOf(v) ==
    CASE call[v] \in {"idle", "checked"} -> "none"
      [] call[v] = "revoked"             -> "withdrawn"
      [] call[v] = "ending"              -> "looked"
      [] call[v] = "over"                -> "gone"
      [] OTHER                           -> call[v]

(* The broker implements AccessPolicy, which knows one name for each access, one grant for *)
(* each session, and a revocation that waits until the sessions are gone.                  *)
Access == INSTANCE AccessPolicy
             WITH Accesses <- Grant,
                  Asked <- [r \in Requests |-> Normalized(Who[r][1], Who[r][2])],
                  Taken <- [v \in Revocations |-> Normalized(Whose[v][1], Whose[v][2])],
                  grant <- grants,
                  session <- [r \in Requests |-> SessionOf(r)],
                  basis <- [r \in Requests |-> BasisOf(r)],
                  call <- [v \in Revocations |-> CallOf(v)],
                  upTo <- asOf,
                  excused <- missed

ImplementsAccess == Access!Spec

(* What serves has a certificate that belongs to its key, also when an earlier life ended in *)
(* the middle of Generate; except when it ended with the key's file made and not written,    *)
(* for which Generate is not run again.                                                      *)
PairMatches ==
    Up /\ key # Created => cert = key /\ cert \notin {NoFile, Created}

(* A shutdown that ends in time leaves no proxy of a session behind, except of requests it  *)
(* came too late for and of sessions that the monitor had begun to terminate, for which     *)
(* neither Manager.Shutdown nor the server waits.                                           *)
LeftBehind(r) == r \in late \/ (pc[r] = "terminating" /\ killer[r] = "monitor")
ExitClean ==
    [][phase = "closing" /\ phase' = "stopped" /\ ~expired =>
          \A r \in running : pc[r] = "lost" \/ LeftBehind(r)]_vars

(* A password is on disk only while its session is set up, or for ever if the broker goes  *)
(* down just then or WriteConfig fails half way: nothing looks for it afterwards.          *)
CredentialsOffDisk == \A r \in ini : pc[r] \in SettingUp \/ r \in cut

(* Shutdown ends, whatever requests, sessions and proxies do. *)
ShutdownEnds == Shutdown ~> phase \in {"stopped", "crashed"}

(* A revocation returns, or goes down with the broker, unless it waits for ever for a session *)
(* that it is itself terminating.                                                             *)
RevokeEnds ==
    \A v \in Revocations :
        <>[]Busy(v) \/ ((call[v] = "checked") ~> (call[v] \in {"returned", "over"}))
=============================================================================
