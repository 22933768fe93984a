# Verification of the RDP broker and its recording agent

This directory holds TLA+ models of the program in `src/`, the TLC
configurations that check them on small instances, and theorems about them
whose proofs TLAPS checks for instances of any size.

`PROJECT.json` lists the components, the runs, the mutants (small plausible
bugs that each property has to notice), the source lines of every definition,
the findings, the hazards and the theorems.

## The system

A **broker** (`src/proxy`) hands RDP sessions to browsers and native clients. A
user asks the HTTP API for a session on a target host. The broker takes a pair
of ports from its pool, writes a configuration with the target's password for a
`freerdp-proxy` process, starts that process on the internal port, waits until
it answers, deletes the configuration and opens a **gatekeeper** on the
external port. The user gets a file with a one-time token; the gatekeeper reads
the token from the client's first packet, dials the proxy and bridges the two
connections. A session ends by the API, by the revocation of the user's access,
by the exit of its proxy, by its maximum duration, or when the broker shuts
down.

An **agent** (`src/agent`) on the target host polls Windows for sessions.
For each it records the screen with ffmpeg, in chunks, and what
happens on the desktop, as events, and uploads both to the broker, whose
**recording store** keeps them and at the end puts the chunks together into one
video.

### Inventory

| component | state | operations | what is hard | what makes it correct |
|---|---|---|---|---|
| session manager (`session/manager.go`) | map of sessions, history, shutdown flag; each session's state | CreateSession, TerminateSession, monitor, Shutdown | locks released between steps; five callers of TerminateSession; error returns half way; a monitor per session | a port pair has one owner; nothing of a session outlives its lease; every session ends |
| port pool (`port_pool.go`) | set of ports in use | Allocate, Release | the last port, double release | disjoint leases, no leak |
| proxy process (`proxy.go`) | the process | StartProxy, WaitReady, StopProxy | readiness is an answer on a port; kill without wait | the process that answers is the session's own |
| configuration writer (`config_writer.go`) | files on disk | WriteConfig, DeleteConfig, CleanupSession | failures half way, crashes | no password stays on disk |
| gatekeeper (`gatekeeper.go`) | listener, closed flag, tracked connections, handler count | Start, Stop, handleConnection, bridge | Start, Accept and handlers race Stop; a peer that does not hang up | a stopped gatekeeper serves nobody; a token serves one client |
| token (`token.go`) | consumed, expiry | Validate | concurrent use | used at most once |
| cookie and RDP file (`gatekeeper.go`, `rdp_file.go`) | none | GenerateRDPFile, parseCookie | escaping, delimiters | what is written is read back |
| recording store (`recording/store.go`, `api/recordings.go`) | metadata, chunks, events, video | Create, AppendChunk, AppendEvents, Finalize, Delete, GeneratePlaylist | several files per operation, failures in between, calls after the end | counts agree with contents; completed means a playable video |
| agent recorder (`capture/recorder.go`, `client/client.go`) | event buffer, gone flag | Start, Stop, handleChunk, flushEvents, retries | asynchronous uploads, lost answers, stop while uploading | every chunk and event arrives, once and in order |
| screen recorder (`capture/screen.go`) | the ffmpeg process, next chunk, chunks on disk | Start, Stop, restartFFmpeg, watchChunks | three goroutines, restart racing stop | chunk numbers are not reused, each chunk is reported once |
| detector, agent main (`session/detector.go`, `cmd/p0rtal-agent`) | sessions seen, recorders | polling, onLogon, onLogoff | what happens between two polls, failed starts | one recorder per Windows session |
| access control (`acl/store.go`, `api/access.go`, `api/sessions.go`) | grants | Create, Revoke, session requests | check and use at different times | after a revocation no session of that user |
| token provider (`secrets/tokens.go`) | three cached tokens | Get* | expiry, locks held during requests | no expired token is handed out |
| certificates (`certs/generator.go`) | two files | EnsureCertificates | a crash between them | the pair matches |
| broker main (`cmd/broker/main.go`) | everything above across a restart | start, clean-up, shutdown | crash at any step | nothing of the former life is in the way |

What of this is not modelled, and why, is said under "Not modelled".

## Modules

| module | what it is |
|---|---|
| `SessionLease` | the promise: a session is granted one port, keeps it through its phases and returns it once |
| `SessionManager` | session manager, port pool, proxy processes, configuration files and the gatekeeper's life cycle |
| `MCSessionManager` | `SessionManager` for TLC: symmetry, and the specifications of the liveness runs |
| `SessionManagerProofs` | theorems about `SessionManager` |
| `SessionLeaseProofs` | the theorem about `SessionLease` |
| `AccessPolicy` | the promise: a request becomes a session only on a grant, and a revocation that has returned has left no session of an earlier one, but of requests it could not see |
| `AccessPolicyProofs` | the theorem about `AccessPolicy` |
| `Gatekeeper` | the gatekeeper of one session with several connections, and its token |
| `GatekeeperProofs` | theorems about `Gatekeeper` |
| `RecordingStore` | one recording on the broker's disk and what each API request makes of it, failures half way included |
| `RecordingArchive` | the promise: chunks are counted once each and only added, events only become more, what a sender was told is stored is there |
| `Recorder` | the agent's recorder of one session, the requests on their way, and `RecordingStore` serving them |
| `RecorderProofs` | theorems about `Recorder` and the `RecordingStore` in it |
| `ScreenRecorder` | the agent's screen recorders: ffmpeg, the watcher, the resolution monitor and Stop |
| `Agent` | the Windows service, the session detector and its callbacks, over several `ScreenRecorder`s |
| `AgentProofs` | theorems about `Agent` |
| `AccessControl` | the broker's grants and public keys, and the API calls that change them |
| `Certificates` | the proxies' certificate and key, made in steps any of which may be the last |
| `Broker` | the broker from start to shutdown or crash, requests for sessions and revocations; uses `AccessControl` and `Certificates` |
| `MCBroker` | `Broker` for TLC: a user spelled in two ways |
| `BrokerProofs` | theorems about `Broker` |
| `TokenProvider` | the three cached tokens for the Secret Manager, their lock and the fetches |
| `TokenProviderProofs` | theorems about `TokenProvider` |

Three modules compose others: `Recorder` with `RecordingStore`, `Broker` with
`AccessControl` and `Certificates`, and `Agent` with a `ScreenRecorder` per
logon. `SessionManager`, `Gatekeeper` and `Broker` show the same sessions at
three scales: the goroutines of the manager, the connections of one gatekeeper,
and what the API handlers and main see of a session. `Agent` and `Recorder`
share `Recorder.Stop` in the same way: `Recorder` has its uploads and flushes,
`Agent` when it is called and what ffmpeg does meanwhile.

### SessionManager

A member of `Sessions` is one CreateSession request and the session it makes;
identifiers are random and never used twice. The variables of a session are the
positions of the goroutines that work on it and what they share:

| variable | code |
|---|---|
| `sessions`, `history`, `shutdown` | fields of `Manager`; `shutdown` also says whether the Shutdown call waits or returned |
| `inUse` | `PortPool.inUse` |
| `pc` | where CreateSession is: admitted ("checked"), with a port ("allocated"), with a process ("started"), "ready", "returned", "failed" |
| `state`, `port` | `Session.State`, `Session.ExternalPort` |
| `secrets` | sessions whose `proxy.ini` is on disk |
| `proc`, `killed` | the freerdp-proxy process: starting, listening, exited, reaped; SIGKILL sent |
| `gk` | `Gatekeeper.Start`: about to listen, listening but not published ("bound"), accepting ("listening"), closed, failed |
| `conn` | the client's connection: in the accept loop's hands ("accepted"), with a handler ("handled"), its client's side closed under a handler ("cut"), bridged ("open"), bridged with the client's side closed ("closing"), "gone" |
| `term` | where the winning TerminateSession call is |
| `monitor`, `drain` | the monitor, and Shutdown's goroutine for the session |

One action is what a goroutine does between two points where another may look:
a region under a lock, a system call, a channel operation. Steps
nobody can tell apart are one action: DeleteConfig, the creation of the
gatekeeper's goroutine and the registration (`Register`); the clean-up after a
failed WaitReady (`WaitReadyFails`); the monitor's wake-up and the locked test
at the start of TerminateSession (`MonitorTerminates`); Release and
CleanupSession (`ReleasePort`). TerminateSession's test and mark happen
under `m.mu` and `session.mu`, so the losers are no more than a step without
effect, except for Shutdown's goroutines, whose return counts (`drain`).

Abstracted: the text of the configuration, tokens (one client holds the
session's token; an expired or wrong one is `ConnectFails`), time (timeouts may
fire at any moment), the client's address, logging. `GatekeeperClosed` stands
for `Gatekeeper.closed` and for the closed `stopMonitor` channel, which
TerminateSession sets one after the other with nothing in between that another
goroutine could observe separately. Shutdown's return at its
deadline changes nothing in the manager, and is the state "draining".

The freerdp-proxy process is not in `src/`. It reads its configuration and
listens on its port, or exits when it cannot; it may end at any moment; a killed
one is gone some time after the signal (`ProxyListens`, `ProxyGivesUp`,
`ProxyCrashes`, `ProxyDies`). Two processes cannot listen on one port.

### Gatekeeper

`SessionManager` has one client per session and what Start and Stop mean for
ports and processes; `Gatekeeper` is one gatekeeper seen from inside. A member
of `Conns` is a connection that may arrive.

| variable | code |
|---|---|
| `start`, `listener`, `closed` | where `Start` is; `g.listener` and whether it is closed; `g.closed` |
| `tracked`, `counted` | `g.clientConns`; what each connection has added to `g.activeConns` |
| `stop`, `found` | where `Stop` is, and its local `conns` |
| `at` | the connection in the accept loop ("accepted", "tracked") and in its handler: "reading", "checking" (packet read), "dialing" (token taken), "bridging", "ending" |
| `hello` | what the client sends: nothing, something malformed, from a strange address, a wrong token or target, or the invitation |
| `open`, `copying` | the client's socket; the directions `bridge` still copies |
| `token`, `admitted` | `Token.consumed` and its expiry; connections for which Validate returned nil |

The accept loop's three steps, Accept, append to `clientConns` and
`activeConns.Add` with the goroutine's start, are three actions, because Stop
may come between any two of them. It does: `Add` follows the unlock, so Wait
may find zero handlers although a connection is tracked, and a handler may start
after Stop has returned. `StoppedNotServed` says what still holds, and why
that is harmless for the connections Stop found: their sockets are closed
before anything is read. For one that Stop did not find it is not: see
the findings. The proxy's dial and the forwarding of the packet are
one step (`Dial`); reading fails at any moment, for a bad packet, a closed
connection or the deadline. Packet bytes and the
cookie's syntax are abstracted to `hello`.

### RecordingStore and Recorder

`RecordingStore` defines operations, not a specification: `AppendChunk`,
`AppendEvents`, `Finalize` and `Delete` take the answer the caller would get and
are one step each, because `Store.mu` is held throughout. A failure stops an
operation where it is and leaves what was written: a partial chunk file, some of
the events, half a video, a truncated `metadata.json` (`torn`). Files hold chunk
numbers, `Partial` stands for one that is not whole; `video` is the sequence of
chunks it was made of.

`Recorder` extends it with the agent. `call` says which goroutines wait for an
answer (flushLoop, Stop's flush, EndRecording, one uploader per chunk); `net` is
the bag of requests that travel or queue for `Store.mu`. A caller may give up
while its request is still in `net`, so requests overtake one another and are
served after nobody waits for them. `http.Client` reads the body of
the request object that `doWithRetry` uses again: a chunk's file is closed after
the first attempt and the bytes of the events are consumed, so those attempts
end before anything reaches the broker. A call with a body is therefore one
request in the model, and only EndRecording, which has none, is sent again
(`EndRetries`). The rest follows the code: `buffer`, `batch`
and `gone` are what `r.mu` protects; `chunk` takes each chunk from ffmpeg over
the watcher's report and its uploader; `pc` is Stop, whose wait
for the screen recorder is over when it is "cancelled".

`RecordingArchive` is what the two promise together: one step for a chunk that is
counted, one for events that reach the disk (some of a batch when a write fails),
one for metadata destroyed by a failed write, one for the deletion, and no
requests, retries or files. `Recorder!Archive` is the mapping: the archive's
chunks are the files that `chunkCount` covers, its events those in the log;
`toldChunks` and `toldEvents` are what belongs to a caller that holds an "ok" and has
not gone on, and the specification demands that all of it is there (`Truthful`). Buffering, sending, failing, retrying and giving up are stutters,
partial chunks and chunks that no metadata count are not in the archive.

The model starts when the recording exists. Not in it: durations, sizes, time
stamps, the playlist, and the capture trackers, which are the action `Capture`.

### ScreenRecorder and Agent

A member of `Recorders` is one recorder that onLogon makes. Its variables:

| variable | code |
|---|---|
| `ffmpeg`, `open` | the process runs; it is writing the chunk with number `next - 1` |
| `next` | the number of the chunk it will begin next: `nextChunk` when it is launched, then one more each time |
| `files`, `reported` | the chunks in the directory; those given to `onChunk` |
| `watcher`, `monitor` | the goroutines `watchChunks` and `monitorResolution`: "changed" is before `restartFFmpeg` has `s.mu`, "restarting" after |
| `stop` | `Stop`: "called", "stopping" (has `s.mu`), "stopped" (ffmpeg has ended, the context is cancelled), and the end of `Recorder.Stop`, which removed the directory or could not |
| `ctxDone` | the recorder's context |

`Held` is `s.mu`. The resolution is probed before the lock is taken, so a change
may be noticed before Stop and acted on after it. `LaunchFFmpeg` takes the count
of the files for the next number, as the code does. Names of
chunks are compared as strings (`NameLess`), which is the order of the numbers
only while the names have room for their digits.

`Agent` adds the service: `HealthCheck` and `StopControl` in `Execute` and
`runAgent`, the detector's polls (`Enumerate` reads the active sessions, then a
callback at a time, logons first, then `PollEnds`), `onLogon` in two steps
(`CreateRecording`, then `StartRecorder`, which may fail and leaves the recording
open) and `onLogoff`, which waits for Stop. `recorders` is the map that the two
callbacks share, `stopping` the recorder whose Stop is waited for. Users log on
and off at any time (`SessionChanges`), also while a poll is at its callbacks. `StopControl`
cancels the context from which those of all recorders are derived, before any of
them is stopped; that the watchers then miss ffmpeg's last chunk is in the model.

### AccessControl, Certificates and Broker

`AccessControl` is the store behind its one lock: each grant has a number, under
the key made of the lower-case address and host (`Normalized`). Names may be
spelled in several ways. `Certificates` has a step for each file created and
each file written.

In `Broker` a member of `Requests` is a POST to /api/sessions, with address and
host as spelled in `Who`, and a member of `Revocations` one to /api/revoke.

| variable | code |
|---|---|
| `phase`, `starts` | where main is, and how often the broker was started; "crashed" is a death anywhere |
| `expired`, `draining` | `shutdownCtx`; the sessions Manager.Shutdown listed |
| `pc`, `from` | the request (token verified, grant found, configured, started) and then its session (active, terminating, over; "lost" when the broker went down); the grant it found |
| `killer` | whose TerminateSession call marked the session and ends it |
| `ini`, `running` | `proxy.ini` on disk; the proxy process runs. Both outlive the broker |
| `call`, `listed` | where a revocation is, and the sessions it has still to end |

`asOf`, `missed`, `late` and `cut` record what the properties need to know of the
past; no action reads them. A request reads the grant, resolves the secret and
registers its session in separate steps that share no lock with a revocation,
which removes the grant, then lists the sessions, then ends them one by one.
`Admit` is the manager's test for shutdown and WriteConfig in one step, and
`Register` DeleteConfig and the registration: between them nothing that this
module shows changes. A TerminateSession call that finds the session marked by
another returns at once, so Shutdown and revocations wait only for terminations
of their own (`Drained`, `Busy`). The clean-up at the start kills processes by
name: `Pattern` is what pgrep is given, `Binary` the configured program.

`AccessPolicy` is what all this promises: one name for each access instead of
its spellings, one step for each decision, no manager, no shutdown. Its sessions are
pending, live or gone and rest on a numbered grant; `Return` is allowed
only when no live session rests on a grant that was taken away, save the requests
that were pending when the revocation looked. `Broker!Access` is the mapping: a
request is pending from the grant it found (`FindsGrant`) until it is registered,
a session is gone as soon as a TerminateSession call has marked it, and a
revocation has looked when it is "ending". Stops and crashes are `Down`. The
steps that set up the process, the certificate, the keys, and a
termination under way are stutters. What has to be shown is that the
revocation's loop, which lists by address alone, ends what the policy asks for,
whoever ends it.

### TokenProvider

A caller that needs an IAM token finds it in the cache, or gets an STS token
first, and for that an Azure token. `stage` is the token that its innermost call
is for, `have` the token that call was given to present, `at` where it is: at
the check under RLock, in `queue` for the write lock, fetching, or reading the
secret. The fetch happens with the write lock held, so everybody else waits. Time
passes only while a request is under way (`Tick`), at most `Timeout` for each;
the service issues a token at some moment of the request (`Issued`), and since
STS says only how long its token lives and the provider counts from the
answer on, `expiresAt` may be later than the moment the token `dies`.

## Runs

| run | shows |
|---|---|
| `manager_safety` | two requests over two ports, every interleaving: `PortLease` (the ports in use are those of the sessions that own one, each owned once); `ProxyWithinLease` (no live process without a lease); `PortsOwn` (behind the ports of a session that owns them answers its own process or one that was killed, its own gatekeeper or one about to close); `SecretsOffDisk`; `LifecycleForward` |
| `manager_live` | two requests over one port, without Shutdown: `TypeOK`, `ImplementsLease` (refinement of `SessionLease`), `DeadProxyEnds`, `PortReturns` |
| `manager_drain` | `ShutdownCompletes`, two sessions, other callers terminating too |
| `manager_limit` | violated: two requests pass the limit test before either is registered |
| `manager_ready` | violated: WaitReady is answered by an earlier session's process, and `proxy.ini` is deleted before the new process read it |
| `gatekeeper` | `TokenSpentOnce` (the token buys one connection), `StopCanReach` (`clientConns` has every connection with a handler and no finished one), `StoppedNotServed`, `StopEnds`, `ConnectionsEnd` (a dead proxy lets every connection go) |
| `recorder` | `CountedIsStored` (metadata never count what is not stored whole), `ChunkStoredOnce`, `NoEventLost` (buffered, on its way or stored, whatever flush fails), `CompletesWithVideo` (a recording is completed with the video of all chunks it counts), `ImplementsArchive` (refinement of `RecordingArchive`), under any failure, delay or deletion |
| `recorder_stop` | violated: without any failure Stop ends the recording and removes the files before the last chunk is uploaded |
| `agent` | users log on and off during polls, recordings fail to start, resolutions change, ffmpeg dies, the service is stopped: `NothingOverwritten` (no chunk on disk is begun again), `NoneForgotten` (whoever ends a recorder will find it), `RecordingsEnded` (a stopped service has ended what it recorded), `ReportedWhole` and `AllReported` (chunks are reported when they are whole, and all of them at the end), `LogoffStops`, `ServiceStops` |
| `agent_restart` | violated: a restart of ffmpeg that waits for the mutex during Stop launches ffmpeg after it |
| `broker` | a broker started twice, crashing or shutting down anywhere: `RevokeReachesAll` (no session outlives the revocation of its access, but those whose request was just under way), `PairMatches` (certificate and key belong together whenever it serves), `CredentialsOffDisk` (which passwords may be left on disk), `ExitClean` (which proxies a shutdown may leave), `ImplementsAccess` (refinement of `AccessPolicy`), `ShutdownEnds`, `RevokeEnds` |
| `tokens` | tokens expire while requests take time and fail: `LockSound` (nobody waits for a lock it holds), `RefreshOnce` (a token is fetched once by callers that find it stale together), `UsesLiveTokens` (no expired token is presented), `CallsEnd` |

Each property of a run has a mutant in `PROJECT.json`: a small bug in one mapped
definition under which the run finds the property violated.

**Bounds.** Two sessions are what the races need: each involves one session, or
a session and the next one on its port. With two ports they hold ports side by
side, with one port the second gets the port the first returned. One session is
the limit where the limit is in question. Nothing else is bounded: all variables
range over finite sets. The sessions are interchangeable, which the safety runs
use as a symmetry; the liveness runs do not. `manager_live` leaves Shutdown out
(it only adds callers of TerminateSession); `manager_drain` leaves out crashes,
the maximum duration, requests that fail although the proxy runs, and clients
that leave before Stop, and lets one client connect. Deadlock is checked with
the step `Stopped`, the only state in which everything may rest; in
`manager_live`, where nobody is obliged to make a request and
Shutdown is absent, it is not. In `gatekeeper` two connections hold the token
at once, or one comes early enough for Stop and one too late; every pair of
first packets is an initial state. A gatekeeper whose connections are done
rests, so deadlock is not checked there; `StopEnds` and `ConnectionsEnd` say
that nothing is stuck. In `recorder` two events let both flushes have a batch and
the buffer a newer event, two chunks let uploads overtake each other and one
overwrite what another left; one batch of the loop, besides Stop's, and two
attempts of EndRecording (three in the code) are where more add only
repetitions. Only safety is checked there, and a stopped recorder
rests, so deadlock is not checked.

In `agent` one session and two recorders are what a session number that is used
again needs; three logons and logoffs let a session end, begin and end. One
change of the resolution and two chunks give a restart with a chunk before and
one after it. Names are those of the code (three decimal digits), so that none
of the few chunks outgrows them. In `broker` one user, spelled in two ways, asks
for two sessions while one revocation and two grants (so that access can be
given again) come at any time; two starts make one restart. More users only add
sessions that a revocation leaves alone. In `tokens` two callers wait for each
other; time goes on until the longest-lived token has expired and been fetched
again. The buffer of two units and the timeout of one keep the relation that
`UsesLiveTokens` depends on: the number of callers times the timeout is at most the
buffer. With the code's 60 and 10 seconds that is six callers at a time, and
nothing in the code keeps it at that. Brokers, services and callers may rest, so
deadlock is not checked in `agent` and `broker`; in `tokens` it is.

**Fairness.** Weak fairness of every goroutine's steps once it was started (the
Go scheduler), of the deadlines of WaitReady, of the first packet and of the
dial, of the kernel (SIGKILL, sockets of dead processes), and of a started proxy
(it listens or exits). No request, crash, client, API call or Shutdown is ever
obliged to happen. Three assumptions are separate because the code does not
control them: `Timers` (time.After fires), `ProxiesHangUp` (a proxy closes its
side after its client left) and `LateClientsLeave` (a client that Stop missed
leaves by itself). `PortReturns` needs all three, `ShutdownCompletes` the last
two, `DeadProxyEnds` only the last. `Gatekeeper!Fairness` has
the last two in its own terms: a peer told by `CloseWrite` that the other side
is done hangs up, and a client Stop missed leaves.

`Agent!Fairness` is that of its goroutines. RunEnds is strongly fair, because
select chooses at random between the ticker and the finished context and does
not choose the ticker for ever; so is Stop's wait for `s.mu`, a Go mutex, which
lets in whoever has waited for a millisecond. ffmpeg ends when it is told to, or is killed 10 seconds
later, and otherwise owes nothing. `Broker!Fairness` obliges main, the deadline
of the shutdown and the revocations, and nothing else: no session needs to be
set up and no termination to end, since a gatekeeper may wait for a proxy.
`ShutdownEnds` holds all the same, because of the deadline. A revocation has
none: `RevokeEnds` says that it returns, or goes down with the broker, unless it
waits for ever for a session that it is itself terminating. In `TokenProvider`
every caller is scheduled and every request is answered or times out; the check
of the cache is strongly fair because Go's RWMutex lets waiting readers in when
a writer unlocks.

## Proofs

For any finite set of sessions, any port range, offset and limit
(`PortAssumption`, `LimitAssumption`, `SessionsAssumption`), TLAPS checks in
`SessionManagerProofs`:

- `TypeCorrect`: Spec => []TypeOK.
- `Inductive`: Spec => []IndInv. `PortLease` is not inductive: that
  Release frees the right port depends on TerminateSession running once per
  session and only for registered ones. `IndInv` adds, per session, how its
  goroutines agree: the state with CreateSession (`StateAgrees`), registration
  and state with TerminateSession (`TermAgrees`), listener with closed flag
  (`GatekeeperAgrees`), process and file with both (`ProcessAgrees`). The proof
  goes action by action; the leases have three lemmas (granted, returned, left
  alone) that the actions cite.
- `LeasesExclusive`, `NoStrayProxy`, `SecretsRemoved`: safety invariants of
  `manager_safety`, from `IndInv`; and `NoStrayListener`, that no gatekeeper
  accepts without a lease (`ListenerWithinLease`), which no run spends a
  property on any more.
- `PoolBounds`: never more sessions own ports than there are ports, and Allocate
  refuses only when they are exactly that many. It counts `inUse` through the
  bijection that `PortLease` gives, and so says of leaks what no state does.
- `OnlyOwnAnswer`: the invariant `PortsOwn`, where no internal port is also an
  external one (`PortsApart`; the default offset of 11000 is larger than the default
  range). It needs in addition that what has a process was given a port
  (`StartedOnPort`).
- `Forward`: the action property `LifecycleForward`.
- `Implements`: the manager implements `SessionLease` under the mapping of
  `SessionManager!Lease`; one lemma per kind of abstract step.

`SessionLeaseProofs!NeverShared`: SessionLease keeps each port to one session.
`ListenerWithinLease`, `PortLease` and `PortsOwn` together say who may be met on
a port: the exceptions of `PortsOwn` are those of the code, and each does occur.

For any set of connections, in `GatekeeperProofs`: `TypeCorrect`,
`OneTimeToken` (`TokenSpentOnce`), `Reachable` (`StopCanReach`) and
`NotServedAfterStop` (`StoppedNotServed`). `StoppedNotServed` is not inductive:
`IndInv` adds that a handler is counted from start to end (`CountsHandlers`,
why Wait covers the handlers past reading), what `clientConns` contains
(`TracksConnections`) and that what Stop found is closed before it waits
(`ClosesFound`, why no escaped handler reads).

For any number of events, chunks, batches and attempts, with or without failures
(`BoundsAssumption`), in `RecorderProofs`: `TypeCorrect`, `CountsStored`
(`CountedIsStored`), `StoredOnce` (`ChunkStoredOnce`), `EventsKept`
(`NoEventLost`), `CompletedWhole` (`CompletesWithVideo`) and `ArchiveImplemented`
(`ImplementsArchive`). The induction needs
what nobody checks at run time: a chunk has at most one request on its way and
none once it is counted (`WireInv`, why a chunk is stored once although requests
overtake their callers); a flush that was told "ok" has all its events in the log
(`CallInv`, why the batch may be dropped); a torn recording counts nothing and a
readable one with a video counts at least a chunk (`CountsAgree`). Lemmas say what each
operation of the store does to counts and files; the proof then goes by action.
`ArchiveImplemented` takes each operation to one step of the archive:
what is counted is a prefix of the files that no operation touches (`StoredSame`),
except that AppendChunk adds its own chunk at the end (`PrefixGrows`), which
`WireInv` says is not counted yet. That answers are true needs `ToldInv` besides:
an uploader is told "ok" of counted chunks only, and none is ever taken back
while the recording can be read.

For any requests, revocations, spellings, hosts, grants and starts
(`BrokerAssumption`, `LowerAssumption`, `MaxGrantsAssumption`), in
`BrokerProofs`: `TypeCorrect`, `RevocationReachesAll` (`RevokeReachesAll`),
`CertificatesMatch` (`PairMatches`), `PasswordsRemoved` (`CredentialsOffDisk`),
`ExitsClean` (`ExitClean`) and `AccessImplemented` (`ImplementsAccess`). `IndInv` adds that after a revocation the access
has no grant or a newer one, and that when the sessions were listed every
session of an older grant was either listed or still on its way
(`RevocationAgrees`); how far Generate has come is what the files say, with the
key always last (`CertInv`); Shutdown's list and the requests that were past its
test are all there is (`ShutdownAgrees`), and whoever ends a session has not
returned (`OwnersAgree`). `ExitsClean` follows because only Exit ends a shutdown
and, before the deadline, only when all of these callers have returned. `AccessImplemented`
goes step by step under `IndInv`: the policy's `Return` is enabled when the loop
is done because of `RevocationAgrees`, and a crash is `Down`.

`AccessPolicyProofs!PolicyKept`: where each request and revocation names an
access (`NamesKnown`), `AccessPolicy` keeps `Founded` (nothing is pending or live
without a grant) and `Honoured` (from its return on a revocation leaves only what
it excused, and from its look on all that is pending on an older grant is
excused). The induction needs `Newer`: what was taken away is absent or granted
anew, so a request admitted later rests on a newer grant. Together with
`AccessImplemented` this holds of the broker.

For any number of callers, lifetimes and times (`TimesAssumption`,
`LifetimeAssumption`: tokens live longer than the buffer), in
`TokenProviderProofs`: `TypeCorrect`, `LockStaysSound` (`LockSound`),
`RefreshesOnce` (`RefreshOnce`) and, where the number of callers times the
timeout is at most the buffer (`FewCallers`), `LiveTokensUsed`
(`UsesLiveTokens`). That is a case of `OverdueBounded`, for any finite number of
callers: a token that is presented has been dead, if at all, for less than
`Overdue`, the time by which the fetches of all callers may outlast the
buffer. (With two and three callers TLC finds tokens dead for `Overdue` - 1, so the bound
is the best there is.) Its invariant `InTime` bounds the age of a token by its
caller's position: at position i of the queue it outlives what is left of the
fetch under way and i - 1 more, and dies late enough for its own to begin, but
for `Overdue`. A caller joins with
at most the others before it (`Room`, by counting an injective queue), and its
token then lives as long as the buffer, less the time STS's answer took.

For any sessions, recorders, chunks, restarts, logons and attempts
(`ScreenAssumption`, `AgentAssumption`), in `AgentProofs`: `TypeCorrect`,
`ChunksKept` (`NothingOverwritten`), `NoRecorderForgotten` (`NoneForgotten`) and
`AllRecordingsEnded` (`RecordingsEnded`). The numbers on disk have no gap, so
that counting the files gives the next one (`ChunksCounted`); the sessions with a
recorder are those the detector has seen or has just called onLogon for
(`DetectorAgrees`), so that onLogon never finds its session's place taken; a Stop
that has not returned is waited for (`RecordersAgree`). Two more hold where
every number fits the width of the names (`NamesHaveRoom`): `ChunksReportedWhole`
(`ReportedWhole`) and `AllChunksReported` (`AllReported`). Names are then in
the order of their numbers (`NamesInOrder`), and chunks are reported in that order
without a gap (`NonePassedOver`): the watcher passes over nothing, so its
last look has all the rest, whatever restarts did to the directory. How many digits a
number has is said by `Fits`, comparison with a power of the base, not by
recursion, so that the module can be reasoned about.

Only model-checked: the liveness properties, for which the prover has no rules
here, and the four violations. Every safety property of a passing run is proved.

## Findings

Each of the four violated runs refutes a sentence of the repository, quoted in
`PROJECT.json`:

- `manager_limit`: the session limit can be exceeded;
- `manager_ready`: WaitReady can take another session's process for its own;
- `recorder_stop`: the recorder's Stop does not wait for the uploads it starts;
- `agent_restart`: a restart of ffmpeg can outlast Stop.

Modelling showed more, on which no run is spent. In the broker:

- a connection accepted before Stop and tracked after it is bridged although Stop
  "closes all connections" (gatekeeper.go:120, 129);
- Stop waits for a proxy that its caller kills only afterwards (gatekeeper.go:149,
  manager.go:298-306);
- a request that passed the shutdown test registers its session after Shutdown
  listed them, and a TerminateSession call that loses returns before the session
  is gone, so Shutdown may return early: the exceptions of `ExitClean`;
- a gatekeeper whose goroutine is late holds the port of the next session, whose
  own listener then fails with only a log line; a process killed after a failed
  WaitReady is never waited for;
- a request that has found its grant survives the revocation of it
  (access.go:136-150), the exception of `RevokeReachesAll`;
- the clean-up at the start looks for `freerdp-proxy3`, the configuration names
  `freerdp-proxy` (config.go:62): proxies of a crashed broker stay. The
  `proxy.ini` of a session that was being set up stays, too;
- a crash between the creation and the write of the key file leaves an empty key
  that is never made again, the exception of `PairMatches`;
- tokens.go:169-170 says that the write lock is not held during an HTTP call; it is,
  during each token's own;
- with more callers at once than buffer divided by timeout, an expired token can
  be presented (`OverdueBounded` says how long expired).

In the agent and the recordings:

- an upload that failed once is never really repeated, so one lost connection
  costs a chunk; chunks are stored in the order in which their uploads finish;
- a flush that fails after Stop's leaves its events in the buffer for good;
- a completed recording takes more chunks, and an EndRecording sent twice may run
  ffmpeg on it again;
- from chunk 1000 on, names compared as strings are out of order and chunks are
  passed over (screen.go:348). With `Width = 1` and `MaxChunks = 11` the
  configuration of `agent` shows it: `AllReported` fails;
- the end of the service cancels the recorders' contexts before it stops them, so
  the last chunk of each is not reported (service_windows.go:70);
- a recorder that fails to start leaves its recording open on the broker, and is
  not tried again while the session lasts.

## Not modelled

- The interactive mode of the agent, in which ffmpeg ends with the context: it
  has one session and no detector's map.
- A crash of the agent: it keeps no state on disk but chunks that it never looks
  at again.
- The commands that install, remove and start the Windows service: calls to the
  service manager.
- What GenerateRDPFile writes and parseCookie reads: strings. The properties that
  matter are about characters, which tests reach better.
- The capture trackers: each turns the output of a script or a system call into
  events, for which `Recorder!Capture` stands.
- The credential providers (unused by the broker's main) and the reading API
  handlers: no state changes.
- The configuration of the agent, the download of ffmpeg, the web pages and the
  scripts: input, output and installation.
- `Store.Update`, which nobody calls; durations, sizes and the playlist of a
  recording.
- Memory of the Go program below the level of its locks. The fields that are read
  without one are only logged or are flags set once.

## Plan

The core and the components around it are modelled, the safety properties of
every one are proved, and so are the three refinements. What would be worth adding
next, in this order:

1. One abstract life of a session that `SessionManager` and `Broker` both
   implement, so that what one proves may be used in the other.
2. `Agent` with the `Recorder` of each session in it instead of their two
   separate views of `Recorder.Stop`, for end-to-end delivery of chunks.
