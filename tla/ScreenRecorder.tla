--------------------------- MODULE ScreenRecorder ---------------------------
(***************************************************************************)
(* The agent's screen recorders. ffmpeg writes one chunk after the other;  *)
(* a watcher reports the chunks that are complete; a monitor has ffmpeg    *)
(* start anew when the resolution changes; Stop ends it all. Monitor and   *)
(* Stop share a mutex. The recorders are those of a service: ffmpeg runs   *)
(* in the user's session and does not end with the context.                *)
(***************************************************************************)
EXTENDS Naturals, FiniteSets

CONSTANTS Recorders,   \* one for each logon that is recorded
          MaxChunks,   \* bound: chunks of a recording
          MaxRestarts, \* bound: changes of the resolution
          Base, Width  \* names have at least Width digits to this base: chunk_%03d.ts

ASSUME ScreenAssumption ==
    /\ MaxChunks \in Nat /\ MaxRestarts \in Nat
    /\ Base \in Nat \ {0, 1} /\ Width \in Nat \ {0}

VARIABLES ffmpeg,   \* runs or not
          next,     \* number of the chunk that it will begin next
          open,     \* it is writing the chunk before that
          files,    \* numbers of the chunks on disk
          reported, \* numbers of the chunks given to onChunk
          watcher,  \* where watchChunks is
          monitor,  \* where monitorResolution is
          restarts, \* times the resolution changed
          stop,     \* where Stop is
          ctxDone   \* the recorder's context is cancelled

screenVars == <<ffmpeg, next, open, files, reported, watcher, monitor, restarts, stop, ctxDone>>

ScreenInit ==
    /\ ffmpeg = [r \in Recorders |-> FALSE]
    /\ next = [r \in Recorders |-> 0]
    /\ open = [r \in Recorders |-> FALSE]
    /\ files = [r \in Recorders |-> {}]
    /\ reported = [r \in Recorders |-> {}]
    /\ watcher = [r \in Recorders |-> "off"]
    /\ monitor = [r \in Recorders |-> "off"]
    /\ restarts = 0
    /\ stop = [r \in Recorders |-> "no"]
    /\ ctxDone = [r \in Recorders |-> FALSE]

-----------------------------------------------------------------------------
(* Names as strings *)

(* As many as %0*d prints: the fewest that hold the number, and at least Width. *)
Fits(n, k) == n < Base ^ k
Digits(n) == CHOOSE k \in Width .. Width + n : Fits(n, k) /\ \A j \in Width .. k - 1 : ~Fits(n, j)

(* chunk_100.ts, chunk_1000.ts, chunk_101.ts: digit by digit, and a prefix comes first. *)
NameLess(m, n) ==
    LET j == Digits(m)
        k == Digits(n)
    IN \/ j = k /\ m < n
       \/ j < k /\ m * Base ^ (k - j) <= n
       \/ j > k /\ m < n * Base ^ (j - k)

(* Every chunk's name has Width digits. *)
NamesHaveRoom == \A n \in 0 .. MaxChunks - 1 : Fits(n, Width)

(* lastReported: each chunk reported came after all of those before it. *)
Unreported(r, chunks) == {c \in chunks : \A d \in reported[r] : NameLess(d, c)}

-----------------------------------------------------------------------------
(* ffmpeg *)

(* nextChunk, counted when the last ffmpeg had ended, is its segment_start_number. *)
(* Mutant: one less, the last chunk is written again. *)
LaunchFFmpegBelow(r) ==
    /\ ffmpeg' = [ffmpeg EXCEPT ![r] = TRUE]
    /\ next' = [next EXCEPT ![r] = IF files[r] = {} THEN 0 ELSE Cardinality(files[r]) - 1]
    /\ UNCHANGED open
LaunchFFmpeg(r) ==
    /\ ffmpeg' = [ffmpeg EXCEPT ![r] = TRUE]
    /\ next' = [next EXCEPT ![r] = Cardinality(files[r])]
    /\ UNCHANGED open

BeginChunk(r) ==
    /\ ffmpeg[r]
    /\ next[r] < MaxChunks
    /\ stop[r] # "removed"
    /\ files' = [files EXCEPT ![r] = @ \cup {next[r]}]
    /\ next' = [next EXCEPT ![r] = @ + 1]
    /\ open' = [open EXCEPT ![r] = TRUE]
    /\ UNCHANGED <<ffmpeg, reported, watcher, monitor, restarts, stop, ctxDone>>

(* The mutex: from telling ffmpeg to quit until it has ended. *)
Held(r) == monitor[r] = "restarting" \/ stop[r] = "stopping"

(* It quits when it is told to, or is killed 10 seconds later; it may end by itself. *)
FFmpegEnds(r) ==
    /\ ffmpeg[r]
    /\ ffmpeg' = [ffmpeg EXCEPT ![r] = FALSE]
    /\ open' = [open EXCEPT ![r] = FALSE]
    /\ UNCHANGED <<next, files, reported, watcher, monitor, restarts, stop, ctxDone>>

-----------------------------------------------------------------------------
(* The recorder's goroutines *)

Start(r) ==
    /\ LaunchFFmpeg(r)
    /\ watcher' = [watcher EXCEPT ![r] = "on"]
    /\ monitor' = [monitor EXCEPT ![r] = "polling"]
    /\ UNCHANGED <<files, reported, restarts, stop, ctxDone>>

listChunks(r) == IF stop[r] = "removed" THEN {} ELSE files[r]

(* Mutant: the last chunk is taken for complete, too. *)
CompleteAll(chunks) == chunks
Complete(chunks) == {c \in chunks : \E d \in chunks : NameLess(c, d)}

WatchTick(r) ==
    /\ watcher[r] = "on"
    /\ LET new == Unreported(r, Complete(listChunks(r))) IN
          /\ new # {}
          /\ reported' = [reported EXCEPT ![r] = @ \cup new]
    /\ UNCHANGED <<ffmpeg, next, open, files, watcher, monitor, restarts, stop, ctxDone>>

(* Mutant: nothing is reported at the end. *)
WatchEndsSilently(r) ==
    /\ watcher[r] = "on" /\ ctxDone[r]
    /\ watcher' = [watcher EXCEPT ![r] = "ended"]
    /\ UNCHANGED <<ffmpeg, next, open, files, reported, monitor, restarts, stop, ctxDone>>
(* reportRemainingChunks, when the context is done. *)
WatchEnds(r) ==
    /\ watcher[r] = "on" /\ ctxDone[r]
    /\ watcher' = [watcher EXCEPT ![r] = "ended"]
    /\ reported' = [reported EXCEPT ![r] = @ \cup Unreported(r, listChunks(r))]
    /\ UNCHANGED <<ffmpeg, next, open, files, monitor, restarts, stop, ctxDone>>

(* The probe takes seconds, and select may choose the ticker though the context is done. *)
ResolutionChanges(r) ==
    /\ monitor[r] = "polling"
    /\ restarts < MaxRestarts
    /\ restarts' = restarts + 1
    /\ monitor' = [monitor EXCEPT ![r] = "changed"]
    /\ UNCHANGED <<ffmpeg, next, open, files, reported, watcher, stop, ctxDone>>

(* restartFFmpeg has the mutex and tells ffmpeg to quit. *)
RestartLocks(r) ==
    /\ monitor[r] = "changed" /\ ~Held(r)
    /\ monitor' = [monitor EXCEPT ![r] = "restarting"]
    /\ UNCHANGED <<ffmpeg, next, open, files, reported, watcher, restarts, stop, ctxDone>>

RestartLaunches(r) ==
    /\ monitor[r] = "restarting" /\ ~ffmpeg[r]
    /\ monitor' = [monitor EXCEPT ![r] = "polling"]
    /\ \/ LaunchFFmpeg(r)
       \/ UNCHANGED <<ffmpeg, next, open>>
    /\ UNCHANGED <<files, reported, watcher, restarts, stop, ctxDone>>

MonitorEnds(r) ==
    /\ monitor[r] = "polling" /\ ctxDone[r]
    /\ monitor' = [monitor EXCEPT ![r] = "ended"]
    /\ UNCHANGED <<ffmpeg, next, open, files, reported, watcher, restarts, stop, ctxDone>>

-----------------------------------------------------------------------------
(* Stop *)

CallStop(r) ==
    /\ stop' = [stop EXCEPT ![r] = "called"]
    /\ UNCHANGED <<ffmpeg, next, open, files, reported, watcher, monitor, restarts, ctxDone>>

StopLocks(r) ==
    /\ stop[r] = "called" /\ ~Held(r)
    /\ stop' = [stop EXCEPT ![r] = "stopping"]
    /\ UNCHANGED <<ffmpeg, next, open, files, reported, watcher, monitor, restarts, ctxDone>>

(* Mutant: Stop waits for the monitor, which may wait for the mutex that Stop has. *)
StopCancelsWaits(r) ==
    /\ stop[r] = "stopping" /\ ~ffmpeg[r] /\ monitor[r] # "changed"
    /\ stop' = [stop EXCEPT ![r] = "stopped"]
    /\ ctxDone' = [ctxDone EXCEPT ![r] = TRUE]
    /\ UNCHANGED <<ffmpeg, next, open, files, reported, watcher, monitor, restarts>>
(* ffmpeg has ended. *)
StopCancels(r) ==
    /\ stop[r] = "stopping" /\ ~ffmpeg[r]
    /\ stop' = [stop EXCEPT ![r] = "stopped"]
    /\ ctxDone' = [ctxDone EXCEPT ![r] = TRUE]
    /\ UNCHANGED <<ffmpeg, next, open, files, reported, watcher, monitor, restarts>>

(* The rest of Recorder.Stop: RemoveAll may fail. *)
StopReturns(r) ==
    /\ stop[r] = "stopped"
    /\ \E end \in {"removed", "kept"} : stop' = [stop EXCEPT ![r] = end]
    /\ UNCHANGED <<ffmpeg, next, open, files, reported, watcher, monitor, restarts, ctxDone>>

StopProceeds(r) == StopLocks(r) \/ StopCancels(r) \/ StopReturns(r)
HasStopped(r) == stop[r] \in {"removed", "kept"}

Screen(r) ==
    \/ BeginChunk(r) \/ FFmpegEnds(r)
    \/ WatchTick(r) \/ WatchEnds(r)
    \/ ResolutionChanges(r) \/ RestartLocks(r) \/ RestartLaunches(r) \/ MonitorEnds(r)
    \/ StopProceeds(r)

-----------------------------------------------------------------------------
(* Properties *)

ScreenTypeOK ==
    /\ ffmpeg \in [Recorders -> BOOLEAN] /\ open \in [Recorders -> BOOLEAN]
    /\ next \in [Recorders -> 0 .. MaxChunks]
    /\ files \in [Recorders -> SUBSET (0 .. MaxChunks - 1)]
    /\ reported \in [Recorders -> SUBSET (0 .. MaxChunks - 1)]
    /\ watcher \in [Recorders -> {"off", "on", "ended"}]
    /\ monitor \in [Recorders -> {"off", "polling", "changed", "restarting", "ended"}]
    /\ restarts \in 0 .. MaxRestarts
    /\ stop \in [Recorders -> {"no", "called", "stopping", "stopped", "removed", "kept"}]
    /\ ctxDone \in [Recorders -> BOOLEAN]

(* However often ffmpeg is started, it never writes a chunk again that is on disk. *)
NothingOverwritten == \A r \in Recorders : ffmpeg[r] => next[r] \notin files[r]

(* While it watches, the watcher takes no chunk for complete that ffmpeg is writing. *)
ReportedWhole ==
    [][\A r \in Recorders :
          watcher'[r] = "on" /\ open[r] => next[r] - 1 \notin reported'[r] \ reported[r]]_screenVars

(* When Stop has ended ffmpeg, what the watcher reports then are all chunks that were left: *)
(* none falls between the watcher's last look and Stop, and none is out of its order.       *)
AllReported ==
    [][\A r \in Recorders :
          watcher[r] = "on" /\ watcher'[r] = "ended" /\ stop[r] = "stopped"
              => reported'[r] = files[r]]_screenVars

(* Stop "terminates all capture processes". *)
StoppedStays == \A r \in Recorders : HasStopped(r) => ~ffmpeg[r]
=============================================================================
