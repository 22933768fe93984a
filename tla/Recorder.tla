------------------------------ MODULE Recorder ------------------------------
(***************************************************************************)
(* The agent's recorder of one Windows session, from the moment its        *)
(* recording exists: events are buffered and flushed by a loop and by      *)
(* Stop, every chunk is uploaded by a goroutine of its own, and Stop ends  *)
(* the recording and removes the chunks. Requests and answers travel: they *)
(* may be late or lost, and their sender may give up.                      *)
(***************************************************************************)
EXTENDS RecordingStore, FiniteSets, Bags

CONSTANTS MaxEvents,  \* bound: events captured
          MaxChunks,  \* bound: chunks ffmpeg writes
          MaxFlushes, \* bound: batches sent by the loop
          MaxAttempts \* doWithRetry: 3
ASSUME BoundsAssumption ==
    /\ MaxEvents \in Nat /\ MaxChunks \in Nat /\ MaxFlushes \in Nat
    /\ MaxAttempts \in Nat \ {0}

Events   == 1 .. MaxEvents
Chunks   == 1 .. MaxChunks

(* Who sends requests: flushLoop, Stop's flush and its EndRecording, an uploader per chunk. *)
Loop        == <<"loop", 0>>
Stop        == <<"stop", 0>>
End         == <<"end", 0>>
Uploader(c) == <<"chunk", c>>
Flushers    == {Loop, Stop}
Callers     == Flushers \cup {End} \cup {Uploader(c) : c \in Chunks}


VARIABLES
    pc,        \* Recorder.Stop
    captured,  \* how many events the trackers have captured
    buffer,    \* Recorder.eventBuffer
    batch,     \* what each flusher took out of it
    flushes,   \* how many batches the loop has sent
    loop,      \* flushLoop runs
    gone,      \* Recorder.gone
    chunk,     \* what became of each chunk
    disk,      \* outputDir is there
    attempt,   \* attempts of EndRecording made
    call,      \* the callers that wait for an answer, and the answers
    net        \* requests on their way to the broker, or waiting for Store.mu there

eventVars == <<captured, buffer, batch, flushes, loop>>
stopVars  == <<pc, attempt>>
wireVars  == <<call, net>>
vars == <<storeVars, eventVars, stopVars, gone, chunk, disk, wireVars>>

Steps  == {"recording", "cancelled", "flushing", "flushed", "ending", "removing", "stopped"}
Answers == {"ok", "error", "gone"}

Init ==
    /\ StoreInit
    /\ pc = "recording"
    /\ captured = 0
    /\ buffer = <<>>
    /\ batch = [f \in Flushers |-> <<>>]
    /\ flushes = 0
    /\ loop = TRUE
    /\ gone = FALSE
    /\ chunk = [c \in Chunks |-> "none"]
    /\ disk = TRUE
    /\ attempt = 0
    /\ call = [x \in Callers |-> "none"]
    /\ net = EmptyBag

-----------------------------------------------------------------------------
(* Requests *)

Request(x, data) == [from |-> x, data |-> data]

Send(x, data) ==
    /\ net' = net (+) SetToBag({Request(x, data)})
    /\ call' = [call EXCEPT ![x] = "waiting"]

(* A request fails for its caller: the broker's error, a deadline, a connection *)
(* that breaks, and the caller cannot tell whether it was served. doWithRetry   *)
(* tries again, but a body that was read is not there any more, so only         *)
(* a request without one is sent again.                                         *)
Fails(x) == Faults /\ call[x] = "waiting"

Closed(x) == call' = [call EXCEPT ![x] = "none"]

(* The request's own caller, if it still waits for this one, may get the answer. *)
Awaited(r) ==
    /\ call[r.from] = "waiting"
    /\ r.from \in Flushers => batch[r.from] = r.data

Answered(r, answer) ==
    \/ Awaited(r) /\ answer # "error" /\ call' = [call EXCEPT ![r.from] = answer]
    \/ (Faults \/ ~Awaited(r)) /\ UNCHANGED call

(* The broker's handler of a request: uploadChunk, sendEvents, endRecording. (A  *)
(* request that is lost is one that fails at once and whose answer is lost.)     *)
Serve(r) ==
    /\ net' = net (-) SetToBag({r})
    /\ \E answer \in Answers :
          /\ \/ Unreadable(answer)
             \/ \E c \in Chunks : r.from = Uploader(c) /\ AppendChunk(c, answer)
             \/ r.from \in Flushers /\ AppendEvents(r.data, answer)
             \/ r.from = End /\ Finalize(answer)
          /\ Answered(r, answer)
    /\ UNCHANGED <<eventVars, stopVars, gone, chunk, disk>>

DeleteRecording == Delete /\ UNCHANGED <<eventVars, stopVars, gone, chunk, disk, wireVars>>

Broker == DeleteRecording \/ \E r \in BagToSet(net) : Serve(r)

-----------------------------------------------------------------------------
(* Events *)

(* A tracker hands an event over; one may still do so after its cancellation. *)
Capture ==
    /\ captured < MaxEvents
    /\ pc # "stopped"
    /\ captured' = captured + 1
    /\ buffer' = Append(buffer, captured')
    /\ UNCHANGED <<storeVars, batch, flushes, loop, stopVars, gone, chunk, disk, wireVars>>

(* flushEvents up to SendEvents *)
Flush(f) ==
    /\ ~gone /\ buffer # <<>>
    /\ batch' = [batch EXCEPT ![f] = buffer]
    /\ buffer' = <<>>
    /\ Send(f, buffer)
    /\ UNCHANGED <<storeVars, captured, loop, gone, chunk, disk>>

FlushLoop ==
    /\ loop /\ call[Loop] = "none"
    /\ flushes < MaxFlushes
    /\ flushes' = flushes + 1
    /\ Flush(Loop)
    /\ UNCHANGED stopVars

FlushLoopEnds ==
    /\ loop
    /\ pc # "recording"
    /\ call[Loop] = "none"
    /\ loop' = FALSE
    /\ UNCHANGED <<storeVars, captured, buffer, batch, flushes, stopVars, gone, chunk, disk, wireVars>>

(* The flush is over; for Stop's, Stop goes on. *)
FlushDone(f) ==
    /\ Closed(f)
    /\ batch' = [batch EXCEPT ![f] = <<>>]
    /\ pc' = IF f = Stop THEN "flushed" ELSE pc
    /\ UNCHANGED <<storeVars, captured, flushes, loop, attempt, chunk, disk, net>>

Flushed(f) ==
    /\ call[f] = "ok"
    /\ FlushDone(f)
    /\ UNCHANGED <<buffer, gone>>

(* markGone *)
FlushGone(f) ==
    /\ call[f] = "gone"
    /\ FlushDone(f)
    /\ gone' = TRUE
    /\ buffer' = <<>>

(* The events are put back in front. Mutant: newer ones are overwritten. *)
PutBackOver(f) == buffer' = batch[f]
PutBack(f) == buffer' = batch[f] \o buffer

FlushFails(f) ==
    /\ Fails(f)
    /\ FlushDone(f)
    /\ PutBack(f)
    /\ UNCHANGED gone

EventStep ==
    \/ Capture \/ FlushLoop \/ FlushLoopEnds
    \/ \E f \in Flushers : Flushed(f) \/ FlushGone(f) \/ FlushFails(f)

-----------------------------------------------------------------------------
(* Chunks *)

SetChunk(c, what) == chunk' = [chunk EXCEPT ![c] = what]

(* ffmpeg begins the next chunk. *)
WriteChunk(c) ==
    /\ pc = "recording"
    /\ chunk[c] = "none"
    /\ \A d \in 1 .. c - 1 : chunk[d] # "none"
    /\ SetChunk(c, "written")
    /\ UNCHANGED <<storeVars, eventVars, stopVars, gone, disk, wireVars>>

(* watchChunks reports a chunk that a newer one follows, or any after the cancellation: *)
(* handleChunk starts an uploader.                                                      *)
ReportChunk(c) ==
    /\ disk
    /\ chunk[c] = "written"
    /\ \A d \in 1 .. c - 1 : chunk[d] # "written"
    /\ pc # "recording" \/ \E d \in Chunks : d > c /\ chunk[d] # "none"
    /\ SetChunk(c, "reported")
    /\ UNCHANGED <<storeVars, eventVars, stopVars, gone, disk, wireVars>>

(* The uploader looks at gone and opens the file. *)
Upload(c) ==
    /\ chunk[c] = "reported"
    /\ ~gone /\ disk
    /\ SetChunk(c, "uploading")
    /\ Send(Uploader(c), <<>>)
    /\ UNCHANGED <<storeVars, eventVars, stopVars, gone, disk>>

UploadNot(c) ==
    /\ chunk[c] = "reported"
    /\ gone \/ ~disk
    /\ SetChunk(c, "over")
    /\ UNCHANGED <<storeVars, eventVars, stopVars, gone, disk, wireVars>>

UploadDone(c) ==
    /\ chunk[c] = "uploading"
    /\ Closed(Uploader(c))
    /\ SetChunk(c, "over")
    /\ UNCHANGED <<storeVars, captured, batch, flushes, loop, stopVars, disk, net>>

Uploaded(c) == call[Uploader(c)] = "ok" /\ UploadDone(c) /\ UNCHANGED <<buffer, gone>>

UploadGone(c) == call[Uploader(c)] = "gone" /\ UploadDone(c) /\ gone' = TRUE /\ buffer' = <<>>

(* It is not tried again: the first attempt has closed the file.   *)
(* Mutant: the file is opened anew for another attempt.            *)
UploadFailsReopens(c) ==
    /\ Fails(Uploader(c))
    /\ chunk[c] = "uploading"
    /\ Closed(Uploader(c))
    /\ SetChunk(c, "reported")
    /\ UNCHANGED <<storeVars, captured, batch, flushes, loop, stopVars, disk, net, buffer, gone>>
UploadFails(c) == Fails(Uploader(c)) /\ UploadDone(c) /\ UNCHANGED <<buffer, gone>>

ChunkStep ==
    \E c \in Chunks :
        \/ WriteChunk(c) \/ ReportChunk(c) \/ Upload(c) \/ UploadNot(c)
        \/ Uploaded(c) \/ UploadGone(c) \/ UploadFails(c)

-----------------------------------------------------------------------------
(* Stop *)

(* The screen recorder has finished its last chunk, the trackers are told to stop. *)
StopCaptures ==
    /\ pc = "recording"
    /\ pc' = "cancelled"
    /\ UNCHANGED <<storeVars, eventVars, attempt, gone, chunk, disk, wireVars>>

StopFlushes ==
    /\ pc = "cancelled"
    /\ \/ Flush(Stop) /\ pc' = "flushing" /\ UNCHANGED flushes
       \/ /\ gone \/ buffer = <<>>
          /\ pc' = "flushed"
          /\ UNCHANGED <<storeVars, eventVars, gone, chunk, disk, wireVars>>
    /\ UNCHANGED attempt

(* EndRecording, unless the recording is gone ... *)
SendEnd ==
    /\ attempt' = attempt + 1
    /\ pc' = "ending"
    /\ Send(End, <<>>)

StopEnds ==
    /\ pc = "flushed"
    /\ IF gone THEN pc' = "removing" /\ UNCHANGED <<attempt, wireVars>> ELSE SendEnd
    /\ UNCHANGED <<storeVars, eventVars, gone, chunk, disk>>

(* ... tried up to three times, or until its context ends. *)
EndRetries ==
    /\ pc = "ending"
    /\ Fails(End)
    /\ attempt < MaxAttempts
    /\ SendEnd
    /\ UNCHANGED <<storeVars, eventVars, gone, chunk, disk>>

EndReturns ==
    /\ pc = "ending"
    /\ call[End] \in {"ok", "gone"} \/ Fails(End)
    /\ pc' = "removing"
    /\ Closed(End)
    /\ UNCHANGED <<storeVars, eventVars, attempt, gone, chunk, disk, net>>

StopReturns ==
    /\ pc = "removing"
    /\ pc' = "stopped"
    /\ disk' = FALSE
    /\ UNCHANGED <<storeVars, eventVars, attempt, gone, chunk, wireVars>>

StopStep == StopCaptures \/ StopFlushes \/ StopEnds \/ EndRetries \/ EndReturns \/ StopReturns

-----------------------------------------------------------------------------
Next == Broker \/ EventStep \/ ChunkStep \/ StopStep

Spec == Init /\ [][Next]_vars

-----------------------------------------------------------------------------
(* Properties *)

TypeOK ==
    /\ kept \in BOOLEAN /\ torn \in BOOLEAN
    /\ status \in {"recording", "completed"}
    /\ chunkCount \in 0 .. MaxChunks
    /\ eventCount \in Nat
    /\ files \in Seq(Chunks \cup {Partial})
    /\ log \in Seq(Events)
    /\ video \in Seq(Chunks \cup {Partial})
    /\ pc \in Steps
    /\ captured \in 0 .. MaxEvents
    /\ buffer \in Seq(Events)
    /\ batch \in [Flushers -> Seq(Events)]
    /\ flushes \in 0 .. MaxFlushes
    /\ loop \in BOOLEAN /\ gone \in BOOLEAN /\ disk \in BOOLEAN
    /\ chunk \in [Chunks -> {"none", "written", "reported", "uploading", "over"}]
    /\ attempt \in 0 .. MaxAttempts
    /\ call \in [Callers -> {"none", "waiting", "ok", "gone"}]
    /\ \A r \in BagToSet(net) : r.from \in Callers

(* A recording is completed only with the chunks it counts put together, all of  *)
(* them whole. (Afterwards this may cease to be so: AppendChunk does not look at *)
(* the status, and an EndRecording that is sent twice runs ffmpeg again when     *)
(* the first found no chunk; if that fails, a completed recording has a torn     *)
(* video.)                                                                       *)
CompletesWithVideo ==
    [][kept' /\ status' = "completed" /\ status # "completed" =>
          /\ video' = SubSeq(files, 1, chunkCount)
          /\ ~Contains(video', Partial)]_vars

(* A chunk whose upload failed after it had been stored is not stored again. *)
ChunkStoredOnce ==
    (kept /\ ~torn) => \A i, j \in 1 .. chunkCount : files[i] = files[j] => i = j

(* While the recording exists every event captured is still to be sent, is on its  *)
(* way or is stored, whichever of the two flushes fails, however late its answer.  *)
(* (It may be stored twice, and what is put back after Stop's flush stays unsent.) *)
NoEventLost ==
    kept => \A e \in 1 .. captured :
                Contains(buffer, e) \/ Contains(log, e) \/ \E f \in Flushers : Contains(batch[f], e)

ArchiveState   == CASE ~kept -> "gone" [] kept /\ torn -> "torn" [] OTHER -> "kept"
ArchivedChunks == IF Readable THEN SubSeq(files, 1, chunkCount) ELSE <<>>
ToldChunks     == {c \in Chunks : call[Uploader(c)] = "ok"}
ToldEvents     == UNION {Range(batch[f]) : f \in {g \in Flushers : call[g] = "ok"}}

(* RecordingArchive has no requests, no failures and no files. *)
Archive == INSTANCE RecordingArchive
              WITH state <- ArchiveState, chunks <- ArchivedChunks, events <- Range(log),
                   toldChunks <- ToldChunks, toldEvents <- ToldEvents

(* Agent, network and store together implement RecordingArchive: whatever fails, chunks *)
(* are only added, each once, and what the agent was told is stored is there.           *)
ImplementsArchive == Archive!Spec

(* "Stop terminates all capture processes and uploads remaining data": every chunk *)
(* is in the video when Stop returns.                                              *)
StopUploadsAll ==
    pc = "stopped" => \A c \in Chunks : chunk[c] # "none" => Contains(video, c)
=============================================================================
