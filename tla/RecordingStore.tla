--------------------------- MODULE RecordingStore ---------------------------
(***************************************************************************)
(* One recording in the broker's recording store: what is in its directory *)
(* and what each request of the recordings API makes of it. Store.mu makes *)
(* a request one step; a request that fails (a full disk, ffmpeg, a crash) *)
(* leaves behind what it had written.                                      *)
(*                                                                         *)
(* An operation is an action with the answer its caller would get: "ok",   *)
(* "error" (500, or the broker died) or "gone" (404).                      *)
(***************************************************************************)
EXTENDS Naturals, Sequences, SequencesExt

CONSTANT Faults  \* FALSE: nothing fails and nobody deletes the recording
ASSUME FaultsAssumption == Faults \in BOOLEAN

VARIABLES
    kept,        \* the recording's directory, with its metadata.json, is there
    torn,        \* metadata.json was truncated by a write that failed
    status,      \* Recording.Status
    chunkCount,  \* Recording.ChunkCount
    eventCount,  \* Recording.EventCount
    files,       \* chunks/000.ts, 001.ts, ...: the chunk each holds
    log,         \* events.jsonl
    video        \* video.mp4: the chunks it is made of, <<>> if there is none

metaVars  == <<torn, status, chunkCount, eventCount>>
storeVars == <<kept, metaVars, files, log, video>>

Partial == 0  \* stands for a chunk of which not everything was written

StoreInit ==
    /\ kept = TRUE
    /\ torn = FALSE
    /\ status = "recording"
    /\ chunkCount = 0
    /\ eventCount = 0
    /\ files = <<>>
    /\ log = <<>>
    /\ video = <<>>

(* readMetadata fails: no file, or one that is not JSON. *)
Unreadable(answer) ==
    /\ answer = IF kept THEN "error" ELSE "gone"
    /\ ~kept \/ torn
    /\ UNCHANGED storeVars

(* Mutant: metadata that do not parse are taken for those of a new recording. *)
ReadableTorn == kept
Readable == kept /\ ~torn

(* The metadata is not there, or not readable. *)
NoMetadata == status' = "recording" /\ chunkCount' = 0 /\ eventCount' = 0

(* writeMetadata truncates the file and writes it anew; either may fail. *)
WriteFails(answer) ==
    /\ Faults
    /\ answer = "error"
    /\ UNCHANGED metaVars \/ (torn' = TRUE /\ NoMetadata)

(* The file that os.Create makes or overwrites. *)
NextFile(c) == SubSeq(files, 1, chunkCount) \o <<c>>

(* Mutant: counted before the data is there. *)
CopyFailsCounted(answer) ==
    /\ Faults
    /\ answer = "error"
    /\ files' = NextFile(Partial)
    /\ chunkCount' = chunkCount + 1
    /\ UNCHANGED <<torn, status, eventCount>>
CopyFails(answer) ==
    /\ Faults
    /\ answer = "error"
    /\ files' \in {files, NextFile(Partial)}
    /\ UNCHANGED metaVars

AppendChunk(c, answer) ==
    /\ Readable
    /\ \/ CopyFails(answer)
       \/ files' = NextFile(c) /\ WriteFails(answer)
       \/ /\ answer = "ok"
          /\ files' = NextFile(c)
          /\ chunkCount' = chunkCount + 1
          /\ UNCHANGED <<torn, status, eventCount>>
    /\ UNCHANGED <<kept, log, video>>

(* The events are appended one by one, the metadata follows. *)
EncodeFails(batch, answer) ==
    /\ Faults
    /\ answer = "error"
    /\ \E n \in 0 .. Len(batch) : log' = log \o SubSeq(batch, 1, n)
    /\ UNCHANGED metaVars

AppendEvents(batch, answer) ==
    /\ Readable
    /\ \/ EncodeFails(batch, answer)
       \/ log' = log \o batch /\ WriteFails(answer)
       \/ /\ answer = "ok"
          /\ log' = log \o batch
          /\ eventCount' = eventCount + Len(batch)
          /\ UNCHANGED <<torn, status, chunkCount>>
    /\ UNCHANGED <<kept, files, video>>

(* ffmpeg fails: by itself, perhaps half way, or because video.mp4 exists. *)
(* Mutant: its exit code is not looked at.                                 *)
ConcatIgnored(answer) ==
    /\ Faults
    /\ answer = "ok"
    /\ video = <<>>
    /\ video' = <<Partial>>
    /\ status' = "completed"
    /\ UNCHANGED <<torn, chunkCount, eventCount>>
ConcatFails(answer) ==
    /\ answer = "error"
    /\ \/ video # <<>> /\ UNCHANGED video
       \/ Faults /\ video = <<>> /\ video' \in {<<>>, <<Partial>>}
    /\ UNCHANGED metaVars

(* The chunks that are counted, put together, or no video if there are none. *)
Concat ==
    \/ chunkCount = 0 /\ UNCHANGED video
    \/ chunkCount > 0 /\ video = <<>> /\ video' = SubSeq(files, 1, chunkCount)

Finalize(answer) ==
    /\ Readable
    /\ \/ chunkCount > 0 /\ ConcatFails(answer)
       \/ Concat /\ WriteFails(answer)
       \/ /\ Concat
          /\ answer = "ok"
          /\ status' = "completed"
          /\ UNCHANGED <<torn, chunkCount, eventCount>>
    /\ UNCHANGED <<kept, files, log>>

(* DELETE /api/recordings/{id}; os.RemoveAll does all of it. *)
Delete ==
    /\ Faults
    /\ kept
    /\ kept' = FALSE
    /\ files' = <<>> /\ log' = <<>> /\ video' = <<>>
    /\ torn' = FALSE /\ NoMetadata

-----------------------------------------------------------------------------
(* What the metadata counts is there, whole: a failure in the middle of a request, *)
(* and the next request that overwrites what it left, never leave a counted chunk  *)
(* half written or an event counted that is not in the file.                       *)
CountedIsStored ==
    (kept /\ ~torn) =>
        /\ eventCount <= Len(log)
        /\ chunkCount <= Len(files)
        /\ \A i \in 1 .. chunkCount : files[i] # Partial
=============================================================================
