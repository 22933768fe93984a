--------------------------- MODULE RecorderProofs ---------------------------
(***************************************************************************)
(* The invariants of RecordingStore and Recorder, for any number of events *)
(* and chunks, any number of batches and of attempts, and whether or not   *)
(* anything fails.                                                         *)
(***************************************************************************)
EXTENDS Recorder, FiniteSetTheorems, SequenceTheorems, TLAPS

(* The store. What is counted is there, and nothing is counted of a recording *)
(* that cannot be read any more. A video was made of counted chunks.          *)
StoreTypes ==
    /\ kept \in BOOLEAN /\ torn \in BOOLEAN
    /\ status \in {"recording", "completed"}
    /\ chunkCount \in Nat
    /\ eventCount \in Nat
    /\ files \in Seq(Chunks \cup {Partial})
    /\ log \in Seq(Events)
    /\ video \in Seq(Chunks \cup {Partial})

CountsAgree ==
    /\ eventCount <= Len(log)
    /\ chunkCount <= Len(files)
    /\ \A i \in 1 .. chunkCount : files[i] # Partial
    /\ \A i, j \in 1 .. chunkCount : files[i] = files[j] => i = j
    /\ ~Readable => chunkCount = 0 /\ eventCount = 0
    /\ Readable /\ video # <<>> => chunkCount > 0

StoreInv == StoreTypes /\ CountsAgree

Counted == {files[i] : i \in 1 .. chunkCount}

(* A chunk has at most one request on its way, and none once it is counted. *)
Requests == [from : Callers, data : Seq(Events)]
UploadOf(c) == Request(Uploader(c), <<>>)

WireInv ==
    /\ IsABag(net)
    /\ BagToSet(net) \subseteq Requests
    /\ \A c \in Chunks, r \in BagToSet(net) : r.from = Uploader(c) => r = UploadOf(c) /\ net[r] = 1
    /\ \A c \in Chunks : chunk[c] \notin {"uploading", "over"} => UploadOf(c) \notin BagToSet(net) /\ c \notin Counted
    /\ \A c \in Chunks : c \in Counted => UploadOf(c) \notin BagToSet(net)

(* What the callers were told is so, and Stop's flush and its attempts have their time. *)
Covers(s, t) == \A e \in Events : Contains(s, e) => Contains(t, e)

CallInv ==
    /\ \A x \in Callers : call[x] = "gone" => ~kept
    /\ \A f \in Flushers : call[f] = "none" => batch[f] = <<>>
    /\ \A f \in Flushers : kept /\ call[f] = "ok" => Covers(batch[f], log)
    /\ call[Stop] # "none" => pc = "flushing"
    /\ pc \in {"recording", "cancelled", "flushing", "flushed"} => attempt = 0

AgentTypes ==
    /\ pc \in Steps
    /\ captured \in 0 .. MaxEvents
    /\ buffer \in Seq(Events)
    /\ batch \in [Flushers -> Seq(Events)]
    /\ flushes \in 0 .. MaxFlushes
    /\ loop \in BOOLEAN /\ gone \in BOOLEAN /\ disk \in BOOLEAN
    /\ chunk \in [Chunks -> {"none", "written", "reported", "uploading", "over"}]
    /\ attempt \in 0 .. MaxAttempts
    /\ call \in [Callers -> {"none", "waiting", "ok", "gone"}]

IndInv ==
    /\ StoreInv
    /\ AgentTypes
    /\ WireInv
    /\ CallInv
    /\ NoEventLost

-----------------------------------------------------------------------------
(* Sequences *)

LEMMA ContainsConcat ==
  ASSUME NEW S, NEW s \in Seq(S), NEW t \in Seq(S), NEW e
  PROVE  Contains(s \o t, e) <=> Contains(s, e) \/ Contains(t, e)
<1>1. ASSUME Contains(s \o t, e) PROVE Contains(s, e) \/ Contains(t, e)
  <2>1. PICK i \in 1 .. Len(s \o t) : (s \o t)[i] = e
    BY <1>1 DEF Contains
  <2>2. CASE i <= Len(s)
    BY <2>1, <2>2 DEF Contains
  <2>3. CASE i > Len(s)
    <3>1. i - Len(s) \in 1 .. Len(t) /\ t[i - Len(s)] = e
      BY <2>1, <2>3
    <3>2. QED
      BY <3>1 DEF Contains
  <2>4. QED
    BY <2>1, <2>2, <2>3
<1>2. ASSUME Contains(s, e) PROVE Contains(s \o t, e)
  <2>1. PICK i \in 1 .. Len(s) : s[i] = e
    BY <1>2 DEF Contains
  <2>2. i \in 1 .. Len(s \o t) /\ (s \o t)[i] = e
    BY <2>1
  <2>3. QED
    BY <2>2 DEF Contains
<1>3. ASSUME Contains(t, e) PROVE Contains(s \o t, e)
  <2>1. PICK i \in 1 .. Len(t) : t[i] = e
    BY <1>3 DEF Contains
  <2>2. i + Len(s) \in 1 .. Len(s \o t) /\ (s \o t)[i + Len(s)] = e
    BY <2>1
  <2>3. QED
    BY <2>2 DEF Contains
<1>4. QED
  BY <1>1, <1>2, <1>3

LEMMA ContainsAppend ==
  ASSUME NEW S, NEW s \in Seq(S), NEW x \in S, NEW e
  PROVE  Contains(Append(s, x), e) <=> Contains(s, e) \/ e = x
<1>1. Append(s, x) = s \o <<x>> /\ <<x>> \in Seq(S)
  OBVIOUS
<1>2. Contains(<<x>>, e) <=> e = x
  BY DEF Contains
<1>3. Contains(s \o <<x>>, e) <=> Contains(s, e) \/ Contains(<<x>>, e)
  BY <1>1, ContainsConcat
<1>4. QED
  BY <1>1, <1>2, <1>3

(* The file that AppendChunk writes comes after those that are counted. *)
LEMMA NextFileIs ==
  ASSUME StoreTypes, chunkCount <= Len(files), NEW c \in Chunks \cup {Partial}
  PROVE  /\ NextFile(c) \in Seq(Chunks \cup {Partial})
         /\ Len(NextFile(c)) = chunkCount + 1
         /\ \A i \in 1 .. chunkCount : NextFile(c)[i] = files[i]
         /\ NextFile(c)[chunkCount + 1] = c
<1>1. SubSeq(files, 1, chunkCount) \in Seq(Chunks \cup {Partial})
  BY SubSeqProperties DEF StoreTypes
<1>2. Len(SubSeq(files, 1, chunkCount)) = chunkCount
  BY SubSeqProperties DEF StoreTypes
<1>3. \A i \in 1 .. chunkCount : SubSeq(files, 1, chunkCount)[i] = files[i]
  BY SubSeqProperties DEF StoreTypes
<1>4. QED
  BY <1>1, <1>2, <1>3 DEF NextFile, StoreTypes

-----------------------------------------------------------------------------
(* The store's operations *)

(* An operation that fails, or has nothing to read, counts nothing new. *)
LEMMA MetadataWrites ==
  ASSUME StoreTypes, NEW answer, WriteFails(answer)
  PROVE  /\ torn' \in BOOLEAN /\ status' \in {"recording", "completed"}
         /\ \/ torn' = torn /\ chunkCount' = chunkCount /\ eventCount' = eventCount
            \/ torn' = TRUE /\ chunkCount' = 0 /\ eventCount' = 0
         /\ answer = "error"
BY DEF WriteFails, NoMetadata, metaVars, StoreTypes

(* AppendChunk counts no chunk but its own, and writes over none that is counted. *)
LEMMA AppendChunkKeeps ==
  ASSUME StoreInv, NEW c \in Chunks, c \notin Counted, NEW answer, AppendChunk(c, answer)
  PROVE  /\ StoreInv'
         /\ Counted' \subseteq Counted \cup {c}
         /\ kept' = kept /\ log' = log
         /\ answer \in {"ok", "error"}
<1>1. StoreTypes /\ CountsAgree /\ Partial \notin Chunks /\ Readable
  BY DEF StoreInv, AppendChunk, Chunks, Partial
<1>2. kept' = kept /\ log' = log /\ video' = video
  BY DEF AppendChunk
<1>3. \A d \in Chunks \cup {Partial} :
          /\ NextFile(d) \in Seq(Chunks \cup {Partial})
          /\ Len(NextFile(d)) = chunkCount + 1
          /\ \A i \in 1 .. chunkCount : NextFile(d)[i] = files[i]
          /\ NextFile(d)[chunkCount + 1] = d
  BY <1>1, NextFileIs DEF CountsAgree
<1>4. CASE CopyFails(answer)
  <2>1. torn' = torn /\ status' = status /\ chunkCount' = chunkCount /\ eventCount' = eventCount
    BY <1>4 DEF CopyFails, metaVars
  <2>2. /\ files' \in Seq(Chunks \cup {Partial})
        /\ chunkCount <= Len(files')
        /\ \A i \in 1 .. chunkCount : files'[i] = files[i]
    <3>1. CASE files' = files
      BY <1>1, <3>1 DEF StoreTypes, CountsAgree
    <3>2. CASE files' = NextFile(Partial)
      BY <1>1, <1>3, <3>2 DEF StoreTypes
    <3>3. QED
      BY <1>4, <3>1, <3>2 DEF CopyFails
  <2>3. StoreTypes'
    BY <1>1, <1>2, <2>1, <2>2 DEF StoreTypes
  <2>4. CountsAgree'
    BY <1>1, <1>2, <2>1, <2>2 DEF CountsAgree, StoreTypes, Readable
  <2>5. Counted' = Counted
    BY <2>1, <2>2 DEF Counted
  <2>6. QED
    BY <1>2, <1>4, <2>3, <2>4, <2>5 DEF CopyFails, StoreInv
<1>5. CASE files' = NextFile(c) /\ WriteFails(answer)
  <2>1. /\ torn' \in BOOLEAN /\ status' \in {"recording", "completed"}
        /\ \/ torn' = torn /\ chunkCount' = chunkCount /\ eventCount' = eventCount
           \/ torn' = TRUE /\ chunkCount' = 0 /\ eventCount' = 0
        /\ answer = "error"
    BY <1>1, <1>5, MetadataWrites
  <2>2. /\ files' \in Seq(Chunks \cup {Partial})
        /\ chunkCount <= Len(files')
        /\ \A i \in 1 .. chunkCount : files'[i] = files[i]
    BY <1>1, <1>3, <1>5 DEF StoreTypes
  <2>3. StoreTypes'
    BY <1>1, <1>2, <2>1, <2>2 DEF StoreTypes
  <2>4. CountsAgree'
    BY <1>1, <1>2, <2>1, <2>2 DEF CountsAgree, StoreTypes, Readable
  <2>5. Counted' \subseteq Counted
    <3>1. CASE chunkCount' = chunkCount
      BY <2>2, <3>1 DEF Counted
    <3>2. CASE chunkCount' = 0
      BY <3>2 DEF Counted
    <3>3. QED
      BY <2>1, <3>1, <3>2
  <2>6. QED
    BY <1>2, <2>1, <2>3, <2>4, <2>5 DEF StoreInv
<1>6. CASE /\ answer = "ok" /\ files' = NextFile(c) /\ chunkCount' = chunkCount + 1
           /\ UNCHANGED <<torn, status, eventCount>>
  <2>1. StoreTypes'
    BY <1>1, <1>2, <1>3, <1>6 DEF StoreTypes
  <2>2. \A i \in 1 .. chunkCount' : i \in 1 .. chunkCount \/ i = chunkCount + 1
    BY <1>1, <1>6 DEF StoreTypes
  <2>3. \A i \in 1 .. chunkCount : files'[i] = files[i] /\ files[i] # c /\ files[i] # Partial
    BY <1>1, <1>3, <1>6 DEF Counted, CountsAgree
  <2>4. files'[chunkCount + 1] = c /\ Len(files') = chunkCount'
    BY <1>1, <1>3, <1>6
  <2>5. CountsAgree'
    <3>1. eventCount' <= Len(log') /\ chunkCount' <= Len(files')
      BY <1>1, <1>2, <1>6, <2>1, <2>4 DEF CountsAgree, StoreTypes
    <3>2. \A i \in 1 .. chunkCount' : files'[i] # Partial
      BY <1>1, <2>2, <2>3, <2>4
    <3>3. \A i, j \in 1 .. chunkCount' : files'[i] = files'[j] => i = j
      BY <1>1, <2>2, <2>3, <2>4 DEF CountsAgree
    <3>4. Readable' /\ chunkCount' > 0
      BY <1>1, <1>2, <1>6 DEF Readable, StoreTypes
    <3>5. QED
      BY <3>1, <3>2, <3>3, <3>4 DEF CountsAgree
  <2>6. Counted' \subseteq Counted \cup {c}
    BY <2>2, <2>3, <2>4 DEF Counted
  <2>7. QED
    BY <1>2, <1>6, <2>1, <2>5, <2>6 DEF StoreInv
<1>7. QED
  BY <1>4, <1>5, <1>6 DEF AppendChunk

(* AppendEvents adds to the file, the whole batch if it answers "ok". *)
LEMMA AppendEventsKeeps ==
  ASSUME StoreInv, NEW b \in Seq(Events), NEW answer, AppendEvents(b, answer)
  PROVE  /\ StoreInv'
         /\ chunkCount' \in {chunkCount, 0} /\ files' = files
         /\ kept' = kept
         /\ Covers(log, log')
         /\ answer \in {"ok", "error"}
         /\ answer = "ok" => Covers(b, log')
<1>1. StoreTypes /\ CountsAgree /\ Readable
  BY DEF StoreInv, AppendEvents
<1>2. kept' = kept /\ files' = files /\ video' = video
  BY DEF AppendEvents
<1>3. /\ torn' \in BOOLEAN /\ status' \in {"recording", "completed"}
      /\ \/ torn' = torn /\ chunkCount' = chunkCount
         \/ torn' = TRUE /\ chunkCount' = 0 /\ eventCount' = 0
      /\ answer \in {"ok", "error"}
  <2>1. CASE EncodeFails(b, answer)
    BY <1>1, <2>1 DEF EncodeFails, metaVars, StoreTypes
  <2>2. CASE WriteFails(answer)
    BY <1>1, <2>2, MetadataWrites
  <2>3. CASE answer = "ok" /\ UNCHANGED <<torn, status, chunkCount>>
    BY <1>1, <2>3 DEF StoreTypes
  <2>4. QED
    BY <2>1, <2>2, <2>3 DEF AppendEvents
<1>4. /\ log' \in Seq(Events)
      /\ eventCount' \in Nat /\ eventCount' <= Len(log')
      /\ Covers(log, log')
      /\ answer = "ok" => Covers(b, log')
  <2>1. CASE EncodeFails(b, answer)
    <3>1. PICK n \in 0 .. Len(b) : log' = log \o SubSeq(b, 1, n)
      BY <2>1 DEF EncodeFails
    <3>2. SubSeq(b, 1, n) \in Seq(Events)
      BY SubSeqProperties
    <3>3. eventCount' = eventCount /\ answer = "error"
      BY <2>1 DEF EncodeFails, metaVars
    <3>4. Len(log') >= Len(log) /\ log' \in Seq(Events)
      BY <1>1, <3>1, <3>2 DEF StoreTypes
    <3>5. \A e \in Events : Contains(log', e) <=> Contains(log, e) \/ Contains(SubSeq(b, 1, n), e)
      BY <1>1, <3>1, <3>2, ContainsConcat DEF StoreTypes
    <3>6. QED
      BY <1>1, <3>3, <3>4, <3>5 DEF StoreTypes, CountsAgree, Covers
  <2>2. CASE log' = log \o b /\ eventCount' \in {eventCount, 0, eventCount + Len(b)}
    <3>1. Len(log') = Len(log) + Len(b) /\ log' \in Seq(Events) /\ Len(b) \in Nat
      BY <1>1, <2>2 DEF StoreTypes
    <3>2. \A e \in Events : Contains(log', e) <=> Contains(log, e) \/ Contains(b, e)
      BY <1>1, <2>2, ContainsConcat DEF StoreTypes
    <3>3. eventCount \in Nat /\ eventCount <= Len(log) /\ Len(log) \in Nat
      BY <1>1 DEF StoreTypes, CountsAgree
    <3>4. eventCount' \in Nat /\ eventCount' <= Len(log')
      BY <2>2, <3>1, <3>3
    <3>5. QED
      BY <3>1, <3>2, <3>4 DEF Covers
  <2>3. WriteFails(answer) => eventCount' \in {eventCount, 0}
    BY <1>1, MetadataWrites
  <2>4. QED
    BY <2>1, <2>2, <2>3 DEF AppendEvents
<1>5. StoreTypes'
  BY <1>1, <1>2, <1>3, <1>4 DEF StoreTypes
<1>6. CountsAgree'
  <2>1. ~Readable' => chunkCount' = 0 /\ eventCount' = 0
    BY <1>1, <1>2, <1>3 DEF Readable, CountsAgree
  <2>2. Readable' => chunkCount' = chunkCount
    BY <1>3 DEF Readable
  <2>3. QED
    BY <1>1, <1>2, <1>3, <1>4, <2>1, <2>2 DEF CountsAgree, StoreTypes
<1>7. QED
  BY <1>2, <1>3, <1>4, <1>5, <1>6 DEF StoreInv

(* Finalize counts nothing and leaves chunks and events alone. *)
LEMMA FinalizeKeeps ==
  ASSUME StoreInv, NEW answer, Finalize(answer)
  PROVE  /\ StoreInv'
         /\ chunkCount' \in {chunkCount, 0} /\ files' = files
         /\ kept' = kept /\ log' = log
         /\ answer \in {"ok", "error"}
<1>1. StoreTypes /\ CountsAgree /\ Readable
  BY DEF StoreInv, Finalize
<1>2. kept' = kept /\ files' = files /\ log' = log
  BY DEF Finalize
<1>3. /\ torn' \in BOOLEAN /\ status' \in {"recording", "completed"}
      /\ \/ torn' = torn /\ chunkCount' = chunkCount /\ eventCount' = eventCount
         \/ torn' = TRUE /\ chunkCount' = 0 /\ eventCount' = 0
      /\ answer \in {"ok", "error"}
  <2>1. CASE ConcatFails(answer)
    BY <1>1, <2>1 DEF ConcatFails, metaVars, StoreTypes
  <2>2. CASE WriteFails(answer)
    BY <1>1, <2>2, MetadataWrites
  <2>3. CASE answer = "ok" /\ status' = "completed" /\ UNCHANGED <<torn, chunkCount, eventCount>>
    BY <1>1, <2>3 DEF StoreTypes
  <2>4. QED
    BY <2>1, <2>2, <2>3 DEF Finalize
<1>4. video' \in Seq(Chunks \cup {Partial}) /\ (video' # <<>> => video # <<>> \/ chunkCount > 0)
  <2>1. CASE chunkCount > 0 /\ ConcatFails(answer)
    <3>1. <<Partial>> \in Seq(Chunks \cup {Partial}) /\ <<>> \in Seq(Chunks \cup {Partial})
      OBVIOUS
    <3>2. QED
      BY <1>1, <2>1, <3>1 DEF ConcatFails, StoreTypes
  <2>2. CASE Concat
    <3>1. SubSeq(files, 1, chunkCount) \in Seq(Chunks \cup {Partial})
      BY <1>1, SubSeqProperties DEF StoreTypes, CountsAgree
    <3>2. QED
      BY <1>1, <2>2, <3>1 DEF Concat, StoreTypes
  <2>3. QED
    BY <2>1, <2>2 DEF Finalize
<1>5. StoreTypes'
  BY <1>1, <1>2, <1>3, <1>4 DEF StoreTypes
<1>6. CountsAgree'
  BY <1>1, <1>2, <1>3, <1>4 DEF CountsAgree, StoreTypes, Readable
<1>7. QED
  BY <1>2, <1>3, <1>5, <1>6 DEF StoreInv

LEMMA DeleteKeeps ==
  ASSUME StoreInv, Delete
  PROVE  StoreInv' /\ chunkCount' = 0 /\ ~kept'
<1>1. /\ kept' = FALSE /\ torn' = FALSE /\ status' = "recording"
      /\ chunkCount' = 0 /\ eventCount' = 0
      /\ files' = <<>> /\ log' = <<>> /\ video' = <<>>
  BY DEF Delete, NoMetadata
<1>2. Len(files') = 0 /\ Len(log') = 0
  BY <1>1
<1>3. StoreTypes'
  <2>1. <<>> \in Seq(Chunks \cup {Partial}) /\ <<>> \in Seq(Events)
    OBVIOUS
  <2>2. QED
    BY <1>1, <2>1 DEF StoreTypes
<1>4. CountsAgree'
  BY <1>1, <1>2 DEF CountsAgree, Readable
<1>5. QED
  BY <1>1, <1>3, <1>4 DEF StoreInv

-----------------------------------------------------------------------------
(* Requests on their way *)

LEMMA BagAdd ==
  ASSUME NEW B, IsABag(B), NEW r
  PROVE  /\ IsABag(B (+) SetToBag({r}))
         /\ BagToSet(B (+) SetToBag({r})) = BagToSet(B) \cup {r}
         /\ \A q \in BagToSet(B) : q # r => (B (+) SetToBag({r}))[q] = B[q]
         /\ r \notin BagToSet(B) => (B (+) SetToBag({r}))[r] = 1
BY DEF IsABag, BagToSet, SetToBag, (+)

LEMMA BagTake ==
  ASSUME NEW B, IsABag(B), NEW r \in BagToSet(B)
  PROVE  /\ IsABag(B (-) SetToBag({r}))
         /\ BagToSet(B (-) SetToBag({r})) \subseteq BagToSet(B)
         /\ \A q \in BagToSet(B) : q # r => (B (-) SetToBag({r}))[q] = B[q]
         /\ B[r] = 1 => r \notin BagToSet(B (-) SetToBag({r}))
BY DEF IsABag, BagToSet, SetToBag, (-)

LEMMA Kinds ==
  /\ Loop \in Flushers /\ Stop \in Flushers /\ Loop # Stop
  /\ Flushers \subseteq Callers
  /\ End \in Callers /\ End \notin Flushers
  /\ \A c \in Chunks : Uploader(c) \in Callers /\ Uploader(c) \notin Flushers /\ Uploader(c) # End
  /\ \A c, d \in Chunks : Uploader(c) = Uploader(d) => c = d
BY DEF Loop, Stop, End, Uploader, Flushers, Callers

LEMMA RequestTypes ==
  /\ \A x \in Callers, s \in Seq(Events) :
        Request(x, s) \in Requests /\ Request(x, s).from = x /\ Request(x, s).data = s
  /\ \A c \in Chunks : UploadOf(c) \in Requests /\ UploadOf(c).from = Uploader(c)
<1>1. \A x \in Callers, s \in Seq(Events) :
        Request(x, s) \in Requests /\ Request(x, s).from = x /\ Request(x, s).data = s
  BY DEF Request, Requests
<1>2. <<>> \in Seq(Events)
  OBVIOUS
<1>3. QED
  BY <1>1, <1>2, Kinds DEF UploadOf

(* A request sent by anyone but an uploader. *)
LEMMA SendKeepsWire ==
  ASSUME WireInv, NEW x \in Callers, \A c \in Chunks : x # Uploader(c),
         NEW data \in Seq(Events), Send(x, data),
         UNCHANGED <<chunk, files, chunkCount>>
  PROVE  WireInv'
<1> DEFINE r == Request(x, data)
<1>1. r \in Requests /\ r.from = x
  BY RequestTypes
<1>2. \A c \in Chunks : r # UploadOf(c)
  BY <1>1, RequestTypes
<1>3. net' = net (+) SetToBag({r})
  BY DEF Send
<1> HIDE DEF r
<1>4. /\ IsABag(net')
      /\ BagToSet(net') = BagToSet(net) \cup {r}
      /\ \A q \in BagToSet(net) : q # r => net'[q] = net[q]
  <2>1. IsABag(net)
    BY DEF WireInv
  <2>2. /\ IsABag(net (+) SetToBag({r}))
        /\ BagToSet(net (+) SetToBag({r})) = BagToSet(net) \cup {r}
        /\ \A q \in BagToSet(net) : q # r => (net (+) SetToBag({r}))[q] = net[q]
    BY <2>1, BagAdd
  <2>3. QED
    BY <1>3, <2>2
<1>5. Counted' = Counted
  BY DEF Counted
<1>6. BagToSet(net') \subseteq Requests
  BY <1>1, <1>4 DEF WireInv
<1>7. \A c \in Chunks, q \in BagToSet(net') : q.from = Uploader(c) => q = UploadOf(c) /\ net'[q] = 1
  BY <1>1, <1>2, <1>4 DEF WireInv
<1>8. \A c \in Chunks : UploadOf(c) \in BagToSet(net') <=> UploadOf(c) \in BagToSet(net)
  BY <1>2, <1>4
<1>9. QED
  BY <1>4, <1>5, <1>6, <1>7, <1>8 DEF WireInv

(* A request that is served, and the chunk it has counted, if any. *)
LEMMA ServeKeepsWire ==
  ASSUME WireInv, NEW r \in BagToSet(net), net' = net (-) SetToBag({r}), chunk' = chunk,
         \A c \in Chunks : c \in Counted' => c \in Counted \/ r.from = Uploader(c)
  PROVE  WireInv'
<1>1. /\ IsABag(net')
      /\ BagToSet(net') \subseteq BagToSet(net)
      /\ \A q \in BagToSet(net) : q # r => net'[q] = net[q]
      /\ net[r] = 1 => r \notin BagToSet(net')
  BY BagTake DEF WireInv
<1>2. \A c \in Chunks, q \in BagToSet(net') : q.from = Uploader(c) => q = UploadOf(c) /\ net'[q] = 1
  <2> SUFFICES ASSUME NEW c \in Chunks, NEW q \in BagToSet(net'), q.from = Uploader(c)
               PROVE  q = UploadOf(c) /\ net'[q] = 1
    OBVIOUS
  <2>1. q = UploadOf(c) /\ net[q] = 1
    BY <1>1 DEF WireInv
  <2>2. q # r
    BY <1>1, <2>1
  <2>3. QED
    BY <1>1, <2>1, <2>2
<1>3. \A c \in Chunks : r.from = Uploader(c) => r = UploadOf(c) /\ r \notin BagToSet(net')
  BY <1>1 DEF WireInv
<1>4. \A c \in Chunks : r.from = Uploader(c) => chunk[c] \in {"uploading", "over"}
  BY <1>3 DEF WireInv
<1>5. QED
  BY <1>1, <1>2, <1>3, <1>4 DEF WireInv

-----------------------------------------------------------------------------
(* The broker's steps *)

(* What serving a request does to the store. *)
LEMMA ServeStore ==
  ASSUME IndInv, NEW r \in BagToSet(net), NEW answer \in Answers,
         \/ Unreadable(answer)
         \/ \E c \in Chunks : r.from = Uploader(c) /\ AppendChunk(c, answer)
         \/ r.from \in Flushers /\ AppendEvents(r.data, answer)
         \/ r.from = End /\ Finalize(answer)
  PROVE  /\ StoreInv'
         /\ \A c \in Chunks : c \in Counted' => c \in Counted \/ r.from = Uploader(c)
         /\ kept' = kept
         /\ Covers(log, log')
         /\ answer = "gone" => ~kept
         /\ answer = "ok" /\ r.from \in Flushers => Covers(r.data, log')
<1>1. StoreInv /\ WireInv /\ r \in Requests
  BY DEF IndInv, WireInv
<1>2. CASE Unreadable(answer)
  <2>1. UNCHANGED storeVars /\ answer \in {"error", "gone"} /\ (answer = "gone" => ~kept)
    BY <1>2 DEF Unreadable
  <2>2. StoreInv' /\ Counted' = Counted /\ Covers(log, log')
    BY <1>1, <2>1 DEF storeVars, metaVars, StoreInv, StoreTypes, CountsAgree, Readable, Counted, Covers
  <2>3. QED
    BY <2>1, <2>2 DEF storeVars
<1>3. ASSUME NEW c \in Chunks, r.from = Uploader(c), AppendChunk(c, answer)
      PROVE  /\ StoreInv'
             /\ \A d \in Chunks : d \in Counted' => d \in Counted \/ r.from = Uploader(d)
             /\ kept' = kept /\ log' = log
             /\ answer \in {"ok", "error"} /\ r.from \notin Flushers
  <2>1. c \notin Counted
    BY <1>1, <1>3 DEF WireInv
  <2>2. /\ StoreInv'
        /\ Counted' \subseteq Counted \cup {c}
        /\ kept' = kept /\ log' = log
        /\ answer \in {"ok", "error"}
    BY <1>1, <1>3, <2>1, AppendChunkKeeps
  <2>3. QED
    BY <1>3, <2>2, Kinds
<1>4. ASSUME r.from \in Flushers, AppendEvents(r.data, answer)
      PROVE  /\ StoreInv' /\ Counted' \subseteq Counted
             /\ kept' = kept
             /\ Covers(log, log')
             /\ answer \in {"ok", "error"}
             /\ answer = "ok" => Covers(r.data, log')
  <2>1. r.data \in Seq(Events)
    BY <1>1 DEF Requests
  <2>2. /\ StoreInv'
        /\ chunkCount' \in {chunkCount, 0} /\ files' = files
        /\ kept' = kept
        /\ Covers(log, log')
        /\ answer \in {"ok", "error"}
        /\ answer = "ok" => Covers(r.data, log')
    BY <1>1, <1>4, <2>1, AppendEventsKeeps
  <2>3. Counted' \subseteq Counted
    <3>1. CASE chunkCount' = chunkCount
      BY <2>2, <3>1 DEF Counted
    <3>2. CASE chunkCount' = 0
      BY <3>2 DEF Counted
    <3>3. QED
      BY <2>2, <3>1, <3>2
  <2>4. QED
    BY <2>2, <2>3
<1>5. ASSUME r.from = End, Finalize(answer)
      PROVE  /\ StoreInv' /\ Counted' \subseteq Counted
             /\ kept' = kept /\ log' = log
             /\ answer \in {"ok", "error"} /\ r.from \notin Flushers
  <2>1. /\ StoreInv'
        /\ chunkCount' \in {chunkCount, 0} /\ files' = files
        /\ kept' = kept /\ log' = log
        /\ answer \in {"ok", "error"}
    BY <1>1, <1>5, FinalizeKeeps
  <2>2. Counted' \subseteq Counted
    <3>1. CASE chunkCount' = chunkCount
      BY <2>1, <3>1 DEF Counted
    <3>2. CASE chunkCount' = 0
      BY <3>2 DEF Counted
    <3>3. QED
      BY <2>1, <3>1, <3>2
  <2>3. QED
    BY <1>5, <2>1, <2>2, Kinds
<1>6. log' = log => Covers(log, log')
  BY DEF Covers
<1>7. QED
  BY <1>2, <1>3, <1>4, <1>5, <1>6

(* Nothing is lost while the log grows and buffer and batches stay. *)
LEMMA LogGrows ==
  ASSUME IndInv, kept' = kept, Covers(log, log'), UNCHANGED <<captured, buffer, batch>>
  PROVE  NoEventLost'
<1>1. \A e \in 1 .. captured : e \in Events
  BY BoundsAssumption DEF IndInv, AgentTypes, Events
<1>2. QED
  BY <1>1 DEF IndInv, NoEventLost, Covers

LEMMA ServeKeeps ==
  ASSUME IndInv, NEW r \in BagToSet(net), Serve(r)
  PROVE  IndInv'
<1>1. PICK answer \in Answers :
        /\ \/ Unreadable(answer)
           \/ \E c \in Chunks : r.from = Uploader(c) /\ AppendChunk(c, answer)
           \/ r.from \in Flushers /\ AppendEvents(r.data, answer)
           \/ r.from = End /\ Finalize(answer)
        /\ Answered(r, answer)
  BY DEF Serve
<1>2. net' = net (-) SetToBag({r}) /\ UNCHANGED <<eventVars, stopVars, gone, chunk, disk>>
  BY DEF Serve
<1>3. /\ StoreInv'
      /\ \A c \in Chunks : c \in Counted' => c \in Counted \/ r.from = Uploader(c)
      /\ kept' = kept
      /\ Covers(log, log')
      /\ answer = "gone" => ~kept
      /\ answer = "ok" /\ r.from \in Flushers => Covers(r.data, log')
  BY <1>1, ServeStore
<1>4. WireInv'
  BY <1>2, <1>3, ServeKeepsWire DEF IndInv
<1>5. NoEventLost'
  BY <1>2, <1>3, LogGrows DEF eventVars
<1>6. r.from \in Callers
  BY DEF IndInv, WireInv, Requests
<1>7. \/ call' = call
      \/ /\ call' = [call EXCEPT ![r.from] = answer]
         /\ answer \in {"ok", "gone"}
         /\ call[r.from] = "waiting"
         /\ r.from \in Flushers => batch[r.from] = r.data
  BY <1>1 DEF Answered, Awaited, Answers
<1>8. AgentTypes'
  BY <1>2, <1>6, <1>7 DEF IndInv, AgentTypes, eventVars, stopVars
<1>9. CallInv'
  <2>1. \A f \in Flushers : kept /\ call'[f] = "ok" => Covers(batch[f], log')
    <3> SUFFICES ASSUME NEW f \in Flushers, kept, call'[f] = "ok" PROVE Covers(batch[f], log')
      OBVIOUS
    <3>1. CASE call[f] = "ok"
      BY <3>1, <1>3 DEF IndInv, CallInv, Covers
    <3>2. CASE call[f] # "ok"
      BY <3>2, <1>3, <1>6, <1>7, Kinds DEF IndInv, AgentTypes
    <3>3. QED
      BY <3>1, <3>2
  <2>2. \A x \in Callers : call'[x] = "gone" => ~kept
    BY <1>3, <1>6, <1>7 DEF IndInv, CallInv, AgentTypes
  <2>3. \A x \in Callers : call'[x] = "none" <=> call[x] = "none"
    BY <1>6, <1>7 DEF IndInv, AgentTypes
  <2>4. QED
    BY <1>2, <1>3, <2>1, <2>2, <2>3, Kinds DEF IndInv, CallInv, eventVars, stopVars
<1>10. QED
  BY <1>3, <1>4, <1>5, <1>8, <1>9 DEF IndInv

LEMMA DeleteRecordingKeeps ==
  ASSUME IndInv, DeleteRecording
  PROVE  IndInv'
<1>1. StoreInv' /\ chunkCount' = 0 /\ ~kept'
  BY DeleteKeeps DEF IndInv, DeleteRecording
<1>2. UNCHANGED <<eventVars, stopVars, gone, chunk, disk, wireVars>>
  BY DEF DeleteRecording
<1>3. Counted' = {}
  BY <1>1 DEF Counted
<1>4. WireInv'
  BY <1>2, <1>3 DEF IndInv, WireInv, wireVars
<1>5. AgentTypes'
  BY <1>2 DEF IndInv, AgentTypes, eventVars, stopVars, wireVars
<1>6. CallInv'
  BY <1>1, <1>2 DEF IndInv, CallInv, eventVars, stopVars, wireVars
<1>7. NoEventLost'
  BY <1>1 DEF NoEventLost
<1>8. QED
  BY <1>1, <1>4, <1>5, <1>6, <1>7 DEF IndInv

-----------------------------------------------------------------------------
(* The agent's steps leave the store alone. *)
LEMMA StoreStays ==
  ASSUME StoreInv, UNCHANGED storeVars
  PROVE  /\ StoreInv' /\ Counted' = Counted
         /\ UNCHANGED <<kept, log, files, chunkCount>>
BY DEF storeVars, metaVars, StoreInv, StoreTypes, CountsAgree, Readable, Counted

(* Nor do most of them change what travels, or the chunks. *)
LEMMA WireStays ==
  ASSUME WireInv, UNCHANGED <<net, chunk, files, chunkCount>>
  PROVE  WireInv'
<1>1. Counted' = Counted
  BY DEF Counted
<1>2. QED
  BY <1>1 DEF WireInv

LEMMA CaptureKeeps ==
  ASSUME IndInv, Capture
  PROVE  IndInv'
<1> USE DEF Capture, eventVars, stopVars, wireVars
<1>1. StoreInv' /\ UNCHANGED <<kept, log, files, chunkCount>>
  BY StoreStays DEF IndInv
<1>2. WireInv'
  BY <1>1, WireStays DEF IndInv
<1>3. captured' \in Events /\ buffer \in Seq(Events) /\ captured \in Nat /\ captured' = captured + 1
  BY BoundsAssumption DEF IndInv, AgentTypes, Events
<1>4. AgentTypes'
  BY <1>3, BoundsAssumption DEF IndInv, AgentTypes
<1>5. CallInv'
  BY <1>1 DEF IndInv, CallInv
<1>6. \A e \in Events : Contains(buffer', e) <=> Contains(buffer, e) \/ e = captured'
  BY <1>3, ContainsAppend
<1>7. \A e \in 1 .. captured' : e \in Events /\ (e \in 1 .. captured \/ e = captured')
  BY <1>3, BoundsAssumption DEF Events
<1>8. NoEventLost'
  BY <1>1, <1>6, <1>7 DEF IndInv, NoEventLost
<1>9. QED
  BY <1>1, <1>2, <1>4, <1>5, <1>8 DEF IndInv

(* A flush takes the whole buffer; its flusher had no batch. *)
LEMMA FlushKeeps ==
  ASSUME IndInv, NEW f \in Flushers, call[f] = "none", Flush(f),
         pc' \in Steps, flushes' \in 0 .. MaxFlushes, attempt' = attempt,
         \/ f = Stop /\ pc = "cancelled" /\ pc' = "flushing"
         \/ f # Stop /\ pc' = pc
  PROVE  IndInv'
<1> USE DEF Flush
<1>1. StoreInv' /\ UNCHANGED <<kept, log, files, chunkCount>>
  BY StoreStays DEF IndInv
<1>2. f \in Callers /\ \A c \in Chunks : f # Uploader(c)
  BY Kinds
<1>3. buffer \in Seq(Events) /\ Send(f, buffer) /\ WireInv
  BY DEF IndInv, AgentTypes
<1>4. WireInv'
  BY <1>1, <1>2, <1>3, SendKeepsWire
<1>5. /\ call' = [call EXCEPT ![f] = "waiting"]
      /\ batch' = [batch EXCEPT ![f] = buffer]
      /\ buffer' = <<>> /\ <<>> \in Seq(Events)
  BY DEF Send
<1>6. AgentTypes'
  BY <1>2, <1>3, <1>5 DEF IndInv, AgentTypes
<1>7. CallInv'
  <2>1. \A g \in Flushers : kept' /\ call'[g] = "ok" => Covers(batch'[g], log')
    BY <1>1, <1>2, <1>5, Kinds DEF IndInv, CallInv, AgentTypes
  <2>2. \A g \in Flushers : call'[g] = "none" => batch'[g] = <<>>
    BY <1>2, <1>5, Kinds DEF IndInv, CallInv, AgentTypes
  <2>3. \A x \in Callers : call'[x] = "gone" => ~kept'
    BY <1>1, <1>2, <1>5 DEF IndInv, CallInv, AgentTypes
  <2>4. call'[Stop] # "none" => pc' = "flushing"
    BY <1>2, <1>5, Kinds DEF IndInv, CallInv, AgentTypes
  <2>5. pc' \in {"recording", "cancelled", "flushing", "flushed"} => attempt' = 0
    BY DEF IndInv, CallInv
  <2>6. QED
    BY <2>1, <2>2, <2>3, <2>4, <2>5 DEF CallInv
<1>8. NoEventLost'
  <2>1. batch[f] = <<>>
    BY DEF IndInv, CallInv
  <2>2. batch'[f] = buffer /\ \A g \in Flushers : g # f => batch'[g] = batch[g]
    BY <1>5 DEF IndInv, AgentTypes
  <2>3. \A e : ~Contains(batch[f], e)
    BY <2>1 DEF Contains
  <2>4. \A e \in 1 .. captured :
          (Contains(buffer, e) \/ Contains(log, e) \/ \E g \in Flushers : Contains(batch[g], e))
            => Contains(log, e) \/ \E g \in Flushers : Contains(batch'[g], e)
    BY <2>2, <2>3
  <2>5. QED
    BY <1>1, <2>4 DEF IndInv, NoEventLost
<1>9. QED
  BY <1>1, <1>4, <1>6, <1>7, <1>8 DEF IndInv

(* When a flush is over its events are stored, or in the buffer again, or the recording is gone. *)
LEMMA FlushDoneKeeps ==
  ASSUME IndInv, NEW f \in Flushers, call[f] # "none", FlushDone(f), gone' \in BOOLEAN,
         buffer' \in Seq(Events),
         \/ ~kept
         \/ buffer' = buffer /\ Covers(batch[f], log)
         \/ buffer' = batch[f] \o buffer
  PROVE  IndInv'
<1> USE DEF FlushDone, Closed
<1>1. StoreInv' /\ UNCHANGED <<kept, log, files, chunkCount>>
  BY StoreStays DEF IndInv
<1>2. WireInv'
  BY <1>1, WireStays DEF IndInv
<1>3. f \in Callers /\ <<>> \in Seq(Events)
  BY Kinds
<1>4. f = Stop => pc = "flushing"
  BY DEF IndInv, CallInv
<1>5. AgentTypes'
  BY <1>3, Kinds DEF IndInv, AgentTypes, Steps
<1>6. CallInv'
  <2>1. \A g \in Flushers : kept' /\ call'[g] = "ok" => Covers(batch'[g], log')
    BY <1>1, <1>3, Kinds DEF IndInv, CallInv, AgentTypes
  <2>2. \A g \in Flushers : call'[g] = "none" => batch'[g] = <<>>
    BY <1>3, Kinds DEF IndInv, CallInv, AgentTypes
  <2>3. \A x \in Callers : call'[x] = "gone" => ~kept'
    BY <1>1, <1>3 DEF IndInv, CallInv, AgentTypes
  <2>4. call'[Stop] # "none" => pc' = "flushing"
    BY <1>3, Kinds DEF IndInv, CallInv, AgentTypes
  <2>5. pc' \in {"recording", "cancelled", "flushing", "flushed"} => attempt' = 0
    BY <1>4 DEF IndInv, CallInv
  <2>6. QED
    BY <2>1, <2>2, <2>3, <2>4, <2>5 DEF CallInv
<1>7. NoEventLost'
  <2> SUFFICES ASSUME kept', NEW e \in 1 .. captured'
               PROVE  Contains(buffer', e) \/ Contains(log', e) \/ \E g \in Flushers : Contains(batch'[g], e)
    BY DEF NoEventLost
  <2>1. kept /\ e \in 1 .. captured /\ e \in Events
    BY <1>1, BoundsAssumption DEF IndInv, AgentTypes, Events
  <2>2. Contains(buffer, e) \/ Contains(log, e) \/ \E g \in Flushers : Contains(batch[g], e)
    BY <2>1 DEF IndInv, NoEventLost
  <2>3. \A g \in Flushers : g # f => batch'[g] = batch[g]
    BY DEF IndInv, AgentTypes
  <2>4. CASE buffer' = buffer /\ Covers(batch[f], log)
    BY <1>1, <2>1, <2>2, <2>3, <2>4 DEF Covers
  <2>5. CASE buffer' = batch[f] \o buffer
    <3>1. Contains(buffer', e) <=> Contains(batch[f], e) \/ Contains(buffer, e)
      BY <2>5, ContainsConcat DEF IndInv, AgentTypes
    <3>2. QED
      BY <1>1, <2>2, <2>3, <3>1
  <2>6. QED
    BY <2>1, <2>4, <2>5
<1>8. QED
  BY <1>1, <1>2, <1>5, <1>6, <1>7 DEF IndInv

LEMMA EventStepKeeps ==
  ASSUME IndInv, EventStep
  PROVE  IndInv'
<1>1. CASE Capture
  BY <1>1, CaptureKeeps
<1>2. CASE FlushLoop
  <2>1. pc' = pc /\ attempt' = attempt /\ flushes' = flushes + 1
    BY <1>2 DEF FlushLoop, stopVars
  <2>2. pc' \in Steps /\ flushes' \in 0 .. MaxFlushes
    BY <1>2, <2>1, BoundsAssumption DEF FlushLoop, IndInv, AgentTypes
  <2>3. QED
    BY <1>2, <2>1, <2>2, FlushKeeps, Kinds DEF FlushLoop
<1>3. CASE FlushLoopEnds
  <2> USE <1>3 DEF FlushLoopEnds, stopVars, wireVars
  <2>1. StoreInv' /\ UNCHANGED <<kept, log, files, chunkCount>>
    BY StoreStays DEF IndInv
  <2>2. WireInv'
    BY <2>1, WireStays DEF IndInv
  <2>3. AgentTypes'
    BY DEF IndInv, AgentTypes
  <2>4. CallInv' /\ NoEventLost'
    BY <2>1 DEF IndInv, CallInv, NoEventLost
  <2>5. QED
    BY <2>1, <2>2, <2>3, <2>4 DEF IndInv
<1>4. ASSUME NEW f \in Flushers, Flushed(f) \/ FlushGone(f) \/ FlushFails(f)
      PROVE  IndInv'
  <2>1. f \in Callers /\ FlushDone(f) /\ call[f] # "none"
    BY <1>4, Kinds DEF Flushed, FlushGone, FlushFails, Fails
  <2>2. /\ gone' \in BOOLEAN /\ buffer' \in Seq(Events)
        /\ \/ ~kept
           \/ buffer' = buffer /\ Covers(batch[f], log)
           \/ buffer' = batch[f] \o buffer
    <3>1. CASE Flushed(f)
      BY <3>1 DEF Flushed, IndInv, AgentTypes, CallInv
    <3>2. CASE FlushGone(f)
      BY <3>2, <2>1 DEF FlushGone, IndInv, CallInv
    <3>3. CASE FlushFails(f)
      BY <3>3 DEF FlushFails, PutBack, IndInv, AgentTypes
    <3>4. QED
      BY <1>4, <3>1, <3>2, <3>3
  <2>3. QED
    BY <2>1, <2>2, FlushDoneKeeps
<1>5. QED
  BY <1>1, <1>2, <1>3, <1>4 DEF EventStep

(* A chunk's steps without a request: the chunk is not counted before it is sent, *)
(* and stays sent. What is dropped from the buffer belongs to no recording.       *)
LEMMA ChunkMoves ==
  ASSUME IndInv, NEW c \in Chunks, NEW what \in {"written", "reported", "over"}, SetChunk(c, what),
         chunk[c] \in {"uploading", "over"} => what = "over",
         UNCHANGED <<storeVars, captured, batch, flushes, loop, stopVars, disk, net>>,
         call' = call \/ Closed(Uploader(c)),
         gone' \in BOOLEAN,
         buffer' = buffer \/ (~kept /\ buffer' = <<>>)
  PROVE  IndInv'
<1> USE DEF SetChunk, stopVars
<1>1. StoreInv' /\ Counted' = Counted /\ UNCHANGED <<kept, log, files, chunkCount>>
  BY StoreStays DEF IndInv
<1>2. \A d \in Chunks : chunk'[d] = IF d = c THEN what ELSE chunk[d]
  BY DEF IndInv, AgentTypes
<1>3. WireInv'
  BY <1>1, <1>2 DEF IndInv, WireInv
<1>4. Uploader(c) \in Callers /\ Uploader(c) \notin Flushers /\ <<>> \in Seq(Events)
  BY Kinds
<1>5. AgentTypes'
  BY <1>4 DEF IndInv, AgentTypes, Closed
<1>6. \A x \in Callers : call'[x] = call[x] \/ (x = Uploader(c) /\ call'[x] = "none")
  BY <1>4 DEF Closed, IndInv, AgentTypes
<1>7. CallInv'
  BY <1>1, <1>4, <1>6, Kinds DEF IndInv, CallInv
<1>8. NoEventLost'
  BY <1>1 DEF IndInv, NoEventLost
<1>9. QED
  BY <1>1, <1>3, <1>5, <1>7, <1>8 DEF IndInv

(* The one request a chunk gets. *)
LEMMA UploadKeeps ==
  ASSUME IndInv, NEW c \in Chunks, Upload(c)
  PROVE  IndInv'
<1> USE DEF Upload, SetChunk, eventVars, stopVars
<1>1. StoreInv' /\ Counted' = Counted /\ UNCHANGED <<kept, log, files, chunkCount>>
  BY StoreStays DEF IndInv
<1>2. UploadOf(c) \in Requests /\ UploadOf(c).from = Uploader(c)
  BY RequestTypes
<1>3. UploadOf(c) \notin BagToSet(net) /\ c \notin Counted
  BY DEF IndInv, WireInv
<1>4. net' = net (+) SetToBag({UploadOf(c)}) /\ call' = [call EXCEPT ![Uploader(c)] = "waiting"]
  BY DEF Send, UploadOf
<1>5. /\ IsABag(net')
      /\ BagToSet(net') = BagToSet(net) \cup {UploadOf(c)}
      /\ \A q \in BagToSet(net) : q # UploadOf(c) => net'[q] = net[q]
      /\ net'[UploadOf(c)] = 1
  <2>1. IsABag(net)
    BY DEF IndInv, WireInv
  <2>2. /\ IsABag(net (+) SetToBag({UploadOf(c)}))
        /\ BagToSet(net (+) SetToBag({UploadOf(c)})) = BagToSet(net) \cup {UploadOf(c)}
        /\ \A q \in BagToSet(net) : q # UploadOf(c) => (net (+) SetToBag({UploadOf(c)}))[q] = net[q]
        /\ (net (+) SetToBag({UploadOf(c)}))[UploadOf(c)] = 1
    BY <1>3, <2>1, BagAdd
  <2>3. QED
    BY <1>4, <2>2
<1>6. chunk' = [chunk EXCEPT ![c] = "uploading"]
  OBVIOUS
<1>7. \A d \in Chunks : chunk'[d] = IF d = c THEN "uploading" ELSE chunk[d]
  BY <1>6 DEF IndInv, AgentTypes
<1>8. \A d \in Chunks : UploadOf(d) = UploadOf(c) => d = c
  BY RequestTypes, Kinds
<1>9. WireInv'
  <2>1. BagToSet(net') \subseteq Requests
    BY <1>2, <1>5 DEF IndInv, WireInv
  <2>2. \A d \in Chunks, r \in BagToSet(net') : r.from = Uploader(d) => r = UploadOf(d) /\ net'[r] = 1
    BY <1>2, <1>3, <1>5, Kinds DEF IndInv, WireInv
  <2>3. \A d \in Chunks : d # c => (UploadOf(d) \in BagToSet(net') <=> UploadOf(d) \in BagToSet(net))
    BY <1>5, <1>8
  <2>4. QED
    BY <1>1, <1>3, <1>5, <1>7, <2>1, <2>2, <2>3 DEF IndInv, WireInv
<1>10. Uploader(c) \in Callers /\ Uploader(c) \notin Flushers
  BY Kinds
<1>11. AgentTypes'
  BY <1>4, <1>6, <1>10 DEF IndInv, AgentTypes
<1>12. CallInv'
  <2>1. \A x \in Callers : call'[x] = IF x = Uploader(c) THEN "waiting" ELSE call[x]
    BY <1>4, <1>10 DEF IndInv, AgentTypes
  <2>2. QED
    BY <1>1, <1>10, <2>1, Kinds DEF IndInv, CallInv
<1>13. NoEventLost'
  BY <1>1 DEF IndInv, NoEventLost
<1>14. QED
  BY <1>1, <1>9, <1>11, <1>12, <1>13 DEF IndInv

LEMMA ChunkStepKeeps ==
  ASSUME IndInv, ChunkStep
  PROVE  IndInv'
<1> SUFFICES ASSUME NEW c \in Chunks,
                    \/ WriteChunk(c) \/ ReportChunk(c) \/ Upload(c) \/ UploadNot(c)
                    \/ Uploaded(c) \/ UploadGone(c) \/ UploadFails(c)
             PROVE  IndInv'
  BY DEF ChunkStep
<1> USE DEF eventVars, stopVars, wireVars
<1>1. gone \in BOOLEAN
  BY DEF IndInv, AgentTypes
<1>2. CASE WriteChunk(c)
  BY <1>1, <1>2, ChunkMoves DEF WriteChunk
<1>3. CASE ReportChunk(c)
  BY <1>1, <1>3, ChunkMoves DEF ReportChunk
<1>4. CASE Upload(c)
  BY <1>4, UploadKeeps
<1>5. CASE UploadNot(c)
  BY <1>1, <1>5, ChunkMoves DEF UploadNot
<1>6. CASE Uploaded(c)
  BY <1>1, <1>6, ChunkMoves DEF Uploaded, UploadDone
<1>7. CASE UploadGone(c)
  <2>1. ~kept
    BY <1>7, Kinds DEF UploadGone, IndInv, CallInv
  <2>2. QED
    BY <1>7, <2>1, ChunkMoves DEF UploadGone, UploadDone
<1>8. CASE UploadFails(c)
  BY <1>1, <1>8, ChunkMoves DEF UploadFails, UploadDone
<1>9. QED
  BY <1>2, <1>3, <1>4, <1>5, <1>6, <1>7, <1>8

(* A step of Stop that sends nothing. *)
LEMMA StopMoves ==
  ASSUME IndInv, pc' \in Steps, attempt' = attempt, disk' \in BOOLEAN,
         UNCHANGED <<storeVars, eventVars, gone, chunk, net>>,
         call' = call \/ Closed(End),
         pc # "flushing",
         pc' \in {"recording", "cancelled", "flushing", "flushed"} =>
             pc \in {"recording", "cancelled", "flushing", "flushed"}
  PROVE  IndInv'
<1> USE DEF eventVars
<1>1. StoreInv' /\ UNCHANGED <<kept, log, files, chunkCount>>
  BY StoreStays DEF IndInv
<1>2. WireInv'
  BY <1>1, WireStays DEF IndInv
<1>3. AgentTypes'
  BY Kinds DEF IndInv, AgentTypes, Closed
<1>4. \A x \in Callers : call'[x] = call[x] \/ (x = End /\ call'[x] = "none")
  BY Kinds DEF Closed, IndInv, AgentTypes
<1>5. CallInv'
  BY <1>1, <1>4, Kinds DEF IndInv, CallInv
<1>6. NoEventLost'
  BY <1>1 DEF IndInv, NoEventLost
<1>7. QED
  BY <1>1, <1>2, <1>3, <1>5, <1>6 DEF IndInv

LEMMA SendEndKeeps ==
  ASSUME IndInv, SendEnd, pc # "flushing", attempt < MaxAttempts,
         UNCHANGED <<storeVars, eventVars, gone, chunk, disk>>
  PROVE  IndInv'
<1> USE DEF eventVars
<1>1. StoreInv' /\ UNCHANGED <<kept, log, files, chunkCount>>
  BY StoreStays DEF IndInv
<1>2. Send(End, <<>>) /\ pc' = "ending" /\ attempt' = attempt + 1
  BY DEF SendEnd
<1>3. End \in Callers /\ End \notin Flushers /\ \A c \in Chunks : End # Uploader(c)
  BY Kinds
<1>4. <<>> \in Seq(Events) /\ WireInv
  BY DEF IndInv
<1>5. WireInv'
  BY <1>1, <1>2, <1>3, <1>4, SendKeepsWire
<1>6. call' = [call EXCEPT ![End] = "waiting"]
  BY <1>2 DEF Send
<1>7. AgentTypes'
  BY <1>2, <1>3, <1>6, BoundsAssumption DEF IndInv, AgentTypes, Steps
<1>8. \A x \in Callers : call'[x] = IF x = End THEN "waiting" ELSE call[x]
  BY <1>3, <1>6 DEF IndInv, AgentTypes
<1>9. CallInv'
  BY <1>1, <1>2, <1>3, <1>8, Kinds DEF IndInv, CallInv
<1>10. NoEventLost'
  BY <1>1 DEF IndInv, NoEventLost
<1>11. QED
  BY <1>1, <1>5, <1>7, <1>9, <1>10 DEF IndInv

LEMMA StopStepKeeps ==
  ASSUME IndInv, StopStep
  PROVE  IndInv'
<1> USE DEF wireVars
<1>1. disk \in BOOLEAN /\ pc \in Steps
  BY DEF IndInv, AgentTypes
<1>2. CASE StopCaptures
  BY <1>1, <1>2, StopMoves DEF StopCaptures, Steps
<1>3. CASE StopFlushes
  <2>1. CASE Flush(Stop) /\ pc' = "flushing" /\ UNCHANGED flushes
    <3>1. pc = "cancelled" /\ attempt' = attempt
      BY <1>3 DEF StopFlushes
    <3>2. call[Stop] = "none"
      BY <3>1 DEF IndInv, CallInv
    <3>3. pc' \in Steps /\ flushes' \in 0 .. MaxFlushes
      BY <2>1 DEF Steps, IndInv, AgentTypes
    <3>4. Stop \in Flushers
      BY Kinds
    <3>5. QED
      BY <2>1, <3>1, <3>2, <3>3, <3>4, FlushKeeps
  <2>2. CASE pc' = "flushed" /\ UNCHANGED <<storeVars, eventVars, gone, chunk, disk, wireVars>>
    BY <1>1, <1>3, <2>2, StopMoves DEF StopFlushes, Steps
  <2>3. QED
    BY <1>3, <2>1, <2>2 DEF StopFlushes
<1>4. CASE StopEnds
  <2>1. CASE gone
    BY <1>1, <1>4, <2>1, StopMoves DEF StopEnds, Steps
  <2>2. CASE ~gone
    <3>1. attempt < MaxAttempts
      BY <1>4, BoundsAssumption DEF StopEnds, IndInv, CallInv
    <3>2. QED
      BY <1>4, <2>2, <3>1, SendEndKeeps DEF StopEnds
  <2>3. QED
    BY <2>1, <2>2
<1>5. CASE EndRetries
  BY <1>5, SendEndKeeps DEF EndRetries
<1>6. CASE EndReturns
  BY <1>1, <1>6, StopMoves DEF EndReturns, Steps
<1>7. CASE StopReturns
  BY <1>1, <1>7, StopMoves DEF StopReturns, Steps
<1>8. QED
  BY <1>2, <1>3, <1>4, <1>5, <1>6, <1>7 DEF StopStep

-----------------------------------------------------------------------------
LEMMA InitInv == Init => IndInv
<1> SUFFICES ASSUME Init PROVE IndInv
  OBVIOUS
<1>1. /\ kept = TRUE /\ torn = FALSE /\ status = "recording" /\ chunkCount = 0 /\ eventCount = 0
      /\ files = <<>> /\ log = <<>> /\ video = <<>>
  BY DEF Init, StoreInit
<1>2. <<>> \in Seq(Events) /\ <<>> \in Seq(Chunks \cup {Partial}) /\ Len(<<>>) = 0
  OBVIOUS
<1>3. StoreInv
  <2>1. StoreTypes
    BY <1>1, <1>2 DEF StoreTypes
  <2>2. Len(files) = 0 /\ Len(log) = 0 /\ chunkCount = 0 /\ eventCount = 0 /\ video = <<>>
    BY <1>1
  <2>3. CountsAgree
    BY <2>2 DEF CountsAgree
  <2>4. QED
    BY <2>1, <2>3 DEF StoreInv
<1>4. AgentTypes
  <2>1. captured = 0 /\ flushes = 0 /\ attempt = 0 /\ 0 \in 0 .. MaxEvents /\ 0 \in 0 .. MaxFlushes /\ 0 \in 0 .. MaxAttempts
    BY BoundsAssumption DEF Init
  <2>2. pc \in Steps /\ loop \in BOOLEAN /\ gone \in BOOLEAN /\ disk \in BOOLEAN
    BY DEF Init, Steps
  <2>3. buffer \in Seq(Events) /\ batch \in [Flushers -> Seq(Events)]
    BY <1>2 DEF Init
  <2>4. /\ chunk \in [Chunks -> {"none", "written", "reported", "uploading", "over"}]
        /\ call \in [Callers -> {"none", "waiting", "ok", "gone"}]
    BY DEF Init
  <2>5. QED
    BY <2>1, <2>2, <2>3, <2>4 DEF AgentTypes
<1>5. BagToSet(net) = {} /\ IsABag(net) /\ Counted = {}
  BY <1>1 DEF Init, EmptyBag, BagToSet, SetToBag, IsABag, Counted
<1>6. WireInv
  BY <1>5 DEF WireInv
<1>7. CallInv
  BY Kinds DEF Init, CallInv
<1>8. NoEventLost
  BY DEF Init, NoEventLost
<1>9. QED
  BY <1>3, <1>4, <1>6, <1>7, <1>8 DEF IndInv

LEMMA StepInv == IndInv /\ [Next]_vars => IndInv'
<1> SUFFICES ASSUME IndInv, [Next]_vars PROVE IndInv'
  OBVIOUS
<1>1. CASE UNCHANGED vars
  <2> USE <1>1 DEF vars, eventVars, stopVars, wireVars
  <2>1. StoreInv' /\ UNCHANGED <<kept, log, files, chunkCount>>
    BY StoreStays DEF IndInv
  <2>2. WireInv'
    BY <2>1, WireStays DEF IndInv
  <2>3. AgentTypes' /\ CallInv' /\ NoEventLost'
    BY <2>1 DEF IndInv, AgentTypes, CallInv, NoEventLost
  <2>4. QED
    BY <2>1, <2>2, <2>3 DEF IndInv
<1>2. CASE Next
  BY <1>2, ServeKeeps, DeleteRecordingKeeps, EventStepKeeps, ChunkStepKeeps, StopStepKeeps
  DEF Next, Broker
<1>3. QED
  BY <1>1, <1>2

LEMMA Inductive == Spec => []IndInv
<1>1. QED
  BY InitInv, StepInv, PTL DEF Spec

-----------------------------------------------------------------------------
(* Chunks that are all counted once are no more than there are. *)
LEMMA CountBounded ==
  ASSUME StoreInv
  PROVE  chunkCount \in 0 .. MaxChunks
<1> SUFFICES ASSUME chunkCount > MaxChunks PROVE FALSE
  BY BoundsAssumption DEF StoreInv, StoreTypes
<1>1. /\ chunkCount \in Nat /\ files \in Seq(Chunks \cup {Partial}) /\ chunkCount <= Len(files)
      /\ \A i \in 1 .. chunkCount : files[i] # Partial
      /\ \A i, j \in 1 .. chunkCount : files[i] = files[j] => i = j
  BY DEF StoreInv, StoreTypes, CountsAgree
<1> DEFINE at == [i \in 1 .. chunkCount |-> files[i]]
<1>2. at \in [1 .. chunkCount -> Chunks]
  BY <1>1
<1>3. IsFiniteSet(1 .. chunkCount) /\ Cardinality(1 .. chunkCount) = chunkCount
  <2>1. 1 \in Int /\ chunkCount \in Int
    BY <1>1
  <2>2. QED
    BY <1>1, <2>1, FS_Interval
<1>4. IsFiniteSet(Chunks) /\ Cardinality(Chunks) = MaxChunks
  <2>1. 1 \in Int /\ MaxChunks \in Int
    BY BoundsAssumption
  <2>2. QED
    BY <2>1, FS_Interval, BoundsAssumption DEF Chunks
<1>5. Cardinality(Chunks) < Cardinality(1 .. chunkCount)
  BY <1>3, <1>4
<1> HIDE DEF at
<1>6. PICK i, j \in 1 .. chunkCount : i # j /\ at[i] = at[j]
  BY <1>2, <1>3, <1>4, <1>5, FS_PigeonHole
<1>7. files[i] = files[j]
  BY <1>6 DEF at
<1>8. QED
  BY <1>1, <1>6, <1>7

(* Types, for any number of events and chunks; in particular the store never counts *)
(* more chunks than ffmpeg has written, whatever is sent again.                     *)
THEOREM TypeCorrect == Spec => []TypeOK
<1>1. IndInv => TypeOK
  <2> SUFFICES ASSUME IndInv PROVE TypeOK
    OBVIOUS
  <2>1. chunkCount \in 0 .. MaxChunks
    BY CountBounded DEF IndInv
  <2>2. \A r \in BagToSet(net) : r.from \in Callers
    BY DEF IndInv, WireInv, Requests
  <2>3. QED
    BY <2>1, <2>2 DEF TypeOK, IndInv, StoreInv, StoreTypes, AgentTypes
<1>2. QED
  BY <1>1, Inductive, PTL

(* Whatever fails between the writes of a request, the metadata counts only what is *)
(* stored whole (store.go, AppendChunk and AppendEvents).                           *)
THEOREM CountsStored == Spec => []CountedIsStored
<1>1. IndInv => CountedIsStored
  BY DEF IndInv, StoreInv, CountsAgree, CountedIsStored
<1>2. QED
  BY <1>1, Inductive, PTL

(* However many chunks there are and however late their requests come, none is counted *)
(* twice: an upload is not repeated when its first attempt may have been served.       *)
THEOREM StoredOnce == Spec => []ChunkStoredOnce
<1>1. IndInv => ChunkStoredOnce
  BY DEF IndInv, StoreInv, CountsAgree, ChunkStoredOnce
<1>2. QED
  BY <1>1, Inductive, PTL

(* However many events are captured and batches sent, an event is in the buffer, in a *)
(* batch or in the file while the recording exists.                                   *)
THEOREM EventsKept == Spec => []NoEventLost
<1>1. IndInv => NoEventLost
  BY DEF IndInv
<1>2. QED
  BY <1>1, Inductive, PTL

(* A recording is completed with its chunks put together, all of them whole. *)
THEOREM CompletedWhole == Spec => CompletesWithVideo
<1> DEFINE Completes ==
      kept' /\ status' = "completed" /\ status # "completed" =>
          /\ video' = SubSeq(files, 1, chunkCount)
          /\ ~Contains(video', Partial)
<1>1. IndInv /\ [Next]_vars => [Completes]_vars
  <2> SUFFICES ASSUME IndInv, Next, kept', status' = "completed", status # "completed"
               PROVE  /\ video' = SubSeq(files, 1, chunkCount)
                      /\ ~Contains(video', Partial)
    BY DEF vars, storeVars, metaVars
  <2>1. PICK r \in BagToSet(net) : Serve(r)
    BY DEF Next, Broker, DeleteRecording, Delete, EventStep, Capture, FlushLoop, Flush, FlushLoopEnds, FlushDone,
           Flushed, FlushGone, FlushFails, ChunkStep, WriteChunk, ReportChunk, Upload, UploadNot, Uploaded,
           UploadGone, UploadFails, UploadDone, StopStep, StopCaptures, StopFlushes, StopEnds, EndRetries,
           EndReturns, StopReturns, storeVars, metaVars
  <2>2. PICK answer \in Answers : Finalize(answer)
    BY <2>1 DEF Serve, Unreadable, AppendChunk, AppendEvents, CopyFails, EncodeFails, WriteFails, NoMetadata,
                storeVars, metaVars
  <2>3. Concat /\ Readable
    BY <2>2 DEF Finalize, ConcatFails, WriteFails, NoMetadata, metaVars
  <2>4. /\ StoreTypes /\ chunkCount <= Len(files)
        /\ \A i \in 1 .. chunkCount : files[i] # Partial
        /\ video # <<>> => chunkCount > 0
    BY <2>3 DEF IndInv, StoreInv, CountsAgree
  <2>5. /\ Len(SubSeq(files, 1, chunkCount)) = chunkCount
        /\ \A i \in 1 .. chunkCount : SubSeq(files, 1, chunkCount)[i] = files[i]
    BY <2>4, SubSeqProperties DEF StoreTypes
  <2>6. video' = SubSeq(files, 1, chunkCount)
    <3>1. CASE chunkCount = 0
      <4>1. video' = <<>>
        BY <2>3, <2>4, <3>1 DEF Concat
      <4>2. SubSeq(files, 1, 0) = <<>>
        BY <2>4 DEF StoreTypes
      <4>3. QED
        BY <3>1, <4>1, <4>2
    <3>2. CASE chunkCount > 0
      BY <2>3, <3>2 DEF Concat
    <3>3. QED
      BY <2>4, <3>1, <3>2 DEF StoreTypes
  <2>7. QED
    BY <2>4, <2>5, <2>6 DEF Contains
<1>2. QED
  BY <1>1, Inductive, PTL DEF Spec, CompletesWithVideo

-----------------------------------------------------------------------------
(* The recorder and the store implement RecordingArchive. *)

(* The first n elements of a sequence *)
LEMMA Prefix ==
  ASSUME NEW S, NEW f \in Seq(S), NEW n \in Nat, n <= Len(f)
  PROVE  /\ SubSeq(f, 1, n) \in Seq(S)
         /\ Len(SubSeq(f, 1, n)) = n
         /\ \A i \in 1 .. n : SubSeq(f, 1, n)[i] = f[i]
<1>1. \A i \in 1 .. n : f[i] \in S
  OBVIOUS
<1>2. QED
  BY <1>1, SubSeqProperties

LEMMA PrefixContains ==
  ASSUME NEW S, NEW f \in Seq(S), NEW n \in Nat, n <= Len(f), NEW x
  PROVE  Contains(SubSeq(f, 1, n), x) <=> \E i \in 1 .. n : f[i] = x
BY Prefix DEF Contains

LEMMA PrefixKept ==
  ASSUME NEW S, NEW f \in Seq(S), NEW g \in Seq(S), NEW n \in Nat, n <= Len(f), n <= Len(g),
         \A i \in 1 .. n : g[i] = f[i]
  PROVE  SubSeq(g, 1, n) = SubSeq(f, 1, n)
<1>1. /\ SubSeq(f, 1, n) \in Seq(S) /\ Len(SubSeq(f, 1, n)) = n
      /\ \A i \in 1 .. n : SubSeq(f, 1, n)[i] = f[i]
  BY Prefix
<1>2. /\ SubSeq(g, 1, n) \in Seq(S) /\ Len(SubSeq(g, 1, n)) = n
      /\ \A i \in 1 .. n : SubSeq(g, 1, n)[i] = g[i]
  BY Prefix
<1> DEFINE p == SubSeq(f, 1, n)
           q == SubSeq(g, 1, n)
<1>3. Len(q) = Len(p) /\ \A i \in 1 .. Len(q) : q[i] = p[i]
  BY <1>1, <1>2
<1>4. p \in Seq(S) /\ q \in Seq(S)
  BY <1>1, <1>2
<1> HIDE DEF p, q
<1>5. q = p
  BY <1>3, <1>4, SeqEqual
<1>6. QED
  BY <1>5 DEF p, q

LEMMA PrefixGrows ==
  ASSUME NEW S, NEW f \in Seq(S), NEW g \in Seq(S), NEW n \in Nat, n <= Len(f), n + 1 <= Len(g),
         \A i \in 1 .. n : g[i] = f[i]
  PROVE  SubSeq(g, 1, n + 1) = Append(SubSeq(f, 1, n), g[n + 1])
<1>1. /\ SubSeq(f, 1, n) \in Seq(S) /\ Len(SubSeq(f, 1, n)) = n
      /\ \A i \in 1 .. n : SubSeq(f, 1, n)[i] = f[i]
  BY Prefix
<1>2. /\ SubSeq(g, 1, n + 1) \in Seq(S) /\ Len(SubSeq(g, 1, n + 1)) = n + 1
      /\ \A i \in 1 .. n + 1 : SubSeq(g, 1, n + 1)[i] = g[i]
  BY Prefix
<1> DEFINE p == SubSeq(f, 1, n)
           q == SubSeq(g, 1, n + 1)
<1>3. p \in Seq(S) /\ Len(p) = n /\ \A i \in 1 .. n : p[i] = f[i]
  BY <1>1
<1>4. q \in Seq(S) /\ Len(q) = n + 1 /\ \A i \in 1 .. n + 1 : q[i] = g[i]
  BY <1>2
<1>5. g[n + 1] \in S
  OBVIOUS
<1> HIDE DEF p, q
<1>6. /\ Append(p, g[n + 1]) \in Seq(S) /\ Len(Append(p, g[n + 1])) = n + 1
      /\ \A i \in 1 .. n + 1 : Append(p, g[n + 1])[i] = IF i = n + 1 THEN g[n + 1] ELSE p[i]
  BY <1>3, <1>5
<1>7. \A i \in 1 .. n + 1 : q[i] = Append(p, g[n + 1])[i]
  <2> SUFFICES ASSUME NEW i \in 1 .. n + 1 PROVE q[i] = Append(p, g[n + 1])[i]
    OBVIOUS
  <2>1. CASE i = n + 1
    BY <1>4, <1>6, <2>1
  <2>2. CASE i # n + 1
    <3>1. i \in 1 .. n
      BY <2>2
    <3>2. q[i] = g[i] /\ p[i] = f[i] /\ g[i] = f[i]
      BY <1>3, <1>4, <3>1
    <3>3. QED
      BY <1>6, <2>2, <3>2
  <2>3. QED
    BY <2>1, <2>2
<1>8. q = Append(p, g[n + 1])
  BY <1>4, <1>6, <1>7, SeqEqual
<1>9. QED
  BY <1>8 DEF p, q

LEMMA Ranges ==
  ASSUME NEW s \in Seq(Events)
  PROVE  /\ Range(s) \subseteq Events
         /\ \A e : Contains(s, e) <=> e \in Range(s)
BY DEF Range, Contains

(* The steps of RecordingArchive without what the senders are told *)
Stored ==
    \/ Archive!Answer
    \/ \E c \in Chunks : Archive!StoreChunk(c)
    \/ ArchiveState = "kept" /\ (Archive!StoreEvents \/ Archive!Tear)
    \/ Archive!Delete

(* An uploader is told of no chunk that is not counted. *)
ToldInv == \A c \in Chunks : Readable /\ call[Uploader(c)] = "ok" => c \in Counted

(* An operation that counts no chunk: it leaves those that are counted alone, or destroys the *)
(* metadata.                                                                                  *)
LEMMA StoredSame ==
  ASSUME StoreInv, StoreInv', Readable, kept' = kept,
         \A i \in 1 .. chunkCount : files'[i] = files[i],
         (torn' = torn /\ chunkCount' = chunkCount) \/ torn' = TRUE,
         Covers(log, log')
  PROVE  Stored /\ (Readable' => Counted' = Counted)
<1>1. /\ files \in Seq(Chunks \cup {Partial}) /\ chunkCount \in Nat /\ chunkCount <= Len(files)
      /\ files' \in Seq(Chunks \cup {Partial}) /\ chunkCount' <= Len(files')
      /\ log \in Seq(Events) /\ log' \in Seq(Events)
      /\ kept /\ torn = FALSE /\ torn' \in BOOLEAN
  BY DEF StoreInv, StoreTypes, CountsAgree, Readable
<1>2. Range(log) \subseteq Range(log') /\ Range(log') \subseteq Events
  <2>1. Range(log) \subseteq Events /\ Range(log') \subseteq Events
        /\ (\A e : Contains(log, e) <=> e \in Range(log))
        /\ (\A e : Contains(log', e) <=> e \in Range(log'))
    BY <1>1, Ranges
  <2>2. QED
    BY <2>1 DEF Covers
<1>3. ArchiveState = "kept"
  BY <1>1 DEF ArchiveState
<1>4. CASE torn' = torn /\ chunkCount' = chunkCount
  <2>1. ArchiveState' = "kept" /\ Readable'
    BY <1>1, <1>4 DEF ArchiveState, Readable
  <2>2. SubSeq(files', 1, chunkCount) = SubSeq(files, 1, chunkCount)
    BY <1>1, <1>4, PrefixKept
  <2>3. ArchivedChunks' = ArchivedChunks
    BY <1>4, <2>1, <2>2 DEF ArchivedChunks
  <2>4. Archive!StoreEvents
    BY <1>2, <1>3, <2>1, <2>3 DEF Archive!StoreEvents
  <2>5. Counted' = Counted
    BY <1>4 DEF Counted
  <2>6. QED
    BY <1>3, <2>4, <2>5 DEF Stored
<1>5. CASE torn' = TRUE
  <2>1. ArchiveState' = "torn" /\ ~Readable'
    BY <1>1, <1>5 DEF ArchiveState, Readable
  <2>2. Archive!Tear
    BY <1>2, <2>1 DEF Archive!Tear, ArchivedChunks
  <2>3. QED
    BY <1>3, <2>1, <2>2 DEF Stored
<1>6. QED
  BY <1>4, <1>5

(* AppendChunk adds its own chunk behind those that are counted, if it answers "ok". *)
LEMMA AppendChunkStored ==
  ASSUME StoreInv, NEW c \in Chunks, c \notin Counted, NEW answer, AppendChunk(c, answer)
  PROVE  /\ Stored
         /\ Readable' => Counted \subseteq Counted'
         /\ answer = "ok" => c \in Counted'
<1>1. StoreTypes /\ CountsAgree /\ Readable /\ StoreInv' /\ kept' = kept /\ log' = log /\ Covers(log, log')
  BY AppendChunkKeeps DEF StoreInv, AppendChunk, Covers
<1>2. \A d \in Chunks \cup {Partial} :
          /\ Len(NextFile(d)) = chunkCount + 1
          /\ \A i \in 1 .. chunkCount : NextFile(d)[i] = files[i]
          /\ NextFile(d)[chunkCount + 1] = d
  BY <1>1, NextFileIs DEF CountsAgree
<1>3. CASE CopyFails(answer)
  <2>1. torn' = torn /\ chunkCount' = chunkCount /\ answer = "error"
        /\ \A i \in 1 .. chunkCount : files'[i] = files[i]
    BY <1>2, <1>3 DEF CopyFails, metaVars
  <2>2. QED
    BY <1>1, <2>1, StoredSame
<1>4. CASE files' = NextFile(c) /\ WriteFails(answer)
  <2>1. (torn' = torn /\ chunkCount' = chunkCount) \/ torn' = TRUE
    BY <1>4 DEF WriteFails, metaVars
  <2>2. answer = "error" /\ \A i \in 1 .. chunkCount : files'[i] = files[i]
    BY <1>2, <1>4 DEF WriteFails
  <2>3. QED
    BY <1>1, <2>1, <2>2, StoredSame
<1>5. CASE /\ answer = "ok" /\ files' = NextFile(c) /\ chunkCount' = chunkCount + 1
           /\ UNCHANGED <<torn, status, eventCount>>
  <2>1. /\ files \in Seq(Chunks \cup {Partial}) /\ files' \in Seq(Chunks \cup {Partial})
        /\ chunkCount \in Nat /\ chunkCount <= Len(files) /\ chunkCount + 1 <= Len(files')
        /\ \A i \in 1 .. chunkCount : files'[i] = files[i]
        /\ files'[chunkCount + 1] = c
    BY <1>1, <1>2, <1>5 DEF StoreInv, StoreTypes, CountsAgree
  <2>2. SubSeq(files', 1, chunkCount + 1) = Append(SubSeq(files, 1, chunkCount), c)
    BY <2>1, PrefixGrows
  <2>3. Readable' /\ ArchiveState = "kept" /\ ArchiveState' = "kept"
    BY <1>1, <1>5 DEF Readable, ArchiveState
  <2>4. ArchivedChunks' = Append(ArchivedChunks, c)
    BY <1>1, <1>5, <2>2, <2>3 DEF ArchivedChunks
  <2>5. ~Contains(ArchivedChunks, c)
    <3>1. Contains(SubSeq(files, 1, chunkCount), c) <=> \E i \in 1 .. chunkCount : files[i] = c
      BY <2>1, PrefixContains
    <3>2. QED
      BY <1>1, <3>1 DEF ArchivedChunks, Counted
  <2>6. Archive!StoreChunk(c)
    BY <1>1, <2>3, <2>4, <2>5 DEF Archive!StoreChunk, Archive!Contains, Contains
  <2>7. Counted \subseteq Counted' /\ c \in Counted'
    <3>1. \A i \in 1 .. chunkCount : i \in 1 .. chunkCount'
      BY <1>5, <2>1
    <3>2. chunkCount + 1 \in 1 .. chunkCount'
      BY <1>5, <2>1
    <3>3. QED
      BY <2>1, <3>1, <3>2 DEF Counted
  <2>8. QED
    BY <2>6, <2>7 DEF Stored
<1>6. QED
  BY <1>3, <1>4, <1>5 DEF AppendChunk

(* Serving a request is a step of the archive, and "ok" to an uploader means that its chunk *)
(* is counted.                                                                              *)
LEMMA ServeStored ==
  ASSUME IndInv, ToldInv, NEW r \in BagToSet(net), Serve(r)
  PROVE  Stored /\ ToldInv'
<1>1. PICK answer \in Answers :
        /\ \/ Unreadable(answer)
           \/ \E c \in Chunks : r.from = Uploader(c) /\ AppendChunk(c, answer)
           \/ r.from \in Flushers /\ AppendEvents(r.data, answer)
           \/ r.from = End /\ Finalize(answer)
        /\ Answered(r, answer)
  BY DEF Serve
<1>2. StoreInv /\ WireInv /\ r \in Requests
  BY DEF IndInv, WireInv
<1>3. /\ Stored
      /\ Readable' => Readable /\ Counted \subseteq Counted'
      /\ \A c \in Chunks : answer = "ok" /\ r.from = Uploader(c) => c \in Counted'
  <2>1. CASE Unreadable(answer)
    <3>1. UNCHANGED storeVars /\ answer # "ok"
      BY <2>1 DEF Unreadable
    <3>2. UNCHANGED <<ArchiveState, ArchivedChunks, Range(log)>>
      BY <3>1 DEF ArchiveState, ArchivedChunks, Readable, storeVars, metaVars
    <3>3. Stored
      BY <3>2 DEF Stored, Archive!Answer
    <3>4. QED
      BY <3>1, <3>3 DEF storeVars, metaVars, Readable, Counted
  <2>2. ASSUME NEW c \in Chunks, r.from = Uploader(c), AppendChunk(c, answer)
        PROVE  /\ Stored
               /\ Readable' => Readable /\ Counted \subseteq Counted'
               /\ \A d \in Chunks : answer = "ok" /\ r.from = Uploader(d) => d \in Counted'
    <3>1. c \notin Counted
      BY <1>2, <2>2 DEF WireInv
    <3>2. /\ Stored
          /\ Readable' => Counted \subseteq Counted'
          /\ answer = "ok" => c \in Counted'
      BY <1>2, <2>2, <3>1, AppendChunkStored
    <3>3. Readable
      BY <2>2 DEF AppendChunk
    <3>4. QED
      BY <2>2, <3>2, <3>3, Kinds
  <2>3. CASE r.from \in Flushers /\ AppendEvents(r.data, answer)
    <3>1. r.data \in Seq(Events)
      BY <1>2 DEF Requests
    <3>2. StoreInv' /\ files' = files /\ kept' = kept /\ Covers(log, log')
      BY <1>2, <2>3, <3>1, AppendEventsKeeps
    <3>3. Readable /\ ((torn' = torn /\ chunkCount' = chunkCount) \/ torn' = TRUE)
      BY <2>3 DEF AppendEvents, EncodeFails, WriteFails, metaVars
    <3>4. Stored /\ (Readable' => Counted' = Counted)
      BY <1>2, <3>2, <3>3, StoredSame
    <3>5. QED
      BY <2>3, <3>3, <3>4, Kinds
  <2>4. CASE r.from = End /\ Finalize(answer)
    <3>1. StoreInv' /\ files' = files /\ kept' = kept /\ log' = log
      BY <1>2, <2>4, FinalizeKeeps
    <3>2. Readable /\ ((torn' = torn /\ chunkCount' = chunkCount) \/ torn' = TRUE)
      BY <2>4 DEF Finalize, ConcatFails, WriteFails, metaVars
    <3>3. Covers(log, log')
      BY <3>1 DEF Covers
    <3>4. Stored /\ (Readable' => Counted' = Counted)
      BY <1>2, <3>1, <3>2, <3>3, StoredSame
    <3>5. QED
      BY <2>4, <3>2, <3>4, Kinds
  <2>5. QED
    BY <1>1, <2>1, <2>2, <2>3, <2>4
<1>4. r.from \in Callers /\ (call' = call \/ call' = [call EXCEPT ![r.from] = answer])
  BY <1>1, <1>2 DEF Answered, Requests
<1>5. ToldInv'
  <2> SUFFICES ASSUME NEW c \in Chunks, Readable', call'[Uploader(c)] = "ok" PROVE c \in Counted'
    BY DEF ToldInv
  <2>1. CASE call[Uploader(c)] = "ok"
    BY <1>3, <2>1 DEF ToldInv
  <2>2. CASE call[Uploader(c)] # "ok"
    <3>1. r.from = Uploader(c) /\ answer = "ok"
      BY <1>4, <2>2, Kinds DEF IndInv, AgentTypes
    <3>2. QED
      BY <1>3, <3>1
  <2>3. QED
    BY <2>1, <2>2
<1>6. QED
  BY <1>3, <1>5

(* No step of the agent changes the store, or makes an answer. *)
LEMMA AgentSteps ==
  ASSUME IndInv, EventStep \/ ChunkStep \/ StopStep \/ UNCHANGED vars
  PROVE  /\ UNCHANGED storeVars
         /\ \A x \in Callers : call'[x] = "ok" => call[x] = "ok"
<1>0. call \in [Callers -> {"none", "waiting", "ok", "gone"}]
  BY DEF IndInv, AgentTypes
<1>1. ASSUME NEW y, call' = call \/ Closed(y) \/ (\E data : Send(y, data))
      PROVE  \A x \in Callers : call'[x] = "ok" => call[x] = "ok"
  BY <1>0, <1>1 DEF Closed, Send
<1>2. CASE EventStep
  <2>1. UNCHANGED storeVars
    BY <1>2 DEF EventStep, Capture, FlushLoop, Flush, FlushLoopEnds, FlushDone, Flushed, FlushGone, FlushFails
  <2>2. \E y : call' = call \/ Closed(y) \/ \E data : Send(y, data)
    BY <1>2 DEF EventStep, Capture, FlushLoop, Flush, FlushLoopEnds, FlushDone, Flushed, FlushGone, FlushFails,
                wireVars
  <2>3. QED
    BY <1>1, <2>1, <2>2
<1>3. CASE ChunkStep
  <2>1. UNCHANGED storeVars
    BY <1>3 DEF ChunkStep, WriteChunk, ReportChunk, Upload, UploadNot, Uploaded, UploadGone, UploadFails, UploadDone
  <2>2. \E y : call' = call \/ Closed(y) \/ \E data : Send(y, data)
    BY <1>3 DEF ChunkStep, WriteChunk, ReportChunk, Upload, UploadNot, Uploaded, UploadGone, UploadFails,
                UploadDone, wireVars
  <2>3. QED
    BY <1>1, <2>1, <2>2
<1>4. CASE StopStep
  <2>1. UNCHANGED storeVars
    BY <1>4 DEF StopStep, StopCaptures, StopFlushes, Flush, StopEnds, EndRetries, EndReturns, StopReturns
  <2>2. \E y : call' = call \/ Closed(y) \/ \E data : Send(y, data)
    BY <1>4 DEF StopStep, StopCaptures, StopFlushes, Flush, StopEnds, SendEnd, EndRetries, EndReturns, StopReturns,
                wireVars
  <2>3. QED
    BY <1>1, <2>1, <2>2
<1>5. CASE UNCHANGED vars
  BY <1>5 DEF vars, wireVars
<1>6. QED
  BY <1>2, <1>3, <1>4, <1>5

LEMMA StepStored ==
  ASSUME IndInv, ToldInv, [Next]_vars
  PROVE  Stored /\ ToldInv'
<1>1. ASSUME UNCHANGED storeVars, \A x \in Callers : call'[x] = "ok" => call[x] = "ok"
      PROVE  Stored /\ ToldInv'
  <2>1. UNCHANGED <<ArchiveState, ArchivedChunks, Range(log)>>
    BY <1>1 DEF ArchiveState, ArchivedChunks, Readable, storeVars, metaVars
  <2>2. ToldInv'
    BY <1>1, Kinds DEF ToldInv, Readable, Counted, storeVars, metaVars
  <2>3. QED
    BY <2>1, <2>2 DEF Stored, Archive!Answer
<1>2. ASSUME DeleteRecording PROVE Stored /\ ToldInv'
  <2>1. kept /\ ~kept' /\ log' = <<>>
    BY <1>2 DEF DeleteRecording, Delete
  <2>2. ArchiveState # "gone" /\ ArchiveState' = "gone" /\ ArchivedChunks' = <<>> /\ Range(log') = {}
    BY <2>1 DEF ArchiveState, ArchivedChunks, Readable, Range
  <2>3. Archive!Delete
    BY <2>2 DEF Archive!Delete
  <2>4. QED
    BY <2>1, <2>3 DEF Stored, ToldInv, Readable
<1>3. CASE EventStep \/ ChunkStep \/ StopStep \/ UNCHANGED vars
  BY <1>1, <1>3, AgentSteps
<1>4. QED
  BY <1>2, <1>3, ServeStored DEF Next, Broker

(* Whatever fails on disk and on the way, however late requests and answers are: the chunks   *)
(* counted are a sequence that only grows, each chunk once, until the recording is destroyed  *)
(* or deleted, and an "ok" that the agent holds is true.                                      *)
THEOREM ArchiveImplemented == Spec => ImplementsArchive
<1>1. Init => Archive!Init /\ ToldInv
  BY Kinds DEF Init, StoreInit, Archive!Init, ArchiveState, ArchivedChunks, ToldChunks, ToldEvents, ToldInv,
               Readable, Range, Flushers
<1>2. IndInv /\ ToldInv => Archive!Truthful
  <2> SUFFICES ASSUME IndInv, ToldInv PROVE Archive!Truthful
    OBVIOUS
  <2>1. ASSUME ArchiveState = "kept", NEW c \in ToldChunks PROVE Contains(ArchivedChunks, c)
    <3>1. Readable /\ c \in Counted
      BY <2>1 DEF ArchiveState, Readable, ToldChunks, ToldInv, IndInv, StoreInv, StoreTypes
    <3>2. Contains(SubSeq(files, 1, chunkCount), c) <=> \E i \in 1 .. chunkCount : files[i] = c
      BY PrefixContains DEF IndInv, StoreInv, StoreTypes, CountsAgree
    <3>3. QED
      BY <3>1, <3>2 DEF ArchivedChunks, Counted
  <2>2. ASSUME ArchiveState # "gone" PROVE ToldEvents \subseteq Range(log)
    <3>1. kept
      BY <2>2 DEF ArchiveState
    <3> SUFFICES ASSUME NEW f \in Flushers, call[f] = "ok" PROVE Range(batch[f]) \subseteq Range(log)
      BY DEF ToldEvents
    <3>2. batch[f] \in Seq(Events) /\ log \in Seq(Events) /\ Covers(batch[f], log)
      BY <3>1 DEF IndInv, AgentTypes, StoreInv, StoreTypes, CallInv
    <3>3. /\ Range(batch[f]) \subseteq Events
          /\ \A e : Contains(batch[f], e) <=> e \in Range(batch[f])
          /\ \A e : Contains(log, e) <=> e \in Range(log)
      BY <3>2, Ranges
    <3>4. QED
      BY <3>2, <3>3 DEF Covers
  <2>3. QED
    BY <2>1, <2>2 DEF Archive!Truthful, Archive!Contains, Contains
<1>3. IndInv /\ ToldInv /\ [Next]_vars => ToldInv'
  BY StepStored
<1>4. IndInv /\ ToldInv /\ [Next]_vars => [Archive!Next]_(Archive!vars)
  BY StepStored DEF Stored, Archive!Next
<1>5. QED
  BY <1>1, <1>2, <1>3, <1>4, Inductive, PTL DEF Spec, Archive!Spec, ImplementsArchive
=============================================================================
