-------------------------- MODULE RecordingArchive --------------------------
(***************************************************************************)
(* What the broker's recording store promises an agent, whatever fails on  *)
(* disk and on the way: the chunks it counts are a sequence to which each  *)
(* chunk is added once and of which nothing is ever changed, the events on *)
(* disk only become more, and what the agent was told is stored is there.  *)
(* A recording may become unreadable, or be deleted, and stays so.         *)
(***************************************************************************)
EXTENDS Sequences, SequencesExt

CONSTANTS Chunks, Events

VARIABLES state,      \* "kept", "torn" or "gone"
          chunks,     \* those counted, in the order of the video
          events,     \* those on disk
          toldChunks, \* chunks, and events, whose sender has been told that they are stored
          toldEvents  \* and has not gone on yet

vars == <<state, chunks, events, toldChunks, toldEvents>>

Init ==
    /\ state = "kept"
    /\ chunks = <<>>
    /\ events = {} /\ toldChunks = {} /\ toldEvents = {}

StoreChunk(c) ==
    /\ state = "kept"
    /\ ~Contains(chunks, c)
    /\ chunks' = Append(chunks, c)
    /\ UNCHANGED <<state, events>>

(* Some of a batch, or all of it. *)
StoreEvents ==
    /\ events \subseteq events' /\ events' \subseteq Events
    /\ UNCHANGED <<state, chunks>>

(* The metadata are destroyed by a write that fails, after the events were written. *)
Tear ==
    /\ state' = "torn"
    /\ chunks' = <<>>
    /\ events \subseteq events' /\ events' \subseteq Events

Delete ==
    /\ state # "gone"
    /\ state' = "gone"
    /\ chunks' = <<>> /\ events' = {}

(* Senders are told, or go on. *)
Answer == UNCHANGED <<state, chunks, events>>

Truthful ==
    /\ state = "kept" => \A c \in toldChunks : Contains(chunks, c)
    /\ state # "gone" => toldEvents \subseteq events

Next ==
    \/ Answer
    \/ \E c \in Chunks : StoreChunk(c)
    \/ state = "kept" /\ (StoreEvents \/ Tear)
    \/ Delete

(* What senders are told is free, as long as it is true. *)
Spec == Init /\ [][Next]_vars /\ []Truthful
=============================================================================
