\* Requests fail and are lost, answers too, and the recording may be deleted.
\* A recorder that has stopped stays so.
CONSTANTS
    Faults = TRUE
    MaxEvents = 2
    MaxChunks = 2
    MaxFlushes = 1
    MaxAttempts = 2
SPECIFICATION Spec
CHECK_DEADLOCK FALSE
INVARIANTS
    
    ChunkStoredOnce
    
PROPERTIES
    CompletesWithVideo
    
