\* Nothing fails, yet Stop does not wait for the uploads.
CONSTANTS
    Faults = FALSE
    MaxEvents = 1
    MaxChunks = 2
    MaxFlushes = 1
    MaxAttempts = 2
SPECIFICATION Spec
CHECK_DEADLOCK FALSE
INVARIANT StopUploadsAll
