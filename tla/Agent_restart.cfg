\* One session and one change of the resolution.
CONSTANTS
    WindowsSessions = {w1}
    Recorders = {r1}
    MaxChunks = 2
    MaxRestarts = 1
    Base = 10
    Width = 3
    MaxChanges = 2
    MaxAttempts = 1
SPECIFICATION Spec
CHECK_DEADLOCK FALSE
INVARIANTS
    StoppedStays
