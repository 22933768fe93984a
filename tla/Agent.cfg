\* One session, in which users log on one after the other; names have room for every chunk.
\* An agent whose service has ended stays so.
CONSTANTS
    WindowsSessions = {w1}
    Recorders = {r1, r2}
    MaxChunks = 2
    MaxRestarts = 1
    Base = 10
    Width = 3
    MaxChanges = 3
    MaxAttempts = 2
SPECIFICATION Spec
CHECK_DEADLOCK FALSE
INVARIANTS
    TypeOK
    
    NoneForgotten
    
PROPERTIES
    ReportedWhole
    AllReported
    LogoffStops
    ServiceStops
