\* Two requests compete for the only port. No timer need fire and no proxy
\* need hang up, unless a property says so.
CONSTANTS
    s1 = s1
    s2 = s2
    Sessions = {s1, s2}
    StartPort = 1
    EndPort = 1
    InternalOffset = 10
    MaxConcurrentSessions = 1
SPECIFICATION ServeSpec
CHECK_DEADLOCK FALSE
INVARIANTS
    TypeOK
PROPERTIES
    DeadProxyEnds
    PortReturns
    ImplementsLease
