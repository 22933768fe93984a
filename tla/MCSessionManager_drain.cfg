\* No timer need fire; proxies hang up.
CONSTANTS
    s1 = s1
    s2 = s2
    Sessions = {s1, s2}
    StartPort = 1
    EndPort = 1
    InternalOffset = 10
    MaxConcurrentSessions = 1
SPECIFICATION DrainSpec
PROPERTIES
    ShutdownCompletes
