\* Two requests and two ports: ports are held side by side and reused.
CONSTANTS
    s1 = s1
    s2 = s2
    Sessions = {s1, s2}
    StartPort = 1
    EndPort = 2
    InternalOffset = 10
    MaxConcurrentSessions = 1
SPECIFICATION Spec
SYMMETRY SessionSymmetry
INVARIANTS
    PortLease
    ProxyWithinLease
    PortsOwn
    
PROPERTIES
    LifecycleForward
