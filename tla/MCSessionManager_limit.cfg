\* One session is allowed.
CONSTANTS
    s1 = s1
    s2 = s2
    Sessions = {s1, s2}
    StartPort = 1
    EndPort = 2
    InternalOffset = 10
    MaxConcurrentSessions = 1
SPECIFICATION Spec
SYMMETRY SessionSymmetry
INVARIANTS
    WithinLimit
