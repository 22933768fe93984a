\* As many callers as the buffer allows for: Cardinality(Callers) * Timeout <= Buffer.
CONSTANTS
    Callers = {c1, c2}
    Lifetimes = {4, 5}
    Buffer = 2
    Timeout = 1
    MaxTime = 7
SPECIFICATION Spec
INVARIANTS
    LockSound
PROPERTIES
    RefreshOnce
    
    CallsEnd
