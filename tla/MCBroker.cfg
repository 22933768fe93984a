\* The broker may stay down.
CONSTANTS
    Emails <- Spellings
    Hosts <- Targets
    Lower <- ToLower
    Keys = {k1}
    MaxGrants = 2
    r1 = r1
    r2 = r2
    v1 = v1
    Requests = {r1, r2}
    Revocations = {v1}
    Who <- Asks
    Whose <- TakesFrom
    MaxStarts = 2
    Binary = "freerdp-proxy"
    Pattern = "freerdp-proxy3"
SPECIFICATION Spec
CHECK_DEADLOCK FALSE
INVARIANTS
    RevokeReachesAll
    PairMatches
    
PROPERTIES
    ExitClean
    ImplementsAccess
    ShutdownEnds
    RevokeEnds
