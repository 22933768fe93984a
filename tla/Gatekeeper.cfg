\* Two connections, each with any of the hellos, and one Stop.
\* The gatekeeper may stop for good: when every connection is done.
CONSTANTS
    Conns = {c1, c2}
SPECIFICATION FairSpec
CHECK_DEADLOCK FALSE
INVARIANTS
    TypeOK
    TokenSpentOnce
    StopCanReach
    StoppedNotServed
PROPERTIES
    StopEnds
    ConnectionsEnd
