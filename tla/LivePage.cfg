CONSTANTS
    s1 = s1
    s2 = s2
    NoStream = NoStream
    Streams = {s1, s2}
    Buffer = 1
    MaxVersion = 3
    MaxFaults = 1
    MaxLoads = 2
SPECIFICATION FairSpec
INVARIANTS
    TypeOK
    SettledPageIsFresh
PROPERTIES
    EventuallyFresh
CHECK_DEADLOCK FALSE
