SPECIFICATION FairTasks
CONSTANTS
    Streams = {s1, s2}
    Nobody = Nobody
    Capacity = 2
    MaxChunks = 4
CHECK_DEADLOCK FALSE
INVARIANT TypeOK
INVARIANT Orderly
INVARIANT ClosedWhole
PROPERTY EveryStreamEnds
