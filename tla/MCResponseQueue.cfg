SPECIFICATION FairSpec
CONSTANTS
    Reqs = {r1}
    Sizes = {2}
    Far = {8}
    MaxFiles = 3
    MaxEnds = 2
    IntMax = 3
    ULongMax = 63
    Drops = TRUE
INVARIANTS BytesKept EventsFollowQueue FilesKept
PROPERTIES EndAfterFlush QueueDrains
CHECK_DEADLOCK FALSE
