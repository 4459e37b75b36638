SPECIFICATION Spec
CONSTANTS
    Reqs = {r1}
    Sizes = {2}
    Far = {}
    MaxFiles = 1
    MaxEnds = 2
    IntMax = 127
    ULongMax = 65535
    Drops = TRUE
PROPERTY AllSent
CHECK_DEADLOCK FALSE
