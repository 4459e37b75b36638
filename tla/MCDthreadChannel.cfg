SPECIFICATION ChanSpec
CONSTANTS
    DefaultCap = 2
    MaxCap = 2
    Structured = FALSE
    Chans = {c1}
    Sizes = {0, 1}
    Data = {d1, d2}
    MaxSent = 3
INVARIANTS FifoExactlyOnce ChanIInv
