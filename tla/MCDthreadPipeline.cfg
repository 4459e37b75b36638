SPECIFICATION PipeSpec
CONSTANTS
    DefaultCap = 2
    MaxCap = 2
    Structured = FALSE
    Chans = {c1}
    Sizes = {0, 1, 2, 3}
    Data = {d1, d2}
    MaxSent = 6
    Overfill = FALSE
INVARIANTS WithinBounds NoStaleReturn
PROPERTIES SendNeedsReceiver PipelineCompletes
