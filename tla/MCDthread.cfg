SPECIFICATION Spec
CONSTANTS
    DefaultCap = 1
    MaxCap = 4
    Structured = FALSE
INVARIANT IInv
PROPERTY SlotKept
