SPECIFICATION Spec
CONSTANTS
    Http = {w1}
    N = 2
    MaxSignals = 3
    PipeCap = 1
INVARIANTS StartupSafe SignalOnce
PROPERTY WorkersComeUp
CHECK_DEADLOCK FALSE
