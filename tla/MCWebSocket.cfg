\* Two workers and a thread the service may spawn, two descriptors, two rooms
\* and broadcasts to one of them.
SPECIFICATION Spec
CONSTANTS
    Workers = {w1, w2}
    Spawned = {t1}
    Socks = {1, 2}
    Rooms = {1, 2}
    Channels = {1}
    MaxConns = 2
    MaxMsgs = 2
    PipeCap = 1
INVARIANTS OpenFindsItsNode WrittenOnce
PROPERTY BroadcastArrives
CHECK_DEADLOCK FALSE
