SPECIFICATION Spec
CONSTANTS
    Queries = {q1, q2}
    MaxRows = 2
    None = None
INVARIANTS QueriesKept MemorySafe QueueGoesOn
PROPERTY HandlersReturn
CHECK_DEADLOCK FALSE
