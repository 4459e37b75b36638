SPECIFICATION Spec
CONSTANTS
    None = None
    Names <- MCNames
    Hash <- MCHash
    InitialSize = 1
    MaxCmds = 3
    MaxMessages = 1
    Careful = TRUE
INVARIANTS ContextSound SubscriptionsAgree
PROPERTIES ImplementsClient ClosingEnds
CHECK_DEADLOCK FALSE
