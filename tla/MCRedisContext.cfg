SPECIFICATION Spec
CONSTANTS
    None = None
    CR = CR
    LF = LF
    MaxNesting = 3
    DiscardAt = 5
    FormatRoom = 5
    MaxAddrs = 2
    Commands <- MCCommands
    MaxCommands = 2
    Answers <- MCAnswers
    WriteSizes <- MCWriteSizes
    ReadSizes <- MCReadSizes
INVARIANTS CommandsIntact RepliesIntact ConnectSettled
CHECK_DEADLOCK FALSE
