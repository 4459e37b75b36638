SPECIFICATION Spec
CONSTANTS
    UriMax = 2
    QsMax = 2
    LongMax = 127
    Entries = 2
    Chunk = 2
    CellBytes = 1
    MaxPointers = 5
    BufferSize = 2
    PieceSizes = {1, 2, 3}
    MaxPieces = 3
    Clients = {c1, c2}
    Names = {n1, n2}
    Uuids = {u1, u2}
    MaxCreates = 2
    UriLen = 5
    QueryLen = 6
    CookieLen = 6
    NumberLen = 4
    Sockets = {1, 2}
    MaxOwners = 5
    Listener = lst
    Fds = {f1, f2}
    RecordPieces = 2
    MaxUnread = 2
    MaxAccepts = 2
INVARIANTS  RequestParsed GcFreesOnce FlushResumes SessionsPrivate EventReachesOwner SslServed
SYMMETRY Alike
CHECK_DEADLOCK FALSE
