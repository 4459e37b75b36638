------------------------------ MODULE BodyBuffer ------------------------------
(***************************************************************************)
(* A body buffer of the outgoing queue (lib/duda_body_buffer.c): pieces of *)
(* a body that one writev() per flush sends, from where the last one ended.*)
(* The bytes of the body are numbered; a piece is its first and its length.*)
(***************************************************************************)
EXTENDS Integers, SequencesExt

CONSTANTS
    BufferSize,  \* BODY_BUFFER_SIZE: the pieces there is room for, and more at a time
    PieceSizes,  \* the sizes of the pieces a service adds
    MaxPieces    \* bound of the model: pieces of a body

ASSUME BufAssumption ==
    BufferSize \in Nat \ {0} /\ PieceSizes \subseteq Nat \ {0} /\ MaxPieces \in Nat

VARIABLES
    io,          \* buf->io[0 .. iov_idx - 1]
    room,        \* bb->size
    total_len,   \* buf->total_len
    body,        \* history: the bytes added
    wire,        \* history: the bytes that went out, in order
    report       \* what the last flush returned, the bytes it sent and those that then were left

bufVars == <<io, room, total_len, body, wire, report>>

Piece(base, len) == [base |-> base, len |-> len]

\* The bytes of the pieces up to each one, and of those before it.
PieceEnds(pieces) ==
    LET end[i \in 0..Len(pieces)] == IF i = 0 THEN 0 ELSE end[i - 1] + pieces[i].len
    IN  end
Before(i) == PieceEnds(io)[i - 1]

\* The piece in which the first n bytes end.
Stop(n) == Min({i \in DOMAIN io : PieceEnds(io)[i] >= n})

\* What writev() is given: the bytes of the pieces, one after the other.
Bytes == [k \in 1..PieceEnds(io)[Len(io)] |-> io[Stop(k)].base + (k - Before(Stop(k))) - 1]

\* duda_body_buffer_new
BufInit ==
    /\ io = <<>> /\ room = BufferSize /\ total_len = 0
    /\ body = 0 /\ wire = <<>> /\ report = [ret |-> -1, sent |-> 0, left |-> 0]

\* iov_add, where there is room.
AddPiece(n) ==
    /\ Len(io) < room /\ Len(io) < MaxPieces /\ report.ret # 0
    /\ io' = Append(io, Piece(body + 1, n))
    /\ total_len' = total_len + n /\ body' = body + n
    /\ UNCHANGED <<room, wire, report>>

\* duda_body_buffer_expand, at any time, for nothing in the repository calls
\* it: iov_realloc makes room for more pieces, or fails and leaves it all.
duda_body_buffer_expand(done) ==
    /\ room < MaxPieces
    /\ room' = IF done THEN room + BufferSize ELSE room
    /\ UNCHANGED <<io, total_len, body, wire, report>>

\* Mutant: the piece that went out in part starts over.
AdvancedOver(sent) ==
    LET at == Stop(sent) IN
    [i \in DOMAIN io |->
        IF i < at \/ (i = at /\ PieceEnds(io)[i] = sent) THEN Piece(io[i].base, 0) ELSE io[i]]

\* The pieces after a partial write: the complete ones get length 0, the one
\* that went out in part is cut.
Advanced(sent) ==
    LET at == Stop(sent) IN
    [i \in DOMAIN io |->
        IF i < at \/ (i = at /\ PieceEnds(io)[i] = sent) THEN Piece(io[i].base, 0)
        ELSE IF i = at THEN Piece(io[i].base + (sent - Before(i)), io[i].len - (sent - Before(i)))
        ELSE io[i]]

\* duda_body_buffer_flush: writev takes n > 0 bytes, or fails with -1, which
\* is more than any length where it is compared.  The length the result is
\* compared with is the one after the write when the write was partial.
duda_body_buffer_flush(n) ==
    LET partial == n # -1 /\ n < total_len
        left    == IF partial THEN total_len - n ELSE total_len
        done    == n = left
    IN /\ io # <<>> /\ report.ret # 0
       /\ n <= total_len
       /\ io' = IF partial THEN Advanced(n) ELSE io
       /\ total_len' = IF done THEN 0 ELSE left
       /\ report' = [ret |-> IF done THEN 0 ELSE n, sent |-> n,
                     left |-> IF partial THEN total_len - n ELSE 0]
       /\ wire' = wire \o SubSeq(Bytes, 1, n)
       /\ UNCHANGED <<room, body>>

BufNext ==
    \/ \E n \in PieceSizes : AddPiece(n)
    \/ \E done \in BOOLEAN : duda_body_buffer_expand(done)
    \/ \E n \in {-1} \cup 1..total_len : duda_body_buffer_flush(n)

BufSpec == BufInit /\ [][BufNext]_bufVars

\* Whatever the writes took, the bytes went out once and in order, and the
\* pieces hold exactly the rest, which is what the queue counts as pending.
\* A buffer that reports its end has sent everything, except when a partial
\* write took exactly half of what was pending: then the other half is
\* dropped.
FlushResumes ==
    /\ wire = [k \in 1..Len(wire) |-> k]
    /\ IF report.ret = 0
       THEN Len(wire) = body \/ (report.sent = report.left /\ report.left = body - Len(wire))
       ELSE total_len = body - Len(wire) /\ Bytes = [k \in 1..total_len |-> Len(wire) + k]
    /\ room >= Len(io)
=============================================================================
