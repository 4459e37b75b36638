---------------------------- MODULE RedisReader ----------------------------
(***************************************************************************)
(* The incremental reply parser of the redis package (the redisReader of   *)
(* packages/redis/hiredis.c) as operators on a reader record               *)
(*                                                                         *)
(*   buf     the unread sds buffer, pos the bytes of it already consumed,  *)
(*   rstack  the stack of read tasks, ridx + 1 = Len(rstack); each task    *)
(*           [type, elements, idx, element], element the parts collected   *)
(*           for an array (the code links them through parent pointers),   *)
(*   reply   the finished root object, None before,                        *)
(*   err     "none" or "protocol".                                         *)
(*                                                                         *)
(* A byte is a one letter string, carriage return and line feed are CR and *)
(* LF.  A reply object is [type, val]; val of an array is the sequence of  *)
(* its elements.  An array whose count is below zero has type "array<0"    *)
(* and the count as val.                                                   *)
(***************************************************************************)
EXTENDS Sds

CONSTANTS
    None,           \* the NULL pointer
    CR, LF,
    MaxNesting,     \* size of rstack, 4 in the code
    DiscardAt       \* consumed bytes after which the buffer is cut, 1024

ASSUME ReaderAssumption == MaxNesting \in Nat \ {0} /\ DiscardAt \in Nat \ {0}

DigitOf == [d \in {ToString(n) : n \in 0..9} |->
                CHOOSE n \in 0..9 : ToString(n) = d]

TypeByte == [b \in {"-", "+", ":", "$", "*"} |->
                CASE b = "-" -> "error" [] b = "+" -> "status"
                  [] b = ":" -> "integer" [] b = "$" -> "string" [] b = "*" -> "array"]

Task(idx) == [type |-> None, elements |-> -1, idx |-> idx, element |-> <<>>]

redisReaderCreate ==
    [buf |-> sdsempty, pos |-> 0, rstack |-> <<>>, reply |-> None, err |-> "none"]

\* Frees the reply and the buffer, empties the stack and records the error.
__redisReaderSetError(r, e) == [redisReaderCreate EXCEPT !.err = e]

Unread(r) == SubSeq(r.buf.buf, r.pos + 1, sdslen(r.buf))

\* The offset of the first CR LF in s, or None.
seekNewline(s) ==
    LET hits == {i \in 1..(Len(s) - 1) : s[i] = CR /\ s[i + 1] = LF}
    IN  IF hits = {} THEN None ELSE Min(hits) - 1

\* Decimal value of the digits at the front of s, which end at the first CR.
RECURSIVE Decimal(_, _)
Decimal(s, v) ==
    IF s = <<>> \/ Head(s) = CR THEN v
    ELSE IF Head(s) \in DOMAIN DigitOf THEN Decimal(Tail(s), v * 10 + DigitOf[Head(s)])
    ELSE None

\* -1 also stands for unexpected input.
readLongLong(line) ==
    LET signed == line # <<>> /\ Head(line) \in {"-", "+"}
        v == Decimal(IF signed THEN Tail(line) ELSE line, 0)
    IN  CASE v = None -> -1
          [] v # None /\ signed /\ Head(line) = "-" -> -v
          [] OTHER -> v

\* The object obj of the task on top of the stack is complete: it becomes
\* the reply, or an element of the array one task below.
Attach(r, obj) ==
    LET d == Len(r.rstack)
    IN  IF d = 1 THEN [r EXCEPT !.reply = obj]
        ELSE [r EXCEPT !.rstack[d - 1].element = Append(@, obj)]

\* Pops the tasks whose array has its last element, and prepares the task of
\* the next element otherwise.
RECURSIVE moveToNextTask(_)
moveToNextTask(r) ==
    LET d == Len(r.rstack)
        cur == r.rstack[d]
        prv == r.rstack[d - 1]
    IN  CASE d = 1 -> [r EXCEPT !.rstack = <<>>]
          [] d > 1 /\ cur.idx = prv.elements - 1 ->
                LET up == [r EXCEPT !.rstack = SubSeq(@, 1, d - 1)]
                IN  moveToNextTask(Attach(up, [type |-> "array", val |-> prv.element]))
          [] OTHER -> [r EXCEPT !.rstack[d] = Task(cur.idx + 1)]

\* The object is attached and n bytes are consumed.
Done(r, n, obj) == moveToNextTask(Attach([r EXCEPT !.pos = @ + n], obj))

(***************************************************************************)
(* The three item parsers.  The result is [ok, r]: ok stands for REDIS_OK, *)
(* and REDIS_ERR without an error in r means that bytes are missing.       *)
(***************************************************************************)
Missing(r) == [ok |-> FALSE, r |-> r]
Failed(r, e) == [ok |-> FALSE, r |-> __redisReaderSetError(r, e)]
Processed(r) == [ok |-> TRUE, r |-> r]

\* Mutant: the LF that ends the line is left in the buffer.
processLineItemShort(r) ==
    LET s == seekNewline(Unread(r))
        line == SubSeq(Unread(r), 1, s)
        type == r.rstack[Len(r.rstack)].type
    IN  IF s = None THEN Missing(r)
        ELSE Processed(Done(r, s + 1,
                [type |-> type,
                 val |-> IF type = "integer" THEN readLongLong(line) ELSE line]))

processLineItem(r) ==
    LET s == seekNewline(Unread(r))
        line == SubSeq(Unread(r), 1, s)
        type == r.rstack[Len(r.rstack)].type
    IN  IF s = None THEN Missing(r)
        ELSE Processed(Done(r, s + 2,
                [type |-> type,
                 val |-> IF type = "integer" THEN readLongLong(line) ELSE line]))

processBulkItem(r) ==
    LET s == seekNewline(Unread(r))
        len == readLongLong(SubSeq(Unread(r), 1, s))
        bytelen == s + 2 + len + 2
    IN  CASE s = None -> Missing(r)
          [] s # None /\ len < 0 -> Processed(Done(r, s + 2, [type |-> "nil", val |-> None]))
          [] s # None /\ len >= 0 /\ r.pos + bytelen <= sdslen(r.buf) ->
                Processed(Done(r, bytelen,
                    [type |-> "string", val |-> SubSeq(Unread(r), s + 3, s + 2 + len)]))
          [] OTHER -> Missing(r)

\* A count of -1 is nil; createArrayObject allocates for a positive count
\* only and takes any other as it is.
processMultiBulkItem(r) ==
    LET d == Len(r.rstack)
        s == seekNewline(Unread(r))
        elements == readLongLong(SubSeq(Unread(r), 1, s))
        Empty(type, val) == Processed(Done(r, s + 2, [type |-> type, val |-> val]))
    IN  CASE d = MaxNesting -> Failed(r, "protocol")
          [] d # MaxNesting /\ s = None -> Missing(r)
          [] d # MaxNesting /\ s # None /\ elements < -1 -> Empty("array<0", elements)
          [] d # MaxNesting /\ s # None /\ elements = -1 -> Empty("nil", None)
          [] d # MaxNesting /\ s # None /\ elements = 0 -> Empty("array", <<>>)
          [] OTHER ->
                Processed([r EXCEPT !.pos = @ + s + 2,
                                    !.rstack = Append([@ EXCEPT ![d].elements = elements],
                                                      Task(0))])

\* The type byte is consumed once, and kept in the task while the rest of the
\* item is still missing.
processItem(r) ==
    LET d == Len(r.rstack)
        known == r.rstack[d].type # None
        typed == IF known THEN r
                 ELSE [r EXCEPT !.pos = @ + 1,
                                !.rstack[d].type = TypeByte[Head(Unread(r))]]
    IN  CASE ~known /\ Unread(r) = <<>> -> Missing(r)
          [] ~known /\ Unread(r) # <<>> /\ Head(Unread(r)) \notin DOMAIN TypeByte ->
                Failed(r, "protocol")
          [] OTHER ->
                LET t == typed.rstack[d].type
                IN  IF t = "string" THEN processBulkItem(typed)
                    ELSE IF t = "array" THEN processMultiBulkItem(typed)
                    ELSE processLineItem(typed)

RECURSIVE ProcessItems(_)
ProcessItems(r) ==
    IF r.rstack = <<>> THEN r
    ELSE LET p == processItem(r) IN IF p.ok THEN ProcessItems(p.r) ELSE p.r

\* Bytes from the socket.  The large empty buffer is given back first; sds
\* values have no address, so only its room differs.
redisReaderFeed(r, bytes) ==
    IF r.err # "none" THEN r ELSE [r EXCEPT !.buf = sdscatlen(@, bytes)]

\* Cuts the consumed bytes off the buffer when there are enough of them.
Discard(r) ==
    IF r.pos < DiscardAt THEN r
    ELSE [r EXCEPT !.buf = sdsrange(@, r.pos, -1), !.pos = 0]

\* The result is [r, reply]: reply is None when no reply is complete.
redisReaderGetReply(r) ==
    IF r.err # "none" \/ sdslen(r.buf) = 0 THEN [r |-> r, reply |-> None]
    ELSE LET q == ProcessItems(IF r.rstack = <<>>
                               THEN [r EXCEPT !.rstack = <<Task(-1)>>] ELSE r)
             e == IF q.err = "none" THEN Discard(q) ELSE q
         IN  IF e.err # "none" \/ e.rstack # <<>> THEN [r |-> e, reply |-> None]
             ELSE [r |-> [e EXCEPT !.reply = None], reply |-> e.reply]
=============================================================================
