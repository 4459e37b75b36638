-------------------------------- MODULE Sds --------------------------------
(***************************************************************************)
(* The dynamic strings of the redis package (packages/redis/sds.c), as far *)
(* as the client uses them, as operators on values.  An sds is [buf, free]:*)
(* its bytes and the unused room behind them; sdslen is Len(buf), and the  *)
(* terminating zero is not part of it.  A byte is a model value or a short *)
(* string.  malloc succeeds: the NULL results of the code are its out of   *)
(* memory paths.                                                           *)
(***************************************************************************)
EXTENDS Integers, Sequences, SequencesExt

sdsnewlen(s) == [buf |-> s, free |-> 0]
sdsempty == sdsnewlen(<<>>)
sdslen(s) == Len(s.buf)

\* Room is doubled, counted from the length the string is about to have.
sdsMakeRoomFor(s, addlen) ==
    IF s.free >= addlen THEN s
    ELSE [s EXCEPT !.free = (sdslen(s) + addlen) * 2 - sdslen(s)]

\* The string s with contents t, in the block that s occupies.
InPlace(s, t) == [buf |-> t, free |-> (sdslen(s) + s.free) - Len(t)]

sdscatlen(s, t) == InPlace(sdsMakeRoomFor(s, Len(t)), s.buf \o t)

\* start and end count from zero, or from the end when negative.
sdsrange(s, start, end) ==
    LET len == sdslen(s)
        from == IF start < 0 THEN Max({0, len + start}) ELSE start
        to == IF end < 0 THEN Max({0, len + end}) ELSE end
    IN  IF len = 0 THEN s
        ELSE InPlace(s, IF from > to \/ from >= len THEN <<>>
                        ELSE SubSeq(s.buf, from + 1, Min({to, len - 1}) + 1))

\* Decimal digits of a natural number, most significant first.
RECURSIVE Digits(_)
Digits(v) == (IF v >= 10 THEN Digits(v \div 10) ELSE <<>>) \o <<ToString(v % 10)>>

sdsfromlonglong(value) ==
    IF value < 0 THEN <<"-">> \o Digits(-value) ELSE Digits(value)
=============================================================================
