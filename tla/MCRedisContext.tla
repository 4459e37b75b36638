--------------------------- MODULE MCRedisContext ---------------------------
\* Small commands and replies for RedisContext.
EXTENDS RedisContext

\* Whatever is done to a string in its block, the room behind it is not
\* negative and the block does not shrink.
ASSUME RoomIsKept ==
    \A n \in 0..4, m \in 0..6 :
        LET s == sdscatlen(sdsempty, [i \in 1..n |-> "a"])
        IN  \A r \in {sdsrange(s, 1, -2), sdsrange(s, -2, 3), sdscatlen(s, [i \in 1..m |-> "b"])} :
                r.free >= 0 /\ sdslen(r) + r.free >= sdslen(s) + s.free

Lit(s) == [spec |-> <<>>, text |-> s]
Par(s, t) == [spec |-> s, text |-> t]
Ten == <<"a", "a", "a", "a", "a", "a", "a", "a", "a", "a">>

\* An empty argument, a percent sign before a padded number, and ten bytes; a
\* conversion that does not fit and an argument of CR LF; a conversion that
\* the code does not know; one that the end of the format cuts off.
MCCommands ==
    { << <<Par(<<"s">>, <<>>)>>, <<Lit(<<"%">>), Par(<<"0", "2", "d">>, <<"0", "7">>)>>,
         <<Par(<<"b">>, Ten)>> >>,
      << <<Par(<<"-", "0", "9", "d">>, <<"7">>)>>, <<Par(<<"b">>, <<CR, LF>>)>> >>,
      << <<Lit(<<"G">>)>>, <<Par(<<"h", "q">>, <<"7">>)>> >>,
      << <<Lit(<<"G">>)>>, <<Par(<<"5">>, <<"7">>)>> >> }

MCWriteSizes == {15, 70}
MCReadSizes == {1, 70}

Rep(type, v) == [type |-> type, val |-> v]
Arr(v) == Rep("array", v)
Nil == Rep("nil", None)

\* Answers of every type, also inside arrays, arrays as deep as the reader
\* takes them and one level deeper, and an array with a negative count.
MCAnswers ==
    { Rep("error", <<"E">>),
      Arr(<<Nil, Arr(<<Arr(<<>>), Rep("status", <<"k">>)>>), Rep("string", <<CR, LF>>)>>),
      Arr(<<Rep("integer", -12), Rep("array<0", -2), Rep("string", <<>>)>>),
      Arr(<<Arr(<<Arr(<<>>)>>)>>) }
=============================================================================
