---------------------------- MODULE MCRedisAsync ----------------------------
\* Two channels that share a slot of the hash table, and a pattern.
EXTENDS RedisAsync

MCNames == {<<"ch", "a">>, <<"ch", "b">>, <<"pat", "a">>}
MCHash == [n \in MCNames |-> 0]
=============================================================================
