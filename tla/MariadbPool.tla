---------------------------- MODULE MariadbPool ----------------------------
(***************************************************************************)
(* The pool of MariaDB connections of one worker thread                    *)
(* (packages/mariadb/pool.c) as the callback interface uses it: get_conn,  *)
(* connect_async, query_async and disconnect_async of async.c, and the     *)
(* event handlers of mariadb.c.  A service holds a connection from         *)
(* pool_get_conn_async() until it calls disconnect_async(); it uses it in  *)
(* between, and not afterwards.                                            *)
(*                                                                         *)
(* The processing of a queue of queries is abstracted to its start and its *)
(* end, and a service's calls are made after, not inside, its callbacks.   *)
(* The client library, the server and the event loop are external:         *)
(* failures says which of their failures an instance admits.               *)
(***************************************************************************)
EXTENDS Integers, Sequences, FiniteSets

CONSTANTS
    Conns,      \* the addresses of connections, each allocated once at most
    MaxSize,    \* config->max_size
    DefaultMin, \* MARIADB_POOL_DEFAULT_MIN_SIZE
    FailureSets \* the choices of the failures that a behaviour admits

ASSUME PoolAssumption ==
    /\ MaxSize \in Nat /\ DefaultMin \in Nat
    /\ FailureSets \subseteq SUBSET {"connect", "used", "idle"}

VARIABLES
    size,       \* pool->size
    free_size,  \* pool->free_size
    free_conns, \* pool->free_conns
    state,      \* conn->state; "none" before, "freed" after its life
    is_pooled,  \* conn->is_pooled
    finish,     \* conn->disconnect_on_finish
    queries,    \* are there queries in conn->queries?
    connect_cb, \* is conn->connect_cb set?
    held,       \* the connections that a service holds
    touched,    \* the freed connections whose memory a step has used
    killed,     \* history: the connections that a failure has freed
    failures    \* "connect": an attempt to connect fails, "used", "idle":
                \* an error or close event on a connection held, or idle

vars == <<size, free_size, free_conns, state, is_pooled, finish, queries,
          connect_cb, held, touched, killed, failures>>

States == {"none", "CLOSED", "CONNECTING", "CONNECTED", "QUERYING", "freed"}
Alive  == {c \in Conns : state[c] \notin {"none", "freed"}}
Idle   == {free_conns[i] : i \in 1 .. Len(free_conns)}

\* From then on nothing is known of the pool.
fault == touched # {}

\* Of the nodes I of a list, which an operation on the list reads or writes,
\* those in the memory of a freed connection.
Dangling(I, list) ==
    {list[i] : i \in {j \in I \cap (1 .. Len(list)) : state[list[j]] = "freed"}}

Init ==
    /\ size = 0
    /\ free_size = 0
    /\ free_conns = <<>>
    /\ state = [c \in Conns |-> "none"]
    /\ is_pooled = [c \in Conns |-> FALSE]
    /\ finish = [c \in Conns |-> FALSE]
    /\ queries = [c \in Conns |-> FALSE]
    /\ connect_cb = [c \in Conns |-> FALSE]
    /\ held = {}
    /\ touched = {}
    /\ killed = {}
    /\ failures \in FailureSets

-----------------------------------------------------------------------------
(***************************************************************************)
(* mariadb_pool_get_conn: an idle connection, a new one of the pool, or,   *)
(* with the pool at its limit, a new one outside the pool.                 *)
(***************************************************************************)
MayGrow == size < MaxSize

\* What mysql_real_connect_start leads to for a connection that is CLOSED:
\* the connection is freed, or the attempt goes on, or it has succeeded.
Attempts == {"CONNECTING", "CONNECTED"} \cup
            (IF "connect" \in failures THEN {"freed"} ELSE {})

\* The connection get_conn hands out has reached state s.  Its callback is
\* called with success as soon as connect_start has not failed; when it has,
\* the memory of the connection is written to after it was freed.
Hand(c, s) ==
    /\ state' = [state EXCEPT ![c] = s]
    /\ connect_cb' = [connect_cb EXCEPT ![c] = s # "freed"]
    /\ held' = IF s = "freed" THEN held ELSE held \cup {c}
    /\ touched' = IF s = "freed" THEN {c} ELSE {}
    /\ killed' = killed \cup touched'

GetIdle ==
    /\ ~fault
    /\ free_conns # <<>>
    /\ \/ /\ Dangling({1, 2}, free_conns) = {}
          /\ Hand(Head(free_conns), state[Head(free_conns)])
       \/ /\ Dangling({1, 2}, free_conns) # {}
          /\ touched' = Dangling({1, 2}, free_conns)
          /\ UNCHANGED <<state, connect_cb, held, killed>>
    /\ free_conns' = Tail(free_conns)
    /\ free_size' = free_size - 1
    /\ UNCHANGED <<size, is_pooled, finish, queries>>

GetNew(c) ==
    /\ ~fault
    /\ free_conns = <<>>
    /\ MayGrow
    /\ state[c] = "none"
    /\ \E s \in Attempts : Hand(c, s)
    /\ is_pooled' = [is_pooled EXCEPT ![c] = TRUE]
    /\ size' = size + 1
    /\ UNCHANGED <<free_size, free_conns, finish, queries>>

\* connect_cb is set before the attempt, and called when it has ended.
GetExtra(c) ==
    /\ ~fault
    /\ free_conns = <<>>
    /\ ~MayGrow
    /\ state[c] = "none"
    /\ \E s \in Attempts :
          /\ state' = [state EXCEPT ![c] = s]
          /\ connect_cb' = [connect_cb EXCEPT ![c] = TRUE]
          /\ held' = IF s = "freed" THEN held ELSE held \cup {c}
          /\ killed' = IF s = "freed" THEN killed \cup {c} ELSE killed
    /\ UNCHANGED <<size, free_size, free_conns, is_pooled, finish, queries,
                   touched>>

-----------------------------------------------------------------------------
(***************************************************************************)
(* mariadb_async_handle_release: back to the pool, which may then shrink,  *)
(* or, for a connection that is not pooled, the end of its life.           *)
(***************************************************************************)
\* The condition of the loop in mariadb_pool_reclaim_conn.
Shrinks(f, s) == f * 2 > s /\ s > DefaultMin

\* How many connections the loop releases, f being idle of a pool of s.
Released(f, s) ==
    CHOOSE k \in 0 .. f :
        /\ ~Shrinks(f - k, s - k)
        /\ \A j \in 0 .. k - 1 : Shrinks(f - j, s - j)

\* Mutant: the count of idle connections is not raised.
CountedNoFree(k) == free_size' = free_size - k /\ size' = size - k

\* One more connection is idle, and k are released.
Counted(k) == free_size' = free_size + 1 - k /\ size' = size - k

\* Mutant: the connections released stay in the list.
UnlinkedNone(idle, k) == idle

\* mk_list_del of the first k.
Unlinked(idle, k) == SubSeq(idle, k + 1, Len(idle))

\* mariadb_pool_reclaim_conn: c is CONNECTED; the first of the list go.
Reclaim(c) ==
    LET idle == Append(free_conns, c)
        k    == Released(free_size + 1, size)
        gone == {idle[i] : i \in 1 .. k}
        used == {Len(free_conns)} \cup (IF k > 0 THEN 1 .. k + 1 ELSE {}) IN
    /\ free_conns' = Unlinked(idle, k)
    /\ Counted(k)
    /\ state' = [d \in Conns |-> IF d \in gone THEN "freed"
                                 ELSE IF d = c THEN "CONNECTED" ELSE state[d]]
    /\ is_pooled' = [d \in Conns |-> is_pooled[d] /\ d \notin gone]
    /\ touched' = Dangling(used, idle)

\* mariadb_conn_free
Free(c) ==
    /\ state' = [state EXCEPT ![c] = "freed"]
    /\ is_pooled' = [is_pooled EXCEPT ![c] = FALSE]
    /\ UNCHANGED <<size, free_size, free_conns, touched>>

\* Mutant: disconnect_on_finish stays set.
ReleaseFinishing(c) ==
    /\ IF is_pooled[c] THEN Reclaim(c) ELSE Free(c)
    /\ queries' = [queries EXCEPT ![c] = FALSE]
    /\ connect_cb' = [connect_cb EXCEPT ![c] = FALSE]
    /\ UNCHANGED finish

\* The callbacks, the flag and the queries of a released connection are gone.
Release(c) ==
    /\ IF is_pooled[c] THEN Reclaim(c) ELSE Free(c)
    /\ finish' = [finish EXCEPT ![c] = FALSE]
    /\ queries' = [queries EXCEPT ![c] = FALSE]
    /\ connect_cb' = [connect_cb EXCEPT ![c] = FALSE]

-----------------------------------------------------------------------------
(***************************************************************************)
(* The calls of the service that holds c.                                  *)
(***************************************************************************)
\* query_async(): a connected connection starts at once.
Query(c) ==
    /\ ~fault
    /\ c \in held /\ state[c] # "freed"
    /\ queries' = [queries EXCEPT ![c] = TRUE]
    /\ state' = [state EXCEPT ![c] = IF @ = "CONNECTED" THEN "QUERYING" ELSE @]
    /\ UNCHANGED <<size, free_size, free_conns, is_pooled, finish, connect_cb,
                   held, touched, killed>>

\* disconnect_async(): at once when the connection is CONNECTED, else later.
Disconnect(c) ==
    /\ ~fault
    /\ c \in held /\ state[c] # "freed"
    /\ held' = held \ {c}
    /\ \/ state[c] = "CONNECTED" /\ Release(c)
       \/ /\ state[c] # "CONNECTED"
          /\ finish' = [finish EXCEPT ![c] = TRUE]
          /\ UNCHANGED <<size, free_size, free_conns, state, is_pooled,
                         queries, connect_cb, touched>>
    /\ UNCHANGED killed

\* A call on a connection that an event has freed meanwhile.
UseFreed(c) ==
    /\ ~fault
    /\ c \in held /\ state[c] = "freed"
    /\ touched' = {c}
    /\ UNCHANGED <<size, free_size, free_conns, state, is_pooled, finish,
                   queries, connect_cb, held, killed>>

-----------------------------------------------------------------------------
(***************************************************************************)
(* The event handlers.                                                     *)
(***************************************************************************)
\* The end of mariadb_async_handle_query: nothing is left to do.
Finish(c) ==
    IF finish[c]
    THEN Release(c)
    ELSE /\ state' = [state EXCEPT ![c] = "CONNECTED"]
         /\ queries' = [queries EXCEPT ![c] = FALSE]
         /\ UNCHANGED <<size, free_size, free_conns, is_pooled, finish,
                        connect_cb, touched>>

\* mariadb_on_read of a connection that is CONNECTING, and is now connected:
\* the callback, then the queries that were added meanwhile.
OnConnected(c) ==
    /\ ~fault
    /\ state[c] = "CONNECTING"
    /\ \/ /\ queries[c]
          /\ state' = [state EXCEPT ![c] = "QUERYING"]
          /\ UNCHANGED <<size, free_size, free_conns, is_pooled, finish,
                         queries, connect_cb, touched>>
       \/ /\ ~queries[c]
          /\ Finish(c)
    /\ UNCHANGED <<held, killed>>

\* mariadb_on_read when the last query is done.
OnQueried(c) ==
    /\ ~fault
    /\ state[c] = "QUERYING"
    /\ Finish(c)
    /\ UNCHANGED <<held, killed>>

\* The failures that may hit c.
Hit(c) == \/ c \in Idle /\ "idle" \in failures
          \/ c \notin Idle /\ "used" \in failures
          \/ state[c] = "CONNECTING" /\ "connect" \in failures

\* mariadb_on_error, and mariadb_on_close, which also follows a failed
\* attempt to connect: the connection is freed, whatever list it is in.
OnFailure(c) ==
    /\ ~fault
    /\ state[c] \in {"CONNECTING", "CONNECTED", "QUERYING"}
    /\ Hit(c)
    /\ Free(c)
    /\ killed' = killed \cup {c}
    /\ UNCHANGED <<finish, queries, connect_cb, held>>

Halted == fault /\ UNCHANGED vars

Next ==
    \/ /\ \/ GetIdle
          \/ \E c \in Conns :
                \/ GetNew(c) \/ GetExtra(c)
                \/ Query(c) \/ Disconnect(c) \/ UseFreed(c)
                \/ OnConnected(c) \/ OnQueried(c) \/ OnFailure(c)
       /\ UNCHANGED failures
    \/ Halted

Spec == Init /\ [][Next]_vars

-----------------------------------------------------------------------------
(***************************************************************************)
(* Properties.                                                             *)
(***************************************************************************)

(* The fields of the pool and of the connections hold values of their      *)
(* types; no count is ever negative.                                       *)
TypeOK ==
    /\ size \in 0 .. MaxSize
    /\ free_size \in 0 .. MaxSize
    /\ free_conns \in Seq(Conns)
    /\ state \in [Conns -> States]
    /\ is_pooled \in [Conns -> BOOLEAN]
    /\ finish \in [Conns -> BOOLEAN]
    /\ queries \in [Conns -> BOOLEAN]
    /\ connect_cb \in [Conns -> BOOLEAN]
    /\ held \subseteq Conns
    /\ touched \subseteq Conns
    /\ killed \subseteq Conns

(* free_size, which decides with size whether the pool shrinks, is the     *)
(* length of the list of idle connections, whatever fails.                 *)
FreeCount == free_size = Len(free_conns)

(* The pool never has more connections than it counts, nor counts more     *)
(* than its maximum, whatever fails.                                       *)
PoolBounds ==
    Cardinality({c \in Alive : is_pooled[c]}) <= size /\ size <= MaxSize

(* A connection is idle or held by one service: the list of idle           *)
(* connections has none twice, none that a service holds and none with     *)
(* queries still to be processed.                                          *)
Exclusive ==
    /\ \A i, j \in 1 .. Len(free_conns) : free_conns[i] = free_conns[j] => i = j
    /\ Idle \cap held = {}
    /\ \A c \in Idle : ~queries[c] /\ ~finish[c] /\ state[c] \in {"CONNECTED", "freed"}

(* Without failures, pool->size is the number of connections the pool has  *)
(* ("the pool will spawn more connections as long as the pool size don't   *)
(* exceed the maximum").                                                   *)
SizeExact == failures = {} => size = Cardinality({c \in Alive : is_pooled[c]})

(* The counts by which the pool grows and shrinks are right.               *)
CountsRight == TypeOK /\ FreeCount /\ PoolBounds /\ SizeExact

(* A connection whose memory is used after it was freed was freed by a     *)
(* failure: an event on it while it was idle or held, or its attempt to    *)
(* connect inside get_conn, which returns "a MariaDB connection on         *)
(* success, or NULL on failure" and writes to it all the same.  What the   *)
(* pool frees itself, shrinking or releasing, is in no list and in no      *)
(* service's hands any more, whatever failed elsewhere.                    *)
NoFreedUse ==
    /\ touched \subseteq killed
    /\ \A c \in Idle \cup held : state[c] = "freed" => c \in killed
=============================================================================
