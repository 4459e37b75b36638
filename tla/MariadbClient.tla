--------------------------- MODULE MariadbClient ---------------------------
(***************************************************************************)
(* A MariaDB connection through either of its interfaces.                  *)
(***************************************************************************)
EXTENDS MariadbAsync, MariadbDthread

vars == <<conn, async, dthread>>

Init == ConnInit /\ AsyncInit /\ DthreadInit

Next ==
    \/ AsyncNext /\ UNCHANGED dthread
    \/ DthreadNext /\ UNCHANGED async

\* A handler that has begun runs on, and so do the callbacks it calls: the
\* worker's thread is not stopped.  No event is promised to come.
Spec ==
    /\ Init /\ [][Next]_vars
    /\ WF_vars((Handlers \/ OnReadNextRow) /\ UNCHANGED dthread)

-----------------------------------------------------------------------------
(* A query that was accepted is not lost.  It is refused because of an     *)
(* answer still on the wire only if multi statements are on, or connect_cb *)
(* used the connection, or a dthread gave the connection back to the pool  *)
(* with a result unread; it goes down with its connection, and two calls   *)
(* of the library overlap, only after an error or in the first two cases   *)
(* ("It will ensure that all previous enqueued queries of that connection  *)
(* are processed before it is disconnected").                              *)
QueriesKept ==
    /\ (\E q \in Queries : fate[q] = "refused") => multi \/ nested \/ unread
    /\ (\E q \in Queries : fate[q] = "dropped") => multi \/ nested \/ failed
    /\ fault = "overlap" => nested

(* Each misuse of memory has one cause.  A freed connection is used after  *)
(* connect_cb disconnected it, after an error event of a dthread, or when  *)
(* the pool's attempt to connect fails; NULL is freed as a query, and an   *)
(* error event finds a query or a result that was freed, only when a       *)
(* result was released or advanced in two steps; and an event resumes a    *)
(* dthread that has ended only when the server failed or hung up or the    *)
(* dthread left a result unread.                                           *)
MemorySafe ==
    /\ fault = "freed_conn" =>
          \/ api = "async" /\ (nested \/ (is_pooled /\ state = "CLOSED"))
          \/ api = "dthread" /\ failed
    /\ fault = "null_query" => twostep
    /\ fault \in {"freed_query", "freed_result"} => twostep
    /\ fault = "dead_dthread" => failed \/ unread

\* The states in which mariadb_on_read continues what had to wait.
Continued == {"CONNECTING", "QUERYING", "ROW_FETCHING", "RESULT_FREEING",
              "NEXT_RESULTING"}

(* When the worker is back in its event loop and the connection has        *)
(* queries, or is to be disconnected after them, then a call of the        *)
(* library waits in a state that mariadb_on_read continues: nothing that   *)
(* was accepted is left without an event that would get it on.  The only   *)
(* exception is a result of multi statements that was released in two      *)
(* steps, after which mariadb_on_read does not go back to the queue        *)
(* (mariadb.c:156).                                                        *)
QueueGoesOn ==
    api = "async" /\ fault = "none" /\ pc = "idle" /\ life = "open"
        /\ (queries # <<>> \/ finish)
    => \/ busy /\ state \in Continued
       \/ multi /\ twostep /\ state = "CONNECTED"

(* Every handler gives the worker back to its event loop in the end, with  *)
(* callbacks that enqueue, abort and disconnect below it: the loops over   *)
(* queries, results and rows come to their end.  Only the loop over the    *)
(* results of multi statements does not, when a call of the library fails  *)
(* for good (mariadb.c:161, async.c:244).                                  *)
HandlersReturn ==
    pc # "idle" ~> (pc = "idle" \/ fault # "none" \/ (multi /\ pc = "spin"))
=============================================================================
