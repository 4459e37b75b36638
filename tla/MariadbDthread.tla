--------------------------- MODULE MariadbDthread ---------------------------
(***************************************************************************)
(* The dthread interface of a MariaDB connection                           *)
(* (packages/mariadb/dthread.c): connect, query, get_row and disconnect    *)
(* block the calling dthread.  A call that has to wait yields, and every   *)
(* event of the connection resumes the dthread that connected it, whatever *)
(* that dthread waits for and whether it still lives; an error, close or   *)
(* timeout event also sets the state to ERROR.  A step is what runs        *)
(* between two yields.                                                     *)
(*                                                                         *)
(* The service reads the rows of a result before its next query, or gives  *)
(* the connection back with rows unread.  query() and get_row() return     *)
(* NULL both when the connection is still there and when it was freed, so  *)
(* the service goes on with it.                                            *)
(***************************************************************************)
EXTENDS MariadbConn

VARIABLES
    at,         \* where the dthread is: "run", waiting in "connect",
                \* "query", "row" or "free", "elsewhere", or "dead"
    unread,     \* a connection was given back with a result unread
    spare       \* another dthread may still be started

dthread == <<at, unread, spare>>

Runs     == api = "dthread" /\ fault = "none" /\ at = "run"

DthreadInit == at = "run" /\ unread = FALSE /\ spare = TRUE

\* mariadb_dthread_disconnect of a connection that is pooled: p.
Closed(p) ==
    /\ life' = IF p THEN "pooled" ELSE "freed"
    /\ state' = IF p THEN "CONNECTED" ELSE state

-----------------------------------------------------------------------------
\* mariadb_dthread_connect, up to its yield.
Connect ==
    /\ Runs /\ life = "new"
    /\ \/ /\ state' = "CONNECTING" /\ busy' = TRUE /\ life' = "open"
          /\ at' = "connect"
       \/ state' = "CONNECTED" /\ life' = "open" /\ UNCHANGED <<busy, at>>
       \/ life' = "freed" /\ at' = "dead" /\ UNCHANGED <<state, busy>>
    /\ UNCHANGED <<api, multi, is_pooled, current, result, wire, fate, fault,
                   failed, unread, spare>>

\* Its loop, with the state s: a service whose connect() fails gives up.
ConnectGoesOn(s) ==
    /\ at = "connect"
    /\ busy' = FALSE
    /\ \/ s # "ERROR" /\ state' = "CONNECTED" /\ at' = "run" /\ UNCHANGED <<life, is_pooled>>
       \/ at' = "dead" /\ is_pooled' = FALSE /\ Closed(FALSE)
    /\ UNCHANGED <<api, multi, current, result, wire, fate, fault, unread, spare>>

\* A query is answered: mariadb_dthread_handle_result.
Answered(a) ==
    /\ state' = "QUERIED" /\ at' = "run"
    /\ wire' = IF Head(a) = NoRows THEN Tail(a) ELSE a
    /\ result' = IF Head(a) = NoRows THEN "null" ELSE "live"

\* mariadb_dthread_query, up to its yield.
Query(q) ==
    /\ Runs /\ life = "open" /\ result # "live" /\ fate[q] = "none"
    /\ current' = q
    /\ \/ /\ "wait" \in Sent
          /\ state' = "QUERYING" /\ busy' = TRUE /\ at' = "query"
          /\ fate' = [fate EXCEPT ![q] = "queued"]
          /\ UNCHANGED <<result, wire>>
       \/ /\ fate' = [fate EXCEPT ![q] = Refusal]
          /\ UNCHANGED <<state, busy, at, result, wire>>
       \/ /\ "ok" \in Sent
          /\ \E a \in Answer : Answered(a)
          /\ fate' = [fate EXCEPT ![q] = "open"]
          /\ UNCHANGED busy
    /\ UNCHANGED <<api, multi, is_pooled, life, fault, failed, unread, spare>>

\* Its loop.
QueryGoesOn(s) ==
    /\ at = "query"
    /\ busy' = FALSE
    /\ \/ /\ s = "ERROR"
          /\ is_pooled' = FALSE /\ Closed(FALSE) /\ at' = "run"
          /\ fate' = [fate EXCEPT ![current] = "error"]
          /\ UNCHANGED <<result, wire>>
       \/ /\ s # "ERROR" /\ at' = "run"
          /\ fate' = [fate EXCEPT ![current] = "error"]
          /\ UNCHANGED <<state, life, is_pooled, result, wire>>
       \/ /\ s # "ERROR"
          /\ \E a \in Answer : Answered(a)
          /\ fate' = [fate EXCEPT ![current] = "open"]
          /\ UNCHANGED <<life, is_pooled>>
    /\ UNCHANGED <<api, multi, current, fault, unread, spare>>

\* What get_row does with what it has fetched: after the last row, or an
\* error, the result is detached and mariadb_dthread_result_free never waits.
Row(f) ==
    /\ f # "wait" /\ at' = "run" /\ busy' = FALSE
    /\ \/ /\ f = "row"
          /\ state' = "ROW_FETCHED" /\ wire' = WireAfter(f)
          /\ UNCHANGED <<result, fate>>
       \/ /\ f # "row"
          /\ state' = "RESULT_FREED" /\ wire' = Tail(wire) /\ result' = "freed"
          /\ fate' = [fate EXCEPT ![current] = IF f = "end" THEN "ended" ELSE "error"]

\* mariadb_dthread_get_row, up to its yield.
GetRow ==
    /\ Runs /\ life = "open" /\ result = "live"
    /\ \/ /\ state' = "ROW_FETCHING" /\ busy' = TRUE /\ at' = "row"
          /\ UNCHANGED <<wire, result, fate>>
       \/ \E f \in Fetched : Row(f)
    /\ UNCHANGED <<api, multi, is_pooled, life, current, fault, failed, unread,
                   spare>>

\* get_row gives up: the result was released, and then the connection is.
GiveUp ==
    /\ is_pooled' = FALSE /\ life' = "freed" /\ state' = "RESULT_FREED"
    /\ busy' = FALSE /\ at' = "run" /\ result' = "freed" /\ wire' = Tail(wire)

\* Its loop.  After an error the result is released, a call that takes the
\* place of the fetch that waits, and then the connection.
GetRowGoesOn(s) ==
    /\ at = "row"
    /\ \/ /\ s # "ERROR"
          /\ \E f \in FetchedCont : Row(f)
          /\ UNCHANGED <<life, is_pooled>>
       \/ /\ s = "ERROR"
          /\ fate' = [fate EXCEPT ![current] = "error"]
          /\ \/ /\ "wait" \in FreeOut
                /\ state' = "RESULT_FREEING" /\ busy' = TRUE /\ at' = "free"
                /\ UNCHANGED <<wire, result, life, is_pooled>>
             \/ GiveUp
    /\ UNCHANGED <<api, multi, current, fault, unread, spare>>

\* The loop of mariadb_dthread_result_free, which waits only in a get_row
\* that gives up.  Another error releases the connection, and get_row then
\* uses and releases it again.
FreeGoesOn(s) ==
    /\ at = "free"
    /\ GiveUp
    /\ fault' = IF s = "ERROR" THEN "freed_conn" ELSE "none"
    /\ UNCHANGED <<api, multi, current, fate, unread, spare>>

\* mariadb_dthread_disconnect; the service then ends.
Disconnect ==
    /\ Runs /\ life = "open"
    /\ Closed(is_pooled)
    /\ unread' = (unread \/ (is_pooled /\ wire # <<>>))
    /\ result' = "null" /\ current' = None
    /\ at' = "dead"
    /\ UNCHANGED <<api, multi, is_pooled, wire, busy, fate, fault, failed,
                   spare>>

\* A call on a connection that was freed without a word.
UseFreed ==
    /\ Runs /\ life = "freed"
    /\ fault' = "freed_conn"
    /\ UNCHANGED <<api, multi, is_pooled, state, life, current, result, wire,
                   busy, fate, failed, dthread>>

\* The dthread waits for something else, and goes on.
Elsewhere ==
    /\ api = "dthread" /\ fault = "none" /\ life = "open"
    /\ \/ at = "run" /\ at' = "elsewhere"
       \/ at = "elsewhere" /\ at' = "run"
    /\ UNCHANGED <<conn, unread, spare>>

\* Another dthread takes the connection from the pool.
GetConn ==
    /\ api = "dthread" /\ fault = "none" /\ at = "dead" /\ life = "pooled" /\ spare
    /\ at' = "run" /\ life' = "open" /\ spare' = FALSE
    /\ UNCHANGED <<api, multi, is_pooled, state, current, result, wire, busy,
                   fate, fault, failed, unread>>

\* The dthread waits for something else, and is resumed all the same.
ResumeElsewhere(s) ==
    /\ at = "elsewhere" /\ at' = "run" /\ state' = s
    /\ UNCHANGED <<api, multi, is_pooled, life, current, result, wire, busy,
                   fate, fault, unread, spare>>

\* It has ended: duda_dthread_resume fails an assertion, or resumes the
\* dthread that has its id now.
ResumeDead(s) ==
    /\ at = "dead" /\ fault' = "dead_dthread" /\ state' = s
    /\ UNCHANGED <<api, multi, is_pooled, life, current, result, wire, busy,
                   fate, dthread>>

\* dthread->resume(conn->dthread_id), by the event loop of its worker.
Resume(s) ==
    /\ api = "dthread" /\ fault = "none" /\ life \in {"open", "pooled"}
    /\ \/ ConnectGoesOn(s) \/ QueryGoesOn(s) \/ GetRowGoesOn(s) \/ FreeGoesOn(s)
       \/ ResumeElsewhere(s) \/ ResumeDead(s)

\* mariadb_dthread_on_read: there is something to read, an answer or what
\* is left of one, or the server has hung up.
OnReadResume(hungup) ==
    /\ busy \/ wire # <<>> \/ hungup
    /\ Resume(state)
    /\ failed' = (failed \/ hungup)

\* mariadb_dthread_on_error, on_close and on_timeout.
OnFailure == Resume("ERROR") /\ failed' = TRUE

DthreadNext ==
    \/ Connect \/ GetRow \/ Disconnect \/ UseFreed \/ Elsewhere \/ GetConn
    \/ \E q \in Queries : Query(q)
    \/ \E hungup \in BOOLEAN : OnReadResume(hungup)
    \/ OnFailure
=============================================================================
