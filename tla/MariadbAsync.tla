---------------------------- MODULE MariadbAsync ----------------------------
(***************************************************************************)
(* The callback interface of a MariaDB connection: packages/mariadb/async.c *)
(* and the event handlers of mariadb.c.  A step is one call of the library *)
(* with the code up to the next one; pc says where in the nested handlers  *)
(* the worker is, "idle" being its event loop.  The callbacks of a query   *)
(* and of the connection may call the interface again, at a moment when    *)
(* the handlers below them have not yet returned.  disconnect_cb makes no  *)
(* call, and mysql_*_cont that has to wait again changes nothing.  pc is   *)
(* "spin" in a loop whose calls of the library all fail at once: nothing   *)
(* else runs on that worker any more.                                      *)
(***************************************************************************)
EXTENDS MariadbConn, SequencesExt

VARIABLES
    queries,    \* conn->queries
    aborted,    \* the queries whose abort field is set
    finish,     \* conn->disconnect_on_finish
    pc,         \* the handler that runs
    after,      \* where mariadb_async_handle_query returns to
    again,      \* is it called when the handlers of a result return?
    nested,     \* connect_cb has called the interface
    twostep     \* a call that releases or advances a result had to wait

queue  == <<queries, aborted, finish>>
ghosts == <<nested, twostep>>
async  == <<queue, pc, after, again, ghosts>>

InQueue  == {queries[i] : i \in 1 .. Len(queries)}
InCb     == {"cb_connect", "cb_read", "cb_pool"}
Active(p) == api = "async" /\ fault = "none" /\ pc = p

AsyncInit ==
    /\ queries = <<>> /\ aborted = {} /\ finish = FALSE
    /\ pc = "idle" /\ after = "idle" /\ again = TRUE
    /\ nested = FALSE /\ twostep = FALSE

-----------------------------------------------------------------------------
(***************************************************************************)
(* The service.                                                            *)
(***************************************************************************)
\* mariadb_async_handle_connect for the service, or for get_conn of the
\* pool, which sets the callback afterwards and calls it whatever the state.
ConnectAsync ==
    /\ Active("idle") /\ life = "new"
    /\ \/ /\ state' = "CONNECTING" /\ busy' = TRUE
          /\ life' = "open"
          /\ pc' = IF is_pooled THEN "cb_pool" ELSE "idle"
          /\ UNCHANGED fault
       \/ /\ state' = "CONNECTED"
          /\ life' = "open"
          /\ pc' = IF is_pooled THEN "cb_pool" ELSE "cb_connect"
          /\ UNCHANGED <<busy, fault>>
       \/ /\ life' = "freed"
          /\ fault' = IF is_pooled THEN "freed_conn" ELSE "none"
          /\ UNCHANGED <<state, busy, pc>>
    /\ UNCHANGED <<api, multi, is_pooled, current, result, wire, fate, failed,
                   queue, after, again, ghosts>>

\* mariadb_pool_get_conn of an idle connection, which is connected.
GetPooled ==
    /\ Active("idle") /\ life = "pooled"
    /\ life' = "open" /\ pc' = "cb_pool"
    /\ UNCHANGED <<api, multi, is_pooled, state, current, result, wire, busy,
                   fate, fault, failed, queue, after, again, ghosts>>

\* mariadb_async_handle_release
Released ==
    /\ life' = IF is_pooled THEN "pooled" ELSE "freed"
    /\ fate' = IF is_pooled THEN fate ELSE Dropped(InQueue)
    /\ queries' = IF is_pooled THEN queries ELSE <<>>
    /\ finish' = FALSE

\* Mutant: a connection that is connected is not set to work.
EnqueueOnly(q) ==
    /\ queries' = Append(queries, q)
    /\ fate' = [fate EXCEPT ![q] = "queued"]
    /\ UNCHANGED <<pc, after>>

\* mariadb_async_handle_add_query
Enqueue(q) ==
    /\ queries' = Append(queries, q)
    /\ fate' = [fate EXCEPT ![q] = "queued"]
    /\ pc' = IF state = "CONNECTED" THEN "query" ELSE pc
    /\ after' = IF state = "CONNECTED" THEN pc ELSE after

\* query_async() from the event loop, or from connect_cb.
CallQuery(q) ==
    /\ api = "async" /\ fault = "none" /\ pc \in {"idle"} \cup InCb
    /\ life = "open" /\ ~finish /\ fate[q] = "none"
    /\ Enqueue(q)
    /\ nested' = (nested \/ pc \in {"cb_connect", "cb_read"})
    /\ UNCHANGED <<api, multi, is_pooled, state, life, current, result, wire,
                   busy, fault, failed, aborted, finish, again, twostep>>

\* Mutant: the connection is released although queries are left.
DisconnectAtOnce ==
    /\ api = "async" /\ fault = "none" /\ pc \in {"idle"} \cup InCb
    /\ life = "open" /\ ~finish
    /\ Released
    /\ nested' = (nested \/ pc \in {"cb_connect", "cb_read"})
    /\ UNCHANGED <<api, multi, is_pooled, state, current, result, wire, busy,
                   fault, failed, aborted, pc, after, again, twostep>>

\* disconnect_async(): at once when the connection is CONNECTED, else when
\* the queue has been processed.
CallDisconnect ==
    /\ api = "async" /\ fault = "none" /\ pc \in {"idle"} \cup InCb
    /\ life = "open" /\ ~finish
    /\ \/ state = "CONNECTED" /\ Released
       \/ state # "CONNECTED" /\ finish' = TRUE /\ UNCHANGED <<life, fate, queries>>
    /\ nested' = (nested \/ pc \in {"cb_connect", "cb_read"})
    /\ UNCHANGED <<api, multi, is_pooled, state, current, result, wire, busy,
                   fault, failed, aborted, pc, after, again, twostep>>

\* connect_cb returns to handle_connect, to mariadb_on_read or to get_conn:
\* the first two use the connection again.
CbReturns ==
    /\ api = "async" /\ fault = "none" /\ pc \in InCb
    /\ fault' = IF life = "freed" /\ pc # "cb_pool" THEN "freed_conn" ELSE "none"
    /\ pc' = IF pc = "cb_read" \/ (pc = "cb_connect" /\ state = "CONNECTED")
             THEN "query" ELSE "idle"
    /\ after' = "idle"
    /\ UNCHANGED <<api, multi, is_pooled, state, life, current, result, wire,
                   busy, fate, failed, queue, again, ghosts>>

\* What a callback of the current query does: nothing, or abort_async(), or
\* query_async() or disconnect_async(), which find a connection that is not
\* CONNECTED.  f is the fate of the current query.
Callback(f) ==
    LET done == [fate EXCEPT ![current] = f] IN
    \/ fate' = done /\ UNCHANGED queue
    \/ fate' = done /\ aborted' = aborted \cup {current} /\ UNCHANGED <<queries, finish>>
    \/ fate' = done /\ finish' = TRUE /\ UNCHANGED <<queries, aborted>>
    \/ \E q \in Queries :
          /\ fate[q] = "none" /\ ~finish
          /\ fate' = [done EXCEPT ![q] = "queued"]
          /\ queries' = Append(queries, q)
          /\ UNCHANGED <<aborted, finish>>

-----------------------------------------------------------------------------
(***************************************************************************)
(* The handlers.  Each either goes on with the next one or, when the       *)
(* library has to wait, returns through all of them to where               *)
(* handle_query was called.                                                *)
(***************************************************************************)
\* mariadb_query_free(q) with the end f.
Removed(q) == RemoveFirst(queries, q)
Ended(q, f) == [fate EXCEPT ![q] = IF @ \in {"queued", "open"} THEN f ELSE @]

\* The handlers of a result return with the state CONNECTED.
Back == IF again THEN "query" ELSE after

\* Mutant: the pointer to the last query stays.
HandleQueryEmptyStale ==
    /\ Active("query") /\ queries = <<>>
    /\ state' = "CONNECTED"
    /\ pc' = after /\ after' = "idle"
    /\ \/ finish /\ Released
       \/ ~finish /\ UNCHANGED <<life, fate, queries, finish>>
    /\ UNCHANGED <<api, multi, is_pooled, current, result, wire, busy, fault,
                   failed, aborted, again, ghosts>>

\* mariadb_async_handle_query
HandleQueryEmpty ==
    /\ Active("query") /\ queries = <<>>
    /\ current' = None /\ state' = "CONNECTED"
    /\ pc' = after /\ after' = "idle"
    /\ \/ finish /\ Released
       \/ ~finish /\ UNCHANGED <<life, fate, queries, finish>>
    /\ UNCHANGED <<api, multi, is_pooled, result, wire, busy, fault, failed,
                   aborted, again, ghosts>>

\* Mutant: the loop goes on with the query it has not taken from the list.
HandleQueryAbortedKept ==
    /\ Active("query") /\ queries # <<>> /\ Head(queries) \in aborted
    /\ current' = Head(queries) /\ state' = "CONNECTED"
    /\ UNCHANGED <<api, multi, is_pooled, life, result, wire, busy, fate, fault,
                   failed, queue, pc, after, again, ghosts>>

HandleQueryAborted ==
    /\ Active("query") /\ queries # <<>> /\ Head(queries) \in aborted
    /\ current' = Head(queries) /\ state' = "CONNECTED"
    /\ queries' = Tail(queries)
    /\ fate' = Ended(Head(queries), "aborted")
    /\ UNCHANGED <<api, multi, is_pooled, life, result, wire, busy, fault,
                   failed, aborted, finish, pc, after, again, ghosts>>

HandleQuerySend ==
    /\ Active("query") /\ queries # <<>> /\ Head(queries) \notin aborted
    /\ LET q == Head(queries) IN
       /\ current' = q /\ result' = "null" /\ again' = TRUE
       /\ \/ /\ busy /\ fault' = "overlap"
             /\ UNCHANGED <<state, wire, busy, queries, fate, pc, after>>
          \/ /\ ~busy /\ "wait" \in Sent
             /\ state' = "QUERYING" /\ busy' = TRUE
             /\ pc' = after /\ after' = "idle"
             /\ UNCHANGED <<wire, queries, fate, fault>>
          \/ /\ ~busy
             /\ queries' = Tail(queries)
             /\ fate' = Ended(q, Refusal)
             /\ UNCHANGED <<state, wire, busy, fault, pc, after>>
          \/ /\ ~busy /\ "ok" \in Sent
             /\ wire' \in Answer
             /\ state' = "QUERIED" /\ pc' = "result"
             /\ UNCHANGED <<busy, queries, fate, fault, after>>
    /\ UNCHANGED <<api, multi, is_pooled, life, failed, aborted, finish, ghosts>>

\* mariadb_async_handle_result: mysql_use_result is NULL after a statement
\* that returns no result.
HandleResult ==
    /\ Active("result")
    /\ \/ /\ Head(wire) = NoRows
          /\ wire' = Tail(wire) /\ result' = "null"
          /\ queries' = Removed(current)
          /\ fate' = Ended(current, "noresult")
          /\ state' = "CONNECTED"
          /\ pc' = Back
          /\ UNCHANGED <<aborted, finish>>
       \/ /\ Head(wire) # NoRows /\ current \in aborted
          /\ result' = "live" /\ pc' = "free"
          /\ UNCHANGED <<wire, queue, fate, state>>
       \/ /\ Head(wire) # NoRows /\ current \notin aborted
          /\ result' = "live" /\ pc' = "row"
          /\ Callback("open")
          /\ UNCHANGED <<wire, state>>
    /\ UNCHANGED <<api, multi, is_pooled, life, current, busy, fault, failed,
                   after, again, ghosts>>

\* A row has been fetched: the callbacks, and what is done next.
GotRow(f, loop) ==
    /\ f # "wait"
    /\ state' = "ROW_FETCHED" /\ busy' = FALSE
    /\ wire' = WireAfter(f) /\ result' = ResultAfter(f)
    /\ pc' = IF f = "row" THEN loop ELSE "free"
    /\ \/ f = "row" /\ Callback("open")
       \/ f = "end" /\ Callback("ended")
       \/ f \in {"error", "sync"} /\ fate' = Ended(current, "error") /\ UNCHANGED queue

\* mariadb_async_handle_row
HandleRow ==
    /\ Active("row")
    /\ \/ /\ state' = "ROW_FETCHING" /\ busy' = TRUE
          /\ pc' = after /\ after' = "idle"
          /\ UNCHANGED <<wire, result, queue, fate>>
       \/ \E f \in Fetched : GotRow(f, "row") /\ UNCHANGED after
    /\ UNCHANGED <<api, multi, is_pooled, life, current, fault, failed, again,
                   ghosts>>

\* The query is done: it is taken from the list.
Finish ==
    /\ current' = None /\ state' = "CONNECTED"
    /\ queries' = Removed(current)
    /\ fate' = Ended(current, "aborted")

\* mariadb_async_handle_result_free
HandleResultFree ==
    /\ Active("free")
    /\ \/ /\ "wait" \in FreeOut
          /\ state' = "RESULT_FREEING" /\ busy' = TRUE /\ twostep' = TRUE
          /\ pc' = after /\ after' = "idle"
          /\ UNCHANGED <<wire, result, current, queries, fate>>
       \/ /\ wire' = Tail(wire) /\ result' = "freed"
          /\ \/ ~multi /\ Finish /\ pc' = Back
             \/ /\ multi /\ state' = "RESULT_FREED" /\ pc' = "next"
                /\ UNCHANGED <<current, queries, fate>>
          /\ UNCHANGED <<busy, after, twostep>>
    /\ UNCHANGED <<api, multi, is_pooled, life, fault, failed, aborted, finish,
                   again, nested>>

\* mariadb_async_handle_next_result: its loop has no end when the server is
\* lost, for each call then fails at once.
HandleNextResult ==
    /\ Active("next")
    /\ \/ /\ "wait" \in NextOut
          /\ state' = "NEXT_RESULTING" /\ busy' = TRUE /\ twostep' = TRUE
          /\ pc' = after /\ after' = "idle"
          /\ UNCHANGED <<wire, current, queries, fate>>
       \/ /\ "last" \in NextOut
          /\ Finish /\ pc' = Back
          /\ UNCHANGED <<wire, busy, after, twostep>>
       \/ /\ "more" \in NextOut
          /\ state' = "NEXT_RESULTED" /\ pc' = "result"
          /\ UNCHANGED <<wire, busy, after, current, queries, fate, twostep>>
       \/ /\ "error" \in NextOut
          /\ state' = "NEXT_RESULTED" /\ wire' = <<>>
          /\ UNCHANGED <<busy, pc, after, current, queries, fate, twostep>>
       \/ /\ "lost" \in NextOut
          /\ state' = "NEXT_RESULTED" /\ pc' = "spin"
          /\ UNCHANGED <<wire, busy, after, current, queries, fate, twostep>>
    /\ UNCHANGED <<api, multi, is_pooled, life, result, fault, failed, aborted,
                   finish, again, nested>>

-----------------------------------------------------------------------------
(***************************************************************************)
(* The events.  mariadb_on_read continues the call that had to wait.       *)
(***************************************************************************)
Readable(s) == Active("idle") /\ life = "open" /\ state = s

\* A failed attempt ends with DUDA_EVENT_CLOSE, and so with mariadb_on_close.
OnReadConnecting ==
    /\ Readable("CONNECTING")
    /\ busy' = FALSE
    /\ \/ state' = "CONNECTED" /\ pc' = "cb_read" /\ UNCHANGED <<life, queries, fate>>
       \/ life' = "freed" /\ queries' = <<>> /\ fate' = Dropped(InQueue) /\ UNCHANGED <<state, pc>>
    /\ failed' = (failed \/ life' = "freed")
    /\ UNCHANGED <<api, multi, is_pooled, current, result, wire, fault, aborted,
                   finish, after, again, ghosts>>

OnReadQuerying ==
    /\ Readable("QUERYING")
    /\ busy' = FALSE /\ again' = TRUE
    /\ \/ /\ state' = "CONNECTED" /\ pc' = "query"
          /\ queries' = Removed(current)
          /\ fate' = Ended(current, "error")
          /\ UNCHANGED wire
       \/ /\ state' = "QUERIED" /\ pc' = "result"
          /\ wire' \in Answer
          /\ UNCHANGED <<queries, fate>>
    /\ UNCHANGED <<api, multi, is_pooled, life, current, result, fault, failed,
                   aborted, finish, after, ghosts>>

\* The loop goes on with mysql_fetch_row_cont, after a row that has nothing
\* to continue.
OnReadRow ==
    /\ Readable("ROW_FETCHING")
    /\ \E f \in FetchedCont : GotRow(f, "row_cont")
    /\ again' = TRUE
    /\ UNCHANGED <<api, multi, is_pooled, life, current, fault, failed, after,
                   ghosts>>

OnReadNextRow ==
    /\ Active("row_cont")
    /\ \E f \in FetchedCont : GotRow(f, "row_cont")
    /\ UNCHANGED <<api, multi, is_pooled, life, current, fault, failed, after,
                   again, ghosts>>

\* current_query is set to NULL, and then freed.
FreeNull == fault' = "null_query" /\ current' = None

OnReadFreeing ==
    /\ Readable("RESULT_FREEING")
    /\ busy' = FALSE /\ result' = "freed" /\ wire' = Tail(wire)
    /\ state' = "RESULT_FREED" /\ again' = FALSE
    /\ \/ ~multi /\ FreeNull /\ UNCHANGED pc
       \/ multi /\ pc' = "next" /\ UNCHANGED <<fault, current>>
    /\ UNCHANGED <<api, multi, is_pooled, life, fate, failed, queue, after,
                   ghosts>>

\* A call that had to wait had a result to read, so it does not find the
\* last one.  After a failure the loop goes on with mysql_next_result_cont,
\* which has nothing to continue and fails at once, again and again.
OnReadNext ==
    /\ Readable("NEXT_RESULTING")
    /\ state' = "NEXT_RESULTED" /\ busy' = FALSE /\ again' = TRUE
    /\ \/ "more" \in NextOut /\ pc' = "result" /\ UNCHANGED wire
       \/ "error" \in NextOut /\ pc' = "spin" /\ wire' \in {<<>>, wire}
    /\ UNCHANGED <<api, multi, is_pooled, life, current, result, fate, fault,
                   failed, queue, after, ghosts>>

\* mariadb_on_error releases the result of the current query;
\* mariadb_on_close does not.  Both free the connection, pooled or not.
OnErrorClose(error) ==
    /\ Active("idle") /\ life \in {"open", "pooled"}
    /\ life' = "freed" /\ failed' = TRUE
    /\ fault' = IF error /\ current # None
                THEN IF current \notin InQueue THEN "freed_query"
                     ELSE IF result = "freed" THEN "freed_result" ELSE "none"
                ELSE "none"
    /\ queries' = <<>> /\ fate' = Dropped(InQueue)
    /\ UNCHANGED <<api, multi, is_pooled, state, current, result, wire, busy,
                   aborted, finish, pc, after, again, ghosts>>

Handlers ==
    \/ HandleQueryEmpty \/ HandleQueryAborted \/ HandleQuerySend
    \/ HandleResult \/ HandleRow \/ HandleResultFree \/ HandleNextResult
    \/ CbReturns

OnRead ==
    \/ OnReadConnecting \/ OnReadQuerying \/ OnReadRow \/ OnReadNextRow
    \/ OnReadFreeing \/ OnReadNext

AsyncNext ==
    \/ ConnectAsync \/ GetPooled \/ CallDisconnect
    \/ \E q \in Queries : CallQuery(q)
    \/ Handlers
    \/ OnRead
    \/ \E error \in BOOLEAN : OnErrorClose(error)
=============================================================================
