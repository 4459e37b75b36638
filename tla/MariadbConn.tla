---------------------------- MODULE MariadbConn ----------------------------
(***************************************************************************)
(* A MariaDB connection (packages/mariadb/connection.c) and the client     *)
(* library as the package uses it.  MariadbAsync and MariadbDthread are    *)
(* the two interfaces to it; the interface that connects is the one whose  *)
(* handlers its events have.                                               *)
(*                                                                         *)
(* Each call of the library (packages/mariadb/deps), mysql_*_start or,     *)
(* when the socket is readable, mysql_*_cont, is done at once or has to    *)
(* wait; a *_cont that has nothing to continue is refused at once.  The    *)
(* server answers a query with one result, or several with multi           *)
(* statements; what is not read of an answer stays on the wire, and a      *)
(* query sent meanwhile is refused as out of order.                        *)
(***************************************************************************)
EXTENDS Integers, Sequences, FiniteSets

CONSTANTS
    Queries,    \* the queries of the service, each asked once at most
    MaxRows,    \* the most rows of a result
    None        \* no query

ASSUME ConnAssumption == MaxRows \in Nat /\ None \notin Queries

VARIABLES
    api,        \* "async" or "dthread"
    multi,      \* config.client_flag has CLIENT_MULTI_STATEMENTS
    is_pooled,  \* conn->is_pooled
    state,      \* conn->state, without its prefix CONN_STATE_
    life,       \* of the memory: "new", "open", "pooled" (idle), "freed"
    current,    \* conn->current_query, or the one a dthread has asked
    result,     \* its result: "null", "live", "read" to its end, or "freed"
    wire,       \* the results not yet read, each as its rows left
    busy,       \* the library is within a call that has to wait
    fate,       \* what has become of a query
    fault,      \* the undefined behaviour that was met, or "none"
    failed      \* an error or close event came

conn == <<api, multi, is_pooled, state, life, current, result, wire, busy,
          fate, fault, failed>>

NoRows == -1    \* the result of a statement that returns none

\* mariadb_conn_create; client_flag and the pool are the service's choice.
ConnInit ==
    /\ api \in {"async", "dthread"}
    /\ multi \in BOOLEAN
    /\ is_pooled \in BOOLEAN
    /\ state = "CLOSED"
    /\ life = "new"
    /\ current = None
    /\ result = "null"
    /\ wire = <<>>
    /\ busy = FALSE
    /\ fate = [q \in Queries |-> "none"]
    /\ fault = "none"
    /\ failed = FALSE

\* mysql_real_query: the library refuses a query while an answer is unread.
Sent   == IF wire = <<>> THEN {"wait", "error", "ok"} ELSE {"error"}
Answer == {<<r>> : r \in NoRows .. MaxRows} \cup
          {s \in [1 .. 2 -> NoRows .. MaxRows] : multi}

\* The end of a query that was not answered with "ok".
Refusal == IF wire = <<>> THEN "error" ELSE "refused"

\* mysql_fetch_row: any fetch may fail; the end of the rows and a failure
\* detach the result from the connection.
Fetched == {"wait", "error", IF Head(wire) > 0 THEN "row" ELSE "end"}
WireAfter(f)   == IF f = "row" THEN [wire EXCEPT ![1] = @ - 1] ELSE wire
ResultAfter(f) == IF f \in {"end", "error"} THEN "read" ELSE result

\* mysql_fetch_row_cont: with nothing to continue it is refused ("sync").
FetchedCont == IF busy THEN Fetched ELSE {"sync"}

\* mysql_free_result reads what is left of a result, if it is attached.
FreeOut == {"done"} \cup {o \in {"wait"} : result = "live"}

\* mysql_next_result: the server drops what follows a statement that fails,
\* but when the server is lost the library goes on to expect it.
NextOut == IF wire = <<>> THEN {"last"} ELSE {"wait", "more", "error", "lost"}

\* mariadb_conn_free frees the queries that are still in the list Q.
Dropped(Q) == [q \in Queries |-> IF q \in Q THEN "dropped" ELSE fate[q]]
=============================================================================
