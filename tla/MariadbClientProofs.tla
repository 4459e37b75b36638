------------------------ MODULE MariadbClientProofs ------------------------
(***************************************************************************)
(* A MariaDB connection through either of its interfaces, for any set of   *)
(* queries and results of any size: no query is lost or refused, no two    *)
(* calls of the library overlap, and nothing that was freed is used, but   *)
(* in the cases QueriesKept and MemorySafe name.                           *)
(***************************************************************************)
EXTENDS MariadbClient, DataLemmas

Fates == {"none", "queued", "open", "ended", "error", "refused", "noresult",
          "aborted", "dropped"}

\* Where the handlers of the callback interface have not returned yet.
Handling == {"query", "result", "row", "row_cont", "free", "next", "spin"}

TypeOK ==
    /\ api \in {"async", "dthread"}
    /\ life \in {"new", "open", "pooled", "freed"}
    /\ multi \in BOOLEAN /\ is_pooled \in BOOLEAN
    /\ fate \in [Queries -> Fates]
    /\ queries \in Seq(Queries)
    /\ pc \in {"idle"} \cup InCb \cup Handling
    /\ after \in {"idle"} \cup InCb

\* The other interface is at rest.
Apart ==
    /\ api = "async" => ~unread
    /\ api = "dthread" => ~nested

\* A connection that was not used yet.
Fresh ==
    life = "new" => /\ state = "CLOSED" /\ queries = <<>> /\ wire = <<>> /\ ~busy
                    /\ pc = "idle" /\ ~nested /\ ~finish

\* Unless connect_cb used the connection, the handlers work on an open one,
\* only the callback of the pool can be below them, and a callback is told
\* of a connection that is connected.  The loop over the rows that
\* mariadb_on_read continues does so in its own state.
Below ==
    ~nested => /\ pc \notin {"idle", "cb_pool"} => life = "open"
               /\ after \in {"idle", "cb_pool"}
               /\ pc \in {"cb_connect", "cb_read"} => state = "CONNECTED"
               /\ pc = "row_cont" => state = "ROW_FETCHED"

\* A handler that goes on is not within a call that has to wait.
NotBusy ==
    ~nested /\ fault = "none" =>
        (pc \notin {"idle", "cb_pool"} \/ state = "CONNECTED" => ~busy)

\* What is done in two steps only.
TwoSteps ==
    /\ state \in {"RESULT_FREEING", "NEXT_RESULTING"} => twostep
    /\ ~again => twostep
    /\ ~again /\ fault = "none" => multi

\* Whenever the event loop may report an error, current_query is a query of
\* the list and its result was not released.
CurrentListed ==
    ~twostep /\ life # "freed" /\ fault = "none" =>
        /\ pc \in {"result", "row", "row_cont", "free", "next"} => current \in InQueue
        /\ pc \in {"row", "row_cont"} => result = "live"
        /\ pc = "free" => result \in {"live", "read"}
        /\ pc \in {"idle"} \cup InCb =>
              /\ current # None => current \in InQueue /\ result # "freed"
              /\ state = "QUERYING" => current \in InQueue
              /\ state = "ROW_FETCHING" => current \in InQueue /\ result = "live"

\* An answer is being read.
Reading ==
    \/ pc \in {"result", "row", "row_cont", "free"}
    \/ /\ pc \in {"idle", "cb_pool"}
       /\ state \in {"ROW_FETCHING", "RESULT_FREEING"}

\* Without multi statements an answer is a single result, which is read to
\* its end before the next query is sent.
OneAnswer ==
    ~multi /\ ~nested /\ fault = "none" =>
        /\ IF Reading THEN wire \in Seq(Int) /\ Len(wire) = 1 ELSE wire = <<>>
        /\ pc \notin {"next", "spin"} /\ state # "NEXT_RESULTING"

\* When no handler runs, the connection is connected or waits for the
\* library, and when it is at rest it has no query left.
QueueDone ==
    life \in {"open", "pooled"} /\ fault = "none" /\ pc \in {"idle"} \cup InCb =>
        /\ state = "CONNECTED" \/ (busy /\ state \in Continued)
        /\ pc \in {"idle", "cb_pool"} /\ state = "CONNECTED" =>
              (queries = <<>> /\ ~finish) \/ (multi /\ twostep)

AsyncSafe ==
    /\ fault = "freed_conn" => nested \/ (is_pooled /\ state = "CLOSED")
    /\ fault \in {"null_query", "freed_query", "freed_result"} => twostep
    /\ fault # "dead_dthread"

AsyncInv ==
    api = "async" => /\ Fresh /\ Below /\ NotBusy /\ TwoSteps /\ CurrentListed
                     /\ OneAnswer /\ QueueDone /\ AsyncSafe

\* Nothing goes wrong before an error event, and a result that was read to
\* its end or not at all leaves nothing on the wire.  A connection that lies
\* in the pool waits for nothing.
DthreadInv ==
    api = "dthread" =>
        /\ fault \in {"none", "freed_conn", "dead_dthread"}
        /\ ~failed => fault # "freed_conn" /\ state # "ERROR"
        /\ fault = "dead_dthread" => failed \/ unread
        /\ at = "run" /\ life = "freed" => failed
        /\ at = "free" => failed
        /\ at \in {"run", "elsewhere", "dead"} /\ life # "freed" => ~busy
        /\ at = "dead" /\ life # "freed" /\ ~unread => wire = <<>>
        /\ at = "dead" => life \in {"pooled", "freed"}
        /\ at \in {"row", "free"} => result = "live"
        /\ at \in {"connect", "query"} \/ life = "new" => result # "live"
        /\ ~multi /\ ~unread /\ life # "freed" =>
              IF result = "live" THEN wire \in Seq(Int) /\ Len(wire) = 1
              ELSE wire = <<>>

\* The inductive invariant.
ClientInv == TypeOK /\ Apart /\ AsyncInv /\ DthreadInv /\ QueriesKept

-----------------------------------------------------------------------------
(***************************************************************************)
(* The list of queries.                                                    *)
(***************************************************************************)

(* A query that is taken from the list leaves a list of queries.           *)
LEMMA RemovedType ==
  ASSUME queries \in Seq(Queries), NEW q
  PROVE  Removed(q) \in Seq(Queries)
  <1>1. CASE ~\E i \in 1 .. Len(queries) : queries[i] = q
    BY <1>1 DEF Removed, RemoveFirst
  <1>2. CASE \E i \in 1 .. Len(queries) : queries[i] = q
    <2>. DEFINE I == {i \in 1 .. Len(queries) : queries[i] = q}
                m == Min(I)
    <2>1. I \in SUBSET Nat /\ I # {}
      BY <1>2
    <2>2. \E n \in I : \A k \in I : n <= k
      BY <2>1, LeastNatural, Zenon
    <2>3. m \in I
      BY <2>2 DEF Min
    <2>4. Removed(q) = Without(queries, m)
      BY <1>2 DEF Removed, RemoveFirst, RemoveAt, SelectInSeq, Without
    <2>. QED
      BY <2>3, <2>4, WithoutEntry
  <1>. QED
    BY <1>1, <1>2

(* A query that joins the list lets the others stay.                       *)
LEMMA StillListed ==
  ASSUME queries \in Seq(Queries),
         queries' = queries \/ \E q \in Queries : queries' = Append(queries, q)
  PROVE  InQueue \subseteq InQueue' /\ queries' \in Seq(Queries)
  <1>1. CASE queries' = queries
    BY <1>1 DEF InQueue
  <1>2. ASSUME NEW q \in Queries, queries' = Append(queries, q)
        PROVE  InQueue \subseteq InQueue' /\ queries' \in Seq(Queries)
    BY <1>2 DEF InQueue
  <1>. QED
    BY <1>1, <1>2

(* The queries of a connection that is freed go down with it, and no other. *)
LEMMA DroppedFate ==
  ASSUME fate \in [Queries -> Fates]
  PROVE  /\ Dropped(InQueue) \in [Queries -> Fates]
         /\ \A q \in Queries : Dropped(InQueue)[q] = "refused" => fate[q] = "refused"
         /\ queries = <<>> => Dropped(InQueue) = fate
  BY DEF Dropped, Fates, InQueue

(* The next query is one of the list.                                      *)
LEMMA HeadListed ==
  ASSUME queries \in Seq(Queries), queries # <<>>
  PROVE  Head(queries) \in InQueue /\ Tail(queries) \in Seq(Queries)
  BY DEF InQueue

(* The answer to a query without multi statements is one result.           *)
LEMMA SingleAnswer ==
  ASSUME ~multi, NEW a \in Answer
  PROVE  a \in Seq(Int) /\ Len(a) = 1 /\ Tail(a) = <<>>
  <1>1. a \in {<<r>> : r \in NoRows .. MaxRows}
    BY DEF Answer
  <1>2. PICK r \in NoRows .. MaxRows : a = <<r>>
    BY <1>1
  <1>3. r \in Int
    BY <1>2, ConnAssumption DEF NoRows
  <1>. QED
    BY <1>2, <1>3

(* A row that was read leaves its result on the wire; a result that was    *)
(* read to its end leaves nothing.                                         *)
LEMMA SameResult ==
  ASSUME wire \in Seq(Int), Len(wire) = 1
  PROVE  /\ \A f : WireAfter(f) \in Seq(Int) /\ Len(WireAfter(f)) = 1
         /\ Tail(wire) = <<>>
         /\ wire # <<>>
  <1>1. ASSUME NEW f
        PROVE  WireAfter(f) \in Seq(Int) /\ Len(WireAfter(f)) = 1
    BY DEF WireAfter
  <1>0. <<>> \in Seq(Int) /\ Len(<<>>) = 0
    OBVIOUS
  <1>2. wire # <<>>
    <2>1. Len(wire) # Len(<<>>)
      BY <1>0
    <2>. QED
      BY <2>1, Zenon
  <1>3. Tail(wire) \in Seq(Int) /\ Len(Tail(wire)) = 0
    BY <1>2
  <1>4. Tail(wire) = <<>>
    BY <1>0, <1>3, EmptySeq
  <1>. QED
    BY <1>1, <1>2, <1>4

(* The ends of queries that QueriesKept does not speak of.                 *)
LEMMA KeptOn ==
  ASSUME QueriesKept, multi' = multi, nested => nested', unread => unread',
         failed => failed', fault' = "overlap" => nested',
         \A q \in Queries : fate'[q] \in {"refused", "dropped"} => fate'[q] = fate[q]
  PROVE  QueriesKept'
  BY DEF QueriesKept

(* The queries go down with their connection, if there are any.            *)
LEMMA KeptFreed ==
  ASSUME TypeOK, QueriesKept, multi' = multi, nested => nested',
         unread => unread', failed => failed', fault' # "overlap",
         fate' = Dropped(InQueue),
         queries = <<>> \/ multi \/ nested' \/ failed'
  PROVE  QueriesKept'
  <1>1. CASE queries = <<>>
    <2>1. fate' = fate
      BY <1>1, DroppedFate DEF TypeOK
    <2>. QED
      BY <2>1, KeptOn
  <1>2. CASE multi \/ nested' \/ failed'
    BY <1>2, DroppedFate DEF TypeOK, QueriesKept
  <1>. QED
    BY <1>1, <1>2

(* While one interface works the other one is at rest.                     *)
LEMMA AsyncAlone ==
  ASSUME ClientInv, api = "async", UNCHANGED <<api, dthread>>
  PROVE  Apart' /\ DthreadInv'
  BY DEF ClientInv, Apart, DthreadInv, dthread

-----------------------------------------------------------------------------
(***************************************************************************)
(* The callback interface: one lemma for each of its steps.                *)
(***************************************************************************)

(* The connection is opened.                                               *)
LEMMA ConnectAsyncInv ==
  ASSUME ClientInv, ConnectAsync, UNCHANGED dthread
  PROVE  ClientInv'
  <1>1. api = "async" /\ UNCHANGED api /\ Apart' /\ DthreadInv'
    BY AsyncAlone DEF ConnectAsync, Active, async, queue, ghosts, dthread
  <1>2. TypeOK'
    BY DEF ClientInv, TypeOK, Fates, InCb, Handling, ConnectAsync, Active,
       async, queue, ghosts, dthread
  <1>3. Fresh' /\ Below'
    BY <1>1 DEF ClientInv, AsyncInv, TypeOK, Fresh, Below, InCb, Handling,
       ConnectAsync, Active, async, queue, ghosts, dthread
  <1>4. NotBusy' /\ TwoSteps'
    BY <1>1 DEF ClientInv, AsyncInv, TypeOK, Fresh, Below, NotBusy,
       TwoSteps, InCb, Handling, ConnectAsync, Active, async, queue, ghosts,
       dthread
  <1>5. CurrentListed'
    BY <1>1 DEF ClientInv, AsyncInv, TypeOK, Below, TwoSteps, CurrentListed,
       InQueue, InCb, Handling, ConnectAsync, Active, async, queue, ghosts,
       dthread
  <1>6. OneAnswer'
    BY <1>1 DEF ClientInv, AsyncInv, TypeOK, Fresh, Below, TwoSteps,
       OneAnswer, Reading, InCb, Handling, ConnectAsync, Active, async,
       queue, ghosts, dthread
  <1>7. QueueDone'
    BY <1>1 DEF ClientInv, AsyncInv, TypeOK, Fresh, Below, TwoSteps,
       OneAnswer, QueueDone, Continued, InCb, Handling, ConnectAsync, Active, async,
       queue, ghosts, dthread
  <1>8. AsyncSafe'
    BY <1>1 DEF ClientInv, AsyncInv, TypeOK, Fresh, Below, TwoSteps,
       CurrentListed, AsyncSafe, InCb, Handling, ConnectAsync, Active,
       async, queue, ghosts, dthread
  <1>9. QueriesKept'
    BY <1>1, KeptOn DEF ClientInv, AsyncInv, TypeOK, NotBusy, OneAnswer,
       QueueDone, Reading, Fates, InQueue, ConnectAsync, Active, async,
       queue, ghosts, dthread
  <1>. QED
    BY <1>1, <1>2, <1>3, <1>4, <1>5, <1>6, <1>7, <1>8, <1>9 DEF ClientInv,
       AsyncInv

(* The connection is taken from the pool.                                  *)
LEMMA GetPooledInv ==
  ASSUME ClientInv, GetPooled, UNCHANGED dthread
  PROVE  ClientInv'
  <1>1. api = "async" /\ UNCHANGED api /\ Apart' /\ DthreadInv'
    BY AsyncAlone DEF GetPooled, Active, async, queue, ghosts, dthread
  <1>2. TypeOK'
    BY DEF ClientInv, TypeOK, Fates, InCb, Handling, GetPooled, Active,
       async, queue, ghosts, dthread
  <1>3. Fresh' /\ Below'
    BY <1>1 DEF ClientInv, AsyncInv, TypeOK, Fresh, Below, InCb, Handling,
       GetPooled, Active, async, queue, ghosts, dthread
  <1>4. NotBusy' /\ TwoSteps'
    BY <1>1 DEF ClientInv, AsyncInv, TypeOK, Fresh, Below, NotBusy,
       TwoSteps, InCb, Handling, GetPooled, Active, async, queue, ghosts,
       dthread
  <1>5. CurrentListed'
    BY <1>1 DEF ClientInv, AsyncInv, TypeOK, Below, TwoSteps, CurrentListed,
       InQueue, InCb, Handling, GetPooled, Active, async, queue, ghosts,
       dthread
  <1>6. OneAnswer'
    BY <1>1 DEF ClientInv, AsyncInv, TypeOK, Fresh, Below, TwoSteps,
       OneAnswer, Reading, InCb, Handling, GetPooled, Active, async, queue,
       ghosts, dthread
  <1>7. QueueDone'
    BY <1>1 DEF ClientInv, AsyncInv, TypeOK, Fresh, Below, TwoSteps,
       OneAnswer, QueueDone, Continued, InCb, Handling, GetPooled, Active, async,
       queue, ghosts, dthread
  <1>8. AsyncSafe'
    BY <1>1 DEF ClientInv, AsyncInv, TypeOK, Fresh, Below, TwoSteps,
       CurrentListed, AsyncSafe, InCb, Handling, GetPooled, Active, async,
       queue, ghosts, dthread
  <1>9. QueriesKept'
    BY <1>1, KeptOn DEF ClientInv, AsyncInv, TypeOK, NotBusy, OneAnswer,
       QueueDone, Reading, Fates, InQueue, GetPooled, Active, async, queue,
       ghosts, dthread
  <1>. QED
    BY <1>1, <1>2, <1>3, <1>4, <1>5, <1>6, <1>7, <1>8, <1>9 DEF ClientInv,
       AsyncInv

(* The service disconnects.                                                *)
LEMMA CallDisconnectInv ==
  ASSUME ClientInv, CallDisconnect, UNCHANGED dthread
  PROVE  ClientInv'
  <1>1. api = "async" /\ UNCHANGED api /\ Apart' /\ DthreadInv'
    BY AsyncAlone DEF CallDisconnect, Active, Released, async, queue,
       ghosts, dthread
  <1>a. /\ fate \in [Queries -> Fates] /\ queries \in Seq(Queries)
        /\ Dropped(InQueue) \in [Queries -> Fates]
    BY DroppedFate DEF ClientInv, TypeOK
  <1>0. <<>> \in Seq(Queries)
    OBVIOUS
  <1>b. fate' \in [Queries -> Fates]
    BY <1>a DEF CallDisconnect, Released, queue
  <1>c. queries' \in Seq(Queries)
    BY <1>0, <1>a DEF CallDisconnect, Released, queue
  <1>2. TypeOK'
    BY <1>b, <1>c DEF ClientInv, TypeOK, InCb, Handling, CallDisconnect, Released, queue,
       async, ghosts
  <1>3. Fresh' /\ Below'
    BY <1>1 DEF ClientInv, AsyncInv, TypeOK, Fresh, Below, InCb, Handling,
       CallDisconnect, Active, Released, async, queue, ghosts, dthread
  <1>4. NotBusy' /\ TwoSteps'
    BY <1>1 DEF ClientInv, AsyncInv, TypeOK, Fresh, Below, NotBusy,
       TwoSteps, InCb, Handling, CallDisconnect, Active, Released, async,
       queue, ghosts, dthread
  <1>5. CurrentListed'
    BY <1>1 DEF ClientInv, AsyncInv, TypeOK, Below, TwoSteps, CurrentListed,
       InQueue, InCb, Handling, CallDisconnect, Active, Released, async,
       queue, ghosts, dthread
  <1>6. OneAnswer'
    BY <1>1 DEF ClientInv, AsyncInv, TypeOK, Fresh, Below, TwoSteps,
       OneAnswer, Reading, InCb, Handling, CallDisconnect, Active, Released,
       async, queue, ghosts, dthread
  <1>7. QueueDone'
    BY <1>1 DEF ClientInv, AsyncInv, TypeOK, Fresh, Below, TwoSteps,
       OneAnswer, QueueDone, Continued, InCb, Handling, CallDisconnect, Active,
       Released, async, queue, ghosts, dthread
  <1>8. AsyncSafe'
    BY <1>1 DEF ClientInv, AsyncInv, TypeOK, Fresh, Below, TwoSteps,
       CurrentListed, AsyncSafe, InCb, Handling, CallDisconnect, Active,
       Released, async, queue, ghosts, dthread
  <1>9. QueriesKept'
    <2>1. CASE fate' = fate
      BY <1>1, <2>1, KeptOn DEF ClientInv, CallDisconnect, dthread
    <2>2. CASE fate' # fate
      <3>1. state = "CONNECTED" /\ fate' = Dropped(InQueue)
        BY <2>2 DEF CallDisconnect, Released
      <3>2. queries = <<>> \/ multi \/ nested'
        BY <1>1, <3>1 DEF ClientInv, AsyncInv, TypeOK, QueueDone, CallDisconnect,
           InCb
      <3>. QED
        BY <3>1, <3>2, KeptFreed DEF ClientInv, CallDisconnect, dthread
    <2>. QED
      BY <2>1, <2>2
  <1>. QED
    BY <1>1, <1>2, <1>3, <1>4, <1>5, <1>6, <1>7, <1>8, <1>9 DEF ClientInv,
       AsyncInv

(* The service asks a query.                                               *)
LEMMA CallQueryInv ==
  ASSUME ClientInv, NEW q \in Queries, CallQuery(q), UNCHANGED dthread
  PROVE  ClientInv'
  <1>0. InQueue \subseteq InQueue'
    BY StillListed DEF ClientInv, TypeOK, CallQuery, Active, Enqueue, async,
       queue, ghosts, dthread
  <1>1. api = "async" /\ UNCHANGED api /\ Apart' /\ DthreadInv'
    BY AsyncAlone DEF CallQuery, Active, Enqueue, async, queue, ghosts,
       dthread
  <1>2. TypeOK'
    BY DEF ClientInv, TypeOK, Fates, InCb, Handling, CallQuery, Active,
       Enqueue, async, queue, ghosts, dthread
  <1>3. Fresh' /\ Below'
    BY <1>1 DEF ClientInv, AsyncInv, TypeOK, Fresh, Below, InCb, Handling,
       CallQuery, Active, Enqueue, async, queue, ghosts, dthread
  <1>4. NotBusy' /\ TwoSteps'
    BY <1>1 DEF ClientInv, AsyncInv, TypeOK, Fresh, Below, NotBusy,
       TwoSteps, InCb, Handling, CallQuery, Active, Enqueue, async, queue,
       ghosts, dthread
  <1>5. CurrentListed'
    BY <1>1, <1>0 DEF ClientInv, AsyncInv, TypeOK, Below, TwoSteps,
       CurrentListed, InCb, Handling, CallQuery, Active, Enqueue, async,
       queue, ghosts, dthread
  <1>6. OneAnswer'
    BY <1>1 DEF ClientInv, AsyncInv, TypeOK, Fresh, Below, TwoSteps,
       OneAnswer, Reading, InCb, Handling, CallQuery, Active, Enqueue,
       async, queue, ghosts, dthread
  <1>7. QueueDone'
    BY <1>1 DEF ClientInv, AsyncInv, TypeOK, Fresh, Below, TwoSteps,
       OneAnswer, QueueDone, Continued, InCb, Handling, CallQuery, Active, Enqueue,
       async, queue, ghosts, dthread
  <1>8. AsyncSafe'
    BY <1>1 DEF ClientInv, AsyncInv, TypeOK, Fresh, Below, TwoSteps,
       CurrentListed, AsyncSafe, InCb, Handling, CallQuery, Active, Enqueue,
       async, queue, ghosts, dthread
  <1>9. QueriesKept'
    BY <1>1, KeptOn DEF ClientInv, AsyncInv, TypeOK, NotBusy, OneAnswer,
       QueueDone, Reading, Fates, InQueue, CallQuery, Active, Enqueue,
       async, queue, ghosts, dthread
  <1>. QED
    BY <1>1, <1>2, <1>3, <1>4, <1>5, <1>6, <1>7, <1>8, <1>9 DEF ClientInv,
       AsyncInv

(* connect_cb returns.                                                     *)
LEMMA CbReturnsInv ==
  ASSUME ClientInv, CbReturns, UNCHANGED dthread
  PROVE  ClientInv'
  <1>1. api = "async" /\ UNCHANGED api /\ Apart' /\ DthreadInv'
    BY AsyncAlone DEF CbReturns, Active, async, queue, ghosts, dthread
  <1>2. TypeOK'
    BY DEF ClientInv, TypeOK, Fates, InCb, Handling, CbReturns, Active,
       async, queue, ghosts, dthread
  <1>3. Fresh' /\ Below'
    BY <1>1 DEF ClientInv, AsyncInv, TypeOK, Fresh, Below, InCb, Handling,
       CbReturns, Active, async, queue, ghosts, dthread
  <1>4. NotBusy' /\ TwoSteps'
    BY <1>1 DEF ClientInv, AsyncInv, TypeOK, Fresh, Below, NotBusy,
       TwoSteps, InCb, Handling, CbReturns, Active, async, queue, ghosts,
       dthread
  <1>5. CurrentListed'
    BY <1>1 DEF ClientInv, AsyncInv, TypeOK, Below, TwoSteps, CurrentListed,
       InQueue, InCb, Handling, CbReturns, Active, async, queue, ghosts,
       dthread
  <1>6. OneAnswer'
    BY <1>1 DEF ClientInv, AsyncInv, TypeOK, Fresh, Below, TwoSteps,
       OneAnswer, Reading, InCb, Handling, CbReturns, Active, async, queue,
       ghosts, dthread
  <1>7. QueueDone'
    BY <1>1 DEF ClientInv, AsyncInv, TypeOK, Fresh, Below, TwoSteps,
       OneAnswer, QueueDone, Continued, InCb, Handling, CbReturns, Active, async,
       queue, ghosts, dthread
  <1>8. AsyncSafe'
    BY <1>1 DEF ClientInv, AsyncInv, TypeOK, Fresh, Below, TwoSteps,
       CurrentListed, AsyncSafe, InCb, Handling, CbReturns, Active, async,
       queue, ghosts, dthread
  <1>9. QueriesKept'
    BY <1>1, KeptOn DEF ClientInv, AsyncInv, TypeOK, NotBusy, OneAnswer,
       QueueDone, Reading, Fates, InQueue, CbReturns, Active, async, queue,
       ghosts, dthread
  <1>. QED
    BY <1>1, <1>2, <1>3, <1>4, <1>5, <1>6, <1>7, <1>8, <1>9 DEF ClientInv,
       AsyncInv

(* The list of queries is empty.                                           *)
LEMMA HandleQueryEmptyInv ==
  ASSUME ClientInv, HandleQueryEmpty, UNCHANGED dthread
  PROVE  ClientInv'
  <1>1. api = "async" /\ UNCHANGED api /\ Apart' /\ DthreadInv'
    BY AsyncAlone DEF HandleQueryEmpty, Active, Released, async, queue,
       ghosts, dthread
  <1>2. TypeOK'
    BY DroppedFate DEF ClientInv, TypeOK, Fates, InCb, Handling,
       HandleQueryEmpty, Active, Released, async, queue, ghosts, dthread
  <1>3. Fresh' /\ Below'
    BY <1>1 DEF ClientInv, AsyncInv, TypeOK, Fresh, Below, InCb, Handling,
       HandleQueryEmpty, Active, Released, async, queue, ghosts, dthread
  <1>4. NotBusy' /\ TwoSteps'
    BY <1>1 DEF ClientInv, AsyncInv, TypeOK, Fresh, Below, NotBusy,
       TwoSteps, InCb, Handling, HandleQueryEmpty, Active, Released, async,
       queue, ghosts, dthread
  <1>5. CurrentListed'
    BY <1>1 DEF ClientInv, AsyncInv, TypeOK, Below, TwoSteps, CurrentListed,
       InQueue, InCb, Handling, HandleQueryEmpty, Active, Released, async,
       queue, ghosts, dthread
  <1>6. OneAnswer'
    BY <1>1 DEF ClientInv, AsyncInv, TypeOK, Fresh, Below, TwoSteps,
       OneAnswer, Reading, InCb, Handling, HandleQueryEmpty, Active,
       Released, async, queue, ghosts, dthread
  <1>7. QueueDone'
    BY <1>1 DEF ClientInv, AsyncInv, TypeOK, Fresh, Below, TwoSteps,
       OneAnswer, QueueDone, Continued, InCb, Handling, HandleQueryEmpty, Active,
       Released, async, queue, ghosts, dthread
  <1>8. AsyncSafe'
    BY <1>1 DEF ClientInv, AsyncInv, TypeOK, Fresh, Below, TwoSteps,
       CurrentListed, AsyncSafe, InCb, Handling, HandleQueryEmpty, Active,
       Released, async, queue, ghosts, dthread
  <1>9. QueriesKept'
    BY <1>1, KeptOn, DroppedFate DEF ClientInv, AsyncInv, TypeOK, NotBusy,
       OneAnswer, QueueDone, Reading, Fates, HandleQueryEmpty, Active,
       Released, async, queue, ghosts, dthread
  <1>. QED
    BY <1>1, <1>2, <1>3, <1>4, <1>5, <1>6, <1>7, <1>8, <1>9 DEF ClientInv,
       AsyncInv

(* The next query was aborted.                                             *)
LEMMA HandleQueryAbortedInv ==
  ASSUME ClientInv, HandleQueryAborted, UNCHANGED dthread
  PROVE  ClientInv'
  <1>1. api = "async" /\ UNCHANGED api /\ Apart' /\ DthreadInv'
    BY AsyncAlone DEF HandleQueryAborted, Active, Ended, async, queue,
       ghosts, dthread
  <1>2. TypeOK'
    BY HeadListed DEF ClientInv, TypeOK, Fates, InCb, Handling,
       HandleQueryAborted, Active, Ended, async, queue, ghosts, dthread
  <1>3. Fresh' /\ Below'
    BY <1>1 DEF ClientInv, AsyncInv, TypeOK, Fresh, Below, InCb, Handling,
       HandleQueryAborted, Active, Ended, async, queue, ghosts, dthread
  <1>4. NotBusy' /\ TwoSteps'
    BY <1>1 DEF ClientInv, AsyncInv, TypeOK, Fresh, Below, NotBusy,
       TwoSteps, InCb, Handling, HandleQueryAborted, Active, Ended, async,
       queue, ghosts, dthread
  <1>5. CurrentListed'
    BY <1>1 DEF ClientInv, AsyncInv, TypeOK, Below, TwoSteps, CurrentListed,
       InQueue, InCb, Handling, HandleQueryAborted, Active, Ended, async,
       queue, ghosts, dthread
  <1>6. OneAnswer'
    BY <1>1 DEF ClientInv, AsyncInv, TypeOK, Fresh, Below, TwoSteps,
       OneAnswer, Reading, InCb, Handling, HandleQueryAborted, Active,
       Ended, async, queue, ghosts, dthread
  <1>7. QueueDone'
    BY <1>1 DEF ClientInv, AsyncInv, TypeOK, Fresh, Below, TwoSteps,
       OneAnswer, QueueDone, Continued, InCb, Handling, HandleQueryAborted, Active,
       Ended, async, queue, ghosts, dthread
  <1>8. AsyncSafe'
    BY <1>1 DEF ClientInv, AsyncInv, TypeOK, Fresh, Below, TwoSteps,
       CurrentListed, AsyncSafe, InCb, Handling, HandleQueryAborted, Active,
       Ended, async, queue, ghosts, dthread
  <1>9. QueriesKept'
    BY <1>1, KeptOn DEF ClientInv, AsyncInv, TypeOK, NotBusy, OneAnswer,
       QueueDone, Reading, Fates, InQueue, HandleQueryAborted, Active,
       Ended, async, queue, ghosts, dthread
  <1>. QED
    BY <1>1, <1>2, <1>3, <1>4, <1>5, <1>6, <1>7, <1>8, <1>9 DEF ClientInv,
       AsyncInv

(* The next query is sent.                                                 *)
LEMMA HandleQuerySendInv ==
  ASSUME ClientInv, HandleQuerySend, UNCHANGED dthread
  PROVE  ClientInv'
  <1>0. pc' # "query" => current' \in InQueue'
    BY HeadListed DEF ClientInv, TypeOK, InQueue, HandleQuerySend, Active,
       Ended, Sent, Refusal, async, queue, ghosts, dthread
  <1>1. api = "async" /\ UNCHANGED api /\ Apart' /\ DthreadInv'
    BY AsyncAlone DEF HandleQuerySend, Active, Ended, Sent, Refusal, async,
       queue, ghosts, dthread
  <1>2. TypeOK'
    BY HeadListed DEF ClientInv, TypeOK, Fates, InCb, Handling,
       HandleQuerySend, Active, Ended, Sent, Refusal, async, queue, ghosts,
       dthread
  <1>3. Fresh' /\ Below'
    BY <1>1 DEF ClientInv, AsyncInv, TypeOK, Fresh, Below, InCb, Handling,
       HandleQuerySend, Active, Ended, Sent, Refusal, async, queue, ghosts,
       dthread
  <1>4. NotBusy' /\ TwoSteps'
    BY <1>1 DEF ClientInv, AsyncInv, TypeOK, Fresh, Below, NotBusy,
       TwoSteps, InCb, Handling, HandleQuerySend, Active, Ended, Sent,
       Refusal, async, queue, ghosts, dthread
  <1>5. CurrentListed'
    BY <1>1, <1>0 DEF ClientInv, AsyncInv, TypeOK, Below, TwoSteps,
       CurrentListed, InCb, Handling, HandleQuerySend, Active, Ended, Sent,
       Refusal, async, queue, ghosts, dthread
  <1>6. OneAnswer'
    BY <1>1, SingleAnswer DEF ClientInv, AsyncInv, TypeOK, Fresh, Below,
       TwoSteps, OneAnswer, Reading, InCb, Handling, HandleQuerySend,
       Active, Ended, Sent, Refusal, async, queue, ghosts, dthread
  <1>7. QueueDone'
    BY <1>1 DEF ClientInv, AsyncInv, TypeOK, Fresh, Below, TwoSteps,
       OneAnswer, QueueDone, Continued, InCb, Handling, HandleQuerySend, Active, Ended,
       Sent, Refusal, async, queue, ghosts, dthread
  <1>8. AsyncSafe'
    BY <1>1 DEF ClientInv, AsyncInv, TypeOK, Fresh, Below, TwoSteps,
       CurrentListed, AsyncSafe, InCb, Handling, HandleQuerySend, Active,
       Ended, Sent, Refusal, async, queue, ghosts, dthread
  <1>9. QueriesKept'
    <2>1. ~busy \/ nested
      BY <1>1 DEF ClientInv, AsyncInv, NotBusy, HandleQuerySend, Active
    <2>2. Refusal # "refused" \/ multi \/ nested
      BY <1>1 DEF ClientInv, AsyncInv, OneAnswer, Reading, HandleQuerySend,
         Active, Refusal
    <2>3. \A q \in Queries : fate'[q] # fate[q] => fate'[q] = Refusal
      BY DEF ClientInv, TypeOK, HandleQuerySend, Ended
    <2>4. Refusal # "dropped"
      BY DEF Refusal
    <2>5. fault' = "overlap" => nested
      BY <2>1 DEF HandleQuerySend, Active
    <2>. QED
      BY <2>2, <2>3, <2>4, <2>5 DEF ClientInv, QueriesKept, HandleQuerySend,
         dthread, ghosts
  <1>. QED
    BY <1>1, <1>2, <1>3, <1>4, <1>5, <1>6, <1>7, <1>8, <1>9 DEF ClientInv,
       AsyncInv

(* The result of a query is there.                                         *)
LEMMA HandleResultInv ==
  ASSUME ClientInv, HandleResult, UNCHANGED dthread
  PROVE  ClientInv'
  <1>0. Head(wire) # NoRows => InQueue \subseteq InQueue'
    BY StillListed DEF ClientInv, TypeOK, HandleResult, Active, Ended,
       Callback, Back, async, queue, ghosts, dthread
  <1>1. api = "async" /\ UNCHANGED api /\ Apart' /\ DthreadInv'
    BY AsyncAlone DEF HandleResult, Active, Ended, Callback, Back, async,
       queue, ghosts, dthread
  <1>2. TypeOK'
    <2>1. fate' \in [Queries -> Fates]
      BY DEF ClientInv, TypeOK, Fates, HandleResult, Ended, Callback, queue
    <2>2. queries' \in Seq(Queries)
      BY RemovedType DEF ClientInv, TypeOK, HandleResult, Callback, queue
    <2>3. pc' \in {"idle"} \cup InCb \cup Handling /\ after' = after
      BY DEF ClientInv, TypeOK, InCb, Handling, HandleResult, Back
    <2>. QED
      BY <2>1, <2>2, <2>3 DEF ClientInv, TypeOK, HandleResult
  <1>3. Fresh' /\ Below'
    BY <1>1 DEF ClientInv, AsyncInv, TypeOK, Fresh, Below, InCb, Handling,
       HandleResult, Active, Ended, Callback, Back, async, queue, ghosts,
       dthread
  <1>4. NotBusy' /\ TwoSteps'
    BY <1>1 DEF ClientInv, AsyncInv, TypeOK, Fresh, Below, NotBusy,
       TwoSteps, InCb, Handling, HandleResult, Active, Ended, Callback,
       Back, async, queue, ghosts, dthread
  <1>5. CurrentListed'
    BY <1>1, <1>0 DEF ClientInv, AsyncInv, TypeOK, Below, TwoSteps,
       CurrentListed, InCb, Handling, HandleResult, Active, Ended, Callback,
       Back, async, queue, ghosts, dthread
  <1>6. OneAnswer'
    BY <1>1, SameResult DEF ClientInv, AsyncInv, TypeOK, Fresh, Below,
       TwoSteps, OneAnswer, Reading, InCb, Handling, HandleResult, Active,
       Ended, Callback, Back, async, queue, ghosts, dthread
  <1>7. QueueDone'
    BY <1>1 DEF ClientInv, AsyncInv, TypeOK, Fresh, Below, TwoSteps,
       OneAnswer, QueueDone, Continued, InCb, Handling, HandleResult, Active, Ended,
       Callback, Back, async, queue, ghosts, dthread
  <1>8. AsyncSafe'
    BY <1>1 DEF ClientInv, AsyncInv, TypeOK, Fresh, Below, TwoSteps,
       CurrentListed, AsyncSafe, InCb, Handling, HandleResult, Active,
       Ended, Callback, Back, async, queue, ghosts, dthread
  <1>9. QueriesKept'
    BY <1>1, KeptOn DEF ClientInv, AsyncInv, TypeOK, NotBusy, OneAnswer,
       QueueDone, Reading, Fates, InQueue, HandleResult, Active, Ended,
       Callback, Back, async, queue, ghosts, dthread
  <1>. QED
    BY <1>1, <1>2, <1>3, <1>4, <1>5, <1>6, <1>7, <1>8, <1>9 DEF ClientInv,
       AsyncInv

(* A row is asked for.                                                     *)
LEMMA HandleRowInv ==
  ASSUME ClientInv, HandleRow, UNCHANGED dthread
  PROVE  ClientInv'
  <1>0. InQueue \subseteq InQueue'
    BY StillListed DEF ClientInv, TypeOK, HandleRow, Active, GotRow,
       Callback, Ended, Fetched, ResultAfter, async, queue, ghosts, dthread
  <1>1. api = "async" /\ UNCHANGED api /\ Apart' /\ DthreadInv'
    BY AsyncAlone DEF HandleRow, Active, GotRow, Callback, Ended, Fetched, ResultAfter, async,
       queue, ghosts, dthread
  <1>2. TypeOK'
    BY DEF ClientInv, TypeOK, Fates, InCb, Handling, HandleRow, Active,
       GotRow, Callback, Ended, Fetched, ResultAfter, async, queue, ghosts, dthread
  <1>3. Fresh' /\ Below'
    BY <1>1 DEF ClientInv, AsyncInv, TypeOK, Fresh, Below, InCb, Handling,
       HandleRow, Active, GotRow, Callback, Ended, Fetched, ResultAfter, async, queue, ghosts,
       dthread
  <1>4. NotBusy' /\ TwoSteps'
    BY <1>1 DEF ClientInv, AsyncInv, TypeOK, Fresh, Below, NotBusy,
       TwoSteps, InCb, Handling, HandleRow, Active, GotRow, Callback, Ended, Fetched, ResultAfter,
       async, queue, ghosts, dthread
  <1>5. CurrentListed'
    BY <1>1, <1>0 DEF ClientInv, AsyncInv, TypeOK, Below, TwoSteps,
       CurrentListed, InCb, Handling, HandleRow, Active, GotRow, Callback, Ended, Fetched,
       ResultAfter, async, queue, ghosts, dthread
  <1>6. OneAnswer'
    BY <1>1, SameResult DEF ClientInv, AsyncInv, TypeOK, Fresh, Below,
       TwoSteps, OneAnswer, Reading, InCb, Handling, HandleRow, Active,
       GotRow, Callback, Ended, Fetched, ResultAfter, async, queue, ghosts, dthread
  <1>7. QueueDone'
    BY <1>1 DEF ClientInv, AsyncInv, TypeOK, Fresh, Below, TwoSteps,
       OneAnswer, QueueDone, Continued, InCb, Handling, HandleRow, Active, GotRow,
       Callback, Ended, Fetched, ResultAfter, async, queue, ghosts, dthread
  <1>8. AsyncSafe'
    BY <1>1 DEF ClientInv, AsyncInv, TypeOK, Fresh, Below, TwoSteps,
       CurrentListed, AsyncSafe, InCb, Handling, HandleRow, Active, GotRow,
       Callback, Ended, Fetched, ResultAfter, async, queue, ghosts, dthread
  <1>9. QueriesKept'
    BY <1>1, KeptOn DEF ClientInv, AsyncInv, TypeOK, NotBusy, OneAnswer,
       QueueDone, Reading, Fates, InQueue, HandleRow, Active, GotRow,
       Callback, Ended, Fetched, ResultAfter, async, queue, ghosts, dthread
  <1>. QED
    BY <1>1, <1>2, <1>3, <1>4, <1>5, <1>6, <1>7, <1>8, <1>9 DEF ClientInv,
       AsyncInv

(* A result is released.                                                   *)
LEMMA HandleResultFreeInv ==
  ASSUME ClientInv, HandleResultFree, UNCHANGED dthread
  PROVE  ClientInv'
  <1>1. api = "async" /\ UNCHANGED api /\ Apart' /\ DthreadInv'
    BY AsyncAlone DEF HandleResultFree, Active, Finish, Ended, Back, async,
       queue, ghosts, dthread
  <1>2. TypeOK'
    BY RemovedType DEF ClientInv, TypeOK, Fates, InCb, Handling,
       HandleResultFree, Active, Finish, Ended, Back, async, queue, ghosts,
       dthread
  <1>3. Fresh' /\ Below'
    BY <1>1 DEF ClientInv, AsyncInv, TypeOK, Fresh, Below, InCb, Handling,
       HandleResultFree, Active, Finish, Ended, Back, async, queue, ghosts,
       dthread
  <1>4. NotBusy' /\ TwoSteps'
    BY <1>1 DEF ClientInv, AsyncInv, TypeOK, Fresh, Below, NotBusy,
       TwoSteps, InCb, Handling, HandleResultFree, Active, Finish, Ended,
       Back, async, queue, ghosts, dthread
  <1>5. CurrentListed'
    BY <1>1 DEF ClientInv, AsyncInv, TypeOK, Below, TwoSteps, CurrentListed,
       InQueue, InCb, Handling, HandleResultFree, Active, Finish, Ended,
       Back, async, queue, ghosts, dthread
  <1>6. OneAnswer'
    BY <1>1, SameResult DEF ClientInv, AsyncInv, TypeOK, Fresh, Below,
       TwoSteps, OneAnswer, Reading, InCb, Handling, HandleResultFree,
       Active, Finish, Ended, Back, async, queue, ghosts, dthread
  <1>7. QueueDone'
    BY <1>1 DEF ClientInv, AsyncInv, TypeOK, Fresh, Below, TwoSteps,
       OneAnswer, QueueDone, Continued, InCb, Handling, HandleResultFree, Active,
       Finish, Ended, Back, async, queue, ghosts, dthread
  <1>8. AsyncSafe'
    BY <1>1 DEF ClientInv, AsyncInv, TypeOK, Fresh, Below, TwoSteps,
       CurrentListed, AsyncSafe, InCb, Handling, HandleResultFree, Active,
       Finish, Ended, Back, async, queue, ghosts, dthread
  <1>9. QueriesKept'
    BY <1>1, KeptOn DEF ClientInv, AsyncInv, TypeOK, NotBusy, OneAnswer,
       QueueDone, Reading, Fates, InQueue, HandleResultFree, Active, Finish,
       Ended, Back, async, queue, ghosts, dthread
  <1>. QED
    BY <1>1, <1>2, <1>3, <1>4, <1>5, <1>6, <1>7, <1>8, <1>9 DEF ClientInv,
       AsyncInv

(* The next result is asked for.                                           *)
LEMMA HandleNextResultInv ==
  ASSUME ClientInv, HandleNextResult, UNCHANGED dthread
  PROVE  ClientInv'
  <1>1. api = "async" /\ UNCHANGED api /\ Apart' /\ DthreadInv'
    BY AsyncAlone DEF HandleNextResult, Active, Finish, Ended, Back,
       NextOut, async, queue, ghosts, dthread
  <1>2. TypeOK'
    BY RemovedType DEF ClientInv, TypeOK, Fates, InCb, Handling,
       HandleNextResult, Active, Finish, Ended, Back, NextOut, async, queue,
       ghosts, dthread
  <1>3. Fresh' /\ Below'
    BY <1>1 DEF ClientInv, AsyncInv, TypeOK, Fresh, Below, InCb, Handling,
       HandleNextResult, Active, Finish, Ended, Back, NextOut, async, queue,
       ghosts, dthread
  <1>4. NotBusy' /\ TwoSteps'
    BY <1>1 DEF ClientInv, AsyncInv, TypeOK, Fresh, Below, NotBusy,
       TwoSteps, InCb, Handling, HandleNextResult, Active, Finish, Ended,
       Back, NextOut, async, queue, ghosts, dthread
  <1>5. CurrentListed'
    BY <1>1 DEF ClientInv, AsyncInv, TypeOK, Below, TwoSteps, CurrentListed,
       InQueue, InCb, Handling, HandleNextResult, Active, Finish, Ended,
       Back, NextOut, async, queue, ghosts, dthread
  <1>6. OneAnswer'
    BY <1>1 DEF ClientInv, AsyncInv, TypeOK, Fresh, Below, TwoSteps,
       OneAnswer, Reading, InCb, Handling, HandleNextResult, Active, Finish,
       Ended, Back, NextOut, async, queue, ghosts, dthread
  <1>7. QueueDone'
    BY <1>1 DEF ClientInv, AsyncInv, TypeOK, Fresh, Below, TwoSteps,
       OneAnswer, QueueDone, Continued, InCb, Handling, HandleNextResult, Active,
       Finish, Ended, Back, NextOut, async, queue, ghosts, dthread
  <1>8. AsyncSafe'
    BY <1>1 DEF ClientInv, AsyncInv, TypeOK, Fresh, Below, TwoSteps,
       CurrentListed, AsyncSafe, InCb, Handling, HandleNextResult, Active,
       Finish, Ended, Back, NextOut, async, queue, ghosts, dthread
  <1>9. QueriesKept'
    BY <1>1, KeptOn DEF ClientInv, AsyncInv, TypeOK, NotBusy, OneAnswer,
       QueueDone, Reading, Fates, InQueue, HandleNextResult, Active, Finish,
       Ended, Back, NextOut, async, queue, ghosts, dthread
  <1>. QED
    BY <1>1, <1>2, <1>3, <1>4, <1>5, <1>6, <1>7, <1>8, <1>9 DEF ClientInv,
       AsyncInv

(* The attempt to connect is over.                                         *)
LEMMA OnReadConnectingInv ==
  ASSUME ClientInv, OnReadConnecting, UNCHANGED dthread
  PROVE  ClientInv'
  <1>1. api = "async" /\ UNCHANGED api /\ Apart' /\ DthreadInv'
    BY AsyncAlone DEF OnReadConnecting, Active, Readable, async, queue,
       ghosts, dthread
  <1>a. /\ fate \in [Queries -> Fates] /\ queries \in Seq(Queries)
        /\ Dropped(InQueue) \in [Queries -> Fates]
    BY DroppedFate DEF ClientInv, TypeOK
  <1>0. <<>> \in Seq(Queries)
    OBVIOUS
  <1>b. fate' \in [Queries -> Fates]
    BY <1>a DEF OnReadConnecting, Readable, Active, queue
  <1>c. queries' \in Seq(Queries)
    BY <1>0, <1>a DEF OnReadConnecting, Readable, Active, queue
  <1>2. TypeOK'
    BY <1>b, <1>c DEF ClientInv, TypeOK, InCb, Handling, OnReadConnecting, Readable, Active, queue,
       async, ghosts
  <1>3. Fresh' /\ Below'
    BY <1>1 DEF ClientInv, AsyncInv, TypeOK, Fresh, Below, InCb, Handling,
       OnReadConnecting, Active, Readable, async, queue, ghosts, dthread
  <1>4. NotBusy' /\ TwoSteps'
    BY <1>1 DEF ClientInv, AsyncInv, TypeOK, Fresh, Below, NotBusy,
       TwoSteps, InCb, Handling, OnReadConnecting, Active, Readable, async,
       queue, ghosts, dthread
  <1>5. CurrentListed'
    BY <1>1 DEF ClientInv, AsyncInv, TypeOK, Below, TwoSteps, CurrentListed,
       InQueue, InCb, Handling, OnReadConnecting, Active, Readable, async,
       queue, ghosts, dthread
  <1>6. OneAnswer'
    BY <1>1 DEF ClientInv, AsyncInv, TypeOK, Fresh, Below, TwoSteps,
       OneAnswer, Reading, InCb, Handling, OnReadConnecting, Active,
       Readable, async, queue, ghosts, dthread
  <1>7. QueueDone'
    BY <1>1 DEF ClientInv, AsyncInv, TypeOK, Fresh, Below, TwoSteps,
       OneAnswer, QueueDone, Continued, InCb, Handling, OnReadConnecting, Active,
       Readable, async, queue, ghosts, dthread
  <1>8. AsyncSafe'
    BY <1>1 DEF ClientInv, AsyncInv, TypeOK, Fresh, Below, TwoSteps,
       CurrentListed, AsyncSafe, InCb, Handling, OnReadConnecting, Active,
       Readable, async, queue, ghosts, dthread
  <1>9. QueriesKept'
    <2>1. CASE fate' = fate
      BY <1>1, <2>1, KeptOn DEF ClientInv, OnReadConnecting, Readable, Active,
         dthread, ghosts
    <2>2. CASE fate' # fate
      <3>1. fate' = Dropped(InQueue) /\ failed'
        BY <2>2 DEF OnReadConnecting
      <3>. QED
        BY <3>1, KeptFreed DEF ClientInv, OnReadConnecting, Readable, Active,
           dthread, ghosts
    <2>. QED
      BY <2>1, <2>2
  <1>. QED
    BY <1>1, <1>2, <1>3, <1>4, <1>5, <1>6, <1>7, <1>8, <1>9 DEF ClientInv,
       AsyncInv

(* The query has been sent.                                                *)
LEMMA OnReadQueryingInv ==
  ASSUME ClientInv, OnReadQuerying, UNCHANGED dthread
  PROVE  ClientInv'
  <1>0. pc' = "result" => InQueue \subseteq InQueue'
    BY StillListed DEF ClientInv, TypeOK, OnReadQuerying, Active, Readable,
       Ended, async, queue, ghosts, dthread
  <1>1. api = "async" /\ UNCHANGED api /\ Apart' /\ DthreadInv'
    BY AsyncAlone DEF OnReadQuerying, Active, Readable, Ended, async, queue,
       ghosts, dthread
  <1>2. TypeOK'
    BY RemovedType DEF ClientInv, TypeOK, Fates, InCb, Handling,
       OnReadQuerying, Active, Readable, Ended, async, queue, ghosts,
       dthread
  <1>3. Fresh' /\ Below'
    BY <1>1 DEF ClientInv, AsyncInv, TypeOK, Fresh, Below, InCb, Handling,
       OnReadQuerying, Active, Readable, Ended, async, queue, ghosts,
       dthread
  <1>4. NotBusy' /\ TwoSteps'
    BY <1>1 DEF ClientInv, AsyncInv, TypeOK, Fresh, Below, NotBusy,
       TwoSteps, InCb, Handling, OnReadQuerying, Active, Readable, Ended,
       async, queue, ghosts, dthread
  <1>5. CurrentListed'
    BY <1>1, <1>0 DEF ClientInv, AsyncInv, TypeOK, Below, TwoSteps,
       CurrentListed, InCb, Handling, OnReadQuerying, Active, Readable,
       Ended, async, queue, ghosts, dthread
  <1>6. OneAnswer'
    BY <1>1, SingleAnswer DEF ClientInv, AsyncInv, TypeOK, Fresh, Below,
       TwoSteps, OneAnswer, Reading, InCb, Handling, OnReadQuerying, Active,
       Readable, Ended, async, queue, ghosts, dthread
  <1>7. QueueDone'
    BY <1>1 DEF ClientInv, AsyncInv, TypeOK, Fresh, Below, TwoSteps,
       OneAnswer, QueueDone, Continued, InCb, Handling, OnReadQuerying, Active,
       Readable, Ended, async, queue, ghosts, dthread
  <1>8. AsyncSafe'
    BY <1>1 DEF ClientInv, AsyncInv, TypeOK, Fresh, Below, TwoSteps,
       CurrentListed, AsyncSafe, InCb, Handling, OnReadQuerying, Active,
       Readable, Ended, async, queue, ghosts, dthread
  <1>9. QueriesKept'
    BY <1>1, KeptOn DEF ClientInv, AsyncInv, TypeOK, NotBusy, OneAnswer,
       QueueDone, Reading, Fates, InQueue, OnReadQuerying, Active, Readable,
       Ended, async, queue, ghosts, dthread
  <1>. QED
    BY <1>1, <1>2, <1>3, <1>4, <1>5, <1>6, <1>7, <1>8, <1>9 DEF ClientInv,
       AsyncInv

(* A row that was waited for is there.                                     *)
LEMMA OnReadRowInv ==
  ASSUME ClientInv, OnReadRow, UNCHANGED dthread
  PROVE  ClientInv'
  <1>0. InQueue \subseteq InQueue'
    BY StillListed DEF ClientInv, TypeOK, OnReadRow, Active, Readable,
       GotRow, Callback, Ended, FetchedCont, ResultAfter, async, queue, ghosts, dthread
  <1>1. api = "async" /\ UNCHANGED api /\ Apart' /\ DthreadInv'
    BY AsyncAlone DEF OnReadRow, Active, Readable, GotRow, Callback, Ended, FetchedCont, ResultAfter,
       async, queue, ghosts, dthread
  <1>2. TypeOK'
    BY SMTT(20) DEF ClientInv, TypeOK, Fates, InCb, Handling, OnReadRow, Active,
       Readable, GotRow, Callback, Ended, FetchedCont, ResultAfter, async, queue, ghosts, dthread
  <1>3. Fresh' /\ Below'
    BY <1>1 DEF ClientInv, AsyncInv, TypeOK, Fresh, Below, InCb, Handling,
       OnReadRow, Active, Readable, GotRow, Callback, Ended, FetchedCont, ResultAfter, async, queue,
       ghosts, dthread
  <1>4. NotBusy' /\ TwoSteps'
    BY <1>1 DEF ClientInv, AsyncInv, TypeOK, Fresh, Below, NotBusy,
       TwoSteps, InCb, Handling, OnReadRow, Active, Readable, GotRow,
       Callback, Ended, FetchedCont, ResultAfter, async, queue, ghosts, dthread
  <1>5. CurrentListed'
    BY <1>1, <1>0 DEF ClientInv, AsyncInv, TypeOK, Below, TwoSteps,
       CurrentListed, InCb, Handling, OnReadRow, Active, Readable, GotRow,
       Callback, Ended, FetchedCont, ResultAfter, async, queue, ghosts, dthread
  <1>6. OneAnswer'
    BY <1>1, SameResult DEF ClientInv, AsyncInv, TypeOK, Fresh, Below,
       TwoSteps, OneAnswer, Reading, InCb, Handling, OnReadRow, Active,
       Readable, GotRow, Callback, Ended, FetchedCont, ResultAfter, async, queue, ghosts, dthread
  <1>7. QueueDone'
    BY <1>1 DEF ClientInv, AsyncInv, TypeOK, Fresh, Below, TwoSteps,
       OneAnswer, QueueDone, Continued, InCb, Handling, OnReadRow, Active, Readable,
       GotRow, Callback, Ended, FetchedCont, ResultAfter, async, queue, ghosts, dthread
  <1>8. AsyncSafe'
    BY <1>1 DEF ClientInv, AsyncInv, TypeOK, Fresh, Below, TwoSteps,
       CurrentListed, AsyncSafe, InCb, Handling, OnReadRow, Active,
       Readable, GotRow, Callback, Ended, FetchedCont, ResultAfter, async, queue, ghosts, dthread
  <1>9. QueriesKept'
    BY <1>1, KeptOn DEF ClientInv, AsyncInv, TypeOK, NotBusy, OneAnswer,
       QueueDone, Reading, Fates, InQueue, OnReadRow, Active, Readable,
       GotRow, Callback, Ended, FetchedCont, ResultAfter, async, queue, ghosts, dthread
  <1>. QED
    BY <1>1, <1>2, <1>3, <1>4, <1>5, <1>6, <1>7, <1>8, <1>9 DEF ClientInv,
       AsyncInv

(* The loop over the rows goes on.                                         *)
LEMMA OnReadNextRowInv ==
  ASSUME ClientInv, OnReadNextRow, UNCHANGED dthread
  PROVE  ClientInv'
  <1>0. InQueue \subseteq InQueue'
    BY StillListed DEF ClientInv, TypeOK, OnReadNextRow, Active, GotRow,
       Callback, Ended, FetchedCont, ResultAfter, async, queue, ghosts, dthread
  <1>1. api = "async" /\ UNCHANGED api /\ Apart' /\ DthreadInv'
    BY AsyncAlone DEF OnReadNextRow, Active, GotRow, Callback, Ended, FetchedCont, ResultAfter, async,
       queue, ghosts, dthread
  <1>2. TypeOK'
    BY SMTT(20) DEF ClientInv, TypeOK, Fates, InCb, Handling, OnReadNextRow, Active,
       GotRow, Callback, Ended, FetchedCont, ResultAfter, async, queue, ghosts, dthread
  <1>3. Fresh' /\ Below'
    BY <1>1 DEF ClientInv, AsyncInv, TypeOK, Fresh, Below, InCb, Handling,
       OnReadNextRow, Active, GotRow, Callback, Ended, FetchedCont, ResultAfter, async, queue, ghosts,
       dthread
  <1>4. NotBusy' /\ TwoSteps'
    BY <1>1 DEF ClientInv, AsyncInv, TypeOK, Fresh, Below, NotBusy,
       TwoSteps, InCb, Handling, OnReadNextRow, Active, GotRow, Callback, Ended, FetchedCont,
       ResultAfter, async, queue, ghosts, dthread
  <1>5. CurrentListed'
    BY <1>1, <1>0 DEF ClientInv, AsyncInv, TypeOK, Below, TwoSteps,
       CurrentListed, InCb, Handling, OnReadNextRow, Active, GotRow,
       Callback, Ended, FetchedCont, ResultAfter, async, queue, ghosts, dthread
  <1>6. OneAnswer'
    BY <1>1, SameResult DEF ClientInv, AsyncInv, TypeOK, Fresh, Below,
       TwoSteps, OneAnswer, Reading, InCb, Handling, OnReadNextRow, Active,
       GotRow, Callback, Ended, FetchedCont, ResultAfter, async, queue, ghosts, dthread
  <1>7. QueueDone'
    BY <1>1 DEF ClientInv, AsyncInv, TypeOK, Fresh, Below, TwoSteps,
       OneAnswer, QueueDone, Continued, InCb, Handling, OnReadNextRow, Active, GotRow,
       Callback, Ended, FetchedCont, ResultAfter, async, queue, ghosts, dthread
  <1>8. AsyncSafe'
    BY <1>1 DEF ClientInv, AsyncInv, TypeOK, Fresh, Below, TwoSteps,
       CurrentListed, AsyncSafe, InCb, Handling, OnReadNextRow, Active,
       GotRow, Callback, Ended, FetchedCont, ResultAfter, async, queue, ghosts, dthread
  <1>9. QueriesKept'
    BY <1>1, KeptOn DEF ClientInv, AsyncInv, TypeOK, NotBusy, OneAnswer,
       QueueDone, Reading, Fates, InQueue, OnReadNextRow, Active, GotRow,
       Callback, Ended, FetchedCont, ResultAfter, async, queue, ghosts, dthread
  <1>. QED
    BY <1>1, <1>2, <1>3, <1>4, <1>5, <1>6, <1>7, <1>8, <1>9 DEF ClientInv,
       AsyncInv

(* A release that was waited for is done.                                  *)
LEMMA OnReadFreeingInv ==
  ASSUME ClientInv, OnReadFreeing, UNCHANGED dthread
  PROVE  ClientInv'
  <1>1. api = "async" /\ UNCHANGED api /\ Apart' /\ DthreadInv'
    BY AsyncAlone DEF OnReadFreeing, Active, Readable, FreeNull, async,
       queue, ghosts, dthread
  <1>2. TypeOK'
    BY DEF ClientInv, TypeOK, Fates, InCb, Handling, OnReadFreeing, Active,
       Readable, FreeNull, async, queue, ghosts, dthread
  <1>3. Fresh' /\ Below'
    BY <1>1 DEF ClientInv, AsyncInv, TypeOK, Fresh, Below, InCb, Handling,
       OnReadFreeing, Active, Readable, FreeNull, async, queue, ghosts,
       dthread
  <1>4. NotBusy' /\ TwoSteps'
    BY <1>1 DEF ClientInv, AsyncInv, TypeOK, Fresh, Below, NotBusy,
       TwoSteps, InCb, Handling, OnReadFreeing, Active, Readable, FreeNull,
       async, queue, ghosts, dthread
  <1>5. CurrentListed'
    BY <1>1 DEF ClientInv, AsyncInv, TypeOK, Below, TwoSteps, CurrentListed,
       InQueue, InCb, Handling, OnReadFreeing, Active, Readable, FreeNull,
       async, queue, ghosts, dthread
  <1>6. OneAnswer'
    BY <1>1 DEF ClientInv, AsyncInv, TypeOK, Fresh, Below, TwoSteps,
       OneAnswer, Reading, InCb, Handling, OnReadFreeing, Active, Readable,
       FreeNull, async, queue, ghosts, dthread
  <1>7. QueueDone'
    BY <1>1 DEF ClientInv, AsyncInv, TypeOK, Fresh, Below, TwoSteps,
       OneAnswer, QueueDone, Continued, InCb, Handling, OnReadFreeing, Active,
       Readable, FreeNull, async, queue, ghosts, dthread
  <1>8. AsyncSafe'
    BY <1>1 DEF ClientInv, AsyncInv, TypeOK, Fresh, Below, TwoSteps,
       CurrentListed, AsyncSafe, InCb, Handling, OnReadFreeing, Active,
       Readable, FreeNull, async, queue, ghosts, dthread
  <1>9. QueriesKept'
    BY <1>1, KeptOn DEF ClientInv, AsyncInv, TypeOK, NotBusy, OneAnswer,
       QueueDone, Reading, Fates, InQueue, OnReadFreeing, Active, Readable,
       FreeNull, async, queue, ghosts, dthread
  <1>. QED
    BY <1>1, <1>2, <1>3, <1>4, <1>5, <1>6, <1>7, <1>8, <1>9 DEF ClientInv,
       AsyncInv

(* The next result that was waited for is there.                           *)
LEMMA OnReadNextInv ==
  ASSUME ClientInv, OnReadNext, UNCHANGED dthread
  PROVE  ClientInv'
  <1>1. api = "async" /\ UNCHANGED api /\ Apart' /\ DthreadInv'
    BY AsyncAlone DEF OnReadNext, Active, Readable, async, queue,
       ghosts, dthread
  <1>2. TypeOK'
    BY DEF ClientInv, TypeOK, Fates, InCb, Handling, OnReadNext, Active,
       Readable, async, queue, ghosts, dthread
  <1>3. Fresh' /\ Below'
    BY <1>1 DEF ClientInv, AsyncInv, TypeOK, Fresh, Below, InCb, Handling,
       OnReadNext, Active, Readable, async, queue, ghosts, dthread
  <1>4. NotBusy' /\ TwoSteps'
    BY <1>1 DEF ClientInv, AsyncInv, TypeOK, Fresh, Below, NotBusy,
       TwoSteps, InCb, Handling, OnReadNext, Active, Readable,
       async, queue, ghosts, dthread
  <1>5. CurrentListed'
    BY <1>1 DEF ClientInv, AsyncInv, TypeOK, Below, TwoSteps, CurrentListed,
       InQueue, InCb, Handling, OnReadNext, Active, Readable,
       async, queue, ghosts, dthread
  <1>6. OneAnswer'
    BY <1>1 DEF ClientInv, AsyncInv, TypeOK, Fresh, Below, TwoSteps,
       OneAnswer, Reading, InCb, Handling, OnReadNext, Active, Readable,
       async, queue, ghosts, dthread
  <1>7. QueueDone'
    BY <1>1 DEF ClientInv, AsyncInv, TypeOK, Fresh, Below, TwoSteps,
       OneAnswer, QueueDone, Continued, InCb, Handling, OnReadNext, Active, Readable,
       async, queue, ghosts, dthread
  <1>8. AsyncSafe'
    BY <1>1 DEF ClientInv, AsyncInv, TypeOK, Fresh, Below, TwoSteps,
       CurrentListed, AsyncSafe, InCb, Handling, OnReadNext, Active,
       Readable, async, queue, ghosts, dthread
  <1>9. QueriesKept'
    BY <1>1, KeptOn DEF ClientInv, AsyncInv, TypeOK, NotBusy, OneAnswer,
       QueueDone, Reading, Fates, InQueue, OnReadNext, Active, Readable,
       async, queue, ghosts, dthread
  <1>. QED
    BY <1>1, <1>2, <1>3, <1>4, <1>5, <1>6, <1>7, <1>8, <1>9 DEF ClientInv,
       AsyncInv

(* The event loop reports an error, or the end of the connection.          *)
LEMMA OnErrorCloseInv ==
  ASSUME ClientInv, NEW error \in BOOLEAN, OnErrorClose(error), UNCHANGED dthread
  PROVE  ClientInv'
  <1>1. api = "async" /\ UNCHANGED api /\ Apart' /\ DthreadInv'
    BY AsyncAlone DEF OnErrorClose, Active, async, queue, ghosts, dthread
  <1>2. TypeOK'
    BY DroppedFate DEF ClientInv, TypeOK, Fates, InCb, Handling,
       OnErrorClose, Active, async, queue, ghosts, dthread
  <1>3. Fresh' /\ Below'
    BY <1>1 DEF ClientInv, AsyncInv, TypeOK, Fresh, Below, InCb, Handling,
       OnErrorClose, Active, async, queue, ghosts, dthread
  <1>4. NotBusy' /\ TwoSteps'
    BY <1>1 DEF ClientInv, AsyncInv, TypeOK, Fresh, Below, NotBusy,
       TwoSteps, InCb, Handling, OnErrorClose, Active, async, queue, ghosts,
       dthread
  <1>5. CurrentListed'
    BY <1>1 DEF ClientInv, AsyncInv, TypeOK, Below, TwoSteps, CurrentListed,
       InQueue, InCb, Handling, OnErrorClose, Active, async, queue, ghosts,
       dthread
  <1>6. OneAnswer'
    BY <1>1 DEF ClientInv, AsyncInv, TypeOK, Fresh, Below, TwoSteps,
       OneAnswer, Reading, InCb, Handling, OnErrorClose, Active, async,
       queue, ghosts, dthread
  <1>7. QueueDone'
    BY <1>1 DEF ClientInv, AsyncInv, TypeOK, Fresh, Below, TwoSteps,
       OneAnswer, QueueDone, Continued, InCb, Handling, OnErrorClose, Active, async,
       queue, ghosts, dthread
  <1>8. AsyncSafe'
    BY <1>1 DEF ClientInv, AsyncInv, TypeOK, Fresh, Below, TwoSteps,
       CurrentListed, AsyncSafe, InCb, Handling, OnErrorClose, Active,
       async, queue, ghosts, dthread
  <1>9. QueriesKept'
    BY KeptFreed DEF ClientInv, OnErrorClose, dthread, ghosts
  <1>. QED
    BY <1>1, <1>2, <1>3, <1>4, <1>5, <1>6, <1>7, <1>8, <1>9 DEF ClientInv,
       AsyncInv

-----------------------------------------------------------------------------
(***************************************************************************)
(* The dthread interface.                                                  *)
(***************************************************************************)

(* While a dthread works no callback of the other interface runs.          *)
LEMMA DthreadAlone ==
  ASSUME ClientInv, api = "dthread", UNCHANGED <<api, async>>
  PROVE  Apart' /\ AsyncInv'
  BY DEF ClientInv, Apart, AsyncInv, async, ghosts

\* The event loop resumes the dthread, which sees the state s.
Event(s) ==
    /\ api = "dthread" /\ fault = "none" /\ life \in {"open", "pooled"}
    /\ s = state \/ (s = "ERROR" /\ failed')
    /\ failed => failed'

(* The connection is opened.                                               *)
LEMMA ConnectInv ==
  ASSUME ClientInv, Connect, UNCHANGED async
  PROVE  ClientInv'
  <1>1. api = "dthread" /\ UNCHANGED api /\ Apart' /\ AsyncInv'
    BY DthreadAlone DEF Connect, Runs, async, queue, ghosts
  <1>2. TypeOK'
    BY DEF ClientInv, TypeOK, Fates, InQueue, Connect, Runs, async, queue,
       ghosts
  <1>3. DthreadInv'
    BY <1>1 DEF ClientInv, DthreadInv, TypeOK, Connect, Runs
  <1>4. QueriesKept'
    BY <1>1, KeptOn DEF ClientInv, TypeOK, Fates, DthreadInv, Connect, Runs,
       async, queue, ghosts
  <1>. QED
    BY <1>1, <1>2, <1>3, <1>4 DEF ClientInv

(* The attempt to connect goes on.                                         *)
LEMMA ConnectGoesOnInv ==
  ASSUME ClientInv, NEW s, Event(s), ConnectGoesOn(s), UNCHANGED async
  PROVE  ClientInv'
  <1>1. api = "dthread" /\ UNCHANGED api /\ Apart' /\ AsyncInv'
    BY DthreadAlone DEF Event, ConnectGoesOn, Closed, dthread
  <1>2. TypeOK'
    BY DEF ClientInv, TypeOK, Fates, InQueue, Event, ConnectGoesOn, Closed,
       async, queue, ghosts, dthread
  <1>3. DthreadInv'
    BY <1>1 DEF ClientInv, DthreadInv, TypeOK, Event,
       ConnectGoesOn, Closed, dthread
  <1>4. QueriesKept'
    BY <1>1, KeptOn DEF ClientInv, TypeOK, Fates, DthreadInv, Event,
       ConnectGoesOn, Closed, async, queue, ghosts, dthread
  <1>. QED
    BY <1>1, <1>2, <1>3, <1>4 DEF ClientInv

(* A query is sent.                                                        *)
LEMMA QueryInv ==
  ASSUME ClientInv, NEW q \in Queries, Query(q), UNCHANGED async
  PROVE  ClientInv'
  <1>1. api = "dthread" /\ UNCHANGED api /\ Apart' /\ AsyncInv'
    BY DthreadAlone DEF Query, Runs, Answered, Sent, Refusal, async, queue,
       ghosts
  <1>2. TypeOK'
    BY DEF ClientInv, TypeOK, Fates, InQueue, Query, Runs, Answered, Sent,
       Refusal, async, queue, ghosts
  <1>3. DthreadInv'
    BY <1>1, SingleAnswer DEF ClientInv, DthreadInv, TypeOK, Query,
       Runs, Answered, Sent, Refusal
  <1>4. QueriesKept'
    <2>1. Refusal # "refused" \/ multi \/ unread
      BY <1>1 DEF ClientInv, DthreadInv, Query, Runs, Refusal
    <2>2. \A p \in Queries : fate'[p] = fate[p] \/ fate'[p] \in {"queued", "open", Refusal}
      BY DEF ClientInv, TypeOK, Query
    <2>3. Refusal # "dropped"
      BY DEF Refusal
    <2>. QED
      BY <1>1, <2>1, <2>2, <2>3 DEF ClientInv, QueriesKept, DthreadInv, Query,
         async, ghosts
  <1>. QED
    BY <1>1, <1>2, <1>3, <1>4 DEF ClientInv

(* The query has been sent, or has failed.                                 *)
LEMMA QueryGoesOnInv ==
  ASSUME ClientInv, NEW s, Event(s), QueryGoesOn(s), UNCHANGED async
  PROVE  ClientInv'
  <1>1. api = "dthread" /\ UNCHANGED api /\ Apart' /\ AsyncInv'
    BY DthreadAlone DEF Event, QueryGoesOn, Answered, Closed, dthread
  <1>2. TypeOK'
    BY DEF ClientInv, TypeOK, Fates, InQueue, Event, QueryGoesOn, Answered, Closed,
       async, queue, ghosts, dthread
  <1>3. DthreadInv'
    BY <1>1, SingleAnswer DEF ClientInv, DthreadInv, TypeOK, Event,
       QueryGoesOn, Answered, Closed, dthread
  <1>4. QueriesKept'
    BY <1>1, KeptOn DEF ClientInv, TypeOK, Fates, DthreadInv, Event,
       QueryGoesOn, Answered, Closed, async, queue, ghosts, dthread
  <1>. QED
    BY <1>1, <1>2, <1>3, <1>4 DEF ClientInv

(* A row is asked for.                                                     *)
LEMMA GetRowInv ==
  ASSUME ClientInv, GetRow, UNCHANGED async
  PROVE  ClientInv'
  <1>1. api = "dthread" /\ UNCHANGED api /\ Apart' /\ AsyncInv'
    BY DthreadAlone DEF GetRow, Runs, Row, Fetched, async, queue,
       ghosts
  <1>2. TypeOK'
    BY DEF ClientInv, TypeOK, Fates, InQueue, GetRow, Runs, Row,
       Fetched, async, queue, ghosts
  <1>3. DthreadInv'
    BY <1>1, SameResult DEF ClientInv, DthreadInv, TypeOK, GetRow,
       Runs, Row, Fetched
  <1>4. QueriesKept'
    BY <1>1, KeptOn DEF ClientInv, TypeOK, Fates, DthreadInv, GetRow, Runs,
       Row, Fetched, async, queue, ghosts
  <1>. QED
    BY <1>1, <1>2, <1>3, <1>4 DEF ClientInv

(* A row that was waited for is there, or get_row gives up.                *)
LEMMA GetRowGoesOnInv ==
  ASSUME ClientInv, NEW s, Event(s), GetRowGoesOn(s), UNCHANGED async
  PROVE  ClientInv'
  <1>1. api = "dthread" /\ UNCHANGED api /\ Apart' /\ AsyncInv'
    BY DthreadAlone DEF Event, GetRowGoesOn, GiveUp, Row, FetchedCont, Fetched, dthread
  <1>2. TypeOK'
    BY DEF ClientInv, TypeOK, Fates, InQueue, Event, GetRowGoesOn, GiveUp, Row, FetchedCont, Fetched,
       async, queue, ghosts, dthread
  <1>3. DthreadInv'
    BY <1>1, SameResult DEF ClientInv, DthreadInv, TypeOK, Event,
       GetRowGoesOn, GiveUp, Row, FetchedCont, Fetched, dthread
  <1>4. QueriesKept'
    BY <1>1, KeptOn DEF ClientInv, TypeOK, Fates, DthreadInv, Event,
       GetRowGoesOn, GiveUp, Row, FetchedCont, Fetched, async, queue, ghosts, dthread
  <1>. QED
    BY <1>1, <1>2, <1>3, <1>4 DEF ClientInv

(* A release that was waited for is done.                                  *)
LEMMA FreeGoesOnInv ==
  ASSUME ClientInv, NEW s, Event(s), FreeGoesOn(s), UNCHANGED async
  PROVE  ClientInv'
  <1>1. api = "dthread" /\ UNCHANGED api /\ Apart' /\ AsyncInv'
    BY DthreadAlone DEF Event, FreeGoesOn, GiveUp, dthread
  <1>2. TypeOK'
    BY DEF ClientInv, TypeOK, Fates, InQueue, Event, FreeGoesOn, GiveUp,
       async, queue, ghosts, dthread
  <1>3. DthreadInv'
    BY <1>1, SameResult DEF ClientInv, DthreadInv, TypeOK, Event,
       FreeGoesOn, GiveUp, dthread
  <1>4. QueriesKept'
    BY <1>1, KeptOn DEF ClientInv, TypeOK, Fates, DthreadInv, Event,
       FreeGoesOn, GiveUp, async, queue, ghosts, dthread
  <1>. QED
    BY <1>1, <1>2, <1>3, <1>4 DEF ClientInv

(* The connection is given up.                                             *)
LEMMA DisconnectInv ==
  ASSUME ClientInv, Disconnect, UNCHANGED async
  PROVE  ClientInv'
  <1>1. api = "dthread" /\ UNCHANGED api /\ Apart' /\ AsyncInv'
    BY DthreadAlone DEF Disconnect, Runs, Closed, async, queue, ghosts
  <1>2. TypeOK'
    BY DEF ClientInv, TypeOK, Fates, InQueue, Disconnect, Runs, Closed,
       async, queue, ghosts
  <1>3. DthreadInv'
    BY <1>1, SameResult DEF ClientInv, DthreadInv, TypeOK,
       Disconnect, Runs, Closed
  <1>4. QueriesKept'
    BY <1>1, KeptOn DEF ClientInv, TypeOK, Fates, DthreadInv, Disconnect,
       Runs, Closed, async, queue, ghosts
  <1>. QED
    BY <1>1, <1>2, <1>3, <1>4 DEF ClientInv

(* A call on a connection that is gone.                                    *)
LEMMA UseFreedInv ==
  ASSUME ClientInv, UseFreed, UNCHANGED async
  PROVE  ClientInv'
  <1>1. api = "dthread" /\ UNCHANGED api /\ Apart' /\ AsyncInv'
    BY DthreadAlone DEF UseFreed, Runs, async, queue, ghosts, dthread
  <1>2. TypeOK'
    BY DEF ClientInv, TypeOK, Fates, InQueue, UseFreed, Runs, async, queue,
       ghosts, dthread
  <1>3. DthreadInv'
    BY <1>1 DEF ClientInv, DthreadInv, TypeOK, UseFreed, Runs,
       dthread
  <1>4. QueriesKept'
    BY <1>1, KeptOn DEF ClientInv, TypeOK, Fates, DthreadInv, UseFreed,
       Runs, async, queue, ghosts, dthread
  <1>. QED
    BY <1>1, <1>2, <1>3, <1>4 DEF ClientInv

(* The dthread waits for something else.                                   *)
LEMMA ElsewhereInv ==
  ASSUME ClientInv, Elsewhere, UNCHANGED async
  PROVE  ClientInv'
  <1>1. api = "dthread" /\ UNCHANGED api /\ Apart' /\ AsyncInv'
    BY DthreadAlone DEF Elsewhere, conn, async, queue, ghosts
  <1>2. TypeOK'
    BY DEF ClientInv, TypeOK, Fates, InQueue, Elsewhere, conn, async, queue,
       ghosts
  <1>3. DthreadInv'
    BY <1>1 DEF ClientInv, DthreadInv, TypeOK, Elsewhere, conn
  <1>4. QueriesKept'
    BY <1>1, KeptOn DEF ClientInv, TypeOK, Fates, DthreadInv, Elsewhere,
       conn, async, queue, ghosts
  <1>. QED
    BY <1>1, <1>2, <1>3, <1>4 DEF ClientInv

(* Another dthread takes the connection.                                   *)
LEMMA GetConnInv ==
  ASSUME ClientInv, GetConn, UNCHANGED async
  PROVE  ClientInv'
  <1>1. api = "dthread" /\ UNCHANGED api /\ Apart' /\ AsyncInv'
    BY DthreadAlone DEF GetConn, async, queue, ghosts
  <1>2. TypeOK'
    BY DEF ClientInv, TypeOK, Fates, InQueue, GetConn, async, queue, ghosts
  <1>3. DthreadInv'
    BY <1>1 DEF ClientInv, DthreadInv, TypeOK, GetConn
  <1>4. QueriesKept'
    BY <1>1, KeptOn DEF ClientInv, TypeOK, Fates, DthreadInv, GetConn,
       async, queue, ghosts
  <1>. QED
    BY <1>1, <1>2, <1>3, <1>4 DEF ClientInv

(* The dthread is resumed while it waits for something else.               *)
LEMMA ResumeElsewhereInv ==
  ASSUME ClientInv, NEW s, Event(s), ResumeElsewhere(s), UNCHANGED async
  PROVE  ClientInv'
  <1>1. api = "dthread" /\ UNCHANGED api /\ Apart' /\ AsyncInv'
    BY DthreadAlone DEF Event, ResumeElsewhere, dthread
  <1>2. TypeOK'
    BY DEF ClientInv, TypeOK, Fates, InQueue, Event, ResumeElsewhere,
       async, queue, ghosts, dthread
  <1>3. DthreadInv'
    BY <1>1 DEF ClientInv, DthreadInv, TypeOK, Event,
       ResumeElsewhere, dthread
  <1>4. QueriesKept'
    BY <1>1, KeptOn DEF ClientInv, TypeOK, Fates, DthreadInv, Event,
       ResumeElsewhere, async, queue, ghosts, dthread
  <1>. QED
    BY <1>1, <1>2, <1>3, <1>4 DEF ClientInv

(* A dthread that has ended is resumed: the server has failed or hung up,  *)
(* or the dthread left something to read.                                  *)
LEMMA ResumeDeadInv ==
  ASSUME ClientInv, NEW s, Event(s), failed' \/ busy \/ wire # <<>>, ResumeDead(s), UNCHANGED async
  PROVE  ClientInv'
  <1>1. api = "dthread" /\ UNCHANGED api /\ Apart' /\ AsyncInv'
    BY DthreadAlone DEF Event, ResumeDead, dthread
  <1>2. TypeOK'
    BY DEF ClientInv, TypeOK, Fates, InQueue, Event, ResumeDead,
       async, queue, ghosts, dthread
  <1>3. DthreadInv'
    BY <1>1 DEF ClientInv, DthreadInv, TypeOK, Event,
       ResumeDead, dthread
  <1>4. QueriesKept'
    BY <1>1, KeptOn DEF ClientInv, TypeOK, Fates, DthreadInv, Event,
       ResumeDead, async, queue, ghosts, dthread
  <1>. QED
    BY <1>1, <1>2, <1>3, <1>4 DEF ClientInv

(* An event of any kind.                                                   *)
LEMMA ResumeInv ==
  ASSUME ClientInv, NEW s, Resume(s), failed => failed',
         s = state \/ (s = "ERROR" /\ failed'),
         failed' \/ busy \/ wire # <<>>, UNCHANGED async
  PROVE  ClientInv'
  <1>1. Event(s)
    BY DEF Resume, Event
  <1>. QED
    BY <1>1, ConnectGoesOnInv, QueryGoesOnInv, GetRowGoesOnInv, FreeGoesOnInv,
       ResumeElsewhereInv, ResumeDeadInv DEF Resume

-----------------------------------------------------------------------------
(***************************************************************************)
(* The connection as a whole.                                              *)
(***************************************************************************)

(* A connection that was just created satisfies the invariant.             *)
LEMMA ClientInit == Init => ClientInv
  <1>. SUFFICES ASSUME Init PROVE ClientInv
    OBVIOUS
  <1>1. TypeOK
    BY EmptySeq DEF Init, ConnInit, AsyncInit, TypeOK, Fates, InCb, Handling
  <1>2. Apart
    BY DEF Init, AsyncInit, DthreadInit, Apart
  <1>3. AsyncInv
    BY DEF Init, ConnInit, AsyncInit, AsyncInv, Fresh, Below, NotBusy, TwoSteps,
       CurrentListed, OneAnswer, Reading, QueueDone, AsyncSafe
  <1>4. DthreadInv
    BY DEF Init, ConnInit, DthreadInit, DthreadInv
  <1>5. QueriesKept
    BY DEF Init, ConnInit, QueriesKept
  <1>. QED
    BY <1>1, <1>2, <1>3, <1>4, <1>5 DEF ClientInv

(* Every step of the connection preserves the invariant.                   *)
LEMMA ClientStep == ClientInv /\ [Next]_vars => ClientInv'
  <1>. SUFFICES ASSUME ClientInv, [Next]_vars PROVE ClientInv'
    OBVIOUS
  <1>1. CASE AsyncNext /\ UNCHANGED dthread
    <2>1. CASE ConnectAsync \/ GetPooled \/ CallDisconnect
      BY <1>1, <2>1, ConnectAsyncInv, GetPooledInv, CallDisconnectInv
    <2>2. ASSUME NEW q \in Queries, CallQuery(q)
          PROVE  ClientInv'
      BY <1>1, <2>2, CallQueryInv
    <2>3. CASE Handlers
      BY <1>1, <2>3, HandleQueryEmptyInv, HandleQueryAbortedInv,
         HandleQuerySendInv, HandleResultInv, HandleRowInv,
         HandleResultFreeInv, HandleNextResultInv, CbReturnsInv DEF Handlers
    <2>4. CASE OnRead
      BY <1>1, <2>4, OnReadConnectingInv, OnReadQueryingInv, OnReadRowInv,
         OnReadNextRowInv, OnReadFreeingInv, OnReadNextInv DEF OnRead
    <2>5. ASSUME NEW error \in BOOLEAN, OnErrorClose(error)
          PROVE  ClientInv'
      BY <1>1, <2>5, OnErrorCloseInv
    <2>. QED
      BY <1>1, <2>1, <2>2, <2>3, <2>4, <2>5 DEF AsyncNext
  <1>2. CASE DthreadNext /\ UNCHANGED async
    <2>1. CASE Connect \/ GetRow \/ Disconnect \/ UseFreed \/ Elsewhere \/ GetConn
      BY <1>2, <2>1, ConnectInv, GetRowInv, DisconnectInv, UseFreedInv,
         ElsewhereInv, GetConnInv
    <2>2. ASSUME NEW q \in Queries, Query(q)
          PROVE  ClientInv'
      BY <1>2, <2>2, QueryInv
    <2>3. ASSUME NEW hungup \in BOOLEAN, OnReadResume(hungup)
          PROVE  ClientInv'
      BY <1>2, <2>3, ResumeInv DEF OnReadResume
    <2>4. CASE OnFailure
      BY <1>2, <2>4, ResumeInv DEF OnFailure
    <2>. QED
      BY <1>2, <2>1, <2>2, <2>3, <2>4 DEF DthreadNext
  <1>3. CASE UNCHANGED vars
    <2>1. UNCHANGED <<conn, async, dthread>>
      BY <1>3 DEF vars
    <2>. QED
      BY <2>1 DEF conn, async, queue, ghosts, dthread, ClientInv, TypeOK, Apart,
         AsyncInv, Fresh, Below, NotBusy, TwoSteps, CurrentListed, OneAnswer,
         Reading, QueueDone, AsyncSafe, DthreadInv, QueriesKept, InQueue
  <1>. QED
    BY <1>1, <1>2, <1>3 DEF Next

(* What the invariant says of memory.                                      *)
LEMMA ClientInvSafe == ClientInv => MemorySafe
  BY DEF ClientInv, TypeOK, AsyncInv, AsyncSafe, DthreadInv, MemorySafe

(* A query that was accepted is never left without a call that waits for   *)
(* the server in a state mariadb_on_read continues, but after a result of  *)
(* multi statements that was released in two steps: QueueGoesOn, for any   *)
(* set of queries, results of any size and callbacks that use the          *)
(* connection again.                                                       *)
THEOREM QueueIsNotStuck == Spec => []QueueGoesOn
  <1>1. ClientInv => QueueGoesOn
    BY DEF ClientInv, AsyncInv, QueueDone, QueueGoesOn, InCb
  <1>. QED
    BY <1>1, ClientInit, ClientStep, PTL DEF Spec

(* A query that a connection has accepted is not lost, is not refused      *)
(* because of what the package left unread, and is not sent in the middle  *)
(* of another call, but in the cases QueriesKept names: whichever          *)
(* interface is used, for any set of queries and results of any size.      *)
THEOREM QueriesAreKept == Spec => []QueriesKept
  <1>1. ClientInv => QueriesKept
    BY DEF ClientInv
  <1>. QED
    BY <1>1, ClientInit, ClientStep, PTL DEF Spec

(* Neither interface uses a connection, a query or a result that it has    *)
(* freed, but in the cases MemorySafe names.                               *)
THEOREM ClientIsMemorySafe == Spec => []MemorySafe
  BY ClientInit, ClientStep, ClientInvSafe, PTL DEF Spec
=============================================================================
