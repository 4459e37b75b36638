--------------------------- MODULE WebSocketProofs ---------------------------
(***************************************************************************)
(* Proofs about WebSocket, for any number of workers, spawned threads,     *)
(* descriptors, rooms, connections and broadcasts and pipes of any size:   *)
(* an open websocket finds its own node, and gets a broadcast from its     *)
(* worker's thread at most once, although the broadcast threads walk the   *)
(* lists without a lock.                                                   *)
(***************************************************************************)
EXTENDS WebSocket, DataLemmas

FrameRec == [id : Nat, source : Nat, channel : Channels \cup {0}]
NodeRec == [id : Nat, socket : Socks, channel : Rooms, conn : Nat]
SockRec == [conn : Nat, worker : Workers \cup {"none"}, ws : BOOLEAN]

WsTyped ==
    /\ sock \in [Socks -> SockRec]
    /\ conns \in Nat /\ nodes \in Nat /\ msgs \in Nat /\ count \in Nat
    /\ list \in [Threads -> Seq(NodeRec)]
    /\ pipeof \in [Threads -> Nat]
    /\ pipe \in [Pipes -> Seq(FrameRec)]
    /\ call \in [Threads -> [frame : FrameRec, next : Nat]]
    /\ walk \in [Threads -> [frame : FrameRec, at : Int]]
    /\ sent \in SUBSET (Nat \X Nat)

\* Frame number x is in the sequence q, or q has no number twice.
In(x, q) == \E i \in 1 .. Len(q) : q[i].id = x
Once(q) == \A i, j \in 1 .. Len(q) : q[i].id = q[j].id => i = j

\* The threads that have started look for their pipes at different places.
PipesApart ==
    /\ \A t \in Threads : pipeof[t] <= count
    /\ \A t, u \in Threads : pipeof[t] # 0 /\ pipeof[t] = pipeof[u] => t = u

\* The nodes of a list are in the order they were made, with one for a
\* descriptor.  The list of a thread that has not started is empty.
Ordered(l) ==
    /\ \A i, j \in 1 .. Len(l) : i < j => l[i].id < l[j].id
    /\ \A i, j \in 1 .. Len(l) : l[i].socket = l[j].socket => i = j
Listed ==
    /\ \A t \in Threads : Ordered(list[t])
    /\ \A t \in Threads : \A i \in 1 .. Len(list[t]) : list[t][i].id \in 1 .. nodes
    /\ \A t \in Threads : ~Started(t) => list[t] = <<>> /\ walk[t] = Idle

\* Connections have numbers of their own; a node belongs to one of them, and
\* to no node before the upgrade.
Pending(s) == sock[s].worker # "none" /\ ~sock[s].ws
Numbered ==
    /\ \A s \in Socks : sock[s].conn <= conns /\ (sock[s].worker # "none" => sock[s].conn # 0)
    /\ \A s, r \in Socks : sock[s].conn # 0 /\ sock[s].conn = sock[r].conn => s = r
Owned ==
    /\ \A t \in Threads : \A i \in 1 .. Len(list[t]) : list[t][i].conn <= conns
    /\ \A t, u \in Threads : \A i \in 1 .. Len(list[t]), j \in 1 .. Len(list[u]) :
          list[t][i].conn = list[u][j].conn => t = u /\ i = j
    /\ \A s \in Socks : Pending(s) =>
          \A t \in Threads : \A i \in 1 .. Len(list[t]) : list[t][i].conn # sock[s].conn

\* Nothing was written to a connection that is not upgraded, nor to one that
\* is still to come, nor twice.
Sents ==
    /\ \A d \in sent : d[1] <= conns /\ d[2] <= msgs
    /\ \A s \in Socks : Pending(s) => \A d \in sent : d[1] # sock[s].conn
    /\ ~twice

\* An open websocket has a node in the list of its worker.
Holds(l, s, c) == \E k \in 1 .. Len(l) : l[k].socket = s /\ l[k].conn = c
Opened ==
    \A s \in Socks : sock[s].ws =>
        sock[s].worker \in Workers /\ Holds(list[sock[s].worker], s, sock[s].conn)

\* The numbers of the frames are those handed out so far.
Known ==
    /\ \A p \in Pipes : \A x \in Nat : In(x, pipe[p]) => x <= msgs
    /\ \A t \in Threads : walk[t].frame.id <= msgs

\* Thread t is sending frame x, or a connection in its list got it.
Walking(t) == walk[t] # Idle
Got(t, x) == \E i \in 1 .. Len(list[t]) : <<list[t][i].conn, x>> \in sent
Met(t, x) == (Walking(t) /\ walk[t].frame.id = x) \/ Got(t, x)

\* A broadcast under way has a frame of its own, and the pipes it has still
\* to write to have not seen it.
Calling(c) == call[c] # NoCall
Calls ==
    /\ \A c \in Threads : Calling(c) => call[c].frame.id <= msgs /\ call[c].next \in Pipes
    /\ \A c, d \in Threads :
          Calling(c) /\ Calling(d) /\ call[c].frame.id = call[d].frame.id => c = d
    /\ \A c \in Threads : \A p \in Pipes :
          Calling(c) /\ call[c].next <= p => ~In(call[c].frame.id, pipe[p])
    /\ \A c \in Threads : \A t \in Threads :
          Calling(c) /\ Started(t) /\ call[c].next <= pipeof[t] => ~Met(t, call[c].frame.id)

\* What is queued has not been sent, nor is being sent.
Queued ==
    /\ \A p \in Pipes : Once(pipe[p])
    /\ \A t \in Threads : \A x \in Nat :
          HasPipe(t) /\ In(x, pipe[pipeof[t]]) => ~Met(t, x)

\* The connections from the node a thread is at on have not got its frame,
\* unless it has lost its place.
Walks ==
    \A t \in Threads : Walking(t) /\ walk[t].at >= 0 => \A i \in 1 .. Len(list[t]) :
        list[t][i].id >= walk[t].at => <<list[t][i].conn, walk[t].frame.id>> \notin sent

WsIInv ==
    /\ WsTyped /\ PipesApart /\ Listed /\ Numbered /\ Owned /\ Sents /\ Opened
    /\ Known /\ Calls /\ Queued /\ Walks

(***************************************************************************)
(* The frames of a pipe.                                                   *)
(***************************************************************************)
(* A frame appended is the only new one.                                   *)
LEMMA InAppend ==
  ASSUME NEW q \in Seq(FrameRec), NEW f \in FrameRec, NEW x
  PROVE  In(x, Append(q, f)) <=> In(x, q) \/ f.id = x
  <1>. DEFINE r == Append(q, f)
  <1>1. /\ Len(r) = Len(q) + 1 /\ r[Len(q) + 1] = f /\ Len(q) \in Nat
        /\ \A i \in 1 .. Len(q) : r[i] = q[i]
    OBVIOUS
  <1>. HIDE DEF r
  <1>2. In(x, r) => In(x, q) \/ f.id = x
    <2>1. ASSUME NEW i \in 1 .. Len(r), r[i].id = x
          PROVE  In(x, q) \/ f.id = x
      <3>1. CASE i = Len(q) + 1
        BY <1>1, <2>1, <3>1
      <3>2. CASE i # Len(q) + 1
        <4>1. i \in 1 .. Len(q)
          BY <1>1, <3>2
        <4>. QED
          BY <1>1, <2>1, <4>1 DEF In
      <3>. QED
        BY <3>1, <3>2
    <2>. QED
      BY <2>1 DEF In
  <1>3. In(x, q) => In(x, r)
    <2>1. \A i \in 1 .. Len(q) : i \in 1 .. Len(r)
      BY <1>1
    <2>. QED
      BY <1>1, <2>1 DEF In
  <1>4. f.id = x => In(x, r)
    <2>1. Len(q) + 1 \in 1 .. Len(r)
      BY <1>1
    <2>. QED
      BY <1>1, <2>1 DEF In
  <1>. QED
    BY <1>2, <1>3, <1>4 DEF r

(* A frame that is not in the sequence yet can be appended.                *)
LEMMA OnceAppend ==
  ASSUME NEW q \in Seq(FrameRec), NEW f \in FrameRec, Once(q), ~In(f.id, q)
  PROVE  Once(Append(q, f))
  <1>. DEFINE r == Append(q, f)
  <1>1. /\ Len(r) = Len(q) + 1 /\ r[Len(q) + 1] = f /\ Len(q) \in Nat
        /\ \A i \in 1 .. Len(q) : r[i] = q[i]
    OBVIOUS
  <1>. HIDE DEF r
  <1>2. \A i \in 1 .. Len(r) : i = Len(q) + 1 \/ i \in 1 .. Len(q)
    BY <1>1
  <1>3. \A i \in 1 .. Len(q) : q[i].id # f.id
    BY DEF In
  <1>4. ASSUME NEW i \in 1 .. Len(r), NEW j \in 1 .. Len(r), r[i].id = r[j].id
        PROVE  i = j
    <2>1. CASE i \in 1 .. Len(q) /\ j \in 1 .. Len(q)
      BY <1>1, <1>4, <2>1 DEF Once
    <2>2. CASE i = Len(q) + 1 /\ j \in 1 .. Len(q)
      BY <1>1, <1>3, <1>4, <2>2
    <2>3. CASE j = Len(q) + 1 /\ i \in 1 .. Len(q)
      BY <1>1, <1>3, <1>4, <2>3
    <2>. QED
      BY <1>2, <2>1, <2>2, <2>3
  <1>5. Once(r)
    BY <1>4 DEF Once
  <1>. QED
    BY <1>5 DEF r

(* The frame taken from a pipe is not in the rest of it.                   *)
LEMMA OnceTail ==
  ASSUME NEW q \in Seq(FrameRec), q # <<>>, Once(q)
  PROVE  /\ Tail(q) \in Seq(FrameRec) /\ Head(q) \in FrameRec
         /\ Once(Tail(q))
         /\ In(Head(q).id, q)
         /\ ~In(Head(q).id, Tail(q))
         /\ \A x : In(x, Tail(q)) => In(x, q)
  <1>. DEFINE t == Tail(q)
  <1>1. /\ t \in Seq(FrameRec) /\ Head(q) = q[1] /\ Len(q) \in Nat /\ Len(q) >= 1
        /\ Len(t) = Len(q) - 1
        /\ \A i \in 1 .. Len(t) : t[i] = q[i + 1]
    OBVIOUS
  <1>2. q[1] \in FrameRec
    BY <1>1
  <1>. HIDE DEF t
  <1>3. \A i \in 1 .. Len(t) : i + 1 \in 1 .. Len(q) /\ i + 1 # 1
    BY <1>1
  <1>4. 1 \in 1 .. Len(q)
    BY <1>1
  <1>5. Once(t)
    <2>1. ASSUME NEW i \in 1 .. Len(t), NEW j \in 1 .. Len(t), t[i].id = t[j].id
          PROVE  i = j
      <3>1. i + 1 = j + 1
        BY <1>1, <1>3, <2>1 DEF Once
      <3>. QED
        BY <3>1
    <2>. QED
      BY <2>1 DEF Once
  <1>6. ~In(q[1].id, t)
    BY <1>1, <1>3, <1>4 DEF In, Once
  <1>7. \A x : In(x, t) => In(x, q)
    BY <1>1, <1>3 DEF In
  <1>8. In(q[1].id, q)
    BY <1>4 DEF In
  <1>. QED
    BY <1>1, <1>2, <1>5, <1>6, <1>7, <1>8 DEF t

(***************************************************************************)
(* The list of nodes.                                                      *)
(***************************************************************************)
(* The least of the places that pass is the one SelectInSeq takes.         *)
LEMMA LeastPlace ==
  ASSUME NEW n \in Nat, NEW I \in SUBSET (1 .. n), I # {}
  PROVE  Min(I) \in I
  <1>1. I \in SUBSET Nat
    OBVIOUS
  <1>2. \E m \in I : \A k \in I : m <= k
    BY <1>1, LeastNatural
  <1>. QED
    BY <1>2 DEF Min

(* ws_request_get finds the node of a descriptor if the list has one.      *)
LEMMA GetFinds ==
  ASSUME NEW l \in Seq(NodeRec), NEW s
  PROVE  \/ ws_request_get(l, s) = 0 /\ \A k \in 1 .. Len(l) : l[k].socket # s
         \/ ws_request_get(l, s) \in 1 .. Len(l) /\ l[ws_request_get(l, s)].socket = s
  <1>. DEFINE I == {k \in 1 .. Len(l) : l[k].socket = s}
  <1>1. ws_request_get(l, s) = IF I # {} THEN Min(I) ELSE 0
    BY DEF ws_request_get, SelectInSeq
  <1>2. Len(l) \in Nat /\ I \in SUBSET (1 .. Len(l))
    OBVIOUS
  <1>3. I # {} => Min(I) \in I
    <2>. HIDE DEF I
    <2>. QED
      BY <1>2, LeastPlace
  <1>. QED
    BY <1>1, <1>3

(* A list after the node of descriptor s has gone.                         *)
Cut(r, l, s) ==
    /\ \A i \in 1 .. Len(r) : r[i].socket # s /\ \E k \in 1 .. Len(l) : r[i] = l[k]
    /\ \A k \in 1 .. Len(l) : l[k].socket # s => \E i \in 1 .. Len(r) : r[i] = l[k]

LEMMA DeleteCuts ==
  ASSUME NEW l \in Seq(NodeRec), NEW s, Ordered(l)
  PROVE  /\ ws_request_delete(l, s) \in Seq(NodeRec)
         /\ Ordered(ws_request_delete(l, s))
         /\ Cut(ws_request_delete(l, s), l, s)
  <1>1. CASE ws_request_get(l, s) = 0
    <2>1. ws_request_delete(l, s) = l
      BY <1>1 DEF ws_request_delete
    <2>2. \A k \in 1 .. Len(l) : l[k].socket # s
      BY <1>1, GetFinds
    <2>3. Cut(l, l, s)
      BY <2>2 DEF Cut
    <2>. QED
      BY <2>1, <2>3
  <1>2. CASE ws_request_get(l, s) # 0
    <2>1. PICK f : f = ws_request_get(l, s)
      OBVIOUS
    <2>2. f \in 1 .. Len(l) /\ l[f].socket = s
      BY <1>2, <2>1, GetFinds
    <2>3. PICK r : r = ws_request_delete(l, s)
      OBVIOUS
    <2>4. r = Without(l, f)
      BY <1>2, <2>1, <2>3 DEF ws_request_delete, RemoveAt, Without
    <2>5. /\ r \in Seq(NodeRec) /\ Len(r) = Len(l) - 1
          /\ \A i \in 1 .. Len(r) : r[i] = IF i < f THEN l[i] ELSE l[i + 1]
      <3>1. f \in 1 .. Len(l)
        BY <2>2
      <3>. QED
        BY <2>4, <3>1, WithoutEntry
    <2>6. Others(r, l, f)
      BY <2>2, <2>4, OthersStay
    <2>7. Len(l) \in Nat
      OBVIOUS
    <2>8. Cut(r, l, s)
      <3>1. \A k \in 1 .. Len(l) : k # f => l[k].socket # s
        BY <2>2 DEF Ordered
      <3>2. \A i \in 1 .. Len(r) : r[i].socket # s /\ \E k \in 1 .. Len(l) : r[i] = l[k]
        <4>1. ASSUME NEW i \in 1 .. Len(r)
              PROVE  r[i].socket # s /\ \E k \in 1 .. Len(l) : r[i] = l[k]
          <5>1. PICK k \in 1 .. Len(l) : k # f /\ r[i] = l[k]
            BY <2>6 DEF Others
          <5>. QED
            BY <3>1, <5>1
        <4>. QED
          BY <4>1
      <3>3. \A k \in 1 .. Len(l) : l[k].socket # s => \E i \in 1 .. Len(r) : r[i] = l[k]
        BY <2>2, <2>6 DEF Others
      <3>. QED
        BY <3>2, <3>3 DEF Cut
    <2>. DEFINE old(i) == IF i < f THEN i ELSE i + 1
    <2>9. \A i \in 1 .. Len(r) : old(i) \in 1 .. Len(l) /\ r[i] = l[old(i)]
      BY <2>2, <2>5, <2>7
    <2>10. \A i, j \in 1 .. Len(r) : (i < j => old(i) < old(j)) /\ (old(i) = old(j) => i = j)
      BY <2>2, <2>5, <2>7
    <2>. HIDE DEF old
    <2>11. Ordered(r)
      <3>1. ASSUME NEW i \in 1 .. Len(r), NEW j \in 1 .. Len(r), i < j
            PROVE  r[i].id < r[j].id
        BY <2>9, <2>10, <3>1 DEF Ordered
      <3>2. ASSUME NEW i \in 1 .. Len(r), NEW j \in 1 .. Len(r), r[i].socket = r[j].socket
            PROVE  i = j
        BY <2>9, <2>10, <3>2 DEF Ordered
      <3>. QED
        BY <3>1, <3>2 DEF Ordered
    <2>. QED
      BY <2>3, <2>5, <2>8, <2>11
  <1>. QED
    BY <1>1, <1>2

(***************************************************************************)
(* The initial state, which is also what a crash leaves.                   *)
(***************************************************************************)
Blank ==
    /\ sock = [s \in Socks |-> Closed] /\ conns = 0
    /\ list = [t \in Threads |-> <<>>] /\ nodes = 0
    /\ msgs = 0 /\ pipeof = [t \in Threads |-> 0] /\ count = 0
    /\ pipe = [p \in Pipes |-> <<>>] /\ call = [t \in Threads |-> NoCall]
    /\ walk = [t \in Threads |-> Idle] /\ sent = {} /\ twice = FALSE

LEMMA BlankIsFine == Blank => WsIInv
  <1>. SUFFICES ASSUME Blank
                PROVE  WsIInv
    OBVIOUS
  <1>1. /\ sock = [s \in Socks |-> Closed] /\ conns = 0
        /\ list = [t \in Threads |-> <<>>] /\ nodes = 0
        /\ msgs = 0 /\ pipeof = [t \in Threads |-> 0] /\ count = 0
        /\ pipe = [p \in Pipes |-> <<>>] /\ call = [t \in Threads |-> NoCall]
        /\ walk = [t \in Threads |-> Idle] /\ sent = {} /\ twice = FALSE
    BY DEF Blank
  <1>2. /\ <<>> \in Seq(NodeRec) /\ <<>> \in Seq(FrameRec) /\ FALSE \in BOOLEAN
    OBVIOUS
  <1>3. /\ Closed \in SockRec
        /\ Closed.worker = "none" /\ ~Closed.ws /\ Closed.conn = 0
    BY <1>2 DEF Closed, SockRec
  <1>4. NoFrame \in FrameRec /\ NoFrame.id = 0
    BY DEF NoFrame, Frame, FrameRec
  <1>5. /\ Idle \in [frame : FrameRec, at : Int]
        /\ NoCall \in [frame : FrameRec, next : Nat]
        /\ Idle.frame.id = 0
    BY <1>4 DEF Idle, NoCall
  <1>6. WsTyped
    <2>1. /\ sock \in [Socks -> SockRec]
          /\ conns \in Nat /\ nodes \in Nat /\ msgs \in Nat /\ count \in Nat
      BY <1>1, <1>3
    <2>2. list \in [Threads -> Seq(NodeRec)] /\ pipeof \in [Threads -> Nat]
      BY <1>1, <1>2
    <2>3. pipe \in [Pipes -> Seq(FrameRec)] /\ sent \in SUBSET (Nat \X Nat)
      BY <1>1, <1>2
    <2>4. /\ call \in [Threads -> [frame : FrameRec, next : Nat]]
          /\ walk \in [Threads -> [frame : FrameRec, at : Int]]
      BY <1>1, <1>5
    <2>. QED
      BY <2>1, <2>2, <2>3, <2>4 DEF WsTyped
  <1>7. PipesApart
    BY <1>1 DEF PipesApart
  <1>8. \A t \in Threads : list[t] = <<>> /\ walk[t] = Idle /\ Len(list[t]) = 0
    BY <1>1
  <1>9. \A s \in Socks : sock[s] = Closed
    BY <1>1
  <1>10. Listed /\ Opened
    BY <1>3, <1>8, <1>9 DEF Listed, Ordered, Opened
  <1>11. Numbered /\ Owned /\ Sents
    <2>1. Numbered
      BY <1>1, <1>3, <1>9 DEF Numbered
    <2>2. Owned
      BY <1>8 DEF Owned
    <2>3. Sents
      BY <1>1 DEF Sents
    <2>. QED
      BY <2>1, <2>2, <2>3
  <1>12. \A x : \A p \in Pipes : ~In(x, pipe[p]) /\ Len(pipe[p]) = 0
    BY <1>1 DEF In
  <1>13. Known
    BY <1>1, <1>5, <1>12 DEF Known
  <1>14. Calls
    BY <1>1 DEF Calls, Calling
  <1>15. Queued
    BY <1>12 DEF Queued, Once, HasPipe
  <1>16. Walks
    BY <1>8 DEF Walks
  <1>. QED
    BY <1>6, <1>7, <1>10, <1>11, <1>13, <1>14, <1>15, <1>16 DEF WsIInv

LEMMA CrashKeeps ==
  ASSUME Crash
  PROVE  WsIInv'
  <1>1. Blank'
    BY DEF Crash, Blank
  <1>2. Blank' => WsIInv'
    BY BlankIsFine, PTL
  <1>. QED
    BY <1>1, <1>2

(***************************************************************************)
(* Connections come and go, and the lists do not change.                   *)
(***************************************************************************)
LEMMA SocketsChange ==
  ASSUME WsIInv, UNCHANGED <<list, nodes, msgs, pipeof, count, pipe, call, walk, twice>>,
         sock' \in [Socks -> SockRec], conns' \in Nat, sent' \subseteq sent,
         Numbered', Owned', Sents', Opened'
  PROVE  WsIInv'
  <1>1. /\ list' = list /\ nodes' = nodes /\ msgs' = msgs /\ pipeof' = pipeof
        /\ count' = count /\ pipe' = pipe /\ call' = call /\ walk' = walk
    OBVIOUS
  <1>2. WsTyped'
    BY <1>1 DEF WsIInv, WsTyped
  <1>3. PipesApart'
    BY <1>1 DEF WsIInv, PipesApart
  <1>4. Listed'
    BY <1>1 DEF WsIInv, Listed, Started
  <1>5. Known'
    BY <1>1 DEF WsIInv, Known
  <1>6. \A t \in Threads : \A x : Met(t, x)' => Met(t, x)
    BY <1>1 DEF Met, Got, Walking
  <1>7. Calls'
    <2>1. ASSUME NEW c \in Threads, NEW t \in Threads,
                 Calling(c), Started(t), call[c].next <= pipeof[t]
          PROVE  ~Met(t, call[c].frame.id)'
      <3>1. PICK x : x = call[c].frame.id
        OBVIOUS
      <3>2. ~Met(t, x)
        BY <2>1, <3>1 DEF WsIInv, Calls
      <3>3. ~Met(t, x)'
        BY <1>6, <3>2
      <3>. QED
        BY <1>1, <3>1, <3>3
    <2>. QED
      BY <1>1, <2>1 DEF WsIInv, Calls, Calling, Started
  <1>8. Queued'
    BY <1>1, <1>6 DEF WsIInv, Queued, HasPipe
  <1>9. Walks'
    BY <1>1 DEF WsIInv, Walks, Walking
  <1>. QED
    BY <1>2, <1>3, <1>4, <1>5, <1>7, <1>8, <1>9 DEF WsIInv

LEMMA AcceptKeeps ==
  ASSUME WsIInv, NEW w \in Workers, NEW s \in Socks, Accept(w, s)
  PROVE  WsIInv'
  <1>1. /\ sock[s] = Closed /\ conns' = conns + 1
        /\ sock' = [sock EXCEPT ![s] = [conn |-> conns + 1, worker |-> w, ws |-> FALSE]]
        /\ UNCHANGED <<list, nodes, msgs, pipeof, count, pipe, call, walk, sent, twice>>
    BY DEF Accept, reqs, threads, seen
  <1>2. /\ sock \in [Socks -> SockRec] /\ conns \in Nat
        /\ Numbered /\ Owned /\ Sents /\ Opened /\ list \in [Threads -> Seq(NodeRec)]
        /\ sent \in SUBSET (Nat \X Nat)
    BY DEF WsIInv, WsTyped
  <1>3. /\ sock'[s].worker = w /\ sock'[s].ws = FALSE /\ sock'[s].conn = conns + 1
        /\ \A r \in Socks : r # s => sock'[r] = sock[r]
    BY <1>1, <1>2
  <1>4. sock' \in [Socks -> SockRec] /\ conns' \in Nat
    <2>1. FALSE \in BOOLEAN
      OBVIOUS
    <2>. QED
      BY <1>1, <1>2, <2>1 DEF SockRec
  <1>5. \A r \in Socks : sock[r].conn \in Nat /\ sock[r].conn <= conns
    BY <1>2 DEF Numbered, SockRec
  <1>6. Numbered'
    <2>1. \A r \in Socks : sock'[r].conn <= conns' /\ (sock'[r].worker # "none" => sock'[r].conn # 0)
      BY <1>1, <1>2, <1>3, <1>5 DEF Numbered
    <2>2. \A r, q \in Socks : sock'[r].conn # 0 /\ sock'[r].conn = sock'[q].conn => r = q
      BY <1>2, <1>3, <1>5 DEF Numbered
    <2>. QED
      BY <2>1, <2>2 DEF Numbered
  <1>7. \A r \in Socks : r # s => (Pending(r)' <=> Pending(r))
    BY <1>3 DEF Pending
  <1>8. Owned'
    <2>1. \A t \in Threads : \A i \in 1 .. Len(list[t]) :
             list[t][i].conn \in Nat /\ list[t][i].conn <= conns
      <3>1. \A t \in Threads : \A i \in 1 .. Len(list[t]) : list[t][i] \in NodeRec
        BY <1>2
      <3>. QED
        BY <1>2, <3>1 DEF Owned, NodeRec
    <2>2. \A t \in Threads : \A i \in 1 .. Len(list[t]) :
             list[t][i].conn <= conns' /\ list[t][i].conn # sock'[s].conn
      BY <1>1, <1>2, <1>3, <2>1
    <2>. QED
      BY <1>1, <1>2, <1>3, <1>7, <2>2 DEF Owned
  <1>9. Sents'
    <2>1. \A d \in sent : d[1] \in Nat /\ d[1] <= conns
      BY <1>2 DEF Sents
    <2>2. \A d \in sent : d[1] <= conns' /\ d[1] # sock'[s].conn
      BY <1>1, <1>2, <1>3, <2>1
    <2>. QED
      BY <1>1, <1>2, <1>3, <1>7, <2>2 DEF Sents
  <1>10. Opened'
    BY <1>1, <1>2, <1>3 DEF Opened
  <1>. QED
    BY <1>1, <1>4, <1>6, <1>8, <1>9, <1>10, SocketsChange

LEMMA CloseKeeps ==
  ASSUME WsIInv, NEW s \in Socks, Leaves(s),
         UNCHANGED <<conns, list, nodes, msgs, pipeof, count, pipe, call, walk>>
  PROVE  WsIInv'
  <1>1. /\ sock' = [sock EXCEPT ![s] = Closed] /\ sent' \subseteq sent /\ twice' = twice
    BY DEF Leaves, Left
  <1>2. /\ sock \in [Socks -> SockRec] /\ conns \in Nat
        /\ Numbered /\ Owned /\ Sents /\ Opened
    BY DEF WsIInv, WsTyped
  <1>3. /\ Closed \in SockRec
        /\ Closed.worker = "none" /\ Closed.ws = FALSE /\ Closed.conn = 0
    <2>1. FALSE \in BOOLEAN
      OBVIOUS
    <2>. QED
      BY <2>1 DEF Closed, SockRec
  <1>4. /\ sock' \in [Socks -> SockRec] /\ sock'[s] = Closed
        /\ \A r \in Socks : r # s => sock'[r] = sock[r]
    BY <1>1, <1>2, <1>3
  <1>5. \A r \in Socks : Pending(r)' => Pending(r) /\ sock'[r].conn = sock[r].conn
    BY <1>3, <1>4 DEF Pending
  <1>6. Numbered'
    BY <1>2, <1>3, <1>4 DEF Numbered
  <1>7. Owned'
    BY <1>2, <1>5 DEF Owned
  <1>8. Sents'
    BY <1>1, <1>2, <1>5 DEF Sents
  <1>9. Opened'
    BY <1>2, <1>3, <1>4 DEF Opened
  <1>. QED
    BY <1>1, <1>2, <1>4, <1>6, <1>7, <1>8, <1>9, SocketsChange

(***************************************************************************)
(* A thread starts: it looks for the next pipe.                            *)
(***************************************************************************)
LEMMA StartKeeps ==
  ASSUME WsIInv, NEW w \in Threads, cb_request_list_init(w)
  PROVE  WsIInv'
  <1>1. /\ pipeof[w] = 0 /\ count' = count + 1
        /\ pipeof' = [pipeof EXCEPT ![w] = count + 1]
        /\ UNCHANGED <<sock, conns, list, nodes, msgs, pipe, call, walk, sent, twice>>
    BY DEF cb_request_list_init, net, reqs, seen, Started
  <1>2. WsTyped /\ PipesApart /\ Listed /\ Opened
    BY DEF WsIInv
  <1>3. pipeof \in [Threads -> Nat] /\ count \in Nat
    BY <1>2 DEF WsTyped
  <1>4. /\ pipeof' \in [Threads -> Nat] /\ count' \in Nat /\ pipeof'[w] = count + 1
        /\ \A v \in Threads : v # w => pipeof'[v] = pipeof[v]
    BY <1>1, <1>3
  <1>5. WsTyped'
    BY <1>1, <1>2, <1>4 DEF WsTyped
  <1>6. Numbered' /\ Owned' /\ Sents'
    BY <1>1 DEF WsIInv, Numbered, Owned, Sents, Pending
  <1>7. PipesApart'
    <2>1. \A v \in Threads : v # w => pipeof[v] <= count /\ pipeof[v] \in Nat
      BY <1>2, <1>3 DEF PipesApart
    <2>2. \A v \in Threads : pipeof'[v] <= count'
      BY <1>1, <1>3, <1>4, <2>1
    <2>3. \A u, v \in Threads : pipeof'[u] # 0 /\ pipeof'[u] = pipeof'[v] => u = v
      BY <1>2, <1>3, <1>4, <2>1 DEF PipesApart
    <2>. QED
      BY <2>2, <2>3 DEF PipesApart
  <1>8. list[w] = <<>> /\ walk[w] = Idle /\ Len(list[w]) = 0
    BY <1>1, <1>2 DEF Listed, Started
  <1>9. \A x : ~Met(w, x)' /\ \A v \in Threads : Met(v, x)' <=> Met(v, x)
    BY <1>1, <1>8 DEF Met, Got, Walking
  <1>10. \A v \in Threads : v # w => (Started(v)' <=> Started(v)) /\ (HasPipe(v)' <=> HasPipe(v))
    BY <1>4 DEF Started, HasPipe
  <1>11. Listed' /\ Opened'
    <2>1. \A v \in Threads : ~Started(v)' => ~Started(v)
      BY <1>1, <1>3, <1>4, <1>10 DEF Started
    <2>. QED
      BY <1>1, <1>2, <2>1 DEF Listed, Opened
  <1>12. Known'
    BY <1>1 DEF WsIInv, Known
  <1>13. Calls'
    <2>1. Calls /\ \A c \in Threads : call'[c] = call[c]
      BY <1>1 DEF WsIInv
    <2>2. \A c \in Threads : \A v \in Threads :
             Calling(c)' /\ Started(v)' /\ call'[c].next <= pipeof'[v] => ~Met(v, call[c].frame.id)'
      <3>1. ASSUME NEW c \in Threads, NEW v \in Threads, v # w,
                   Calling(c)', Started(v)', call'[c].next <= pipeof'[v]
            PROVE  ~Met(v, call[c].frame.id)'
        <4>1. PICK x : x = call[c].frame.id
          OBVIOUS
        <4>2. Calling(c) /\ Started(v) /\ call[c].next <= pipeof[v]
          BY <1>1, <1>4, <1>10, <2>1, <3>1 DEF Calling
        <4>3. ~Met(v, x)
          BY <2>1, <4>1, <4>2 DEF Calls
        <4>4. ~Met(v, x)'
          BY <1>9, <4>3
        <4>. QED
          BY <1>1, <4>1, <4>4
      <3>2. ASSUME NEW c \in Threads
            PROVE  ~Met(w, call[c].frame.id)'
        <4>1. PICK x : x = call[c].frame.id
          OBVIOUS
        <4>. QED
          BY <1>1, <1>9, <4>1
      <3>. QED
        BY <3>1, <3>2
    <2>3. UNCHANGED <<call, msgs, pipe>>
      BY <1>1
    <2>. QED
      BY <2>1, <2>2, <2>3 DEF Calls, Calling
  <1>14. Queued'
    <2>1. \A v \in Threads : \A x \in Nat :
             HasPipe(v)' /\ In(x, pipe'[pipeof'[v]]) => ~Met(v, x)'
      <3>1. ASSUME NEW v \in Threads, v # w, NEW x \in Nat,
                   HasPipe(v)', In(x, pipe'[pipeof'[v]])
            PROVE  ~Met(v, x)'
        BY <1>1, <1>4, <1>9, <1>10, <3>1 DEF WsIInv, Queued
      <3>. QED
        BY <1>9, <3>1
    <2>. QED
      BY <1>1, <2>1 DEF WsIInv, Queued
  <1>15. Walks'
    BY <1>1 DEF WsIInv, Walks, Walking
  <1>. QED
    BY <1>5, <1>6, <1>7, <1>11, <1>12, <1>13, <1>14, <1>15 DEF WsIInv

(***************************************************************************)
(* A handshake: the list of one worker changes under the feet of the       *)
(* thread that walks it.                                                   *)
(***************************************************************************)
(* The list r may replace the list of w: its nodes are old ones, or one    *)
(* just made for a connection that had none, and nothing written to it.    *)
Replaces(r, w) ==
    /\ r \in Seq(NodeRec) /\ Ordered(r)
    /\ \A i \in 1 .. Len(r) :
          \/ \E k \in 1 .. Len(list[w]) : r[i] = list[w][k]
          \/ /\ r[i].id = nodes + 1 /\ nodes' = nodes + 1
             /\ \A d \in sent : d[1] # r[i].conn

LEMMA ListChanges ==
  ASSUME WsIInv, NEW w \in Threads, NEW r, Replaces(r, w), Started(w),
         list' = [list EXCEPT ![w] = r], nodes' \in {nodes, nodes + 1},
         UNCHANGED <<msgs, pipeof, count, pipe, call, walk, sent>>
  PROVE  Listed' /\ Known' /\ Calls' /\ Queued' /\ Walks'
  <1>1. WsTyped /\ Listed /\ Known /\ Calls /\ Queued /\ Walks
    BY DEF WsIInv
  <1>2. list \in [Threads -> Seq(NodeRec)] /\ nodes \in Nat
    BY <1>1 DEF WsTyped
  <1>3. list'[w] = r /\ \A v \in Threads : v # w => list'[v] = list[v]
    BY <1>2
  <1>4. UNCHANGED <<msgs, pipeof, count, pipe, call, walk, sent>>
    OBVIOUS
  <1>5. \A v \in Threads : \A i \in 1 .. Len(list[v]) : list[v][i].id \in 1 .. nodes
    BY <1>1 DEF Listed
  \* A node of the new lists is an old one of the same thread, or the new one.
  <1>6. \A v \in Threads : \A i \in 1 .. Len(list'[v]) :
           \/ \E k \in 1 .. Len(list[v]) : list'[v][i] = list[v][k]
           \/ /\ v = w /\ list'[v][i].id = nodes + 1 /\ nodes' = nodes + 1
              /\ \A d \in sent : d[1] # list'[v][i].conn
    BY <1>3 DEF Replaces
  <1>7. Listed'
    <2>1. \A v \in Threads : Ordered(list'[v])
      BY <1>1, <1>3 DEF Replaces, Listed
    <2>2. \A v \in Threads : \A i \in 1 .. Len(list'[v]) : list'[v][i].id \in 1 .. nodes'
      <3>1. ASSUME NEW v \in Threads, NEW i \in 1 .. Len(list'[v])
            PROVE  list'[v][i].id \in 1 .. nodes'
        <4>1. CASE \E k \in 1 .. Len(list[v]) : list'[v][i] = list[v][k]
          <5>1. list'[v][i].id \in 1 .. nodes
            BY <1>5, <4>1
          <5>. QED
            BY <1>2, <5>1
        <4>2. CASE list'[v][i].id = nodes + 1 /\ nodes' = nodes + 1
          BY <1>2, <4>2
        <4>. QED
          BY <1>6, <4>1, <4>2
      <3>. QED
        BY <3>1
    <2>3. \A v \in Threads : ~Started(v)' => list'[v] = <<>> /\ walk'[v] = Idle
      BY <1>1, <1>3, <1>4 DEF Listed, Started
    <2>. QED
      BY <2>1, <2>2, <2>3 DEF Listed
  <1>8. Known'
    BY <1>1, <1>4 DEF Known
  <1>9. \A v \in Threads : \A x : Met(v, x)' => Met(v, x)
    <2>1. ASSUME NEW v \in Threads, NEW x, Got(v, x)'
          PROVE  Got(v, x)
      <3>1. PICK i \in 1 .. Len(list'[v]) : <<list'[v][i].conn, x>> \in sent
        BY <1>4, <2>1 DEF Got
      <3>2. \E k \in 1 .. Len(list[v]) : list'[v][i] = list[v][k]
        BY <1>6, <3>1
      <3>. QED
        BY <3>1, <3>2 DEF Got
    <2>. QED
      BY <1>4, <2>1 DEF Met, Walking
  <1>10. Calls'
    <2>1. ASSUME NEW c \in Threads, NEW v \in Threads,
                 Calling(c), Started(v), call[c].next <= pipeof[v]
          PROVE  ~Met(v, call[c].frame.id)'
      <3>1. PICK x : x = call[c].frame.id
        OBVIOUS
      <3>2. ~Met(v, x)
        BY <1>1, <2>1, <3>1 DEF Calls
      <3>3. ~Met(v, x)'
        BY <1>9, <3>2
      <3>. QED
        BY <1>4, <3>1, <3>3
    <2>. QED
      BY <1>1, <1>4, <2>1 DEF Calls, Calling, Started
  <1>11. Queued'
    BY <1>1, <1>4, <1>9 DEF Queued, HasPipe
  <1>12. Walks'
    <2>1. ASSUME NEW v \in Threads, Walking(v), walk[v].at >= 0, NEW i \in 1 .. Len(list'[v]),
                 list'[v][i].id >= walk[v].at
          PROVE  <<list'[v][i].conn, walk[v].frame.id>> \notin sent
      BY <1>1, <1>6, <2>1 DEF Walks
    <2>. QED
      BY <1>4, <2>1 DEF Walks, Walking
  <1>. QED
    BY <1>7, <1>8, <1>10, <1>11, <1>12

(* Refused: the node of the descriptor's last user goes.                   *)
LEMMA RefusedKeeps ==
  ASSUME WsIInv, NEW w \in Workers, NEW s \in Socks, HandshakeRefused(w, s)
  PROVE  WsIInv'
  <1>1. /\ Started(w) /\ sock[s].worker = w /\ ~sock[s].ws
        /\ list' = [list EXCEPT ![w] = ws_request_delete(@, s)]
        /\ UNCHANGED <<sock, conns, nodes, msgs, pipeof, count, pipe, call, walk, sent, twice>>
    BY DEF HandshakeRefused, Free, net, threads, seen
  <1>2. /\ WsTyped /\ PipesApart /\ Listed /\ Numbered /\ Owned /\ Sents /\ Opened
        /\ list \in [Threads -> Seq(NodeRec)] /\ w \in Threads
    BY DEF WsIInv, WsTyped, Threads
  <1>3. PICK l : l = list[w]
    OBVIOUS
  <1>4. PICK r : r = ws_request_delete(l, s)
    OBVIOUS
  <1>5. l \in Seq(NodeRec) /\ Ordered(l)
    BY <1>2, <1>3 DEF Listed
  <1>6. r \in Seq(NodeRec) /\ Ordered(r) /\ Cut(r, l, s)
    BY <1>4, <1>5, DeleteCuts
  <1>7. list' = [list EXCEPT ![w] = r]
    BY <1>1, <1>3, <1>4
  <1>8. list'[w] = r /\ \A v \in Threads : v # w => list'[v] = list[v]
    BY <1>2, <1>7
  <1>9. Replaces(r, w)
    BY <1>3, <1>6 DEF Cut, Replaces
  <1>10. Listed' /\ Known' /\ Calls' /\ Queued' /\ Walks'
    BY <1>1, <1>2, <1>7, <1>9, ListChanges
  <1>11. WsTyped' /\ PipesApart' /\ Numbered' /\ Sents'
    <2>1. list' \in [Threads -> Seq(NodeRec)]
      BY <1>2, <1>6, <1>7
    <2>2. WsTyped' /\ PipesApart'
      BY <1>1, <1>2, <2>1 DEF WsTyped, PipesApart
    <2>3. Numbered' /\ Sents'
      BY <1>1, <1>2 DEF Numbered, Sents, Pending
    <2>. QED
      BY <2>2, <2>3
  <1>12. Owned'
    <2>1. \A v \in Threads : \A i \in 1 .. Len(list'[v]) :
             \E k \in 1 .. Len(list[v]) : list'[v][i] = list[v][k]
      <3>1. ASSUME NEW i \in 1 .. Len(r)
            PROVE  \E k \in 1 .. Len(l) : r[i] = l[k]
        BY <1>6 DEF Cut
      <3>2. ASSUME NEW v \in Threads, v # w, NEW i \in 1 .. Len(list'[v])
            PROVE  \E k \in 1 .. Len(list[v]) : list'[v][i] = list[v][k]
        BY <1>8, <3>2
      <3>. QED
        BY <1>3, <1>8, <3>1, <3>2
    <2>2. ASSUME NEW u \in Threads, NEW v \in Threads, NEW i \in 1 .. Len(list'[u]),
                 NEW j \in 1 .. Len(list'[v]), list'[u][i].conn = list'[v][j].conn
          PROVE  u = v /\ i = j
      <3>1. PICK h \in 1 .. Len(list[u]) : list'[u][i] = list[u][h]
        BY <2>1
      <3>2. PICK k \in 1 .. Len(list[v]) : list'[v][j] = list[v][k]
        BY <2>1
      <3>3. u = v /\ h = k
        BY <1>2, <2>2, <3>1, <3>2 DEF Owned
      <3>4. list'[u][i].socket = list'[u][j].socket
        BY <3>1, <3>2, <3>3
      <3>. QED
        BY <1>10, <2>2, <3>3, <3>4 DEF Listed, Ordered
    <2>. QED
      BY <1>1, <1>2, <2>1, <2>2 DEF Owned, Pending
  <1>13. Opened'
    <2>1. ASSUME NEW q \in Socks, sock[q].ws
          PROVE  sock[q].worker \in Workers /\ Holds(list'[sock[q].worker], q, sock[q].conn)
      <3>1. /\ sock[q].worker \in Workers /\ Holds(list[sock[q].worker], q, sock[q].conn) /\ q # s
            /\ sock[q].worker \in Threads
        BY <1>1, <1>2, <2>1 DEF Opened, Threads
      <3>2. CASE sock[q].worker = w
        <4>1. Holds(r, q, sock[q].conn)
          <5>1. PICK k \in 1 .. Len(l) : l[k].socket = q /\ l[k].conn = sock[q].conn
            BY <1>3, <3>1, <3>2 DEF Holds
          <5>2. \E i \in 1 .. Len(r) : r[i] = l[k]
            BY <1>6, <3>1, <5>1 DEF Cut
          <5>. QED
            BY <5>1, <5>2 DEF Holds
        <4>. QED
          BY <1>8, <3>1, <3>2, <4>1
      <3>3. CASE sock[q].worker # w
        BY <1>8, <3>1, <3>3
      <3>. QED
        BY <3>2, <3>3
    <2>. QED
      BY <1>1, <2>1 DEF Opened
  <1>. QED
    BY <1>10, <1>11, <1>12, <1>13 DEF WsIInv

(* Done: the node made for the connection is the last of the list.         *)
LEMMA HandshakeKeeps ==
  ASSUME WsIInv, NEW w \in Workers, NEW s \in Socks, NEW ch \in Rooms, ws_handshake(w, s, ch)
  PROVE  WsIInv'
  <1>1. /\ Started(w) /\ sock[s].worker = w /\ ~sock[s].ws
        /\ list' = [list EXCEPT ![w] =
                      Append(ws_request_delete(@, s),
                             [id |-> nodes + 1, socket |-> s, channel |-> ch, conn |-> sock[s].conn])]
        /\ nodes' = nodes + 1 /\ sock' = [sock EXCEPT ![s].ws = TRUE] /\ conns' = conns
        /\ UNCHANGED <<msgs, pipeof, count, pipe, call, walk, sent, twice>>
    BY DEF ws_handshake, Free, ws_request_add, ws_request_create, threads, seen
  <1>2. /\ WsTyped /\ PipesApart /\ Listed /\ Numbered /\ Owned /\ Sents /\ Opened
        /\ list \in [Threads -> Seq(NodeRec)] /\ nodes \in Nat /\ conns \in Nat
        /\ sock \in [Socks -> SockRec] /\ w \in Threads
    BY DEF WsIInv, WsTyped, Threads
  <1>3. PICK l : l = list[w]
    OBVIOUS
  <1>4. PICK d : d = ws_request_delete(l, s)
    OBVIOUS
  <1>5. PICK node : node = [id |-> nodes + 1, socket |-> s, channel |-> ch, conn |-> sock[s].conn]
    OBVIOUS
  <1>6. PICK r : r = Append(d, node)
    OBVIOUS
  <1>7. l \in Seq(NodeRec) /\ Ordered(l)
    BY <1>2, <1>3 DEF Listed
  <1>8. d \in Seq(NodeRec) /\ Ordered(d) /\ Cut(d, l, s)
    BY <1>4, <1>7, DeleteCuts
  <1>9. /\ node \in NodeRec /\ node.id = nodes + 1 /\ node.socket = s
        /\ node.conn = sock[s].conn
    BY <1>2, <1>5 DEF NodeRec, SockRec
  <1>10. /\ r \in Seq(NodeRec) /\ Len(r) = Len(d) + 1 /\ r[Len(d) + 1] = node /\ Len(d) \in Nat
         /\ \A i \in 1 .. Len(d) : r[i] = d[i]
    BY <1>6, <1>8, <1>9
  <1>11. \A i \in 1 .. Len(r) : i \in 1 .. Len(d) \/ i = Len(d) + 1
    BY <1>10
  <1>12. list' = [list EXCEPT ![w] = r]
    BY <1>1, <1>3, <1>4, <1>5, <1>6
  <1>13. \A i \in 1 .. Len(d) : d[i].id \in 1 .. nodes /\ d[i].socket # s
    BY <1>2, <1>3, <1>8 DEF Cut, Listed
  <1>14. Ordered(r)
    <2>1. ASSUME NEW i \in 1 .. Len(r), NEW j \in 1 .. Len(r), i < j
          PROVE  r[i].id < r[j].id
      <3>1. i \in 1 .. Len(d)
        BY <1>10, <2>1
      <3>2. CASE j \in 1 .. Len(d)
        BY <1>8, <1>10, <2>1, <3>1, <3>2 DEF Ordered
      <3>3. CASE j = Len(d) + 1
        BY <1>2, <1>9, <1>10, <1>13, <3>1, <3>3
      <3>. QED
        BY <1>11, <3>2, <3>3
    <2>2. ASSUME NEW i \in 1 .. Len(r), NEW j \in 1 .. Len(r), r[i].socket = r[j].socket
          PROVE  i = j
      <3>1. CASE i \in 1 .. Len(d) /\ j \in 1 .. Len(d)
        BY <1>8, <1>10, <2>2, <3>1 DEF Ordered
      <3>2. CASE i \in 1 .. Len(d) /\ j = Len(d) + 1
        BY <1>9, <1>10, <1>13, <2>2, <3>2
      <3>3. CASE j \in 1 .. Len(d) /\ i = Len(d) + 1
        BY <1>9, <1>10, <1>13, <2>2, <3>3
      <3>. QED
        BY <1>11, <3>1, <3>2, <3>3
    <2>. QED
      BY <2>1, <2>2 DEF Ordered
  <1>15. /\ \A q \in Socks : q # s => sock'[q] = sock[q]
         /\ sock'[s].worker = w /\ sock'[s].conn = sock[s].conn /\ sock'[s].ws = TRUE
         /\ sock' \in [Socks -> SockRec]
    <2>1. TRUE \in BOOLEAN
      OBVIOUS
    <2>. QED
      BY <1>1, <1>2, <2>1 DEF SockRec
  \* The connection was pending: it has no node, and nothing was written to it.
  <1>16. /\ Pending(s) /\ sock[s].conn # 0
         /\ \A x \in sent : x[1] # sock[s].conn
         /\ \A v \in Threads : \A i \in 1 .. Len(list[v]) : list[v][i].conn # sock[s].conn
    <2>1. Pending(s) /\ sock[s].worker # "none"
      BY <1>1, WebSocketAssumption DEF Pending
    <2>. QED
      BY <1>2, <2>1 DEF Numbered, Owned, Sents
  <1>17. \A q \in Socks : Pending(q)' =>
            Pending(q) /\ q # s /\ sock'[q].conn = sock[q].conn /\ sock[q].conn # sock[s].conn
    <2>1. \A q \in Socks : q # s => sock[q].conn # sock[s].conn
      BY <1>2, <1>16 DEF Numbered
    <2>. QED
      BY <1>15, <2>1 DEF Pending
  <1>18. list'[w] = r /\ \A v \in Threads : v # w => list'[v] = list[v]
    BY <1>2, <1>12
  \* A node of the lists is an old one, or the new one at the end of w's.
  <1>19. \A i \in 1 .. Len(r) :
            \/ \E k \in 1 .. Len(l) : r[i] = l[k]
            \/ i = Len(d) + 1 /\ r[i] = node
    <2>1. ASSUME NEW i \in 1 .. Len(d)
          PROVE  \E k \in 1 .. Len(l) : r[i] = l[k]
      <3>1. \E k \in 1 .. Len(l) : d[i] = l[k]
        BY <1>8 DEF Cut
      <3>. QED
        BY <1>10, <3>1
    <2>. QED
      BY <1>10, <1>11, <2>1
  <1>20. Replaces(r, w)
    <2>1. \A i \in 1 .. Len(r) :
             \/ \E k \in 1 .. Len(list[w]) : r[i] = list[w][k]
             \/ /\ r[i].id = nodes + 1 /\ nodes' = nodes + 1
                /\ \A x \in sent : x[1] # r[i].conn
      BY <1>1, <1>3, <1>9, <1>16, <1>19
    <2>. QED
      BY <1>10, <1>14, <2>1 DEF Replaces
  <1>21. Listed' /\ Known' /\ Calls' /\ Queued' /\ Walks'
    BY <1>1, <1>2, <1>12, <1>20, ListChanges
  <1>22. WsTyped' /\ PipesApart'
    <2>1. list' \in [Threads -> Seq(NodeRec)]
      BY <1>2, <1>10, <1>12
    <2>2. nodes' \in Nat /\ conns' \in Nat
      BY <1>1, <1>2
    <2>. QED
      BY <1>1, <1>2, <1>15, <2>1, <2>2 DEF WsTyped, PipesApart
  <1>23. Numbered' /\ Sents'
    <2>1. \A q \in Socks : sock'[q].conn = sock[q].conn /\ sock'[q].worker = sock[q].worker
      BY <1>1, <1>15
    <2>2. Numbered'
      BY <1>1, <1>2, <2>1 DEF Numbered
    <2>3. Sents'
      BY <1>1, <1>2, <1>17 DEF Sents
    <2>. QED
      BY <2>2, <2>3
  <1>24. Owned'
    <2>1. \A v \in Threads : \A i \in 1 .. Len(list'[v]) :
             \/ \E k \in 1 .. Len(list[v]) : list'[v][i] = list[v][k]
             \/ v = w /\ i = Len(d) + 1 /\ list'[v][i].conn = sock[s].conn
      <3>1. ASSUME NEW v \in Threads, v # w, NEW i \in 1 .. Len(list'[v])
            PROVE  \E k \in 1 .. Len(list[v]) : list'[v][i] = list[v][k]
        BY <1>18, <3>1
      <3>. QED
        BY <1>3, <1>9, <1>18, <1>19, <3>1
    <2>2. ASSUME NEW v \in Threads, NEW i \in 1 .. Len(list'[v])
          PROVE  list'[v][i].conn <= conns'
      <3>1. CASE \E k \in 1 .. Len(list[v]) : list'[v][i] = list[v][k]
        BY <1>1, <1>2, <3>1 DEF Owned
      <3>2. CASE list'[v][i].conn = sock[s].conn
        BY <1>1, <1>2, <3>2 DEF Numbered
      <3>. QED
        BY <2>1, <3>1, <3>2
    <2>3. ASSUME NEW u \in Threads, NEW v \in Threads, NEW i \in 1 .. Len(list'[u]),
                 NEW j \in 1 .. Len(list'[v]), list'[u][i].conn = list'[v][j].conn
          PROVE  u = v /\ i = j
      <3>1. CASE /\ \E k \in 1 .. Len(list[u]) : list'[u][i] = list[u][k]
                 /\ \E k \in 1 .. Len(list[v]) : list'[v][j] = list[v][k]
        <4>1. PICK h \in 1 .. Len(list[u]) : list'[u][i] = list[u][h]
          BY <3>1
        <4>2. PICK k \in 1 .. Len(list[v]) : list'[v][j] = list[v][k]
          BY <3>1
        <4>3. u = v /\ h = k
          BY <1>2, <2>3, <4>1, <4>2 DEF Owned
        <4>4. list'[u][i].socket = list'[u][j].socket
          BY <4>1, <4>2, <4>3
        <4>. QED
          BY <1>21, <2>3, <4>3, <4>4 DEF Listed, Ordered
      <3>2. CASE u = w /\ i = Len(d) + 1 /\ list'[u][i].conn = sock[s].conn
        BY <1>16, <2>1, <2>3, <3>2
      <3>3. CASE v = w /\ j = Len(d) + 1 /\ list'[v][j].conn = sock[s].conn
        BY <1>16, <2>1, <2>3, <3>3
      <3>. QED
        BY <2>1, <3>1, <3>2, <3>3
    <2>4. ASSUME NEW q \in Socks, Pending(q)', NEW v \in Threads, NEW i \in 1 .. Len(list'[v])
          PROVE  list'[v][i].conn # sock'[q].conn
      <3>1. /\ Pending(q) /\ sock'[q].conn = sock[q].conn /\ sock[q].conn # sock[s].conn
        BY <1>17, <2>4
      <3>2. CASE \E k \in 1 .. Len(list[v]) : list'[v][i] = list[v][k]
        BY <1>2, <3>1, <3>2 DEF Owned
      <3>3. CASE list'[v][i].conn = sock[s].conn
        BY <3>1, <3>3
      <3>. QED
        BY <2>1, <3>2, <3>3
    <2>. QED
      BY <2>2, <2>3, <2>4 DEF Owned
  <1>25. Opened'
    <2>1. Holds(r, s, sock[s].conn)
      <3>1. Len(d) + 1 \in 1 .. Len(r)
        BY <1>10
      <3>. QED
        BY <1>9, <1>10, <3>1 DEF Holds
    <2>2. ASSUME NEW q \in Socks, sock[q].ws, q # s
          PROVE  sock[q].worker \in Workers /\ Holds(list'[sock[q].worker], q, sock[q].conn)
      <3>1. /\ sock[q].worker \in Workers /\ sock[q].worker \in Threads
            /\ Holds(list[sock[q].worker], q, sock[q].conn)
        BY <1>2, <2>2 DEF Opened, Threads
      <3>2. CASE sock[q].worker = w
        <4>1. PICK k \in 1 .. Len(l) : l[k].socket = q /\ l[k].conn = sock[q].conn
          BY <1>3, <3>1, <3>2 DEF Holds
        <4>2. PICK i \in 1 .. Len(d) : d[i] = l[k]
          BY <1>8, <2>2, <4>1 DEF Cut
        <4>3. i \in 1 .. Len(r) /\ r[i] = d[i]
          BY <1>10
        <4>. QED
          BY <1>18, <3>2, <4>1, <4>2, <4>3 DEF Holds
      <3>3. CASE sock[q].worker # w
        BY <1>18, <3>1, <3>3
      <3>. QED
        BY <3>2, <3>3
    <2>. QED
      BY <1>15, <1>18, <2>1, <2>2 DEF Opened
  <1>. QED
    BY <1>21, <1>22, <1>23, <1>24, <1>25 DEF WsIInv

(***************************************************************************)
(* The broadcast: one thread writes to the pipes, one per worker reads     *)
(* from its own and walks the list.                                        *)
(***************************************************************************)
(* What the sockets, the lists and what was written say stays true while   *)
(* none of them changes.                                                   *)
LEMMA RestStays ==
  ASSUME WsIInv, UNCHANGED <<sock, conns, list, nodes, pipeof, count, sent, twice>>,
         msgs \in Nat, msgs' \in Nat, msgs <= msgs'
  PROVE  PipesApart' /\ Numbered' /\ Owned' /\ Sents' /\ Opened'
  <1>1. PipesApart' /\ Numbered' /\ Opened'
    BY DEF WsIInv, PipesApart, Numbered, Opened
  <1>2. Owned'
    BY DEF WsIInv, Owned, Pending
  <1>3. Sents'
    <2>1. \A d \in sent : d[2] \in Nat /\ d[2] <= msgs
      BY DEF WsIInv, WsTyped, Sents
    <2>2. \A d \in sent : d[2] <= msgs'
      BY <2>1
    <2>. QED
      BY <2>2 DEF WsIInv, Sents, Pending
  <1>. QED
    BY <1>1, <1>2, <1>3

(* A frame with a new number is handed to the loop over the pipes.         *)
LEMMA BroadcastBegins ==
  ASSUME WsIInv, NEW c \in Threads, NEW src \in Nat, NEW ch \in Channels,
         ~Calling(c), ws_broadcast(c, src, ch),
         UNCHANGED <<sock, conns, list, nodes, pipeof, count, pipe, walk, sent, twice>>
  PROVE  WsIInv'
  <1>1. /\ msgs' = msgs + 1
        /\ call' = [call EXCEPT ![c] = [frame |-> Frame(msgs + 1, src, ch), next |-> 1]]
        /\ UNCHANGED <<sock, conns, list, nodes, pipeof, count, pipe, walk, sent, twice>>
    BY DEF ws_broadcast
  <1>2. /\ WsTyped /\ Listed /\ Sents /\ Known /\ Calls /\ Queued /\ Walks
    BY DEF WsIInv
  <1>3. /\ msgs \in Nat /\ call \in [Threads -> [frame : FrameRec, next : Nat]]
        /\ pipe \in [Pipes -> Seq(FrameRec)] /\ sent \in SUBSET (Nat \X Nat)
        /\ walk \in [Threads -> [frame : FrameRec, at : Int]]
    BY <1>2 DEF WsTyped
  <1>4. PICK f : f = Frame(msgs + 1, src, ch)
    OBVIOUS
  <1>5. f \in FrameRec /\ f.id = msgs + 1
    BY <1>3, <1>4 DEF Frame, FrameRec
  <1>6. /\ call'[c].frame = f /\ call'[c].next = 1 /\ msgs' \in Nat /\ msgs <= msgs'
        /\ \A e \in Threads : e # c => call'[e] = call[e]
        /\ call' \in [Threads -> [frame : FrameRec, next : Nat]]
    BY <1>1, <1>3, <1>4, <1>5
  <1>7. WsTyped'
    BY <1>1, <1>2, <1>6 DEF WsTyped
  <1>8. PipesApart' /\ Numbered' /\ Owned' /\ Sents' /\ Opened'
    BY <1>1, <1>3, <1>6, RestStays
  <1>9. Listed'
    BY <1>1, <1>2 DEF Listed, Started
  <1>10. Known'
    <2>1. \A x \in Nat : x <= msgs => x <= msgs'
      BY <1>1, <1>3
    <2>2. \A t \in Threads : walk[t].frame.id \in Nat
      BY <1>3 DEF FrameRec
    <2>3. \A t \in Threads : walk[t].frame.id <= msgs'
      BY <1>2, <2>1, <2>2 DEF Known
    <2>. QED
      BY <1>1, <1>2, <2>1, <2>3 DEF Known
  <1>11. Queued' /\ Walks'
    <2>1. Queued'
      BY <1>1, <1>2 DEF Queued, HasPipe, Met, Got, Walking
    <2>2. Walks'
      BY <1>1, <1>2 DEF Walks, Walking
    <2>. QED
      BY <2>1, <2>2
  \* The number is new: nothing has met it.
  <1>12. \A p \in Pipes : ~In(f.id, pipe[p])
    BY <1>2, <1>3, <1>5 DEF Known
  <1>13. \A t \in Threads : ~Met(t, f.id)
    <2>1. \A y : <<y, f.id>> \notin sent
      <3>1. ASSUME NEW y, <<y, f.id>> \in sent
            PROVE  FALSE
        <4>1. <<y, f.id>>[2] <= msgs
          BY <1>2, <3>1 DEF Sents
        <4>2. f.id <= msgs
          BY <4>1
        <4>. QED
          BY <1>3, <1>5, <4>2
      <3>. QED
        BY <3>1
    <2>2. \A t \in Threads : walk[t].frame.id # f.id
      <3>1. \A t \in Threads : walk[t].frame.id <= msgs /\ walk[t].frame.id \in Nat
        BY <1>2, <1>3 DEF Known, FrameRec
      <3>. QED
        BY <1>3, <1>5, <3>1
    <2>. QED
      BY <2>1, <2>2 DEF Met, Got
  <1>14. \A e \in Threads : e # c => /\ Calling(e)' <=> Calling(e)
                                     /\ call'[e] = call[e]
    BY <1>6 DEF Calling
  <1>15. \A e \in Threads : Calling(e) => call[e].frame.id # f.id
    <2>1. \A e \in Threads : Calling(e) => call[e].frame.id <= msgs /\ call[e].frame.id \in Nat
      BY <1>2, <1>3 DEF Calls, FrameRec
    <2>. QED
      BY <1>3, <1>5, <2>1
  <1>16. \A w \in Threads : \A x : Met(w, x)' <=> Met(w, x)
    BY <1>1 DEF Met, Got, Walking
  <1>17. Calls'
    <2>1. 1 \in Pipes
      <3>1. Cardinality(Workers) \in Nat /\ Cardinality(Workers) # 0
        BY FS_CardinalityType, FS_EmptySet, WebSocketAssumption
      <3>. QED
        BY <3>1 DEF Pipes
    <2>2. \A e \in Threads : Calling(e)' => call'[e].frame.id <= msgs' /\ call'[e].next \in Pipes
      <3>1. ASSUME NEW e \in Threads, e # c, Calling(e)'
            PROVE  call'[e].frame.id <= msgs' /\ call'[e].next \in Pipes
        <4>1. call[e].frame.id <= msgs /\ call[e].next \in Pipes /\ call[e].frame.id \in Nat
          BY <1>2, <1>3, <1>14, <3>1 DEF Calls, FrameRec
        <4>. QED
          BY <1>1, <1>3, <1>14, <3>1, <4>1
      <3>2. call'[c].frame.id <= msgs' /\ call'[c].next \in Pipes
        BY <1>1, <1>3, <1>5, <1>6, <2>1
      <3>. QED
        BY <3>1, <3>2
    <2>3. ASSUME NEW e \in Threads, NEW d \in Threads, Calling(e)', Calling(d)',
                 call'[e].frame.id = call'[d].frame.id
          PROVE  e = d
      <3>1. CASE e # c /\ d # c
        BY <1>2, <1>14, <2>3, <3>1 DEF Calls
      <3>2. CASE e # c /\ d = c
        BY <1>6, <1>14, <1>15, <2>3, <3>2
      <3>3. CASE e = c /\ d # c
        BY <1>6, <1>14, <1>15, <2>3, <3>3
      <3>. QED
        BY <3>1, <3>2, <3>3
    <2>4. ASSUME NEW e \in Threads, NEW p \in Pipes, Calling(e)', call'[e].next <= p
          PROVE  ~In(call'[e].frame.id, pipe'[p])
      <3>1. CASE e = c
        BY <1>1, <1>6, <1>12, <3>1
      <3>2. CASE e # c
        BY <1>1, <1>2, <1>14, <2>4, <3>2 DEF Calls
      <3>. QED
        BY <3>1, <3>2
    <2>5. ASSUME NEW e \in Threads, NEW w \in Threads, Calling(e)', Started(w)',
                 call'[e].next <= pipeof'[w]
          PROVE  ~Met(w, call[e].frame.id)'
      <3>1. PICK x : x = call'[e].frame.id
        OBVIOUS
      <3>2. ~Met(w, x)
        <4>1. CASE e = c
          BY <1>6, <1>13, <3>1, <4>1
        <4>2. CASE e # c
          BY <1>1, <1>2, <1>14, <2>5, <3>1, <4>2 DEF Calls, Started
        <4>. QED
          BY <4>1, <4>2
      <3>3. ~Met(w, x)'
        BY <1>16, <3>2
      <3>. QED
        BY <3>1, <3>3
    <2>. QED
      BY <2>2, <2>3, <2>4, <2>5 DEF Calls
  <1>. QED
    BY <1>7, <1>8, <1>9, <1>10, <1>11, <1>17 DEF WsIInv


(* One write: the frame is at the end of the next pipe.                    *)
LEMMA WriteKeeps ==
  ASSUME WsIInv, NEW c \in Threads, BroadcastWrite(c)
  PROVE  WsIInv'
  <1>1. PICK f, p : f = call[c].frame /\ p = call[c].next
    OBVIOUS
  <1>2. /\ Calling(c) /\ pipe' = [pipe EXCEPT ![p] = Append(@, f)]
        /\ call' = [call EXCEPT ![c] = IF p + 1 \in Pipes THEN [@ EXCEPT !.next = p + 1] ELSE NoCall]
        /\ UNCHANGED <<sock, conns, list, nodes, msgs, pipeof, count, walk, sent, twice>>
    BY <1>1 DEF BroadcastWrite, Calling, net, reqs, threads
  <1>3. WsTyped /\ Listed /\ Known /\ Calls /\ Queued /\ Walks
    BY DEF WsIInv
  <1>4. /\ msgs \in Nat /\ call \in [Threads -> [frame : FrameRec, next : Nat]]
        /\ pipe \in [Pipes -> Seq(FrameRec)]
    BY <1>3 DEF WsTyped
  <1>5. /\ f \in FrameRec /\ f.id \in Nat /\ f.id <= msgs /\ p \in Pipes /\ p \in Nat
        /\ ~In(f.id, pipe[p])
    BY <1>1, <1>2, <1>3, <1>4 DEF Calls, FrameRec
  <1>6. /\ pipe'[p] = Append(pipe[p], f) /\ \A q \in Pipes : q # p => pipe'[q] = pipe[q]
        /\ pipe' \in [Pipes -> Seq(FrameRec)]
    BY <1>2, <1>4, <1>5
  <1>7. \A x : \A q \in Pipes : In(x, pipe'[q]) <=> In(x, pipe[q]) \/ (q = p /\ x = f.id)
    <2>1. \A x : In(x, pipe'[p]) <=> In(x, pipe[p]) \/ f.id = x
      BY <1>4, <1>5, <1>6, InAppend
    <2>. QED
      BY <1>6, <2>1
  <1>8. \A e \in Threads : e # c => call'[e] = call[e] /\ (Calling(e)' <=> Calling(e))
    BY <1>2, <1>4 DEF Calling
  <1>9. Calling(c)' => call'[c].frame = f /\ call'[c].next = p + 1 /\ p + 1 \in Pipes
    BY <1>1, <1>2, <1>4 DEF Calling
  <1>10. WsTyped'
    <2>1. NoCall \in [frame : FrameRec, next : Nat]
      BY DEF NoCall, NoFrame, Frame, FrameRec
    <2>2. [call[c] EXCEPT !.next = p + 1] \in [frame : FrameRec, next : Nat]
      <3>1. p + 1 \in Nat /\ call[c] \in [frame : FrameRec, next : Nat]
        BY <1>4, <1>5
      <3>. QED
        BY <3>1
    <2>3. call' \in [Threads -> [frame : FrameRec, next : Nat]]
      BY <1>2, <1>4, <2>1, <2>2
    <2>. QED
      BY <1>2, <1>3, <1>6, <2>3 DEF WsTyped
  <1>11. PipesApart' /\ Numbered' /\ Owned' /\ Sents' /\ Opened' /\ Listed'
    <2>1. msgs' \in Nat /\ msgs <= msgs'
      BY <1>2, <1>4
    <2>2. PipesApart' /\ Numbered' /\ Owned' /\ Sents' /\ Opened'
      BY <1>2, <1>4, <2>1, RestStays
    <2>3. Listed'
      BY <1>2, <1>3 DEF Listed, Started
    <2>. QED
      BY <2>2, <2>3
  <1>12. Known'
    BY <1>2, <1>3, <1>5, <1>7 DEF Known
  <1>13. Walks'
    BY <1>2, <1>3 DEF Walks, Walking
  <1>14. \A w \in Threads : \A x : Met(w, x)' <=> Met(w, x)
    BY <1>2 DEF Met, Got, Walking
  <1>15. Queued'
    <2>1. \A q \in Pipes : Once(pipe'[q])
      <3>1. Once(pipe'[p])
        BY <1>3, <1>4, <1>5, <1>6, OnceAppend DEF Queued
      <3>. QED
        BY <1>3, <1>6, <3>1 DEF Queued
    <2>2. ASSUME NEW w \in Threads, NEW x \in Nat, HasPipe(w), In(x, pipe'[pipeof[w]])
          PROVE  ~Met(w, x)
      <3>1. pipeof[w] \in Pipes
        BY <2>2 DEF HasPipe
      <3>2. CASE In(x, pipe[pipeof[w]])
        BY <1>3, <2>2, <3>2 DEF Queued
      <3>3. CASE pipeof[w] = p /\ x = f.id
        <4>1. call[c].next <= pipeof[w]
          BY <1>1, <1>5, <3>3
        <4>2. Started(w)
          BY <3>1 DEF Started, Pipes
        <4>. QED
          BY <1>1, <1>2, <1>3, <2>2, <3>3, <4>1, <4>2 DEF Calls
      <3>. QED
        BY <1>7, <2>2, <3>1, <3>2, <3>3
    <2>. QED
      BY <1>2, <1>14, <2>1, <2>2 DEF Queued, HasPipe
  <1>16. Calls'
    <2>1. \A e \in Threads : Calling(e)' => Calling(e) /\ call'[e].frame = call[e].frame
      BY <1>1, <1>2, <1>8, <1>9
    <2>2. \A e \in Threads : Calling(e)' => call'[e].frame.id <= msgs' /\ call'[e].next \in Pipes
      BY <1>2, <1>3, <1>5, <1>8, <1>9 DEF Calls
    <2>3. \A e, d \in Threads :
             Calling(e)' /\ Calling(d)' /\ call'[e].frame.id = call'[d].frame.id => e = d
      BY <1>3, <2>1 DEF Calls
    <2>4. \A e \in Threads : call[e].next \in Nat
      BY <1>4
    <2>5. \A e \in Threads : \A q \in Nat :
             Calling(e)' /\ call'[e].next <= q => call[e].next <= q /\ (e = c => q # p)
      BY <1>1, <1>5, <1>8, <1>9, <2>4
    <2>6. ASSUME NEW e \in Threads, NEW q \in Pipes, Calling(e)', call'[e].next <= q
          PROVE  ~In(call'[e].frame.id, pipe'[q])
      <3>1. q \in Nat
        BY DEF Pipes
      <3>2. ~In(call[e].frame.id, pipe[q])
        BY <1>3, <2>1, <2>5, <2>6, <3>1 DEF Calls
      <3>3. q = p => call[e].frame.id # f.id
        BY <1>1, <1>2, <1>3, <2>1, <2>5, <2>6, <3>1 DEF Calls
      <3>. QED
        BY <1>7, <2>1, <2>6, <3>2, <3>3
    <2>7. ASSUME NEW e \in Threads, NEW w \in Threads, Calling(e)', Started(w)',
                 call'[e].next <= pipeof'[w]
          PROVE  ~Met(w, call[e].frame.id)'
      <3>1. PICK x : x = call[e].frame.id
        OBVIOUS
      <3>2. pipeof[w] \in Nat /\ Started(w) /\ call'[e].next <= pipeof[w]
        BY <1>2, <1>3, <2>7 DEF WsTyped, Started
      <3>3. call[e].next <= pipeof[w]
        BY <2>5, <2>7, <3>2
      <3>4. ~Met(w, x)
        BY <1>3, <2>1, <2>7, <3>1, <3>2, <3>3 DEF Calls
      <3>5. ~Met(w, x)'
        BY <1>14, <3>4
      <3>6. x = call'[e].frame.id
        BY <2>1, <2>7, <3>1
      <3>. QED
        BY <3>5, <3>6
    <2>. QED
      BY <2>2, <2>3, <2>6, <2>7 DEF Calls
  <1>. QED
    BY <1>10, <1>11, <1>12, <1>13, <1>15, <1>16 DEF WsIInv

(* A broadcast thread takes the next frame and is at the first node.       *)
LEMMA ReadKeeps ==
  ASSUME WsIInv, NEW w \in Threads, BroadcastRead(w)
  PROVE  WsIInv'
  <1>1. PICK p, q, h, l : p = pipeof[w] /\ q = pipe[p] /\ h = Head(q) /\ l = list[w]
    OBVIOUS
  <1>2. /\ HasPipe(w) /\ walk[w] = Idle /\ q # <<>>
        /\ pipe' = [pipe EXCEPT ![p] = Tail(@)]
        /\ walk' = [walk EXCEPT ![w] = Taken(l, h)]
        /\ UNCHANGED <<sock, conns, list, nodes, msgs, pipeof, count, call, sent, twice>>
    BY <1>1 DEF BroadcastRead, net, reqs, threads, seen
  <1>3. WsTyped /\ Listed /\ Known /\ Calls /\ Queued /\ Walks
    BY DEF WsIInv
  <1>4. /\ pipe \in [Pipes -> Seq(FrameRec)] /\ l \in Seq(NodeRec) /\ msgs \in Nat
        /\ walk \in [Threads -> [frame : FrameRec, at : Int]]
        /\ call \in [Threads -> [frame : FrameRec, next : Nat]]
    BY <1>1, <1>3 DEF WsTyped
  <1>5. p \in Pipes /\ Started(w)
    BY <1>1, <1>2 DEF HasPipe, Started, Pipes
  <1>6. q \in Seq(FrameRec) /\ Once(q)
    BY <1>1, <1>3, <1>4, <1>5 DEF Queued
  <1>7. /\ Tail(q) \in Seq(FrameRec) /\ h \in FrameRec /\ Once(Tail(q))
        /\ In(h.id, q) /\ ~In(h.id, Tail(q)) /\ \A x : In(x, Tail(q)) => In(x, q)
    BY <1>1, <1>2, <1>6, OnceTail
  <1>8. h.id \in Nat
    BY <1>7 DEF FrameRec
  <1>9. /\ pipe'[p] = Tail(q) /\ \A r \in Pipes : r # p => pipe'[r] = pipe[r]
        /\ pipe' \in [Pipes -> Seq(FrameRec)]
    BY <1>1, <1>2, <1>4, <1>5, <1>7
  <1>10. \A r \in Pipes : \A x : In(x, pipe'[r]) => In(x, pipe[r])
    BY <1>1, <1>7, <1>9
  <1>11. Idle \in [frame : FrameRec, at : Int] /\ Idle.frame.id = 0
    BY DEF Idle, NoFrame, Frame, FrameRec
  <1>12. Taken(l, h) \in [frame : FrameRec, at : Int]
    <2>1. CASE l = <<>>
      BY <1>11, <2>1 DEF Taken
    <2>2. CASE l # <<>>
      <3>1. l[1] \in NodeRec
        BY <1>4, <2>2
      <3>2. First(l) \in Int
        BY <2>2, <3>1 DEF First, NodeRec
      <3>. QED
        BY <1>7, <2>2, <3>2 DEF Taken
    <2>. QED
      BY <2>1, <2>2
  <1>13. /\ walk'[w] = Taken(l, h) /\ \A v \in Threads : v # w => walk'[v] = walk[v]
         /\ walk' \in [Threads -> [frame : FrameRec, at : Int]]
    BY <1>2, <1>4, <1>12
  <1>14. Taken(l, h).frame \in {NoFrame, h} /\ (Taken(l, h) # Idle => Taken(l, h).frame = h)
    BY DEF Taken, Idle
  <1>15. WsTyped'
    BY <1>2, <1>3, <1>9, <1>13 DEF WsTyped
  <1>16. PipesApart' /\ Numbered' /\ Owned' /\ Sents' /\ Opened' /\ Listed'
    <2>1. msgs' \in Nat /\ msgs <= msgs'
      BY <1>2, <1>4
    <2>2. PipesApart' /\ Numbered' /\ Owned' /\ Sents' /\ Opened'
      BY <1>2, <1>4, <2>1, RestStays
    <2>3. \A v \in Threads : ~Started(v)' => list'[v] = <<>> /\ walk'[v] = Idle
      BY <1>2, <1>3, <1>5, <1>13 DEF Listed, Started
    <2>4. Listed'
      BY <1>2, <1>3, <2>3 DEF Listed
    <2>. QED
      BY <2>2, <2>4
  <1>17. Known'
    <2>1. h.id <= msgs
      BY <1>1, <1>3, <1>5, <1>7, <1>8 DEF Known
    <2>2. \A v \in Threads : walk'[v].frame.id <= msgs'
      <3>1. NoFrame.id = 0
        BY DEF NoFrame, Frame
      <3>2. walk'[w].frame.id <= msgs
        BY <1>4, <1>13, <1>14, <2>1, <3>1
      <3>. QED
        BY <1>2, <1>3, <1>13, <3>2 DEF Known
    <2>. QED
      BY <1>2, <1>3, <1>10, <2>2 DEF Known
  <1>18. \A v \in Threads : \A x : Met(v, x)' => Met(v, x) \/ (v = w /\ x = h.id)
    BY <1>2, <1>13, <1>14 DEF Met, Got, Walking
  <1>19. Queued'
    <2>1. \A r \in Pipes : Once(pipe'[r])
      BY <1>3, <1>7, <1>9 DEF Queued
    <2>2. ASSUME NEW v \in Threads, NEW x \in Nat, HasPipe(v), In(x, pipe'[pipeof[v]])
          PROVE  ~Met(v, x)'
      <3>1. pipeof[v] \in Pipes
        BY <2>2 DEF HasPipe
      <3>2. ~Met(v, x)
        BY <1>3, <1>10, <2>2, <3>1 DEF Queued
      <3>3. v = w => x # h.id
        BY <1>1, <1>7, <1>9, <2>2
      <3>. QED
        BY <1>18, <3>2, <3>3
    <2>. QED
      BY <1>2, <2>1, <2>2 DEF Queued, HasPipe
  <1>20. Calls'
    <2>1. \A e \in Threads : \A r \in Pipes :
             Calling(e) /\ call[e].next <= r => ~In(call[e].frame.id, pipe'[r])
      BY <1>3, <1>10 DEF Calls
    <2>2. ASSUME NEW e \in Threads, NEW v \in Threads, Calling(e), Started(v),
                 call[e].next <= pipeof[v]
          PROVE  ~Met(v, call[e].frame.id)'
      <3>1. PICK x : x = call[e].frame.id
        OBVIOUS
      <3>2. ~Met(v, x)
        BY <1>3, <2>2, <3>1 DEF Calls
      <3>3. v = w => x # h.id
        BY <1>1, <1>3, <1>5, <1>7, <2>2, <3>1 DEF Calls
      <3>4. ~Met(v, x)'
        BY <1>18, <3>2, <3>3
      <3>. QED
        BY <1>2, <3>1, <3>4
    <2>. QED
      BY <1>2, <1>3, <2>1, <2>2 DEF Calls, Calling, Started
  <1>21. Walks'
    <2>1. ~Met(w, h.id)
      BY <1>1, <1>2, <1>3, <1>7, <1>8 DEF Queued
    <2>2. ASSUME NEW v \in Threads, Walking(v)', walk'[v].at >= 0, NEW i \in 1 .. Len(list[v]),
                 list[v][i].id >= walk'[v].at
          PROVE  <<list[v][i].conn, walk'[v].frame.id>> \notin sent
      <3>1. CASE v = w
        <4>1. walk'[v].frame = h
          BY <1>13, <1>14, <2>2, <3>1 DEF Walking
        <4>. QED
          BY <2>1, <2>2, <3>1, <4>1 DEF Met, Got
      <3>2. CASE v # w
        BY <1>3, <1>13, <2>2, <3>2 DEF Walks, Walking
      <3>. QED
        BY <3>1, <3>2
    <2>. QED
      BY <1>2, <2>2 DEF Walks
  <1>. QED
    BY <1>15, <1>16, <1>17, <1>19, <1>20, <1>21 DEF WsIInv

(* A walking thread moves on, and may have written its frame to the        *)
(* connection of a node in its list.                                       *)
LEMMA WalkMoves ==
  ASSUME WsIInv, NEW t \in Threads, NEW f, NEW c, NEW k, NEW z, Walking(t), f = walk[t].frame,
         \/ sent' = sent
         \/ k \in 1 .. Len(list[t]) /\ c = list[t][k].conn /\ sent' = sent \cup {<<c, f.id>>},
         ~twice', walk' = [walk EXCEPT ![t] = z],
         z \in [frame : FrameRec, at : Int], z = Idle \/ z.frame = f,
         z # Idle /\ z.at >= 0 => \A i \in 1 .. Len(list[t]) :
             list[t][i].id >= z.at => <<list[t][i].conn, f.id>> \notin sent',
         UNCHANGED <<sock, conns, list, nodes, msgs, pipeof, count, pipe, call>>
  PROVE  WsIInv'
  <1>1. UNCHANGED <<sock, conns, list, nodes, msgs, pipeof, count, pipe, call>>
    OBVIOUS
  <1>2. /\ WsTyped /\ PipesApart /\ Listed /\ Numbered /\ Owned /\ Sents /\ Opened
        /\ Known /\ Calls /\ Queued /\ Walks
    BY DEF WsIInv
  <1>3. /\ msgs \in Nat /\ sent \in SUBSET (Nat \X Nat) /\ list \in [Threads -> Seq(NodeRec)]
        /\ walk \in [Threads -> [frame : FrameRec, at : Int]] /\ f \in FrameRec
    BY <1>2 DEF WsTyped
  <1>4. f.id \in Nat /\ f.id <= msgs
    BY <1>2, <1>3 DEF Known, FrameRec
  <1>5. /\ walk'[t] = z /\ \A v \in Threads : v # t => walk'[v] = walk[v]
        /\ walk' \in [Threads -> [frame : FrameRec, at : Int]]
    BY <1>3
  \* A pair that is new is that of the node.
  <1>6. \A d \in sent' : d \in sent \/ (/\ d = <<c, f.id>> /\ k \in 1 .. Len(list[t])
                                        /\ c = list[t][k].conn)
    OBVIOUS
  <1>7. k \in 1 .. Len(list[t]) /\ c = list[t][k].conn =>
           /\ c \in Nat /\ c <= conns
           /\ \A s \in Socks : Pending(s) => c # sock[s].conn
           /\ \A v \in Threads : \A i \in 1 .. Len(list[v]) : list[v][i].conn = c => v = t
    <2>1. SUFFICES ASSUME k \in 1 .. Len(list[t]), c = list[t][k].conn
                   PROVE  /\ c \in Nat /\ c <= conns
                          /\ \A s \in Socks : Pending(s) => c # sock[s].conn
                          /\ \A v \in Threads : \A i \in 1 .. Len(list[v]) : list[v][i].conn = c => v = t
      OBVIOUS
    <2>2. list[t][k] \in NodeRec
      BY <1>3, <2>1
    <2>. QED
      BY <1>2, <2>1, <2>2 DEF Owned, NodeRec
  <1>8. sent' \in SUBSET (Nat \X Nat)
    BY <1>3, <1>4, <1>6, <1>7
  <1>9. WsTyped'
    BY <1>1, <1>2, <1>5, <1>8 DEF WsTyped
  <1>10. PipesApart' /\ Numbered' /\ Opened' /\ Owned'
    <2>1. PipesApart' /\ Numbered' /\ Opened'
      BY <1>1, <1>2 DEF PipesApart, Numbered, Opened
    <2>2. Owned'
      BY <1>1, <1>2 DEF Owned, Pending
    <2>. QED
      BY <2>1, <2>2
  <1>11. Sents'
    <2>1. ASSUME NEW d \in sent'
          PROVE  d[1] <= conns /\ d[2] <= msgs /\ \A s \in Socks : Pending(s) => d[1] # sock[s].conn
      <3>1. CASE d \in sent
        BY <1>2, <3>1 DEF Sents
      <3>2. CASE d \notin sent
        <4>1. d[1] = c /\ d[2] = f.id /\ k \in 1 .. Len(list[t]) /\ c = list[t][k].conn
          BY <1>6, <3>2
        <4>. QED
          BY <1>4, <1>7, <4>1
      <3>. QED
        BY <3>1, <3>2
    <2>. QED
      BY <1>1, <2>1 DEF Sents, Pending
  <1>12. Listed'
    <2>1. Started(t)
      BY <1>2 DEF Listed, Walking
    <2>2. \A v \in Threads : ~Started(v)' => list'[v] = <<>> /\ walk'[v] = Idle
      BY <1>1, <1>2, <1>5, <2>1 DEF Listed, Started
    <2>. QED
      BY <1>1, <1>2, <2>2 DEF Listed
  <1>13. Known'
    <2>1. Idle.frame.id = 0
      BY DEF Idle, NoFrame, Frame
    <2>2. walk'[t].frame.id <= msgs
      BY <1>3, <1>4, <1>5, <2>1
    <2>3. \A v \in Threads : walk'[v].frame.id <= msgs
      BY <1>2, <1>5, <2>2 DEF Known
    <2>. QED
      BY <1>1, <1>2, <2>3 DEF Known
  <1>14. \A v \in Threads : \A x : Met(v, x)' => Met(v, x)
    <2>1. ASSUME NEW v \in Threads, v # t, NEW x, Met(v, x)'
          PROVE  Met(v, x)
      <3>1. CASE Walking(v)' /\ walk'[v].frame.id = x
        BY <1>5, <2>1, <3>1 DEF Met, Walking
      <3>2. CASE Got(v, x)'
        <4>1. PICK i \in 1 .. Len(list[v]) : <<list[v][i].conn, x>> \in sent'
          BY <1>1, <3>2 DEF Got
        <4>2. <<list[v][i].conn, x>> \in sent
          BY <1>6, <1>7, <2>1, <4>1
        <4>. QED
          BY <4>2 DEF Met, Got
      <3>. QED
        BY <2>1, <3>1, <3>2 DEF Met
    <2>2. ASSUME NEW x, Met(t, x)'
          PROVE  Met(t, x)
      <3>1. CASE x = f.id
        BY <3>1 DEF Met
      <3>2. CASE x # f.id
        <4>1. Got(t, x)'
          BY <1>5, <2>2, <3>2 DEF Met, Walking
        <4>2. PICK i \in 1 .. Len(list[t]) : <<list[t][i].conn, x>> \in sent'
          BY <1>1, <4>1 DEF Got
        <4>3. <<list[t][i].conn, x>> \in sent
          BY <1>6, <3>2, <4>2
        <4>. QED
          BY <4>3 DEF Met, Got
      <3>. QED
        BY <3>1, <3>2
    <2>. QED
      BY <2>1, <2>2
  <1>15. Calls'
    <2>1. ASSUME NEW e \in Threads, NEW v \in Threads, Calling(e), Started(v),
                 call[e].next <= pipeof[v]
          PROVE  ~Met(v, call[e].frame.id)'
      <3>1. PICK x : x = call[e].frame.id
        OBVIOUS
      <3>2. ~Met(v, x)
        BY <1>2, <2>1, <3>1 DEF Calls
      <3>3. ~Met(v, x)'
        BY <1>14, <3>2
      <3>. QED
        BY <1>1, <3>1, <3>3
    <2>. QED
      BY <1>1, <1>2, <2>1 DEF Calls, Calling, Started
  <1>16. Queued'
    BY <1>1, <1>2, <1>14 DEF Queued, HasPipe
  <1>17. Walks'
    <2>1. ASSUME NEW v \in Threads, Walking(v)', walk'[v].at >= 0, NEW i \in 1 .. Len(list[v]),
                 list[v][i].id >= walk'[v].at
          PROVE  <<list[v][i].conn, walk'[v].frame.id>> \notin sent'
      <3>1. CASE v = t
        BY <1>5, <2>1, <3>1 DEF Walking
      <3>2. CASE v # t
        <4>1. walk'[v] = walk[v] /\ Walking(v)
          BY <1>5, <2>1, <3>2 DEF Walking
        <4>2. <<list[v][i].conn, walk[v].frame.id>> \notin sent
          BY <1>2, <2>1, <4>1 DEF Walks
        <4>. QED
          BY <1>6, <1>7, <3>2, <4>1, <4>2
      <3>. QED
        BY <3>1, <3>2
    <2>. QED
      BY <1>1, <2>1 DEF Walks
  <1>. QED
    BY <1>9, <1>10, <1>11, <1>12, <1>13, <1>15, <1>16, <1>17 DEF WsIInv

(* One round of the walk at a node that is there.                          *)
LEMMA StepKeeps ==
  ASSUME WsIInv, NEW t \in Threads, BroadcastStep(t)
  PROVE  WsIInv'
  <1>1. PICK l, k, f : l = list[t] /\ k = Place(t) /\ f = walk[t].frame
    OBVIOUS
  <1>2. PICK z : z = IF After(l, k) = 0 THEN Idle ELSE [walk[t] EXCEPT !.at = After(l, k)]
    OBVIOUS
  <1>3. PICK c, n, to : c = l[k].conn /\ n = l[k] /\ to = sock[n.socket]
    OBVIOUS
  <1>4. /\ WsTyped /\ Listed /\ Numbered /\ Owned /\ Sents /\ Opened /\ Walks
    BY DEF WsIInv
  <1>5. /\ l \in Seq(NodeRec) /\ sock \in [Socks -> SockRec] /\ Ordered(l)
        /\ walk \in [Threads -> [frame : FrameRec, at : Int]] /\ f \in FrameRec
    BY <1>1, <1>4 DEF WsTyped, Listed
  <1>6. /\ Walking(t) /\ k # 0 /\ walk' = [walk EXCEPT ![t] = z]
        /\ UNCHANGED <<sock, conns, list, nodes, msgs, pipeof, count, pipe, call>>
    BY <1>1, <1>2, <1>5 DEF BroadcastStep, Walking, net, reqs, threads
  <1>7. k \in 1 .. Len(l) /\ l[k].id = walk[t].at
    <2>. DEFINE I == {i \in 1 .. Len(l) : l[i].id = walk[t].at}
    <2>1. k = IF I # {} THEN Min(I) ELSE 0
      BY <1>1 DEF Place, SelectInSeq
    <2>2. Len(l) \in Nat /\ I \in SUBSET (1 .. Len(l))
      BY <1>5
    <2>3. I # {} => Min(I) \in I
      <3>. HIDE DEF I
      <3>. QED
        BY <2>2, LeastPlace
    <2>. QED
      BY <1>6, <2>1, <2>3
  <1>8. n \in NodeRec /\ n.id \in Nat /\ n.socket \in Socks /\ n.conn = c
    <2>1. n \in NodeRec
      BY <1>3, <1>5, <1>7
    <2>. QED
      BY <1>3, <2>1 DEF NodeRec
  \* The frame has not been written to the connection of the node.
  <1>9. \A i \in 1 .. Len(l) : l[i].id >= n.id => <<l[i].conn, f.id>> \notin sent
    <2>1. walk[t].at = n.id /\ walk[t].at >= 0
      BY <1>3, <1>7, <1>8
    <2>. QED
      BY <1>1, <1>4, <1>6, <2>1 DEF Walks
  <1>10. <<c, f.id>> \notin sent
    BY <1>3, <1>7, <1>8, <1>9
  \* If this thread is that of the websocket that has the descriptor, the
  \* node is that of the websocket.
  <1>11. to.ws /\ to.worker = t => to.conn = c
    <2>1. SUFFICES ASSUME to.ws, to.worker = t
                   PROVE  to.conn = c
      OBVIOUS
    <2>2. PICK j \in 1 .. Len(l) : l[j].socket = n.socket /\ l[j].conn = to.conn
      BY <1>1, <1>3, <1>4, <1>8, <2>1 DEF Opened, Holds
    <2>3. j = k
      BY <1>3, <1>5, <1>7, <2>2 DEF Ordered
    <2>. QED
      BY <1>3, <2>2, <2>3
  <1>12. /\ ~twice'
         /\ \/ sent' = sent
            \/ sent' = sent \cup {<<c, f.id>>}
    <2>1. ~twice
      BY <1>4 DEF Sents
    <2>2. CASE UNCHANGED seen
      BY <2>1, <2>2 DEF seen
    <2>3. CASE ws_write(t, n, f)
      <3>1. CASE UNCHANGED <<sent, twice>>
        BY <2>1, <3>1
      <3>2. CASE /\ to.ws /\ to.worker = t
                 /\ sent' = sent \cup {<<to.conn, f.id>>} /\ twice' = (twice \/ <<to.conn, f.id>> \in sent)
        BY <1>10, <1>11, <2>1, <3>2
      <3>. QED
        BY <1>3, <2>3, <3>1, <3>2 DEF ws_write
    <2>. QED
      BY <1>1, <1>3, <2>2, <2>3 DEF BroadcastStep
  <1>13. After(l, k) \in Int /\ (After(l, k) # 0 => After(l, k) > n.id)
    <2>1. CASE k = Len(l)
      BY <2>1 DEF After
    <2>2. CASE k # Len(l)
      <3>1. k + 1 \in 1 .. Len(l) /\ k < k + 1
        BY <1>5, <1>7, <2>2
      <3>2. l[k + 1] \in NodeRec /\ After(l, k) = l[k + 1].id
        BY <1>5, <2>2, <3>1 DEF After
      <3>3. l[k].id < l[k + 1].id
        BY <1>5, <1>7, <3>1 DEF Ordered
      <3>4. l[k + 1].id \in Nat
        BY <3>2 DEF NodeRec
      <3>. QED
        BY <1>3, <1>8, <3>2, <3>3, <3>4
    <2>. QED
      BY <2>1, <2>2
  <1>14. z \in [frame : FrameRec, at : Int] /\ (z = Idle \/ (z.frame = f /\ z.at > n.id))
    <2>1. Idle \in [frame : FrameRec, at : Int]
      BY DEF Idle, NoFrame, Frame, FrameRec
    <2>2. walk[t] \in [frame : FrameRec, at : Int]
      BY <1>5
    <2>. QED
      BY <1>1, <1>2, <1>13, <2>1, <2>2
  <1>15. z # Idle => \A i \in 1 .. Len(l) : l[i].id >= z.at => <<l[i].conn, f.id>> \notin sent'
    <2>1. SUFFICES ASSUME z # Idle, NEW i \in 1 .. Len(l), l[i].id >= z.at
                   PROVE  <<l[i].conn, f.id>> \notin sent'
      OBVIOUS
    <2>2. l[i] \in NodeRec /\ l[i].id \in Nat
      <3>1. l[i] \in NodeRec
        BY <1>5
      <3>. QED
        BY <3>1 DEF NodeRec
    <2>3. l[i].id > n.id
      BY <1>8, <1>14, <2>1, <2>2
    <2>4. <<l[i].conn, f.id>> \notin sent
      BY <1>8, <1>9, <2>2, <2>3
    <2>5. i # k
      BY <1>3, <1>8, <2>2, <2>3
    <2>6. l[i].conn # c
      BY <1>1, <1>3, <1>4, <1>7, <2>5 DEF Owned
    <2>. QED
      BY <1>12, <2>4, <2>6
  <1>16. \/ sent' = sent
         \/ k \in 1 .. Len(list[t]) /\ c = list[t][k].conn /\ sent' = sent \cup {<<c, f.id>>}
    BY <1>1, <1>3, <1>7, <1>12
  <1>17. z # Idle /\ z.at >= 0 => \A i \in 1 .. Len(list[t]) :
            list[t][i].id >= z.at => <<list[t][i].conn, f.id>> \notin sent'
    BY <1>1, <1>15
  <1>. QED
    BY <1>1, <1>6, <1>12, <1>14, <1>16, <1>17, WalkMoves

(* The node was freed: the walk ends, is astray, or the process is gone.   *)
LEMMA StrayKeeps ==
  ASSUME WsIInv, NEW t \in Threads, BroadcastStray(t)
  PROVE  WsIInv'
  <1>1. CASE Crash
    BY <1>1, CrashKeeps
  <1>2. CASE ~Crash
    <2>1. PICK f : f = walk[t].frame
      OBVIOUS
    <2>2. /\ Walking(t) /\ sent' = sent /\ twice' = twice
          /\ walk' \in {[walk EXCEPT ![t] = Idle], [walk EXCEPT ![t] = Astray(f)]}
          /\ UNCHANGED <<sock, conns, list, nodes, msgs, pipeof, count, pipe, call>>
      <3>1. walk \in [Threads -> [frame : FrameRec, at : Int]]
        BY DEF WsIInv, WsTyped
      <3>. QED
        BY <1>2, <2>1, <3>1 DEF BroadcastStray, Walking, net, reqs, threads
    <2>3. /\ Idle \in [frame : FrameRec, at : Int]
          /\ Astray(f) \in [frame : FrameRec, at : Int] /\ Astray(f).frame = f /\ ~(Astray(f).at >= 0)
      <3>1. f \in FrameRec
        BY <2>1 DEF WsIInv, WsTyped
      <3>. QED
        BY <3>1 DEF Idle, Astray, NoFrame, Frame, FrameRec
    <2>4. ~twice'
      BY <2>2 DEF WsIInv, Sents
    <2>5. PICK z \in {Idle, Astray(f)} : walk' = [walk EXCEPT ![t] = z]
      BY <2>2
    <2>6. /\ z \in [frame : FrameRec, at : Int] /\ (z = Idle \/ z.frame = f)
          /\ ~(z # Idle /\ z.at >= 0)
      BY <2>3, <2>5
    <2>. QED
      BY <2>1, <2>2, <2>4, <2>5, <2>6, WalkMoves
  <1>. QED
    BY <1>1, <1>2

(***************************************************************************)
(* The invariant and the properties.                                       *)
(***************************************************************************)
LEMMA WsStepKeeps ==
  ASSUME WsIInv, [Next]_vars
  PROVE  WsIInv'
  <1>1. ASSUME NEW t \in Threads, cb_request_list_init(t)
        PROVE  WsIInv'
    BY <1>1, StartKeeps
  <1>2. ASSUME NEW t \in Threads, NoThreadInfo(t) \/ NoPipe(t)
        PROVE  WsIInv'
    BY <1>2, CrashKeeps DEF NoThreadInfo, NoPipe
  <1>3. ASSUME NEW t \in Threads, BroadcastRead(t) \/ BroadcastStep(t) \/ BroadcastStray(t)
        PROVE  WsIInv'
    BY <1>3, ReadKeeps, StepKeeps, StrayKeeps
  <1>4. ASSUME NEW w \in Workers, NEW s \in Socks, Accept(w, s)
        PROVE  WsIInv'
    BY <1>4, AcceptKeeps
  <1>5. ASSUME NEW w \in Workers, NEW s \in Socks, HandshakeRefused(w, s)
        PROVE  WsIInv'
    BY <1>5, RefusedKeeps
  <1>6. ASSUME NEW w \in Workers, NEW s \in Socks, cb_ws_read(w, s)
        PROVE  WsIInv'
    <2>1. /\ ~Calling(w) /\ w \in Threads /\ s \in Nat
          /\ UNCHANGED <<conns, list, nodes, pipeof, count, pipe, walk>>
      BY <1>6, WebSocketAssumption DEF cb_ws_read, Free, Calling, Threads, reqs, threads
    <2>2. ASSUME NEW ch \in Channels, ws_broadcast(w, s, ch), UNCHANGED <<sock, seen>>
          PROVE  WsIInv'
      <3>1. UNCHANGED <<sock, conns, list, nodes, pipeof, count, pipe, walk, sent, twice>>
        BY <2>1, <2>2 DEF seen
      <3>. QED
        BY <2>1, <2>2, <3>1, BroadcastBegins
    <2>3. ASSUME Leaves(s), UNCHANGED <<msgs, call>>
          PROVE  WsIInv'
      <3>1. UNCHANGED <<conns, list, nodes, msgs, pipeof, count, pipe, call, walk>>
        BY <2>1, <2>3
      <3>. QED
        BY <2>3, <3>1, CloseKeeps
    <2>. QED
      BY <1>6, <2>2, <2>3 DEF cb_ws_read
  <1>7. ASSUME NEW w \in Workers, NEW s \in Socks, NEW ch \in Rooms, ws_handshake(w, s, ch)
        PROVE  WsIInv'
    BY <1>7, HandshakeKeeps
  <1>8. ASSUME NEW s \in Socks, Hangup(s)
        PROVE  WsIInv'
    BY <1>8, CloseKeeps DEF Hangup, reqs, threads
  <1>9. ASSUME NEW t \in Spawned, NEW ch \in Channels, ws_broadcast_all(t, ch)
        PROVE  WsIInv'
    <2>1. /\ t \in Threads /\ ~Calling(t) /\ ws_broadcast(t, 0, ch) /\ 0 \in Nat
          /\ UNCHANGED <<sock, conns, list, nodes, pipeof, count, pipe, walk, sent, twice>>
      BY <1>9 DEF ws_broadcast_all, Free, Calling, Threads, net, reqs, threads, seen
    <2>. QED
      BY <2>1, BroadcastBegins
  <1>10. ASSUME NEW t \in Threads, BroadcastWrite(t)
         PROVE  WsIInv'
    BY <1>10, WriteKeeps
  <1>11. CASE UNCHANGED vars
    <2>1. /\ sock' \in [Socks -> SockRec] /\ conns' \in Nat /\ sent' \subseteq sent
          /\ UNCHANGED <<list, nodes, msgs, pipeof, count, pipe, call, walk, twice>>
      BY <1>11 DEF vars, net, reqs, threads, seen, WsIInv, WsTyped
    <2>2. Numbered' /\ Owned' /\ Sents' /\ Opened'
      <3>1. UNCHANGED <<sock, conns, list, msgs, sent, twice>>
        BY <1>11 DEF vars, net, reqs, threads, seen
      <3>. QED
        BY <3>1 DEF WsIInv, Numbered, Owned, Sents, Opened, Pending
    <2>. QED
      BY <2>1, <2>2, SocketsChange
  <1>. QED
    BY <1>1, <1>2, <1>3, <1>4, <1>5, <1>6, <1>7, <1>8, <1>9, <1>10, <1>11 DEF Next, Broadcaster

(* The sockets, the nodes, the pipes, the walks and what was written agree *)
(* in every state (request.c, broadcast.c, websocket.c).                   *)
THEOREM WsInvariant == Spec => []WsIInv
  <1>1. Init => WsIInv
    BY BlankIsFine DEF Init, Blank
  <1>2. WsIInv /\ [Next]_vars => WsIInv'
    BY WsStepKeeps
  <1>. QED
    BY <1>1, <1>2, PTL DEF Spec

(* The events of an open websocket find its own node, whoever had the      *)
(* descriptor before (ws_handshake in websocket.c, ws_request_get in       *)
(* request.c).                                                             *)
THEOREM WsOpenFinds == Spec => []OpenFindsItsNode
  <1>1. WsIInv => OpenFindsItsNode
    <2>1. ASSUME WsIInv, NEW s \in Socks, sock[s].ws,
                 NEW l, l = list[sock[s].worker], NEW g, g = ws_request_get(l, s)
          PROVE  g # 0 /\ l[g].conn = sock[s].conn
      <3>1. sock[s].worker \in Threads /\ Holds(l, s, sock[s].conn) /\ Ordered(l) /\ l \in Seq(NodeRec)
        BY <2>1 DEF WsIInv, Opened, Listed, WsTyped, Threads
      <3>2. PICK k \in 1 .. Len(l) : l[k].socket = s /\ l[k].conn = sock[s].conn
        BY <3>1 DEF Holds
      <3>3. g \in 1 .. Len(l) /\ l[g].socket = s
        BY <2>1, <3>1, <3>2, GetFinds
      <3>4. g = k
        BY <3>1, <3>2, <3>3 DEF Ordered
      <3>. QED
        BY <3>2, <3>3, <3>4
    <2>. QED
      BY <2>1 DEF OpenFindsItsNode
  <1>. QED
    BY <1>1, WsInvariant, PTL

(* An open websocket gets a broadcast from its worker's thread at most     *)
(* once and nothing before its turn in the pipe, although                  *)
(* ws_broadcast_worker walks the list without a lock (broadcast.c).        *)
THEOREM WsWrittenOnce == Spec => []WrittenOnce
  <1>1. ASSUME WsIInv, NEW s \in Socks, sock[s].ws, HasPipe(sock[s].worker),
               NEW queued, queued = pipe[pipeof[sock[s].worker]], NEW i \in DOMAIN queued
        PROVE  <<sock[s].conn, queued[i].id>> \notin sent
    <2>1. PICK w : w = sock[s].worker
      OBVIOUS
    <2>2. /\ w \in Threads /\ Holds(list[w], s, sock[s].conn) /\ Queued
          /\ pipe \in [Pipes -> Seq(FrameRec)] /\ pipeof[w] \in Pipes
      BY <1>1, <2>1 DEF WsIInv, WsTyped, Opened, Threads, HasPipe
    <2>3. queued \in Seq(FrameRec) /\ i \in 1 .. Len(queued)
      BY <1>1, <2>1, <2>2
    <2>4. PICK x : x = queued[i].id
      OBVIOUS
    <2>5. queued[i] \in FrameRec
      BY <2>3
    <2>6. x \in Nat /\ In(x, pipe[pipeof[w]])
      BY <1>1, <2>1, <2>3, <2>4, <2>5 DEF FrameRec, In
    <2>7. ~Got(w, x)
      BY <1>1, <2>1, <2>2, <2>6 DEF Queued, Met
    <2>8. PICK k \in 1 .. Len(list[w]) : list[w][k].conn = sock[s].conn
      BY <2>2 DEF Holds
    <2>. QED
      BY <2>4, <2>7, <2>8 DEF Got
  <1>2. WsIInv => WrittenOnce
    <2>1. WsIInv => ~twice
      BY DEF WsIInv, Sents
    <2>. QED
      BY <1>1, <2>1 DEF WrittenOnce
  <1>. QED
    BY <1>2, WsInvariant, PTL
=============================================================================
