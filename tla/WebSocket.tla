----------------------------- MODULE WebSocket -----------------------------
(***************************************************************************)
(* The websocket package (packages/websocket): the connections a worker    *)
(* has upgraded, and the broadcaster, which hands every message to one     *)
(* thread per worker through a pipe.  That thread walks the worker's list  *)
(* of connections while the worker goes on changing it: there is no lock.  *)
(* The callback that gives a worker its list and its broadcast thread runs *)
(* in every thread duda starts, so also in the threads a service spawns,   *)
(* while ws_broadcaster made pipes for the HTTP workers only.              *)
(*                                                                         *)
(*   sock     what a descriptor is: Closed, or the connection that has it  *)
(*   list     the ws_request nodes of a thread, in order                   *)
(*   handlers the descriptors in the worker's list of event handlers       *)
(*   nodes, conns, msgs   how many were made; they are named by number     *)
(*   pipeof   the place a thread's broadcast thread looks for its pipe, 0  *)
(*            before it starts                                             *)
(*   count    ws_broadcast_count                                           *)
(*   pipe     the frames in each pipe                                      *)
(*   call     the broadcast a thread is in: the frame and the next pipe    *)
(*   walk     what a broadcast thread does: Idle, the frame it sends and   *)
(*            the node it is at, or the frame and no place it knows        *)
(*   crashed  the process is gone                                          *)
(*                                                                         *)
(* and for the properties                                                  *)
(*                                                                         *)
(*   sent     pairs <<connection, message>> written to an open websocket   *)
(*            by the broadcast thread of its worker                        *)
(*   twice    one of them was written again                                *)
(*   due      the pairs that have to be written                            *)
(*   lost     those of them whose ws_write failed, which nobody looks at,  *)
(*            or that a walk over a freed node was to write                *)
(*                                                                         *)
(* cb_ws_close, cb_ws_error and cb_ws_timeout have no action: the hooks    *)
(* that would call them do nothing (lib/duda_old_launcher.c:351), so a     *)
(* closed connection keeps its node and its handler.                       *)
(***************************************************************************)
EXTENDS SequencesExt, Integers

CONSTANTS Workers,  \* the HTTP workers; one pipe each
          Spawned,  \* the threads the service may spawn (worker->spawn)
          Socks,    \* descriptor numbers, above 0
          Rooms,    \* channel numbers the service puts connections in
          Channels, \* channel numbers it broadcasts to; -1 is "all"
          MaxConns, \* bound on the connections accepted
          MaxMsgs,  \* bound on the broadcasts
          PipeCap   \* frames that fit in a pipe

ASSUME WebSocketAssumption ==
    /\ Socks \subseteq Nat \ {0} /\ IsFiniteSet(Socks)
    /\ IsFiniteSet(Workers) /\ Workers # {} /\ IsFiniteSet(Spawned)
    /\ Workers \cap Spawned = {} /\ "none" \notin Workers
    /\ MaxConns \in Nat /\ MaxMsgs \in Nat /\ PipeCap \in Nat \ {0}

VARIABLES sock, list, handlers, nodes, conns, msgs, pipeof, count, pipe, call, walk, crashed,
          sent, twice, due, lost

net == <<sock, conns>>
reqs == <<list, handlers, nodes>>
threads == <<pipeof, count>>
seen == <<sent, twice, due, lost>>
vars == <<net, reqs, msgs, threads, pipe, call, walk, crashed, seen>>

Closed == [conn |-> 0, worker |-> "none", ws |-> FALSE]
Frame(id, src, ch) == [id |-> id, source |-> src, channel |-> ch]
NoFrame == Frame(0, 0, 0)
Idle == [frame |-> NoFrame, at |-> 0]
Astray(f) == [frame |-> f, at |-> -1]
NoCall == [frame |-> NoFrame, next |-> 0]
Threads == Workers \cup Spawned
Pipes == 1..Cardinality(Workers)

\* ws_broadcaster ran in duda_main; the workers have not started.
Init ==
    /\ sock = [s \in Socks |-> Closed] /\ conns = 0
    /\ list = [t \in Threads |-> <<>>] /\ handlers = [w \in Workers |-> {}] /\ nodes = 0
    /\ msgs = 0 /\ pipeof = [t \in Threads |-> 0] /\ count = 0
    /\ pipe = [p \in Pipes |-> <<>>] /\ call = [t \in Threads |-> NoCall]
    /\ walk = [t \in Threads |-> Idle] /\ crashed = FALSE
    /\ sent = {} /\ twice = FALSE /\ due = {} /\ lost = {}

Started(t) == pipeof[t] # 0
HasPipe(t) == pipeof[t] \in Pipes
Free(t) == Started(t) /\ call[t] = NoCall

\* Mutant: the mutex forgotten, two workers may read the same count.
cb_request_list_initUnlocked(t) ==
    /\ ~Started(t) /\ count' \in {count, count + 1} /\ pipeof' = [pipeof EXCEPT ![t] = count + 1]
    /\ UNCHANGED <<net, reqs, msgs, pipe, call, walk, crashed, seen>>

\* cb_request_list_init, in the start of every thread, under the mutex.
cb_request_list_init(t) ==
    /\ ~Started(t) /\ count' = count + 1 /\ pipeof' = [pipeof EXCEPT ![t] = count + 1]
    /\ UNCHANGED <<net, reqs, msgs, pipe, call, walk, crashed, seen>>

\* The process is gone, and all it had.
Crash ==
    /\ crashed' = TRUE
    /\ sock' = [s \in Socks |-> Closed] /\ conns' = 0
    /\ list' = [t \in Threads |-> <<>>] /\ handlers' = [w \in Workers |-> {}] /\ nodes' = 0
    /\ msgs' = 0 /\ pipeof' = [t \in Threads |-> 0] /\ count' = 0
    /\ pipe' = [p \in Pipes |-> <<>>] /\ call' = [t \in Threads |-> NoCall]
    /\ walk' = [t \in Threads |-> Idle]
    /\ sent' = {} /\ twice' = FALSE /\ due' = {} /\ lost' = {}

\* Monkey keeps no sched_worker_info of a thread that is not a worker's:
\* thinfo->tid may be read through a null pointer.
NoThreadInfo(t) == t \in Spawned /\ ~Started(t) /\ Crash

\* ws_broadcast_worker finds no pipe at its place: br is still null.
NoPipe(t) == Started(t) /\ ~HasPipe(t) /\ Crash

\* Monkey accepts a connection: it gets a free descriptor, on any worker.
Accept(w, s) ==
    /\ Free(w) /\ sock[s] = Closed /\ \A r \in Socks : r < s => sock[r] # Closed
    /\ conns < MaxConns /\ conns' = conns + 1
    /\ sock' = [sock EXCEPT ![s] = [conn |-> conns + 1, worker |-> w, ws |-> FALSE]]
    /\ UNCHANGED <<reqs, msgs, threads, pipe, call, walk, crashed, seen>>

\* What was and what is still to be written to a connection goes with it.
Left(pairs) == {d \in pairs : \E s \in Socks : sock'[s].ws /\ sock'[s].conn = d[1]}
Leaves(s) ==
    /\ sock' = [sock EXCEPT ![s] = Closed]
    /\ sent' = Left(sent) /\ due' = Left(due) /\ lost' = Left(lost) /\ UNCHANGED twice

\* The peer leaves: Monkey closes the descriptor and the close hook of the
\* launcher does nothing.
Hangup(s) ==
    /\ sock[s] # Closed /\ Free(sock[s].worker) /\ Leaves(s)
    /\ UNCHANGED <<conns, reqs, msgs, threads, pipe, call, walk, crashed>>

ws_request_get(l, s) == SelectInSeq(l, LAMBDA n : n.socket = s)

\* Mutant: the node stays.
ws_request_deleteNot(l, s) == l

ws_request_delete(l, s) == IF ws_request_get(l, s) = 0 THEN l ELSE RemoveAt(l, ws_request_get(l, s))
ws_request_create(id, s, ch) == [id |-> id, socket |-> s, channel |-> ch, conn |-> sock[s].conn]
ws_request_add(l, node) == Append(l, node)

\* ws_handshake refused: the node of the descriptor's last user goes all
\* the same, the answer is a 400.
HandshakeRefused(w, s) ==
    /\ Free(w) /\ sock[s].worker = w /\ ~sock[s].ws
    /\ list' = [list EXCEPT ![w] = ws_request_delete(@, s)]
    /\ UNCHANGED <<net, handlers, nodes, msgs, threads, pipe, call, walk, crashed, seen>>

\* ws_handshake: ws_request_create, ws_request_add, event->add, on_open.
ws_handshake(w, s, ch) ==
    /\ Free(w) /\ sock[s].worker = w /\ ~sock[s].ws
    /\ list' = [list EXCEPT ![w] =
                    ws_request_add(ws_request_delete(@, s), ws_request_create(nodes + 1, s, ch))]
    /\ nodes' = nodes + 1
    /\ handlers' = [handlers EXCEPT ![w] = @ \cup {s}] /\ sock' = [sock EXCEPT ![s].ws = TRUE]
    /\ UNCHANGED <<conns, msgs, threads, pipe, call, walk, crashed, seen>>

\* ws_broadcast enters its loop over the pipes.
ws_broadcast(c, src, ch) ==
    /\ msgs < MaxMsgs /\ msgs' = msgs + 1
    /\ call' = [call EXCEPT ![c] = [frame |-> Frame(msgs + 1, src, ch), next |-> 1]]

\* _mkp_event_read and cb_ws_read: the first node with this descriptor.  A
\* message frame runs on_message, which may broadcast; a close frame runs
\* on_close, is answered with one, and the descriptor is closed; any other
\* frame is dropped.  Without a node the descriptor is closed.
cb_ws_read(w, s) ==
    /\ Free(w) /\ sock[s].worker = w /\ s \in handlers[w]
    /\ \/ /\ ws_request_get(list[w], s) # 0
          /\ \E ch \in Channels : ws_broadcast(w, s, ch)
          /\ UNCHANGED <<sock, seen>>
       \/ Leaves(s) /\ UNCHANGED <<msgs, call>>
    /\ UNCHANGED <<conns, reqs, threads, pipe, walk, crashed>>

\* ws_broadcast_all, from a thread the service has spawned.
ws_broadcast_all(t, ch) ==
    /\ t \in Spawned /\ Free(t) /\ ws_broadcast(t, 0, ch)
    /\ UNCHANGED <<net, reqs, threads, pipe, walk, crashed, seen>>

Wanted(n, f) == (f.channel < 0 \/ n.channel = f.channel) /\ f.source # n.socket

\* The node is that of the connection that has its descriptor now.
Current(n) == sock[n.socket].ws /\ sock[n.socket].conn = n.conn

\* One write of ws_broadcast: it blocks while the pipe is full.  The frame is
\* now due to the connections of the thread that reads this pipe.
BroadcastWrite(c) ==
    /\ call[c] # NoCall
    /\ LET f == call[c].frame
           p == call[c].next
       IN /\ Len(pipe[p]) < PipeCap /\ pipe' = [pipe EXCEPT ![p] = Append(@, f)]
          /\ call' = [call EXCEPT ![c] = IF p + 1 \in Pipes THEN [@ EXCEPT !.next = p + 1] ELSE NoCall]
          /\ due' = due \cup {<<n.conn, f.id>> : n \in {x \in (UNION {Range(list[t]) :
                       t \in {v \in Threads : pipeof[v] = p}}) : Wanted(x, f) /\ Current(x)}}
    /\ UNCHANGED <<net, reqs, msgs, threads, walk, crashed, sent, twice, lost>>

First(l) == IF l = <<>> THEN 0 ELSE l[1].id
After(l, k) == IF k = Len(l) THEN 0 ELSE l[k + 1].id

\* ws_broadcast_worker takes a frame from its pipe.
Taken(l, f) == IF l = <<>> THEN Idle ELSE [frame |-> f, at |-> First(l)]
BroadcastRead(t) ==
    /\ HasPipe(t) /\ walk[t] = Idle /\ pipe[pipeof[t]] # <<>>
    /\ pipe' = [pipe EXCEPT ![pipeof[t]] = Tail(@)]
    /\ walk' = [walk EXCEPT ![t] = Taken(list[t], Head(pipe[pipeof[t]]))]
    /\ UNCHANGED <<net, reqs, msgs, threads, call, crashed, seen>>

\* The place in the thread's list of the node it is at; 0 when there is none.
Place(t) == SelectInSeq(list[t], LAMBDA n : n.id = walk[t].at)

\* ws_write of frame f to node n, by thread t: it reaches whoever has the
\* descriptor now, or nobody; the result is ignored.
ws_write(t, n, f) ==
    LET to == sock[n.socket]
        d == <<to.conn, f.id>>
    IN  \/ /\ to # Closed /\ due' = due \ {d} /\ UNCHANGED lost
           /\ \/ /\ to.ws /\ to.worker = t
                 /\ sent' = sent \cup {d} /\ twice' = (twice \/ d \in sent)
              \/ ~(to.ws /\ to.worker = t) /\ UNCHANGED <<sent, twice>>
        \/ lost' = lost \cup ({<<n.conn, f.id>>} \cap due) /\ UNCHANGED <<sent, twice, due>>

\* One round of its loop over the list: ws_write to the node, if it is
\* meant, and on to the next.
BroadcastStep(t) ==
    /\ walk[t] # Idle /\ Place(t) # 0
    /\ LET k == Place(t)
           l == list[t]
       IN /\ walk' = [walk EXCEPT ![t] = IF After(l, k) = 0 THEN Idle ELSE [@ EXCEPT !.at = After(l, k)]]
          /\ \/ Wanted(l[k], walk[t].frame) /\ ws_write(t, l[k], walk[t].frame)
             \/ ~Wanted(l[k], walk[t].frame) /\ UNCHANGED seen
    /\ UNCHANGED <<net, reqs, msgs, threads, pipe, call, crashed>>

\* The node the thread is at was freed by the worker: what it reads as the
\* descriptor, the channel and the next node is anything.  The loop may end,
\* go on from anywhere, or crash; what it writes then is not recorded.
BroadcastStray(t) ==
    /\ walk[t] # Idle /\ Place(t) = 0
    /\ \/ /\ walk' \in {[walk EXCEPT ![t] = Idle], [walk EXCEPT ![t] = Astray(@.frame)]}
          /\ lost' = lost \cup {d \in due : d[2] = walk[t].frame.id /\
                                   \E s \in Socks : sock[s].conn = d[1] /\ sock[s].worker = t}
          /\ UNCHANGED <<net, reqs, msgs, threads, pipe, call, crashed, sent, twice, due>>
       \/ Crash

Broadcaster(t) == BroadcastRead(t) \/ BroadcastStep(t) \/ BroadcastStray(t) \/ NoPipe(t)

Next ==
    /\ ~crashed
    /\ \/ \E t \in Threads : cb_request_list_init(t) \/ NoThreadInfo(t) \/ Broadcaster(t)
       \/ \E w \in Workers, s \in Socks : Accept(w, s) \/ HandshakeRefused(w, s) \/ cb_ws_read(w, s)
       \/ \E w \in Workers, s \in Socks, ch \in Rooms : ws_handshake(w, s, ch)
       \/ \E s \in Socks : Hangup(s)
       \/ \E t \in Spawned, ch \in Channels : ws_broadcast_all(t, ch)
       \/ \E t \in Threads : BroadcastWrite(t)

\* The threads run: while a worker has to start, a broadcast thread has
\* something to do or a pipe has room for a write, one of them goes on.  A
\* service need not spawn a thread.
Running ==
    /\ ~crashed
    /\ \/ \E w \in Workers : cb_request_list_init(w)
       \/ \E t \in Threads : Broadcaster(t) \/ BroadcastWrite(t)
Fairness == WF_vars(Running)

Spec == Init /\ [][Next]_vars /\ Fairness

(***************************************************************************)
(* Properties.                                                             *)
(***************************************************************************)

\* The events of an open websocket find its own node, even when the
\* descriptor had another user whose node nobody removed (ws_handshake
\* removes it; the close hook does not).
OpenFindsItsNode ==
    \A s \in Socks : sock[s].ws =>
        LET l == list[sock[s].worker] IN
        ws_request_get(l, s) # 0 /\ l[ws_request_get(l, s)].conn = sock[s].conn

\* Whatever the workers do to their lists meanwhile, an open websocket gets a
\* broadcast from its worker's thread at most once, and two broadcasts in the
\* order of the pipe: what is still queued comes after what was written.  What
\* else it gets comes from a node that a former user of the descriptor left
\* with another worker, or left with its own worker and was written to before
\* the upgrade, or from a walk that went astray.
WrittenOnce ==
    /\ ~twice
    /\ \A s \in Socks : sock[s].ws /\ HasPipe(sock[s].worker) =>
          LET queued == pipe[pipeof[sock[s].worker]] IN
          \A i \in DOMAIN queued : <<sock[s].conn, queued[i].id>> \notin sent

\* A message put in the pipe of a worker arrives at every connection of its
\* channel that stays open and whose socket takes it, and ws_broadcast
\* returns.  In the code this fails when the thread reads a node the worker
\* has freed (no lock): the message it carries may be lost for that worker's
\* connections, and while it wanders it serves nobody.  It also fails when a
\* service spawns a thread, as there is no pipe for every thread then and the
\* process crashes.
Settled == due \subseteq lost /\ \A t \in Threads : call[t] = NoCall
Wanders == \E w \in Workers : walk[w] # Idle /\ Place(w) = 0
BroadcastArrives == ~Settled ~> (Settled \/ Wanders \/ crashed)
=============================================================================
