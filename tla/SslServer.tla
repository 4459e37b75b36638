------------------------------ MODULE SslServer ------------------------------
(***************************************************************************)
(* The loop of the SSL server of a service (packages/ssls/ssl_server.c).   *)
(* Its events are edge triggered: one is reported when something arrives,  *)
(* and not again for what is left unserved.  An event of the listener      *)
(* accepts one connection, and an event of a connection makes one          *)
(* ssl_read: it goes on with the handshake, or hands the callback at most  *)
(* the 4096 bytes of the buffer.  The rest of a longer record stays in the *)
(* connection, where no event tells of it, and so does what the handshake  *)
(* could not write.  The callbacks may change the mode of their            *)
(* connection.                                                             *)
(*                                                                         *)
(* External: epoll, the sockets and PolarSSL.  Memory does not run out,    *)
(* and nobody else hooks events into the queue of the server.              *)
(***************************************************************************)
EXTENDS Integers, Sequences, FiniteSets

CONSTANTS
    Listener,     \* ctx->fd
    Fds,          \* the descriptors of connections, used again when closed
    RecordPieces, \* buffers that the longest record fills
    MaxUnread,    \* bound of the model: records, or connections, that wait
    MaxAccepts    \* bound of the model: connections in all

ASSUME SslAssumption ==
    Listener \notin Fds /\ IsFiniteSet(Fds) /\ RecordPieces \in Nat \ {0}

VARIABLES
    conns,        \* ctx->conns, in order: the descriptor and the connection
    opened,       \* for each descriptor its connection, or 0 when closed
    accepts,      \* connections so far
    mode,         \* "in" or "out": what a descriptor is registered for
    unread,       \* records, or connections, that wait at each descriptor
    kept,         \* pieces of a record that its connection still holds
    flight,       \* the descriptors whose handshake has something to write
    hungup,       \* the descriptors whose peer has closed
    edges,        \* the descriptors with an event to be reported
    batch,        \* the events that epoll_wait has returned
    missed,       \* for each descriptor how many of the things that wait
                  \* there have had no event of their own, or lost it
    told,         \* the connections whose cb_close was called
    exited        \* the program has ended

sslVars == <<conns, opened, accepts, mode, unread, kept, flight, hungup, edges,
             batch, missed, told, exited>>

Sources == {Listener} \cup Fds
Open    == {f \in Fds : opened[f] # 0}
Running == ~exited

\* ssls_init
SslInit ==
    /\ conns = <<>> /\ accepts = 0
    /\ opened = [f \in Fds |-> 0]
    /\ mode = [f \in Sources |-> "in"]
    /\ unread = [f \in Sources |-> 0]
    /\ kept = [f \in Fds |-> 0] /\ flight = {}
    /\ hungup = {} /\ edges = {} /\ batch = <<>>
    /\ missed = [f \in Sources |-> 0] /\ told = {} /\ exited = FALSE

\* What waits in the socket f: records, and the end after the last of them.
Waits(f) == unread[f] + (IF f \in hungup THEN 1 ELSE 0)

\* At f, n more have no event; of what no longer waits none is missed.
Misses(f, n) ==
    missed' = [missed EXCEPT ![f] = IF @ + n < Waits(f)' THEN @ + n ELSE Waits(f)']

\* A client connects, or sends a record, or closes.  It is reported with
\* what came before it if that is still to be reported, or if the descriptor
\* is not registered for reading.
Arrive(f) ==
    /\ Running /\ f \in {Listener} \cup Open /\ f \notin hungup
    /\ \/ /\ unread[f] < MaxUnread
          /\ unread' = [unread EXCEPT ![f] = @ + 1]
          /\ UNCHANGED hungup
       \/ /\ f # Listener
          /\ hungup' = hungup \cup {f}
          /\ UNCHANGED unread
    /\ edges' = IF mode[f] = "in" \/ f \in hungup' THEN edges \cup {f} ELSE edges
    /\ Misses(f, IF (mode[f] = "in" /\ f \in edges) \/ (mode[f] = "out" /\ unread[f] > 0)
                 THEN 1 ELSE 0)
    /\ UNCHANGED <<conns, opened, accepts, mode, kept, flight, batch, told, exited>>

\* epoll_wait
Wait ==
    /\ Running /\ batch = <<>> /\ edges # {}
    /\ batch' \in {s \in [1 .. Cardinality(edges) -> edges] :
                      \A i, j \in DOMAIN s : s[i] = s[j] => i = j}
    /\ edges' = {}
    /\ UNCHANGED <<conns, opened, accepts, mode, unread, kept, flight, hungup, missed,
                   told, exited>>

\* The next event of the batch, when it is that of f.
Served(f) == Running /\ batch # <<>> /\ Head(batch) = f /\ batch' = Tail(batch)

\* accept, ssls_register_connection and ssls_event_add, which reports at
\* once what the client has already sent: nothing yet.
Accept(f) ==
    /\ Served(Listener)
    /\ unread[Listener] > 0 /\ accepts < MaxAccepts /\ f \in Fds \ Open
    /\ accepts' = accepts + 1
    /\ opened' = [opened EXCEPT ![f] = accepts']
    /\ conns' = Append(conns, <<f, accepts'>>)
    /\ mode' = [mode EXCEPT ![f] = "in"]
    /\ unread' = [unread EXCEPT ![Listener] = @ - 1]
    /\ UNCHANGED <<kept, flight, hungup, edges, told, exited>>
    /\ Misses(Listener, 0)

\* accept fails: nobody waits any more, or there is no descriptor left.
AcceptNone ==
    /\ Served(Listener)
    /\ unread[Listener] = 0 \/ accepts = MaxAccepts \/ Open = Fds
    /\ UNCHANGED <<conns, opened, accepts, mode, unread, kept, flight, hungup, edges, told,
                   exited>>
    /\ Misses(Listener, 1)

\* ssls_get_connection: the first of the list.
ssls_get_connection(f) ==
    LET I == {i \in DOMAIN conns : conns[i][1] = f} IN
    IF I = {} THEN 0 ELSE conns[CHOOSE i \in I : \A j \in I : i <= j][2]

\* ssls_event_mod: what is already there is reported again.
Registered(f, m) ==
    /\ mode' = [mode EXCEPT ![f] = m]
    /\ edges' = IF m = "out" \/ unread'[f] > 0 \/ f \in hungup THEN edges \cup {f}
                ELSE edges \ {f}

\* What cb_read may do to the registration.
CallbackRegisters(f) ==
    UNCHANGED <<mode, edges>> \/ \E m \in {"in", "out"} : Registered(f, m)

\* ssl_read with the rest of a record in the connection: the next piece of
\* it goes to cb_read, whatever the event was for.
ReadPiece(f) ==
    /\ Served(f) /\ mode[f] = "in" /\ kept[f] > 0
    /\ kept' = [kept EXCEPT ![f] = @ - 1]
    /\ UNCHANGED <<unread, hungup>> /\ Misses(f, 1) /\ CallbackRegisters(f)
    /\ UNCHANGED <<conns, opened, accepts, flight, told, exited>>

\* ssl_read with a record to read: after the messages of the handshake, and
\* records without data, the first piece of a record of data goes to cb_read.
ReadRecord(f) ==
    /\ Served(f) /\ mode[f] = "in" /\ kept[f] = 0
    /\ \E k \in 0 .. unread[f] - 1 : unread' = [unread EXCEPT ![f] = k]
    /\ \E n \in 0 .. RecordPieces - 1 : kept' = [kept EXCEPT ![f] = n]
    /\ flight' = flight \ {f}
    /\ UNCHANGED hungup /\ Misses(f, 0) /\ CallbackRegisters(f)
    /\ UNCHANGED <<conns, opened, accepts, told, exited>>

\* POLARSSL_ERR_NET_WANT_READ: the socket is empty, the peer being there.
ReadWantsRead(f) ==
    /\ Served(f) /\ mode[f] = "in" /\ kept[f] = 0 /\ f \notin hungup
    /\ unread' = [unread EXCEPT ![f] = 0] /\ flight' = flight \ {f}
    /\ UNCHANGED hungup /\ Misses(f, 0)
    /\ UNCHANGED <<conns, opened, accepts, mode, kept, edges, told, exited>>

\* POLARSSL_ERR_NET_WANT_WRITE: the socket does not take what the handshake
\* has to write, now or still.  The loop goes on to the next event and does
\* not ask for EPOLLOUT.
ReadWantsWrite(f) ==
    /\ Served(f) /\ mode[f] = "in" /\ kept[f] = 0
    /\ \/ \E k \in 0 .. unread[f] - 1 : unread' = [unread EXCEPT ![f] = k]
       \/ f \in flight /\ UNCHANGED unread
    /\ flight' = flight \cup {f}
    /\ UNCHANGED hungup /\ Misses(f, IF unread' = unread THEN 1 ELSE 0)
    /\ UNCHANGED <<conns, opened, accepts, mode, kept, edges, told, exited>>

\* Mutant: the connection stays in the list.
DropKept(f) == conns

\* ssls_remove_connection: the first of the list.
Drop(f) ==
    LET I == {i \in DOMAIN conns : conns[i][1] = f} IN
    IF I = {} THEN conns
    ELSE LET at == CHOOSE i \in I : \A j \in I : i <= j IN
         SubSeq(conns, 1, at - 1) \o SubSeq(conns, at + 1, Len(conns))

\* ssl_read fails, with a record or a handshake it does not accept as with a
\* peer that has closed: cb_close, ssls_remove_connection and close.
ReadEnd(f) ==
    /\ Served(f) /\ mode[f] = "in" /\ kept[f] = 0
    /\ Waits(f) > 0 \/ f \in flight
    /\ told' = told \cup {ssls_get_connection(f)}
    /\ conns' = Drop(f)
    /\ opened' = [opened EXCEPT ![f] = 0]
    /\ unread' = [unread EXCEPT ![f] = 0] /\ flight' = flight \ {f}
    /\ hungup' = hungup \ {f} /\ edges' = edges \ {f}
    /\ Misses(f, 0)
    /\ UNCHANGED <<accepts, mode, kept, exited>>

\* POLARSSL_ERR_SSL_CONN_EOF: a connection that ends without notice ends the
\* program.
ReadEof(f) ==
    /\ Served(f) /\ mode[f] = "in" /\ kept[f] = 0 /\ f \in hungup
    /\ exited' = TRUE
    /\ UNCHANGED <<conns, opened, accepts, mode, unread, kept, flight, hungup, edges, missed,
                   told>>

\* EPOLLOUT: cb_write, which may go back to reading.
Writable(f) ==
    /\ Served(f) /\ mode[f] = "out" /\ UNCHANGED unread
    /\ \/ UNCHANGED <<mode, edges>>
       \/ Registered(f, "in")
    /\ UNCHANGED <<conns, opened, accepts, kept, flight, hungup, missed, told, exited>>

SslNext ==
    \/ \E f \in Sources : Arrive(f)
    \/ Wait \/ AcceptNone
    \/ \E f \in Fds : \/ Accept(f) \/ ReadPiece(f) \/ ReadRecord(f) \/ ReadWantsRead(f)
                      \/ ReadWantsWrite(f) \/ ReadEnd(f) \/ ReadEof(f) \/ Writable(f)

SslSpec == SslInit /\ [][SslNext]_sslVars

(* The list of connections, by which events find theirs, agrees with the   *)
(* descriptors through accepts, closes and descriptors used again: each    *)
(* open one has one entry, which is its own, and cb_close is called for    *)
(* those connections that are gone and for no other.                       *)
SslConnsAgree ==
    /\ \A f \in Fds : ssls_get_connection(f) = opened[f]
    /\ Len(conns) = Cardinality(Open)
    /\ told = (1 .. accepts) \ {opened[f] : f \in Fds}

(* No wakeup is lost but those that are accounted for: when the loop waits *)
(* and no event is to come, as many records, connections and ends wait at  *)
(* a socket at most as were reported together with another, or had their   *)
(* event spent on a failed accept, on the rest of an earlier record or on  *)
(* a handshake that still could not write.                                 *)
EdgesServed ==
    Running /\ batch = <<>> /\ edges = {} =>
        \A f \in {Listener} \cup Open : mode[f] = "in" => Waits(f) <= missed[f]

(* The loop serves the clients that its events name.                       *)
SslServed == SslConnsAgree /\ EdgesServed
=============================================================================
