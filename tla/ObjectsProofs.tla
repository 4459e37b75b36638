---------------------------- MODULE ObjectsProofs ----------------------------
(***************************************************************************)
(* Proofs about the objects a service works with: the event handlers of    *)
(* its worker (Events), the loop of an SSL server (SslServer), the         *)
(* collector of a request (Gc), the sessions (Session), the pool of        *)
(* database connections (MariadbPool) and the body of a response           *)
(* (BodyBuffer).  They share no state; each has an inductive invariant of  *)
(* its own.                                                                *)
(***************************************************************************)
EXTENDS Events, SslServer, Gc, Session, MariadbPool, BodyBuffer, DataLemmas

(***************************************************************************)
(* Events.                                                                 *)
(***************************************************************************)
EventsTyped ==
    /\ handlers \in Seq(Sockets \X Nat)
    /\ holder \in [Sockets -> Nat]
    /\ owners \in Nat
    /\ littered \subseteq Sockets

\* The user of a descriptor has a handler in the list.
Held ==
    \A s \in Sockets : holder[s] # 0 =>
        \E i \in 1 .. Len(handlers) : handlers[i][1] = s /\ handlers[i][2] = holder[s]

\* A descriptor that was always closed with event->delete has no handler
\* but that of its user.
Clean ==
    \A s \in Sockets \ littered : \A i \in 1 .. Len(handlers) :
        handlers[i][1] = s =>
            /\ handlers[i][2] = holder[s] /\ holder[s] # 0
            /\ \A j \in 1 .. Len(handlers) : handlers[j][1] = s => j = i

EventsIInv == EventsTyped /\ Held /\ Clean

(* duda_event_lookup finds the first handler of a descriptor in the list.  *)
LEMMA FirstHandler ==
  ASSUME EventsTyped, NEW s
  PROVE  /\ First(s) = 0 => \A i \in 1 .. Len(handlers) : handlers[i][1] # s
         /\ First(s) # 0 => First(s) \in 1 .. Len(handlers) /\ handlers[First(s)][1] = s
         /\ First(s) \in Nat
  <1>. DEFINE I == {i \in DOMAIN handlers : handlers[i][1] = s}
  <1>1. DOMAIN handlers = 1 .. Len(handlers) /\ I \in SUBSET Nat
    BY DEF EventsTyped
  <1>2. First(s) = IF I = {} THEN 0 ELSE CHOOSE i \in I : \A j \in I : i <= j
    BY DEF First
  <1>3. ASSUME I # {} PROVE First(s) \in I
    <2>. HIDE DEF I
    <2>1. \E m \in I : \A k \in I : m <= k
      BY <1>1, <1>3, LeastNatural
    <2>. QED
      BY <1>2, <1>3, <2>1
  <1>4. CASE I = {}
    BY <1>1, <1>2, <1>4
  <1>5. CASE I # {}
    <2>1. First(s) \in I
      BY <1>3, <1>5
    <2>. QED
      BY <1>1, <2>1
  <1>. QED
    BY <1>4, <1>5

LEMMA InitEvents == EventsInit => EventsIInv
  <1>. SUFFICES ASSUME EventsInit PROVE EventsIInv
    OBVIOUS
  <1>1. <<>> \in Seq(Sockets \X Nat) /\ Len(<<>>) = 0
    OBVIOUS
  <1>. QED
    BY <1>1 DEF EventsInit, EventsIInv, EventsTyped, Held, Clean

LEMMA AddEvents ==
  ASSUME EventsIInv, NEW s \in Sockets, duda_event_add(s)
  PROVE  EventsIInv'
  <1>. DEFINE n == Len(handlers)
              h == <<s, owners + 1>>
  <1>1. /\ owners' = owners + 1 /\ owners \in Nat /\ holder[s] = 0
        /\ holder' = [holder EXCEPT ![s] = owners + 1]
        /\ handlers' = Append(handlers, h) /\ littered' = littered
    BY DEF duda_event_add, EventsIInv, EventsTyped
  <1>2. handlers \in Seq(Sockets \X Nat) /\ h \in Sockets \X Nat /\ n \in Nat
    BY <1>1 DEF EventsIInv, EventsTyped
  <1>3. /\ handlers' \in Seq(Sockets \X Nat) /\ Len(handlers') = n + 1
        /\ handlers'[n + 1] = h /\ \A i \in 1 .. n : handlers'[i] = handlers[i]
    BY <1>1, <1>2
  <1>4. \A i \in 1 .. Len(handlers') : i \in 1 .. n \/ i = n + 1
    BY <1>2, <1>3
  <1>5. EventsTyped'
    BY <1>1, <1>3 DEF EventsIInv, EventsTyped
  <1>6. \A t \in Sockets : t # s => holder'[t] = holder[t]
    BY <1>1 DEF EventsIInv, EventsTyped
  <1>7. holder'[s] = owners + 1 /\ owners + 1 # 0
    BY <1>1 DEF EventsIInv, EventsTyped
  <1>8. Held'
    <2>1. SUFFICES ASSUME NEW t \in Sockets, holder'[t] # 0
                   PROVE  \E i \in 1 .. Len(handlers') :
                             handlers'[i][1] = t /\ handlers'[i][2] = holder'[t]
      BY DEF Held
    <2>2. CASE t = s
      <3>1. n + 1 \in 1 .. Len(handlers')
        BY <1>2, <1>3
      <3>2. handlers'[n + 1][1] = t /\ handlers'[n + 1][2] = holder'[t]
        BY <1>3, <1>7, <2>2
      <3>. QED
        BY <3>1, <3>2
    <2>3. CASE t # s
      <3>1. PICK i \in 1 .. n : handlers[i][1] = t /\ handlers[i][2] = holder[t]
        BY <1>6, <2>1, <2>3 DEF EventsIInv, Held
      <3>2. i \in 1 .. Len(handlers') /\ handlers'[i][1] = t /\ handlers'[i][2] = holder'[t]
        BY <1>2, <1>3, <1>6, <2>3, <3>1, SMTT(20)
      <3>. QED
        BY <3>2
    <2>. QED
      BY <2>2, <2>3
  <1>9. Clean'
    <2>1. SUFFICES ASSUME NEW t \in Sockets \ littered, NEW i \in 1 .. Len(handlers'),
                          handlers'[i][1] = t
                   PROVE  /\ handlers'[i][2] = holder'[t] /\ holder'[t] # 0
                          /\ \A j \in 1 .. Len(handlers') : handlers'[j][1] = t => j = i
      BY <1>1 DEF Clean
    <2>2. s \notin littered => \A j \in 1 .. n : handlers[j][1] # s
      BY <1>1 DEF EventsIInv, Clean
    <2>3. CASE t = s
      <3>1. \A j \in 1 .. n : handlers'[j][1] # s
        BY <1>3, <2>2, <2>3
      <3>2. \A j \in 1 .. Len(handlers') : handlers'[j][1] = t => j = n + 1
        BY <1>4, <2>3, <3>1
      <3>3. i = n + 1
        BY <2>1, <3>2
      <3>4. handlers'[i] = h
        BY <1>3, <3>3
      <3>5. handlers'[i][2] = owners + 1
        BY <3>4
      <3>. QED
        BY <1>7, <2>3, <3>2, <3>3, <3>5
    <2>4. CASE t # s
      <3>1. i \in 1 .. n
        BY <1>3, <1>4, <2>1, <2>4
      <3>2. handlers[i][2] = holder[t] /\ holder[t] # 0
        BY <1>3, <2>1, <3>1 DEF EventsIInv, Clean
      <3>3. \A j \in 1 .. n : handlers[j][1] = t => j = i
        BY <1>3, <2>1, <3>1 DEF EventsIInv, Clean
      <3>4. ASSUME NEW j \in 1 .. Len(handlers'), handlers'[j][1] = t PROVE j = i
        <4>1. j \in 1 .. n
          BY <1>3, <1>4, <2>4, <3>4
        <4>. QED
          BY <1>3, <3>3, <3>4, <4>1
      <3>. QED
        BY <1>3, <1>6, <2>4, <3>1, <3>2, <3>4
    <2>. QED
      BY <2>3, <2>4
  <1>. QED
    BY <1>5, <1>8, <1>9 DEF EventsIInv

LEMMA DeleteEvents ==
  ASSUME EventsIInv, NEW s \in Sockets, duda_event_delete(s)
  PROVE  EventsIInv'
  <1>. DEFINE n == Len(handlers)
              f == First(s)
  <1>1. /\ holder[s] # 0 /\ holder' = [holder EXCEPT ![s] = 0]
        /\ handlers' = SubSeq(handlers, 1, f - 1) \o SubSeq(handlers, f + 1, n)
        /\ owners' = owners /\ littered' = littered
    BY DEF duda_event_delete
  <1>2. handlers \in Seq(Sockets \X Nat) /\ n \in Nat
    BY DEF EventsIInv, EventsTyped
  <1>3. f \in 1 .. n /\ handlers[f][1] = s
    <2>1. \E i \in 1 .. n : handlers[i][1] = s
      BY <1>1 DEF EventsIInv, Held
    <2>. QED
      BY <2>1, FirstHandler DEF EventsIInv
  <1>. HIDE DEF f
  <1>4. handlers' \in Seq(Sockets \X Nat) /\ Others(handlers', handlers, f)
    <2>. DEFINE S == Sockets \X Nat
                h == handlers
                r == handlers'
    <2>1. /\ h \in Seq(S) /\ f \in 1 .. Len(h)
          /\ r = Without(h, f)
      BY <1>1, <1>2, <1>3 DEF Without
    <2>. HIDE DEF S, h, r
    <2>2. r \in Seq(S)
      BY <2>1, WithoutEntry
    <2>3. Others(r, h, f)
      BY <2>1, OthersStay
    <2>. QED
      BY <2>2, <2>3 DEF S, h, r
  <1>5. EventsTyped'
    BY <1>1, <1>4 DEF EventsIInv, EventsTyped
  <1>6. \A t \in Sockets : holder'[t] = IF t = s THEN 0 ELSE holder[t]
    BY <1>1 DEF EventsIInv, EventsTyped
  <1>7. Held'
    <2>1. SUFFICES ASSUME NEW t \in Sockets, holder'[t] # 0
                   PROVE  \E i \in 1 .. Len(handlers') :
                             handlers'[i][1] = t /\ handlers'[i][2] = holder'[t]
      BY DEF Held
    <2>2. t # s /\ holder'[t] = holder[t]
      BY <1>6, <2>1
    <2>3. PICK k \in 1 .. n : handlers[k][1] = t /\ handlers[k][2] = holder[t]
      BY <2>1, <2>2 DEF EventsIInv, Held
    <2>4. k # f
      BY <1>3, <2>2, <2>3
    <2>5. PICK i \in 1 .. Len(handlers') : handlers'[i] = handlers[k]
      BY <1>4, <2>3, <2>4 DEF Others
    <2>. QED
      BY <2>2, <2>3, <2>5
  <1>8. Clean'
    <2>1. SUFFICES ASSUME NEW t \in Sockets \ littered, NEW i \in 1 .. Len(handlers'),
                          handlers'[i][1] = t
                   PROVE  /\ handlers'[i][2] = holder'[t] /\ holder'[t] # 0
                          /\ \A j \in 1 .. Len(handlers') : handlers'[j][1] = t => j = i
      BY <1>1 DEF Clean
    <2>2. PICK k \in 1 .. n : k # f /\ handlers'[i] = handlers[k]
      BY <1>4 DEF Others
    <2>3. /\ handlers[k][2] = holder[t] /\ holder[t] # 0
          /\ \A j \in 1 .. n : handlers[j][1] = t => j = k
      BY <2>1, <2>2 DEF EventsIInv, Clean
    <2>4. t # s
      BY <1>3, <2>2, <2>3
    <2>5. ASSUME NEW j \in 1 .. Len(handlers'), handlers'[j][1] = t, j # i PROVE FALSE
      <3>1. PICK x, y \in 1 .. n :
              x # y /\ handlers'[i] = handlers[x] /\ handlers'[j] = handlers[y]
        BY <1>4, <2>5 DEF Others
      <3>. QED
        BY <2>1, <2>3, <2>5, <3>1
    <2>. QED
      BY <1>6, <2>2, <2>3, <2>4, <2>5
  <1>. QED
    BY <1>5, <1>7, <1>8 DEF EventsIInv

LEMMA CloseEvents ==
  ASSUME EventsIInv, NEW s \in Sockets, mkp_event_close(s)
  PROVE  EventsIInv'
  <1>1. /\ holder' = [holder EXCEPT ![s] = 0] /\ littered' = littered \cup {s}
        /\ handlers' = handlers /\ owners' = owners
    BY DEF mkp_event_close
  <1>2. EventsTyped'
    BY <1>1 DEF EventsIInv, EventsTyped
  <1>3. \A t \in Sockets : holder'[t] = IF t = s THEN 0 ELSE holder[t]
    BY <1>1 DEF EventsIInv, EventsTyped
  <1>4. Held'
    BY <1>1, <1>3 DEF EventsIInv, Held
  <1>5. Clean'
    BY <1>1, <1>3 DEF EventsIInv, Clean
  <1>. QED
    BY <1>2, <1>4, <1>5 DEF EventsIInv

(* An event reaches the user of its descriptor, and nobody once it is      *)
(* closed, for any number of descriptors and of users: event->add and      *)
(* event->delete keep one handler for each descriptor in use, as long as   *)
(* none was closed behind the list's back.                                 *)
THEOREM EventsReachOwner == EventsSpec => []EventReachesOwner
  <1>1. EventsIInv /\ [EventsNext]_eventVars => EventsIInv'
    <2>. SUFFICES ASSUME EventsIInv, [EventsNext]_eventVars PROVE EventsIInv'
      OBVIOUS
    <2>1. CASE EventsNext
      BY <2>1, AddEvents, DeleteEvents, CloseEvents DEF EventsNext
    <2>2. CASE UNCHANGED eventVars
      <3>1. handlers' = handlers /\ holder' = holder /\ owners' = owners /\ littered' = littered
        BY <2>2 DEF eventVars
      <3>2. EventsTyped'
        BY <3>1 DEF EventsIInv, EventsTyped
      <3>3. Held'
        BY <3>1 DEF EventsIInv, Held
      <3>4. Clean'
        BY <3>1 DEF EventsIInv, Clean
      <3>. QED
        BY <3>2, <3>3, <3>4 DEF EventsIInv
    <2>. QED
      BY <2>1, <2>2
  <1>2. EventsIInv => EventReachesOwner
    <2>. SUFFICES ASSUME EventsIInv, NEW s \in Sockets \ littered
                  PROVE  duda_event_lookup(s) = holder[s]
      BY DEF EventReachesOwner
    <2>1. CASE First(s) = 0
      <3>1. \A i \in 1 .. Len(handlers) : handlers[i][1] # s
        BY <2>1, FirstHandler DEF EventsIInv
      <3>2. holder[s] = 0
        BY <3>1 DEF EventsIInv, Held
      <3>. QED
        BY <2>1, <3>2 DEF duda_event_lookup
    <2>2. CASE First(s) # 0
      <3>1. First(s) \in 1 .. Len(handlers) /\ handlers[First(s)][1] = s
        BY <2>2, FirstHandler DEF EventsIInv
      <3>2. handlers[First(s)][2] = holder[s]
        BY <3>1 DEF EventsIInv, Clean
      <3>. QED
        BY <2>2, <3>2 DEF duda_event_lookup
    <2>. QED
      BY <2>1, <2>2
  <1>. QED
    BY <1>1, <1>2, InitEvents, PTL DEF EventsSpec

(***************************************************************************)
(* SslServer.                                                              *)
(***************************************************************************)
Live == {Listener} \cup Open

SslTyped ==
    /\ conns \in Seq(Fds \X Nat)
    /\ opened \in [Fds -> Nat]
    /\ accepts \in Nat
    /\ mode \in [Sources -> {"in", "out"}]
    /\ unread \in [Sources -> Nat] /\ missed \in [Sources -> Nat]
    /\ batch \in Seq(Sources)
    /\ exited \in BOOLEAN

\* The list of connections: one entry for each open descriptor, its own.
Listed ==
    /\ \A i \in 1 .. Len(conns) :
          conns[i][2] = opened[conns[i][1]] /\ conns[i][2] # 0
    /\ \A f \in Open : \E i \in 1 .. Len(conns) : conns[i][1] = f
    /\ \A i, j \in 1 .. Len(conns) : conns[i][1] = conns[j][1] => i = j

\* Connections are numbered as they are accepted, and those that are gone
\* were told.
Numbers ==
    /\ \A f \in Fds : opened[f] <= accepts
    /\ \A f, g \in Open : opened[f] = opened[g] => f = g
    /\ told = (1 .. accepts) \ {opened[f] : f \in Fds}

\* An event is for a descriptor that is still open, and in a batch once.
Events ==
    /\ hungup \subseteq Open /\ edges \subseteq Live
    /\ \A i \in 1 .. Len(batch) : batch[i] \in Live
    /\ \A i, j \in 1 .. Len(batch) : batch[i] = batch[j] => i = j

\* Nothing waits at a descriptor that is closed, and the listener accepts.
AtRest ==
    /\ \A f \in Fds \ Open : unread[f] = 0
    /\ mode[Listener] = "in"

\* The events of f: to be reported, and in the batch.
Due(f)   == IF f \in edges THEN 1 ELSE 0
InHand(f) == IF \E i \in 1 .. Len(batch) : batch[i] = f THEN 1 ELSE 0

\* What waits at f, an event for each or accounted for; one event will tell
\* of it all where f is not registered for reading.
OwedAt(f) ==
    Waits(f) <= missed[f] + (IF mode[f] = "in" THEN Due(f) + InHand(f) ELSE 1)

Owed == ~exited => \A f \in Live : OwedAt(f)

SslIInv == SslTyped /\ Listed /\ Numbers /\ Events /\ AtRest /\ Owed

LEMMA InitSsl == SslInit => SslIInv
  <1>. SUFFICES ASSUME SslInit PROVE SslIInv
    OBVIOUS
  <1>1. <<>> \in Seq(Fds \X Nat) /\ <<>> \in Seq(Sources) /\ Len(<<>>) = 0
    OBVIOUS
  <1>2. SslTyped
    BY <1>1 DEF SslInit, SslTyped
  <1>3. Open = {}
    BY DEF SslInit, Open
  <1>4. Listed
    BY <1>1, <1>3 DEF SslInit, Listed
  <1>5. Numbers
    BY <1>3 DEF SslInit, Numbers
  <1>6. Events /\ AtRest
    BY <1>1, <1>3 DEF SslInit, Events, AtRest, Live, Sources
  <1>7. Owed
    BY <1>1, <1>3 DEF SslInit, Owed, OwedAt, Waits, Due, InHand, Live, Sources
  <1>. QED
    BY <1>2, <1>4, <1>5, <1>6, <1>7 DEF SslIInv

(* The rest of the batch, when the event of f has been taken from it.      *)
LEMMA ServedRest ==
  ASSUME SslTyped, Events, NEW f, Served(f)
  PROVE  /\ ~exited /\ f \in Live /\ batch' \in Seq(Sources)
         /\ \A i \in 1 .. Len(batch') : batch'[i] \in Live /\ batch'[i] # f
         /\ \A i, j \in 1 .. Len(batch') : batch'[i] = batch'[j] => i = j
         /\ \A g : g # f /\ (\E i \in 1 .. Len(batch) : batch[i] = g)
                => \E i \in 1 .. Len(batch') : batch'[i] = g
  <1>1. /\ batch \in Seq(Sources) /\ batch # <<>> /\ Head(batch) = f
        /\ batch' = Tail(batch) /\ ~exited
    BY DEF Served, Running, SslTyped
  <1>2. /\ Len(batch) \in Nat /\ Len(batch) > 0 /\ batch[1] = f
        /\ batch' \in Seq(Sources) /\ Len(batch') = Len(batch) - 1
        /\ \A i \in 1 .. Len(batch') : batch'[i] = batch[i + 1]
    BY <1>1
  <1>3. \A i \in 1 .. Len(batch') : i + 1 \in 1 .. Len(batch) /\ i + 1 # 1
    BY <1>2
  <1>4. 1 \in 1 .. Len(batch)
    BY <1>2
  <1>5. f \in Live
    BY <1>2, <1>4 DEF Events
  <1>6. \A i \in 1 .. Len(batch') : batch'[i] \in Live /\ batch'[i] # f
    BY <1>2, <1>3, <1>4 DEF Events
  <1>7. \A i, j \in 1 .. Len(batch') : batch'[i] = batch'[j] => i = j
    <2>1. \A i, j \in 1 .. Len(batch') : batch'[i] = batch'[j] => i + 1 = j + 1
      BY <1>2, <1>3 DEF Events
    <2>. QED
      BY <2>1
  <1>8. ASSUME NEW g, g # f, NEW i \in 1 .. Len(batch), batch[i] = g
        PROVE  \E k \in 1 .. Len(batch') : batch'[k] = g
    <2>1. i - 1 \in 1 .. Len(batch') /\ (i - 1) + 1 = i
      BY <1>2, <1>8
    <2>2. batch'[i - 1] = g
      BY <1>2, <1>8, <2>1
    <2>. QED
      BY <2>1, <2>2
  <1>. QED
    BY <1>1, <1>2, <1>5, <1>6, <1>7, <1>8

(* An open descriptor has one entry, the one which ssls_get_connection     *)
(* finds and ssls_remove_connection unlinks.                               *)
LEMMA FirstEntry ==
  ASSUME SslTyped, Listed, NEW f \in Open
  PROVE  /\ ssls_get_connection(f) = opened[f]
         /\ \E a \in 1 .. Len(conns) :
               /\ conns[a][1] = f
               /\ Drop(f) = Without(conns, a)
  <1>1. conns \in Seq(Fds \X Nat) /\ DOMAIN conns = 1 .. Len(conns) /\ Len(conns) \in Nat
    BY DEF SslTyped
  <1>2. PICK a \in 1 .. Len(conns) : conns[a][1] = f
    BY DEF Listed
  <1>. DEFINE I == {i \in DOMAIN conns : conns[i][1] = f}
              at == CHOOSE i \in I : \A j \in I : i <= j
  <1>3. I = {a}
    BY <1>1, <1>2 DEF Listed
  <1>4. at = a
    <2>1. a \in I /\ \A j \in I : a <= j
      BY <1>1, <1>2, <1>3
    <2>2. at \in I
      BY <2>1
    <2>. QED
      BY <1>3, <2>2
  <1>5. I # {}
    BY <1>3
  <1>6. ssls_get_connection(f) = conns[at][2]
    BY <1>5 DEF ssls_get_connection
  <1>7. Drop(f) = Without(conns, at)
    BY <1>5 DEF Drop, Without
  <1>8. conns[a][2] = opened[f]
    BY <1>2 DEF Listed
  <1>. HIDE DEF at
  <1>. QED
    BY <1>2, <1>4, <1>6, <1>7, <1>8

(* The steps that leave the list of connections alone keep what it says.   *)
LEMMA SameConns ==
  ASSUME Listed, Numbers, UNCHANGED <<conns, opened, accepts, told>>
  PROVE  Listed' /\ Numbers' /\ Open' = Open /\ Live' = Live
  <1>1. Open' = Open
    BY DEF Open
  <1>. QED
    BY <1>1 DEF Listed, Numbers, Live

(* What Misses leaves: everything that waits is accounted for, or n more   *)
(* than before.                                                            *)
LEMMA MissesAt ==
  ASSUME SslTyped, NEW f \in Sources, NEW n \in {0, 1}, Misses(f, n),
         unread' \in [Sources -> Nat]
  PROVE  /\ missed' \in [Sources -> Nat]
         /\ \A g \in Sources : g # f => missed'[g] = missed[g]
         /\ Waits(f)' <= missed'[f] \/ missed'[f] = missed[f] + n
  <1>1. missed \in [Sources -> Nat] /\ missed[f] \in Nat /\ unread'[f] \in Nat
    BY DEF SslTyped
  <1>2. Waits(f)' \in Nat
    BY <1>1 DEF Waits
  <1>. DEFINE w == Waits(f)'
  <1>3. missed' = [missed EXCEPT ![f] = IF missed[f] + n < w THEN missed[f] + n ELSE w]
    BY DEF Misses
  <1>. HIDE DEF w
  <1>4. w \in Nat
    BY <1>2 DEF w
  <1>5. (IF missed[f] + n < w THEN missed[f] + n ELSE w) \in Nat
    BY <1>1, <1>4
  <1>6. missed'[f] = (IF missed[f] + n < w THEN missed[f] + n ELSE w)
    BY <1>1, <1>3
  <1>7. w <= missed'[f] \/ missed'[f] = missed[f] + n
    BY <1>1, <1>4, <1>6
  <1>. QED
    BY <1>1, <1>3, <1>5, <1>7 DEF w

(* A step that does not touch g leaves g what it is owed.                  *)
LEMMA OthersOwed ==
  ASSUME NEW g, OwedAt(g), unread'[g] = unread[g], missed'[g] = missed[g],
         mode'[g] = mode[g], g \in hungup' <=> g \in hungup,
         g \in edges => g \in edges',
         (\E i \in 1 .. Len(batch) : batch[i] = g) =>
            \E i \in 1 .. Len(batch') : batch'[i] = g,
         unread[g] \in Nat, missed[g] \in Nat
  PROVE  OwedAt(g)'
  <1>1. Waits(g)' = Waits(g) /\ Waits(g) \in Nat
    BY DEF Waits
  <1>2. Due(g) \in 0 .. 1 /\ Due(g)' \in 0 .. 1 /\ Due(g) <= Due(g)'
    BY DEF Due
  <1>3. InHand(g) \in 0 .. 1 /\ InHand(g)' \in 0 .. 1 /\ InHand(g) <= InHand(g)'
    BY DEF InHand
  <1>. QED
    BY <1>1, <1>2, <1>3 DEF OwedAt

LEMMA ArriveSsl ==
  ASSUME SslIInv, NEW f \in Sources, Arrive(f)
  PROVE  SslIInv'
  <1>. DEFINE n == IF (mode[f] = "in" /\ f \in edges) \/ (mode[f] = "out" /\ unread[f] > 0)
                   THEN 1 ELSE 0
  <1>1. /\ UNCHANGED <<conns, opened, accepts, mode, batch, told, exited>>
        /\ f \in Live /\ f \notin hungup /\ ~exited
        /\ edges' = IF mode[f] = "in" \/ f \in hungup' THEN edges \cup {f} ELSE edges
        /\ Misses(f, n)
        /\ \/ unread' = [unread EXCEPT ![f] = @ + 1] /\ hungup' = hungup
           \/ f # Listener /\ hungup' = hungup \cup {f} /\ unread' = unread
    BY DEF Arrive, Live, Running
  <1>2. SslTyped /\ Events /\ AtRest /\ Owed
    BY DEF SslIInv
  <1>3. Listed' /\ Numbers' /\ Open' = Open /\ Live' = Live
    BY <1>1, SameConns DEF SslIInv
  <1>4. /\ unread \in [Sources -> Nat] /\ missed \in [Sources -> Nat]
        /\ mode \in [Sources -> {"in", "out"}] /\ Live \subseteq Sources
    BY <1>2 DEF SslTyped, Live, Open, Sources
  <1>5. /\ unread' \in [Sources -> Nat]
        /\ \A g \in Sources : g # f => unread'[g] = unread[g]
        /\ Waits(f)' = Waits(f) + 1 /\ Waits(f) \in Nat /\ Waits(f) = unread[f]
    BY <1>1, <1>4 DEF Waits
  <1>6. n \in {0, 1}
    OBVIOUS
  <1>7. /\ missed' \in [Sources -> Nat]
        /\ \A g \in Sources : g # f => missed'[g] = missed[g]
        /\ Waits(f)' <= missed'[f] \/ missed'[f] = missed[f] + n
    <2>. HIDE DEF n
    <2>. QED
      BY <1>1, <1>2, <1>5, <1>6, MissesAt
  <1>8. SslTyped'
    BY <1>1, <1>2, <1>5, <1>7 DEF SslTyped
  <1>9. Events'
    BY <1>1, <1>2, <1>3, SslAssumption DEF Events, Live
  <1>10. AtRest'
    <2>1. f \notin Fds \ Open
      BY <1>1, SslAssumption DEF Live
    <2>. QED
      BY <1>1, <1>2, <1>3, <1>5, <2>1 DEF AtRest, Sources
  <1>11. OwedAt(f)'
    <2>1. OwedAt(f) /\ missed[f] \in Nat /\ missed'[f] \in Nat /\ InHand(f)' = InHand(f)
          /\ InHand(f) \in 0 .. 1
      BY <1>1, <1>2, <1>4, <1>7 DEF Owed, InHand
    <2>2. CASE mode[f] = "in"
      <3>1. Due(f)' = 1 /\ Due(f) = n
        BY <1>1, <2>2 DEF Due
      <3>. QED
        BY <1>1, <1>5, <1>6, <1>7, <2>1, <2>2, <3>1 DEF OwedAt
    <2>3. CASE mode[f] = "out"
      BY <1>1, <1>5, <1>7, <2>1, <2>3 DEF OwedAt
    <2>. QED
      BY <1>4, <2>2, <2>3
  <1>12. Owed'
    <2>1. \A g \in Live : g # f => OwedAt(g)'
      <3>. SUFFICES ASSUME NEW g \in Live, g # f PROVE OwedAt(g)'
        OBVIOUS
      <3>1. g \in Sources /\ OwedAt(g) /\ unread[g] \in Nat /\ missed[g] \in Nat
        BY <1>1, <1>2, <1>4 DEF Owed
      <3>2. (g \in hungup' <=> g \in hungup) /\ (g \in edges => g \in edges')
        BY <1>1
      <3>. QED
        BY <1>1, <1>5, <1>7, <3>1, <3>2, OthersOwed
    <2>. QED
      BY <1>1, <1>3, <1>11, <2>1 DEF Owed
  <1>. QED
    BY <1>3, <1>8, <1>9, <1>10, <1>12 DEF SslIInv

(* epoll_wait returns every event there is.                                *)
LEMMA WaitSsl ==
  ASSUME SslIInv, Wait
  PROVE  SslIInv'
  <1>1. /\ UNCHANGED <<conns, opened, accepts, mode, unread, hungup, missed, told,
                       exited>>
        /\ batch = <<>> /\ edges' = {}
        /\ batch' \in [1 .. Cardinality(edges) -> edges]
        /\ \A i, j \in DOMAIN batch' : batch'[i] = batch'[j] => i = j
    BY DEF Wait
  <1>2. SslTyped /\ Events /\ AtRest /\ Owed
    BY DEF SslIInv
  <1>3. Listed' /\ Numbers' /\ Open' = Open /\ Live' = Live
    BY <1>1, SameConns DEF SslIInv
  <1>4. IsFiniteSet(edges)
    <2>1. IsFiniteSet(Fds \cup {Listener})
      BY SslAssumption, FS_AddElement
    <2>2. edges \in SUBSET (Fds \cup {Listener})
      BY <1>2 DEF Events, Live, Open
    <2>. QED
      BY <2>1, <2>2, FS_Subset
  <1>. DEFINE n == Cardinality(edges)
  <1>5. n \in Nat
    BY <1>4, FS_CardinalityType
  <1>6. Len(batch') = n /\ batch' \in Seq(Sources)
    <2>1. edges \subseteq Sources
      BY <1>2 DEF Events, Live, Open, Sources
    <2>. HIDE DEF n
    <2>2. batch' \in [1 .. n -> Sources]
      BY <1>1, <2>1 DEF n
    <2>. QED
      BY <1>5, <2>2
  <1>7. \A f \in edges : \E i \in 1 .. n : batch'[i] = f
    <2>1. batch' \in Injection(1 .. n, edges)
      BY <1>1 DEF Injection, IsInjective
    <2>2. Cardinality(1 .. n) = n
      <3>. HIDE DEF n
      <3>1. 1 \in Int /\ n \in Int
        BY <1>5
      <3>2. Cardinality(1 .. n) = IF 1 > n THEN 0 ELSE n - 1 + 1
        BY <3>1, FS_Interval
      <3>. QED
        BY <1>5, <3>2
    <2>. DEFINE b == batch'
    <2>. HIDE DEF b
    <2>3. b \in Injection(1 .. n, edges)
      BY <2>1 DEF b
    <2>4. b \in Surjection(1 .. n, edges)
      BY <1>4, <2>2, <2>3, FS_Injection
    <2>. QED
      BY <2>4 DEF Surjection, b
  <1>8. SslTyped'
    BY <1>1, <1>2, <1>6 DEF SslTyped
  <1>9. Events'
    BY <1>1, <1>2, <1>3, <1>5, <1>6 DEF Events
  <1>10. AtRest'
    BY <1>1, <1>2, <1>3 DEF AtRest
  <1>11. Owed'
    <2>. SUFFICES ASSUME NEW f \in Live, ~exited PROVE OwedAt(f)'
      BY <1>1, <1>3 DEF Owed
    <2>1. OwedAt(f) /\ f \in Sources
      BY <1>2 DEF Owed, Live, Open, Sources
    <2>2. unread[f] \in Nat /\ missed[f] \in Nat
      BY <1>2, <2>1 DEF SslTyped
    <2>3. Waits(f)' = Waits(f) /\ Waits(f) \in Nat
      BY <1>1, <2>2 DEF Waits
    <2>4. Len(batch) = 0
      BY <1>1
    <2>5. InHand(f) = 0 /\ Due(f)' = 0
      BY <1>1, <2>4 DEF InHand, Due
    <2>6. Due(f) <= InHand(f)'
      BY <1>6, <1>7 DEF InHand, Due
    <2>7. Due(f) \in 0 .. 1 /\ InHand(f)' \in 0 .. 1
      BY DEF InHand, Due
    <2>. QED
      BY <1>1, <2>1, <2>2, <2>3, <2>5, <2>6, <2>7 DEF OwedAt
  <1>. QED
    BY <1>3, <1>8, <1>9, <1>10, <1>11 DEF SslIInv

(* A connection that is accepted has an entry, a number and a descriptor   *)
(* of its own.                                                             *)
LEMMA AcceptSsl ==
  ASSUME SslIInv, NEW f \in Fds, Accept(f)
  PROVE  SslIInv'
  <1>1. /\ Served(Listener) /\ unread[Listener] > 0
        /\ f \notin Open /\ accepts' = accepts + 1
        /\ opened' = [opened EXCEPT ![f] = accepts + 1]
        /\ conns' = Append(conns, <<f, accepts + 1>>)
        /\ mode' = [mode EXCEPT ![f] = "in"]
        /\ unread' = [unread EXCEPT ![Listener] = @ - 1]
        /\ Misses(Listener, 0)
        /\ UNCHANGED <<hungup, edges, told, exited>>
    BY DEF Accept
  <1>2. SslTyped /\ Listed /\ Numbers /\ Events /\ AtRest /\ Owed
    BY DEF SslIInv
  <1>3. Listener \notin Fds /\ f # Listener /\ f \in Sources /\ Listener \in Sources
    BY SslAssumption DEF Sources
  <1>4. accepts \in Nat /\ opened \in [Fds -> Nat] /\ unread \in [Sources -> Nat]
        /\ mode \in [Sources -> {"in", "out"}] /\ conns \in Seq(Fds \X Nat)
    BY <1>2 DEF SslTyped
  <1>5. \A g \in Fds : opened'[g] = IF g = f THEN accepts + 1 ELSE opened[g]
    BY <1>1, <1>4
  <1>6. \A g \in Sources : unread'[g] = IF g = Listener THEN unread[g] - 1 ELSE unread[g]
    BY <1>1, <1>3, <1>4
  <1>7. Open' = Open \cup {f} /\ opened[f] = 0
    BY <1>1, <1>4, <1>5 DEF Open
  <1>8. /\ ~exited /\ batch' \in Seq(Sources)
        /\ \A i \in 1 .. Len(batch') : batch'[i] \in Live
        /\ \A i, j \in 1 .. Len(batch') : batch'[i] = batch'[j] => i = j
        /\ \A g : g # Listener /\ (\E i \in 1 .. Len(batch) : batch[i] = g)
               => \E i \in 1 .. Len(batch') : batch'[i] = g
    BY <1>1, <1>2, ServedRest
  <1>9. SslTyped'
    <2>1. conns' \in Seq(Fds \X Nat)
      BY <1>1, <1>4
    <2>2. unread' \in [Sources -> Nat]
      BY <1>1, <1>3, <1>4
    <2>4. missed' \in [Sources -> Nat]
      BY <1>1, <1>2, <1>3, <2>2, MissesAt
    <2>3. opened' \in [Fds -> Nat] /\ mode' \in [Sources -> {"in", "out"}]
          /\ accepts' \in Nat /\ exited' \in BOOLEAN
      BY <1>1, <1>2, <1>3, <1>4 DEF SslTyped
    <2>. QED
      BY <1>8, <2>1, <2>2, <2>3, <2>4 DEF SslTyped
  <1>. DEFINE n == Len(conns)
  <1>10. /\ n \in Nat /\ Len(conns') = n + 1
         /\ \A i \in 1 .. n : conns'[i] = conns[i] /\ conns[i] \in Fds \X Nat
         /\ conns'[n + 1] = <<f, accepts + 1>>
    BY <1>1, <1>4
  <1>11. \A i \in 1 .. n : conns[i][1] \in Open /\ conns[i][1] # f
    <2>1. ASSUME NEW i \in 1 .. n
          PROVE  conns[i][1] \in Open /\ conns[i][1] # f
      <3>1. conns[i][1] \in Fds
        BY <1>10
      <3>2. opened[conns[i][1]] # 0
        BY <1>2 DEF Listed
      <3>. QED
        BY <1>7, <3>1, <3>2 DEF Open
    <2>. QED
      BY <2>1
  <1>12. conns'[n + 1][1] = f /\ conns'[n + 1][2] = accepts + 1
    BY <1>10
  <1>13. \A i \in 1 .. n + 1 : i \in 1 .. n \/ i = n + 1
    BY <1>10
  <1>14. Listed'
    <2>1. \A i \in 1 .. n : conns[i][2] = opened[conns[i][1]] /\ conns[i][2] # 0
      BY <1>2 DEF Listed
    <2>. HIDE DEF n
    <2>2. \A i \in 1 .. n : conns'[i][2] = opened'[conns'[i][1]] /\ conns'[i][2] # 0
      BY <1>5, <1>10, <1>11, <2>1 DEF Open
    <2>3. \A i \in 1 .. n + 1 :
             conns'[i][2] = opened'[conns'[i][1]] /\ conns'[i][2] # 0
      BY <1>4, <1>5, <1>12, <1>13, <2>2
    <2>4. \A g \in Open' : \E i \in 1 .. n + 1 : conns'[i][1] = g
      <3>1. ASSUME NEW g \in Open PROVE \E i \in 1 .. n + 1 : conns'[i][1] = g
        <4>1. PICK i \in 1 .. n : conns[i][1] = g
          BY <1>2 DEF Listed, n
        <4>2. i \in 1 .. n + 1 /\ conns'[i][1] = g
          BY <1>10, <4>1
        <4>. QED
          BY <4>2
      <3>2. n + 1 \in 1 .. n + 1
        BY <1>10
      <3>. QED
        BY <1>7, <1>12, <3>1, <3>2
    <2>5. \A i, j \in 1 .. n : conns'[i][1] = conns'[j][1] => i = j
      BY <1>2, <1>10 DEF Listed, n
    <2>6. \A i \in 1 .. n : conns'[i][1] # f
      BY <1>10, <1>11
    <2>7. \A i, j \in 1 .. n + 1 : conns'[i][1] = conns'[j][1] => i = j
      BY <1>12, <1>13, <2>5, <2>6
    <2>. QED
      BY <1>10, <2>3, <2>4, <2>7 DEF Listed
  <1>15. Numbers'
    <2>1. \A g \in Fds : opened[g] <= accepts /\ opened[g] \in Nat
      BY <1>2, <1>4 DEF Numbers
    <2>2. \A g \in Fds : opened'[g] <= accepts'
      BY <1>1, <1>4, <1>5, <2>1
    <2>3. \A g, h \in Open' : opened'[g] = opened'[h] => g = h
      <3>1. \A g \in Open : opened'[g] = opened[g] /\ opened'[g] # accepts + 1
        BY <1>1, <1>4, <1>5, <2>1 DEF Open
      <3>2. opened'[f] = accepts + 1
        BY <1>5
      <3>. QED
        BY <1>2, <1>7, <3>1, <3>2 DEF Numbers
    <2>4. told' = (1 .. accepts') \ {opened'[g] : g \in Fds}
      <3>1. \A k \in 1 .. accepts : (\E g \in Fds : k = opened'[g]) <=>
                                    (\E g \in Fds : k = opened[g])
        <4>1. \A k \in 1 .. accepts : k # 0 /\ k # accepts + 1
          BY <1>4
        <4>. QED
          BY <1>5, <1>7, <4>1
      <3>2. \A k : k \in 1 .. accepts' <=> k \in 1 .. accepts \/ k = accepts + 1
        BY <1>1, <1>4
      <3>3. accepts + 1 = opened'[f]
        BY <1>5
      <3>. QED
        BY <1>1, <1>2, <3>1, <3>2, <3>3 DEF Numbers
    <2>. QED
      BY <2>2, <2>3, <2>4 DEF Numbers
  <1>16. Live' = Live \cup {f} /\ f \notin hungup
    BY <1>1, <1>2, <1>7 DEF Live, Events
  <1>17. Events'
    BY <1>1, <1>2, <1>7, <1>8, <1>16 DEF Events
  <1>18. Live \subseteq Sources /\ Listener \in Live /\ Listener \notin hungup
    BY <1>2, <1>3 DEF Live, Open, Sources, Events
  <1>19. AtRest'
    <2>1. \A g \in Fds \ Open' : g \in Sources /\ g # Listener /\ unread[g] = 0
      BY <1>2, <1>3, <1>7 DEF AtRest, Sources
    <2>2. mode'[Listener] = "in"
      BY <1>1, <1>2, <1>3, <1>4 DEF AtRest
    <2>. QED
      BY <1>6, <2>1, <2>2 DEF AtRest
  <1>20. /\ \A g \in Sources : g # Listener => missed'[g] = missed[g]
         /\ Waits(Listener)' <= missed'[Listener] \/ missed'[Listener] = missed[Listener]
         /\ missed \in [Sources -> Nat] /\ missed' \in [Sources -> Nat]
    <2>1. unread' \in [Sources -> Nat]
      BY <1>9 DEF SslTyped
    <2>2. missed[Listener] + 0 = missed[Listener]
      BY <1>2, <1>3 DEF SslTyped
    <2>. QED
      BY <1>1, <1>2, <1>3, <2>1, <2>2, MissesAt DEF SslTyped
  <1>21. OwedAt(Listener)'
    <2>1. OwedAt(Listener) /\ mode[Listener] = "in" /\ mode'[Listener] = "in"
      BY <1>2, <1>8, <1>18, <1>19 DEF Owed, AtRest
    <2>2. /\ Waits(Listener)' = Waits(Listener) - 1 /\ Waits(Listener) \in Nat
          /\ unread[Listener] \in Nat
      BY <1>1, <1>3, <1>4, <1>6, <1>18 DEF Waits
    <2>3. /\ Due(Listener)' = Due(Listener) /\ Due(Listener) \in 0 .. 1
          /\ InHand(Listener) \in 0 .. 1 /\ InHand(Listener)' \in 0 .. 1
      BY <1>1 DEF Due, InHand
    <2>4. missed[Listener] \in Nat /\ missed'[Listener] \in Nat
      BY <1>3, <1>20
    <2>. QED
      BY <1>20, <2>1, <2>2, <2>3, <2>4 DEF OwedAt
  <1>22. OwedAt(f)'
    <2>1. Waits(f)' = 0
      BY <1>1, <1>2, <1>3, <1>6, <1>16 DEF Waits, AtRest
    <2>2. missed'[f] \in Nat /\ Due(f)' \in 0 .. 1 /\ InHand(f)' \in 0 .. 1
      BY <1>3, <1>20 DEF Due, InHand
    <2>. QED
      BY <2>1, <2>2 DEF OwedAt
  <1>23. Owed'
    <2>1. \A g \in Live : g # f /\ g # Listener => OwedAt(g)'
      <3>. SUFFICES ASSUME NEW g \in Live, g # f, g # Listener PROVE OwedAt(g)'
        OBVIOUS
      <3>1. g \in Sources /\ OwedAt(g) /\ unread[g] \in Nat /\ missed[g] \in Nat
        BY <1>2, <1>4, <1>8, <1>18, <1>20 DEF Owed
      <3>2. unread'[g] = unread[g] /\ missed'[g] = missed[g] /\ mode'[g] = mode[g]
        BY <1>1, <1>4, <1>6, <1>20, <3>1
      <3>. QED
        BY <1>1, <1>8, <3>1, <3>2, OthersOwed
    <2>. QED
      BY <1>16, <1>21, <1>22, <2>1 DEF Owed
  <1>. QED
    BY <1>9, <1>14, <1>15, <1>17, <1>19, <1>23 DEF SslIInv

(* A step that serves f and leaves the connections as they are: what it    *)
(* has to show is that f is owed no more than its events and its account.  *)
LEMMA ServeSsl ==
  ASSUME SslIInv, NEW f \in Sources, Served(f),
         UNCHANGED <<conns, opened, accepts, hungup, told, exited>>,
         unread' \in [Sources -> Nat], missed' \in [Sources -> Nat],
         mode' \in [Sources -> {"in", "out"}], edges' \subseteq edges \cup {f},
         \A g \in Sources : g # f =>
            /\ unread'[g] = unread[g] /\ missed'[g] = missed[g] /\ mode'[g] = mode[g]
            /\ g \in edges => g \in edges',
         f = Listener => mode'[f] = "in",
         OwedAt(f)'
  PROVE  SslIInv'
  <1>1. SslTyped /\ Listed /\ Numbers /\ Events /\ AtRest /\ Owed
    BY DEF SslIInv
  <1>2. Listed' /\ Numbers' /\ Open' = Open /\ Live' = Live
    BY <1>1, SameConns
  <1>3. /\ ~exited /\ f \in Live /\ batch' \in Seq(Sources)
        /\ \A i \in 1 .. Len(batch') : batch'[i] \in Live
        /\ \A i, j \in 1 .. Len(batch') : batch'[i] = batch'[j] => i = j
        /\ \A g : g # f /\ (\E i \in 1 .. Len(batch) : batch[i] = g)
               => \E i \in 1 .. Len(batch') : batch'[i] = g
    <2>1. Served(f)
      OBVIOUS
    <2>. QED
      BY ONLY <1>1, <2>1, ServedRest
  <1>4. SslTyped'
    BY <1>1, <1>3 DEF SslTyped
  <1>5. Events'
    BY <1>1, <1>2, <1>3 DEF Events
  <1>6. AtRest'
    <2>1. f \notin Fds \ Open
      BY <1>3, SslAssumption DEF Live
    <2>2. Listener \in Sources /\ Fds \subseteq Sources
      BY DEF Sources
    <2>. QED
      BY <1>1, <1>2, <2>1, <2>2 DEF AtRest
  <1>7. \A g \in Live : g # f => OwedAt(g)'
    <2>. SUFFICES ASSUME NEW g \in Live, g # f PROVE OwedAt(g)'
      OBVIOUS
    <2>1. g \in Sources /\ OwedAt(g)
      BY <1>1, <1>3 DEF Owed, Live, Open, Sources
    <2>2. unread[g] \in Nat /\ missed[g] \in Nat
      BY <1>1, <2>1 DEF SslTyped
    <2>. QED
      BY <1>3, <2>1, <2>2, OthersOwed
  <1>8. Owed'
    BY <1>2, <1>7 DEF Owed
  <1>. QED
    BY <1>2, <1>4, <1>5, <1>6, <1>8 DEF SslIInv

(* What ssls_event_mod leaves: an event where something waits.             *)
LEMMA RegisteredLeaves ==
  ASSUME SslTyped, NEW f \in Sources, NEW m \in {"in", "out"}, Registered(f, m),
         unread' \in [Sources -> Nat], hungup' = hungup
  PROVE  /\ mode' \in [Sources -> {"in", "out"}] /\ edges' \subseteq edges \cup {f}
         /\ \A g \in Sources : g # f => mode'[g] = mode[g] /\ (g \in edges => g \in edges')
         /\ mode'[f] = m
         /\ Waits(f)' = 0 \/ f \in edges'
  <1>1. mode \in [Sources -> {"in", "out"}] /\ unread'[f] \in Nat
    BY DEF SslTyped
  <1>2. /\ mode' \in [Sources -> {"in", "out"}] /\ edges' \subseteq edges \cup {f}
        /\ \A g \in Sources : g # f => mode'[g] = mode[g] /\ (g \in edges => g \in edges')
        /\ mode'[f] = m
    BY <1>1 DEF Registered
  <1>3. Waits(f)' = 0 \/ f \in edges'
    BY <1>1 DEF Registered, Waits
  <1>. QED
    BY <1>2, <1>3

(* A read that takes a record, or is put on the account, or leaves nothing *)
(* waiting, whatever its callback does to the registration.                *)
LEMMA ReadSsl ==
  ASSUME SslIInv, NEW f \in Fds, NEW n \in {0, 1}, Served(f), mode[f] = "in",
         UNCHANGED <<conns, opened, accepts, hungup, told, exited>>,
         unread' \in [Sources -> Nat],
         \A g \in Sources : g # f => unread'[g] = unread[g],
         Misses(f, n), CallbackRegisters(f),
         unread'[f] + 1 <= unread[f] + n \/ Waits(f)' = 0
  PROVE  SslIInv'
  <1>1. SslTyped /\ Events /\ Owed
    BY DEF SslIInv
  <1>2. ~exited /\ f \in Live /\ \A i \in 1 .. Len(batch') : batch'[i] # f
    BY <1>1, ServedRest
  <1>3. /\ f \in Sources /\ f # Listener /\ unread[f] \in Nat /\ unread'[f] \in Nat
        /\ missed[f] \in Nat /\ mode \in [Sources -> {"in", "out"}]
    BY <1>1, SslAssumption DEF SslTyped, Sources
  <1>4. /\ missed' \in [Sources -> Nat]
        /\ \A g \in Sources : g # f => missed'[g] = missed[g]
        /\ Waits(f)' <= missed'[f] \/ missed'[f] = missed[f] + n
    BY <1>1, <1>3, MissesAt
  <1>5. /\ mode' \in [Sources -> {"in", "out"}] /\ edges' \subseteq edges \cup {f}
        /\ \A g \in Sources : g # f => mode'[g] = mode[g] /\ (g \in edges => g \in edges')
        /\ (UNCHANGED <<mode, edges>>) \/ Waits(f)' = 0 \/ f \in edges'
    <2>1. CASE UNCHANGED <<mode, edges>>
      BY <1>3, <2>1
    <2>2. CASE \E m \in {"in", "out"} : Registered(f, m)
      BY <1>1, <1>3, <2>2, RegisteredLeaves
    <2>. QED
      BY <2>1, <2>2 DEF CallbackRegisters
  <1>6. OwedAt(f)'
    <2>1. OwedAt(f) /\ missed'[f] \in Nat
      BY <1>1, <1>2, <1>3, <1>4 DEF Owed
    <2>2. /\ Due(f) \in 0 .. 1 /\ Due(f)' \in 0 .. 1 /\ InHand(f) \in 0 .. 1
          /\ InHand(f)' = 0
      BY <1>2 DEF Due, InHand
    <2>3. /\ Waits(f) \in Nat /\ Waits(f)' \in Nat
          /\ Waits(f)' + 1 <= Waits(f) + n \/ Waits(f)' = 0
      BY <1>3 DEF Waits
    <2>4. Waits(f)' <= missed'[f] + Due(f)
      BY <1>3, <1>4, <2>1, <2>2, <2>3 DEF OwedAt
    <2>5. CASE UNCHANGED <<mode, edges>>
      <3>1. Due(f)' = Due(f)
        BY <2>5 DEF Due
      <3>. QED
        BY <2>1, <2>2, <2>3, <2>4, <2>5, <3>1 DEF OwedAt
    <2>6. CASE Waits(f)' = 0
      BY <2>1, <2>2, <2>6 DEF OwedAt
    <2>7. CASE f \in edges'
      <3>1. Due(f)' = 1
        BY <2>7 DEF Due
      <3>. QED
        BY <2>1, <2>2, <2>3, <2>4, <3>1 DEF OwedAt
    <2>. QED
      BY <1>5, <2>5, <2>6, <2>7
  <1>. QED
    BY <1>3, <1>4, <1>5, <1>6, ServeSsl

LEMMA AcceptNoneSsl ==
  ASSUME SslIInv, AcceptNone
  PROVE  SslIInv'
  <1>1. /\ Served(Listener) /\ Misses(Listener, 1)
        /\ UNCHANGED <<conns, opened, accepts, mode, unread, hungup, edges, told, exited>>
    BY DEF AcceptNone
  <1>2. SslTyped /\ Events /\ AtRest /\ Owed
    BY DEF SslIInv
  <1>3. Listener \in Sources /\ Listener \in Live /\ ~exited
    BY <1>1 DEF Sources, Live, Served, Running
  <1>4. /\ unread \in [Sources -> Nat] /\ missed \in [Sources -> Nat]
        /\ mode \in [Sources -> {"in", "out"}]
    BY <1>2 DEF SslTyped
  <1>5. /\ missed' \in [Sources -> Nat]
        /\ \A g \in Sources : g # Listener => missed'[g] = missed[g]
        /\ Waits(Listener)' <= missed'[Listener] \/ missed'[Listener] = missed[Listener] + 1
    BY <1>1, <1>2, <1>3, <1>4, MissesAt
  <1>6. OwedAt(Listener)'
    <2>1. OwedAt(Listener) /\ mode[Listener] = "in"
      BY <1>2, <1>3 DEF Owed, AtRest
    <2>2. Waits(Listener)' = Waits(Listener) /\ Waits(Listener) \in Nat
      BY <1>1, <1>3, <1>4 DEF Waits
    <2>3. /\ Due(Listener)' = Due(Listener) /\ Due(Listener) \in 0 .. 1
          /\ InHand(Listener) \in 0 .. 1 /\ InHand(Listener)' \in 0 .. 1
      BY <1>1 DEF Due, InHand
    <2>4. missed[Listener] \in Nat /\ missed'[Listener] \in Nat
      BY <1>3, <1>4, <1>5
    <2>. QED
      BY <1>1, <1>5, <2>1, <2>2, <2>3, <2>4 DEF OwedAt
  <1>. QED
    BY <1>1, <1>2, <1>3, <1>4, <1>5, <1>6, ServeSsl DEF AtRest

LEMMA ReadPieceSsl ==
  ASSUME SslIInv, NEW f \in Fds, ReadPiece(f)
  PROVE  SslIInv'
  <1>1. /\ Served(f) /\ mode[f] = "in" /\ Misses(f, 1) /\ CallbackRegisters(f)
        /\ UNCHANGED <<conns, opened, accepts, unread, hungup, told, exited>>
    BY DEF ReadPiece
  <1>2. unread \in [Sources -> Nat] /\ unread[f] \in Nat
    BY DEF SslIInv, SslTyped, Sources
  <1>3. unread'[f] + 1 <= unread[f] + 1
    BY <1>1, <1>2
  <1>. QED
    BY <1>1, <1>2, <1>3, ReadSsl

LEMMA ReadRecordSsl ==
  ASSUME SslIInv, NEW f \in Fds, ReadRecord(f)
  PROVE  SslIInv'
  <1>1. /\ Served(f) /\ mode[f] = "in" /\ Misses(f, 0) /\ CallbackRegisters(f)
        /\ UNCHANGED <<conns, opened, accepts, hungup, told, exited>>
        /\ \E k \in 0 .. unread[f] - 1 : unread' = [unread EXCEPT ![f] = k]
    BY DEF ReadRecord
  <1>2. unread \in [Sources -> Nat] /\ unread[f] \in Nat /\ f \in Sources
    BY DEF SslIInv, SslTyped, Sources
  <1>3. /\ unread' \in [Sources -> Nat] /\ unread'[f] + 1 <= unread[f] + 0
        /\ \A g \in Sources : g # f => unread'[g] = unread[g]
    BY <1>1, <1>2
  <1>. QED
    BY <1>1, <1>3, ReadSsl

LEMMA ReadWantsReadSsl ==
  ASSUME SslIInv, NEW f \in Fds, ReadWantsRead(f)
  PROVE  SslIInv'
  <1>1. /\ Served(f) /\ mode[f] = "in" /\ Misses(f, 0) /\ f \notin hungup
        /\ UNCHANGED <<conns, opened, accepts, hungup, told, exited>>
        /\ UNCHANGED <<mode, edges>> /\ unread' = [unread EXCEPT ![f] = 0]
    BY DEF ReadWantsRead
  <1>2. unread \in [Sources -> Nat] /\ f \in Sources
    BY DEF SslIInv, SslTyped, Sources
  <1>3. /\ unread' \in [Sources -> Nat] /\ unread'[f] = 0
        /\ \A g \in Sources : g # f => unread'[g] = unread[g]
    BY <1>1, <1>2
  <1>4. Waits(f)' = 0
    BY <1>1, <1>3 DEF Waits
  <1>5. CallbackRegisters(f)
    BY <1>1 DEF CallbackRegisters
  <1>. QED
    BY <1>1, <1>3, <1>4, <1>5, ReadSsl

LEMMA ReadWantsWriteSsl ==
  ASSUME SslIInv, NEW f \in Fds, ReadWantsWrite(f)
  PROVE  SslIInv'
  <1>. DEFINE n == IF unread' = unread THEN 1 ELSE 0
  <1>1. /\ Served(f) /\ mode[f] = "in" /\ Misses(f, n)
        /\ UNCHANGED <<conns, opened, accepts, hungup, told, exited>>
        /\ UNCHANGED <<mode, edges>>
        /\ \/ \E k \in 0 .. unread[f] - 1 : unread' = [unread EXCEPT ![f] = k]
           \/ unread' = unread
    BY DEF ReadWantsWrite
  <1>2. unread \in [Sources -> Nat] /\ unread[f] \in Nat /\ f \in Sources
    BY DEF SslIInv, SslTyped, Sources
  <1>3. /\ unread' \in [Sources -> Nat] /\ unread'[f] + 1 <= unread[f] + n
        /\ \A g \in Sources : g # f => unread'[g] = unread[g]
    BY <1>1, <1>2
  <1>4. CallbackRegisters(f) /\ n \in {0, 1}
    BY <1>1 DEF CallbackRegisters
  <1>. HIDE DEF n
  <1>. QED
    BY <1>1, <1>3, <1>4, ReadSsl

(* A connection that ends is told and leaves the list.                     *)
LEMMA ReadEndSsl ==
  ASSUME SslIInv, NEW f \in Fds, ReadEnd(f)
  PROVE  SslIInv'
  <1>1. /\ Served(f) /\ Misses(f, 0) /\ unread' = [unread EXCEPT ![f] = 0]
        /\ UNCHANGED <<accepts, mode>>
    BY DEF ReadEnd
  <1>2. SslTyped /\ Listed /\ Numbers /\ Events /\ AtRest /\ Owed
    BY DEF SslIInv
  <1>3. /\ ~exited /\ f \in Live /\ batch' \in Seq(Sources)
        /\ \A i \in 1 .. Len(batch') : batch'[i] \in Live /\ batch'[i] # f
        /\ \A i, j \in 1 .. Len(batch') : batch'[i] = batch'[j] => i = j
        /\ \A g : g # f /\ (\E i \in 1 .. Len(batch) : batch[i] = g)
               => \E i \in 1 .. Len(batch') : batch'[i] = g
    BY <1>1, <1>2, ServedRest
  <1>5. /\ told' = told \cup {ssls_get_connection(f)}
        /\ conns' = Drop(f)
        /\ opened' = [opened EXCEPT ![f] = 0]
        /\ hungup' = hungup \ {f} /\ edges' = edges \ {f}
        /\ exited' = exited
    BY DEF ReadEnd
  <1>6. /\ unread \in [Sources -> Nat] /\ unread' \in [Sources -> Nat] /\ f \in Sources
        /\ \A g \in Sources : unread'[g] = IF g = f THEN 0 ELSE unread[g]
    BY <1>1, <1>2 DEF SslTyped, Sources
  <1>7. /\ missed \in [Sources -> Nat] /\ missed' \in [Sources -> Nat]
        /\ \A g \in Sources : g # f => missed'[g] = missed[g]
    BY <1>1, <1>2, <1>6, MissesAt DEF SslTyped
  <1>11. conns \in Seq(Fds \X Nat) /\ opened \in [Fds -> Nat] /\ accepts \in Nat
    BY <1>2 DEF SslTyped
  <1>12. f \in Open
    BY <1>3, SslAssumption DEF Live
  <1>13. PICK a \in 1 .. Len(conns) :
            /\ conns[a][1] = f /\ ssls_get_connection(f) = opened[f]
            /\ conns' = Without(conns, a)
    BY <1>2, <1>5, <1>12, FirstEntry
  <1>14. conns' \in Seq(Fds \X Nat)
    BY <1>11, <1>13, WithoutEntry
  <1>15. Others(conns', conns, a)
    <2>. DEFINE c == conns'
    <2>1. c = Without(conns, a)
      BY <1>13
    <2>. HIDE DEF c
    <2>2. Others(c, conns, a)
      BY <1>11, <2>1, OthersStay
    <2>. QED
      BY <2>2 DEF c
  <1>16. \A g \in Fds : opened'[g] = IF g = f THEN 0 ELSE opened[g]
    BY <1>5, <1>11
  <1>17. Open' = Open \ {f} /\ opened[f] # 0 /\ opened[f] \in Nat
    BY <1>11, <1>12, <1>16 DEF Open
  <1>18. SslTyped'
    <2>1. opened' \in [Fds -> Nat]
      BY <1>5, <1>11
    <2>. QED
      BY <1>1, <1>2, <1>3, <1>5, <1>6, <1>7, <1>14, <2>1 DEF SslTyped
  <1>19. Listed'
    <2>1. \A k \in 1 .. Len(conns) : conns[k][1] \in Fds
      BY <1>11
    <2>2. \A k \in 1 .. Len(conns) : k # a => conns[k][1] # f
      BY <1>2, <1>13 DEF Listed
    <2>3. \A k \in 1 .. Len(conns) : k # a =>
              conns[k][2] = opened'[conns[k][1]] /\ conns[k][2] # 0
      BY <1>2, <1>16, <2>1, <2>2 DEF Listed
    <2>4. \A i \in 1 .. Len(conns') :
              conns'[i][2] = opened'[conns'[i][1]] /\ conns'[i][2] # 0
      <3>1. ASSUME NEW i \in 1 .. Len(conns')
            PROVE  conns'[i][2] = opened'[conns'[i][1]] /\ conns'[i][2] # 0
        <4>1. PICK k \in 1 .. Len(conns) : k # a /\ conns'[i] = conns[k]
          BY <1>15, <3>1 DEF Others
        <4>. QED
          BY <2>3, <4>1
      <3>. QED
        BY <3>1
    <2>5. ASSUME NEW g \in Open'
          PROVE  \E i \in 1 .. Len(conns') : conns'[i][1] = g
      <3>1. PICK k \in 1 .. Len(conns) : conns[k][1] = g
        BY <1>2, <1>17 DEF Listed
      <3>2. k # a
        BY <1>13, <1>17, <3>1
      <3>. QED
        BY <1>15, <3>1, <3>2 DEF Others
    <2>6. ASSUME NEW i \in 1 .. Len(conns'), NEW j \in 1 .. Len(conns'),
                 conns'[i][1] = conns'[j][1], i # j
          PROVE  FALSE
      <3>1. PICK k, l \in 1 .. Len(conns) :
                k # l /\ conns'[i] = conns[k] /\ conns'[j] = conns[l]
        BY <1>15, <2>6 DEF Others
      <3>2. conns[k][1] = conns[l][1]
        BY <2>6, <3>1
      <3>. QED
        BY <1>2, <3>1, <3>2 DEF Listed
    <2>. QED
      BY <2>4, <2>5, <2>6 DEF Listed
  <1>20. Numbers'
    <2>1. \A g \in Fds : opened'[g] <= accepts'
      <3>1. \A g \in Fds : opened[g] <= accepts
        BY <1>2 DEF Numbers
      <3>2. opened'[f] = 0 /\ \A g \in Fds : g # f => opened'[g] = opened[g]
        BY <1>11, <1>16
      <3>3. accepts' = accepts /\ accepts \in Nat
        BY <1>1, <1>2, <1>11 DEF SslTyped
      <3>. QED
        BY <3>1, <3>2, <3>3
    <2>2. \A g, h \in Open' : opened'[g] = opened'[h] => g = h
      BY <1>2, <1>16, <1>17 DEF Numbers, Open
    <2>3. told' = (1 .. accepts') \ {opened'[g] : g \in Fds}
      <3>1. opened[f] \in 1 .. accepts
        BY <1>2, <1>11, <1>17 DEF Numbers
      <3>2. \A k \in 1 .. accepts : (\E g \in Fds : k = opened'[g]) <=>
                (\E g \in Fds : k = opened[g]) /\ k # opened[f]
        <4>1. \A k \in 1 .. accepts : k # 0
          BY <1>11
        <4>2. ASSUME NEW k \in 1 .. accepts, NEW g \in Fds, k = opened'[g]
              PROVE  (\E h \in Fds : k = opened[h]) /\ k # opened[f]
          <5>1. g # f /\ k = opened[g] /\ g \in Open
            BY <1>16, <4>1, <4>2 DEF Open
          <5>. QED
            BY <1>2, <1>12, <5>1 DEF Numbers
        <4>3. ASSUME NEW k \in 1 .. accepts, NEW g \in Fds, k = opened[g], k # opened[f]
              PROVE  \E h \in Fds : k = opened'[h]
          BY <1>16, <4>3
        <4>. QED
          BY <4>2, <4>3
      <3>3. told' = told \cup {opened[f]} /\ accepts' = accepts
        BY <1>1, <1>5, <1>13
      <3>4. told = (1 .. accepts) \ {opened[g] : g \in Fds}
        BY <1>2 DEF Numbers
      <3>. QED
        BY <3>1, <3>2, <3>3, <3>4
    <2>. QED
      BY <2>1, <2>2, <2>3 DEF Numbers
  <1>21. Live' = Live \ {f}
    BY <1>17, SslAssumption DEF Live
  <1>22. Events'
    BY <1>2, <1>3, <1>5, <1>17, <1>21 DEF Events
  <1>23. AtRest'
    BY <1>1, <1>2, <1>6, <1>17, SslAssumption DEF AtRest, Sources
  <1>24. Owed'
    <2>. SUFFICES ASSUME NEW g \in Live' PROVE OwedAt(g)'
      BY DEF Owed
    <2>1. g \in Live /\ g # f /\ g \in Sources
      BY <1>21 DEF Live, Open, Sources
    <2>2. OwedAt(g) /\ unread[g] \in Nat /\ missed[g] \in Nat
      BY <1>2, <1>3, <1>6, <1>7, <2>1 DEF Owed
    <2>. QED
      BY <1>1, <1>3, <1>5, <1>6, <1>7, <2>1, <2>2, OthersOwed
  <1>. QED
    BY <1>18, <1>19, <1>20, <1>22, <1>23, <1>24 DEF SslIInv

(* A connection that ends without notice ends the program.                 *)
LEMMA ReadEofSsl ==
  ASSUME SslIInv, NEW f \in Fds, ReadEof(f)
  PROVE  SslIInv'
  <1>1. /\ Served(f) /\ exited' = TRUE
        /\ UNCHANGED <<conns, opened, accepts, mode, unread, hungup, edges, missed, told>>
    BY DEF ReadEof
  <1>2. SslTyped /\ Listed /\ Numbers /\ Events /\ AtRest
    BY DEF SslIInv
  <1>3. /\ batch' \in Seq(Sources)
        /\ \A i \in 1 .. Len(batch') : batch'[i] \in Live
        /\ \A i, j \in 1 .. Len(batch') : batch'[i] = batch'[j] => i = j
    BY <1>1, <1>2, ServedRest
  <1>4. Listed' /\ Numbers' /\ Open' = Open /\ Live' = Live
    BY <1>1, <1>2, SameConns
  <1>5. SslTyped'
    BY <1>1, <1>2, <1>3 DEF SslTyped
  <1>6. Events' /\ AtRest'
    BY <1>1, <1>2, <1>3, <1>4 DEF Events, AtRest
  <1>7. Owed'
    BY <1>1 DEF Owed
  <1>. QED
    BY <1>4, <1>5, <1>6, <1>7 DEF SslIInv

LEMMA WritableSsl ==
  ASSUME SslIInv, NEW f \in Fds, Writable(f)
  PROVE  SslIInv'
  <1>1. /\ Served(f) /\ mode[f] = "out"
        /\ (UNCHANGED <<mode, edges>>) \/ Registered(f, "in")
        /\ UNCHANGED <<conns, opened, accepts, unread, hungup, missed, told, exited>>
    BY DEF Writable
  <1>2. SslTyped /\ Events /\ Owed
    BY DEF SslIInv
  <1>3. f \in Live /\ ~exited
    BY <1>1, <1>2, ServedRest
  <1>4. /\ f \in Sources /\ f # Listener /\ unread \in [Sources -> Nat]
        /\ missed \in [Sources -> Nat] /\ mode \in [Sources -> {"in", "out"}]
    BY <1>2, SslAssumption DEF SslTyped, Sources
  <1>5. /\ mode' \in [Sources -> {"in", "out"}] /\ edges' \subseteq edges \cup {f}
        /\ \A g \in Sources : g # f => mode'[g] = mode[g] /\ (g \in edges => g \in edges')
        /\ mode'[f] = "in" => Waits(f)' = 0 \/ f \in edges'
    <2>1. CASE UNCHANGED <<mode, edges>>
      BY <1>1, <1>4, <2>1
    <2>2. CASE Registered(f, "in")
      BY <1>1, <1>2, <1>4, <2>2, RegisteredLeaves
    <2>. QED
      BY <1>1, <2>1, <2>2
  <1>6. OwedAt(f)'
    <2>1. Waits(f)' = Waits(f) /\ Waits(f) \in Nat /\ missed[f] \in Nat
      BY <1>1, <1>4 DEF Waits
    <2>2. OwedAt(f)
      BY <1>2, <1>3 DEF Owed
    <2>3. Waits(f) <= missed[f] + 1
      BY <1>1, <2>2 DEF OwedAt
    <2>4. InHand(f)' \in 0 .. 1 /\ Due(f)' \in 0 .. 1 /\ (f \in edges' => Due(f)' = 1)
      BY DEF InHand, Due
    <2>. QED
      BY <1>1, <1>5, <2>1, <2>3, <2>4 DEF OwedAt
  <1>. QED
    BY <1>1, <1>4, <1>5, <1>6, ServeSsl

LEMMA NextSsl ==
  ASSUME SslIInv, [SslNext]_sslVars
  PROVE  SslIInv'
  <1>1. CASE UNCHANGED sslVars
    <2>1. UNCHANGED <<conns, opened, accepts, mode, unread, hungup, edges, batch,
                      missed, told, exited>>
      BY <1>1 DEF sslVars
    <2>2. Listed' /\ Numbers' /\ Open' = Open /\ Live' = Live
      BY <2>1, SameConns DEF SslIInv
    <2>3. SslTyped'
      BY <2>1 DEF SslIInv, SslTyped
    <2>4. Events' /\ AtRest'
      BY <2>1, <2>2 DEF SslIInv, Events, AtRest
    <2>5. Owed'
      BY <2>1, <2>2 DEF SslIInv, Owed, OwedAt, Waits, Due, InHand
    <2>. QED
      BY <2>2, <2>3, <2>4, <2>5 DEF SslIInv
  <1>. QED
    BY <1>1, ArriveSsl, WaitSsl, AcceptSsl, AcceptNoneSsl, ReadPieceSsl,
       ReadRecordSsl, ReadWantsReadSsl, ReadWantsWriteSsl, ReadEndSsl, ReadEofSsl,
       WritableSsl DEF SslNext

(* The loop of the SSL server serves the clients that its events name,     *)
(* through accepts, reads, closes and descriptors used again (the loop of  *)
(* ssls_server_loop): the list finds the connection of each descriptor,    *)
(* cb_close is called for those that are gone, and what waits with no      *)
(* event to come is what the account of lost events holds.                 *)
THEOREM SslLoopServes == SslSpec => []SslServed
  <1>1. SslIInv /\ [SslNext]_sslVars => SslIInv'
    BY NextSsl
  <1>2. SslIInv => SslServed
    <2>. SUFFICES ASSUME SslIInv PROVE SslServed
      OBVIOUS
    <2>1. SslTyped /\ Listed /\ Numbers /\ Events /\ Owed
      BY DEF SslIInv
    <2>2. \A f \in Fds : ssls_get_connection(f) = opened[f]
      <3>1. ASSUME NEW f \in Fds, f \notin Open
            PROVE  ssls_get_connection(f) = opened[f]
        <4>1. \A i \in 1 .. Len(conns) : conns[i][1] # f
          BY <2>1, <3>1 DEF Listed, Open
        <4>2. DOMAIN conns = 1 .. Len(conns)
          BY <2>1 DEF SslTyped
        <4>. QED
          BY <3>1, <4>1, <4>2 DEF ssls_get_connection, Open
      <3>2. ASSUME NEW f \in Open
            PROVE  ssls_get_connection(f) = opened[f]
        BY <2>1, FirstEntry
      <3>. QED
        BY <3>1, <3>2
    <2>3. Len(conns) = Cardinality(Open)
      <3>1. conns \in Seq(Fds \X Nat) /\ Len(conns) \in Nat
        BY <2>1 DEF SslTyped
      <3>. DEFINE n == Len(conns)
                  s == [i \in 1 .. n |-> conns[i][1]]
      <3>2. \A i \in 1 .. n : conns[i][1] \in Fds /\ conns[i][1] \in Open
        BY <2>1, <3>1 DEF Listed, Open
      <3>3. \A i, j \in 1 .. n : conns[i][1] = conns[j][1] => i = j
        BY <2>1 DEF Listed
      <3>4. \A f \in Open : \E i \in 1 .. n : conns[i][1] = f
        BY <2>1 DEF Listed
      <3>5. n \in Nat
        BY <3>1
      <3>. HIDE DEF n
      <3>6. s \in Seq(Fds) /\ Len(s) = n /\ \A i \in 1 .. n : s[i] = conns[i][1]
        BY <3>2, <3>5
      <3>. HIDE DEF s
      <3>7. \A i, j \in 1 .. Len(s) : s[i] = s[j] => i = j
        BY <3>3, <3>6
      <3>8. Cardinality({s[i] : i \in 1 .. Len(s)}) = Len(s)
        BY <3>6, <3>7, DistinctCount
      <3>9. {s[i] : i \in 1 .. Len(s)} = Open
        BY <3>2, <3>4, <3>6
      <3>. QED
        BY <3>6, <3>8, <3>9 DEF n
    <2>4. SslConnsAgree
      BY <2>1, <2>2, <2>3 DEF SslConnsAgree, Numbers
    <2>5. EdgesServed
      <3>. SUFFICES ASSUME ~exited, batch = <<>>, edges = {}, NEW f \in Live,
                           mode[f] = "in"
                    PROVE  Waits(f) <= missed[f]
        BY DEF EdgesServed, Running, Live
      <3>1. Len(batch) = 0
        OBVIOUS
      <3>2. Due(f) = 0 /\ InHand(f) = 0
        BY <3>1 DEF Due, InHand
      <3>3. missed[f] \in Nat
        BY <2>1 DEF SslTyped, Live, Open, Sources
      <3>4. OwedAt(f)
        BY <2>1 DEF Owed
      <3>. QED
        BY <3>2, <3>3, <3>4 DEF OwedAt
    <2>. QED
      BY <2>4, <2>5 DEF SslServed
  <1>. QED
    BY <1>1, <1>2, InitSsl, PTL DEF SslSpec

(***************************************************************************)
(* Gc.                                                                     *)
(***************************************************************************)
CellSet == [status : Nat, p : Nat]

GcTyped ==
    /\ cells \in Seq(CellSet)
    /\ used \in Int
    /\ pointers \in Nat /\ pointers <= MaxPointers
    /\ registered \subseteq 1 .. pointers
    /\ frees \in [1 .. MaxPointers -> Nat]
    /\ wild \in BOOLEAN

\* The cells fit the memory they are in.
Fits == bytes >= Len(cells) * CellBytes

UsedCells(cs) == {i \in 1 .. Len(cs) : cs[i].status = 1}

\* The used cells are those of the registered pointers, one each, and they
\* are counted.
Placed ==
    /\ \A i \in UsedCells(cells) : cells[i].p \in registered
    /\ \A i, j \in UsedCells(cells) : cells[i].p = cells[j].p => i = j
    /\ \A p \in registered : \E i \in UsedCells(cells) : cells[i].p = p
    /\ used = Cardinality(UsedCells(cells))

\* What is registered, or not yet handed out, has not been freed.
Freed ==
    /\ \A p \in 1 .. MaxPointers : frees[p] <= 1
    /\ \A p \in 1 .. MaxPointers : p \in registered \/ p > pointers => frees[p] = 0
    /\ ended => registered = {}

GcIInv == GcTyped /\ Fits /\ (~wild => Placed /\ Freed)

LEMMA UsedFinite ==
  ASSUME NEW cs \in Seq(CellSet)
  PROVE  /\ IsFiniteSet(UsedCells(cs)) /\ Cardinality(UsedCells(cs)) \in Nat
         /\ UsedCells(cs) \in SUBSET (1 .. Len(cs))
  <1>1. Len(cs) \in Int /\ 1 \in Int
    OBVIOUS
  <1>2. IsFiniteSet(1 .. Len(cs))
    BY <1>1, FS_Interval
  <1>3. UsedCells(cs) \in SUBSET (1 .. Len(cs))
    BY DEF UsedCells
  <1>4. IsFiniteSet(UsedCells(cs))
    BY <1>2, <1>3, FS_Subset
  <1>. QED
    BY <1>3, <1>4, FS_CardinalityType

(* The search of duda_gc_add ends at a free cell, or at none.              *)
LEMMA FirstFree ==
  ASSUME NEW cs \in Seq(CellSet), NEW i,
         i = SelectInSeq(cs, LAMBDA c : c.status = 0)
  PROVE  i = 0 \/ (i \in 1 .. Len(cs) /\ cs[i].status = 0)
  <1>. DEFINE I == {k \in 1 .. Len(cs) : cs[k].status = 0}
  <1>1. i = IF I # {} THEN Min(I) ELSE 0
    BY DEF SelectInSeq
  <1>2. CASE I # {}
    <2>1. I \in SUBSET Nat
      OBVIOUS
    <2>2. \E m \in I : \A k \in I : m <= k
      BY <1>2, <2>1, LeastNatural
    <2>3. Min(I) \in I
      BY <2>2 DEF Min
    <2>. QED
      BY <1>1, <1>2, <2>3
  <1>. QED
    BY <1>1, <1>2

LEMMA InitGc == GcInit => GcIInv
  <1>. SUFFICES ASSUME GcInit PROVE GcIInv
    OBVIOUS
  <1>1. Entries \in Nat /\ MaxPointers \in Nat /\ CellBytes \in Nat
    BY GcAssumption
  <1>2. /\ cells \in Seq(CellSet) /\ Len(cells) = Entries
        /\ \A i \in 1 .. Entries : cells[i].status = 0
    BY <1>1 DEF GcInit, Cell, CellSet, NoPointer
  <1>3. GcTyped
    <2>1. used = 0 /\ pointers = 0 /\ registered = {} /\ wild = FALSE
      BY DEF GcInit
    <2>2. frees \in [1 .. MaxPointers -> Nat]
      BY <1>1 DEF GcInit
    <2>3. wild \in BOOLEAN
      BY <2>1
    <2>4. used \in Int /\ pointers \in Nat /\ pointers <= MaxPointers
      BY <1>1, <2>1
    <2>5. registered \subseteq 1 .. pointers
      BY <2>1
    <2>. QED
      BY <1>2, <2>2, <2>3, <2>4, <2>5 DEF GcTyped
  <1>4. Fits
    BY <1>1, <1>2 DEF GcInit, Fits
  <1>5. UsedCells(cells) = {}
    BY <1>2 DEF UsedCells
  <1>6. Placed
    BY <1>5, FS_EmptySet DEF GcInit, Placed
  <1>7. Freed
    BY <1>1 DEF GcInit, Freed
  <1>. QED
    BY <1>3, <1>4, <1>6, <1>7 DEF GcIInv

(* Storing a new pointer in cells cs that hold what the cells did.         *)
LEMMA StorePlaces ==
  ASSUME GcTyped, pointers < MaxPointers,
         NEW cs \in Seq(CellSet), Store(cs, pointers + 1)
  PROVE  /\ cells' \in Seq(CellSet) /\ Len(cells') = Len(cs)
         /\ used' \in Int
         /\ registered' \subseteq registered \cup {pointers + 1}
         /\ Placed /\ UsedCells(cs) = UsedCells(cells)
            /\ (\A i \in UsedCells(cs) : cs[i].p = cells[i].p) => Placed'
  <1>. DEFINE i == SelectInSeq(cs, LAMBDA c : c.status = 0)
              p == pointers + 1
  <1>1. i = 0 \/ (i \in 1 .. Len(cs) /\ cs[i].status = 0)
    BY FirstFree
  <1>2. /\ cells' = IF i = 0 THEN cs ELSE [cs EXCEPT ![i] = Cell(1, p)]
        /\ used' = IF i = 0 THEN used ELSE used + 1
        /\ registered' = IF i = 0 THEN registered ELSE registered \cup {p}
    BY DEF Store
  <1>3. p \in Nat /\ used \in Int /\ p \notin registered
    BY DEF GcTyped
  <1>. HIDE DEF i, p
  <1>4. CASE i = 0
    <2>1. cells' = cs /\ used' = used /\ registered' = registered
      BY <1>2, <1>4
    <2>2. ASSUME Placed, UsedCells(cs) = UsedCells(cells),
                 \A k \in UsedCells(cs) : cs[k].p = cells[k].p
          PROVE  Placed'
      BY <2>1, <2>2 DEF Placed
    <2>. QED
      BY <1>3, <2>1, <2>2
  <1>5. CASE i # 0
    <2>1. i \in 1 .. Len(cs) /\ cs[i].status = 0
      BY <1>1, <1>5
    <2>2. /\ cells' = [cs EXCEPT ![i] = Cell(1, p)]
          /\ used' = used + 1 /\ registered' = registered \cup {p}
      BY <1>2, <1>5
    <2>3. Cell(1, p) \in CellSet /\ Cell(1, p).status = 1 /\ Cell(1, p).p = p
      BY <1>3 DEF Cell, CellSet
    <2>4. /\ cells' \in Seq(CellSet) /\ Len(cells') = Len(cs)
          /\ cells'[i] = Cell(1, p)
          /\ \A k \in 1 .. Len(cs) : k # i => cells'[k] = cs[k]
      BY <2>1, <2>2, <2>3
    <2>5. ASSUME Placed, UsedCells(cs) = UsedCells(cells),
                 \A k \in UsedCells(cs) : cs[k].p = cells[k].p
          PROVE  Placed'
      <3>. DEFINE U == UsedCells(cells)
      <3>1. i \notin U
        BY <2>1, <2>5 DEF UsedCells
      <3>2. UsedCells(cells') = U \cup {i}
        <4>1. UsedCells(cells') = UsedCells(cs) \cup {i}
          BY <2>1, <2>3, <2>4 DEF UsedCells
        <4>. QED
          BY <2>5, <4>1
      <3>3. \A k \in U : cells'[k].p = cells[k].p /\ cells[k].p # p
        <4>1. \A k \in U : k \in 1 .. Len(cs) /\ k # i
          BY <2>5, <3>1 DEF UsedCells
        <4>. QED
          BY <1>3, <2>4, <2>5, <4>1 DEF Placed
      <3>4. cells'[i].p = p
        BY <2>3, <2>4
      <3>5. IsFiniteSet(U)
        BY UsedFinite DEF GcTyped
      <3>6. Cardinality(U \cup {i}) = Cardinality(U) + 1
        BY <3>1, <3>5, FS_AddElement
      <3>7. used' = Cardinality(UsedCells(cells'))
        BY <2>2, <2>5, <3>2, <3>6 DEF Placed
      <3>8. \A k \in UsedCells(cells') : cells'[k].p \in registered'
        BY <2>2, <2>5, <3>2, <3>3, <3>4 DEF Placed
      <3>9. \A k, l \in UsedCells(cells') : cells'[k].p = cells'[l].p => k = l
        BY <2>5, <3>2, <3>3, <3>4 DEF Placed
      <3>10. \A q \in registered' : \E k \in UsedCells(cells') : cells'[k].p = q
        <4>1. ASSUME NEW q \in registered
              PROVE  \E k \in UsedCells(cells') : cells'[k].p = q
          <5>1. PICK k \in U : cells[k].p = q
            BY <2>5 DEF Placed
          <5>. QED
            BY <3>2, <3>3, <5>1
        <4>2. i \in UsedCells(cells')
          BY <3>2
        <4>. QED
          BY <2>2, <3>4, <4>1, <4>2
      <3>. QED
        BY <3>7, <3>8, <3>9, <3>10 DEF Placed
    <2>. QED
      BY <1>3, <2>2, <2>4, <2>5 DEF p
  <1>. QED
    BY <1>4, <1>5

(* The memory that realloc is asked for has room for the new cells, which  *)
(* are not used unless by chance.                                          *)
LEMMA GrownFits ==
  ASSUME GcTyped, NEW garbage \in [1 .. Chunk -> 0 .. 2]
  PROVE  /\ Grown(garbage) \in Seq(CellSet)
         /\ NewBytes >= Len(Grown(garbage)) * CellBytes
         /\ (\A i \in 1 .. Chunk : garbage[i] # 1) =>
               /\ UsedCells(Grown(garbage)) = UsedCells(cells)
               /\ \A i \in UsedCells(cells) : Grown(garbage)[i].p = cells[i].p
  <1>. DEFINE n == Len(cells)
              more == [i \in 1 .. Chunk |-> Cell(garbage[i], NoPointer)]
              g == Grown(garbage)
  <1>1. /\ Chunk \in Nat /\ Entries \in Nat /\ CellBytes \in Nat /\ Entries >= CellBytes
        /\ cells \in Seq(CellSet) /\ n \in Nat
    BY GcAssumption DEF GcTyped
  <1>2. /\ more \in Seq(CellSet) /\ Len(more) = Chunk
        /\ \A i \in 1 .. Chunk : more[i].status = garbage[i]
    <2>1. \A i \in 1 .. Chunk : Cell(garbage[i], NoPointer) \in CellSet
      <3>1. \A i \in 1 .. Chunk : garbage[i] \in Nat
        OBVIOUS
      <3>. QED
        BY <3>1 DEF Cell, CellSet, NoPointer
    <2>2. more \in Seq(CellSet) /\ Len(more) = Chunk
      BY <1>1, <2>1
    <2>3. \A i \in 1 .. Chunk : more[i].status = garbage[i]
      BY DEF Cell
    <2>. QED
      BY <2>2, <2>3
  <1>3. g = cells \o more
    BY DEF Grown
  <1>. HIDE DEF more, g
  <1>4. /\ g \in Seq(CellSet) /\ Len(g) = n + Chunk
        /\ \A i \in 1 .. n : g[i] = cells[i]
        /\ \A i \in 1 .. n + Chunk : i > n => g[i] = more[i - n]
    <2>1. /\ g \in Seq(CellSet) /\ Len(g) = Len(cells) + Len(more)
          /\ \A i \in 1 .. Len(cells) : g[i] = cells[i]
          /\ \A i \in 1 .. Len(more) : g[Len(cells) + i] = more[i]
      <3>1. cells \in Seq(CellSet) /\ more \in Seq(CellSet)
        BY <1>1, <1>2
      <3>. QED
        BY <1>3, <3>1, JoinedEntries
    <2>2. Len(cells) = n
      OBVIOUS
    <2>. HIDE DEF n
    <2>3. ASSUME NEW i \in 1 .. n + Chunk, i > n PROVE g[i] = more[i - n]
      <3>1. i - n \in 1 .. Chunk /\ n + (i - n) = i
        BY <1>1, <2>3
      <3>. QED
        BY <1>2, <2>1, <2>2, <3>1
    <2>. QED
      BY <1>2, <2>1, <2>2, <2>3
  <1>. HIDE DEF n
  <1>5. NewBytes >= Len(g) * CellBytes
    <2>1. n * Entries >= n * CellBytes
      BY <1>1
    <2>2. (n + Chunk) * CellBytes = n * CellBytes + CellBytes * Chunk
      BY <1>1
    <2>3. NewBytes = n * Entries + CellBytes * Chunk
      BY DEF NewBytes, n
    <2>4. n * Entries \in Nat /\ n * CellBytes \in Nat /\ CellBytes * Chunk \in Nat
      BY <1>1
    <2>. QED
      BY <1>4, <2>1, <2>2, <2>3, <2>4
  <1>6. ASSUME \A i \in 1 .. Chunk : garbage[i] # 1
        PROVE  /\ UsedCells(g) = UsedCells(cells)
               /\ \A i \in UsedCells(cells) : g[i].p = cells[i].p
    <2>1. \A i \in 1 .. n : i \in 1 .. n + Chunk
      BY <1>1
    <2>2. ASSUME NEW i \in 1 .. n + Chunk, i \notin 1 .. n
          PROVE  g[i].status # 1
      <3>1. i > n /\ i - n \in 1 .. Chunk
        BY <1>1, <2>2
      <3>2. g[i] = more[i - n]
        BY <1>4, <3>1
      <3>. QED
        BY <1>2, <1>6, <3>1, <3>2
    <2>3. \A i \in 1 .. n : g[i].status = cells[i].status /\ g[i].p = cells[i].p
      BY <1>4
    <2>4. UsedCells(cells) = {i \in 1 .. n : cells[i].status = 1}
      BY DEF UsedCells, n
    <2>5. UsedCells(g) = {i \in 1 .. n + Chunk : g[i].status = 1}
      BY <1>4 DEF UsedCells
    <2>. QED
      BY <2>1, <2>2, <2>3, <2>4, <2>5
  <1>. QED
    BY <1>4, <1>5, <1>6 DEF g

LEMMA AddGc ==
  ASSUME GcIInv, duda_gc_add
  PROVE  GcIInv'
  <1>1. /\ pointers < MaxPointers /\ pointers' = pointers + 1
        /\ ended' = FALSE /\ frees' = frees
    BY DEF duda_gc_add
  <1>2. GcTyped /\ Fits /\ (~wild => Placed /\ Freed)
    BY DEF GcIInv
  <1>3. pointers \in Nat /\ MaxPointers \in Nat /\ registered \subseteq 1 .. pointers
    BY <1>2, GcAssumption DEF GcTyped
  <1>4. ASSUME /\ cells' \in Seq(CellSet) /\ used' \in Int /\ wild' \in BOOLEAN
               /\ registered' \subseteq registered \cup {pointers + 1}
        PROVE  GcTyped'
    <2>1. registered' \subseteq 1 .. pointers'
      BY <1>1, <1>3, <1>4
    <2>. QED
      BY <1>1, <1>2, <1>3, <1>4, <2>1 DEF GcTyped
  <1>5. ASSUME Freed, registered' \subseteq registered \cup {pointers + 1}
        PROVE  Freed'
    <2>1. \A p \in 1 .. MaxPointers : p \in registered' \/ p > pointers' =>
              p \in registered \/ p > pointers
      BY <1>1, <1>3, <1>5
    <2>. QED
      BY <1>1, <1>5, <2>1 DEF Freed
  <1>6. CASE Store(cells, pointers + 1) /\ UNCHANGED <<bytes, wild>>
    <2>1. cells \in Seq(CellSet)
      BY <1>2 DEF GcTyped
    <2>2. /\ cells' \in Seq(CellSet) /\ Len(cells') = Len(cells) /\ used' \in Int
          /\ registered' \subseteq registered \cup {pointers + 1}
          /\ Placed => Placed'
      BY <1>1, <1>2, <1>6, <2>1, StorePlaces
    <2>3. Fits'
      BY <1>2, <1>6, <2>2 DEF Fits
    <2>. QED
      BY <1>2, <1>4, <1>5, <1>6, <2>2, <2>3 DEF GcIInv, GcTyped
  <1>7. ASSUME NEW garbage \in [1 .. Chunk -> 0 .. 2],
               Store(Grown(garbage), pointers + 1), bytes' = NewBytes,
               wild' = (wild \/ \E i \in 1 .. Chunk : garbage[i] = 1)
        PROVE  GcIInv'
    <2>. DEFINE g == Grown(garbage)
    <2>1. g \in Seq(CellSet)
      BY <1>2, GrownFits
    <2>2. NewBytes >= Len(g) * CellBytes
      BY <1>2, GrownFits
    <2>3. (\A i \in 1 .. Chunk : garbage[i] # 1) =>
              /\ UsedCells(g) = UsedCells(cells)
              /\ \A i \in UsedCells(g) : g[i].p = cells[i].p
      BY <1>2, GrownFits
    <2>4. Store(g, pointers + 1)
      BY <1>7
    <2>. HIDE DEF g
    <2>5. /\ cells' \in Seq(CellSet) /\ Len(cells') = Len(g) /\ used' \in Int
          /\ registered' \subseteq registered \cup {pointers + 1}
          /\ Placed /\ UsedCells(g) = UsedCells(cells)
             /\ (\A i \in UsedCells(g) : g[i].p = cells[i].p) => Placed'
      BY <1>1, <1>2, <2>1, <2>4, StorePlaces
    <2>6. Fits'
      BY <1>7, <2>2, <2>5 DEF Fits
    <2>7. wild' \in BOOLEAN
      BY <1>2, <1>7 DEF GcTyped
    <2>8. ~wild' => ~wild /\ \A i \in 1 .. Chunk : garbage[i] # 1
      BY <1>7
    <2>. QED
      BY <1>2, <1>4, <1>5, <2>3, <2>5, <2>6, <2>7, <2>8 DEF GcIInv
  <1>8. CASE UNCHANGED <<cells, used, bytes, registered, wild>>
    <2>1. GcTyped'
      BY <1>2, <1>4, <1>8 DEF GcTyped
    <2>2. Fits' /\ (Placed => Placed')
      BY <1>2, <1>8 DEF Fits, Placed
    <2>. QED
      BY <1>2, <1>5, <1>8, <2>1, <2>2 DEF GcIInv
  <1>. QED
    BY <1>6, <1>7, <1>8 DEF duda_gc_add

(* The end of a request visits every used cell.                            *)
LEMMA AllVisited ==
  ASSUME GcTyped, Placed
  PROVE  Visited = UsedCells(cells)
  <1>1. cells \in Seq(CellSet) /\ DOMAIN cells = 1 .. Len(cells) /\ Len(cells) \in Nat
    BY DEF GcTyped
  <1>2. /\ IsFiniteSet(UsedCells(cells)) /\ used = Cardinality(UsedCells(cells))
        /\ used \in Nat
    BY <1>1, UsedFinite DEF Placed
  <1>3. ASSUME NEW i \in UsedCells(cells)
        PROVE  Cardinality({j \in 1 .. (i - 1) : cells[j].status = 1}) < used
    <2>. DEFINE B == {j \in 1 .. (i - 1) : cells[j].status = 1}
    <2>1. i \in 1 .. Len(cells)
      BY DEF UsedCells
    <2>2. \A j \in 1 .. (i - 1) : j \in 1 .. Len(cells) /\ j # i
      BY <1>1, <2>1
    <2>3. B \in SUBSET UsedCells(cells) /\ i \notin B
      BY <2>2 DEF UsedCells
    <2>. HIDE DEF B
    <2>4. UsedCells(cells) # B
      BY <2>3
    <2>5. /\ IsFiniteSet(B) /\ Cardinality(B) <= used
          /\ (used = Cardinality(B) => UsedCells(cells) = B)
      BY <1>2, <2>3, FS_Subset
    <2>6. Cardinality(B) \in Nat
      BY <2>5, FS_CardinalityType
    <2>7. Cardinality(B) < used
      BY <1>2, <2>4, <2>5, <2>6
    <2>. QED
      BY <2>7 DEF B
  <1>. QED
    BY <1>1, <1>3 DEF Visited, UsedCells

LEMMA FreeGc ==
  ASSUME GcIInv, duda_gc_free_content
  PROVE  GcIInv'
  <1>1. /\ cells' = [i \in DOMAIN cells |->
                        IF i \in Visited THEN Cell(0, NoPointer) ELSE cells[i]]
        /\ used' = used - Cardinality(Visited)
        /\ frees' = [p \in 1 .. MaxPointers |->
                        frees[p] + Cardinality({i \in Visited : cells[i].p = p})]
        /\ registered' = registered \ {cells[i].p : i \in Visited}
        /\ ended' = TRUE /\ UNCHANGED <<bytes, pointers, wild>>
    BY DEF duda_gc_free_content
  <1>2. GcTyped /\ Fits /\ (~wild => Placed /\ Freed)
    BY DEF GcIInv
  <1>. DEFINE n == Len(cells)
  <1>3. cells \in Seq(CellSet) /\ DOMAIN cells = 1 .. n /\ n \in Nat
    BY <1>2 DEF GcTyped
  <1>4. Visited \in SUBSET (1 .. n) /\ Visited \in SUBSET UsedCells(cells)
    BY <1>3 DEF Visited, UsedCells
  <1>5. IsFiniteSet(Visited) /\ Cardinality(Visited) \in Nat
    BY <1>3, <1>4, UsedFinite, FS_Subset, FS_CardinalityType
  <1>6. Cell(0, NoPointer) \in CellSet /\ Cell(0, NoPointer).status = 0
    BY DEF Cell, CellSet, NoPointer
  <1>7. /\ cells' \in Seq(CellSet) /\ Len(cells') = n
        /\ \A i \in 1 .. n :
              cells'[i] = IF i \in Visited THEN Cell(0, NoPointer) ELSE cells[i]
    <2>1. \A i \in 1 .. n : cells[i] \in CellSet
      BY <1>3
    <2>. HIDE DEF n
    <2>2. cells' \in [1 .. n -> CellSet]
      BY <1>1, <1>3, <1>6, <2>1
    <2>. QED
      BY <1>1, <1>3, <2>2
  <1>. DEFINE at(p) == {i \in Visited : cells[i].p = p}
  <1>8. \A p \in 1 .. MaxPointers : Cardinality(at(p)) \in Nat
    <2>. SUFFICES ASSUME NEW p \in 1 .. MaxPointers PROVE Cardinality(at(p)) \in Nat
      OBVIOUS
    <2>1. at(p) \in SUBSET Visited
      OBVIOUS
    <2>. HIDE DEF at
    <2>. QED
      BY <1>5, <2>1, FS_Subset, FS_CardinalityType
  <1>9. frees \in [1 .. MaxPointers -> Nat]
        /\ \A p \in 1 .. MaxPointers : frees'[p] = frees[p] + Cardinality(at(p))
    BY <1>1, <1>2 DEF GcTyped
  <1>10. GcTyped'
    <2>1. frees' \in [1 .. MaxPointers -> Nat]
      <3>1. frees' = [p \in 1 .. MaxPointers |-> frees[p] + Cardinality(at(p))]
        BY <1>1
      <3>. HIDE DEF at
      <3>2. \A p \in 1 .. MaxPointers : frees[p] + Cardinality(at(p)) \in Nat
        BY <1>8, <1>9
      <3>. QED
        BY <3>1, <3>2
    <2>2. used' \in Int /\ registered' \subseteq registered
      BY <1>1, <1>2, <1>5 DEF GcTyped
    <2>. QED
      BY <1>1, <1>2, <1>7, <2>1, <2>2 DEF GcTyped
  <1>11. Fits'
    BY <1>1, <1>2, <1>7 DEF Fits
  <1>12. ASSUME ~wild' PROVE Placed' /\ Freed'
    <2>1. Placed /\ Freed
      BY <1>1, <1>2, <1>12
    <2>2. Visited = UsedCells(cells)
      BY <1>2, <2>1, AllVisited
    <2>3. registered' = {}
      BY <1>1, <2>1, <2>2 DEF Placed
    <2>4. UsedCells(cells') = {}
      BY <1>6, <1>7, <2>2 DEF UsedCells
    <2>5. used' = 0
      BY <1>1, <1>5, <2>1, <2>2 DEF Placed
    <2>6. Placed'
      BY <2>3, <2>4, <2>5, FS_EmptySet DEF Placed
    <2>7. ASSUME NEW p \in 1 .. MaxPointers, p \notin registered
          PROVE  frees'[p] = frees[p]
      <3>1. at(p) = {}
        BY <2>1, <2>2, <2>7 DEF Placed
      <3>. HIDE DEF at
      <3>2. Cardinality(at(p)) = 0
        BY <3>1, FS_EmptySet
      <3>. QED
        BY <1>9, <2>7, <3>2
    <2>8. ASSUME NEW p \in 1 .. MaxPointers, p \in registered
          PROVE  frees'[p] = 1
      <3>1. PICK i \in UsedCells(cells) : cells[i].p = p
        BY <2>1, <2>8 DEF Placed
      <3>2. at(p) = {i}
        BY <2>1, <2>2, <3>1 DEF Placed
      <3>. HIDE DEF at
      <3>3. Cardinality(at(p)) = 1
        BY <3>2, FS_Singleton
      <3>4. frees[p] = 0
        BY <2>1, <2>8 DEF Freed
      <3>. QED
        BY <1>9, <2>8, <3>3, <3>4
    <2>9. \A p \in 1 .. MaxPointers : frees'[p] <= 1
      BY <2>1, <2>7, <2>8 DEF Freed
    <2>10. \A p \in 1 .. MaxPointers : p > pointers => p \notin registered
      BY <1>2 DEF GcTyped
    <2>11. \A p \in 1 .. MaxPointers : p > pointers' => frees'[p] = 0
      BY <1>1, <2>1, <2>7, <2>10 DEF Freed
    <2>. QED
      BY <2>3, <2>6, <2>9, <2>11 DEF Freed
  <1>. QED
    BY <1>10, <1>11, <1>12 DEF GcIInv

LEMMA NextGc ==
  ASSUME GcIInv, [GcNext]_gcVars
  PROVE  GcIInv'
  <1>1. CASE UNCHANGED gcVars
    BY <1>1 DEF gcVars, GcIInv, GcTyped, Fits, Placed, Freed
  <1>. QED
    BY <1>1, AddGc, FreeGc DEF GcNext

(* The collector of a request frees what was registered once, at the end   *)
(* of the request and not before, and stays within its memory, whatever    *)
(* the sizes of its cells and chunks (duda_gc_add and                      *)
(* duda_gc_free_content), unless the memory it grows into happens to look  *)
(* like a used cell.                                                       *)
THEOREM GcCollects == GcSpec => []GcFreesOnce
  <1>1. GcIInv /\ [GcNext]_gcVars => GcIInv'
    BY NextGc
  <1>2. GcIInv => GcFreesOnce
    <2>. SUFFICES ASSUME GcIInv PROVE GcFreesOnce
      OBVIOUS
    <2>1. GcTyped /\ Fits /\ (~wild => Placed /\ Freed)
      BY DEF GcIInv
    <2>2. /\ cells \in Seq(CellSet) /\ DOMAIN cells = 1 .. Len(cells)
          /\ pointers \in Nat /\ MaxPointers \in Nat /\ pointers <= MaxPointers
          /\ registered \subseteq 1 .. pointers
      BY <2>1, GcAssumption DEF GcTyped
    <2>3. ASSUME ~wild
          PROVE  /\ \A p \in registered :
                       /\ frees[p] = 0
                       /\ Cardinality({i \in DOMAIN cells : cells[i] = Cell(1, p)}) = 1
                 /\ \A p \in 1 .. pointers : frees[p] <= 1
                 /\ used = Cardinality({i \in DOMAIN cells : cells[i].status = 1})
                 /\ ended => registered = {} /\ used = 0
                 /\ \A p \in (1 .. pointers) \ registered :
                       ~ \E i \in DOMAIN cells : cells[i] = Cell(1, p)
      <3>1. Placed /\ Freed
        BY <2>1, <2>3
      <3>2. 1 .. pointers \subseteq 1 .. MaxPointers
        BY <2>2
      <3>3. \A p, i : cells[i] = Cell(1, p) => cells[i].status = 1 /\ cells[i].p = p
        BY DEF Cell
      <3>4. \A i \in 1 .. Len(cells) : cells[i] = Cell(cells[i].status, cells[i].p)
        <4>1. \A i \in 1 .. Len(cells) : cells[i] \in CellSet
          BY <2>2
        <4>2. \A c \in CellSet : c = Cell(c.status, c.p)
          BY DEF Cell, CellSet
        <4>. QED
          BY <4>1, <4>2
      <3>5. ASSUME NEW p \in registered
            PROVE  Cardinality({i \in DOMAIN cells : cells[i] = Cell(1, p)}) = 1
        <4>1. PICK k \in UsedCells(cells) : cells[k].p = p
          BY <3>1 DEF Placed
        <4>. DEFINE A == {i \in DOMAIN cells : cells[i] = Cell(1, p)}
        <4>2. k \in A
          BY <2>2, <3>4, <4>1 DEF UsedCells
        <4>3. \A i \in A : i = k
          BY <2>2, <3>1, <3>3, <4>1 DEF Placed, UsedCells
        <4>4. A = {k}
          BY <4>2, <4>3
        <4>. HIDE DEF A
        <4>5. Cardinality(A) = 1
          BY <4>4, FS_Singleton
        <4>. QED
          BY <4>5 DEF A
      <3>6. {i \in DOMAIN cells : cells[i].status = 1} = UsedCells(cells)
        BY <2>2 DEF UsedCells
      <3>7. \A p \in (1 .. pointers) \ registered :
                ~ \E i \in DOMAIN cells : cells[i] = Cell(1, p)
        BY <2>2, <3>1, <3>3 DEF Placed, UsedCells
      <3>8. registered = {} => UsedCells(cells) = {}
        BY <3>1 DEF Placed
      <3>9. ended => registered = {} /\ used = 0
        BY <3>1, <3>8, FS_EmptySet DEF Placed, Freed
      <3>10. \A p \in registered : frees[p] = 0
        BY <2>2, <3>1, <3>2 DEF Freed
      <3>11. \A p \in 1 .. pointers : frees[p] <= 1
        BY <3>1, <3>2 DEF Freed
      <3>12. used = Cardinality({i \in DOMAIN cells : cells[i].status = 1})
        BY <3>1, <3>6 DEF Placed
      <3>. QED
        BY <3>5, <3>7, <3>9, <3>10, <3>11, <3>12
    <2>. QED
      BY <2>1, <2>3 DEF GcFreesOnce, Fits
  <1>. QED
    BY <1>1, <1>2, InitGc, PTL DEF GcSpec

(***************************************************************************)
(* Session.                                                                *)
(***************************************************************************)
Files == Names \X Uuids \X {0, 1}

SesTyped ==
    /\ cookie \in [Clients -> Uuids \cup {None, Deleted}]
    /\ rows \in [Clients -> Seq(Uuids \cup {Deleted})]
    /\ DOMAIN store \subseteq Files
    /\ writing \in [Clients -> [file : Files, value : Nat \ {0}] \cup {Nothing}]
    /\ owner \in Seq(Clients \X Names)
    /\ DOMAIN got = Clients
    /\ reissued \in BOOLEAN

\* The value v is one that client c stored under the name.
IsOf(v, c, name) ==
    v \in 1 .. Len(owner) /\ owner[v][1] = c /\ owner[v][2] = name

\* What the client got was its own.
Own ==
    \A c \in Clients :
        \/ got[c].file = NoFile
        \/ got[c].content = <<>> /\ got[c].file \in failed
        \/ Len(got[c].content) = 1 /\ IsOf(got[c].content[1], c, got[c].file[1])

\* A request that writes has the identifier of the file among its rows, and
\* nothing is in the file yet.
WritesTo(c, h) ==
    writing[c] # Nothing =>
        /\ IsOf(writing[c].value, c, writing[c].file[1])
        /\ h[writing[c].file[2]] = c
        /\ writing[c].file \in DOMAIN store => store[writing[c].file] = <<>>
        /\ \E i \in 1 .. Len(rows[c]) : rows[c][i] = writing[c].file[2]

\* A file is of the client h that has its identifier.
FileOf(f, h) ==
    /\ \E v : IsOf(v, h[f[2]], f[1])
    /\ \/ store[f] = <<>> /\ f \in failed
       \/ store[f] = <<>> /\ \E c \in Clients : writing[c] # Nothing /\ writing[c].file = f
       \/ Len(store[f]) = 1 /\ IsOf(store[f][1], h[f[2]], f[1])

\* Each identifier in use was given to one client, h.
Given(h) ==
    \A c \in Clients :
        /\ cookie[c] \in Uuids => h[cookie[c]] = c
        /\ \A i \in 1 .. Len(rows[c]) : rows[c][i] \in Uuids => h[rows[c][i]] = c

Issued(h) ==
    /\ Given(h)
    /\ \A f \in DOMAIN store : FileOf(f, h)
    /\ \A c \in Clients : WritesTo(c, h)

SesIInv == SesTyped /\ (~reissued => Own /\ \E h : Issued(h))

LEMMA InitSes == SesInit => SesIInv
  <1>. SUFFICES ASSUME SesInit PROVE SesIInv
    OBVIOUS
  <1>1. /\ \A S : <<>> \in Seq(S)
        /\ Len(<<>>) = 0 /\ DOMAIN <<>> = {}
    OBVIOUS
  <1>2. SesTyped
    BY <1>1 DEF SesInit, SesTyped
  <1>3. Own
    BY DEF SesInit, Own
  <1>. DEFINE h == [u \in Uuids |-> None]
  <1>4. Given(h)
    BY <1>1, SessionAssumption DEF SesInit, Given
  <1>5. Issued(h)
    BY <1>1, <1>4 DEF SesInit, Issued, WritesTo
  <1>. QED
    BY <1>2, <1>3, <1>5 DEF SesIInv

(* A new session: its identifier was nobody's.                             *)
LEMMA CreateSes ==
  ASSUME SesIInv, NEW c \in Clients, NEW name \in Names, NEW uuid \in Uuids,
         NEW expires \in {0, 1}, SessionCreate(c, name, uuid, expires)
  PROVE  SesIInv'
  <1>0. PICK n : n = Len(owner) + 1
    OBVIOUS
  <1>. DEFINE file == <<name, uuid, expires>>
              w == [file |-> file, value |-> n]
  <1>1. /\ writing[c] = Nothing
        /\ owner' = Append(owner, <<c, name>>)
        /\ rows' = [rows EXCEPT ![c] = Append(@, uuid)]
        /\ store' = [f \in DOMAIN store \cup {file} |->
                        IF f \in DOMAIN store THEN store[f] ELSE <<>>]
        /\ writing' = [writing EXCEPT ![c] = w]
        /\ reissued' = (reissued \/ uuid \in InUse)
        /\ UNCHANGED <<cookie, got, failed>>
    BY <1>0 DEF SessionCreate, duda_cookie_set
  <1>2. SesTyped /\ (~reissued => Own /\ \E h : Issued(h))
    BY DEF SesIInv
  <1>3. file \in Files /\ file[1] = name /\ file[2] = uuid
    BY DEF Files
  <1>4. /\ owner \in Seq(Clients \X Names) /\ rows \in [Clients -> Seq(Uuids \cup {Deleted})]
        /\ writing \in [Clients -> [file : Files, value : Nat \ {0}] \cup {Nothing}]
        /\ DOMAIN store \subseteq Files
    BY <1>2 DEF SesTyped
  <1>5. /\ n \in Nat /\ n # 0 /\ owner' \in Seq(Clients \X Names) /\ Len(owner') = n
        /\ \A v \in 1 .. Len(owner) : v \in 1 .. Len(owner') /\ owner'[v] = owner[v]
        /\ n \in 1 .. Len(owner') /\ owner'[n] = <<c, name>>
    BY <1>0, <1>1, <1>4
  <1>6. \A v, d, m : IsOf(v, d, m) => IsOf(v, d, m)'
    BY <1>5 DEF IsOf
  <1>7. IsOf(n, c, name)'
    BY <1>5 DEF IsOf
  <1>8. w \in [file : Files, value : Nat \ {0}] /\ w.file = file /\ w.value = n
        /\ w # Nothing
    <2>1. n # 0 /\ n \in Nat
      BY <1>5
    <2>. HIDE DEF file
    <2>. QED
      BY <1>3, <2>1 DEF Nothing
  <1>. HIDE DEF w, file
  <1>9. /\ DOMAIN store' = DOMAIN store \cup {file}
        /\ \A f \in DOMAIN store : store'[f] = store[f]
        /\ file \notin DOMAIN store => store'[file] = <<>>
    BY <1>1
  <1>10. SesTyped'
    <2>1. rows' \in [Clients -> Seq(Uuids \cup {Deleted})]
      BY <1>1, <1>4
    <2>2. writing' \in [Clients -> [file : Files, value : Nat \ {0}] \cup {Nothing}]
      BY <1>1, <1>4, <1>8
    <2>3. DOMAIN store' \subseteq Files
      BY <1>3, <1>4, <1>9
    <2>4. reissued' \in BOOLEAN
      BY <1>1, <1>2 DEF SesTyped
    <2>. QED
      BY <1>1, <1>2, <1>5, <2>1, <2>2, <2>3, <2>4 DEF SesTyped
  <1>11. ASSUME ~reissued' PROVE Own' /\ \E h : Issued(h)'
    <2>1. ~reissued /\ uuid \notin InUse
      BY <1>1, <1>11
    <2>2. Own'
      BY <1>1, <1>2, <1>6, <2>1 DEF Own
    <2>3. PICK h : Issued(h)
      BY <1>2, <2>1
    <2>. DEFINE g == [u \in Uuids |-> IF u = uuid THEN c ELSE h[u]]
    <2>4. g[uuid] = c /\ \A u \in Uuids : u # uuid => g[u] = h[u]
      OBVIOUS
    <2>. HIDE DEF g
    <2>5. /\ \A d \in Clients : cookie[d] # uuid
          /\ \A d \in Clients : \A i \in 1 .. Len(rows[d]) : rows[d][i] # uuid
          /\ \A f \in DOMAIN store : f[2] # uuid
      <3>1. \A d \in Clients : DOMAIN rows[d] = 1 .. Len(rows[d])
        BY <1>4
      <3>2. \A d \in Clients : ToSet(rows[d]) \subseteq InUse
        BY DEF InUse
      <3>3. \A d \in Clients : \A i \in 1 .. Len(rows[d]) : rows[d][i] \in ToSet(rows[d])
        BY <3>1 DEF ToSet
      <3>4. \A d \in Clients : cookie[d] \in InUse
        BY DEF InUse
      <3>5. ASSUME NEW f \in DOMAIN store PROVE f[2] \in InUse
        <4>1. f[2] \in {q[2] : q \in DOMAIN store}
          OBVIOUS
        <4>. QED
          BY <4>1, Zenon DEF InUse
      <3>. QED
        BY <2>1, <3>2, <3>3, <3>4, <3>5
    <2>6. file \notin DOMAIN store
      BY <1>3, <2>5
    <2>7. /\ Len(rows'[c]) = Len(rows[c]) + 1
          /\ \A i \in 1 .. Len(rows[c]) : rows'[c][i] = rows[c][i]
          /\ rows'[c][Len(rows[c]) + 1] = uuid
          /\ \A d \in Clients : d # c => rows'[d] = rows[d]
          /\ Len(rows[c]) \in Nat
      BY <1>1, <1>4
    <2>8. Given(g)'
      <3>1. \A d \in Clients : cookie'[d] \in Uuids => g[cookie'[d]] = d
        BY <1>1, <2>3, <2>4, <2>5 DEF Issued, Given
      <3>2. \A d \in Clients : \A i \in 1 .. Len(rows[d]) :
                rows[d][i] \in Uuids => g[rows[d][i]] = d
        BY <2>3, <2>4, <2>5 DEF Issued, Given
      <3>3. \A i \in 1 .. Len(rows'[c]) : rows'[c][i] \in Uuids => g[rows'[c][i]] = c
        <4>1. \A i \in 1 .. Len(rows'[c]) :
                  i \in 1 .. Len(rows[c]) \/ i = Len(rows[c]) + 1
          BY <2>7
        <4>. QED
          BY <2>4, <2>7, <3>2, <4>1
      <3>. QED
        BY <2>7, <3>1, <3>2, <3>3 DEF Given
    <2>9. ASSUME NEW f \in DOMAIN store PROVE FileOf(f, g)'
      <3>1. f \in Files /\ f[2] \in Uuids /\ f[2] # uuid /\ g[f[2]] = h[f[2]]
        BY <1>4, <2>4, <2>5 DEF Files
      <3>2. FileOf(f, h) /\ store'[f] = store[f] /\ failed' = failed
        BY <1>1, <1>9, <2>3 DEF Issued
      <3>3. \A d \in Clients : writing[d] # Nothing => writing'[d] = writing[d]
        BY <1>1, <1>4
      <3>4. \E v : IsOf(v, g[f[2]], f[1])'
        BY <1>6, <3>1, <3>2 DEF FileOf
      <3>. QED
        BY <1>6, <3>1, <3>2, <3>3, <3>4 DEF FileOf
    <2>10. FileOf(file, g)'
      <3>1. writing'[c] = w
        BY <1>1, <1>4
      <3>2. store'[file] = <<>>
        BY <1>9, <2>6
      <3>3. IsOf(n, g[file[2]], file[1])'
        BY <1>3, <1>7, <2>4
      <3>4. writing'[c] # Nothing /\ writing'[c].file = file
        BY <1>8, <3>1
      <3>5. \E v : IsOf(v, g[file[2]], file[1])'
        BY <3>3
      <3>. QED
        BY <3>2, <3>4, <3>5 DEF FileOf
    <2>11. WritesTo(c, g)'
      <3>1. writing'[c] = w
        BY <1>1, <1>4
      <3>2. store'[file] = <<>>
        BY <1>9, <2>6
      <3>3. Len(rows[c]) + 1 \in 1 .. Len(rows'[c])
        BY <2>7
      <3>. QED
        <4>1. w.file = file /\ writing'[c] = w
          BY <1>8, <3>1
        <4>2. IsOf(w.value, c, w.file[1])' /\ g[w.file[2]] = c
          BY <1>3, <1>7, <1>8, <2>4
        <4>3. \E i \in 1 .. Len(rows'[c]) : rows'[c][i] = w.file[2]
          BY <1>3, <1>8, <2>7, <3>3
        <4>. QED
          BY <3>2, <4>1, <4>2, <4>3 DEF WritesTo
    <2>12. ASSUME NEW d \in Clients, d # c, writing[d] # Nothing
           PROVE  WritesTo(d, g)'
      <3>1. writing'[d] = writing[d] /\ rows'[d] = rows[d]
        BY <1>1, <1>4, <2>7, <2>12
      <3>2. WritesTo(d, h)
        BY <2>3 DEF Issued
      <3>. DEFINE x == writing[d].file
      <3>3. x \in Files /\ x[2] \in Uuids
        BY <1>4, <2>12 DEF Files
      <3>4. x[2] # uuid
        BY <2>5, <2>12, <3>2 DEF WritesTo
      <3>5. x # file /\ g[x[2]] = h[x[2]]
        BY <1>3, <2>4, <3>3, <3>4
      <3>6. IsOf(writing[d].value, d, x[1])'
        BY <1>6, <2>12, <3>1, <3>2 DEF WritesTo, IsOf
      <3>7. x \in DOMAIN store' => store'[x] = <<>>
        BY <1>9, <2>12, <3>2, <3>5 DEF WritesTo
      <3>. QED
        BY <2>12, <3>1, <3>2, <3>5, <3>6, <3>7 DEF WritesTo
    <2>13. ASSUME NEW d \in Clients, d # c, writing[d] = Nothing
           PROVE  WritesTo(d, g)'
      BY <1>1, <1>4, <2>13 DEF WritesTo
    <2>14. Issued(g)'
      BY <1>9, <2>8, <2>9, <2>10, <2>11, <2>12, <2>13 DEF Issued
    <2>. QED
      BY <2>2, <2>14
  <1>. QED
    BY <1>10, <1>11 DEF SesIInv

(* The write of a session fills its file, or finds it gone, or fails.      *)
LEMMA WriteSes ==
  ASSUME SesIInv, NEW c \in Clients, SessionWrite(c)
  PROVE  SesIInv'
  <1>. DEFINE v == writing[c].value
  <1>0. PICK file : file = writing[c].file
    OBVIOUS
  <1>1. /\ writing[c] # Nothing
        /\ \/ /\ file \in DOMAIN store
              /\ \E rest \in {<<>>, store[file]} :
                    store' = [store EXCEPT ![file] = <<v>> \o rest]
              /\ failed' = failed
           \/ file \notin DOMAIN store /\ UNCHANGED <<store, failed>>
           \/ failed' = failed \cup {file} /\ store' = store
        /\ writing' = [writing EXCEPT ![c] = Nothing]
        /\ UNCHANGED <<cookie, rows, got, owner, reissued>>
    BY <1>0 DEF SessionWrite
  <1>2. SesTyped /\ (~reissued => Own /\ \E h : Issued(h))
    BY DEF SesIInv
  <1>3. /\ writing \in [Clients -> [file : Files, value : Nat \ {0}] \cup {Nothing}]
        /\ DOMAIN store \subseteq Files
    BY <1>2 DEF SesTyped
  <1>4. /\ DOMAIN store' = DOMAIN store /\ failed \subseteq failed'
        /\ \A f \in DOMAIN store : f # file => store'[f] = store[f]
    BY <1>1
  <1>5. /\ writing'[c] = Nothing
        /\ \A d \in Clients : d # c => writing'[d] = writing[d]
    BY <1>1, <1>3
  <1>6. SesTyped'
    <2>1. writing' \in [Clients -> [file : Files, value : Nat \ {0}] \cup {Nothing}]
      BY <1>1, <1>3
    <2>. QED
      BY <1>1, <1>2, <1>4, <2>1 DEF SesTyped
  <1>7. \A k, d, m : IsOf(k, d, m)' <=> IsOf(k, d, m)
    BY <1>1 DEF IsOf
  <1>8. ASSUME ~reissued' PROVE Own' /\ \E h : Issued(h)'
    <2>1. ~reissued /\ Own
      BY <1>1, <1>2, <1>8
    <2>2. Own'
      BY <1>1, <1>4, <1>7, <2>1 DEF Own
    <2>3. PICK h : Issued(h)
      BY <1>2, <2>1
    <2>4. /\ IsOf(v, c, file[1]) /\ h[file[2]] = c
          /\ file \in DOMAIN store => store[file] = <<>>
      BY <1>0, <1>1, <2>3 DEF Issued, WritesTo
    <2>5. Given(h)'
      BY <1>1, <2>3 DEF Issued, Given
    <2>6. ASSUME NEW f \in DOMAIN store, f # file PROVE FileOf(f, h)'
      <3>1. FileOf(f, h) /\ store'[f] = store[f]
        BY <1>4, <2>3, <2>6 DEF Issued
      <3>2. \A d \in Clients : writing[d].file = f => writing'[d] = writing[d]
        BY <1>0, <1>5, <2>6
      <3>3. \E k : IsOf(k, h[f[2]], f[1])'
        BY <1>7, <3>1 DEF FileOf
      <3>. QED
        BY <1>4, <1>7, <3>1, <3>2, <3>3 DEF FileOf
    <2>7. ASSUME file \in DOMAIN store PROVE FileOf(file, h)'
      <3>1. \E k : IsOf(k, h[file[2]], file[1])'
        BY <1>7, <2>4
      <3>2. CASE file \in failed' /\ store'[file] = store[file]
        BY <2>4, <2>7, <3>1, <3>2 DEF FileOf
      <3>3. CASE \E rest \in {<<>>, store[file]} :
                    store' = [store EXCEPT ![file] = <<v>> \o rest]
        <4>1. store' = [store EXCEPT ![file] = <<v>> \o <<>>]
          BY <2>4, <2>7, <3>3
        <4>2. <<v>> \o <<>> = <<v>>
          OBVIOUS
        <4>3. store'[file] = <<v>>
          BY <2>7, <4>1, <4>2
        <4>4. Len(store'[file]) = 1 /\ store'[file][1] = v
          BY <4>3
        <4>5. IsOf(store'[file][1], h[file[2]], file[1])
          BY <2>4, <4>4
        <4>6. \A k : k = store'[file][1] => IsOf(k, h[file[2]], file[1])'
          BY <1>7, <4>5
        <4>. QED
          BY <3>1, <4>4, <4>6 DEF FileOf, IsOf
      <3>. QED
        BY <1>1, <2>7, <3>2, <3>3
    <2>8. ASSUME NEW d \in Clients, d # c, writing[d] # Nothing
          PROVE  WritesTo(d, h)'
      <3>1. writing'[d] = writing[d] /\ WritesTo(d, h)
        BY <1>5, <2>3, <2>8 DEF Issued
      <3>2. writing[d].file # file
        BY <2>4, <2>8, <3>1 DEF WritesTo
      <3>3. writing[d].file \in DOMAIN store' => store'[writing[d].file] = <<>>
        BY <1>4, <2>8, <3>1, <3>2 DEF WritesTo
      <3>4. IsOf(writing[d].value, d, writing[d].file[1])'
        BY <1>1, <2>8, <3>1 DEF WritesTo, IsOf
      <3>. QED
        BY <1>1, <2>8, <3>1, <3>3, <3>4 DEF WritesTo
    <2>9. ASSUME NEW d \in Clients, d = c \/ writing[d] = Nothing
          PROVE  WritesTo(d, h)'
      BY <1>5, <2>9 DEF WritesTo
    <2>10. Issued(h)'
      BY <1>4, <2>5, <2>6, <2>7, <2>8, <2>9 DEF Issued
    <2>. QED
      BY <2>2, <2>10
  <1>. QED
    BY <1>6, <1>8 DEF SesIInv

(* Steps that add no file, and no identifier of another client.            *)
LEMMA SameFiles ==
  ASSUME NEW h, Issued(h), UNCHANGED <<writing, owner, failed>>, Given(h)',
         DOMAIN store' \subseteq DOMAIN store,
         \A f \in DOMAIN store' : store'[f] = store[f],
         \A d \in Clients : writing[d] # Nothing =>
             \A i \in 1 .. Len(rows[d]) :
                i \in 1 .. Len(rows'[d]) /\ rows'[d][i] = rows[d][i]
  PROVE  Issued(h)'
  <1>1. \A k, d, m : IsOf(k, d, m)' <=> IsOf(k, d, m)
    BY DEF IsOf
  <1>2. ASSUME NEW f \in DOMAIN store' PROVE FileOf(f, h)'
    <2>1. FileOf(f, h) /\ store'[f] = store[f]
      BY DEF Issued
    <2>2. \E k : IsOf(k, h[f[2]], f[1])'
      BY <1>1, <2>1 DEF FileOf
    <2>. QED
      BY <1>1, <2>1, <2>2 DEF FileOf
  <1>3. ASSUME NEW d \in Clients, writing[d] # Nothing PROVE WritesTo(d, h)'
    <2>1. WritesTo(d, h)
      BY DEF Issued
    <2>2. PICK i \in 1 .. Len(rows[d]) : rows[d][i] = writing[d].file[2]
      BY <1>3, <2>1 DEF WritesTo
    <2>3. i \in 1 .. Len(rows'[d]) /\ rows'[d][i] = writing[d].file[2]
      BY <1>3, <2>2
    <2>4. writing[d].file \in DOMAIN store' => store'[writing[d].file] = <<>>
      BY <1>3, <2>1 DEF WritesTo
    <2>5. IsOf(writing[d].value, d, writing[d].file[1])'
      BY <1>3, <2>1 DEF WritesTo, IsOf
    <2>. QED
      BY <1>3, <2>1, <2>3, <2>4, <2>5 DEF WritesTo
  <1>4. \A d \in Clients : writing[d] = Nothing => WritesTo(d, h)'
    BY DEF WritesTo
  <1>. QED
    BY <1>2, <1>3, <1>4 DEF Issued

LEMMA DestroySes ==
  ASSUME SesIInv, NEW c \in Clients, NEW name \in Names, SessionDestroy(c, name)
  PROVE  SesIInv'
  <1>1. /\ writing[c] = Nothing
        /\ rows' = [rows EXCEPT ![c] = Append(@, Deleted)]
        /\ DOMAIN store' \subseteq DOMAIN store
        /\ \A f \in DOMAIN store' : store'[f] = store[f]
        /\ UNCHANGED <<cookie, writing, got, owner, reissued, failed>>
    BY DEF SessionDestroy, duda_cookie_set
  <1>2. SesTyped /\ (~reissued => Own /\ \E h : Issued(h))
    BY DEF SesIInv
  <1>3. rows \in [Clients -> Seq(Uuids \cup {Deleted})] /\ Deleted \notin Uuids
    BY <1>2, SessionAssumption DEF SesTyped
  <1>4. SesTyped'
    <2>1. rows' \in [Clients -> Seq(Uuids \cup {Deleted})]
      BY <1>1, <1>3
    <2>. QED
      BY <1>1, <1>2, <2>1 DEF SesTyped
  <1>5. /\ Len(rows'[c]) = Len(rows[c]) + 1 /\ Len(rows[c]) \in Nat
        /\ \A i \in 1 .. Len(rows[c]) : rows'[c][i] = rows[c][i]
        /\ rows'[c][Len(rows[c]) + 1] = Deleted
        /\ \A d \in Clients : d # c => rows'[d] = rows[d]
    BY <1>1, <1>3
  <1>6. ASSUME ~reissued' PROVE Own' /\ \E h : Issued(h)'
    <2>1. Own'
      BY <1>1, <1>2, <1>6 DEF Own, IsOf
    <2>2. PICK h : Issued(h)
      BY <1>1, <1>2, <1>6
    <2>3. \A i \in 1 .. Len(rows'[c]) : rows'[c][i] \in Uuids => h[rows'[c][i]] = c
      <3>1. \A i \in 1 .. Len(rows'[c]) : i \in 1 .. Len(rows[c]) \/ i = Len(rows[c]) + 1
        BY <1>5
      <3>. QED
        BY <1>3, <1>5, <2>2, <3>1 DEF Issued, Given
    <2>4. Given(h)'
      BY <1>1, <1>5, <2>2, <2>3 DEF Issued, Given
    <2>5. \A d \in Clients : writing[d] # Nothing =>
              \A i \in 1 .. Len(rows[d]) :
                 i \in 1 .. Len(rows'[d]) /\ rows'[d][i] = rows[d][i]
      BY <1>1, <1>5
    <2>6. Issued(h)'
      BY <1>1, <2>2, <2>4, <2>5, SameFiles
    <2>. QED
      BY <2>1, <2>6
  <1>. QED
    BY <1>4, <1>6 DEF SesIInv

(* What is got is in the file of an identifier the client was given.       *)
LEMMA GetSes ==
  ASSUME SesIInv, NEW c \in Clients, NEW name \in Names, SessionGet(c, name)
  PROVE  SesIInv'
  <1>1. PICK f \in DOMAIN store :
            /\ f[1] = name /\ f[2] = cookie[c] /\ writing[c] = Nothing
            /\ got' = [got EXCEPT ![c] = [file |-> f, content |-> store[f]]]
            /\ UNCHANGED <<store, cookie, rows, writing, owner, reissued, failed>>
    BY DEF SessionGet, _duda_session_get_path
  <1>2. SesTyped /\ (~reissued => Own /\ \E h : Issued(h))
    BY DEF SesIInv
  <1>3. SesTyped'
    BY <1>1, <1>2 DEF SesTyped
  <1>4. /\ got'[c].file = f /\ got'[c].content = store[f]
        /\ \A d \in Clients : d # c => got'[d] = got[d]
    BY <1>1, <1>2 DEF SesTyped
  <1>5. ASSUME ~reissued' PROVE Own' /\ \E h : Issued(h)'
    <2>1. PICK h : Issued(h)
      BY <1>1, <1>2, <1>5
    <2>2. Given(h)'
      BY <1>1, <2>1 DEF Issued, Given
    <2>3. Issued(h)'
      BY <1>1, <2>1, <2>2, SameFiles
    <2>4. f[2] \in Uuids /\ h[f[2]] = c
      <3>1. f \in Files
        BY <1>2 DEF SesTyped
      <3>2. f[2] \in Uuids
        BY <3>1 DEF Files
      <3>. QED
        BY <1>1, <2>1, <3>2 DEF Issued, Given
    <2>5. FileOf(f, h)
      BY <2>1 DEF Issued
    <2>6. ~ \E d \in Clients : writing[d] # Nothing /\ writing[d].file = f
      <3>1. ASSUME NEW d \in Clients, writing[d] # Nothing, writing[d].file = f
            PROVE  FALSE
        <4>1. h[f[2]] = d
          BY <2>1, <3>1 DEF Issued, WritesTo
        <4>. QED
          BY <1>1, <2>4, <3>1, <4>1
      <3>. QED
        BY <3>1
    <2>7. \/ store[f] = <<>> /\ f \in failed
          \/ Len(store[f]) = 1 /\ IsOf(store[f][1], c, f[1])
      BY <2>4, <2>5, <2>6 DEF FileOf
    <2>8. Own'
      BY <1>1, <1>2, <1>4, <1>5, <2>7 DEF Own, IsOf
    <2>. QED
      BY <2>3, <2>8
  <1>. QED
    BY <1>3, <1>5 DEF SesIInv

LEMMA RespondSes ==
  ASSUME SesIInv, NEW c \in Clients, Respond(c)
  PROVE  SesIInv'
  <1>1. /\ writing[c] = Nothing /\ rows[c] # <<>>
        /\ cookie' = [cookie EXCEPT ![c] = Head(rows[c])]
        /\ rows' = [rows EXCEPT ![c] = <<>>]
        /\ UNCHANGED <<store, writing, got, owner, reissued, failed>>
    BY DEF Respond
  <1>2. SesTyped /\ (~reissued => Own /\ \E h : Issued(h))
    BY DEF SesIInv
  <1>3. /\ rows \in [Clients -> Seq(Uuids \cup {Deleted})]
        /\ cookie \in [Clients -> Uuids \cup {None, Deleted}]
    BY <1>2 DEF SesTyped
  <1>4. Head(rows[c]) = rows[c][1] /\ Head(rows[c]) \in Uuids \cup {Deleted}
        /\ 1 \in 1 .. Len(rows[c])
    BY <1>1, <1>3
  <1>5. <<>> \in Seq(Uuids \cup {Deleted}) /\ Len(<<>>) = 0
    OBVIOUS
  <1>6. SesTyped'
    <2>1. rows' \in [Clients -> Seq(Uuids \cup {Deleted})]
      BY <1>1, <1>3, <1>5
    <2>2. cookie' \in [Clients -> Uuids \cup {None, Deleted}]
      BY <1>1, <1>3, <1>4
    <2>. QED
      BY <1>1, <1>2, <2>1, <2>2 DEF SesTyped
  <1>7. /\ rows'[c] = <<>> /\ cookie'[c] = rows[c][1]
        /\ \A d \in Clients : d # c => rows'[d] = rows[d] /\ cookie'[d] = cookie[d]
    BY <1>1, <1>3, <1>4
  <1>8. ASSUME ~reissued' PROVE Own' /\ \E h : Issued(h)'
    <2>1. Own'
      BY <1>1, <1>2, <1>8 DEF Own, IsOf
    <2>2. PICK h : Issued(h)
      BY <1>1, <1>2, <1>8
    <2>3. ASSUME NEW d \in Clients
          PROVE  /\ cookie'[d] \in Uuids => h[cookie'[d]] = d
                 /\ \A i \in 1 .. Len(rows'[d]) : rows'[d][i] \in Uuids => h[rows'[d][i]] = d
      <3>1. CASE d = c
        BY <1>4, <1>5, <1>7, <2>2, <3>1 DEF Issued, Given
      <3>2. CASE d # c
        BY <1>7, <2>2, <3>2 DEF Issued, Given
      <3>. QED
        BY <3>1, <3>2
    <2>4. Given(h)'
      BY <2>3 DEF Given
    <2>5. \A d \in Clients : writing[d] # Nothing =>
              \A i \in 1 .. Len(rows[d]) :
                 i \in 1 .. Len(rows'[d]) /\ rows'[d][i] = rows[d][i]
      BY <1>1, <1>7
    <2>6. Issued(h)'
      BY <1>1, <2>2, <2>4, <2>5, SameFiles
    <2>. QED
      BY <2>1, <2>6
  <1>. QED
    BY <1>6, <1>8 DEF SesIInv

LEMMA NextSes ==
  ASSUME SesIInv, [SesNext]_sesVars
  PROVE  SesIInv'
  <1>1. CASE UNCHANGED sesVars
    <2>1. SesTyped'
      BY <1>1 DEF sesVars, SesIInv, SesTyped
    <2>2. Own' <=> Own
      BY <1>1 DEF sesVars, Own, IsOf
    <2>3. ASSUME NEW h, Issued(h) PROVE Issued(h)'
      <3>1. Given(h)'
        BY <1>1, <2>3 DEF sesVars, Issued, Given
      <3>2. \A f \in DOMAIN store : FileOf(f, h)'
        BY <1>1, <2>3 DEF sesVars, Issued, FileOf, IsOf
      <3>3. \A c \in Clients : WritesTo(c, h)'
        BY <1>1, <2>3 DEF sesVars, Issued, WritesTo, IsOf
      <3>. QED
        BY <1>1, <3>1, <3>2, <3>3 DEF sesVars, Issued
    <2>4. reissued' = reissued
      BY <1>1 DEF sesVars
    <2>. QED
      BY <2>1, <2>2, <2>3, <2>4 DEF SesIInv
  <1>. QED
    BY <1>1, CreateSes, WriteSes, DestroySes, GetSes, RespondSes DEF SesNext

(* Whatever the requests of any number of clients do in any order with     *)
(* sessions of any names (duda_session_create, _get, _isset, _destroy), a  *)
(* client gets one whole value that it stored under that name, as long as  *)
(* no identifier is given out a second time while it is in use.            *)
THEOREM SessionsKeptApart == SesSpec => []SessionsPrivate
  <1>1. SesIInv /\ [SesNext]_sesVars => SesIInv'
    BY NextSes
  <1>2. SesIInv => SessionsPrivate
    <2>. SUFFICES ASSUME SesIInv, ~reissued, NEW c \in Clients
         PROVE /\ got[c].file # NoFile =>
                   \/ got[c].content = <<>> /\ got[c].file \in failed
                   \/ /\ Len(got[c].content) = 1
                      /\ owner[got[c].content[1]] = <<c, got[c].file[1]>>
               /\ \A name \in Names :
                      duda_session_isset(c, name) => <<c, name>> \in ToSet(owner)
      BY DEF SessionsPrivate
    <2>1. SesTyped /\ Own
      BY DEF SesIInv
    <2>2. owner \in Seq(Clients \X Names) /\ DOMAIN owner = 1 .. Len(owner)
      BY <2>1 DEF SesTyped
    <2>3. \A k, d, m : IsOf(k, d, m) => owner[k] = <<d, m>> /\ k \in DOMAIN owner
      <3>1. \A k \in 1 .. Len(owner) : owner[k] = <<owner[k][1], owner[k][2]>>
        BY <2>2
      <3>. QED
        BY <2>2, <3>1 DEF IsOf
    <2>4. got[c].file # NoFile =>
              \/ got[c].content = <<>> /\ got[c].file \in failed
              \/ Len(got[c].content) = 1 /\ owner[got[c].content[1]] = <<c, got[c].file[1]>>
      BY <2>1, <2>3 DEF Own
    <2>5. ASSUME NEW name \in Names, duda_session_isset(c, name)
          PROVE  <<c, name>> \in ToSet(owner)
      <3>1. PICK f \in DOMAIN store : f[1] = name /\ f[2] = cookie[c]
        BY <2>5 DEF duda_session_isset, _duda_session_get_path
      <3>2. PICK h : Issued(h)
        BY DEF SesIInv
      <3>3. f \in Files
        BY <2>1 DEF SesTyped
      <3>4. f[2] \in Uuids
        BY <3>3 DEF Files
      <3>5. h[f[2]] = c
        BY <3>1, <3>2, <3>4 DEF Issued, Given
      <3>6. PICK k : IsOf(k, c, name)
        BY <3>1, <3>2, <3>5 DEF Issued, FileOf
      <3>7. owner[k] = <<c, name>> /\ k \in DOMAIN owner
        BY <2>3, <3>6
      <3>. QED
        BY <3>7 DEF ToSet
    <2>. QED
      BY <2>4, <2>5
  <1>. QED
    BY <1>1, <1>2, InitSes, PTL DEF SesSpec

-----------------------------------------------------------------------------
(***************************************************************************)
(* The pool of MariaDB connections, for every configuration.               *)
(***************************************************************************)

(***************************************************************************)
(* The inductive invariant.                                                *)
(***************************************************************************)

\* What pool->size accounts for: the pooled connections, and the idle ones
\* that a close event has freed and left in the list.
Owned == {c \in Conns : is_pooled[c]} \cup Idle

\* No node is in the list twice.
Distinct == \A i, j \in 1 .. Len(free_conns) : free_conns[i] = free_conns[j] => i = j

\* A connection in the list is at rest: nobody holds it, it has no queries,
\* and it is one of the pool's unless an event has freed it.
IdleAtRest ==
    \A c \in Idle : /\ c \notin held /\ ~queries[c] /\ ~finish[c]
                    /\ \/ state[c] = "CONNECTED" /\ is_pooled[c]
                       \/ state[c] = "freed"

\* A connection not yet allocated has no flag set and no holder, and one whose
\* holder has disconnected it is not held.
Unborn   == \A c \in Conns : state[c] = "none" => ~is_pooled[c] /\ ~finish[c] /\ c \notin held
LetGo    == \A c \in held : ~finish[c]

\* size is an upper bound of what the pool owns, and exact without failures;
\* then, too, nothing freed is in the pool or in a service's hands.
Accounted == IsFiniteSet(Owned) /\ Cardinality(Owned) <= size
Intact ==
    failures = {} =>
        /\ ~fault
        /\ size = Cardinality(Owned)
        /\ \A c \in Conns : is_pooled[c] => state[c] \notin {"none", "freed"}
        /\ \A c \in Idle : state[c] = "CONNECTED"
        /\ \A c \in held : state[c] # "freed"

PoolIInv ==
    /\ TypeOK /\ FreeCount /\ Distinct /\ IdleAtRest /\ Unborn /\ LetGo
    /\ Accounted /\ Intact /\ NoFreedUse

-----------------------------------------------------------------------------
(***************************************************************************)
(* Lemmas.                                                                 *)
(***************************************************************************)

(* The loop of mariadb_pool_reclaim_conn ends, at the first pair of counts *)
(* that does not ask for shrinking, and never takes more than there are.   *)
LEMMA ReleasedProperties ==
  ASSUME NEW f \in Nat, NEW s \in Nat
  PROVE  /\ Released(f, s) \in 0 .. f
         /\ \A j \in 0 .. Released(f, s) - 1 : Shrinks(f - j, s - j)
         /\ Released(f, s) <= s
  <1>. DEFINE T == {k \in 0 .. f : ~Shrinks(f - k, s - k)}
  <1>1. f \in T
    BY PoolAssumption DEF Shrinks
  <1>2. PICK m \in T : \A k \in T : m <= k
    <2>1. T \in SUBSET Nat /\ T # {}
      BY <1>1
    <2>. HIDE DEF T
    <2>. QED
      BY <2>1, LeastNatural
  <1>3. \E k \in 0 .. f : /\ ~Shrinks(f - k, s - k)
                          /\ \A j \in 0 .. k - 1 : Shrinks(f - j, s - j)
    <2>1. \A j \in 0 .. m - 1 : Shrinks(f - j, s - j)
      BY <1>2
    <2>. QED
      BY <1>2, <2>1
  <1>4. /\ Released(f, s) \in 0 .. f
        /\ \A j \in 0 .. Released(f, s) - 1 : Shrinks(f - j, s - j)
    BY <1>3 DEF Released
  <1>5. Released(f, s) <= s
    <2>1. CASE Released(f, s) = 0
      BY <2>1
    <2>2. CASE Released(f, s) # 0
      <3>1. Shrinks(f - (Released(f, s) - 1), s - (Released(f, s) - 1))
        BY <1>4, <2>2
      <3>. QED
        BY <3>1, <1>4, PoolAssumption DEF Shrinks
    <2>. QED
      BY <2>1, <2>2
  <1>. QED
    BY <1>4, <1>5

(* The pool as it is opened satisfies the invariant.                       *)
LEMMA InitPool == Init => PoolIInv
  <1>. SUFFICES ASSUME Init PROVE PoolIInv
    OBVIOUS
  <1>1. Owned = {} /\ Idle = {}
    BY DEF Init, Owned, Idle
  <1>2. IsFiniteSet(Owned) /\ Cardinality(Owned) = 0
    BY <1>1, FS_EmptySet
  <1>3. TypeOK
    <2>1. <<>> \in Seq(Conns)
      OBVIOUS
    <2>2. 0 \in 0 .. MaxSize
      BY PoolAssumption
    <2>. QED
      BY <2>1, <2>2 DEF Init, TypeOK, States
  <1>4. FreeCount /\ Distinct
    BY DEF Init, FreeCount, Distinct
  <1>5. IdleAtRest /\ Unborn /\ LetGo
    BY <1>1 DEF Init, IdleAtRest, Unborn, LetGo
  <1>6. Accounted /\ Intact /\ NoFreedUse
    BY <1>1, <1>2 DEF Init, Accounted, Intact, NoFreedUse, fault
  <1>. QED
    BY <1>3, <1>4, <1>5, <1>6 DEF PoolIInv

(* An idle connection is handed out: it leaves the list and the pool still *)
(* owns it.                                                                *)
LEMMA GetIdlePool ==
  ASSUME PoolIInv, GetIdle, UNCHANGED failures
  PROVE  PoolIInv'
  <1>. DEFINE h == Head(free_conns)
  <1>1. /\ free_conns \in Seq(Conns) /\ free_conns # <<>> /\ Len(free_conns) \in Nat
        /\ h \in Conns /\ h = free_conns[1] /\ Len(free_conns) >= 1
        /\ h \in Idle
    BY DEF GetIdle, PoolIInv, TypeOK, Idle
  <1>2. /\ free_conns' \in Seq(Conns) /\ Len(free_conns') = Len(free_conns) - 1
        /\ \A i \in 1 .. Len(free_conns') : free_conns'[i] = free_conns[i + 1]
    BY <1>1 DEF GetIdle
  <1>3. Distinct' /\ FreeCount'
    BY <1>1, <1>2 DEF PoolIInv, Distinct, FreeCount, GetIdle, TypeOK
  <1>4. Idle' = Idle \ {h}
    <2>1. \A i \in 1 .. Len(free_conns) : i # 1 =>
            i - 1 \in 1 .. Len(free_conns') /\ free_conns[i] = free_conns'[i - 1]
      BY <1>1, <1>2
    <2>2. \A i \in 1 .. Len(free_conns') : i + 1 \in 1 .. Len(free_conns) /\ i + 1 # 1
      BY <1>1, <1>2
    <2>3. \A i \in 1 .. Len(free_conns) : i # 1 => free_conns[i] # h
      BY <1>1 DEF PoolIInv, Distinct
    <2>4. Idle' \subseteq Idle \ {h}
      BY <1>2, <2>2, <2>3 DEF Idle
    <2>5. ASSUME NEW d \in Idle, d # h PROVE d \in Idle'
      <3>1. PICK i \in 1 .. Len(free_conns) : free_conns[i] = d
        BY DEF Idle
      <3>2. i # 1
        BY <1>1, <2>5, <3>1
      <3>. QED
        BY <2>1, <3>1, <3>2 DEF Idle
    <2>. QED
      BY <2>4, <2>5
  <1>5. /\ Owned' \in SUBSET Owned /\ is_pooled' = is_pooled /\ size' = size
        /\ is_pooled[h] => Owned' = Owned
    BY <1>1, <1>4 DEF Owned, GetIdle, PoolIInv, TypeOK
  <1>6. Accounted'
    BY <1>5, FS_Subset, FS_CardinalityType DEF Accounted, PoolIInv, TypeOK
  <1>7. CASE Dangling({1, 2}, free_conns) = {}
    <2>1. state[h] # "freed"
      <3>1. 1 \in {1, 2} \cap (1 .. Len(free_conns)) /\ free_conns[1] = h
        BY <1>1 DEF PoolIInv, TypeOK
      <3>2. state[h] = "freed" => h \in Dangling({1, 2}, free_conns)
        BY <3>1 DEF Dangling
      <3>. QED
        BY <1>7, <3>2
    <2>2. /\ state[h] = "CONNECTED" /\ is_pooled[h] /\ h \notin held
          /\ ~queries[h] /\ ~finish[h]
      BY <1>1, <2>1 DEF PoolIInv, IdleAtRest
    <2>3. /\ state' = state /\ held' = held \cup {h} /\ touched' = {}
          /\ connect_cb' \in [Conns -> BOOLEAN] /\ killed' = killed
          /\ UNCHANGED <<finish, queries, is_pooled, size>>
          /\ free_size' = free_size - 1
      BY <1>1, <1>7, <2>2 DEF GetIdle, Hand, PoolIInv, TypeOK
    <2>4. TypeOK'
      <3>1. free_size' \in 0 .. MaxSize
        BY <1>1, <2>3, PoolAssumption DEF PoolIInv, TypeOK, FreeCount
      <3>. QED
        BY <1>1, <1>2, <2>3, <3>1 DEF PoolIInv, TypeOK
    <2>5. IdleAtRest' /\ Unborn' /\ LetGo'
      BY <1>4, <2>2, <2>3 DEF PoolIInv, IdleAtRest, Unborn, LetGo
    <2>6. Intact' /\ NoFreedUse'
      BY <1>4, <1>5, <2>2, <2>3 DEF PoolIInv, Intact, NoFreedUse, fault
    <2>. QED
      BY <1>3, <1>6, <2>4, <2>5, <2>6 DEF PoolIInv
  <1>8. CASE Dangling({1, 2}, free_conns) # {}
    <2>1. /\ UNCHANGED <<state, connect_cb, held, finish, queries, is_pooled, size>>
          /\ touched' = Dangling({1, 2}, free_conns) /\ killed' = killed
          /\ free_size' = free_size - 1
      BY <1>8 DEF GetIdle
    <2>2. /\ failures # {} /\ touched' \subseteq Idle
          /\ \A d \in touched' : state[d] = "freed"
      BY <1>8, <2>1 DEF PoolIInv, Intact, Dangling, Idle
    <2>3. TypeOK'
      <3>1. free_size' \in 0 .. MaxSize
        BY <1>1, <2>1, PoolAssumption DEF PoolIInv, TypeOK, FreeCount
      <3>2. touched' \subseteq Conns
        BY <1>1, <2>2 DEF Idle
      <3>. QED
        BY <1>1, <1>2, <2>1, <3>1, <3>2 DEF PoolIInv, TypeOK
    <2>4. IdleAtRest' /\ Unborn' /\ LetGo' /\ Intact'
      BY <1>4, <2>1, <2>2 DEF PoolIInv, IdleAtRest, Unborn, LetGo, Intact
    <2>5. NoFreedUse'
      BY <1>4, <2>1, <2>2 DEF PoolIInv, NoFreedUse
    <2>. QED
      BY <1>3, <1>6, <2>3, <2>4, <2>5 DEF PoolIInv
  <1>. QED
    BY <1>7, <1>8

(* A new connection of the pool: one more is owned and counted.            *)
LEMMA GetNewPool ==
  ASSUME PoolIInv, NEW c \in Conns, GetNew(c), UNCHANGED failures
  PROVE  PoolIInv'
  <1>1. PICK s \in Attempts : Hand(c, s)
    BY DEF GetNew
  <1>2. /\ s \in {"CONNECTING", "CONNECTED", "freed"}
        /\ failures = {} => s # "freed"
    BY <1>1 DEF Attempts
  <1>3. /\ state' = [state EXCEPT ![c] = s]
        /\ touched' = (IF s = "freed" THEN {c} ELSE {}) /\ killed' = killed \cup touched'
        /\ held' = IF s = "freed" THEN held ELSE held \cup {c}
        /\ connect_cb' = [connect_cb EXCEPT ![c] = s # "freed"]
        /\ is_pooled' = [is_pooled EXCEPT ![c] = TRUE] /\ size' = size + 1
        /\ size < MaxSize /\ state[c] = "none"
        /\ UNCHANGED <<free_size, free_conns, finish, queries>>
    BY <1>1 DEF Hand, GetNew, MayGrow
  <1>4. ~is_pooled[c] /\ ~finish[c] /\ c \notin Idle
    BY <1>3 DEF PoolIInv, Unborn, IdleAtRest
  <1>5. Idle' = Idle /\ Owned' = Owned \cup {c} /\ c \notin Owned
    BY <1>3, <1>4 DEF Owned, Idle, PoolIInv, TypeOK
  <1>6. /\ IsFiniteSet(Owned') /\ Cardinality(Owned') = Cardinality(Owned) + 1
        /\ Cardinality(Owned) \in Nat
    BY <1>5, FS_AddElement, FS_CardinalityType DEF PoolIInv, Accounted
  <1>7. TypeOK'
    BY <1>2, <1>3, PoolAssumption DEF PoolIInv, TypeOK, States
  <1>8. FreeCount' /\ Distinct' /\ Unborn' /\ LetGo'
    BY <1>2, <1>3, <1>4 DEF PoolIInv, FreeCount, Distinct, Unborn, LetGo, TypeOK
  <1>9. IdleAtRest'
    BY <1>3, <1>4, <1>5 DEF PoolIInv, IdleAtRest, TypeOK, Idle
  <1>10. Accounted'
    BY <1>3, <1>6 DEF PoolIInv, Accounted, TypeOK
  <1>11. Intact'
    BY <1>2, <1>3, <1>4, <1>5, <1>6 DEF PoolIInv, Intact, TypeOK, fault
  <1>12. NoFreedUse'
    BY <1>3, <1>4, <1>5 DEF PoolIInv, NoFreedUse, TypeOK
  <1>. QED
    BY <1>7, <1>8, <1>9, <1>10, <1>11, <1>12 DEF PoolIInv

(* A connection outside the pool changes nothing the pool owns.            *)
LEMMA GetExtraPool ==
  ASSUME PoolIInv, NEW c \in Conns, GetExtra(c), UNCHANGED failures
  PROVE  PoolIInv'
  <1>1. PICK s \in Attempts :
          /\ state' = [state EXCEPT ![c] = s]
          /\ connect_cb' = [connect_cb EXCEPT ![c] = TRUE]
          /\ held' = IF s = "freed" THEN held ELSE held \cup {c}
          /\ killed' = IF s = "freed" THEN killed \cup {c} ELSE killed
    BY DEF GetExtra
  <1>2. s \in {"CONNECTING", "CONNECTED", "freed"}
    BY <1>1 DEF Attempts
  <1>3. /\ UNCHANGED <<size, free_size, free_conns, is_pooled, finish, queries,
                       touched>>
        /\ state[c] = "none"
    BY DEF GetExtra
  <1>4. ~is_pooled[c] /\ ~finish[c] /\ c \notin Idle
    BY <1>3 DEF PoolIInv, Unborn, IdleAtRest
  <1>5. Idle' = Idle /\ Owned' = Owned
    BY <1>3 DEF Owned, Idle
  <1>6. TypeOK'
    BY <1>1, <1>2, <1>3 DEF PoolIInv, TypeOK, States
  <1>7. FreeCount' /\ Distinct' /\ Unborn' /\ LetGo'
    BY <1>1, <1>2, <1>3, <1>4 DEF PoolIInv, FreeCount, Distinct, Unborn, LetGo, TypeOK
  <1>8. IdleAtRest'
    BY <1>1, <1>3, <1>4, <1>5 DEF PoolIInv, IdleAtRest, TypeOK, Idle
  <1>9. Accounted'
    BY <1>3, <1>5 DEF PoolIInv, Accounted
  <1>10. Intact'
    BY <1>1, <1>2, <1>3, <1>4, <1>5 DEF PoolIInv, Intact, TypeOK, Attempts, fault
  <1>11. NoFreedUse'
    BY <1>1, <1>3, <1>4, <1>5 DEF PoolIInv, NoFreedUse, TypeOK
  <1>. QED
    BY <1>6, <1>7, <1>8, <1>9, <1>10, <1>11 DEF PoolIInv

(* A connection of the pool goes back: the list gains it and loses the     *)
(* first k, which the pool owned; the counts move along.                   *)
LEMMA ReclaimPool ==
  ASSUME PoolIInv, NEW c \in Conns, c \notin Idle, is_pooled[c],
         state[c] \notin {"none", "freed"}, Release(c), held' = held \ {c},
         UNCHANGED <<failures, killed>>, ~fault
  PROVE  PoolIInv'
  <1>. DEFINE n    == Len(free_conns)
              idle == Append(free_conns, c)
              k    == Released(free_size + 1, size)
              gone == {idle[i] : i \in 1 .. k}
  <1>1. /\ free_conns \in Seq(Conns) /\ n \in Nat /\ free_size = n /\ size \in Nat
        /\ MaxSize \in Nat /\ size <= MaxSize
    BY PoolAssumption DEF PoolIInv, TypeOK, FreeCount
  <1>2. k \in 0 .. n + 1 /\ k <= size
    <2>1. free_size + 1 \in Nat
      BY <1>1
    <2>. HIDE DEF n
    <2>. QED
      BY <1>1, <2>1, ReleasedProperties
  <1>3. /\ free_conns' = SubSeq(idle, k + 1, Len(idle))
        /\ free_size' = free_size + 1 - k /\ size' = size - k
        /\ state' = [d \in Conns |-> IF d \in gone THEN "freed"
                                     ELSE IF d = c THEN "CONNECTED" ELSE state[d]]
        /\ is_pooled' = [d \in Conns |-> is_pooled[d] /\ d \notin gone]
        /\ finish' = [finish EXCEPT ![c] = FALSE]
        /\ queries' = [queries EXCEPT ![c] = FALSE]
        /\ connect_cb' = [connect_cb EXCEPT ![c] = FALSE]
    <2>1. Reclaim(c)
      BY DEF Release
    <2>2. /\ finish' = [finish EXCEPT ![c] = FALSE]
          /\ queries' = [queries EXCEPT ![c] = FALSE]
          /\ connect_cb' = [connect_cb EXCEPT ![c] = FALSE]
      BY DEF Release
    <2>. QED
      BY <2>1, <2>2 DEF Reclaim, Unlinked, Counted
  <1>4. /\ idle \in Seq(Conns) /\ Len(idle) = n + 1
        /\ \A i \in 1 .. n : idle[i] = free_conns[i]
        /\ idle[n + 1] = c
    BY <1>1
  <1>5. \A i, j \in 1 .. n + 1 : idle[i] = idle[j] => i = j
    BY <1>1, <1>4 DEF PoolIInv, Distinct, Idle
  <1>. HIDE DEF idle, k
  <1>6. /\ free_conns' \in Seq(Conns) /\ Len(free_conns') = n + 1 - k
        /\ \A i \in 1 .. n + 1 - k : free_conns'[i] = idle[i + k]
    <2>. HIDE DEF n, gone
    <2>0. Len(idle) = n + 1 /\ n \in Nat
      BY <1>1, <1>4
    <2>1. k \in 0 .. Len(idle) /\ Len(idle) - k = n + 1 - k
      BY <1>2, <2>0
    <2>2. /\ free_conns' \in Seq(Conns) /\ Len(free_conns') = Len(idle) - k
          /\ \A i \in 1 .. Len(idle) - k : free_conns'[i] = idle[k + i]
      BY <1>3, <1>4, <2>1, RestEntries
    <2>3. \A i \in 1 .. n + 1 - k : i + k = k + i
      BY <1>1, <1>2
    <2>. QED
      BY <2>1, <2>2, <2>3
  <1>7. Distinct'
    BY <1>1, <1>2, <1>5, <1>6 DEF Distinct
  <1>8. FreeCount'
    BY <1>1, <1>2, <1>3, <1>6 DEF FreeCount
  <1>9. {idle[i] : i \in 1 .. n + 1} = Idle \cup {c}
    <2>1. \A i \in 1 .. n + 1 : i = n + 1 \/ i \in 1 .. n
      BY <1>1
    <2>2. \A i \in 1 .. n : i \in 1 .. n + 1
      BY <1>1
    <2>3. n + 1 \in 1 .. n + 1
      BY <1>1
    <2>. QED
      BY <1>4, <2>1, <2>2, <2>3 DEF Idle
  <1>10. Idle' = (Idle \cup {c}) \ gone
    <2>1. \A i \in 1 .. n + 1 - k : i + k \in 1 .. n + 1 /\ i + k \notin 1 .. k
      BY <1>1, <1>2
    <2>2. \A i \in 1 .. n + 1 : i \notin 1 .. k => i - k \in 1 .. n + 1 - k /\ (i - k) + k = i
      BY <1>1, <1>2
    <2>3. 1 .. k \subseteq 1 .. n + 1
      BY <1>1, <1>2
    <2>4. Idle' = {idle[i] : i \in (1 .. n + 1) \ (1 .. k)}
      BY <1>6, <2>1, <2>2 DEF Idle
    <2>5. {idle[i] : i \in (1 .. n + 1) \ (1 .. k)} = {idle[i] : i \in 1 .. n + 1} \ gone
      BY <1>5, <2>3
    <2>. QED
      BY <1>9, <2>4, <2>5
  <1>11. gone \in SUBSET (Idle \cup {c})
    BY <1>1, <1>2, <1>9
  <1>12. Owned' = Owned \ gone /\ gone \in SUBSET Owned
    BY <1>3, <1>10, <1>11 DEF Owned, PoolIInv, TypeOK
  <1>13. IsFiniteSet(gone) /\ Cardinality(gone) = k
    <2>. DEFINE g == SubSeq(idle, 1, k)
    <2>1. g \in Seq(Conns) /\ Len(g) = k /\ \A i \in 1 .. k : g[i] = idle[i]
      BY <1>1, <1>2, <1>4
    <2>2. \A i, j \in 1 .. Len(g) : g[i] = g[j] => i = j
      BY <1>1, <1>2, <1>5, <2>1
    <2>3. {g[i] : i \in 1 .. Len(g)} = gone
      BY <2>1
    <2>. HIDE DEF g, gone
    <2>. QED
      BY <2>1, <2>2, <2>3, DistinctCount
  <1>14. /\ IsFiniteSet(Owned') /\ Cardinality(Owned') = Cardinality(Owned) - k
         /\ Cardinality(Owned) \in Nat
    <2>1. Owned \cap gone = gone
      BY <1>12
    <2>. HIDE DEF gone
    <2>. QED
      BY <2>1, <1>12, <1>13, FS_Difference, FS_CardinalityType DEF PoolIInv, Accounted
  <1>15. Accounted'
    BY <1>1, <1>2, <1>3, <1>14 DEF PoolIInv, Accounted
  <1>20. /\ touched' \subseteq Idle
         /\ \A d \in touched' : state[d] = "freed" /\ d \in Conns
    <2>1. Reclaim(c)
      BY DEF Release
    <2>2. PICK I : touched' = Dangling(I, idle)
      BY <2>1 DEF Reclaim, idle
    <2>3. ASSUME NEW d \in touched'
          PROVE  d \in Idle /\ state[d] = "freed" /\ d \in Conns
      <3>1. PICK i \in 1 .. n + 1 : d = idle[i] /\ state[idle[i]] = "freed"
        BY <1>4, <2>2 DEF Dangling
      <3>2. d # c
        BY <3>1
      <3>. QED
        BY <1>4, <1>9, <3>1, <3>2
    <2>. QED
      BY <2>3
  <1>16. TypeOK'
    <2>1. size' \in 0 .. MaxSize
      BY <1>1, <1>2, <1>3
    <2>2. free_size' \in 0 .. MaxSize
      <3>1. Cardinality(Idle') <= Cardinality(Owned') /\ Cardinality(Idle') = Len(free_conns')
        <4>1. Idle' \in SUBSET Owned'
          BY DEF Owned
        <4>2. Cardinality(Idle') = Len(free_conns')
          BY <1>6, <1>7, DistinctCount DEF Distinct, Idle
        <4>. QED
          BY <4>1, <4>2, <1>14, FS_Subset
      <3>. QED
        <4>1. Cardinality(Owned') <= size' /\ Cardinality(Owned') \in Int
          BY <1>14, <1>15, <1>2 DEF Accounted
        <4>2. Len(free_conns') = free_size' /\ free_size' \in Nat
          BY <1>1, <1>2, <1>3, <1>6
        <4>. QED
          BY <3>1, <4>1, <4>2, <2>1, <1>1
    <2>3. touched' \subseteq Conns
      BY <1>4, <1>20
    <2>. QED
      BY <2>1, <2>2, <2>3, <1>3, <1>6 DEF PoolIInv, TypeOK, States
  <1>17. IdleAtRest'
    <2>. SUFFICES ASSUME NEW d \in Idle'
                  PROVE  /\ d \notin held' /\ ~queries'[d] /\ ~finish'[d]
                         /\ \/ state'[d] = "CONNECTED" /\ is_pooled'[d]
                            \/ state'[d] = "freed"
      BY DEF IdleAtRest
    <2>1. d \in Conns /\ d \notin gone
      <3>1. Idle' \subseteq Conns
        BY <1>6 DEF Idle
      <3>. HIDE DEF gone
      <3>. QED
        BY <3>1, <1>10
    <2>. HIDE DEF gone
    <2>2. CASE d = c
      BY <2>1, <2>2, <1>3 DEF PoolIInv, TypeOK
    <2>3. CASE d # c
      <3>1. d \in Idle
        BY <2>3, <1>10
      <3>. QED
        BY <2>1, <2>3, <3>1, <1>3 DEF PoolIInv, TypeOK, IdleAtRest
    <2>. QED
      BY <2>2, <2>3
  <1>18. Unborn' /\ LetGo'
    BY <1>3 DEF PoolIInv, Unborn, LetGo, TypeOK
  <1>19. Intact'
    <2>. SUFFICES ASSUME failures = {} PROVE Intact'
      BY DEF Intact
    <2>2. ~fault'
      BY <1>20 DEF PoolIInv, Intact, fault
    <2>. HIDE DEF gone
    <2>3. size' = Cardinality(Owned')
      BY <1>1, <1>2, <1>3, <1>14 DEF PoolIInv, Intact
    <2>4. \A d \in Conns : is_pooled'[d] => state'[d] \notin {"none", "freed"}
      BY <1>3 DEF PoolIInv, Intact, TypeOK
    <2>5. \A d \in Idle' : state'[d] = "CONNECTED"
      <3>1. Idle' \subseteq Conns
        BY <1>6 DEF Idle
      <3>. QED
        BY <1>3, <1>10, <3>1 DEF PoolIInv, Intact
    <2>6. \A d \in held' : state'[d] # "freed"
      BY <1>3, <1>11 DEF PoolIInv, Intact, TypeOK, IdleAtRest
    <2>. QED
      BY <2>2, <2>3, <2>4, <2>5, <2>6 DEF Intact
  <1>21. NoFreedUse'
    <2>1. Idle' \subseteq Conns
      BY <1>6 DEF Idle
    <2>. HIDE DEF gone
    <2>2. ASSUME NEW d \in Idle' \cup held', state'[d] = "freed" PROVE d \in killed
      <3>1. d \in Conns /\ d # c /\ d \notin gone /\ d \in Idle \cup held
        BY <1>3, <1>10, <1>11, <2>1, <2>2 DEF PoolIInv, TypeOK, IdleAtRest
      <3>2. state'[d] = state[d]
        BY <1>3, <3>1
      <3>. QED
        BY <2>2, <3>1, <3>2 DEF PoolIInv, NoFreedUse
    <2>3. touched' \subseteq killed
      BY <1>20 DEF PoolIInv, NoFreedUse
    <2>. QED
      BY <2>2, <2>3 DEF NoFreedUse
  <1>. QED
    BY <1>7, <1>8, <1>15, <1>16, <1>17, <1>18, <1>19, <1>21 DEF PoolIInv

(* Freeing a connection takes nothing out of the list and lets the pool    *)
(* own at most what it did.                                                *)
LEMMA FreeOwned ==
  ASSUME PoolIInv, NEW c \in Conns, Free(c)
  PROVE  /\ Idle' = Idle /\ Owned' \in SUBSET Owned
         /\ FreeCount' /\ Distinct' /\ Accounted'
         /\ ~is_pooled[c] => Owned' = Owned
  <1>1. /\ Idle' = Idle /\ Owned' \in SUBSET Owned
        /\ ~is_pooled[c] => Owned' = Owned
    BY DEF Free, Idle, Owned, PoolIInv, TypeOK
  <1>2. Accounted'
    BY <1>1, FS_Subset, FS_CardinalityType DEF Accounted, PoolIInv, TypeOK, Free
  <1>. QED
    BY <1>1, <1>2 DEF Free, PoolIInv, FreeCount, Distinct

(* mariadb_async_handle_release, of a connection of the pool or not.       *)
LEMMA ReleasePool ==
  ASSUME PoolIInv, NEW c \in Conns, c \notin Idle,
         state[c] \notin {"none", "freed"}, Release(c), held' = held \ {c},
         UNCHANGED <<failures, killed>>, ~fault
  PROVE  PoolIInv'
  <1>1. CASE is_pooled[c]
    BY <1>1, ReclaimPool
  <1>2. CASE ~is_pooled[c]
    <2>1. /\ Free(c)
          /\ finish' = [finish EXCEPT ![c] = FALSE]
          /\ queries' = [queries EXCEPT ![c] = FALSE]
          /\ connect_cb' = [connect_cb EXCEPT ![c] = FALSE]
      BY <1>2 DEF Release
    <2>2. /\ Idle' = Idle /\ Owned' = Owned /\ FreeCount' /\ Distinct' /\ Accounted'
      BY <1>2, <2>1, FreeOwned
    <2>3. TypeOK'
      BY <2>1 DEF Free, PoolIInv, TypeOK, States
    <2>4. IdleAtRest'
      BY <2>1, <2>2 DEF Free, PoolIInv, TypeOK, IdleAtRest, Idle
    <2>5. Unborn' /\ LetGo'
      BY <2>1 DEF Free, PoolIInv, TypeOK, Unborn, LetGo
    <2>6. Intact'
      BY <1>2, <2>1, <2>2 DEF Free, PoolIInv, TypeOK, Intact, fault
    <2>7. NoFreedUse'
      BY <1>2, <2>1, <2>2 DEF Free, PoolIInv, TypeOK, NoFreedUse
    <2>. QED
      BY <2>2, <2>3, <2>4, <2>5, <2>6, <2>7 DEF PoolIInv
  <1>. QED
    BY <1>1, <1>2

(* query_async() is called by the holder, whose connection is not idle.    *)
LEMMA QueryPool ==
  ASSUME PoolIInv, NEW c \in Conns, Query(c), UNCHANGED failures
  PROVE  PoolIInv'
  <1>1. /\ c \in held /\ state[c] # "freed" /\ c \notin Idle
        /\ queries' = [queries EXCEPT ![c] = TRUE]
        /\ state' = [state EXCEPT ![c] = IF @ = "CONNECTED" THEN "QUERYING" ELSE @]
        /\ UNCHANGED <<size, free_size, free_conns, is_pooled, finish, connect_cb, held,
                       touched, killed>>
    BY DEF Query, PoolIInv, IdleAtRest
  <1>2. Idle' = Idle /\ Owned' = Owned
    BY <1>1 DEF Idle, Owned
  <1>3. TypeOK'
    BY <1>1 DEF PoolIInv, TypeOK, States
  <1>4. FreeCount' /\ Distinct' /\ Accounted' /\ LetGo'
    BY <1>1, <1>2 DEF PoolIInv, FreeCount, Distinct, Accounted, LetGo
  <1>5. IdleAtRest' /\ Unborn'
    BY <1>1, <1>2 DEF PoolIInv, TypeOK, IdleAtRest, Unborn, Idle
  <1>6. Intact' /\ NoFreedUse'
    BY <1>1, <1>2 DEF PoolIInv, TypeOK, Intact, NoFreedUse, fault
  <1>. QED
    BY <1>3, <1>4, <1>5, <1>6 DEF PoolIInv

(* disconnect_async(), at once or later.                                   *)
LEMMA DisconnectPool ==
  ASSUME PoolIInv, NEW c \in Conns, Disconnect(c), UNCHANGED failures
  PROVE  PoolIInv'
  <1>1. /\ c \in held /\ c \notin Idle /\ state[c] # "freed" /\ held' = held \ {c}
        /\ ~fault /\ killed' = killed
    BY DEF Disconnect, PoolIInv, IdleAtRest
  <1>2. CASE state[c] = "CONNECTED" /\ Release(c)
    BY <1>1, <1>2, ReleasePool
  <1>3. CASE /\ state[c] # "CONNECTED"
             /\ finish' = [finish EXCEPT ![c] = TRUE]
             /\ UNCHANGED <<size, free_size, free_conns, state, is_pooled,
                            queries, connect_cb, touched>>
    <2>1. Idle' = Idle /\ Owned' = Owned
      BY <1>3 DEF Idle, Owned
    <2>2. state[c] # "none"
      BY <1>1 DEF PoolIInv, Unborn
    <2>3. TypeOK'
      BY <1>1, <1>3 DEF PoolIInv, TypeOK
    <2>4. FreeCount' /\ Distinct' /\ Accounted'
      BY <1>3, <2>1 DEF PoolIInv, FreeCount, Distinct, Accounted
    <2>5. IdleAtRest' /\ Unborn' /\ LetGo'
      BY <1>1, <1>3, <2>1, <2>2 DEF PoolIInv, TypeOK, IdleAtRest, Unborn, LetGo
    <2>6. Intact' /\ NoFreedUse'
      BY <1>1, <1>3, <2>1 DEF PoolIInv, Intact, NoFreedUse, fault
    <2>. QED
      BY <2>3, <2>4, <2>5, <2>6 DEF PoolIInv
  <1>. QED
    BY <1>2, <1>3 DEF Disconnect

(* The end of a queue of queries: a connection that its service has        *)
(* disconnected meanwhile is released, any other is CONNECTED again.       *)
LEMMA FinishPool ==
  ASSUME PoolIInv, NEW c \in Conns, state[c] \in {"CONNECTING", "QUERYING"},
         Finish(c), UNCHANGED <<held, failures, killed>>, ~fault
  PROVE  PoolIInv'
  <1>1. c \notin Idle
    BY DEF PoolIInv, IdleAtRest
  <1>2. CASE finish[c]
    <2>1. Release(c)
      BY <1>2 DEF Finish
    <2>2. held' = held \ {c}
      BY <1>2 DEF PoolIInv, LetGo
    <2>. QED
      BY <1>1, <2>1, <2>2, ReleasePool
  <1>3. CASE ~finish[c]
    <2>1. /\ state' = [state EXCEPT ![c] = "CONNECTED"]
          /\ queries' = [queries EXCEPT ![c] = FALSE]
          /\ UNCHANGED <<size, free_size, free_conns, is_pooled, finish, connect_cb,
                         touched>>
      BY <1>3 DEF Finish
    <2>2. Idle' = Idle /\ Owned' = Owned
      BY <2>1 DEF Idle, Owned
    <2>3. TypeOK'
      BY <2>1 DEF PoolIInv, TypeOK, States
    <2>4. FreeCount' /\ Distinct' /\ Accounted' /\ LetGo'
      BY <2>1, <2>2 DEF PoolIInv, FreeCount, Distinct, Accounted, LetGo
    <2>5. IdleAtRest' /\ Unborn'
      BY <1>1, <2>1, <2>2 DEF PoolIInv, TypeOK, IdleAtRest, Unborn, Idle
    <2>6. Intact' /\ NoFreedUse'
      BY <2>1, <2>2 DEF PoolIInv, TypeOK, Intact, NoFreedUse, fault
    <2>. QED
      BY <2>3, <2>4, <2>5, <2>6 DEF PoolIInv
  <1>. QED
    BY <1>2, <1>3

(* mariadb_on_read of a connection that is now connected.                  *)
LEMMA OnConnectedPool ==
  ASSUME PoolIInv, NEW c \in Conns, OnConnected(c), UNCHANGED failures
  PROVE  PoolIInv'
  <1>1. state[c] = "CONNECTING" /\ held' = held /\ ~fault /\ killed' = killed
    BY DEF OnConnected
  <1>2. CASE /\ queries[c]
             /\ state' = [state EXCEPT ![c] = "QUERYING"]
             /\ UNCHANGED <<size, free_size, free_conns, is_pooled, finish,
                            queries, connect_cb, touched>>
    <2>1. Idle' = Idle /\ Owned' = Owned /\ c \notin Idle
      BY <1>1, <1>2 DEF Idle, Owned, PoolIInv, IdleAtRest
    <2>2. TypeOK'
      BY <1>1, <1>2 DEF PoolIInv, TypeOK, States
    <2>3. FreeCount' /\ Distinct' /\ Accounted' /\ LetGo'
      BY <1>1, <1>2, <2>1 DEF PoolIInv, FreeCount, Distinct, Accounted, LetGo
    <2>4. IdleAtRest' /\ Unborn'
      BY <1>1, <1>2, <2>1 DEF PoolIInv, TypeOK, IdleAtRest, Unborn, Idle
    <2>5. Intact' /\ NoFreedUse'
      BY <1>1, <1>2, <2>1 DEF PoolIInv, TypeOK, Intact, NoFreedUse, fault
    <2>. QED
      BY <2>2, <2>3, <2>4, <2>5 DEF PoolIInv
  <1>3. CASE ~queries[c] /\ Finish(c)
    BY <1>1, <1>3, FinishPool
  <1>. QED
    BY <1>2, <1>3 DEF OnConnected

(* An error or close event frees a connection, also one in the list, which *)
(* the pool then still accounts for; without failures there is none.       *)
LEMMA OnFailurePool ==
  ASSUME PoolIInv, NEW c \in Conns, OnFailure(c), UNCHANGED failures
  PROVE  PoolIInv'
  <1>1. /\ Free(c) /\ failures # {}
        /\ state[c] \in {"CONNECTING", "CONNECTED", "QUERYING"}
        /\ killed' = killed \cup {c}
        /\ UNCHANGED <<finish, queries, connect_cb, held>>
    BY DEF OnFailure, Hit
  <1>2. Idle' = Idle /\ FreeCount' /\ Distinct' /\ Accounted'
    BY <1>1, FreeOwned
  <1>3. TypeOK'
    BY <1>1 DEF Free, PoolIInv, TypeOK, States
  <1>4. IdleAtRest'
    BY <1>1, <1>2 DEF Free, PoolIInv, TypeOK, IdleAtRest, Idle
  <1>5. Unborn' /\ LetGo'
    BY <1>1 DEF Free, PoolIInv, TypeOK, Unborn, LetGo
  <1>6. Intact' /\ NoFreedUse'
    BY <1>1, <1>2 DEF Free, PoolIInv, TypeOK, Intact, NoFreedUse
  <1>. QED
    BY <1>2, <1>3, <1>4, <1>5, <1>6 DEF PoolIInv

(* A call on a freed connection: only a failure can have freed it.         *)
LEMMA UseFreedPool ==
  ASSUME PoolIInv, NEW c \in Conns, UseFreed(c), UNCHANGED failures
  PROVE  PoolIInv'
  <1>1. /\ c \in held /\ state[c] = "freed" /\ touched' = {c}
        /\ UNCHANGED <<size, free_size, free_conns, state, is_pooled, finish,
                       queries, connect_cb, held, killed>>
    BY DEF UseFreed
  <1>2. failures # {}
    BY <1>1 DEF PoolIInv, Intact
  <1>3. Idle' = Idle /\ Owned' = Owned
    BY <1>1 DEF Idle, Owned
  <1>4. TypeOK' /\ Intact' /\ NoFreedUse'
    BY <1>1, <1>2, <1>3 DEF PoolIInv, TypeOK, Intact, NoFreedUse
  <1>5. FreeCount' /\ Distinct' /\ Accounted' /\ LetGo' /\ IdleAtRest' /\ Unborn'
    BY <1>1, <1>3 DEF PoolIInv, FreeCount, Distinct, Accounted, LetGo, IdleAtRest, Unborn
  <1>. QED
    BY <1>4, <1>5 DEF PoolIInv

(* Every step of the pool, of a service and of the event loop preserves    *)
(* the invariant.                                                          *)
LEMMA NextPool == PoolIInv /\ [Next]_vars => PoolIInv'
  <1>. SUFFICES ASSUME PoolIInv, [Next]_vars PROVE PoolIInv'
    OBVIOUS
  <1>1. CASE GetIdle /\ UNCHANGED failures
    BY <1>1, GetIdlePool
  <1>2. ASSUME NEW c \in Conns, UNCHANGED failures,
               \/ GetNew(c) \/ GetExtra(c) \/ Query(c) \/ Disconnect(c)
               \/ UseFreed(c) \/ OnConnected(c) \/ OnFailure(c)
        PROVE  PoolIInv'
    BY <1>2, GetNewPool, GetExtraPool, QueryPool, DisconnectPool, UseFreedPool,
       OnConnectedPool, OnFailurePool
  <1>3. ASSUME NEW c \in Conns, UNCHANGED failures, OnQueried(c)
        PROVE  PoolIInv'
    BY <1>3, FinishPool DEF OnQueried
  <1>4. CASE UNCHANGED vars
    BY <1>4 DEF vars, PoolIInv, TypeOK, FreeCount, Distinct, Accounted, LetGo,
                IdleAtRest, Unborn, Intact, NoFreedUse, Idle, Owned, fault
  <1>. QED
    BY <1>1, <1>2, <1>3, <1>4 DEF Next, Halted

-----------------------------------------------------------------------------
(***************************************************************************)
(* Theorems.                                                               *)
(***************************************************************************)

(* The inductive invariant holds of the pool.                              *)
THEOREM PoolInvariant == Spec => []PoolIInv
  BY InitPool, NextPool, PTL DEF Spec

(* The invariant gives the counts the pool grows and shrinks by.           *)
LEMMA CountsFollow == PoolIInv => CountsRight
  <1>. SUFFICES ASSUME PoolIInv PROVE CountsRight
    OBVIOUS
  <1>. DEFINE P == {c \in Alive : is_pooled[c]}
  <1>1. P \in SUBSET Owned /\ Cardinality(P) <= Cardinality(Owned)
    <2>1. P \in SUBSET Owned
      BY DEF Alive, Owned
    <2>. HIDE DEF P
    <2>. QED
      BY <2>1, FS_Subset DEF PoolIInv, Accounted
  <1>2. Cardinality(P) \in Nat /\ Cardinality(Owned) \in Nat
    <2>. HIDE DEF P
    <2>. QED
      BY <1>1, FS_Subset, FS_CardinalityType DEF PoolIInv, Accounted
  <1>3. PoolBounds
    BY <1>1, <1>2, PoolAssumption DEF PoolIInv, Accounted, PoolBounds, TypeOK
  <1>4. SizeExact
    <2>1. failures = {} => P = Owned
      BY DEF PoolIInv, Intact, IdleAtRest, Alive, Owned, TypeOK, Idle
    <2>. QED
      BY <2>1 DEF PoolIInv, Intact, SizeExact
  <1>. QED
    BY <1>3, <1>4 DEF PoolIInv, CountsRight

(* pool->free_size is the length of the list, size bounds the pool's       *)
(* connections, is at most the maximum, and is exact without failures.     *)
THEOREM PoolCounts == Spec => []CountsRight
  BY PoolInvariant, CountsFollow, PTL

(* No connection is idle and held at once, or idle twice, or idle with     *)
(* queries, whatever fails and however services use their connections.     *)
THEOREM PoolExclusive == Spec => []Exclusive
  <1>1. PoolIInv => Exclusive
    BY DEF PoolIInv, Exclusive, Distinct, IdleAtRest
  <1>. QED
    BY <1>1, PoolInvariant, PTL

(* Only connections that a failure has freed, while they were idle or held *)
(* or inside get_conn, are used afterwards: those the pool frees, when it  *)
(* shrinks or at a release, never are, for any pool and any failures.      *)
THEOREM PoolNoFreedUse == Spec => []NoFreedUse
  <1>1. PoolIInv => NoFreedUse
    BY DEF PoolIInv
  <1>. QED
    BY <1>1, PoolInvariant, PTL

-----------------------------------------------------------------------------
(***************************************************************************)
(* The body buffer.                                                        *)
(***************************************************************************)
Pieces == [base : Nat, len : Nat]

\* The pieces, without those that went out, are the rest of the body, in
\* order; a buffer that reports its end stays as it is.
BufInv ==
    /\ io \in Seq(Pieces) /\ wire \in Seq(Nat)
    /\ room \in Nat /\ total_len \in Nat /\ body \in Nat
    /\ report \in [ret : Int, sent : Int, left : Int]
    /\ Len(io) <= room
    /\ wire = [k \in 1..Len(wire) |-> k]
    /\ report.ret = 0 =>
          \/ Len(wire) = body
          \/ report.sent = report.left /\ report.left = body - Len(wire)
    /\ report.ret # 0 =>
          /\ PieceEnds(io)[Len(io)] = total_len
          /\ total_len = body - Len(wire)
          /\ \A i \in 1..Len(io) : io[i].len > 0 => io[i].base = Len(wire) + Before(i) + 1

(* The base and the length of a piece.                                     *)
LEMMA PieceTyped ==
  ASSUME NEW s \in Seq(Pieces)
  PROVE  /\ Len(s) \in Nat
         /\ \A i \in 1..Len(s) : s[i] \in Pieces /\ s[i].len \in Nat /\ s[i].base \in Nat
  <1>1. \A i \in 1..Len(s) : s[i] \in Pieces
    OBVIOUS
  <1>. QED
    BY <1>1 DEF Pieces

(* PieceEnds adds up the lengths of the pieces.                                 *)
LEMMA PieceEndsSum ==
  ASSUME NEW s \in Seq(Pieces)
  PROVE  /\ PieceEnds(s)[0] = 0
         /\ \A i \in 0..Len(s) : PieceEnds(s)[i] \in Nat
         /\ \A i \in 1..Len(s) : PieceEnds(s)[i] = PieceEnds(s)[i - 1] + s[i].len
  <1>. DEFINE n == Len(s)
              p == [i \in 1..n |-> s[i].len]
              g == PieceEnds(s)
  <1>1. n \in Nat
    OBVIOUS
  <1>2. \A i \in 1..n : p[i] = s[i].len
    OBVIOUS
  <1>3. \A i \in 1..n : s[i] \in Pieces
    OBVIOUS
  <1>4. \A i \in 1..n : p[i] \in Nat
    BY <1>2, <1>3 DEF Pieces
  <1>. HIDE DEF n, p
  <1>5. PICK f : /\ f = [i \in 0..n |-> IF i = 0 THEN 0 ELSE f[i - 1] + p[i]]
                 /\ \A i \in 0..n : f[i] \in Nat
    BY <1>1, <1>4, SumExists
  <1>6. [i \in 0..n |-> IF i = 0 THEN 0 ELSE f[i - 1] + p[i]]
          = [i \in 0..n |-> IF i = 0 THEN 0 ELSE f[i - 1] + s[i].len]
    <2>1. \A i \in 0..n : i # 0 => i \in 1..n
      BY <1>1
    <2>. QED
      BY <1>2, <2>1
  <1>7. f = [i \in 0..n |-> IF i = 0 THEN 0 ELSE f[i - 1] + s[i].len]
    BY <1>5, <1>6
  <1>8. g = [i \in 0..n |-> IF i = 0 THEN 0 ELSE g[i - 1] + s[i].len]
    BY <1>7 DEF PieceEnds, n
  <1>. HIDE DEF g
  <1>9. g[0] = 0
    BY <1>1, <1>8
  <1>10. \A i \in 1..n : g[i] = g[i - 1] + s[i].len
    <2>1. \A i \in 1..n : i \in 0..n /\ i # 0
      BY <1>1
    <2>. QED
      BY <1>8, <2>1
  <1>11. \A i \in 0..n : g[i] \in Nat
    <2>. DEFINE T == {m \in Nat : m <= n => g[m] \in Nat}
    <2>1. 0 \in T
      BY <1>9
    <2>2. ASSUME NEW m \in T \cap Nat PROVE m + 1 \in T
      <3>1. SUFFICES ASSUME m + 1 <= n PROVE g[m + 1] \in Nat
        OBVIOUS
      <3>2. m + 1 \in 1..n /\ (m + 1) - 1 = m /\ g[m] \in Nat
        BY <1>1, <3>1
      <3>. QED
        BY <1>2, <1>4, <1>10, <3>2
    <2>. HIDE DEF T
    <2>3. Nat \subseteq T
      BY <2>1, <2>2, NatSetInduction
    <2>. QED
      BY <2>3 DEF T
  <1>. QED
    BY <1>9, <1>10, <1>11 DEF g, n

(* Whatever adds up the lengths is PieceEnds.                                   *)
LEMMA EndsUnique ==
  ASSUME NEW s \in Seq(Pieces), NEW m \in 0..Len(s), NEW g, g[0] = 0,
         \A i \in 1..m : g[i] = g[i - 1] + s[i].len
  PROVE  \A i \in 0..m : PieceEnds(s)[i] = g[i]
  <1>. DEFINE f == PieceEnds(s)
              T == {k \in Nat : k <= m => f[k] = g[k]}
  <1>1. /\ f[0] = 0
        /\ \A i \in 1..m : f[i] = f[i - 1] + s[i].len
    BY PieceEndsSum
  <1>. HIDE DEF f
  <1>2. 0 \in T
    BY <1>1
  <1>3. ASSUME NEW k \in T \cap Nat PROVE k + 1 \in T
    <2>1. SUFFICES ASSUME k + 1 <= m PROVE f[k + 1] = g[k + 1]
      OBVIOUS
    <2>2. k + 1 \in 1..m /\ (k + 1) - 1 = k /\ f[k] = g[k]
      BY <2>1
    <2>. QED
      BY <1>1, <2>2
  <1>. HIDE DEF T
  <1>4. Nat \subseteq T
    BY <1>2, <1>3, NatSetInduction
  <1>. QED
    BY <1>4 DEF T, f

(* The pieces end one after the other.                                     *)
LEMMA EndsGrow ==
  ASSUME NEW s \in Seq(Pieces), NEW i \in 0..Len(s), NEW j \in i..Len(s)
  PROVE  PieceEnds(s)[i] <= PieceEnds(s)[j]
  <1>. DEFINE f == PieceEnds(s)
              n == Len(s)
              T == {k \in Nat : i <= k /\ k <= n => f[i] <= f[k]}
  <1>1. /\ n \in Nat
        /\ \A k \in 0..n : f[k] \in Nat
        /\ \A k \in 1..n : f[k] = f[k - 1] + s[k].len /\ s[k].len \in Nat
    BY PieceEndsSum, PieceTyped
  <1>2. i \in 0..n /\ j \in i..n
    OBVIOUS
  <1>. HIDE DEF f, n
  <1>3. 0 \in T
    BY <1>1, <1>2
  <1>4. ASSUME NEW k \in T \cap Nat PROVE k + 1 \in T
    <2>1. SUFFICES ASSUME i <= k + 1, k + 1 <= n PROVE f[i] <= f[k + 1]
      OBVIOUS
    <2>2. CASE i = k + 1
      BY <1>1, <1>2, <2>2
    <2>3. CASE i # k + 1
      <3>0. i \in Nat /\ i <= k /\ k <= n
        BY <1>1, <1>2, <2>1, <2>3
      <3>1. k + 1 \in 1..n /\ (k + 1) - 1 = k /\ f[i] <= f[k] /\ k \in 0..n
        BY <1>1, <2>1, <3>0
      <3>2. f[k + 1] = f[k] + s[k + 1].len /\ s[k + 1].len \in Nat
        BY <1>1, <3>1
      <3>. QED
        BY <1>1, <1>2, <3>1, <3>2
    <2>. QED
      BY <2>2, <2>3
  <1>. HIDE DEF T
  <1>5. Nat \subseteq T
    BY <1>3, <1>4, NatSetInduction
  <1>. QED
    BY <1>1, <1>2, <1>5 DEF T, f, n

(* The first n bytes end in a piece that begins before the last of them.   *)
LEMMA StopAt ==
  ASSUME io \in Seq(Pieces), NEW n \in 1..PieceEnds(io)[Len(io)]
  PROVE  /\ Stop(n) \in 1..Len(io)
         /\ PieceEnds(io)[Stop(n) - 1] < n
         /\ n <= PieceEnds(io)[Stop(n)]
  <1>. DEFINE f == PieceEnds(io)
              l == Len(io)
              I == {i \in 1..l : f[i] >= n}
  <1>1. f[0] = 0 /\ \A k \in 0..l : f[k] \in Nat
    BY PieceEndsSum
  <1>2. l \in Nat /\ n \in 1..f[l] /\ DOMAIN io = 1..l
    OBVIOUS
  <1>3. Stop(n) = Min(I)
    BY <1>2 DEF Stop
  <1>. HIDE DEF f, l
  <1>4. l \in I
    BY <1>1, <1>2
  <1>5. \E m \in I : \A k \in I : m <= k
    <2>1. I \in SUBSET Nat /\ I # {}
      BY <1>4
    <2>. QED
      BY <2>1, LeastNatural, Zenon
  <1>6. Stop(n) \in I /\ \A k \in I : Stop(n) <= k
    BY <1>3, <1>5 DEF Min
  <1>7. f[Stop(n) - 1] < n
    <2>1. CASE Stop(n) = 1
      BY <1>1, <1>2, <2>1
    <2>2. CASE Stop(n) # 1
      <3>1. Stop(n) - 1 \in 1..l /\ Stop(n) - 1 \notin I
        BY <1>2, <1>6, <2>2
      <3>. QED
        BY <1>1, <1>2, <3>1
    <2>. QED
      BY <2>1, <2>2
  <1>8. n <= f[Stop(n)]
    BY <1>1, <1>2, <1>6
  <1>. QED
    BY <1>6, <1>7, <1>8 DEF f, l

(* While the buffer is in use, writev() is given the rest of the body.     *)
LEMMA BytesLeft ==
  ASSUME BufInv, report.ret # 0
  PROVE  Bytes = [k \in 1..total_len |-> Len(wire) + k]
  <1>1. /\ io \in Seq(Pieces) /\ wire \in Seq(Nat) /\ total_len \in Nat
        /\ PieceEnds(io)[Len(io)] = total_len
        /\ \A i \in 1..Len(io) : io[i].len > 0 => io[i].base = Len(wire) + Before(i) + 1
    BY DEF BufInv
  <1>2. ASSUME NEW k \in 1..total_len
        PROVE  io[Stop(k)].base + (k - Before(Stop(k))) - 1 = Len(wire) + k
    <2>. DEFINE a == Stop(k)
    <2>1. a \in 1..Len(io) /\ PieceEnds(io)[a - 1] < k /\ k <= PieceEnds(io)[a]
      BY <1>1, <1>2, StopAt
    <2>. HIDE DEF a
    <2>2. PieceEnds(io)[a] = PieceEnds(io)[a - 1] + io[a].len
      BY <1>1, <2>1, PieceEndsSum
    <2>3. PieceEnds(io)[a] \in Nat /\ PieceEnds(io)[a - 1] \in Nat
      BY <1>1, <2>1, PieceEndsSum
    <2>4. io[a].len \in Nat /\ Len(wire) \in Nat
      BY <1>1, <2>1, PieceTyped
    <2>5. io[a].len > 0
      BY <1>2, <2>1, <2>2, <2>3, <2>4
    <2>6. io[a].base = Len(wire) + PieceEnds(io)[a - 1] + 1
      BY <1>1, <2>1, <2>5 DEF Before
    <2>. QED
      BY <1>2, <2>3, <2>4, <2>6 DEF Before, a
  <1>. QED
    BY <1>1, <1>2 DEF Bytes

(* A piece that is added follows the bytes that are there.                 *)
LEMMA AddPieceInv ==
  ASSUME BufInv, NEW n \in PieceSizes, AddPiece(n)
  PROVE  BufInv'
  <1>. DEFINE l == Len(io)
              c == Piece(body + 1, n)
  <1>1. /\ io \in Seq(Pieces) /\ wire \in Seq(Nat) /\ n \in Nat /\ body \in Nat
        /\ room \in Nat /\ total_len \in Nat /\ l <= room /\ l \in Nat
        /\ BufferSize \in Nat \ {0} /\ report.ret # 0
        /\ PieceEnds(io)[l] = total_len
        /\ total_len = body - Len(wire) /\ Len(wire) \in Nat
        /\ \A i \in 1..l : io[i].len > 0 => io[i].base = Len(wire) + PieceEnds(io)[i - 1] + 1
    <2>1. n \in Nat /\ BufferSize \in Nat \ {0}
      BY BufAssumption
    <2>2. io \in Seq(Pieces) /\ wire \in Seq(Nat) /\ report.ret # 0
      BY DEF BufInv, AddPiece
    <2>3. Len(io) \in Nat /\ Len(wire) \in Nat
      BY <2>2
    <2>. QED
      BY <2>1, <2>2, <2>3 DEF BufInv, Before
  <1>2. c \in Pieces /\ c.len = n /\ c.base = body + 1
    BY <1>1 DEF Pieces, Piece
  <1>3. io' = Append(io, c) /\ UNCHANGED <<wire, report>>
    BY DEF AddPiece
  <1>. HIDE DEF c
  <1>4. /\ io' \in Seq(Pieces) /\ Len(io') = l + 1 /\ io'[l + 1] = c
        /\ \A i \in 1..l : io'[i] = io[i]
    BY <1>1, <1>2, <1>3
  <1>5. \A i \in 0..l : PieceEnds(io')[i] = PieceEnds(io)[i]
    <2>1. /\ PieceEnds(io)[0] = 0
          /\ \A i \in 1..l : PieceEnds(io)[i] = PieceEnds(io)[i - 1] + io'[i].len
      BY <1>1, <1>4, PieceEndsSum
    <2>2. l \in 0..Len(io')
      BY <1>1, <1>4
    <2>. QED
      BY <1>4, <2>1, <2>2, EndsUnique
  <1>6. PieceEnds(io')[l + 1] = total_len + n
    <2>1. PieceEnds(io')[l + 1] = PieceEnds(io')[(l + 1) - 1] + io'[l + 1].len
      BY <1>1, <1>4, PieceEndsSum
    <2>2. (l + 1) - 1 = l /\ l \in 0..l
      BY <1>1
    <2>. QED
      BY <1>1, <1>2, <1>4, <1>5, <2>1, <2>2
  <1>7. \A i \in 1..l + 1 : io'[i].len > 0 => io'[i].base = Len(wire) + PieceEnds(io')[i - 1] + 1
    <2>. SUFFICES ASSUME NEW i \in 1..l + 1, io'[i].len > 0
                  PROVE  io'[i].base = Len(wire) + PieceEnds(io')[i - 1] + 1
      OBVIOUS
    <2>1. CASE i = l + 1
      <3>1. i - 1 = l /\ l \in 0..l
        BY <1>1, <2>1
      <3>2. PieceEnds(io')[i - 1] = total_len
        BY <1>1, <1>5, <3>1
      <3>. QED
        BY <1>1, <1>2, <1>4, <2>1, <3>2
    <2>2. CASE i # l + 1
      <3>1. i \in 1..l /\ i - 1 \in 0..l
        BY <1>1, <2>2
      <3>2. PieceEnds(io')[i - 1] = PieceEnds(io)[i - 1] /\ io'[i] = io[i]
        BY <1>4, <1>5, <3>1
      <3>. QED
        BY <1>1, <3>1, <3>2
    <2>. QED
      BY <2>1, <2>2
  <1>8. /\ room' \in Nat /\ Len(io') <= room'
        /\ total_len' = total_len + n /\ body' = body + n
    BY <1>1, <1>4 DEF AddPiece
  <1>9. /\ total_len' \in Nat /\ body' \in Nat
        /\ total_len' = body' - Len(wire)
    BY <1>1, <1>8
  <1>10. /\ wire' \in Seq(Nat) /\ wire' = [k \in 1..Len(wire') |-> k]
         /\ report' \in [ret : Int, sent : Int, left : Int] /\ report'.ret # 0
    BY <1>1, <1>3 DEF BufInv
  <1>11. PieceEnds(io')[Len(io')] = total_len'
    BY <1>4, <1>6, <1>8
  <1>12. \A i \in 1..Len(io') : io'[i].len > 0 => io'[i].base = Len(wire') + Before(i)' + 1
    BY <1>3, <1>4, <1>7 DEF Before
  <1>. QED
    BY <1>3, <1>4, <1>8, <1>9, <1>10, <1>11, <1>12 DEF BufInv

LEMMA ExpandInv ==
  ASSUME BufInv, NEW done \in BOOLEAN, duda_body_buffer_expand(done)
  PROVE  BufInv'
  <1>1. UNCHANGED <<io, total_len, body, wire, report>> /\ room' \in {room, room + BufferSize}
    BY DEF duda_body_buffer_expand
  <1>2. BufferSize \in Nat /\ room \in Nat /\ io \in Seq(Pieces)
    BY BufAssumption DEF BufInv
  <1>3. Len(io) \in Nat
    BY <1>2
  <1>4. room' \in Nat /\ (Len(io) <= room => Len(io) <= room')
    BY <1>1, <1>2, <1>3
  <1>. QED
    BY <1>1, <1>4 DEF BufInv, Before

(* What a write of n bytes takes leaves the end of every piece that much   *)
(* nearer, and the rest of the body where it was.                          *)
LEMMA AdvancedEnds ==
  ASSUME BufInv, report.ret # 0, NEW n \in 1..total_len - 1
  PROVE  /\ Advanced(n) \in Seq(Pieces) /\ Len(Advanced(n)) = Len(io)
         /\ PieceEnds(Advanced(n))[Len(io)] = total_len - n
         /\ \A i \in 1..Len(io) : Advanced(n)[i].len > 0 =>
               Advanced(n)[i].base = Len(wire) + n + PieceEnds(Advanced(n))[i - 1] + 1
  <1>. DEFINE f == PieceEnds(io)
              l == Len(io)
              a == Stop(n)
              r == Advanced(n)
              w == Len(wire)
              g == [i \in 0..l |-> IF f[i] <= n THEN 0 ELSE f[i] - n]
  <1>1. /\ io \in Seq(Pieces) /\ total_len \in Nat /\ n \in Nat
        /\ f[l] = total_len /\ l \in Nat /\ w \in Nat
        /\ \A i \in 1..l : io[i].len > 0 => io[i].base = w + f[i - 1] + 1
    <2>1. io \in Seq(Pieces) /\ wire \in Seq(Nat) /\ total_len \in Nat
      BY DEF BufInv
    <2>2. l \in Nat /\ w \in Nat /\ n \in Nat
      BY <2>1
    <2>. QED
      BY <2>1, <2>2 DEF BufInv, Before
  <1>2. a \in 1..l /\ f[a - 1] < n /\ n <= f[a]
    BY <1>1, StopAt
  <1>3. /\ f[0] = 0
        /\ \A i \in 0..l : f[i] \in Nat
        /\ \A i \in 1..l : f[i] = f[i - 1] + io[i].len
    BY <1>1, PieceEndsSum
  <1>4. \A i \in 1..l : io[i] \in Pieces /\ io[i].len \in Nat /\ io[i].base \in Nat
    BY <1>1, PieceTyped
  <1>5. /\ \A i \in 0..l : i < a => f[i] < n
        /\ \A i \in 0..l : a <= i => n <= f[i]
    <2>1. ASSUME NEW i \in 0..l, i < a PROVE f[i] < n
      <3>1. a - 1 \in i..l
        BY <1>1, <1>2, <2>1
      <3>2. f[i] <= f[a - 1]
        BY <1>1, <3>1, EndsGrow
      <3>3. a - 1 \in 0..l
        BY <1>1, <1>2
      <3>. QED
        BY <1>1, <1>2, <1>3, <3>2, <3>3
    <2>2. ASSUME NEW i \in 0..l, a <= i PROVE n <= f[i]
      <3>1. a \in 0..l /\ i \in a..l
        BY <1>1, <1>2, <2>2
      <3>2. f[a] <= f[i]
        BY <1>1, <3>1, EndsGrow
      <3>. QED
        BY <1>1, <1>2, <1>3, <3>1, <3>2
    <2>. QED
      BY <2>1, <2>2
  <1>6. r = [i \in 1..l |->
               IF i < a \/ (i = a /\ f[i] = n) THEN Piece(io[i].base, 0)
               ELSE IF i = a THEN Piece(io[i].base + (n - f[i - 1]), io[i].len - (n - f[i - 1]))
               ELSE io[i]]
    BY <1>1 DEF Advanced, Before
  <1>. HIDE DEF f, l, a, r, w
  <1>7. ASSUME NEW i \in 1..l
        PROVE  /\ r[i] \in Pieces
               /\ g[i] = g[i - 1] + r[i].len
               /\ r[i].len > 0 => r[i].base = w + n + g[i - 1] + 1
    <2>a. l \in Nat /\ i \in 1..l
      BY <1>1
    <2>b. i - 1 \in 0..l /\ i \in 0..l
      BY <2>a
    <2>0. /\ i - 1 \in 0..l /\ i \in 0..l
          /\ f[i] \in Nat /\ f[i - 1] \in Nat /\ f[i] = f[i - 1] + io[i].len
          /\ io[i].len \in Nat /\ io[i].base \in Nat
      BY <1>3, <1>4, <2>a, <2>b
    <2>1. /\ g[i] = (IF f[i] <= n THEN 0 ELSE f[i] - n)
          /\ g[i - 1] = (IF f[i - 1] <= n THEN 0 ELSE f[i - 1] - n)
      BY <2>0
    <2>. HIDE DEF g
    <2>2. CASE i < a \/ (i = a /\ f[i] = n)
      <3>1. r[i] = [base |-> io[i].base, len |-> 0]
        BY <1>6, <1>7, <2>2 DEF Piece
      <3>2. f[i] <= n /\ f[i - 1] <= n
        BY <1>1, <1>2, <1>5, <2>0, <2>2
      <3>. QED
        BY <2>0, <2>1, <3>1, <3>2 DEF Pieces
    <2>3. CASE i = a /\ f[i] # n
      <3>1. r[i] = [base |-> io[i].base + (n - f[i - 1]), len |-> io[i].len - (n - f[i - 1])]
        BY <1>1, <1>2, <1>6, <1>7, <2>3 DEF Piece
      <3>2. f[i - 1] < n /\ n < f[i]
        BY <1>1, <1>2, <2>0, <2>3
      <3>3. io[i].base = w + f[i - 1] + 1
        BY <1>1, <1>7, <2>0, <3>2
      <3>t. w \in Nat /\ n \in Nat /\ f[i] \in Nat /\ f[i - 1] \in Nat
        BY <1>1, <2>0
      <3>b. io[i].base + (n - f[i - 1]) = w + n + 1
        BY <3>3, <3>t
      <3>l. io[i].len - (n - f[i - 1]) = f[i] - n
        BY <2>0, <3>t
      <3>4. r[i].base = w + n + 1 /\ r[i].len = f[i] - n
        BY <3>1, <3>b, <3>l
      <3>5. r[i].base \in Nat /\ r[i].len \in Nat
        BY <3>2, <3>4, <3>t
      <3>6. r[i] \in Pieces
        BY <3>1, <3>5 DEF Pieces
      <3>7. g[i] = f[i] - n /\ g[i - 1] = 0
        BY <1>1, <2>0, <2>1, <3>2
      <3>. QED
        BY <1>1, <2>0, <3>4, <3>6, <3>7
    <2>4. CASE i > a
      <3>1. r[i] = io[i] /\ io[i] \in Pieces
        BY <1>1, <1>2, <1>4, <1>6, <2>4
      <3>2. n <= f[i - 1] /\ n <= f[i]
        BY <1>1, <1>2, <1>5, <2>0, <2>4
      <3>3. g[i] = f[i] - n /\ g[i - 1] = f[i - 1] - n
        BY <1>1, <2>0, <2>1, <3>2
      <3>4. io[i].len > 0 => io[i].base = w + f[i - 1] + 1
        BY <1>1, <1>7
      <3>t. w \in Nat /\ n \in Nat /\ f[i] \in Nat /\ f[i - 1] \in Nat /\ io[i].len \in Nat
        BY <1>1, <2>0
      <3>5. g[i] = g[i - 1] + io[i].len
        BY <2>0, <3>3, <3>t
      <3>6. w + n + g[i - 1] + 1 = w + f[i - 1] + 1
        BY <3>3, <3>t
      <3>. QED
        BY <3>1, <3>4, <3>5, <3>6
    <2>. QED
      BY <1>1, <1>2, <2>2, <2>3, <2>4
  <1>8. r \in Seq(Pieces) /\ Len(r) = l
    <2>1. r \in [1..l -> Pieces]
      BY <1>6, <1>7
    <2>. QED
      BY <1>1, <2>1
  <1>9. \A i \in 0..l : PieceEnds(r)[i] = g[i]
    <2>0. 0 \in 0..l /\ f[0] <= n
      BY <1>1, <1>3
    <2>1. g[0] = 0 /\ \A i \in 1..l : g[i] = g[i - 1] + r[i].len
      BY <1>7, <2>0
    <2>. HIDE DEF g
    <2>2. l \in 0..Len(r)
      BY <1>1, <1>8
    <2>. QED
      BY <1>8, <2>1, <2>2, EndsUnique
  <1>10. PieceEnds(r)[l] = total_len - n
    <2>1. g[l] = total_len - n
      BY <1>1
    <2>. QED
      BY <1>1, <1>9, <2>1
  <1>11. \A i \in 1..l : r[i].len > 0 => r[i].base = w + n + PieceEnds(r)[i - 1] + 1
    <2>1. \A i \in 1..l : i - 1 \in 0..l
      BY <1>1
    <2>. HIDE DEF g
    <2>. QED
      BY <1>7, <1>9, <2>1
  <1>. QED
    BY <1>8, <1>10, <1>11 DEF l, r, w

(* The bytes that go out are the next ones of the body.                    *)
LEMMA WireGrows ==
  ASSUME BufInv, report.ret # 0, NEW n \in 0..total_len
  PROVE  /\ wire \o SubSeq(Bytes, 1, n) \in Seq(Nat)
         /\ Len(wire \o SubSeq(Bytes, 1, n)) = Len(wire) + n
         /\ wire \o SubSeq(Bytes, 1, n) = [k \in 1..Len(wire) + n |-> k]
  <1>. DEFINE w == Len(wire)
              b == SubSeq(Bytes, 1, n)
              x == wire \o b
  <1>0. wire \in Seq(Nat) /\ total_len \in Nat
    BY DEF BufInv
  <1>1. w \in Nat /\ n \in Nat /\ total_len \in Nat
    BY <1>0
  <1>a. \A k \in 1..w : wire[k] = k
    <2>1. wire = [k \in 1..w |-> k]
      BY DEF BufInv
    <2>. HIDE DEF w
    <2>. QED
      BY <2>1
  <1>b. Bytes = [k \in 1..total_len |-> w + k]
    BY BytesLeft
  <1>2. Bytes \in Seq(Nat) /\ Len(Bytes) = total_len
    <2>. HIDE DEF w
    <2>1. Bytes \in [1..total_len -> Nat]
      BY <1>1, <1>b
    <2>. QED
      BY <1>1, <2>1
  <1>3. /\ b \in Seq(Nat) /\ Len(b) = n
        /\ \A k \in 1..n : b[k] = w + k
    <2>. HIDE DEF w
    <2>1. b \in Seq(Nat) /\ Len(b) = n /\ \A k \in 1..n : b[k] = Bytes[k]
      BY <1>1, <1>2
    <2>2. \A k \in 1..n : Bytes[k] = w + k
      BY <1>1, <1>b
    <2>. QED
      BY <2>1, <2>2
  <1>. HIDE DEF b
  <1>4. x \in Seq(Nat) /\ Len(x) = w + n
    BY <1>0, <1>3
  <1>5. ASSUME NEW k \in 1..w + n PROVE x[k] = k
    <2>1. CASE k <= w
      <3>1. x[k] = wire[k]
        BY <1>0, <1>3, <2>1
      <3>. QED
        BY <1>1, <1>a, <2>1, <3>1
    <2>2. CASE k > w
      <3>1. k - w \in 1..n
        BY <1>1, <2>2
      <3>2. x[k] = b[k - w]
        BY <1>0, <1>3, <2>2, <3>1
      <3>. QED
        BY <1>1, <1>3, <3>1, <3>2
    <2>3. k <= w \/ k > w
      <3>. HIDE DEF w, x
      <3>. QED
        BY <1>1
    <2>. HIDE DEF w, x
    <2>. QED
      BY <2>1, <2>2, <2>3
  <1>6. x = [k \in 1..w + n |-> k]
    <2>. HIDE DEF x
    <2>1. DOMAIN x = 1..w + n /\ x = [k \in DOMAIN x |-> x[k]]
      BY <1>4
    <2>. HIDE DEF w
    <2>. QED
      BY <1>5, <2>1
  <1>. QED
    BY <1>4, <1>6 DEF w, b, x

(* A flush takes the bytes it reports, or ends.                            *)
LEMMA FlushInv ==
  ASSUME BufInv, NEW n \in {-1} \cup 1..total_len, duda_body_buffer_flush(n)
  PROVE  BufInv'
  <1>1. /\ io \in Seq(Pieces) /\ wire \in Seq(Nat) /\ total_len \in Nat
        /\ body \in Nat /\ room \in Nat /\ Len(io) <= room
        /\ report.ret # 0 /\ total_len = body - Len(wire)
        /\ PieceEnds(io)[Len(io)] = total_len
    BY DEF BufInv, duda_body_buffer_flush
  <1>2. Len(io) \in Nat /\ Len(wire) \in Nat
    BY <1>1
  <1>3. UNCHANGED <<room, body>> /\ wire' = wire \o SubSeq(Bytes, 1, n)
    BY DEF duda_body_buffer_flush
  <1>4. CASE n = -1
    <2>1. io' = io /\ total_len' = total_len
          /\ report' = [ret |-> -1, sent |-> -1, left |-> 0]
      BY <1>1, <1>4 DEF duda_body_buffer_flush
    <2>2. wire' = wire
      <3>1. Bytes \in Seq(Nat)
        <4>1. Bytes = [k \in 1..total_len |-> Len(wire) + k]
          BY <1>1, BytesLeft
        <4>2. Bytes \in [1..total_len -> Nat]
          BY <1>1, <1>2, <4>1
        <4>3. total_len \in Nat
          BY <1>1
        <4>. QED
          BY <4>2, <4>3
      <3>2. SubSeq(Bytes, 1, -1) = <<>>
        BY <3>1
      <3>. QED
        BY <1>1, <1>3, <1>4, <3>2, ConcatEmptySeq
    <2>3. report' \in [ret : Int, sent : Int, left : Int] /\ report'.ret # 0
      BY <2>1
    <2>4. \A i \in 1..Len(io') : io'[i].len > 0 => io'[i].base = Len(wire') + Before(i)' + 1
      BY <1>1, <2>1, <2>2 DEF BufInv, Before
    <2>5. wire' = [k \in 1..Len(wire') |-> k]
      BY <2>2 DEF BufInv
    <2>. QED
      BY <1>1, <1>3, <2>1, <2>2, <2>3, <2>4, <2>5 DEF BufInv
  <1>5. CASE n = total_len
    <2>1. /\ io' = io /\ total_len' = 0
          /\ report' = [ret |-> 0, sent |-> n, left |-> 0]
      BY <1>1, <1>5 DEF duda_body_buffer_flush
    <2>2. n \in 0..total_len
      BY <1>1, <1>5
    <2>3. /\ wire' \in Seq(Nat) /\ Len(wire') = body
          /\ wire' = [k \in 1..body |-> k]
      <3>1. Len(wire) + n = body
        BY <1>1, <1>2, <1>5
      <3>. QED
        BY <1>1, <1>3, <2>2, <3>1, WireGrows
    <2>4. report' \in [ret : Int, sent : Int, left : Int] /\ report'.ret = 0
      BY <1>1, <1>5, <2>1
    <2>5. wire' = [k \in 1..Len(wire') |-> k] /\ Len(wire') = body'
      BY <1>3, <2>3
    <2>. QED
      BY <1>1, <1>3, <2>1, <2>3, <2>4, <2>5 DEF BufInv
  <1>6. CASE n \in 1..total_len - 1
    <2>1. /\ io' = Advanced(n)
          /\ report' = [ret |-> IF n = total_len - n THEN 0 ELSE n,
                        sent |-> n, left |-> total_len - n]
          /\ total_len' = IF n = total_len - n THEN 0 ELSE total_len - n
      BY <1>1, <1>6 DEF duda_body_buffer_flush
    <2>2. n \in 0..total_len /\ n \in Nat
      BY <1>1, <1>6
    <2>3. /\ wire' \in Seq(Nat) /\ Len(wire') = Len(wire) + n
          /\ wire' = [k \in 1..Len(wire) + n |-> k]
      BY <1>1, <1>3, <2>2, WireGrows
    <2>4. /\ io' \in Seq(Pieces) /\ Len(io') = Len(io)
          /\ PieceEnds(io')[Len(io)] = total_len - n
          /\ \A i \in 1..Len(io) : io'[i].len > 0 =>
                io'[i].base = Len(wire) + n + PieceEnds(io')[i - 1] + 1
      BY <1>1, <1>6, <2>1, AdvancedEnds
    <2>5. total_len - n = body - Len(wire') /\ total_len - n \in Nat
      BY <1>1, <1>2, <1>6, <2>2, <2>3
    <2>6. /\ report' \in [ret : Int, sent : Int, left : Int]
          /\ total_len' \in Nat
      BY <1>1, <2>1, <2>2, <2>5
    <2>7. CASE n = total_len - n
      <3>1. report'.ret = 0 /\ report'.sent = report'.left /\ report'.left = body' - Len(wire')
        BY <1>3, <2>1, <2>5, <2>7
      <3>. QED
        BY <1>1, <1>3, <2>3, <2>4, <2>6, <3>1 DEF BufInv
    <2>8. CASE n # total_len - n
      <3>1. report'.ret # 0 /\ total_len' = total_len - n
        BY <1>6, <2>1, <2>8
      <3>2. total_len' = body' - Len(wire')
        BY <1>3, <2>5, <3>1
      <3>3. \A i \in 1..Len(io') : io'[i].len > 0 => io'[i].base = Len(wire') + Before(i)' + 1
        BY <2>3, <2>4 DEF Before
      <3>4. wire' = [k \in 1..Len(wire') |-> k]
        BY <2>3
      <3>. QED
        BY <1>1, <1>3, <2>3, <2>4, <2>6, <3>1, <3>2, <3>3, <3>4 DEF BufInv
    <2>. QED
      BY <2>7, <2>8
  <1>7. total_len \in Nat /\ n \in {-1} \cup 1..total_len
    BY <1>1
  <1>8. n = -1 \/ n = total_len \/ n \in 1..total_len - 1
    BY <1>7
  <1>. QED
    BY <1>4, <1>5, <1>6, <1>8

(* Whatever the writes take of the buffer, for pieces of any number and    *)
(* size, every byte goes out once and in order, the pieces hold the rest,  *)
(* and a buffer reports its end when all went out, or when a partial write *)
(* took exactly half of what was pending.                                  *)
THEOREM BufferResumes == BufSpec => []FlushResumes
  <1>1. BufInit => BufInv
    <2>. SUFFICES ASSUME BufInit PROVE BufInv
      OBVIOUS
    <2>1. <<>> \in Seq(Pieces) /\ <<>> \in Seq(Nat) /\ Len(<<>>) = 0
      OBVIOUS
    <2>2. PieceEnds(io)[0] = 0 /\ io = <<>> /\ wire = <<>>
      BY <2>1, PieceEndsSum DEF BufInit
    <2>3. wire = [k \in 1..Len(wire) |-> k]
      <3>1. 1..0 = {}
        OBVIOUS
      <3>. QED
        BY <2>1, <2>2, <3>1
    <2>4. report \in [ret : Int, sent : Int, left : Int] /\ report.ret = -1
      BY DEF BufInit
    <2>5. /\ room \in Nat /\ total_len = 0 /\ body = 0
          /\ Len(io) = 0 /\ Len(wire) = 0 /\ Len(io) <= room
      BY <2>1, <2>2, BufAssumption DEF BufInit
    <2>6. io \in Seq(Pieces) /\ wire \in Seq(Nat)
      BY <2>1, <2>2
    <2>7. PieceEnds(io)[Len(io)] = total_len
      BY <2>2, <2>5, Zenon
    <2>9. total_len = body - Len(wire)
      <3>1. 0 = 0 - 0
        OBVIOUS
      <3>. QED
        BY <2>5, <3>1, Zenon
    <2>8. \A i \in 1..Len(io) : FALSE
      BY <2>5
    <2>. QED
      BY <2>3, <2>4, <2>5, <2>6, <2>7, <2>8, <2>9 DEF BufInv
  <1>2. BufInv /\ [BufNext]_bufVars => BufInv'
    <2>. SUFFICES ASSUME BufInv, [BufNext]_bufVars PROVE BufInv'
      OBVIOUS
    <2>1. CASE UNCHANGED bufVars
      BY <2>1 DEF BufInv, Before, bufVars
    <2>2. CASE BufNext
      BY <2>2, AddPieceInv, ExpandInv, FlushInv DEF BufNext
    <2>. QED
      BY <2>1, <2>2
  <1>3. BufInv => FlushResumes
    <2>. SUFFICES ASSUME BufInv PROVE FlushResumes
      OBVIOUS
    <2>1. CASE report.ret = 0
      BY <2>1 DEF BufInv, FlushResumes
    <2>2. CASE report.ret # 0
      BY <2>2, BytesLeft DEF BufInv, FlushResumes
    <2>. QED
      BY <2>1, <2>2
  <1>. QED
    BY <1>1, <1>2, <1>3, PTL DEF BufSpec
=============================================================================
