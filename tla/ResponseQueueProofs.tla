------------------------ MODULE ResponseQueueProofs ------------------------
(***************************************************************************)
(* Proofs about ResponseQueue: whatever the files, their number and the    *)
(* width of int, the bytes of a response are sent once and in order, the   *)
(* list of write events follows the queue, the files are closed, and a     *)
(* request is ended with nothing pending.                                  *)
(***************************************************************************)
EXTENDS ResponseQueue, DataLemmas

Items == [file : 1 .. MaxFiles, pending : Nat, left : Nat, far : BOOLEAN,
          active : BOOLEAN]

(***************************************************************************)
(* The length of a queue.                                                  *)
(***************************************************************************)

\* What the loop of duda_queue_length has added after each item, and what it adds there.
Lengths(queue) ==
    CHOOSE length :
        length = [i \in 0 .. Len(queue) |->
                     IF i = 0 THEN 0 ELSE length[i - 1] + queue[i].pending]

Pendings(queue) == [i \in 1 .. Len(queue) |-> queue[i].pending]

(* The loop of duda_queue_length adds up what is pending of the items.     *)
LEMMA LengthIsSum ==
  ASSUME NEW queue \in Seq(Items)
  PROVE  /\ Total(queue) = Lengths(queue)[Len(queue)]
         /\ IsSum(Lengths(queue), Pendings(queue), Len(queue))
         /\ \A i \in 1 .. Len(queue) : Pendings(queue)[i] = queue[i].pending
         /\ \A i \in 1 .. Len(queue) : Pendings(queue)[i] \in Nat
         /\ Total(queue) \in Nat
  <1>. DEFINE n == Len(queue)
              p == Pendings(queue)
  <1>1. Total(queue) = Lengths(queue)[n]
    BY DEF Total, Lengths
  <1>2. n \in Nat
    OBVIOUS
  <1>3. \A i \in 1 .. n : p[i] = queue[i].pending
    BY DEF Pendings
  <1>4. \A i \in 1 .. n : queue[i] \in Items
    OBVIOUS
  <1>5. \A i \in 1 .. n : p[i] \in Nat
    BY <1>3, <1>4 DEF Items
  <1>. HIDE DEF n, p
  <1>6. PICK f : /\ f = [i \in 0 .. n |-> IF i = 0 THEN 0 ELSE f[i - 1] + p[i]]
                 /\ \A i \in 0 .. n : f[i] \in Nat
    BY <1>2, <1>5, SumExists
  <1>7. [i \in 0 .. n |-> IF i = 0 THEN 0 ELSE f[i - 1] + p[i]]
          = [i \in 0 .. n |-> IF i = 0 THEN 0 ELSE f[i - 1] + queue[i].pending]
    <2>1. \A i \in 0 .. n : i # 0 => i \in 1 .. n
      BY <1>2
    <2>. QED
      BY <1>3, <2>1
  <1>8. f = [i \in 0 .. n |-> IF i = 0 THEN 0 ELSE f[i - 1] + queue[i].pending]
    BY <1>6, <1>7
  <1>. DEFINE g == Lengths(queue)
  <1>9. g = [i \in 0 .. n |-> IF i = 0 THEN 0 ELSE g[i - 1] + queue[i].pending]
    BY <1>8 DEF Lengths, n
  <1>. HIDE DEF g
  <1>10. g[0] = 0
    BY <1>2, <1>9
  <1>11. \A i \in 1 .. n : g[i] = g[i - 1] + p[i]
    <2>1. \A i \in 1 .. n : i \in 0 .. n /\ i # 0
      BY <1>2
    <2>. QED
      BY <1>3, <1>9, <2>1
  <1>12. \A i \in 0 .. n : g[i] \in Nat
    <2>. DEFINE T == {m \in Nat : m <= n => g[m] \in Nat}
    <2>1. 0 \in T
      BY <1>10
    <2>2. ASSUME NEW m \in T \cap Nat PROVE m + 1 \in T
      <3>1. SUFFICES ASSUME m + 1 <= n PROVE g[m + 1] \in Nat
        OBVIOUS
      <3>2. m + 1 \in 1 .. n /\ (m + 1) - 1 = m /\ g[m] \in Nat
        BY <1>2, <3>1
      <3>. QED
        BY <1>5, <1>11, <3>2
    <2>. HIDE DEF T
    <2>3. Nat \subseteq T
      BY <2>1, <2>2, NatSetInduction
    <2>. QED
      BY <2>3 DEF T
  <1>13. IsSum(g, p, n)
    BY <1>10, <1>11, <1>12 DEF IsSum
  <1>14. g[n] \in Nat
    BY <1>2, <1>12
  <1>. QED
    BY <1>1, <1>3, <1>5, <1>13, <1>14 DEF g, p, n

(* A file that is added makes the queue as much longer as is to be sent of *)
(* it.                                                                     *)
LEMMA LengthAppend ==
  ASSUME NEW queue \in Seq(Items), NEW item \in Items
  PROVE  Total(Append(queue, item))
           = Total(queue) + item.pending
  <1>. DEFINE n == Len(queue)
              q == Append(queue, item)
  <1>1. n \in Nat /\ q \in Seq(Items) /\ Len(q) = n + 1 /\ q[n + 1] = item
    OBVIOUS
  <1>2. \A i \in 1 .. n : q[i] = queue[i]
    OBVIOUS
  <1>. HIDE DEF n, q
  <1>3. /\ IsSum(Lengths(q), Pendings(q), n + 1)
        /\ \A i \in 1 .. n + 1 : Pendings(q)[i] = q[i].pending
        /\ Total(q) = Lengths(q)[n + 1]
    BY <1>1, LengthIsSum
  <1>4. /\ IsSum(Lengths(queue), Pendings(queue), n)
        /\ \A i \in 1 .. n : Pendings(queue)[i] = queue[i].pending
        /\ Total(queue) = Lengths(queue)[n]
    BY LengthIsSum DEF n
  <1>5. IsSum(Lengths(q), Pendings(q), n)
    BY <1>1, <1>3 DEF IsSum
  <1>6. \A i \in 1 .. n : Pendings(q)[i] = Pendings(queue)[i]
    BY <1>1, <1>2, <1>3, <1>4
  <1>7. Lengths(q)[n] = Lengths(queue)[n]
    BY <1>1, <1>4, <1>5, <1>6, SumsAgree
  <1>8. Lengths(q)[n + 1] = Lengths(q)[n] + item.pending
    <2>1. n + 1 \in 1 .. n + 1 /\ (n + 1) - 1 = n
      BY <1>1
    <2>2. Lengths(q)[n + 1] = Lengths(q)[n] + Pendings(q)[n + 1]
      BY <1>3, <2>1 DEF IsSum
    <2>. QED
      BY <1>1, <1>3, <2>1, <2>2
  <1>. QED
    BY <1>3, <1>4, <1>7, <1>8 DEF q

(* An item that is replaced changes the length by its own change.          *)
LEMMA LengthReplace ==
  ASSUME NEW queue \in Seq(Items), NEW q \in Seq(Items), Len(q) = Len(queue),
         NEW j \in 1 .. Len(queue),
         \A i \in 1 .. Len(queue) : i # j => q[i] = queue[i]
  PROVE  Total(q)
           = Total(queue) + (q[j].pending - queue[j].pending)
  <1>. DEFINE n == Len(queue)
  <1>1. /\ n \in Nat
        /\ IsSum(Lengths(queue), Pendings(queue), n)
        /\ \A i \in 1 .. n : Pendings(queue)[i] = queue[i].pending
        /\ \A i \in 1 .. n : Pendings(queue)[i] \in Nat
        /\ Total(queue) = Lengths(queue)[n]
    BY LengthIsSum
  <1>2. /\ IsSum(Lengths(q), Pendings(q), n)
        /\ \A i \in 1 .. n : Pendings(q)[i] = q[i].pending
        /\ \A i \in 1 .. n : Pendings(q)[i] \in Nat
        /\ Total(q) = Lengths(q)[n]
    BY LengthIsSum
  <1>3. \A i \in 1 .. n : i # j => Pendings(q)[i] = Pendings(queue)[i]
    BY <1>1, <1>2
  <1>. HIDE DEF n
  <1>4. j \in 1 .. n
    BY DEF n
  <1>5. Lengths(q)[n]
          = Lengths(queue)[n] + (Pendings(q)[j] - Pendings(queue)[j])
    <2>. DEFINE f == Lengths(queue)
                g == Lengths(q)
                a == Pendings(queue)
                b == Pendings(q)
    <2>1. IsSum(f, a, n) /\ IsSum(g, b, n)
      BY <1>1, <1>2
    <2>2. \A i \in 1 .. n : a[i] \in Nat
      BY <1>1
    <2>3. b[j] \in Nat
      BY <1>2, <1>4
    <2>4. \A i \in 1 .. n : i # j => b[i] = a[i]
      BY <1>3
    <2>5. n \in Nat
      BY <1>1
    <2>. HIDE DEF f, g, a, b
    <2>6. DifferAt(j, f, a, g, b, n)
      BY <1>4, <2>1, <2>2, <2>3, <2>4, <2>5 DEF DifferAt
    <2>7. g[n] = f[n] + (b[j] - a[j])
      BY <2>6, SumsDiffer
    <2>. QED
      BY <2>7 DEF f, g, a, b
  <1>. QED
    BY <1>1, <1>2, <1>4, <1>5

(* No item has more pending than the queue, and a queue that is not        *)
(* drained has an item with something pending.                             *)
LEMMA LengthItems ==
  ASSUME NEW queue \in Seq(Items)
  PROVE  /\ \A i \in 1 .. Len(queue) : queue[i].pending <= Total(queue)
         /\ Total(queue) > 0
              => \E i \in 1 .. Len(queue) : queue[i].pending > 0
  <1>. DEFINE n == Len(queue)
  <1>1. /\ n \in Nat
        /\ IsSum(Lengths(queue), Pendings(queue), n)
        /\ \A i \in 1 .. n : Pendings(queue)[i] = queue[i].pending
        /\ \A i \in 1 .. n : Pendings(queue)[i] \in Nat
        /\ Total(queue) = Lengths(queue)[n]
    BY LengthIsSum
  <1>. HIDE DEF n
  <1>2. \A i \in 1 .. n : Pendings(queue)[i] <= Lengths(queue)[n]
    BY <1>1, SumBounds
  <1>3. Lengths(queue)[n] > 0 => \E i \in 1 .. n : Pendings(queue)[i] > 0
    BY <1>1, SumPositive
  <1>. QED
    BY <1>1, <1>2, <1>3 DEF n

(* The empty queue has length 0.                                           *)
LEMMA LengthEmpty == Total(<<>>) = 0
  <1>1. <<>> \in Seq(Items) /\ Len(<<>>) = 0
    OBVIOUS
  <1>. QED
    BY <1>1, LengthIsSum DEF IsSum

(***************************************************************************)
(* One flush of a queue.                                                   *)
(***************************************************************************)

(* duda_queue_flush takes the first item that is active.                   *)
LEMMA FirstActiveIsFirst ==
  ASSUME NEW queue \in Seq(Items)
  PROVE  /\ FirstActive(queue) = 0 => \A i \in 1 .. Len(queue) : ~queue[i].active
         /\ FirstActive(queue) # 0 =>
              /\ FirstActive(queue) \in 1 .. Len(queue)
              /\ queue[FirstActive(queue)].active
              /\ \A i \in 1 .. Len(queue) :
                    queue[i].active => FirstActive(queue) <= i
  <1>. DEFINE I == {i \in 1 .. Len(queue) : queue[i].active}
  <1>1. FirstActive(queue) = IF I # {} THEN Min(I) ELSE 0
    BY DEF FirstActive, SelectInSeq
  <1>2. I \in SUBSET Nat
    OBVIOUS
  <1>3. ASSUME I # {} PROVE Min(I) \in I /\ \A i \in I : Min(I) <= i
    <2>. HIDE DEF I
    <2>1. \E m \in I : \A k \in I : m <= k
      BY <1>2, <1>3, LeastNatural
    <2>. QED
      BY <2>1 DEF Min
  <1>. QED
    BY <1>1, <1>3

(* An unsigned long holds a length up to ULONG_MAX, and an unsigned an     *)
(* offset up to UINT_MAX, as it is.                                        *)
LEMMA LengthExact ==
  ASSUME NEW queue \in Seq(Items)
  PROVE  /\ duda_queue_length(queue) \in Nat
         /\ duda_queue_length(queue) > 0 => Total(queue) > 0
         /\ Total(queue) <= ULongMax => duda_queue_length(queue) = Total(queue)
  <1>. DEFINE n == Total(queue)
              m == ULongMax + 1
  <1>1. n \in Nat /\ m \in Nat \ {0} /\ ULongMax \in Nat
    BY LengthIsSum, QueueAssumption
  <1>2. duda_queue_length(queue) = n % m
    BY DEF duda_queue_length
  <1>. HIDE DEF n
  <1>3. n % m \in Nat /\ (n <= ULongMax => n % m = n)
    BY <1>1
  <1>4. n % m > 0 => n > 0
    BY <1>1, <1>3
  <1>. QED
    BY <1>2, <1>3, <1>4 DEF n

(* An int holds a length up to INT_MAX as it is.                           *)
LEMMA AsIntExact ==
  ASSUME NEW n \in Nat, n <= IntMax
  PROVE  AsInt(n) = n
  <1>1. IntMax \in Nat
    BY QueueAssumption
  <1>2. n % (2 * (IntMax + 1)) = n
    BY <1>1
  <1>. QED
    BY <1>1, <1>2 DEF AsInt

\* What is pending of an item is in its file, or its offset was cut short.
InRange(item) == ~item.far => item.pending <= item.left

(* What one flush does to the queue: it changes the first active item, by  *)
(* what the socket took of it or, after an error, to nothing pending.      *)
LEMMA FlushedItem ==
  ASSUME NEW queue \in Seq(Items), NEW f, f = FirstActive(queue), f # 0,
         NEW n \in Results(queue[f])
  PROVE  /\ f \in 1 .. Len(queue)
         /\ n \in Int /\ n >= -1
         /\ Flushed(queue, n) \in Seq(Items)
         /\ Len(Flushed(queue, n)) = Len(queue)
         /\ \A i \in 1 .. Len(queue) : i # f => Flushed(queue, n)[i] = queue[i]
         /\ Flushed(queue, n)[f].file = queue[f].file
         /\ Flushed(queue, n)[f].pending = AfterSend(queue[f], n)
         /\ Flushed(queue, n)[f].active <=> AsInt(AfterSend(queue[f], n)) # 0
         /\ n # -1 => n \in Nat /\ n <= queue[f].pending
         /\ InRange(queue[f]) => InRange(Flushed(queue, n)[f])
  <1>. DEFINE q == Flushed(queue, n)
              a == AfterSend(queue[f], n)
              l == IF n > 0 THEN queue[f].left - n ELSE queue[f].left
              new == [queue[f] EXCEPT !.pending = a, !.left = l,
                                      !.active = AsInt(a) # 0]
  <1>1. f \in 1 .. Len(queue)
    BY FirstActiveIsFirst
  <1>2. queue[f] \in Items
    BY <1>1
  <1>3. queue[f].pending \in Nat /\ queue[f].left \in Nat
    BY <1>2 DEF Items
  <1>4. /\ n \in Int /\ n >= -1
        /\ n # -1 => n \in Nat /\ n <= queue[f].pending /\ n <= queue[f].left
    BY <1>3 DEF Results
  <1>5. a \in Nat /\ l \in Nat
    BY <1>3, <1>4 DEF AfterSend
  <1>6. new \in Items
    BY <1>2, <1>5 DEF Items
  <1>7. /\ new.file = queue[f].file /\ new.pending = a /\ new.left = l
        /\ new.far = queue[f].far
        /\ new.active <=> AsInt(a) # 0
    BY <1>2 DEF Items
  <1>8. q = [queue EXCEPT ![f] = new]
    BY <1>1, <1>2 DEF Flushed, Items
  <1>. HIDE DEF new, q, a, l
  <1>9. /\ q \in Seq(Items) /\ Len(q) = Len(queue) /\ q[f] = new
        /\ \A i \in 1 .. Len(queue) : i # f => q[i] = queue[i]
    BY <1>1, <1>6, <1>8
  <1>10. InRange(queue[f]) => InRange(new)
    BY <1>3, <1>4, <1>7 DEF InRange, a, l, AfterSend
  <1>. QED
    BY <1>1, <1>4, <1>7, <1>9, <1>10 DEF q, a

(***************************************************************************)
(* The inductive invariant: the types, and for each request, with its      *)
(* phase ph, queue q, wire w, bytes lost lo and added to, descriptors fd   *)
(* and those of them that leaked lk, and whether it is registered, flushed *)
(* and stale:                                                              *)
(***************************************************************************)
Typed ==
    /\ TypeOK
    /\ queue_out \in [Reqs -> Seq(Items)]
    /\ wire \in [Reqs -> Seq(Nat)]

\* Files are numbered as they were added, and their ranges are inside them.
Files(q, fd, lk) ==
    /\ fd = Len(q) + lk
    /\ \A i \in 1 .. Len(q) : q[i].file = i /\ (q[i].active => InRange(q[i]))

\* What is on the wire is in order, and not of a file behind an active one.
Wire(ph, q, w) ==
    /\ \A i, j \in 1 .. Len(w) : i < j => w[i] <= w[j]
    /\ ph = "open" =>
          \A k \in 1 .. Len(w) :
              /\ w[k] <= Len(q)
              /\ \A i \in 1 .. Len(q) : q[i].active => w[k] <= i

\* No byte is lost, and between requests the queue is empty.
Bytes(ph, q, w, lo, to) ==
    /\ ph = "idle" => q = <<>>
    /\ ph = "open" => Len(w) + lo + Total(q) = to

\* An item is retired with nothing pending, or with more than an int counts.
Retired(q) ==
    \A i \in 1 .. Len(q) :
        ~q[i].active => q[i].pending = 0 \/ q[i].pending > IntMax

\* What keeps a request registered: an item that is due, or more bytes than an
\* int can count.
Due(q) ==
    \/ Total(q) > IntMax
    \/ \E i \in 1 .. Len(q) : q[i].active /\ q[i].pending > 0

Waits(q, registered, st) ==
    /\ Retired(q)
    /\ registered /\ ~st => Due(q)

\* An open request with bytes to send is registered once it was flushed, and
\* when its items were all retired, as they may be when int is too narrow.
Awaited(ph, q, registered, done) ==
    /\ ph = "open" /\ duda_queue_length(q) > 0
    /\ done \/ \A i \in 1 .. Len(q) : ~q[i].active
    => registered

Sound(ph, q, registered, w, lo, to, done, st, fd, lk) ==
    /\ Files(q, fd, lk)
    /\ Wire(ph, q, w)
    /\ Bytes(ph, q, w, lo, to)
    /\ Waits(q, registered, st)
    /\ Awaited(ph, q, registered, done)

Req(r) == Sound(phase[r], queue_out[r], r \in events_write, wire[r], lost[r],
                total[r], flushed[r], r \in stale, fds[r], leaked[r])

QueueIInv ==
    /\ Typed
    /\ \A r \in Reqs : Req(r)

(* A flush keeps the files as they were.                                   *)
LEMMA FlushFiles ==
  ASSUME NEW q \in Seq(Items), NEW fd, NEW lk, Files(q, fd, lk),
         NEW f, f = FirstActive(q), f # 0, NEW n \in Results(q[f])
  PROVE  Files(Flushed(q, n), fd, lk)
  <1>. DEFINE q2 == Flushed(q, n)
  <1>1. /\ f \in 1 .. Len(q)
        /\ Len(q2) = Len(q)
        /\ \A i \in 1 .. Len(q) : i # f => q2[i] = q[i]
        /\ q2[f].file = q[f].file
        /\ InRange(q[f]) => InRange(q2[f])
    BY FlushedItem
  <1>2. q[f].active
    BY FirstActiveIsFirst
  <1>. HIDE DEF q2
  <1>3. Files(q2, fd, lk)
    BY <1>1, <1>2 DEF Files
  <1>. QED
    BY <1>3 DEF q2

(* A flush puts bytes of the first active file behind what is on the wire. *)
LEMMA FlushWire ==
  ASSUME NEW q \in Seq(Items), NEW w \in Seq(Nat), Wire("open", q, w),
         NEW f, f = FirstActive(q), f # 0, NEW n \in Results(q[f]),
         NEW t \in Seq(Nat), Range(t) \subseteq {f}
  PROVE  /\ w \o t \in Seq(Nat)
         /\ Len(w \o t) = Len(w) + Len(t)
         /\ Wire("open", Flushed(q, n), w \o t)
  <1>. DEFINE q2 == Flushed(q, n)
              m == Len(t)
              w2 == w \o t
  <1>1. /\ f \in 1 .. Len(q)
        /\ q2 \in Seq(Items)
        /\ Len(q2) = Len(q)
        /\ \A i \in 1 .. Len(q) : i # f => q2[i] = q[i]
    BY FlushedItem
  <1>2. q[f].active /\ \A i \in 1 .. Len(q) : q[i].active => f <= i
    BY FirstActiveIsFirst
  <1>3. Len(w) \in Nat
    OBVIOUS
  <1>4. Len(t) = m /\ m \in Nat /\ \A k \in 1 .. m : t[k] = f
    <2>1. \A k \in 1 .. Len(t) : t[k] \in Range(t)
      BY DEF Range
    <2>. QED
      BY <2>1
  <1>5. w2 = w \o t
    OBVIOUS
  <1>. HIDE DEF q2, m, w2
  <1>6. w2 \in Seq(Nat)
    BY <1>4, <1>5, ConcatProperties
  <1>7. Len(w2) = Len(w) + m
    BY <1>4, <1>5, ConcatProperties
  <1>8. \A k \in 1 .. Len(w) : w2[k] = w[k]
    BY <1>4, <1>5
  <1>9. ASSUME NEW k \in 1 .. Len(w2), k > Len(w) PROVE w2[k] = f
    <2>1. k - Len(w) \in 1 .. m
      BY <1>3, <1>4, <1>7, <1>9
    <2>2. w2[k] = t[k - Len(w)]
      BY <1>3, <1>4, <1>5, <1>7, <1>9
    <2>. QED
      BY <1>4, <2>1, <2>2
  <1>10. \A k \in 1 .. Len(w) : w[k] \in Nat /\ w[k] <= f
    BY <1>1, <1>2 DEF Wire
  <1>11. ASSUME NEW k \in 1 .. Len(w2) PROVE w2[k] \in Nat /\ w2[k] <= f
    <2>1. w2[k] = f \/ (k \in 1 .. Len(w) /\ w2[k] = w[k])
      BY <1>3, <1>7, <1>8, <1>9
    <2>. QED
      BY <1>1, <1>10, <2>1
  <1>12. ASSUME NEW i \in 1 .. Len(w2), NEW j \in 1 .. Len(w2), i < j
         PROVE  w2[i] <= w2[j]
    <2>1. CASE j <= Len(w)
      <3>1. i \in 1 .. Len(w) /\ j \in 1 .. Len(w)
        BY <1>3, <1>7, <1>12, <2>1
      <3>. QED
        BY <1>8, <1>12, <3>1 DEF Wire
    <2>2. CASE j > Len(w)
      BY <1>9, <1>11, <2>2
    <2>. QED
      BY <1>3, <1>7, <2>1, <2>2
  <1>13. ASSUME NEW k \in 1 .. Len(w2)
         PROVE  /\ w2[k] <= Len(q2)
                /\ \A i \in 1 .. Len(q2) : q2[i].active => w2[k] <= i
    <2>1. \A i \in 1 .. Len(q2) : q2[i].active => f <= i
      BY <1>1, <1>2
    <2>2. w2[k] \in Nat /\ w2[k] <= f
      BY <1>11
    <2>. QED
      BY <1>1, <2>1, <2>2
  <1>14. Wire("open", q2, w2)
    BY <1>12, <1>13 DEF Wire
  <1>. QED
    BY <1>6, <1>7, <1>14 DEF q2, w2, m

(* What a flush takes off the queue is on the wire, or was given up.       *)
LEMMA FlushLength ==
  ASSUME NEW q \in Seq(Items), NEW f, f = FirstActive(q), f # 0,
         NEW n \in Results(q[f])
  PROVE  /\ q[f].pending \in Nat
         /\ (IF n > 0 THEN n ELSE 0) + (IF n = -1 THEN q[f].pending ELSE 0)
              + Total(Flushed(q, n)) = Total(q)
  <1>. DEFINE q2 == Flushed(q, n)
              a == AfterSend(q[f], n)
              p == q[f].pending
  <1>1. /\ f \in 1 .. Len(q)
        /\ n \in Int /\ n >= -1
        /\ q2 \in Seq(Items)
        /\ Len(q2) = Len(q)
        /\ \A i \in 1 .. Len(q) : i # f => q2[i] = q[i]
        /\ q2[f].pending = a
        /\ n # -1 => n \in Nat /\ n <= q[f].pending
    BY FlushedItem
  <1>2. p \in Nat
    <2>1. q[f] \in Items
      BY <1>1
    <2>. QED
      BY <2>1 DEF Items
  <1>3. a \in Nat /\ (IF n > 0 THEN n ELSE 0) + (IF n = -1 THEN p ELSE 0) + a = p
    BY <1>1, <1>2 DEF AfterSend
  <1>4. /\ Total(q2) = Total(q) + (a - p)
        /\ Total(q) \in Nat /\ Total(q2) \in Nat
    <2>. HIDE DEF q2, a
    <2>. QED
      BY <1>1, LengthReplace, LengthIsSum
  <1>. DEFINE len == Total(q)
              len2 == Total(q2)
  <1>. HIDE DEF a, p, len, len2
  <1>5. len2 = len + (a - p) /\ len \in Nat /\ len2 \in Nat
    BY <1>4 DEF len, len2
  <1>6. (IF n > 0 THEN n ELSE 0) + (IF n = -1 THEN p ELSE 0) + len2 = len
    BY <1>1, <1>2, <1>3, <1>5
  <1>. QED
    BY <1>2, <1>6 DEF len, len2, p

(* A queue that is not drained has an item that is due, or more bytes than *)
(* an int can count: items are not retired before their time otherwise.    *)
LEMMA UndrainedIsDue ==
  ASSUME NEW q \in Seq(Items), Retired(q), Total(q) > 0
  PROVE  Due(q)
  <1>1. SUFFICES ASSUME ~(Total(q) > IntMax)
                 PROVE  \E i \in 1 .. Len(q) : q[i].active /\ q[i].pending > 0
    BY DEF Due
  <1>2. PICK i \in 1 .. Len(q) : q[i].pending > 0
    BY LengthItems
  <1>3. q[i].pending \in Nat /\ q[i].pending <= Total(q)
    <2>1. q[i] \in Items
      OBVIOUS
    <2>. QED
      BY <2>1, LengthItems DEF Items
  <1>4. Total(q) \in Nat /\ IntMax \in Nat
    BY LengthIsSum, QueueAssumption
  <1>5. ~(q[i].pending = 0 \/ q[i].pending > IntMax)
    BY <1>1, <1>2, <1>3, <1>4
  <1>. QED
    BY <1>2, <1>5 DEF Retired

(* A flush retires an item with nothing pending, or with so much that its  *)
(* truncation to int is 0.                                                 *)
LEMMA FlushRetires ==
  ASSUME NEW q \in Seq(Items), Retired(q),
         NEW f, f = FirstActive(q), f # 0, NEW n \in Results(q[f])
  PROVE  Retired(Flushed(q, n))
  <1>. DEFINE q2 == Flushed(q, n)
              a == AfterSend(q[f], n)
  <1>1. /\ f \in 1 .. Len(q)
        /\ n \in Int /\ n >= -1
        /\ Len(q2) = Len(q)
        /\ \A i \in 1 .. Len(q) : i # f => q2[i] = q[i]
        /\ q2[f].pending = a
        /\ q2[f].active <=> AsInt(a) # 0
        /\ n # -1 => n \in Nat /\ n <= q[f].pending
    BY FlushedItem
  <1>2. q[f].pending \in Nat
    BY FlushLength
  <1>3. a \in Nat
    BY <1>1, <1>2 DEF AfterSend
  <1>. HIDE DEF q2, a
  <1>4. AsInt(a) = 0 => a = 0 \/ a > IntMax
    <2>1. a <= IntMax \/ a > IntMax
      BY <1>3, QueueAssumption
    <2>. QED
      BY <1>3, <2>1, AsIntExact
  <1>5. Retired(q2)
    BY <1>1, <1>4 DEF Retired
  <1>. QED
    BY <1>5 DEF q2

(* What a file that is added behind the others does to each part of the    *)
(* invariant.                                                              *)
LEMMA AppendKeeps ==
  ASSUME NEW q \in Seq(Items), NEW p \in Nat, NEW left \in Nat, NEW far \in BOOLEAN,
         ~far => p <= left,
         Len(q) + 1 \in 1 .. MaxFiles,
         NEW item, item = Item(Len(q) + 1, p, left, far)
  PROVE  /\ Append(q, item) \in Seq(Items)
         /\ Total(Append(q, item)) = Total(q) + p
         /\ Total(q) \in Nat
         /\ \A fd \in Nat, lk \in Nat :
              Files(q, fd, lk) => Files(Append(q, item), fd + 1, lk)
         /\ \A w \in Seq(Nat) :
              Wire("open", q, w) => Wire("open", Append(q, item), w)
         /\ Retired(q) => Retired(Append(q, item))
         /\ Due(q) => Due(Append(q, item))
         /\ \E i \in 1 .. Len(Append(q, item)) : Append(q, item)[i].active
  <1>. DEFINE n == Len(q)
              q2 == Append(q, item)
  <1>1. /\ item \in Items /\ item.file = n + 1 /\ item.pending = p
        /\ item.left = left /\ item.far = far /\ item.active
    BY DEF Item, Items
  <1>2. /\ q2 \in Seq(Items) /\ n \in Nat /\ Len(q2) = n + 1 /\ q2[n + 1] = item
        /\ \A i \in 1 .. n : q2[i] = q[i]
    BY <1>1
  <1>3. /\ Total(q2) = Total(q) + p
        /\ Total(q) \in Nat
    BY <1>1, LengthAppend, LengthIsSum
  <1>. HIDE DEF q2
  <1>4. \A i \in 1 .. n + 1 : i = n + 1 \/ i \in 1 .. n
    BY <1>2
  <1>5. \A fd \in Nat, lk \in Nat : Files(q, fd, lk) => Files(q2, fd + 1, lk)
    BY <1>1, <1>2, <1>4 DEF Files, InRange
  <1>6. ASSUME NEW w \in Seq(Nat), Wire("open", q, w) PROVE Wire("open", q2, w)
    <2>1. \A i, j \in 1 .. Len(w) : i < j => w[i] <= w[j]
      BY <1>6 DEF Wire
    <2>2. ASSUME NEW k \in 1 .. Len(w)
          PROVE  /\ w[k] <= n + 1
                 /\ \A i \in 1 .. n + 1 : q2[i].active => w[k] <= i
      <3>1. w[k] \in Nat /\ w[k] <= n
        BY <1>6 DEF Wire
      <3>2. \A i \in 1 .. n : q[i].active => w[k] <= i
        BY <1>6 DEF Wire
      <3>3. ASSUME NEW i \in 1 .. n + 1, q2[i].active PROVE w[k] <= i
        <4>1. CASE i = n + 1
          BY <1>2, <3>1, <4>1
        <4>2. CASE i \in 1 .. n
          BY <1>2, <3>2, <3>3, <4>2
        <4>. QED
          BY <1>4, <4>1, <4>2
      <3>. QED
        BY <1>2, <3>1, <3>3
    <2>. QED
      BY <1>2, <2>1, <2>2 DEF Wire
  <1>7. Retired(q) => Retired(q2)
    BY <1>1, <1>2, <1>4 DEF Retired
  <1>8. Due(q) => Due(q2)
    <2>1. (\E i \in 1 .. n : q[i].active /\ q[i].pending > 0)
            => \E i \in 1 .. Len(q2) : q2[i].active /\ q2[i].pending > 0
      BY <1>2
    <2>2. Total(q) > IntMax => Total(q2) > IntMax
      BY <1>3, QueueAssumption
    <2>. QED
      BY <2>1, <2>2 DEF Due
  <1>9. \E i \in 1 .. Len(q2) : q2[i].active
    BY <1>1, <1>2
  <1>. QED
    BY <1>2, <1>3, <1>5, <1>6, <1>7, <1>8, <1>9 DEF q2

-----------------------------------------------------------------------------
(* The initial state satisfies the invariant.                              *)
LEMMA InitQueue == Init => QueueIInv
  <1>. SUFFICES ASSUME Init PROVE QueueIInv
    OBVIOUS
  <1>1. <<>> \in Seq(Items) /\ <<>> \in Seq(Nat) /\ 0 \in 0 .. MaxFiles
    BY QueueAssumption
  <1>2. Typed
    <2>1. \A r \in Reqs : queue_out[r] = <<>>
      BY DEF Init
    <2>2. queue_out \in [Reqs -> Seq(Items)] /\ wire \in [Reqs -> Seq(Nat)]
      BY <1>1 DEF Init
    <2>3. TypeOK
      <3>1. \A r \in Reqs : Len(queue_out[r]) = 0
        BY <2>1
      <3>2. \A r \in Reqs : \A i \in 1 .. Len(queue_out[r]) :
              queue_out[r][i] \in [file : 1 .. MaxFiles, pending : Nat, left : Nat, far : BOOLEAN,
                                   active : BOOLEAN]
        BY <3>1
      <3>. QED
        BY <1>1, <3>2 DEF Init, TypeOK
    <2>. QED
      BY <2>2, <2>3 DEF Typed
  <1>3. ASSUME NEW r \in Reqs
        PROVE  Sound("idle", <<>>, r \in events_write, <<>>, 0, 0, FALSE, r \in stale, 0, 0)
    <2>1. \A i, j \in 1 .. Len(<<>>) : i < j => <<>>[i] <= <<>>[j]
      OBVIOUS
    <2>2. r \notin events_write
      BY DEF Init
    <2>. QED
      BY <2>1, <2>2, LengthEmpty, QueueAssumption
         DEF Sound, Files, Wire, Bytes, Waits, Retired, Awaited
  <1>. QED
    BY <1>2, <1>3 DEF Init, QueueIInv, Req

(* A request none of whose fields change stays sound.                      *)
LEMMA OtherRequest ==
  ASSUME NEW s \in Reqs, Req(s),
         phase'[s] = phase[s], queue_out'[s] = queue_out[s],
         s \in events_write' <=> s \in events_write,
         wire'[s] = wire[s], lost'[s] = lost[s], total'[s] = total[s],
         flushed'[s] = flushed[s], fds'[s] = fds[s], leaked'[s] = leaked[s],
         s \in stale' <=> s \in stale
  PROVE  Req(s)'
  <1>1. /\ (s \in events_write') = (s \in events_write)
        /\ (s \in stale') = (s \in stale)
    OBVIOUS
  <1>. QED
    BY <1>1 DEF Req

LEMMA RunQueue ==
  ASSUME QueueIInv, NEW r \in Reqs, ServiceRun(r)
  PROVE  QueueIInv'
  <1>. DEFINE n == Len(queue_out[r])
  <1>1. <<>> \in Seq(Items) /\ <<>> \in Seq(Nat)
    OBVIOUS
  <1>2. /\ queue_out[r] \in Seq(Items) /\ n \in Nat /\ leaked[r] \in Nat
        /\ fds[r] = n + leaked[r]
    BY DEF QueueIInv, Typed, TypeOK, Req, Sound, Files
  <1>3. Typed'
    <2>1. queue_out' \in [Reqs -> Seq(Items)] /\ wire' \in [Reqs -> Seq(Nat)]
      BY <1>1 DEF ServiceRun, QueueIInv, Typed
    <2>2. \A s \in Reqs : \A i \in 1 .. Len(queue_out'[s]) : queue_out'[s][i] \in Items
      BY <2>1
    <2>3. leaked[r] + n \in Nat
      BY <1>2
    <2>. QED
      BY <2>1, <2>2, <2>3 DEF ServiceRun, QueueIInv, Typed, TypeOK, Items
  <1>4. ASSUME NEW s \in Reqs, s # r PROVE Req(s)'
    <2>1. Req(s)
      BY DEF QueueIInv
    <2>. QED
      BY <1>4, <2>1, OtherRequest DEF ServiceRun, QueueIInv, Typed, TypeOK
  <1>5. Req(r)'
    <2>1. /\ phase'[r] = "open" /\ queue_out'[r] = <<>> /\ wire'[r] = <<>>
          /\ lost'[r] = 0 /\ total'[r] = 0 /\ flushed'[r] = FALSE
          /\ leaked'[r] = leaked[r] + n /\ fds'[r] = fds[r]
          /\ r \in events_write' => r \in stale'
      BY DEF ServiceRun, QueueIInv, Typed, TypeOK
    <2>2. Len(<<>>) = 0 /\ Total(<<>>) = 0 /\ duda_queue_length(<<>>) = 0
      <3>1. 0 % (ULongMax + 1) = 0
        BY QueueAssumption
      <3>. QED
        BY <3>1, LengthEmpty DEF duda_queue_length
    <2>3. Files(<<>>, fds[r], leaked[r] + n)
      BY <1>2, <2>2 DEF Files
    <2>4. Wire("open", <<>>, <<>>) /\ Bytes("open", <<>>, <<>>, 0, 0)
      BY <2>2 DEF Wire, Bytes
    <2>5. Waits(<<>>, r \in events_write', r \in stale')
      BY <2>1, <2>2 DEF Waits, Retired
    <2>6. Awaited("open", <<>>, r \in events_write', FALSE)
      BY <2>2 DEF Awaited
    <2>. QED
      BY <2>1, <2>3, <2>4, <2>5, <2>6 DEF Req, Sound
  <1>. QED
    BY <1>3, <1>4, <1>5 DEF QueueIInv

LEMMA SendfileQueue ==
  ASSUME QueueIInv, NEW r \in Reqs, NEW size \in Sizes,
         NEW offset \in (0 .. size) \cup Far, NEW count \in 0 .. size,
         Sendfile(r, size, offset, count)
  PROVE  QueueIInv'
  <1>. DEFINE q == queue_out[r]
              p == Pending(size, offset, count)
              left == IF offset < size THEN size - offset ELSE 0
              far == Unsigned(offset) # offset
              item == Item(Len(q) + 1, p, left, far)
              q2 == Append(q, item)
  <1>1. /\ q \in Seq(Items) /\ wire[r] \in Seq(Nat) /\ lost[r] \in Nat
        /\ total[r] \in Nat /\ fds[r] \in 0 .. MaxFiles /\ leaked[r] \in Nat
    BY DEF QueueIInv, Typed, TypeOK
  <1>2. /\ phase[r] = "open" /\ fds[r] < MaxFiles /\ MaxFiles \in Nat
        /\ InFile(size, offset, count)
    BY QueueAssumption DEF Sendfile, Up
  <1>3. /\ Files(q, fds[r], leaked[r]) /\ Wire("open", q, wire[r])
        /\ Bytes("open", q, wire[r], lost[r], total[r])
        /\ Waits(q, r \in events_write, r \in stale)
    BY <1>2 DEF QueueIInv, Req, Sound
  <1>4. p \in Nat /\ left \in Nat /\ far \in BOOLEAN /\ (~far => p <= left)
    <2>1. /\ size \in Nat /\ offset \in Nat /\ count \in Nat
          /\ size <= ULongMax /\ ULongMax \in Nat /\ IntMax \in Nat
      BY QueueAssumption
    <2>. DEFINE d == size - offset
                m == ULongMax + 1
    <2>2. d \in Int /\ m \in Nat \ {0} /\ d < m
      BY <2>1
    <2>3. ~far => offset <= size /\ offset + count <= size
      BY <1>2 DEF InFile
    <2>4. d % m \in Nat /\ (d >= 0 => d % m = d)
      <3>. HIDE DEF d, m
      <3>. QED
        BY <2>2
    <2>5. p = IF count = 0 THEN d % m ELSE count
      BY DEF Pending
    <2>6. p \in Nat
      BY <2>1, <2>4, <2>5
    <2>7. left \in Nat /\ (offset <= size => left = d)
      BY <2>1
    <2>. QED
      BY <2>1, <2>2, <2>3, <2>4, <2>5, <2>6, <2>7
  <1>5. Len(q) \in Nat /\ Len(q) + 1 \in 1 .. MaxFiles /\ fds[r] \in Nat
    BY <1>1, <1>2, <1>3 DEF Files
  <1>. HIDE DEF q, p, left, far
  <1>6. /\ q2 \in Seq(Items)
        /\ Total(q2) = Total(q) + p
        /\ Total(q) \in Nat
        /\ \A fd \in Nat, lk \in Nat : Files(q, fd, lk) => Files(q2, fd + 1, lk)
        /\ \A w \in Seq(Nat) : Wire("open", q, w) => Wire("open", q2, w)
        /\ Retired(q) => Retired(q2)
        /\ Due(q) => Due(q2)
        /\ \E i \in 1 .. Len(q2) : q2[i].active
    BY <1>1, <1>4, <1>5, AppendKeeps
  <1>. HIDE DEF q2
  <1>7. /\ queue_out' = [queue_out EXCEPT ![r] = q2]
        /\ total' = [total EXCEPT ![r] = @ + p]
        /\ fds' = [fds EXCEPT ![r] = @ + 1]
        /\ flushed' = [flushed EXCEPT ![r] = FALSE]
        /\ UNCHANGED <<phase, events_write, headers, end_callback, asleep,
                       aborted, wire, lost, ends, leaked, stale>>
    BY DEF Sendfile, duda_queue_add, q2, p, q, left, far
  <1>8. Typed'
    <2>1. queue_out' \in [Reqs -> Seq(Items)]
      BY <1>6, <1>7 DEF QueueIInv, Typed
    <2>2. \A s \in Reqs : \A i \in 1 .. Len(queue_out'[s]) : queue_out'[s][i] \in Items
      BY <2>1
    <2>3. leaked' = leaked /\ stale' = stale
      BY <1>7
    <2>4. fds[r] + 1 \in 0 .. MaxFiles
      BY <1>1, <1>2, <1>5
    <2>5. total[r] + p \in Nat
      BY <1>1, <1>4
    <2>. QED
      BY <1>7, <2>1, <2>2, <2>3, <2>4, <2>5 DEF QueueIInv, Typed, TypeOK, Items
  <1>9. ASSUME NEW s \in Reqs, s # r PROVE Req(s)'
    <2>1. Req(s)
      BY DEF QueueIInv
    <2>. QED
      BY <1>7, <1>9, <2>1, OtherRequest DEF QueueIInv, Typed, TypeOK
  <1>10. Req(r)'
    <2>1. /\ phase'[r] = "open" /\ queue_out'[r] = q2 /\ wire'[r] = wire[r]
          /\ lost'[r] = lost[r] /\ total'[r] = total[r] + p /\ flushed'[r] = FALSE
          /\ leaked'[r] = leaked[r] /\ stale' = stale
          /\ fds'[r] = fds[r] + 1 /\ events_write' = events_write
      BY <1>2, <1>7 DEF QueueIInv, Typed, TypeOK
    <2>2. Files(q2, fds[r] + 1, leaked[r]) /\ Wire("open", q2, wire[r])
      BY <1>1, <1>3, <1>5, <1>6
    <2>3. Bytes("open", q2, wire[r], lost[r], total[r] + p)
      <3>. DEFINE lw == Len(wire[r])
                  lo == lost[r]
                  to == total[r]
                  len == Total(q)
      <3>1. lw \in Nat /\ lo \in Nat /\ to \in Nat /\ len \in Nat
        BY <1>1, <1>6
      <3>2. lw + lo + len = to
        BY <1>3 DEF Bytes
      <3>. HIDE DEF lw, lo, to, len
      <3>3. lw + lo + (len + p) = to + p
        BY <1>4, <3>1, <3>2
      <3>. QED
        BY <1>6, <3>3 DEF Bytes, lw, lo, to, len
    <2>4. Waits(q2, r \in events_write, r \in stale)
      BY <1>3, <1>6 DEF Waits
    <2>5. Awaited("open", q2, r \in events_write, FALSE)
      BY <1>6 DEF Awaited
    <2>. QED
      BY <2>1, <2>2, <2>3, <2>4, <2>5 DEF Req, Sound
  <1>. QED
    BY <1>8, <1>9, <1>10 DEF QueueIInv

\* The step that response.flush() and a write event share: the queue of r
\* was flushed, socket_send_file having returned n, and stays.
FlushStep(r, n) ==
    /\ queue_out' = [queue_out EXCEPT ![r] = Flushed(queue_out[r], n)]
    /\ events_write' = Registered(r, duda_queue_length(Flushed(queue_out[r], n)))
    /\ Account(r, n)
    /\ flushed' = [flushed EXCEPT ![r] = TRUE]
    /\ stale' = stale \ {r}
    /\ UNCHANGED <<phase, headers, end_callback, asleep, aborted, fds, ends, leaked>>

\* What the wire and the lost bytes of r are after it.
Sent(r, n) ==
    wire[r] \o [k \in 1 .. (IF n > 0 THEN n ELSE 0) |->
                   queue_out[r][FirstActive(queue_out[r])].file]

GivenUp(r, n) ==
    lost[r] + (IF n = -1 THEN queue_out[r][FirstActive(queue_out[r])].pending ELSE 0)

(* What such a step does to each part of the invariant.                    *)
LEMMA FlushKeeps ==
  ASSUME QueueIInv, NEW r \in Reqs, phase[r] = "open",
         FirstActive(queue_out[r]) # 0,
         NEW n \in Results(queue_out[r][FirstActive(queue_out[r])])
  PROVE  /\ Flushed(queue_out[r], n) \in Seq(Items)
         /\ Sent(r, n) \in Seq(Nat) /\ GivenUp(r, n) \in Nat
         /\ Files(Flushed(queue_out[r], n), fds[r], leaked[r])
         /\ Wire("open", Flushed(queue_out[r], n), Sent(r, n))
         /\ Bytes("open", Flushed(queue_out[r], n), Sent(r, n), GivenUp(r, n), total[r])
         /\ Retired(Flushed(queue_out[r], n))
  <1>. DEFINE q == queue_out[r]
              f == FirstActive(q)
              m == IF n > 0 THEN n ELSE 0
              g == IF n = -1 THEN q[f].pending ELSE 0
              w == wire[r]
              q2 == Flushed(q, n)
  <1>1. /\ q \in Seq(Items) /\ w \in Seq(Nat) /\ lost[r] \in Nat
        /\ total[r] \in Nat
    BY DEF QueueIInv, Typed, TypeOK
  <1>2. /\ Files(q, fds[r], leaked[r]) /\ Wire("open", q, w)
        /\ Bytes("open", q, w, lost[r], total[r])
        /\ Retired(q)
    BY DEF QueueIInv, Req, Sound, Waits
  <1>3. f = FirstActive(q) /\ f # 0 /\ n \in Results(q[f])
    OBVIOUS
  <1>. HIDE DEF q, f, w
  <1>4. f \in 1 .. Len(q) /\ n \in Int /\ m \in Nat /\ q2 \in Seq(Items)
    <2>1. f \in 1 .. Len(q) /\ n \in Int /\ q2 \in Seq(Items)
      BY <1>1, <1>3, FlushedItem
    <2>. QED
      BY <2>1
  <1>5. q[f].file = f
    BY <1>2, <1>4 DEF Files
  <1>6. Files(q2, fds[r], leaked[r])
    BY <1>1, <1>2, <1>3, FlushFiles
  <1>. DEFINE w2 == w \o [k \in 1 .. m |-> f]
  <1>7. w2 \in Seq(Nat) /\ Len(w2) = Len(w) + m /\ Wire("open", q2, w2)
    <2>. HIDE DEF m, q2
    <2>. DEFINE t == [k \in 1 .. m |-> f]
    <2>1. t \in Seq(Nat) /\ Len(t) = m /\ Range(t) \subseteq {f}
      BY <1>4 DEF Range
    <2>. HIDE DEF t
    <2>2. q \in Seq(Items) /\ w \in Seq(Nat) /\ Wire("open", q, w)
      BY <1>1, <1>2
    <2>3. /\ w \o t \in Seq(Nat) /\ Len(w \o t) = Len(w) + Len(t)
          /\ Wire("open", Flushed(q, n), w \o t)
      <3>1. w \o t \in Seq(Nat)
        BY <2>1, <2>2, ConcatProperties
      <3>2. Len(w \o t) = Len(w) + Len(t)
        BY <2>1, <2>2, ConcatProperties
      <3>3. Wire("open", Flushed(q, n), w \o t)
        BY <1>3, <2>1, <2>2, FlushWire
      <3>. QED
        BY <3>1, <3>2, <3>3
    <2>. QED
      BY <2>1, <2>3 DEF q2, t
  <1>8. /\ q[f].pending \in Nat /\ lost[r] + g \in Nat
        /\ m + g + Total(q2) = Total(q)
    <2>1. /\ q[f].pending \in Nat
          /\ m + g + Total(q2) = Total(q)
      BY <1>1, <1>3, FlushLength
    <2>. QED
      BY <1>1, <2>1
  <1>9. Total(q) \in Nat /\ Total(q2) \in Nat
    BY <1>1, <1>4, LengthIsSum
  <1>10. Bytes("open", q2, w2, lost[r] + g, total[r])
    <2>. DEFINE lw == Len(w)
                lo == lost[r]
                to == total[r]
                len == Total(q)
                len2 == Total(q2)
    <2>1. /\ lw \in Nat /\ lo \in Nat /\ to \in Nat /\ len \in Nat /\ len2 \in Nat
          /\ g \in Nat /\ m \in Nat
      BY <1>1, <1>4, <1>8, <1>9
    <2>2. lw + lo + len = to
      BY <1>2 DEF Bytes
    <2>3. m + g + len2 = len
      BY <1>8
    <2>4. Len(w2) = lw + m
      BY <1>7
    <2>. HIDE DEF lw, lo, to, len, len2, m, g
    <2>5. (lw + m) + (lo + g) + len2 = to
      BY <2>1, <2>2, <2>3
    <2>. HIDE DEF w2, q2
    <2>. QED
      BY <2>4, <2>5 DEF Bytes, lo, to, len2
  <1>11. Retired(q2)
    BY <1>1, <1>2, <1>3, FlushRetires
  <1>12. Sent(r, n) = w2
    BY <1>5 DEF Sent, w, q, f
  <1>13. GivenUp(r, n) = lost[r] + g
    BY DEF GivenUp, q, f
  <1>. HIDE DEF q2, w2, g
  <1>. QED
    BY <1>4, <1>6, <1>7, <1>8, <1>9, <1>10, <1>11, <1>12, <1>13 DEF q2, q

LEMMA FlushStepQueue ==
  ASSUME QueueIInv, NEW r \in Reqs, phase[r] = "open",
         FirstActive(queue_out[r]) # 0,
         NEW n \in Results(queue_out[r][FirstActive(queue_out[r])]),
         FlushStep(r, n)
  PROVE  QueueIInv'
  <1>. DEFINE q2 == Flushed(queue_out[r], n)
              w2 == Sent(r, n)
              lo2 == GivenUp(r, n)
  <1>1. /\ q2 \in Seq(Items) /\ w2 \in Seq(Nat) /\ lo2 \in Nat
        /\ Files(q2, fds[r], leaked[r]) /\ Wire("open", q2, w2)
        /\ Bytes("open", q2, w2, lo2, total[r])
        /\ Retired(q2)
    BY FlushKeeps
  <1>2. /\ queue_out' = [queue_out EXCEPT ![r] = q2]
        /\ events_write' = Registered(r, duda_queue_length(q2))
        /\ wire' = [wire EXCEPT ![r] = w2]
        /\ lost' = [lost EXCEPT ![r] = lo2]
        /\ flushed' = [flushed EXCEPT ![r] = TRUE]
        /\ UNCHANGED <<total, phase, headers, end_callback, asleep, aborted, fds,
                       ends, leaked>>
        /\ stale' = stale \ {r}
    BY DEF FlushStep, Account, Sent, GivenUp
  <1>. HIDE DEF q2, w2, lo2
  <1>3. /\ r \in events_write' <=> duda_queue_length(q2) > 0
        /\ \A s \in Reqs : s # r => (s \in events_write' <=> s \in events_write)
    BY <1>2 DEF Registered
  <1>4. Typed'
    <2>1. queue_out' \in [Reqs -> Seq(Items)]
      BY <1>1, <1>2 DEF QueueIInv, Typed
    <2>2. \A s \in Reqs : \A i \in 1 .. Len(queue_out'[s]) : queue_out'[s][i] \in Items
      BY <2>1
    <2>3. wire' \in [Reqs -> Seq(Nat)] /\ lost' \in [Reqs -> Nat]
      BY <1>1, <1>2 DEF QueueIInv, Typed, TypeOK
    <2>4. events_write' \subseteq Reqs
      BY <1>2 DEF QueueIInv, Typed, TypeOK, Registered
    <2>. QED
      BY <1>2, <2>1, <2>2, <2>3, <2>4 DEF QueueIInv, Typed, TypeOK, Items
  <1>5. ASSUME NEW s \in Reqs, s # r PROVE Req(s)'
    <2>1. Req(s)
      BY DEF QueueIInv
    <2>. QED
      BY <1>2, <1>3, <1>5, <2>1, OtherRequest DEF QueueIInv, Typed, TypeOK
  <1>6. Req(r)'
    <2>1. /\ phase'[r] = "open" /\ queue_out'[r] = q2 /\ wire'[r] = w2
          /\ lost'[r] = lo2 /\ total'[r] = total[r] /\ flushed'[r] = TRUE
          /\ leaked'[r] = leaked[r] /\ fds'[r] = fds[r]
      BY <1>2 DEF QueueIInv, Typed, TypeOK
    <2>2. Waits(q2, r \in events_write', r \in stale')
      <3>1. r \in events_write' => Total(q2) > 0
        BY <1>1, <1>3, LengthExact
      <3>. QED
        BY <1>1, <3>1, UndrainedIsDue DEF Waits
    <2>3. Awaited("open", q2, r \in events_write', TRUE)
      BY <1>3 DEF Awaited
    <2>. QED
      BY <1>1, <2>1, <2>2, <2>3 DEF Req, Sound
  <1>. QED
    BY <1>4, <1>5, <1>6 DEF QueueIInv

LEMMA FlushNothingQueue ==
  ASSUME QueueIInv, NEW r \in Reqs, FlushNothing(r)
  PROVE  QueueIInv'
  <1>1. Typed'
    BY DEF FlushNothing, QueueIInv, Typed, TypeOK
  <1>2. ASSUME NEW s \in Reqs, s # r PROVE Req(s)'
    <2>1. Req(s)
      BY DEF QueueIInv
    <2>. QED
      BY <1>2, <2>1, OtherRequest DEF FlushNothing, QueueIInv, Typed, TypeOK
  <1>3. Req(r)'
    <2>1. Req(r) /\ queue_out[r] \in Seq(Items)
      BY DEF QueueIInv, Typed
    <2>2. \A i \in 1 .. Len(queue_out[r]) : ~queue_out[r][i].active
      BY <2>1, FirstActiveIsFirst DEF FlushNothing
    <2>3. Sound(phase[r], queue_out[r], r \in events_write, wire[r], lost[r],
                total[r], TRUE, r \in stale, fds[r], leaked[r])
      BY <2>1, <2>2 DEF Req, Sound, Awaited
    <2>. QED
      BY <2>3 DEF FlushNothing, QueueIInv, Typed, TypeOK, Req
  <1>. QED
    BY <1>1, <1>2, <1>3 DEF QueueIInv

LEMMA FlushQueue ==
  ASSUME QueueIInv, NEW r \in Reqs, Flush(r)
  PROVE  QueueIInv'
  <1>1. phase[r] = "open" /\ FirstActive(queue_out[r]) # 0
    BY DEF Flush, Up
  <1>2. PICK n \in Results(queue_out[r][FirstActive(queue_out[r])]) : FlushStep(r, n)
    BY DEF Flush, FlushStep
  <1>. QED
    BY <1>1, <1>2, FlushStepQueue

(* duda_service_end leaves the request sound: its queue is released and    *)
(* its files are closed; if it is still registered, it is stale.           *)
LEMMA EndQueue ==
  ASSUME QueueIInv, NEW r \in Reqs, NEW queue, ServiceEnd(r, queue),
         Len(queue) = Len(queue_out[r]),
         UNCHANGED <<headers, end_callback, asleep, aborted, leaked, total>>,
         events_write' \subseteq Reqs,
         \A s \in Reqs : s # r => (s \in events_write' <=> s \in events_write),
         NEW w \in Seq(Nat), wire' = [wire EXCEPT ![r] = w],
         \A i, j \in 1 .. Len(w) : i < j => w[i] <= w[j],
         NEW lo \in Nat, lost' = [lost EXCEPT ![r] = lo],
         NEW done \in BOOLEAN, flushed' = [flushed EXCEPT ![r] = done]
  PROVE  QueueIInv'
  <1>1. PICK ph \in {"idle", "closed"} : phase' = [phase EXCEPT ![r] = ph]
    BY DEF ServiceEnd
  <1>2. /\ queue_out' = [queue_out EXCEPT ![r] = <<>>]
        /\ fds' = [fds EXCEPT ![r] = @ - Len(queue)]
        /\ ends' = [ends EXCEPT ![r] = @ + 1]
        /\ stale' = stale \cup ({r} \cap events_write')
    BY DEF ServiceEnd
  <1>3. /\ queue_out[r] \in Seq(Items) /\ fds[r] = Len(queue_out[r]) + leaked[r]
        /\ fds[r] \in 0 .. MaxFiles /\ leaked[r] \in Nat /\ ends[r] + 1 \in Nat
    BY DEF QueueIInv, Typed, TypeOK, Req, Sound, Files
  <1>4. fds' = [fds EXCEPT ![r] = leaked[r]] /\ leaked[r] \in 0 .. MaxFiles
    <2>1. Len(queue) \in Nat /\ MaxFiles \in Nat
      BY <1>3, QueueAssumption
    <2>2. fds[r] = Len(queue) + leaked[r] /\ fds[r] \in 0 .. MaxFiles /\ leaked[r] \in Nat
      BY <1>3
    <2>3. fds[r] - Len(queue) = leaked[r]
      BY <2>1, <2>2
    <2>4. leaked[r] \in 0 .. MaxFiles
      BY <2>1, <2>2
    <2>. QED
      BY <1>2, <2>3, <2>4
  <1>5. Typed'
    <2>1. <<>> \in Seq(Items)
      OBVIOUS
    <2>2. queue_out' \in [Reqs -> Seq(Items)]
      BY <1>2, <2>1 DEF QueueIInv, Typed
    <2>3. \A s \in Reqs : \A i \in 1 .. Len(queue_out'[s]) : queue_out'[s][i] \in Items
      BY <2>2
    <2>4. wire' \in [Reqs -> Seq(Nat)] /\ flushed' \in [Reqs -> BOOLEAN]
      BY DEF QueueIInv, Typed, TypeOK
    <2>5. phase' \in [Reqs -> {"idle", "open", "closed"}]
      BY <1>1 DEF QueueIInv, Typed, TypeOK
    <2>6. /\ fds' \in [Reqs -> 0 .. MaxFiles] /\ ends' \in [Reqs -> Nat]
          /\ lost' \in [Reqs -> Nat]
      BY <1>2, <1>3, <1>4 DEF QueueIInv, Typed, TypeOK
    <2>. QED
      BY <1>2, <2>2, <2>3, <2>4, <2>5, <2>6 DEF QueueIInv, Typed, TypeOK, Items
  <1>6. ASSUME NEW s \in Reqs, s # r PROVE Req(s)'
    <2>1. Req(s)
      BY DEF QueueIInv
    <2>. QED
      BY <1>1, <1>2, <1>6, <2>1, OtherRequest DEF QueueIInv, Typed, TypeOK
  <1>7. Req(r)'
    <2>1. /\ phase'[r] # "open" /\ queue_out'[r] = <<>> /\ wire'[r] = w
          /\ leaked'[r] = leaked[r] /\ fds'[r] = leaked[r]
          /\ r \in events_write' => r \in stale'
      BY <1>1, <1>2, <1>4 DEF QueueIInv, Typed, TypeOK
    <2>2. Len(<<>>) = 0
      OBVIOUS
    <2>3. Files(<<>>, leaked[r], leaked[r]) /\ Wire(phase'[r], <<>>, w)
      BY <1>3, <2>1, <2>2 DEF Files, Wire
    <2>4. Bytes(phase'[r], <<>>, w, lost'[r], total'[r])
      BY <2>1 DEF Bytes
    <2>5. Waits(<<>>, r \in events_write', r \in stale')
      BY <2>1, <2>2 DEF Waits, Retired
    <2>6. Awaited(phase'[r], <<>>, r \in events_write', flushed'[r])
      BY <2>1 DEF Awaited
    <2>. QED
      BY <2>1, <2>3, <2>4, <2>5, <2>6 DEF Req, Sound
  <1>. QED
    BY <1>5, <1>6, <1>7 DEF QueueIInv

(* A write event finds an open request: between requests the queue is      *)
(* empty.                                                                  *)
LEMMA WriteFindsOpen ==
  ASSUME QueueIInv, NEW r \in Reqs, WriteEventReady(r), FirstActive(queue_out[r]) # 0
  PROVE  phase[r] = "open"
  <1>1. queue_out[r] \in Seq(Items)
    BY DEF QueueIInv, Typed
  <1>2. FirstActive(queue_out[r]) \in 1 .. Len(queue_out[r])
    BY <1>1, FirstActiveIsFirst
  <1>3. queue_out[r] # <<>>
    BY <1>2
  <1>4. phase[r] \in {"idle", "open", "closed"} /\ phase[r] # "closed"
    BY DEF QueueIInv, Typed, TypeOK, WriteEventReady
  <1>5. phase[r] # "idle"
    BY <1>3 DEF QueueIInv, Req, Sound, Bytes
  <1>. QED
    BY <1>4, <1>5

(* A write event ends a request only when nothing is pending, or more than *)
(* an int can count.                                                       *)
LEMMA EndsDrained ==
  ASSUME NEW q \in Seq(Items), ~GoesOn(duda_queue_length(q))
  PROVE  Total(q) = 0 \/ Total(q) > IntMax
  <1>. DEFINE n == Total(q)
  <1>1. n \in Nat /\ IntMax \in Nat /\ ULongMax \in Nat /\ ULongMax > IntMax
    BY LengthIsSum, QueueAssumption
  <1>2. SUFFICES ASSUME n <= IntMax PROVE n = 0
    BY <1>1
  <1>3. n <= ULongMax
    <2>. HIDE DEF n
    <2>. QED
      BY <1>1, <1>2
  <1>4. duda_queue_length(q) = n
    BY <1>3, LengthExact
  <1>5. AsInt(n) = n
    BY <1>1, <1>2, AsIntExact
  <1>. HIDE DEF n
  <1>. QED
    BY <1>1, <1>4, <1>5 DEF GoesOn

LEMMA WriteEventQueue ==
  ASSUME QueueIInv, NEW r \in Reqs, WriteEvent(r)
  PROVE  QueueIInv'
  <1>1. FirstActive(queue_out[r]) # 0 /\ WriteEventReady(r)
    BY DEF WriteEvent
  <1>2. phase[r] = "open"
    BY <1>1, WriteFindsOpen
  <1>3. PICK n \in Results(queue_out[r][FirstActive(queue_out[r])]) :
          WriteEventResult(r, n)
    BY DEF WriteEvent
  <1>. DEFINE q2 == Flushed(queue_out[r], n)
              len == duda_queue_length(q2)
  <1>4. CASE GoesOn(len)
    <2>1. FlushStep(r, n)
      BY <1>3, <1>4 DEF WriteEventResult, FlushStep
    <2>. QED
      BY <1>1, <1>2, <2>1, FlushStepQueue
  <1>5. CASE ~GoesOn(len)
    <2>1. ServiceEnd(r, q2)
      BY <1>3, <1>5 DEF WriteEventResult
    <2>2. /\ UNCHANGED <<headers, end_callback, asleep, aborted, leaked, total>>
          /\ wire' = [wire EXCEPT ![r] = Sent(r, n)]
          /\ lost' = [lost EXCEPT ![r] = GivenUp(r, n)]
          /\ flushed' = [flushed EXCEPT ![r] = TRUE]
          /\ events_write' = Registered(r, len)
      BY <1>3 DEF WriteEventResult, Account, Sent, GivenUp
    <2>3. /\ Sent(r, n) \in Seq(Nat) /\ GivenUp(r, n) \in Nat
          /\ \A i, j \in 1 .. Len(Sent(r, n)) : i < j => Sent(r, n)[i] <= Sent(r, n)[j]
      BY <1>1, <1>2, FlushKeeps DEF Wire
    <2>4. Len(q2) = Len(queue_out[r])
      <3>1. queue_out[r] \in Seq(Items)
        BY DEF QueueIInv, Typed
      <3>. QED
        BY <1>1, <3>1, FlushedItem
    <2>6. /\ events_write' \subseteq Reqs
          /\ \A s \in Reqs : s # r => (s \in events_write' <=> s \in events_write)
      BY <2>2 DEF Registered, QueueIInv, Typed, TypeOK
    <2>. HIDE DEF q2
    <2>7. TRUE \in BOOLEAN
      OBVIOUS
    <2>. QED
      BY <2>1, <2>2, <2>3, <2>4, <2>6, <2>7, EndQueue
  <1>. QED
    BY <1>4, <1>5

(* A write event that finds nothing to send finds nothing pending, or more *)
(* than an int can count.                                                  *)
LEMMA NothingIsDrained ==
  ASSUME QueueIInv, NEW r \in Reqs, WriteEventNothing(r)
  PROVE  Total(queue_out[r]) = 0 \/ Total(queue_out[r]) > IntMax
  <1>. DEFINE q == queue_out[r]
  <1>1. q \in Seq(Items) /\ Retired(q)
    BY DEF QueueIInv, Typed, Req, Sound, Waits
  <1>2. \A i \in 1 .. Len(q) : ~q[i].active
    BY <1>1, FirstActiveIsFirst DEF WriteEventNothing
  <1>. HIDE DEF q
  <1>3. Total(q) \in Nat /\ IntMax \in Nat
    BY <1>1, LengthIsSum, QueueAssumption
  <1>4. Total(q) > 0 => Total(q) > IntMax
    BY <1>1, <1>2, UndrainedIsDue DEF Due
  <1>. QED
    BY <1>3, <1>4 DEF q

LEMMA WriteEventNothingQueue ==
  ASSUME QueueIInv, NEW r \in Reqs, WriteEventNothing(r)
  PROVE  QueueIInv'
  <1>. DEFINE w == wire[r]
              lo == lost[r]
              done == flushed[r]
  <1>2. w \in Seq(Nat) /\ lo \in Nat /\ done \in BOOLEAN
    BY DEF QueueIInv, Typed, TypeOK
  <1>3. \A i, j \in 1 .. Len(w) : i < j => w[i] <= w[j]
    BY DEF QueueIInv, Req, Sound, Wire
  <1>4. /\ wire' = [wire EXCEPT ![r] = w] /\ lost' = [lost EXCEPT ![r] = lo]
        /\ flushed' = [flushed EXCEPT ![r] = done]
    BY DEF WriteEventNothing, QueueIInv, Typed, TypeOK
  <1>5. /\ ServiceEnd(r, queue_out[r])
        /\ UNCHANGED <<headers, end_callback, asleep, aborted, leaked, total>>
        /\ events_write' \subseteq Reqs
        /\ \A s \in Reqs : s # r => (s \in events_write' <=> s \in events_write)
    BY DEF WriteEventNothing, QueueIInv, Typed, TypeOK
  <1>. HIDE DEF w, lo, done
  <1>. QED
    BY <1>2, <1>3, <1>4, <1>5, EndQueue

(* The calls that touch neither a queue nor the list of write events.      *)
LEMMA OtherCallsQueue ==
  ASSUME QueueIInv, TypeOK',
         UNCHANGED <<queue_out, events_write, fds, flushed, wire, lost, total,
                     ends, leaked, stale>>,
         \A s \in Reqs : phase'[s] = phase[s] \/ phase'[s] = "closed"
  PROVE  QueueIInv'
  <1>1. Typed'
    BY DEF QueueIInv, Typed
  <1>2. ASSUME NEW s \in Reqs PROVE Req(s)'
    <2>1. Req(s)
      BY DEF QueueIInv
    <2>2. CASE phase'[s] = phase[s]
      BY <2>1, <2>2, OtherRequest
    <2>3. CASE phase'[s] = "closed"
      BY <2>1, <2>3 DEF Req, Sound, Wire, Bytes, Awaited
    <2>. QED
      BY <2>2, <2>3
  <1>. QED
    BY <1>1, <1>2 DEF QueueIInv

(* Every step keeps the invariant.                                         *)
LEMMA NextQueue == QueueIInv /\ [Next]_vars => QueueIInv'
  <1>. SUFFICES ASSUME QueueIInv, [Next]_vars PROVE QueueIInv'
    OBVIOUS
  <1>1. TypeOK
    BY DEF QueueIInv, Typed
  <1>2. ASSUME UNCHANGED vars PROVE QueueIInv'
    <2>1. TypeOK'
      BY <1>1, <1>2 DEF TypeOK, vars
    <2>. QED
      BY <1>2, <2>1, OtherCallsQueue DEF vars
  <1>3. ASSUME NEW r \in Reqs, HttpStatus(r) \/ HeadersOff(r) PROVE QueueIInv'
    <2>1. TypeOK'
      BY <1>1, <1>3 DEF TypeOK, HttpStatus, HeadersOff, SetHeaders
    <2>. QED
      BY <1>3, <2>1, OtherCallsQueue DEF HttpStatus, HeadersOff, SetHeaders
  <1>4. ASSUME AbortProcess PROVE QueueIInv'
    <2>1. TypeOK'
      BY <1>1, <1>4 DEF TypeOK, AbortProcess
    <2>. QED
      BY <1>4, <2>1, OtherCallsQueue DEF AbortProcess
  <1>5. ASSUME NEW r \in Reqs, NEW value \in SentHeaders(r), SetHeaders(r, value),
               end_callback' \in [Reqs -> {"unset", "null", "func"}]
        PROVE  QueueIInv'
    <2>1. value \in {"unset", "status", "off", "sent"}
      BY <1>1 DEF SentHeaders, TypeOK
    <2>2. TypeOK'
      BY <1>1, <1>5, <2>1 DEF TypeOK, SetHeaders
    <2>. QED
      BY <1>5, <2>2, OtherCallsQueue DEF SetHeaders
  <1>6. ASSUME NEW r \in Reqs, SendHeaders(r) PROVE QueueIInv'
    <2>1. AbortProcess \/ \E value \in SentHeaders(r) :
                              SetHeaders(r, value) /\ UNCHANGED end_callback
      BY <1>6 DEF SendHeaders
    <2>. QED
      BY <1>1, <1>4, <1>5, <2>1 DEF TypeOK
  <1>7. ASSUME NEW r \in Reqs, NEW cb \in {"null", "func"}, End(r, cb)
        PROVE  QueueIInv'
    <2>1. AbortProcess \/ \E value \in SentHeaders(r) :
                              /\ SetHeaders(r, value)
                              /\ end_callback' = [end_callback EXCEPT ![r] = cb]
      BY <1>7 DEF End
    <2>2. [end_callback EXCEPT ![r] = cb] \in [Reqs -> {"unset", "null", "func"}]
      BY <1>1 DEF TypeOK
    <2>. QED
      BY <1>4, <1>5, <2>1, <2>2
  <1>8. ASSUME NEW r \in Reqs, Wait(r) \/ Continue(r) PROVE QueueIInv'
    <2>1. TypeOK'
      BY <1>1, <1>8 DEF TypeOK, Wait, Continue
    <2>. QED
      BY <1>8, <2>1, OtherCallsQueue DEF Wait, Continue
  <1>9. ASSUME NEW r \in Reqs, Close(r) PROVE QueueIInv'
    <2>1. TypeOK'
      BY <1>1, <1>9 DEF TypeOK, Close
    <2>2. \A s \in Reqs : phase'[s] = phase[s] \/ phase'[s] = "closed"
      BY <1>1, <1>9 DEF TypeOK, Close
    <2>. QED
      BY <1>9, <2>1, <2>2, OtherCallsQueue DEF Close
  <1>10. CASE UNCHANGED vars
    BY <1>2, <1>10
  <1>11. CASE Next
    <2>1. PICK r \in Reqs :
            \/ ServiceRun(r)
            \/ \E size \in Sizes :
                  \E offset \in (0 .. size) \cup Far : \E count \in 0 .. size :
                     Sendfile(r, size, offset, count)
            \/ SendfileRefused(r)
            \/ Flush(r) \/ FlushNothing(r)
            \/ WriteEvent(r) \/ WriteEventNothing(r)
            \/ HttpStatus(r) \/ HeadersOff(r) \/ SendHeaders(r)
            \/ \E cb \in {"null", "func"} : End(r, cb)
            \/ Wait(r) \/ Continue(r)
            \/ Close(r)
      BY <1>11, Zenon DEF Next
    <2>2. CASE ServiceRun(r)
      BY <2>2, RunQueue
    <2>3. CASE \E size \in Sizes :
                 \E offset \in (0 .. size) \cup Far : \E count \in 0 .. size :
                    Sendfile(r, size, offset, count)
      BY <2>3, SendfileQueue
    <2>4. CASE SendfileRefused(r)
      BY <1>2, <2>4 DEF SendfileRefused
    <2>5. CASE Flush(r)
      BY <2>5, FlushQueue
    <2>6. CASE FlushNothing(r)
      BY <2>6, FlushNothingQueue
    <2>7. CASE WriteEvent(r)
      BY <2>7, WriteEventQueue
    <2>8. CASE WriteEventNothing(r)
      BY <2>8, WriteEventNothingQueue
    <2>. QED
      BY <1>3, <1>6, <1>7, <1>8, <1>9,
         <2>1, <2>2, <2>3, <2>4, <2>5, <2>6, <2>7, <2>8
  <1>. QED
    BY <1>10, <1>11

-----------------------------------------------------------------------------
(* The invariant holds for any files, of any sizes, and any width of int.  *)
THEOREM QueueInvariant == Spec => []QueueIInv
  <1>. QED
    BY InitQueue, NextQueue, PTL DEF Spec

(* Every byte a service hands to sendfile is sent once and in the order of *)
(* the files, is pending, or was given up after an error: what             *)
(* duda_sendfile_flush and duda_queue_flush do with cut-short sends, with  *)
(* files added while others are half sent, and with write events that come *)
(* between the service's own flushes.                                      *)
THEOREM QueueBytesKept == Spec => []BytesKept
  <1>1. QueueIInv => BytesKept
    <2>. SUFFICES ASSUME QueueIInv PROVE BytesKept
      OBVIOUS
    <2>1. TypeOK
      BY DEF QueueIInv, Typed
    <2>2. InOrder
      BY DEF QueueIInv, Req, Sound, Wire, InOrder
    <2>3. BytesConserved
      BY DEF QueueIInv, Req, Sound, Bytes, BytesConserved
    <2>. QED
      BY <2>1, <2>2, <2>3 DEF BytesKept
  <1>. QED
    BY <1>1, QueueInvariant, PTL

(* A request registered for write events has an item that is due, or more  *)
(* bytes than an int can count, or was left registered by a request that   *)
(* duda_service_run replaced or that ended with too many bytes to count;   *)
(* an open request that was flushed and has bytes to send is registered:   *)
(* duda_queue_flush, called by the service and by the event loop, never    *)
(* forgets a queue.                                                        *)
THEOREM QueueEventsFollow == Spec => []EventsFollowQueue
  <1>1. QueueIInv => EventsFollowQueue
    <2>. SUFFICES ASSUME QueueIInv PROVE EventsFollowQueue
      OBVIOUS
    <2>1. RegisteredHasPending
      BY DEF QueueIInv, Typed, TypeOK, Req, Sound, Waits, Due, RegisteredHasPending
    <2>2. NoLostWakeup
      BY DEF QueueIInv, Req, Sound, Awaited, NoLostWakeup
    <2>. QED
      BY <2>1, <2>2 DEF EventsFollowQueue
  <1>. QED
    BY <1>1, QueueInvariant, PTL

(* The descriptors of a request are those of its queue and those of the    *)
(* queues that duda_service_run made empty, and what is pending of a file  *)
(* is inside the file unless its offset does not fit an unsigned: for      *)
(* files of any size and requests that replace one another at any time.    *)
THEOREM QueueFilesKept == Spec => []FilesKept
  <1>1. QueueIInv => FilesKept
    BY DEF QueueIInv, Req, Sound, Files, InRange, FilesKept, RangeInFile,
           FilesAccounted
  <1>. QED
    BY <1>1, QueueInvariant, PTL

(* duda_queue_event_write_callback ends an open request only when nothing  *)
(* is pending any more, or more than an int can count, whichever request   *)
(* the registration was made for.                                          *)
THEOREM QueueEndAfterFlush == Spec => EndAfterFlush
  <1>. DEFINE Rest(r) == total'[r] - (Len(wire'[r]) + lost'[r])
              Drained == \A r \in Reqs :
                 ends'[r] > ends[r] /\ phase[r] = "open"
                     => Rest(r) = 0 \/ Rest(r) > IntMax
  <1>1. QueueIInv /\ [Next]_vars => [Drained]_vars
    <2>. SUFFICES ASSUME QueueIInv, Next, NEW r \in Reqs, ends'[r] > ends[r],
                         phase[r] = "open"
                  PROVE  Rest(r) = 0 \/ Rest(r) > IntMax
      OBVIOUS
    <2>1. /\ ends \in [Reqs -> Nat] /\ TypeOK
          /\ queue_out[r] \in Seq(Items) /\ wire[r] \in Seq(Nat)
          /\ lost[r] \in Nat /\ total[r] \in Nat
      BY DEF QueueIInv, Typed, TypeOK
    <2>2. PICK s \in Reqs : WriteEvent(s) \/ WriteEventNothing(s)
      BY <2>1
         DEF Next, vars, ServiceRun, Sendfile, SendfileRefused, Flush, FlushNothing,
             HttpStatus, HeadersOff, SetHeaders, SendHeaders, AbortProcess, End,
             Wait, Continue, Close
    <2>3. ASSUME NEW q, q \in Seq(Items), NEW w, w \in Seq(Nat), NEW lo, lo \in Nat,
                 Bytes("open", q, w, lo, total[r]),
                 Total(q) = 0 \/ Total(q) > IntMax,
                 wire'[r] = w, lost'[r] = lo, total'[r] = total[r]
          PROVE  Rest(r) = 0 \/ Rest(r) > IntMax
      <3>. DEFINE lw == Len(w)
                  to == total[r]
                  len == Total(q)
      <3>1. lw \in Nat /\ to \in Nat /\ len \in Nat /\ lo \in Nat
        BY <2>1, <2>3, LengthIsSum
      <3>2. lw + lo + len = to
        BY <2>3 DEF Bytes
      <3>3. Rest(r) = to - (lw + lo)
        BY <2>3
      <3>4. len = 0 \/ len > IntMax
        BY <2>3
      <3>. HIDE DEF lw, to, len, Rest
      <3>5. to - (lw + lo) = len
        BY <3>1, <3>2
      <3>. QED
        BY <3>3, <3>4, <3>5
    <2>4. CASE WriteEventNothing(s)
      <3>1. s = r
        BY <2>1, <2>4 DEF WriteEventNothing, ServiceEnd
      <3>2. Bytes("open", queue_out[r], wire[r], lost[r], total[r])
        BY DEF QueueIInv, Req, Sound
      <3>3. wire'[r] = wire[r] /\ lost'[r] = lost[r] /\ total'[r] = total[r]
        BY <2>4 DEF WriteEventNothing
      <3>. QED
        BY <2>1, <2>3, <2>4, <3>1, <3>2, <3>3, NothingIsDrained
    <2>5. CASE WriteEvent(s)
      <3>1. FirstActive(queue_out[s]) # 0 /\ WriteEventReady(s)
        BY <2>5 DEF WriteEvent
      <3>2. PICK n \in Results(queue_out[s][FirstActive(queue_out[s])]) :
              WriteEventResult(s, n)
        BY <2>5 DEF WriteEvent
      <3>. DEFINE q2 == Flushed(queue_out[s], n)
      <3>3. s = r /\ ~GoesOn(duda_queue_length(q2))
        BY <2>1, <3>2 DEF WriteEventResult, ServiceEnd
      <3>4. /\ q2 \in Seq(Items)
            /\ Bytes("open", q2, Sent(r, n), GivenUp(r, n), total[r])
            /\ Sent(r, n) \in Seq(Nat) /\ GivenUp(r, n) \in Nat
        BY <3>1, <3>3, FlushKeeps
      <3>5. /\ wire'[r] = Sent(r, n) /\ lost'[r] = GivenUp(r, n)
            /\ total'[r] = total[r]
        BY <3>2, <3>3 DEF WriteEventResult, Account, Sent, GivenUp,
                          QueueIInv, Typed, TypeOK
      <3>. HIDE DEF q2
      <3>6. Total(q2) = 0 \/ Total(q2) > IntMax
        BY <3>3, <3>4, EndsDrained
      <3>. QED
        BY <2>3, <3>4, <3>5, <3>6
    <2>. QED
      BY <2>2, <2>4, <2>5
  <1>. QED
    BY <1>1, QueueInvariant, PTL DEF Spec, EndAfterFlush
=============================================================================
