---------------------------- MODULE RedisProofs ----------------------------
(***************************************************************************)
(* The redis package: the connection of a context, for any number of       *)
(* addresses; and the asynchronous connection a worker drives, for any     *)
(* names, hash function, number of commands and messages.  The invariant   *)
(* of the latter is AsyncIInv: Basics holds always, Lines until the        *)
(* context goes down.                                                      *)
(***************************************************************************)
EXTENDS RedisNet, RedisAsync, DataLemmas

(***************************************************************************)
(* Opening and closing the connection of a context.                        *)
(***************************************************************************)
\* The calls between socket() and the end of the connect function.
Holding == {"nonblock", "block", "connect", "wait", "refused", "nodelay", "done"}

\* The descriptor in use is the only one that is open, and it is the
\* context's from the moment the connect function succeeds, unless an event
\* finds the connection refused and closes it.
NetInv ==
    /\ addrs \in Nat
    /\ connected \in BOOLEAN
    /\ netpc \in {"resolve", "socket", "failed", "freed"} => opened = {}
    /\ netpc \in Holding => opened = {sock}
    /\ netpc = "ok" => opened = IF late THEN {} ELSE {cfd}
    /\ late \in BOOLEAN /\ twice \in BOOLEAN
    /\ late => netpc \in {"ok", "freed"} /\ ~how.block /\ cerr # "none"
    /\ netpc = "freed" => (twice <=> late)
    /\ netpc \in {"resolve", "socket", "failed", "ok", "freed"} \cup Holding
    /\ connected <=> netpc = "ok"
    /\ netpc = "failed" => cerr # "none" \/ how.timeout = "invalid"

(* A context that was just created has no connection.                      *)
LEMMA NetInvInit == NetInit => NetInv
  <1>. SUFFICES ASSUME NetInit PROVE NetInv
    OBVIOUS
  <1>1. netpc \in {"resolve", "socket"} /\ addrs = 1 /\ opened = {} /\ ~connected
    BY DEF NetInit
  <1>2. connected = FALSE /\ late = FALSE /\ twice = FALSE
    BY DEF NetInit
  <1>. QED
    BY <1>1, <1>2 DEF NetInv, Holding

(* Whichever system call fails, the descriptor it was given is closed.     *)
LEMMA NetFailInv ==
  ASSUME NetInv, netpc \in {"resolve", "socket"} \cup Holding, NEW e,
         NetFail(e), e # "none" \/ how.timeout = "invalid"
  PROVE  NetInv'
  BY DEF NetInv, NetFail, Holding, lateVars

(* From one call to the next the descriptor stays open.                    *)
LEMMA NetGotoInv ==
  ASSUME NetInv, netpc \in Holding, NEW l \in Holding, NetGoto(l)
  PROVE  NetInv'
  BY DEF NetInv, NetGoto, Holding, lateVars

(* Every step of the connect function preserves the invariant.             *)
LEMMA NetNextInv == NetInv /\ NetNext => NetInv'
  <1>. SUFFICES ASSUME NetInv, NetNext PROVE NetInv'
    OBVIOUS
  <1>0. Established \in Holding
    BY DEF Established, Holding
  <1>1. CASE NetResolve
    <2>1. CASE NetFail("other")
      BY <1>1, <2>1, NetFailInv DEF NetResolve
    <2>2. CASE ~NetFail("other")
      BY <1>1, <2>2, NetAssumption DEF NetResolve, NetInv, Holding, lateVars
    <2>. QED
      BY <2>1, <2>2
  <1>2. CASE NetSocket
    <2>1. CASE NetFail("other") \/ NetFail("io")
      BY <1>2, <2>1, NetFailInv DEF NetSocket
    <2>2. CASE ~(NetFail("other") \/ NetFail("io"))
      <3>1. opened = {} /\ addrs > 0 /\ addrs' = addrs - 1
        BY <1>2, <2>2 DEF NetSocket, NetInv
      <3>. QED
        BY <1>2, <2>2, <3>1 DEF NetSocket, NetInv, Holding, lateVars
    <2>. QED
      BY <2>1, <2>2
  <1>3. CASE NetSetBlocking
    BY <1>3, NetFailInv, NetGotoInv DEF NetSetBlocking, Holding
  <1>4. CASE NetConnect
    <2>1. ASSUME NEW l \in Holding, NetGoto(l) PROVE NetInv'
      BY <1>4, <2>1, NetGotoInv DEF NetConnect, Holding
    <2>2. CASE netpc' = "socket" /\ opened' = opened \ {sock}
               /\ UNCHANGED <<how, addrs, sock, cerr, cfd, connected, lateVars>>
      BY <1>4, <2>2 DEF NetConnect, NetInv, Holding, lateVars
    <2>. QED
      BY <1>0, <1>4, <2>1, <2>2 DEF NetConnect, Holding
  <1>5. CASE NetWaitReady
    BY <1>0, <1>5, NetFailInv, NetGotoInv DEF NetWaitReady, Holding
  <1>6. CASE NetNoDelay
    BY <1>6, NetFailInv, NetGotoInv DEF NetNoDelay, Holding
  <1>7. CASE NetConnected
    BY <1>7 DEF NetConnected, NetInv, Holding, lateVars
  <1>. QED
    BY <1>1, <1>2, <1>3, <1>4, <1>5, <1>6, <1>7 DEF NetNext

(* So does what the context does with the connection.                      *)
LEMMA NetUseInv ==
  ASSUME NetInv, NetUse
  PROVE  NetInv'
  <1>1. CASE NetClose
    BY <1>1 DEF NetClose, NetInv, Holding
  <1>2. ASSUME NEW e \in STRING \ {"none"}, SetError(e) PROVE NetInv'
    BY <1>2 DEF SetError, NetInv, Holding, lateVars
  <1>3. CASE NetFailLate
    BY <1>3 DEF NetFailLate, NetInv, Holding
  <1>. QED
    BY <1>1, <1>2, <1>3 DEF NetUse

(* However many addresses are tried and whichever call fails, a failed     *)
(* connect leaves no descriptor open and is reported (or its timeout was   *)
(* not valid), and a context that is connected has exactly one descriptor, *)
(* its own, which redisFree closes; only a connection found refused by an  *)
(* event is closed before, and then a second time by redisFree.            *)
THEOREM ConnectIsSettled == NetSpec => []ConnectSettled
  <1>1. NetInv /\ [NetNext \/ NetUse]_netVars => NetInv'
    <2>1. NetInv /\ UNCHANGED netVars => NetInv'
      BY DEF NetInv, netVars, lateVars, Holding
    <2>. QED
      BY <2>1, NetNextInv, NetUseInv
  <1>2. NetInv => ConnectSettled
    BY DEF NetInv, ConnectSettled
  <1>. QED
    BY <1>1, <1>2, NetInvInit, PTL DEF NetSpec

-----------------------------------------------------------------------------
(***************************************************************************)
(* The asynchronous connection.                                            *)
(***************************************************************************)
Entry == [key : Names, val : Nat]

\* A hash table: every entry in the chain of its key, no key twice.
IsDict(d) ==
    /\ d \in [table : Seq(Seq(Entry)), used : Int]
    /\ \A s \in 1 .. Len(d.table) :
         /\ \A i \in 1 .. Len(d.table[s]) : Slot(d, d.table[s][i].key) = s
         /\ \A i, j \in 1 .. Len(d.table[s]) :
              d.table[s][i].key = d.table[s][j].key => i = j

Sub(n) == dictFind(DictOf(n), n)

\* What the server has yet to see, and what the client has yet to process.
Ups == sent \o obuf
Downs == ibuf \o down

Commands == [op : Subscribing, id : Ids, name : Names]
              \cup [op : {"command"}, id : Ids, name : {None}]
Fates == {"new", "waiting", "reply", "null"}

AsyncTyped ==
    /\ flags \subseteq {"SUBSCRIBED", "CONNECTED", "IN_CALLBACK", "DISCONNECTING", "FREEING"}
    /\ replies \in Seq(Ids) /\ invalid \in Seq(Ids)
    /\ obuf \in Seq(Commands) /\ sent \in Seq(Commands)
    /\ ibuf \in Seq(Answers) /\ down \in Seq(Answers)
    /\ fate \in [Ids -> Fates] /\ issued \in 0 .. MaxCmds
    /\ srvsub \subseteq Names /\ IsFiniteSet(srvsub)
    /\ srvup \in {"up", "closed", "refused"}

Dicts == DOMAIN dict = {"ch", "pat"} /\ \A v \in {"ch", "pat"} : IsDict(dict[v])

\* A command waits as long as its callback is in one of the two lists.
Waiting ==
    /\ \A i \in Ids : fate[i] = "waiting" <=> i \in Range(replies) \cup Range(invalid)
    /\ \A i \in Ids : i > issued => fate[i] = "new"
    /\ replies = <<>> \/ invalid = <<>>
    /\ \A p, q \in 1 .. Len(replies) : p < q => replies[p] < replies[q]
    /\ \A p, q \in 1 .. Len(invalid) : p < q => invalid[p] < invalid[q]

Leaving == pc \in {"free", "last", "freed"}

\* Commands of both lists: at most one, and alone, while subscribed.
Modes ==
    /\ "SUBSCRIBED" \in flags => issued > 0
    /\ invalid # <<>> => "SUBSCRIBED" \in flags /\ Len(invalid) = 1
    /\ \A q \in 1 .. Len(Ups) : Ups[q].op \in Subscribing =>
         /\ "SUBSCRIBED" \in flags /\ invalid = <<>> /\ Ups[q].name \in Names
         /\ \A i \in Range(replies) : i < Ups[q].id

InDowns(i) == \E p \in 1 .. Len(Downs) : Downs[p].id = i
InUps(i) == \E q \in 1 .. Len(Ups) : Ups[q].id = i

\* Replies come in the order of the commands, which is that of the callbacks.
Order ==
    /\ \A q \in 1 .. Len(Ups) : Ups[q].id <= issued
    /\ \A p, q \in 1 .. Len(Ups) : p < q => Ups[p].id < Ups[q].id
    /\ \A p \in 1 .. Len(Downs) : Downs[p].id \in Nat =>
         /\ Downs[p].id \in Range(replies) \cup Range(invalid)
         /\ \A q \in 1 .. Len(Downs) :
              p < q /\ Downs[q].id \in Nat => Downs[p].id < Downs[q].id
         /\ \A q \in 1 .. Len(Ups) : Downs[p].id < Ups[q].id
         /\ \A i \in Range(replies) : i < Downs[p].id => InDowns(i)

\* A message comes behind the replies to everything issued before the
\* subscription, and its subscription has a callback when it is processed.
Messages ==
    \A p \in 1 .. Len(Downs) : Downs[p].id = None =>
      /\ "SUBSCRIBED" \in flags /\ Downs[p].name \in Names /\ Sub(Downs[p].name) # None
      /\ Downs[p].k \in {"message"} \cup Subscribing
      /\ Downs[p].k \in Subscribing => invalid = <<>>
      /\ \A i \in Range(replies) : \E q \in 1 .. Len(Downs) : q < p /\ Downs[q].id = i
      /\ Downs[p].k = "unsubscribe" =>
           \A q \in 1 .. Len(Downs) : p < q /\ Downs[q].id = None =>
             Downs[q].name # Downs[p].name /\ Downs[p].count # 0

\* A reply is no subscription message; one subscription command is in flight.
OneInFlight ==
    /\ \A p \in 1 .. Len(Downs) : Downs[p].k \in Subscribing => Downs[p].id = None
    /\ \A p, q \in 1 .. Len(Downs) :
         Downs[p].k \in Subscribing /\ Downs[q].k \in Subscribing => p = q
    /\ \A p, q \in 1 .. Len(Ups) :
         Ups[p].op \in Subscribing /\ Ups[q].op \in Subscribing => p = q
    /\ \A p \in 1 .. Len(Downs), q \in 1 .. Len(Ups) :
         ~(Downs[p].k \in Subscribing /\ Ups[q].op \in Subscribing)
    /\ \A q \in 1 .. Len(Ups) : Ups[q].op \in Subscribing => Sub(Ups[q].name) # None

\* Where a server that is up stands.
Served ==
    /\ \A i \in Range(replies) : InDowns(i) \/ InUps(i)
    /\ \A q \in 1 .. Len(Ups) : Ups[q].op = "command" =>
         Ups[q].id \in Range(replies) \cup Range(invalid)
    /\ srvsub # {} => "SUBSCRIBED" \in flags /\ \A i \in Range(replies) : InDowns(i)
    /\ \A p \in 1 .. Len(Downs) : Downs[p].k = "unsubscribe" =>
         Downs[p].name \notin srvsub /\ Downs[p].count = Cardinality(srvsub)

SubscribeSent(n) ==
    \E q \in 1 .. Len(Ups) : Ups[q].op = "subscribe" /\ Ups[q].name = n
UnsubscribeBack(n) ==
    \E p \in 1 .. Len(Downs) : Downs[p].k = "unsubscribe" /\ Downs[p].name = n

\* Both sides have the same names, but for the one under way.
Agreed ==
    /\ \A n \in Names :
         Sub(n) # None <=> n \in srvsub \/ SubscribeSent(n) \/ UnsubscribeBack(n)
    /\ "SUBSCRIBED" \in flags =>
         srvsub # {} \/ \E n \in Names : SubscribeSent(n) \/ UnsubscribeBack(n)

\* The error of a server that refuses the connection answers any command.
Refused == \A p \in 1 .. Len(Downs) : Downs[p].id = 0

Basics ==
    /\ AsyncTyped /\ Dicts /\ Waiting
    /\ Leaving => Closing
    /\ pc = "freed" => replies = <<>> /\ invalid = <<>>
    /\ bad \in {"spontaneous", "stale"} => srvup = "refused"

Lines ==
    /\ Modes
    /\ srvup = "refused" => Refused
    /\ srvup # "refused" => Order /\ Messages /\ OneInFlight
    /\ srvup = "up" => Served /\ Agreed

AsyncIInv == Basics /\ (~Leaving => Lines)

\* What the context's fatal ends come from, and why the connect callback was
\* told of a failure.
Causes ==
    /\ bad = "freed" => InConnect /\ Closing
    /\ bad = "pending" => "DISCONNECTING" \in flags /\ replies # <<>>
    /\ pc = "unconnected" => err = "io"

(***************************************************************************)
(* The hash table.  What it holds is a set of entries, one for each key;   *)
(* the operations of dict.c are what they do to that set.                  *)
(***************************************************************************)
Contents(d) ==
    {e \in Entry : \E s \in 1 .. Len(d.table) : \E i \in 1 .. Len(d.table[s]) :
                      d.table[s][i] = e}

(* The slot of a key is one of the table.                                  *)
LEMMA SlotInTable ==
  ASSUME NEW d, Len(d.table) \in Nat \ {0}, NEW n \in Names
  PROVE  Slot(d, n) \in 1 .. Len(d.table)
  <1>1. Hash[n] \in Nat
    BY AsyncAssumption
  <1>2. \A a \in Nat, b \in Nat \ {0} : a % b \in 0 .. b - 1
    OBVIOUS
  <1>3. Hash[n] % Len(d.table) \in 0 .. Len(d.table) - 1
    BY <1>1, <1>2
  <1>. QED
    BY <1>3 DEF Slot

(* The types of a table's parts.                                           *)
LEMMA DictParts ==
  ASSUME NEW d, IsDict(d)
  PROVE  /\ d.table \in Seq(Seq(Entry)) /\ Len(d.table) \in Nat /\ d.used \in Int
         /\ \A s \in 1 .. Len(d.table) :
              /\ d.table[s] \in Seq(Entry) /\ Len(d.table[s]) \in Nat
              /\ \A i \in 1 .. Len(d.table[s]) :
                   d.table[s][i] \in Entry /\ d.table[s][i] \in Contents(d)
  <1>1. d.table \in Seq(Seq(Entry)) /\ d.used \in Int
    BY DEF IsDict
  <1>2. \A s \in 1 .. Len(d.table) : d.table[s] \in Seq(Entry)
    BY <1>1
  <1>3. \A s \in 1 .. Len(d.table) : \A i \in 1 .. Len(d.table[s]) : d.table[s][i] \in Entry
    BY <1>2
  <1>4. ASSUME NEW s \in 1 .. Len(d.table), NEW i \in 1 .. Len(d.table[s])
        PROVE  d.table[s][i] \in Contents(d)
    BY <1>3, <1>4, Zenon DEF Contents
  <1>5. Len(d.table) \in Nat /\ \A s \in 1 .. Len(d.table) : Len(d.table[s]) \in Nat
    BY <1>1, <1>2
  <1>. QED
    BY <1>1, <1>2, <1>3, <1>4, <1>5, Zenon

(* dictFind finds the entry of the key, if there is one.                   *)
LEMMA FindHeld ==
  ASSUME NEW d, IsDict(d), NEW e \in Contents(d)
  PROVE  /\ d.table # <<>> /\ Slot(d, e.key) \in 1 .. Len(d.table)
         /\ Position(d, e.key) \in 1 .. Len(Chain(d, e.key))
         /\ Chain(d, e.key)[Position(d, e.key)] = e
         /\ dictFind(d, e.key) = e.val
  <1>1. PICK s \in 1 .. Len(d.table) : \E i \in 1 .. Len(d.table[s]) : d.table[s][i] = e
    BY DEF Contents
  <1>2. PICK i \in 1 .. Len(d.table[s]) : d.table[s][i] = e
    BY <1>1
  <1>3. Slot(d, e.key) = s /\ e \in Entry
    BY <1>2 DEF IsDict, Contents
  <1>4. Chain(d, e.key) = d.table[s]
    BY <1>3 DEF Chain
  <1>5. d.table \in Seq(Seq(Entry)) /\ d.table # <<>>
    BY <1>1, DictParts
  <1>. DEFINE c == d.table[s]
              k == e.key
              I == {j \in 1 .. Len(c) : c[j].key = k}
  <1>6. I = {i}
    BY <1>2 DEF IsDict
  <1>7. i \in Nat
    BY <1>1, DictParts
  <1>8. Min(I) = i
    <2>0. i \in I /\ \A y \in I : i <= y
      <3>. HIDE DEF I
      <3>. QED
        BY <1>6, <1>7
    <2>1. \E x \in I : \A y \in I : x <= y
      <3>. HIDE DEF I
      <3>. QED
        BY <2>0
    <2>2. Min(I) \in I
      BY <2>1 DEF Min
    <2>. QED
      BY <1>6, <2>2
  <1>9. Position(d, k) = i
    <2>1. Position(d, k) = SelectInSeq(c, LAMBDA x : x.key = k)
      BY <1>4, <1>5 DEF Position
    <2>2. SelectInSeq(c, LAMBDA x : x.key = k) = IF I # {} THEN Min(I) ELSE 0
      BY DEF SelectInSeq
    <2>. QED
      BY <1>6, <1>8, <2>1, <2>2
  <1>10. Position(d, k) # 0
    BY <1>1, <1>2, <1>9, DictParts
  <1>. QED
    BY <1>1, <1>2, <1>3, <1>4, <1>5, <1>9, <1>10 DEF dictFind

(* A key without an entry is not found.                                    *)
LEMMA FindNone ==
  ASSUME NEW d, IsDict(d), NEW n \in Names, \A e \in Contents(d) : e.key # n
  PROVE  Position(d, n) = 0 /\ dictFind(d, n) = None
  <1>1. Position(d, n) = 0
    <2>1. CASE d.table = <<>>
      BY <2>1 DEF Position
    <2>2. CASE d.table # <<>>
      <3>. DEFINE c == Chain(d, n)
                  I == {j \in 1 .. Len(c) : c[j].key = n}
      <3>1. Len(d.table) \in Nat \ {0}
        BY <2>2, DictParts
      <3>2. Slot(d, n) \in 1 .. Len(d.table)
        BY <3>1, SlotInTable
      <3>3. I = {}
        BY <3>2, DictParts DEF Chain
      <3>4. Position(d, n) = SelectInSeq(c, LAMBDA x : x.key = n)
        BY <2>2 DEF Position
      <3>5. SelectInSeq(c, LAMBDA x : x.key = n) = IF I # {} THEN Min(I) ELSE 0
        BY DEF SelectInSeq
      <3>. QED
        BY <3>3, <3>4, <3>5
    <2>. QED
      BY <2>1, <2>2
  <1>. QED
    BY <1>1 DEF dictFind

(* No key is held twice.                                                   *)
LEMMA OneEntry ==
  ASSUME NEW d, IsDict(d), NEW e \in Contents(d), NEW x \in Contents(d), e.key = x.key
  PROVE  e = x
  BY FindHeld

(* A position says whether the key is held.                                *)
LEMMA HeldOrNot ==
  ASSUME NEW d, IsDict(d), NEW n \in Names
  PROVE  /\ Position(d, n) = 0 => \A e \in Contents(d) : e.key # n
         /\ Position(d, n) # 0 => \E e \in Contents(d) : e.key = n
  <1>1. CASE \A e \in Contents(d) : e.key # n
    BY <1>1, FindNone
  <1>2. CASE \E e \in Contents(d) : e.key = n
    <2>1. PICK e \in Contents(d) : e.key = n
      BY <1>2
    <2>2. Position(d, n) \in 1 .. Len(Chain(d, n)) /\ Slot(d, n) \in 1 .. Len(d.table)
      BY <2>1, FindHeld
    <2>3. Len(Chain(d, n)) \in Nat
      BY <2>2, DictParts DEF Chain
    <2>4. Position(d, n) # 0
      BY <2>2, <2>3
    <2>. QED
      BY <2>1, <2>4
  <1>. QED
    BY <1>1, <1>2
WithChain(d, t, c, u) == [table |-> [d.table EXCEPT ![t] = c], used |-> u]

(* A table with one chain replaced by another for the same slot.           *)
LEMMA ChainReplaced ==
  ASSUME NEW d, IsDict(d), NEW t \in 1 .. Len(d.table), NEW c \in Seq(Entry), NEW u \in Int,
         \A i \in 1 .. Len(c) : Slot(d, c[i].key) = t,
         \A i, j \in 1 .. Len(c) : c[i].key = c[j].key => i = j
  PROVE  /\ IsDict(WithChain(d, t, c, u)) /\ Len(WithChain(d, t, c, u).table) = Len(d.table)
         /\ Contents(WithChain(d, t, c, u)) = {x \in Contents(d) : Slot(d, x.key) # t}
                             \cup {c[i] : i \in 1 .. Len(c)}
  <1>. DEFINE r == WithChain(d, t, c, u)
  <1>1. d.table \in Seq(Seq(Entry)) /\ Len(d.table) \in Nat
    BY DictParts
  <1>0. r = [table |-> [d.table EXCEPT ![t] = c], used |-> u]
    BY DEF WithChain
  <1>. HIDE DEF r
  <1>2. /\ r.table \in Seq(Seq(Entry)) /\ Len(r.table) = Len(d.table) /\ r.used = u
        /\ r.table[t] = c /\ \A s \in 1 .. Len(d.table) : s # t => r.table[s] = d.table[s]
    BY <1>0, <1>1
  <1>3. \A n : Slot(r, n) = Slot(d, n)
    BY <1>2 DEF Slot
  <1>4. r \in [table : Seq(Seq(Entry)), used : Int]
    BY <1>0, <1>2
  <1>5. IsDict(r)
    <2>1. ASSUME NEW s \in 1 .. Len(r.table), NEW i \in 1 .. Len(r.table[s])
          PROVE  Slot(r, r.table[s][i].key) = s
      <3>1. CASE s = t
        BY <1>2, <1>3, <3>1
      <3>2. CASE s # t
        <4>1. r.table[s] = d.table[s] /\ s \in 1 .. Len(d.table)
          BY <1>2, <3>2
        <4>2. Slot(d, d.table[s][i].key) = s
          BY <4>1 DEF IsDict
        <4>. QED
          BY <1>3, <4>1, <4>2
      <3>. QED
        BY <3>1, <3>2
    <2>2. ASSUME NEW s \in 1 .. Len(r.table), NEW i \in 1 .. Len(r.table[s]),
                 NEW j \in 1 .. Len(r.table[s]), r.table[s][i].key = r.table[s][j].key
          PROVE  i = j
      <3>1. CASE s = t
        BY <1>2, <2>2, <3>1
      <3>2. CASE s # t
        <4>1. r.table[s] = d.table[s] /\ s \in 1 .. Len(d.table)
          BY <1>2, <3>2
        <4>. QED
          BY <2>2, <4>1 DEF IsDict
      <3>. QED
        BY <3>1, <3>2
    <2>. QED
      BY <1>4, <2>1, <2>2 DEF IsDict
  <1>6. ASSUME NEW x \in Contents(r)
        PROVE  x \in {y \in Contents(d) : Slot(d, y.key) # t} \cup {c[i] : i \in 1 .. Len(c)}
    <2>1. PICK s \in 1 .. Len(r.table) : \E i \in 1 .. Len(r.table[s]) : r.table[s][i] = x
      BY DEF Contents
    <2>2. CASE s = t
      BY <1>2, <2>1, <2>2
    <2>3. CASE s # t
      <3>1. r.table[s] = d.table[s] /\ s \in 1 .. Len(d.table)
        BY <1>2, <2>1, <2>3
      <3>2. PICK i \in 1 .. Len(d.table[s]) : d.table[s][i] = x
        BY <2>1, <3>1
      <3>3. Slot(d, x.key) = s /\ x \in Contents(d)
        BY <3>1, <3>2, DictParts DEF IsDict
      <3>. QED
        BY <2>3, <3>3
    <2>. QED
      BY <2>2, <2>3
  <1>7. ASSUME NEW x \in Contents(d), Slot(d, x.key) # t PROVE x \in Contents(r)
    <2>1. PICK s \in 1 .. Len(d.table) : \E i \in 1 .. Len(d.table[s]) : d.table[s][i] = x
      BY DEF Contents
    <2>2. Slot(d, x.key) = s /\ x \in Entry
      BY <2>1 DEF IsDict, Contents
    <2>3. r.table[s] = d.table[s] /\ s \in 1 .. Len(r.table)
      BY <1>2, <1>7, <2>2
    <2>. QED
      BY <2>1, <2>2, <2>3 DEF Contents
  <1>8. ASSUME NEW i \in 1 .. Len(c) PROVE c[i] \in Contents(r)
    <2>1. t \in 1 .. Len(r.table) /\ r.table[t] = c /\ c[i] \in Entry
      BY <1>2
    <2>. QED
      BY <2>1 DEF Contents
  <1>9. Contents(r) \subseteq {x \in Contents(d) : Slot(d, x.key) # t}
                                 \cup {c[i] : i \in 1 .. Len(c)}
    BY <1>6
  <1>10. {x \in Contents(d) : Slot(d, x.key) # t} \cup {c[i] : i \in 1 .. Len(c)}
            \subseteq Contents(r)
    BY <1>7, <1>8
  <1>. QED
    BY <1>2, <1>5, <1>9, <1>10 DEF r

(* The contents of the chain at one slot.                                  *)
LEMMA InChain ==
  ASSUME NEW d, IsDict(d), NEW t \in 1 .. Len(d.table)
  PROVE  {x \in Contents(d) : Slot(d, x.key) = t}
            = {d.table[t][i] : i \in 1 .. Len(d.table[t])}
  <1>1. ASSUME NEW x \in Contents(d), Slot(d, x.key) = t
        PROVE  \E i \in 1 .. Len(d.table[t]) : x = d.table[t][i]
    <2>1. PICK s \in 1 .. Len(d.table) : \E i \in 1 .. Len(d.table[s]) : d.table[s][i] = x
      BY DEF Contents
    <2>2. s = t
      BY <1>1, <2>1 DEF IsDict
    <2>. QED
      BY <2>1, <2>2
  <1>2. ASSUME NEW i \in 1 .. Len(d.table[t])
        PROVE  d.table[t][i] \in Contents(d) /\ Slot(d, d.table[t][i].key) = t
    BY DictParts DEF IsDict
  <1>. QED
    BY <1>1, <1>2

(* An entry with a new key, linked at the head of its chain.               *)
LEMMA LinkHolds ==
  ASSUME NEW d, IsDict(d), d.table # <<>>, NEW e \in Entry,
         \A x \in Contents(d) : x.key # e.key
  PROVE  /\ IsDict(Link(d, e)) /\ Len(Link(d, e).table) = Len(d.table)
         /\ Contents(Link(d, e)) = Contents(d) \cup {e}
  <1>. DEFINE t == Slot(d, e.key)
              c == <<e>> \o d.table[t]
              r == Link(d, e)
  <1>1. d \in [table : Seq(Seq(Entry)), used : Int] /\ Len(d.table) \in Nat \ {0}
    BY DictParts DEF IsDict
  <1>2. e.key \in Names
    BY DEF Entry
  <1>3. t \in 1 .. Len(d.table)
    BY <1>1, <1>2, SlotInTable
  <1>4. d.table[t] \in Seq(Entry) /\ Len(d.table[t]) \in Nat
    BY <1>3, DictParts
  <1>5. r = WithChain(d, t, c, d.used + 1)
    BY DEF Link, WithChain
  <1>. HIDE DEF t, r
  <1>6. /\ c \in Seq(Entry) /\ Len(c) = Len(d.table[t]) + 1 /\ c[1] = e
        /\ \A i \in 1 .. Len(d.table[t]) : c[1 + i] = d.table[t][i]
    <2>1. <<e>> \in Seq(Entry) /\ Len(<<e>>) = 1 /\ <<e>>[1] = e
      OBVIOUS
    <2>. QED
      BY <1>4, <2>1, JoinedEntries
  <1>. HIDE DEF c
  <1>7. \A i \in 1 .. Len(c) : i # 1 => /\ i - 1 \in 1 .. Len(d.table[t])
                                        /\ c[i] = d.table[t][i - 1]
    <2>1. ASSUME NEW i \in 1 .. Len(c), i # 1
          PROVE  i - 1 \in 1 .. Len(d.table[t]) /\ 1 + (i - 1) = i
      BY <1>4, <1>6, <2>1
    <2>. QED
      BY <1>6, <2>1
  <1>8. \A i \in 1 .. Len(d.table[t]) :
          d.table[t][i] \in Contents(d) /\ Slot(d, d.table[t][i].key) = t
    BY <1>3, DictParts DEF IsDict
  <1>0. \A i, j \in 1 .. Len(d.table[t]) :
          d.table[t][i].key = d.table[t][j].key => i = j
    BY <1>3 DEF IsDict
  <1>9. ASSUME NEW i \in 1 .. Len(c) PROVE Slot(d, c[i].key) = t
    <2>1. CASE i = 1
      <3>1. c[i] = e
        BY <1>6, <2>1
      <3>. QED
        BY <3>1 DEF t
    <2>2. CASE i # 1
      BY <1>7, <1>8, <2>2, Zenon
    <2>. QED
      BY <2>1, <2>2
  <1>10. ASSUME NEW i \in 1 .. Len(c), NEW j \in 1 .. Len(c), c[i].key = c[j].key PROVE i = j
    <2>1. CASE i = 1 \/ j = 1
      BY <1>6, <1>7, <1>8, <1>10, <2>1
    <2>2. CASE i # 1 /\ j # 1
      <3>0. /\ i - 1 \in 1 .. Len(d.table[t]) /\ c[i] = d.table[t][i - 1]
            /\ j - 1 \in 1 .. Len(d.table[t]) /\ c[j] = d.table[t][j - 1]
        BY <1>7, <2>2
      <3>1. i - 1 = j - 1
        BY <1>0, <1>10, <3>0, Zenon
      <3>. QED
        BY <1>4, <1>6, <3>1
    <2>. QED
      BY <2>1, <2>2
  <1>11. /\ IsDict(r) /\ Len(r.table) = Len(d.table)
         /\ Contents(r) = {x \in Contents(d) : Slot(d, x.key) # t}
                             \cup {c[i] : i \in 1 .. Len(c)}
    <2>1. t \in 1 .. Len(d.table) /\ c \in Seq(Entry) /\ d.used + 1 \in Int
      BY <1>1, <1>3, <1>6
    <2>2. \A i, j \in 1 .. Len(c) : c[i].key = c[j].key => i = j
      BY <1>10
    <2>. QED
      BY <1>5, <1>9, <2>1, <2>2, ChainReplaced
  <1>12. {c[i] : i \in 1 .. Len(c)} = {e} \cup {d.table[t][i] : i \in 1 .. Len(d.table[t])}
    <2>1. 1 \in 1 .. Len(c) /\ \A i \in 1 .. Len(d.table[t]) : 1 + i \in 1 .. Len(c)
      BY <1>4, <1>6
    <2>2. \A i \in 1 .. Len(c) : c[i] = e \/ \E j \in 1 .. Len(d.table[t]) : c[i] = d.table[t][j]
      BY <1>6, <1>7
    <2>3. \A j \in 1 .. Len(d.table[t]) : \E i \in 1 .. Len(c) : c[i] = d.table[t][j]
      BY <1>6, <2>1
    <2>4. {c[i] : i \in 1 .. Len(c)}
             \subseteq {e} \cup {d.table[t][i] : i \in 1 .. Len(d.table[t])}
      BY <2>2
    <2>5. e \in {c[i] : i \in 1 .. Len(c)}
      BY <1>6, <2>1
    <2>6. {d.table[t][i] : i \in 1 .. Len(d.table[t])} \subseteq {c[i] : i \in 1 .. Len(c)}
      BY <2>3
    <2>. QED
      BY <2>4, <2>5, <2>6
  <1>13. {x \in Contents(d) : Slot(d, x.key) = t}
            = {d.table[t][i] : i \in 1 .. Len(d.table[t])}
    BY <1>3, InChain
  <1>14. Contents(r) = Contents(d) \cup {e}
    BY <1>11, <1>12, <1>13
  <1>. QED
    BY <1>11, <1>14 DEF r

(* Tables that agree on a key find the same.                               *)
LEMMA SameFind ==
  ASSUME NEW d, IsDict(d), NEW r, IsDict(r), NEW n \in Names,
         \A x \in Entry : x.key = n => (x \in Contents(d) <=> x \in Contents(r))
  PROVE  dictFind(r, n) = dictFind(d, n)
  <1>1. Contents(d) \subseteq Entry /\ Contents(r) \subseteq Entry
    BY DEF Contents
  <1>2. CASE \E x \in Contents(d) : x.key = n
    <2>1. PICK x \in Contents(d) : x.key = n
      BY <1>2
    <2>2. x \in Contents(r)
      BY <1>1, <2>1
    <2>. QED
      BY <2>1, <2>2, FindHeld
  <1>3. CASE \A x \in Contents(d) : x.key # n
    <2>1. \A x \in Contents(r) : x.key # n
      BY <1>1, <1>3
    <2>. QED
      BY <1>3, <2>1, FindNone
  <1>. QED
    BY <1>2, <1>3

(* The entry dictFind returns gets another value.                          *)
LEMMA UpdateHolds ==
  ASSUME NEW d, IsDict(d), NEW n \in Names, NEW v \in Nat, Position(d, n) # 0,
         NEW r, r = [table |-> [d.table EXCEPT ![Slot(d, n)] =
                                   [@ EXCEPT ![Position(d, n)] = [key |-> n, val |-> v]]],
                     used |-> d.used]
  PROVE  /\ IsDict(r)
         /\ Contents(r) = {x \in Contents(d) : x.key # n} \cup {[key |-> n, val |-> v]}
  <1>. DEFINE t == Slot(d, n)
              p == Position(d, n)
              s == d.table[t]
              y == [key |-> n, val |-> v]
              c == [s EXCEPT ![p] = y]
  <1>1. PICK e \in Contents(d) : e.key = n
    BY HeldOrNot
  <1>2. t \in 1 .. Len(d.table) /\ p \in 1 .. Len(s) /\ s[p] = e
    BY <1>1, FindHeld DEF Chain
  <1>3. s \in Seq(Entry) /\ d.used \in Int /\ Len(s) \in Nat
    BY <1>2, DictParts
  <1>4. y \in Entry /\ y.key = n
    BY DEF Entry
  <1>5. r = WithChain(d, t, c, d.used)
    BY DEF WithChain
  <1>a. /\ \A i \in 1 .. Len(s) : s[i] \in Contents(d) /\ Slot(d, s[i].key) = t
        /\ \A i, j \in 1 .. Len(s) : s[i].key = s[j].key => i = j
    BY <1>2, DictParts DEF IsDict
  <1>b. {x \in Contents(d) : Slot(d, x.key) = t} = {s[i] : i \in 1 .. Len(s)}
    BY <1>2, InChain
  <1>. HIDE DEF y, s, p
  <1>6. c \in Seq(Entry) /\ Len(c) = Len(s)
        /\ c[p] = y /\ \A i \in 1 .. Len(s) : i # p => c[i] = s[i]
    BY <1>2, <1>3, <1>4
  <1>. HIDE DEF c
  <1>7. \A i \in 1 .. Len(s) : c[i].key = s[i].key
    BY <1>1, <1>2, <1>4, <1>6
  <1>8. \A i \in 1 .. Len(c) : Slot(d, c[i].key) = t
    BY <1>6, <1>7, <1>a DEF t
  <1>9. \A i, j \in 1 .. Len(c) : c[i].key = c[j].key => i = j
    BY <1>6, <1>7, <1>a
  <1>. HIDE DEF t
  <1>10. /\ IsDict(r)
         /\ Contents(r) = {x \in Contents(d) : Slot(d, x.key) # t}
                             \cup {c[i] : i \in 1 .. Len(c)}
    <2>1. t \in 1 .. Len(d.table) /\ c \in Seq(Entry) /\ d.used \in Int
      BY <1>2, <1>3, <1>6
    <2>2. /\ IsDict(WithChain(d, t, c, d.used))
          /\ Contents(WithChain(d, t, c, d.used))
                = {x \in Contents(d) : Slot(d, x.key) # t} \cup {c[i] : i \in 1 .. Len(c)}
      BY <1>8, <1>9, <2>1, ChainReplaced
    <2>. QED
      BY <1>5, <2>2
  <1>11. ASSUME NEW x PROVE x \in Contents(r) <=>
            x \in {z \in Contents(d) : z.key # n} \cup {y}
    <2>1. CASE x \in Contents(d) /\ Slot(d, x.key) # t
      <3>1. x.key # n
        BY <2>1 DEF t
      <3>. QED
        BY <1>10, <2>1, <3>1
    <2>2. ASSUME NEW i \in 1 .. Len(c), x = c[i]
          PROVE  x \in Contents(r) /\ x \in {z \in Contents(d) : z.key # n} \cup {y}
      <3>1. x \in Contents(r)
        BY <1>10, <2>2
      <3>2. CASE i = p
        BY <1>6, <2>2, <3>1, <3>2
      <3>3. CASE i # p
        <4>1. x = s[i] /\ i \in 1 .. Len(s)
          BY <1>6, <2>2, <3>3
        <4>2. x \in Contents(d) /\ x.key # s[p].key
          BY <1>2, <1>a, <3>3, <4>1
        <4>. QED
          BY <1>1, <1>2, <3>1, <4>2
      <3>. QED
        BY <3>2, <3>3
    <2>3. CASE x = y
      BY <1>2, <1>6, <1>10, <2>3
    <2>4. CASE x \in Contents(d) /\ x.key # n /\ Slot(d, x.key) = t
      <3>1. PICK i \in 1 .. Len(s) : x = s[i]
        BY <1>b, <2>4
      <3>2. i # p
        BY <1>1, <1>2, <2>4, <3>1
      <3>3. c[i] = x /\ i \in 1 .. Len(c)
        BY <1>6, <3>1, <3>2
      <3>. QED
        BY <1>10, <2>4, <3>3
    <2>. QED
      BY <1>10, <2>1, <2>2, <2>3, <2>4
  <1>12. Contents(r) = {z \in Contents(d) : z.key # n} \cup {y}
    BY <1>11
  <1>. QED
    BY <1>10, <1>12 DEF y

(* dictDelete drops the entry of the key, if there is one.                 *)
LEMMA DeleteHolds ==
  ASSUME NEW d, IsDict(d), NEW n \in Names
  PROVE  /\ IsDict(dictDelete(d, n))
         /\ Contents(dictDelete(d, n)) = {x \in Contents(d) : x.key # n}
  <1>1. CASE Position(d, n) = 0
    <2>1. dictDelete(d, n) = d
      BY <1>1 DEF dictDelete
    <2>2. \A x \in Contents(d) : x.key # n
      BY <1>1, HeldOrNot
    <2>. QED
      BY <2>1, <2>2
  <1>2. CASE Position(d, n) # 0
    <2>. DEFINE t == Slot(d, n)
                p == Position(d, n)
                s == d.table[t]
                c == Without(s, p)
                r == dictDelete(d, n)
    <2>1. PICK e \in Contents(d) : e.key = n
      BY <1>2, HeldOrNot
    <2>2. t \in 1 .. Len(d.table) /\ p \in 1 .. Len(s) /\ s[p] = e
      BY <2>1, FindHeld DEF Chain
    <2>3. s \in Seq(Entry) /\ d.used - 1 \in Int /\ Len(s) \in Nat
      BY <2>2, DictParts
    <2>4. r = WithChain(d, t, c, d.used - 1)
      BY <1>2 DEF dictDelete, RemoveAt, Without, WithChain
    <2>a. /\ \A i \in 1 .. Len(s) : s[i] \in Contents(d) /\ Slot(d, s[i].key) = t
          /\ \A i, j \in 1 .. Len(s) : s[i].key = s[j].key => i = j
      BY <2>2, DictParts DEF IsDict
    <2>b. {x \in Contents(d) : Slot(d, x.key) = t} = {s[i] : i \in 1 .. Len(s)}
      BY <2>2, InChain
    <2>. HIDE DEF s, p, r
    <2>5. c \in Seq(Entry) /\ Others(c, s, p)
      BY <2>2, <2>3, WithoutEntry, OthersStay
    <2>. HIDE DEF c
    <2>6. \A i \in 1 .. Len(c) : \E k \in 1 .. Len(s) : k # p /\ c[i] = s[k]
      BY <2>5 DEF Others
    <2>7. \A i \in 1 .. Len(c) : Slot(d, c[i].key) = t
      BY <2>6, <2>a DEF t
    <2>8. ASSUME NEW i \in 1 .. Len(c), NEW j \in 1 .. Len(c), c[i].key = c[j].key, i # j
          PROVE  FALSE
      <3>1. PICK k \in 1 .. Len(s), l \in 1 .. Len(s) : k # l /\ c[i] = s[k] /\ c[j] = s[l]
        BY <2>5, <2>8 DEF Others
      <3>. QED
        BY <2>8, <2>a, <3>1
    <2>. HIDE DEF t
    <2>9. /\ IsDict(r)
          /\ Contents(r) = {x \in Contents(d) : Slot(d, x.key) # t}
                              \cup {c[i] : i \in 1 .. Len(c)}
      <3>1. t \in 1 .. Len(d.table) /\ c \in Seq(Entry) /\ d.used - 1 \in Int
        BY <2>2, <2>3, <2>5
      <3>2. \A i, j \in 1 .. Len(c) : c[i].key = c[j].key => i = j
        BY <2>8
      <3>. QED
        BY <2>4, <2>7, <3>1, <3>2, ChainReplaced
    <2>10. ASSUME NEW x \in Contents(r) PROVE x \in Contents(d) /\ x.key # n
      <3>1. CASE x \in Contents(d) /\ Slot(d, x.key) # t
        BY <3>1 DEF t
      <3>2. ASSUME NEW i \in 1 .. Len(c), x = c[i] PROVE x \in Contents(d) /\ x.key # n
        <4>1. PICK k \in 1 .. Len(s) : k # p /\ c[i] = s[k]
          BY <2>6
        <4>. QED
          BY <2>1, <2>2, <2>a, <3>2, <4>1
      <3>. QED
        BY <2>9, <3>1, <3>2
    <2>11. ASSUME NEW x \in Contents(d), x.key # n PROVE x \in Contents(r)
      <3>1. CASE Slot(d, x.key) # t
        BY <2>9, <3>1
      <3>2. CASE Slot(d, x.key) = t
        <4>1. PICK k \in 1 .. Len(s) : x = s[k]
          BY <2>b, <3>2
        <4>2. k # p
          BY <2>1, <2>2, <2>11, <4>1
        <4>3. \E i \in 1 .. Len(c) : c[i] = s[k]
          BY <2>5, <4>2 DEF Others
        <4>. QED
          BY <2>9, <4>1, <4>3
      <3>. QED
        BY <3>1, <3>2
    <2>12. Contents(r) = {x \in Contents(d) : x.key # n}
      BY <2>10, <2>11
    <2>. QED
      BY <2>9, <2>12 DEF r
  <1>. QED
    BY <1>1, <1>2

(* The walk over the slots of a table exists.                              *)
LEMMA FlattenExists ==
  ASSUME NEW n \in Nat, NEW b
  PROVE  \E f : f = [i \in 1 .. n |-> IF i = 1 THEN b[i] ELSE f[i - 1] \o b[i]]
  <1>. DEFINE Good(f, m) == f = [i \in 1 .. m |-> IF i = 1 THEN b[i] ELSE f[i - 1] \o b[i]]
              T == {m \in Nat : \E f : Good(f, m)}
  <1>1. 0 \in T
    <2>1. Good([i \in 1 .. 0 |-> 0], 0)
      OBVIOUS
    <2>. QED
      BY <2>1
  <1>2. ASSUME NEW m \in T \cap Nat PROVE m + 1 \in T
    <2>1. PICK f : Good(f, m)
      OBVIOUS
    <2>. DEFINE g == [i \in 1 .. m + 1 |->
                        IF i = m + 1 THEN IF m = 0 THEN b[1] ELSE f[m] \o b[m + 1]
                        ELSE f[i]]
    <2>2. \A i \in 1 .. m : g[i] = f[i]
      OBVIOUS
    <2>3. g[m + 1] = IF m = 0 THEN b[1] ELSE f[m] \o b[m + 1]
      OBVIOUS
    <2>4. \A i \in 1 .. m : f[i] = IF i = 1 THEN b[i] ELSE f[i - 1] \o b[i]
      BY <2>1
    <2>5. g = [i \in 1 .. m + 1 |-> g[i]]
      OBVIOUS
    <2>. HIDE DEF g
    <2>6. \A i \in 1 .. m + 1 : g[i] = IF i = 1 THEN b[i] ELSE g[i - 1] \o b[i]
      <3>1. TAKE i \in 1 .. m + 1
      <3>2. CASE i = m + 1
        <4>1. CASE m = 0
          BY <2>3, <3>2, <4>1
        <4>2. CASE m # 0
          <5>1. m \in 1 .. m /\ i # 1 /\ i - 1 = m
            BY <3>2, <4>2
          <5>. QED
            BY <2>2, <2>3, <3>2, <4>2, <5>1
        <4>. QED
          BY <4>1, <4>2
      <3>3. CASE i # m + 1
        <4>1. i \in 1 .. m /\ (i # 1 => i - 1 \in 1 .. m)
          BY <3>3
        <4>. QED
          BY <2>2, <2>4, <4>1
      <3>. QED
        BY <3>2, <3>3
    <2>7. Good(g, m + 1)
      BY <2>5, <2>6
    <2>8. m + 1 \in Nat
      OBVIOUS
    <2>. HIDE DEF Good
    <2>. QED
      BY <2>7, <2>8
  <1>. HIDE DEF T
  <1>3. Nat \subseteq T
    BY <1>1, <1>2, NatSetInduction
  <1>4. n \in T
    BY <1>3
  <1>. QED
    BY <1>4 DEF T

(* The iterator comes by every entry of a table, once.                     *)
LEMMA EntriesOf ==
  ASSUME NEW d, IsDict(d)
  PROVE  /\ Entries(d) \in Seq(Entry)
         /\ \A x : x \in Contents(d) <=> \E i \in 1 .. Len(Entries(d)) : Entries(d)[i] = x
         /\ \A i, j \in 1 .. Len(Entries(d)) : Entries(d)[i].key = Entries(d)[j].key => i = j
  <1>. DEFINE b == d.table
              n == Len(b)
  <1>1. /\ b \in Seq(Seq(Entry)) /\ n \in Nat
        /\ \A s \in 1 .. n : b[s] \in Seq(Entry) /\ Len(b[s]) \in Nat
    BY DictParts
  <1>2. /\ \A s \in 1 .. n : \A i \in 1 .. Len(b[s]) : Slot(d, b[s][i].key) = s
        /\ \A s \in 1 .. n : \A i, j \in 1 .. Len(b[s]) : b[s][i].key = b[s][j].key => i = j
    BY DEF IsDict
  <1>3. \A x : x \in Contents(d) <=> \E s \in 1 .. n : \E i \in 1 .. Len(b[s]) : b[s][i] = x
    <2>1. \A s \in 1 .. n : \A i \in 1 .. Len(b[s]) : b[s][i] \in Entry
      BY <1>1
    <2>. QED
      BY <2>1 DEF Contents
  <1>4. CASE n = 0
    <2>1. Entries(d) = b /\ b = <<>>
      BY <1>1, <1>4 DEF Entries, FlattenSeq
    <2>2. <<>> \in Seq(Entry) /\ Len(<<>>) = 0
      OBVIOUS
    <2>. QED
      BY <1>3, <1>4, <2>1, <2>2
  <1>5. CASE n # 0
    <2>. DEFINE f == CHOOSE f : f = [i \in 1 .. n |-> IF i = 1 THEN b[i] ELSE f[i - 1] \o b[i]]
    <2>1. Entries(d) = f[n]
      BY <1>5 DEF Entries, FlattenSeq
    <2>. HIDE DEF n, b
    <2>2. f = [i \in 1 .. n |-> IF i = 1 THEN b[i] ELSE f[i - 1] \o b[i]]
      BY <1>1, FlattenExists
    <2>. HIDE DEF f
    <2>3. \A i \in 1 .. n : f[i] = IF i = 1 THEN b[i] ELSE f[i - 1] \o b[i]
      BY <2>2
    <2>. DEFINE Upto(m) ==
                  /\ f[m] \in Seq(Entry)
                  /\ \A x : (\E i \in 1 .. Len(f[m]) : f[m][i] = x) <=>
                              (\E s \in 1 .. m : \E i \in 1 .. Len(b[s]) : b[s][i] = x)
                  /\ \A i, j \in 1 .. Len(f[m]) : f[m][i].key = f[m][j].key => i = j
                T == {m \in Nat : m + 1 <= n => Upto(m + 1)}
    <2>4. 0 \in T
      <3>1. f[1] = b[1] /\ 1 \in 1 .. n /\ 1..1 = {1}
        BY <1>1, <1>5, <2>3
      <3>2. Upto(1)
        BY <1>1, <1>2, <3>1
      <3>3. 0 + 1 = 1 /\ 0 \in Nat
        OBVIOUS
      <3>. HIDE DEF Upto
      <3>. QED
        BY <3>2, <3>3
    <2>5. ASSUME NEW m \in T \cap Nat PROVE m + 1 \in T
      <3>. DEFINE k == m + 1
                  q == m + 2
      <3>1. SUFFICES ASSUME q <= n PROVE Upto(q)
        OBVIOUS
      <3>2. Upto(k)
        BY <1>1, <3>1
      <3>3. /\ k \in 1 .. n /\ q \in 1 .. n /\ q # 1 /\ q - 1 = k /\ k \in Nat
            /\ 1 .. q = 1 .. k \cup {q}
        BY <1>1, <3>1
      <3>. HIDE DEF k, q, T
      <3>4. f[q] = f[k] \o b[q]
        BY <2>3, <3>3
      <3>. DEFINE u == f[k]
                  v == b[q]
                  w == f[q]
      <3>5. u \in Seq(Entry) /\ v \in Seq(Entry) /\ Len(u) \in Nat /\ Len(v) \in Nat
        BY <1>1, <3>2, <3>3
      <3>a. w = u \o v
        BY <3>4
      <3>7. /\ \A x : (\E i \in 1 .. Len(u) : u[i] = x) <=>
                        (\E s \in 1 .. k : \E i \in 1 .. Len(b[s]) : b[s][i] = x)
            /\ \A i, j \in 1 .. Len(u) : u[i].key = u[j].key => i = j
        BY <3>2
      <3>v. /\ \A i \in 1 .. Len(v) : Slot(d, v[i].key) = q
            /\ \A i, j \in 1 .. Len(v) : v[i].key = v[j].key => i = j
        BY <1>2, <3>3
      <3>b. b[q] = v
        OBVIOUS
      <3>. HIDE DEF u, v, w
      <3>6. /\ w \in Seq(Entry) /\ Len(w) = Len(u) + Len(v)
            /\ \A i \in 1 .. Len(u) : w[i] = u[i]
            /\ \A i \in 1 .. Len(v) : w[Len(u) + i] = v[i]
        BY <3>5, <3>a, JoinedEntries
      <3>8. \A i \in 1 .. Len(w) :
              \/ i \in 1 .. Len(u) /\ w[i] = u[i]
              \/ i - Len(u) \in 1 .. Len(v) /\ w[i] = v[i - Len(u)]
        <4>1. TAKE i \in 1 .. Len(w)
        <4>2. CASE i <= Len(u)
          BY <3>5, <3>6, <4>2
        <4>3. CASE i > Len(u)
          <5>1. i - Len(u) \in 1 .. Len(v) /\ Len(u) + (i - Len(u)) = i
            BY <3>5, <3>6, <4>3
          <5>. QED
            BY <3>6, <5>1
        <4>. QED
          BY <3>5, <4>2, <4>3
      <3>9. ASSUME NEW i \in 1 .. Len(u), NEW j \in 1 .. Len(v) PROVE u[i].key # v[j].key
        <4>1. PICK s \in 1 .. k : \E l \in 1 .. Len(b[s]) : b[s][l] = u[i]
          BY <3>7
        <4>2. s \in 1 .. n /\ s # q
          BY <1>1, <3>3
        <4>3. Slot(d, u[i].key) = s
          BY <1>2, <4>1, <4>2
        <4>4. Slot(d, v[j].key) = q
          BY <3>v
        <4>. QED
          BY <4>2, <4>3, <4>4
      <3>10. ASSUME NEW i \in 1 .. Len(w), NEW j \in 1 .. Len(w), w[i].key = w[j].key
             PROVE  i = j
        <4>1. CASE i \in 1 .. Len(u) /\ w[i] = u[i] /\ j \in 1 .. Len(u) /\ w[j] = u[j]
          BY <3>7, <3>10, <4>1
        <4>2. CASE /\ i - Len(u) \in 1 .. Len(v) /\ w[i] = v[i - Len(u)]
                   /\ j - Len(u) \in 1 .. Len(v) /\ w[j] = v[j - Len(u)]
          <5>1. i - Len(u) = j - Len(u)
            BY <3>v, <3>10, <4>2
          <5>. QED
            BY <3>5, <3>6, <5>1
        <4>. QED
          BY <3>8, <3>9, <3>10, <4>1, <4>2
      <3>11. ASSUME NEW x, NEW i \in 1 .. Len(w), w[i] = x
             PROVE  \E s \in 1 .. q : \E j \in 1 .. Len(b[s]) : b[s][j] = x
        <4>1. CASE i \in 1 .. Len(u) /\ w[i] = u[i]
          <5>1. PICK s \in 1 .. k : \E j \in 1 .. Len(b[s]) : b[s][j] = x
            <6>1. \E j \in 1 .. Len(u) : u[j] = x
              BY <3>11, <4>1
            <6>. QED
              BY <3>7, <6>1
          <5>2. s \in 1 .. q
            BY <3>3
          <5>. QED
            BY <5>1, <5>2
        <4>2. CASE i - Len(u) \in 1 .. Len(v) /\ w[i] = v[i - Len(u)]
          <5>1. q \in 1 .. q
            BY <3>3
          <5>. QED
            BY <3>11, <3>b, <4>2, <5>1
        <4>. QED
          BY <3>8, <4>1, <4>2
      <3>12. ASSUME NEW x, NEW s \in 1 .. q, NEW j \in 1 .. Len(b[s]), b[s][j] = x
             PROVE  \E i \in 1 .. Len(w) : w[i] = x
        <4>1. CASE s \in 1 .. k
          <5>1. PICK i \in 1 .. Len(u) : u[i] = x
            BY <3>7, <3>12, <4>1
          <5>2. i \in 1 .. Len(w)
            BY <3>5, <3>6
          <5>. QED
            BY <3>6, <5>1, <5>2
        <4>2. CASE s = q
          <5>1. j \in 1 .. Len(v) /\ v[j] = x
            BY <3>12, <3>b, <4>2
          <5>2. Len(u) + j \in 1 .. Len(w)
            BY <3>5, <3>6, <5>1
          <5>. QED
            BY <3>6, <5>1, <5>2
        <4>. QED
          BY <3>3, <4>1, <4>2
      <3>13. \A x : (\E i \in 1 .. Len(w) : w[i] = x) <=>
                      (\E s \in 1 .. q : \E j \in 1 .. Len(b[s]) : b[s][j] = x)
        BY <3>11, <3>12
      <3>14. \A i, j \in 1 .. Len(w) : w[i].key = w[j].key => i = j
        BY <3>10
      <3>. QED
        BY <3>6, <3>13, <3>14 DEF w
    <2>. HIDE DEF T
    <2>6. Nat \subseteq T
      BY <2>4, <2>5, NatSetInduction
    <2>7. n - 1 \in T /\ (n - 1) + 1 = n
      BY <1>1, <1>5, <2>6
    <2>8. Upto(n)
      <3>1. (n - 1) + 1 <= n
        BY <1>1
      <3>. HIDE DEF Upto
      <3>2. Upto((n - 1) + 1)
        BY <2>7, <3>1 DEF T
      <3>. QED
        BY <2>7, <3>2
    <2>. QED
      BY <1>3, <2>1, <2>8
  <1>. QED
    BY <1>4, <1>5
\* The tables of an expansion, from z on.
AreMoved(f, n, z, es) == f = [i \in 0 .. n |-> IF i = 0 THEN z ELSE Link(f[i - 1], es[i])]

(* The tables of an expansion exist.                                       *)
LEMMA MovedExists ==
  ASSUME NEW n \in Nat, NEW z, NEW es
  PROVE  \E f : AreMoved(f, n, z, es)
  <1>. DEFINE Good(f, m) == f = [i \in 0 .. m |-> IF i = 0 THEN z ELSE Link(f[i - 1], es[i])]
              T == {m \in Nat : \E f : Good(f, m)}
  <1>1. 0 \in T
    <2>1. Good([i \in 0 .. 0 |-> z], 0)
      OBVIOUS
    <2>. QED
      BY <2>1
  <1>2. ASSUME NEW m \in T \cap Nat PROVE m + 1 \in T
    <2>1. PICK f : Good(f, m)
      OBVIOUS
    <2>. DEFINE g == [i \in 0 .. m + 1 |-> IF i = m + 1 THEN Link(f[m], es[m + 1]) ELSE f[i]]
    <2>2. \A i \in 0 .. m : g[i] = f[i]
      OBVIOUS
    <2>3. g[m + 1] = Link(f[m], es[m + 1])
      OBVIOUS
    <2>4. \A i \in 0 .. m : f[i] = IF i = 0 THEN z ELSE Link(f[i - 1], es[i])
      BY <2>1
    <2>5. g = [i \in 0 .. m + 1 |-> g[i]]
      OBVIOUS
    <2>. HIDE DEF g
    <2>6. \A i \in 0 .. m + 1 : g[i] = IF i = 0 THEN z ELSE Link(g[i - 1], es[i])
      <3>1. TAKE i \in 0 .. m + 1
      <3>2. CASE i = m + 1
        <4>1. m \in 0 .. m /\ i # 0 /\ i - 1 = m
          BY <3>2
        <4>. QED
          BY <2>2, <2>3, <3>2, <4>1
      <3>3. CASE i # m + 1
        <4>1. i \in 0 .. m /\ (i # 0 => i - 1 \in 0 .. m)
          BY <3>3
        <4>. QED
          BY <2>2, <2>4, <4>1
      <3>. QED
        BY <3>2, <3>3
    <2>7. Good(g, m + 1)
      BY <2>5, <2>6
    <2>8. m + 1 \in Nat
      OBVIOUS
    <2>. HIDE DEF Good
    <2>. QED
      BY <2>7, <2>8
  <1>. HIDE DEF T
  <1>3. Nat \subseteq T
    BY <1>1, <1>2, NatSetInduction
  <1>4. n \in T
    BY <1>3
  <1>. QED
    BY <1>4 DEF T, AreMoved

(* A table without entries.                                                *)
LEMMA EmptyDict ==
  ASSUME NEW size \in Nat, NEW z,
         z = [table |-> [s \in 1 .. size |-> <<>>], used |-> 0]
  PROVE  IsDict(z) /\ Len(z.table) = size /\ Contents(z) = {}
  <1>1. <<>> \in Seq(Entry) /\ Len(<<>>) = 0
    OBVIOUS
  <1>2. /\ z.table \in Seq(Seq(Entry)) /\ Len(z.table) = size /\ z.used = 0
        /\ \A s \in 1 .. size : z.table[s] = <<>>
    <2>1. z.table \in [1 .. size -> Seq(Entry)]
      BY <1>1
    <2>. QED
      BY <2>1
  <1>3. z \in [table : Seq(Seq(Entry)), used : Int]
    BY <1>2
  <1>4. \A s \in 1 .. Len(z.table) : \A i \in 1 .. Len(z.table[s]) : FALSE
    BY <1>1, <1>2
  <1>. QED
    BY <1>2, <1>3, <1>4 DEF IsDict, Contents

(* Entries with different keys, linked one after the other.                *)
LEMMA MovedHolds ==
  ASSUME NEW es \in Seq(Entry), NEW size \in Nat \ {0},
         \A i, j \in 1 .. Len(es) : es[i].key = es[j].key => i = j
  PROVE  /\ IsDict(Moved(es, size)) /\ Len(Moved(es, size).table) = size
         /\ \A x : x \in Contents(Moved(es, size)) <=> \E i \in 1 .. Len(es) : es[i] = x
  <1>. DEFINE n == Len(es)
              z == [table |-> [s \in 1 .. size |-> <<>>], used |-> 0]
              f == CHOOSE f : f = [i \in 0 .. n |-> IF i = 0 THEN z ELSE Link(f[i - 1], es[i])]
  <1>1. n \in Nat /\ \A i \in 1 .. n : es[i] \in Entry
    OBVIOUS
  <1>2. Moved(es, size) = f[n]
    BY DEF Moved
  <1>3. IsDict(z) /\ Len(z.table) = size /\ Contents(z) = {}
    BY EmptyDict
  <1>. HIDE DEF z, n
  <1>4. f = [i \in 0 .. n |-> IF i = 0 THEN z ELSE Link(f[i - 1], es[i])]
    <2>1. \E g : AreMoved(g, n, z, es)
      BY <1>1, MovedExists
    <2>. QED
      BY <2>1 DEF AreMoved
  <1>. HIDE DEF f
  <1>5. \A i \in 0 .. n : f[i] = IF i = 0 THEN z ELSE Link(f[i - 1], es[i])
    BY <1>4
  <1>. DEFINE Upto(m) ==
                /\ IsDict(f[m]) /\ Len(f[m].table) = size
                /\ \A x : x \in Contents(f[m]) <=> \E i \in 1 .. m : es[i] = x
              T == {m \in Nat : m <= n => Upto(m)}
  <1>6. 0 \in T
    <2>1. f[0] = z /\ 1 .. 0 = {} /\ 0 \in Nat
      BY <1>1, <1>5
    <2>2. Upto(0)
      BY <1>3, <2>1
    <2>. HIDE DEF Upto
    <2>. QED
      BY <2>1, <2>2
  <1>7. ASSUME NEW m \in T \cap Nat PROVE m + 1 \in T
    <2>1. SUFFICES ASSUME m + 1 <= n PROVE Upto(m + 1)
      OBVIOUS
    <2>2. Upto(m)
      BY <1>1, <2>1
    <2>. DEFINE k == m + 1
    <2>3. k \in 1 .. n /\ k \in 0 .. n /\ k # 0 /\ k - 1 = m /\ 1 .. k = 1 .. m \cup {k}
          /\ k \notin 1 .. m /\ 1 .. m \subseteq 1 .. n
      BY <1>1, <2>1
    <2>. HIDE DEF k, T
    <2>4. f[k] = Link(f[m], es[k])
      BY <1>5, <2>3
    <2>5. es[k] \in Entry /\ \A i \in 1 .. m : es[i].key # es[k].key
      BY <1>1, <2>3 DEF n
    <2>6. \A x \in Contents(f[m]) : x.key # es[k].key
      BY <2>2, <2>5
    <2>7. f[m].table # <<>>
      BY <2>2
    <2>8. /\ IsDict(f[k]) /\ Len(f[k].table) = size
          /\ Contents(f[k]) = Contents(f[m]) \cup {es[k]}
      BY <2>2, <2>4, <2>5, <2>6, <2>7, LinkHolds
    <2>9. ASSUME NEW x PROVE x \in Contents(f[k]) <=> \E i \in 1 .. k : es[i] = x
      BY <2>2, <2>3, <2>8
    <2>. QED
      BY <2>8, <2>9 DEF k
  <1>. HIDE DEF T
  <1>8. Nat \subseteq T
    BY <1>6, <1>7, NatSetInduction
  <1>9. Upto(n)
    <2>1. n \in T /\ n <= n
      BY <1>1, <1>8
    <2>. HIDE DEF Upto
    <2>. QED
      BY <2>1 DEF T
  <1>. QED
    BY <1>2, <1>9 DEF n

(* An expansion keeps the contents.                                        *)
LEMMA ExpandHolds ==
  ASSUME NEW d, IsDict(d)
  PROVE  /\ IsDict(_dictExpandIfNeeded(d)) /\ _dictExpandIfNeeded(d).table # <<>>
         /\ Contents(_dictExpandIfNeeded(d)) = Contents(d)
  <1>1. Len(d.table) \in Nat /\ d.table \in Seq(Seq(Entry))
    BY DictParts
  <1>2. ASSUME NEW size \in Nat \ {0}
        PROVE  /\ IsDict(dictExpand(d, size)) /\ dictExpand(d, size).table # <<>>
               /\ Contents(dictExpand(d, size)) = Contents(d)
    <2>. DEFINE es == Entries(d)
    <2>1. /\ es \in Seq(Entry)
          /\ \A x : x \in Contents(d) <=> \E i \in 1 .. Len(es) : es[i] = x
          /\ \A i, j \in 1 .. Len(es) : es[i].key = es[j].key => i = j
      BY EntriesOf
    <2>2. dictExpand(d, size) = Moved(es, size)
      BY DEF dictExpand
    <2>. HIDE DEF es
    <2>3. /\ IsDict(Moved(es, size)) /\ Len(Moved(es, size).table) = size
          /\ \A x : x \in Contents(Moved(es, size)) <=> \E i \in 1 .. Len(es) : es[i] = x
      BY <2>1, MovedHolds
    <2>4. Contents(Moved(es, size)) = Contents(d)
      BY <2>1, <2>3
    <2>5. Moved(es, size).table # <<>>
      BY <2>3
    <2>. QED
      BY <2>2, <2>3, <2>4, <2>5
  <1>3. InitialSize \in Nat \ {0}
    BY DictAssumption
  <1>4. CASE Len(d.table) = 0
    BY <1>2, <1>3, <1>4 DEF _dictExpandIfNeeded
  <1>5. CASE Len(d.table) # 0
    <2>1. Len(d.table) * 2 \in Nat \ {0} /\ d.table # <<>>
      BY <1>1, <1>5
    <2>2. CASE d.used = Len(d.table)
      <3>1. _dictExpandIfNeeded(d) = dictExpand(d, Len(d.table) * 2)
        BY <1>5, <2>2 DEF _dictExpandIfNeeded
      <3>. QED
        BY <1>2, <2>1, <3>1
    <2>3. CASE d.used # Len(d.table)
      <3>1. _dictExpandIfNeeded(d) = d
        BY <1>5, <2>3 DEF _dictExpandIfNeeded
      <3>. QED
        BY <2>1, <3>1
    <2>. QED
      BY <2>2, <2>3
  <1>. QED
    BY <1>4, <1>5

(* dictReplace sets one key and keeps the others, also when the table      *)
(* grows.                                                                  *)
LEMMA ReplaceFinds ==
  ASSUME NEW d, IsDict(d), NEW n \in Names, NEW v \in Nat
  PROVE  /\ IsDict(dictReplace(d, n, v)) /\ dictFind(dictReplace(d, n, v), n) = v
         /\ \A m \in Names : m # n => dictFind(dictReplace(d, n, v), m) = dictFind(d, m)
  <1>. DEFINE e == _dictExpandIfNeeded(d)
              r == dictReplace(d, n, v)
              y == [key |-> n, val |-> v]
  <1>1. IsDict(e) /\ e.table # <<>> /\ Contents(e) = Contents(d)
    BY ExpandHolds
  <1>2. y \in Entry /\ y.key = n /\ y.val = v
    BY DEF Entry
  <1>3. r = IF Position(e, n) = 0 THEN Link(e, y)
            ELSE [table |-> [e.table EXCEPT ![Slot(e, n)] = [@ EXCEPT ![Position(e, n)] = y]],
                  used |-> e.used]
    BY DEF dictReplace
  <1>. HIDE DEF e, r
  <1>4. /\ IsDict(r)
        /\ Contents(r) = {x \in Contents(d) : x.key # n} \cup {y}
    <2>1. CASE Position(e, n) = 0
      <3>1. \A x \in Contents(e) : x.key # n
        BY <1>1, <2>1, HeldOrNot
      <3>2. r = Link(e, y)
        BY <1>3, <2>1
      <3>. HIDE DEF y
      <3>3. IsDict(r) /\ Contents(r) = Contents(e) \cup {y}
        BY <1>1, <1>2, <3>1, <3>2, LinkHolds
      <3>. QED
        BY <1>1, <3>1, <3>3
    <2>2. CASE Position(e, n) # 0
      <3>1. r = [table |-> [e.table EXCEPT ![Slot(e, n)] = [@ EXCEPT ![Position(e, n)] = y]],
                 used |-> e.used]
        BY <1>3, <2>2
      <3>2. IsDict(r) /\ Contents(r) = {x \in Contents(e) : x.key # n} \cup {y}
        BY <1>1, <2>2, <3>1, UpdateHolds
      <3>. QED
        BY <1>1, <3>2
    <2>. QED
      BY <2>1, <2>2
  <1>. HIDE DEF y
  <1>5. dictFind(r, n) = v
    BY <1>2, <1>4, FindHeld
  <1>6. ASSUME NEW m \in Names, m # n PROVE dictFind(r, m) = dictFind(d, m)
    BY <1>2, <1>4, <1>6, SameFind
  <1>. QED
    BY <1>4, <1>5, <1>6 DEF r

(* dictDelete takes one key out and keeps the others.                      *)
LEMMA DeleteFinds ==
  ASSUME NEW d, IsDict(d), NEW n \in Names
  PROVE  /\ IsDict(dictDelete(d, n)) /\ dictFind(dictDelete(d, n), n) = None
         /\ \A m \in Names : m # n => dictFind(dictDelete(d, n), m) = dictFind(d, m)
  <1>. DEFINE r == dictDelete(d, n)
  <1>1. IsDict(r) /\ Contents(r) = {x \in Contents(d) : x.key # n}
    BY DeleteHolds
  <1>. HIDE DEF r
  <1>2. dictFind(r, n) = None
    BY <1>1, FindNone
  <1>3. ASSUME NEW m \in Names, m # n PROVE dictFind(r, m) = dictFind(d, m)
    BY <1>1, <1>3, SameFind
  <1>. QED
    BY <1>1, <1>2, <1>3 DEF r

(***************************************************************************)
(* Lists and lines.                                                        *)
(***************************************************************************)

\* t is s with e behind, s without its first.
Extends(t, s, e) ==
    /\ Len(t) = Len(s) + 1 /\ t[Len(s) + 1] = e
    /\ \A p \in 1 .. Len(s) : p \in 1 .. Len(t) /\ t[p] = s[p]
    /\ \A p \in 1 .. Len(t) : p = Len(s) + 1 \/ p \in 1 .. Len(s)

Shifts(t, s) ==
    /\ 1 \in 1 .. Len(s) /\ Len(t) = Len(s) - 1
    /\ \A p \in 1 .. Len(t) : p + 1 \in 1 .. Len(s) /\ t[p] = s[p + 1]
    /\ \A q \in 1 .. Len(s) : q = 1 \/ (q - 1 \in 1 .. Len(t) /\ t[q - 1] = s[q])

(* An entry more, or one less, at an end of a list.                        *)
LEMMA AppendExtends ==
  ASSUME NEW S, NEW s \in Seq(S), NEW e \in S
  PROVE  /\ Append(s, e) \in Seq(S) /\ Extends(Append(s, e), s, e)
         /\ Range(Append(s, e)) = Range(s) \cup {e}
  <1>. DEFINE t == Append(s, e)
  <1>1. /\ t \in Seq(S) /\ Len(t) = Len(s) + 1 /\ t[Len(s) + 1] = e /\ Len(s) \in Nat
        /\ \A p \in 1 .. Len(s) : t[p] = s[p]
    OBVIOUS
  <1>2. DOMAIN s = 1 .. Len(s) /\ DOMAIN t = 1 .. Len(t)
    BY <1>1
  <1>. HIDE DEF t
  <1>3. Extends(t, s, e)
    BY <1>1 DEF Extends
  <1>4. Range(t) = Range(s) \cup {e}
    <2>1. ASSUME NEW x \in Range(t) PROVE x \in Range(s) \cup {e}
      <3>1. PICK p \in 1 .. Len(t) : t[p] = x
        BY <1>2 DEF Range
      <3>. QED
        BY <1>2, <1>3, <3>1 DEF Range, Extends
    <2>2. ASSUME NEW x \in Range(s) PROVE x \in Range(t)
      <3>1. PICK p \in 1 .. Len(s) : s[p] = x
        BY <1>2 DEF Range
      <3>. QED
        BY <1>2, <1>3, <3>1 DEF Range, Extends
    <2>3. e \in Range(t)
      <3>1. Len(s) + 1 \in 1 .. Len(t)
        BY <1>1
      <3>. QED
        BY <1>1, <1>2, <3>1 DEF Range
    <2>. QED
      BY <2>1, <2>2, <2>3
  <1>. QED
    BY <1>1, <1>3, <1>4 DEF t

(* The list without its first entry.                                       *)
LEMMA TailShifts ==
  ASSUME NEW S, NEW s \in Seq(S), s # <<>>
  PROVE  /\ Tail(s) \in Seq(S) /\ Shifts(Tail(s), s) /\ Head(s) = s[1] /\ Head(s) \in S
         /\ Range(s) = {Head(s)} \cup Range(Tail(s))
  <1>. DEFINE t == Tail(s)
  <1>1. /\ t \in Seq(S) /\ Len(t) = Len(s) - 1 /\ Len(s) \in Nat \ {0} /\ Head(s) = s[1]
        /\ \A p \in 1 .. Len(t) : t[p] = s[p + 1]
    OBVIOUS
  <1>2. DOMAIN s = 1 .. Len(s) /\ DOMAIN t = 1 .. Len(t)
    BY <1>1
  <1>. HIDE DEF t
  <1>3. Shifts(t, s)
    <2>1. ASSUME NEW q \in 1 .. Len(s), q # 1
          PROVE  q - 1 \in 1 .. Len(t) /\ (q - 1) + 1 = q
      BY <1>1, <2>1
    <2>2. \A q \in 1 .. Len(s) : q # 1 => q - 1 \in 1 .. Len(t) /\ t[q - 1] = s[q]
      BY <1>1, <2>1
    <2>. QED
      BY <1>1, <2>2 DEF Shifts
  <1>4. Range(s) = {s[1]} \cup Range(t)
    <2>1. ASSUME NEW x \in Range(s) PROVE x \in {s[1]} \cup Range(t)
      <3>1. PICK p \in 1 .. Len(s) : s[p] = x
        BY <1>2 DEF Range
      <3>. QED
        BY <1>2, <1>3, <3>1 DEF Range, Shifts
    <2>2. ASSUME NEW x \in Range(t) PROVE x \in Range(s)
      <3>1. PICK p \in 1 .. Len(t) : t[p] = x
        BY <1>2 DEF Range
      <3>. QED
        BY <1>2, <1>3, <3>1 DEF Range, Shifts
    <2>3. s[1] \in Range(s)
      BY <1>2, <1>3 DEF Range, Shifts
    <2>. QED
      BY <2>1, <2>2, <2>3
  <1>5. s[1] \in S
    BY <1>3 DEF Shifts
  <1>. QED
    BY <1>1, <1>3, <1>4, <1>5 DEF t

(* The first of an increasing list is not behind it.                       *)
LEMMA FirstLeast ==
  ASSUME NEW s \in Seq(Ids), s # <<>>,
         \A p, q \in 1 .. Len(s) : p < q => s[p] < s[q]
  PROVE  /\ \A i \in Range(Tail(s)) : Head(s) < i
         /\ Head(s) \notin Range(Tail(s)) /\ Head(s) \in Ids
         /\ \A p, q \in 1 .. Len(Tail(s)) : p < q => Tail(s)[p] < Tail(s)[q]
  <1>. DEFINE t == Tail(s)
  <1>1. Shifts(t, s) /\ Head(s) = s[1] /\ t \in Seq(Ids) /\ Head(s) \in Ids
    BY TailShifts
  <1>2. DOMAIN t = 1 .. Len(t) /\ Len(t) \in Nat /\ Len(s) \in Nat
    BY <1>1
  <1>. HIDE DEF t
  <1>3. ASSUME NEW i \in Range(t) PROVE s[1] < i
    <2>1. PICK p \in 1 .. Len(t) : t[p] = i
      BY <1>2 DEF Range
    <2>2. p + 1 \in 1 .. Len(s) /\ 1 < p + 1 /\ s[p + 1] = i /\ 1 \in 1 .. Len(s)
      BY <1>1, <1>2, <2>1 DEF Shifts
    <2>. QED
      BY <2>2
  <1>4. s[1] \notin Range(t)
    <2>1. s[1] \in Nat
      BY <1>1 DEF Ids
    <2>. QED
      BY <1>3, <2>1
  <1>5. ASSUME NEW p \in 1 .. Len(t), NEW q \in 1 .. Len(t), p < q PROVE t[p] < t[q]
    <2>1. p + 1 \in 1 .. Len(s) /\ q + 1 \in 1 .. Len(s) /\ t[p] = s[p + 1] /\ t[q] = s[q + 1]
      BY <1>1 DEF Shifts
    <2>2. p + 1 < q + 1
      BY <1>2, <1>5
    <2>. QED
      BY <2>1, <2>2
  <1>. QED
    BY <1>1, <1>3, <1>4, <1>5 DEF t

\* The first n entries of b have moved to the end of a.
Moves(u, v, a, b, n) == u = a \o SubSeq(b, 1, n) /\ v = SubSeq(b, n + 1, Len(b))

(* What moves from the head of one list to the end of the other.           *)
LEMMA MoveAlong ==
  ASSUME NEW S, NEW a \in Seq(S), NEW b \in Seq(S), NEW n \in 1 .. Len(b), NEW u, NEW v,
         Moves(u, v, a, b, n)
  PROVE  u \in Seq(S) /\ v \in Seq(S) /\ u \o v = a \o b
  <1>. DEFINE x == SubSeq(b, 1, n)
              y == SubSeq(b, n + 1, Len(b))
  <1>1. Len(b) \in Nat /\ n \in Nat /\ n <= Len(b) /\ n \in 0 .. Len(b) /\ Len(a) \in Nat
    OBVIOUS
  <1>2. x \in Seq(S) /\ Len(x) = n /\ \A i \in 1 .. n : x[i] = b[i]
    BY <1>1
  <1>3. y \in Seq(S) /\ Len(y) = Len(b) - n /\ \A i \in 1 .. Len(b) - n : y[i] = b[n + i]
    BY <1>1, RestEntries
  <1>. HIDE DEF x, y
  <1>t. x \in Seq(S) /\ y \in Seq(S)
    BY <1>2, <1>3
  <1>. DEFINE w == a \o x
              l == w \o y
              r == a \o b
  <1>4. /\ w \in Seq(S) /\ Len(w) = Len(a) + Len(x)
        /\ \A i \in 1 .. Len(a) : w[i] = a[i]
        /\ \A i \in 1 .. Len(x) : w[Len(a) + i] = x[i]
    BY <1>t, JoinedEntries
  <1>5. /\ r \in Seq(S) /\ Len(r) = Len(a) + Len(b)
        /\ \A i \in 1 .. Len(a) : r[i] = a[i]
        /\ \A i \in 1 .. Len(b) : r[Len(a) + i] = b[i]
    BY JoinedEntries
  <1>. HIDE DEF w, r
  <1>6. /\ l \in Seq(S) /\ Len(l) = Len(w) + Len(y)
        /\ \A i \in 1 .. Len(w) : l[i] = w[i]
        /\ \A i \in 1 .. Len(y) : l[Len(w) + i] = y[i]
    <2>1. w \in Seq(S) /\ y \in Seq(S)
      BY <1>t, <1>4
    <2>. QED
      BY <2>1, JoinedEntries
  <1>. HIDE DEF l
  <1>7. Len(l) = Len(r) /\ Len(w) = Len(a) + n /\ Len(r) = Len(a) + Len(b)
    BY <1>1, <1>2, <1>3, <1>4, <1>5, <1>6
  <1>8. ASSUME NEW i \in 1 .. Len(l) PROVE l[i] = r[i]
    <2>1. CASE i \in 1 .. Len(a)
      <3>1. i \in 1 .. Len(w)
        BY <1>1, <1>7, <2>1
      <3>. QED
        BY <1>4, <1>5, <1>6, <2>1, <3>1
    <2>2. CASE i - Len(a) \in 1 .. n
      <3>1. /\ i \in 1 .. Len(w) /\ Len(a) + (i - Len(a)) = i
            /\ i - Len(a) \in 1 .. Len(b) /\ i - Len(a) \in 1 .. Len(x)
        BY <1>1, <1>2, <1>7, <2>2
      <3>2. l[i] = w[i] /\ w[i] = x[i - Len(a)] /\ r[i] = b[i - Len(a)]
        BY <1>4, <1>5, <1>6, <3>1
      <3>. QED
        BY <1>2, <2>2, <3>2
    <2>3. CASE i - Len(w) \in 1 .. Len(y)
      <3>1. /\ Len(w) + (i - Len(w)) = i /\ i - Len(w) \in 1 .. Len(b) - n
            /\ n + (i - Len(w)) \in 1 .. Len(b) /\ Len(a) + (n + (i - Len(w))) = i
        BY <1>1, <1>3, <1>7, <2>3
      <3>2. l[i] = y[i - Len(w)]
        BY <1>6, <2>3, <3>1
      <3>3. r[i] = b[n + (i - Len(w))]
        BY <1>5, <3>1
      <3>4. y[i - Len(w)] = b[n + (i - Len(w))]
        BY <1>3, <3>1
      <3>. QED
        BY <3>2, <3>3, <3>4
    <2>4. i \in 1 .. Len(a) \/ i - Len(a) \in 1 .. n \/ i - Len(w) \in 1 .. Len(y)
      BY <1>1, <1>3, <1>7
    <2>. QED
      BY <2>1, <2>2, <2>3, <2>4
  <1>9. l = r
    BY <1>5, <1>6, <1>7, <1>8, SeqEqual
  <1>. QED
    BY <1>t, <1>4, <1>9 DEF Moves, x, y, w, l, r

(* The first entry of two lists is that of the first list.                 *)
LEMMA JoinTail ==
  ASSUME NEW S, NEW a \in Seq(S), NEW b \in Seq(S), a # <<>>
  PROVE  Tail(a) \o b = Tail(a \o b) /\ Head(a \o b) = Head(a) /\ a \o b # <<>>
         /\ Tail(a) \in Seq(S) /\ a \o b \in Seq(S)
  <1>1. <<Head(a)>> \o Tail(a) = a /\ Head(a) \in S /\ Tail(a) \in Seq(S)
    BY HeadTailProperties
  <1>. DEFINE h == Head(a)
              t == Tail(a)
              c == t \o b
  <1>2. <<h>> \in Seq(S) /\ c \in Seq(S) /\ t \in Seq(S)
    BY <1>1
  <1>3. a \o b = <<h>> \o c
    <2>1. (<<h>> \o t) \o b = <<h>> \o (t \o b)
      BY <1>2, ConcatAssociative
    <2>. QED
      BY <1>1, <2>1
  <1>. HIDE DEF h, t, c
  <1>4. Head(<<h>> \o c) = h /\ Tail(<<h>> \o c) = c /\ <<h>> \o c # <<>> /\ <<h>> \o c \in Seq(S)
    BY <1>2
  <1>. QED
    BY <1>1, <1>3, <1>4 DEF h, t, c

(* An entry behind two lists is behind the second.                         *)
LEMMA JoinAppend ==
  ASSUME NEW S, NEW a \in Seq(S), NEW b \in Seq(S), NEW e \in S
  PROVE  a \o Append(b, e) = Append(a \o b, e)
  <1>1. Append(b, e) = b \o <<e>> /\ <<e>> \in Seq(S)
    BY AppendIsConcat
  <1>2. Append(a \o b, e) = (a \o b) \o <<e>> /\ a \o b \in Seq(S)
    BY AppendIsConcat
  <1>. QED
    BY <1>1, <1>2, ConcatAssociative

(* The tables of channels and of patterns as one.                          *)
LEMMA SubReplaced ==
  ASSUME Dicts, NEW n \in Names, NEW i \in Nat,
         dict' = [dict EXCEPT ![n[1]] = dictReplace(@, n, i)]
  PROVE  Dicts' /\ Sub(n)' = i /\ \A m \in Names : m # n => Sub(m)' = Sub(m)
  <1>. DEFINE v == n[1]
              r == dictReplace(dict[v], n, i)
  <1>1. v \in {"ch", "pat"} /\ \A m \in Names : m[1] \in {"ch", "pat"}
    BY AsyncAssumption
  <1>2. IsDict(dict[v])
    BY <1>1 DEF Dicts
  <1>3. /\ IsDict(r) /\ dictFind(r, n) = i
        /\ \A m \in Names : m # n => dictFind(r, m) = dictFind(dict[v], m)
    BY <1>2, ReplaceFinds
  <1>4. /\ DOMAIN dict' = {"ch", "pat"} /\ dict'[v] = r
        /\ \A u \in {"ch", "pat"} : u # v => dict'[u] = dict[u]
    BY <1>1 DEF Dicts
  <1>. HIDE DEF v, r
  <1>5. Dicts'
    BY <1>1, <1>3, <1>4 DEF Dicts
  <1>6. Sub(n)' = i
    BY <1>3, <1>4 DEF Sub, DictOf, v
  <1>7. ASSUME NEW m \in Names, m # n PROVE Sub(m)' = Sub(m)
    <2>1. CASE m[1] = v
      BY <1>3, <1>4, <1>7, <2>1 DEF Sub, DictOf
    <2>2. CASE m[1] # v
      <3>1. dict'[m[1]] = dict[m[1]]
        BY <1>1, <1>4, <2>2
      <3>. QED
        BY <3>1 DEF Sub, DictOf
    <2>. QED
      BY <2>1, <2>2
  <1>. QED
    BY <1>5, <1>6, <1>7

(* Deleting a name leaves the others as they are.                          *)
LEMMA SubDeleted ==
  ASSUME Dicts, NEW n \in Names,
         dict' = [dict EXCEPT ![n[1]] = dictDelete(@, n)]
  PROVE  Dicts' /\ Sub(n)' = None /\ \A m \in Names : m # n => Sub(m)' = Sub(m)
  <1>. DEFINE v == n[1]
              r == dictDelete(dict[v], n)
  <1>1. v \in {"ch", "pat"} /\ \A m \in Names : m[1] \in {"ch", "pat"}
    BY AsyncAssumption
  <1>2. IsDict(dict[v])
    BY <1>1 DEF Dicts
  <1>3. /\ IsDict(r) /\ dictFind(r, n) = None
        /\ \A m \in Names : m # n => dictFind(r, m) = dictFind(dict[v], m)
    BY <1>2, DeleteFinds
  <1>4. /\ DOMAIN dict' = {"ch", "pat"} /\ dict'[v] = r
        /\ \A u \in {"ch", "pat"} : u # v => dict'[u] = dict[u]
    BY <1>1 DEF Dicts
  <1>. HIDE DEF v, r
  <1>5. Dicts'
    BY <1>1, <1>3, <1>4 DEF Dicts
  <1>6. Sub(n)' = None
    BY <1>3, <1>4 DEF Sub, DictOf, v
  <1>7. ASSUME NEW m \in Names, m # n PROVE Sub(m)' = Sub(m)
    <2>1. CASE m[1] = v
      BY <1>3, <1>4, <1>7, <2>1 DEF Sub, DictOf
    <2>2. CASE m[1] # v
      <3>1. dict'[m[1]] = dict[m[1]]
        BY <1>1, <1>4, <2>2
      <3>. QED
        BY <3>1 DEF Sub, DictOf
    <2>. QED
      BY <2>1, <2>2
  <1>. QED
    BY <1>5, <1>6, <1>7

(* Two tables without entries.                                             *)
LEMMA CreatedDict == IsDict(dictCreate) /\ \A n \in Names : dictFind(dictCreate, n) = None
  <1>. DEFINE z == [table |-> [s \in 1 .. 0 |-> <<>>], used |-> 0]
  <1>1. dictCreate = [table |-> <<>>, used |-> 0] /\ z.table = <<>>
    BY DEF dictCreate
  <1>2. dictCreate = z
    BY <1>1
  <1>3. IsDict(z) /\ Contents(z) = {}
    BY EmptyDict
  <1>. HIDE DEF z
  <1>. QED
    BY <1>2, <1>3, FindNone

(* A fresh context has no subscription.                                    *)
LEMMA SubCreated ==
  ASSUME dict = [v \in {"ch", "pat"} |-> dictCreate]
  PROVE  Dicts /\ \A n \in Names : Sub(n) = None
  <1>1. Dicts
    BY CreatedDict DEF Dicts
  <1>2. ASSUME NEW n \in Names PROVE Sub(n) = None
    <2>1. n[1] \in {"ch", "pat"}
      BY AsyncAssumption
    <2>. QED
      BY <2>1, CreatedDict DEF Sub, DictOf
  <1>. QED
    BY <1>1, <1>2

(* Both lines are sequences of their entries.                              *)
LEMMA LineTypes ==
  ASSUME AsyncTyped
  PROVE  /\ Ups \in Seq(Commands) /\ Downs \in Seq(Answers)
         /\ Len(Ups) \in Nat /\ Len(Downs) \in Nat
         /\ \A q \in 1 .. Len(Ups) : Ups[q] \in Commands
         /\ \A p \in 1 .. Len(Downs) : Downs[p] \in Answers
  <1>1. Ups \in Seq(Commands) /\ Downs \in Seq(Answers)
    BY DEF AsyncTyped, Ups, Downs
  <1>. QED
    BY <1>1

(* The parts of an entry.                                                  *)
LEMMA EntryTypes ==
  ASSUME AsyncTyped
  PROVE  /\ \A q \in 1 .. Len(Ups) :
              /\ Ups[q].op \in Subscribing \cup {"command"}
              /\ Ups[q].id \in Ids /\ Ups[q].id \in Nat
         /\ \A p \in 1 .. Len(Downs) : Downs[p].id \in Nat \cup {None}
         /\ None \notin Nat /\ Ids \subseteq Nat /\ "command" \notin Subscribing
         /\ Range(replies) \subseteq Ids /\ Range(invalid) \subseteq Ids
  <1>1. None \notin Nat /\ Ids \subseteq Nat
    BY AsyncAssumption DEF Ids
  <1>2. ASSUME NEW q \in 1 .. Len(Ups)
        PROVE  Ups[q].op \in Subscribing \cup {"command"} /\ Ups[q].id \in Ids
    BY LineTypes DEF Commands
  <1>3. ASSUME NEW p \in 1 .. Len(Downs) PROVE Downs[p].id \in Nat \cup {None}
    BY LineTypes DEF Answers
  <1>4. replies \in Seq(Ids) /\ invalid \in Seq(Ids)
    BY DEF AsyncTyped
  <1>5. Range(replies) \subseteq Ids /\ Range(invalid) \subseteq Ids
    BY <1>4 DEF Range
  <1>6. "command" \notin Subscribing
    BY DEF Subscribing
  <1>. QED
    BY <1>1, <1>2, <1>3, <1>5, <1>6

(* The entries of two lists, one behind the other.                         *)
LEMMA JoinedIndex ==
  ASSUME NEW S, NEW a \in Seq(S), NEW b \in Seq(S)
  PROVE  /\ \A q \in 1 .. Len(a \o b) : (a \o b)[q] \in Range(a) \cup Range(b)
         /\ \A x \in Range(a) \cup Range(b) : \E q \in 1 .. Len(a \o b) : (a \o b)[q] = x
  <1>. DEFINE c == a \o b
  <1>1. /\ c \in Seq(S) /\ Len(c) = Len(a) + Len(b)
        /\ \A i \in 1 .. Len(a) : c[i] = a[i]
        /\ \A i \in 1 .. Len(b) : c[Len(a) + i] = b[i]
    BY JoinedEntries
  <1>2. DOMAIN a = 1 .. Len(a) /\ DOMAIN b = 1 .. Len(b) /\ Len(a) \in Nat /\ Len(b) \in Nat
    OBVIOUS
  <1>. HIDE DEF c
  <1>3. ASSUME NEW q \in 1 .. Len(c) PROVE c[q] \in Range(a) \cup Range(b)
    <2>1. CASE q <= Len(a)
      <3>1. q \in 1 .. Len(a)
        BY <1>1, <1>2, <2>1
      <3>. QED
        BY <1>1, <1>2, <3>1 DEF Range
    <2>2. CASE q > Len(a)
      <3>1. q - Len(a) \in 1 .. Len(b) /\ Len(a) + (q - Len(a)) = q
        BY <1>1, <1>2, <2>2
      <3>2. c[q] = b[q - Len(a)]
        BY <1>1, <3>1
      <3>. QED
        BY <1>2, <3>1, <3>2 DEF Range
    <2>3. q <= Len(a) \/ q > Len(a)
      BY <1>1, <1>2
    <2>. QED
      BY <2>1, <2>2, <2>3
  <1>4. ASSUME NEW i \in 1 .. Len(a) PROVE i \in 1 .. Len(c) /\ c[i] = a[i]
    BY <1>1, <1>2
  <1>5. ASSUME NEW i \in 1 .. Len(b) PROVE Len(a) + i \in 1 .. Len(c) /\ c[Len(a) + i] = b[i]
    BY <1>1, <1>2
  <1>6. ASSUME NEW x \in Range(a) \cup Range(b) PROVE \E q \in 1 .. Len(c) : c[q] = x
    <2>1. CASE x \in Range(a)
      <3>1. PICK i \in 1 .. Len(a) : a[i] = x
        BY <1>2, <2>1 DEF Range
      <3>. QED
        BY <1>4, <3>1
    <2>2. CASE x \in Range(b)
      <3>1. PICK i \in 1 .. Len(b) : b[i] = x
        BY <1>2, <2>2 DEF Range
      <3>. QED
        BY <1>5, <3>1
    <2>. QED
      BY <2>1, <2>2
  <1>. QED
    BY <1>3, <1>6 DEF c

(* A subscription is in flight when one of the two lines has it.           *)
LEMMA InFlight ==
  ASSUME AsyncTyped
  PROVE  SubscriptionInFlight <=>
            \/ \E q \in 1 .. Len(Ups) : Ups[q].op \in Subscribing
            \/ \E p \in 1 .. Len(Downs) : Downs[p].k \in Subscribing
  <1>1. /\ obuf \in Seq(Commands) /\ sent \in Seq(Commands)
        /\ ibuf \in Seq(Answers) /\ down \in Seq(Answers)
    BY DEF AsyncTyped
  <1>2. /\ \A q \in 1 .. Len(Ups) : Ups[q] \in Range(sent) \cup Range(obuf)
        /\ \A x \in Range(sent) \cup Range(obuf) : \E q \in 1 .. Len(Ups) : Ups[q] = x
    BY <1>1, JoinedIndex DEF Ups
  <1>3. /\ \A p \in 1 .. Len(Downs) : Downs[p] \in Range(ibuf) \cup Range(down)
        /\ \A x \in Range(ibuf) \cup Range(down) : \E p \in 1 .. Len(Downs) : Downs[p] = x
    BY <1>1, JoinedIndex DEF Downs
  <1>4. (\E c \in Range(obuf) \cup Range(sent) : c.op \in Subscribing)
           <=> \E q \in 1 .. Len(Ups) : Ups[q].op \in Subscribing
    BY <1>2
  <1>5. (\E r \in Range(down) \cup Range(ibuf) : r.k \in Subscribing)
           <=> \E p \in 1 .. Len(Downs) : Downs[p].k \in Subscribing
    BY <1>3
  <1>. QED
    BY <1>4, <1>5 DEF SubscriptionInFlight

(***************************************************************************)
(* The steps.                                                              *)
(***************************************************************************)

\* Neither lists nor lines, subscriptions nor the server change.
Still ==
    /\ UNCHANGED <<replies, invalid, dict, fate, issued, srvsub, srvup, Ups, Downs>>
    /\ "SUBSCRIBED" \in flags' <=> "SUBSCRIBED" \in flags

(* A step that moves nothing along preserves the invariant.                *)
LEMMA StillInv ==
  ASSUME AsyncIInv, AsyncTyped', Still, Leaving => Leaving', Leaving' => Closing',
         pc' = "freed" => pc = "freed",
         bad' \in {"spontaneous", "stale"} => bad' = bad
  PROVE  AsyncIInv'
  <1>1. \A n : Sub(n)' = Sub(n)
    BY DEF Still, Sub, DictOf
  <1>2. Basics'
    <2>1. Dicts' /\ Waiting'
      BY DEF AsyncIInv, Basics, Dicts, Waiting, Still
    <2>. QED
      BY <2>1 DEF AsyncIInv, Basics, Still
  <1>3. ASSUME ~Leaving' PROVE Lines'
    <2>1. Lines
      BY <1>3 DEF AsyncIInv
    <2>2. Modes'
      BY <2>1 DEF Lines, Modes, Still
    <2>3. srvup' = "refused" => Refused'
      BY <2>1 DEF Lines, Refused, Still
    <2>4. \A i : (InDowns(i)' <=> InDowns(i)) /\ (InUps(i)' <=> InUps(i))
      BY DEF InDowns, InUps, Still
    <2>5. \A n : (SubscribeSent(n)' <=> SubscribeSent(n))
                 /\ (UnsubscribeBack(n)' <=> UnsubscribeBack(n))
      BY DEF SubscribeSent, UnsubscribeBack, Still
    <2>6. srvup' # "refused" => Order'
      BY <2>1, <2>4 DEF Lines, Order, Still
    <2>7. srvup' # "refused" => Messages'
      BY <1>1, <2>1 DEF Lines, Messages, Still
    <2>8. srvup' # "refused" => OneInFlight'
      BY <1>1, <2>1 DEF Lines, OneInFlight, Still
    <2>9. srvup' = "up" => Served'
      BY <2>1, <2>4 DEF Lines, Served, Still
    <2>10. srvup' = "up" => Agreed'
      BY <1>1, <2>1, <2>5 DEF Lines, Agreed, Still
    <2>. QED
      BY <2>2, <2>3, <2>6, <2>7, <2>8, <2>9, <2>10 DEF Lines
  <1>. QED
    BY <1>2, <1>3 DEF AsyncIInv

(* The context goes down.                                                  *)
LEMMA DisconnectStep ==
  ASSUME AsyncIInv, AsyncDisconnect, err' = "none" => Closing, ~Leaving,
         UNCHANGED <<replies, invalid, obuf, ibuf, sent, down, fate, issued, srvsub, srvup>>
  PROVE  /\ AsyncTyped' /\ ("SUBSCRIBED" \in flags' <=> "SUBSCRIBED" \in flags)
         /\ Leaving' => Closing'
         /\ pc' # "freed" /\ (bad' = bad \/ bad' = "pending")
  <1>1. AsyncTyped
    BY DEF AsyncIInv, Basics
  <1>2. pc # "freed"
    BY DEF Leaving
  <1>3. CASE flags' = flags
    <2>1. /\ pc' # "freed" /\ (bad' = bad \/ bad' = "pending")
          /\ (Leaving' => Closing)
      BY <1>2, <1>3 DEF AsyncDisconnect, Leaving, Closing
    <2>. QED
      BY <1>1, <1>3, <2>1 DEF AsyncTyped, Closing
  <1>4. CASE flags' = flags \cup {"DISCONNECTING"} /\ pc' = "free" /\ bad' = bad
    BY <1>1, <1>4 DEF AsyncTyped, Closing
  <1>. QED
    BY <1>3, <1>4 DEF AsyncDisconnect

(* Attaching, disconnecting, freeing and unlisting the connection.         *)
LEMMA ServiceStill ==
  ASSUME Careful, AsyncIInv,
         redis_attach \/ redis_disconnect \/ redisAsyncFree \/ redis_request_map
  PROVE  AsyncIInv'
  <1>1. AsyncTyped /\ (Leaving => Closing)
    BY DEF AsyncIInv, Basics
  <1>2. CASE redis_attach
    <2>1. UNCHANGED <<ctx, server, fate, issued, pc, bad>>
      BY <1>2 DEF redis_attach
    <2>2. Still /\ AsyncTyped' /\ (Leaving' <=> Leaving) /\ (Closing' <=> Closing)
      BY <1>1, <2>1 DEF ctx, server, Still, Ups, Downs, AsyncTyped, Leaving, Closing
    <2>. QED
      BY <1>1, <2>1, <2>2, StillInv
  <1>3. CASE redis_request_map
    <2>1. UNCHANGED <<ctx, server, fate, issued, pc, bad>>
      BY <1>3 DEF redis_request_map
    <2>2. Still /\ AsyncTyped' /\ (Leaving' <=> Leaving) /\ (Closing' <=> Closing)
      BY <1>1, <2>1 DEF ctx, server, Still, Ups, Downs, AsyncTyped, Leaving, Closing
    <2>. QED
      BY <1>1, <2>1, <2>2, StillInv
  <1>4. CASE redis_disconnect
    <2>1. /\ flags' = flags \cup {"DISCONNECTING"} /\ ~Closing
          /\ UNCHANGED <<err, replies, invalid, dict, obuf, ibuf, server, fate, issued>>
          /\ bad' \in {bad, "freed"} /\ (pc' = pc \/ pc' = "free")
      BY <1>4 DEF redis_disconnect
    <2>2. Still /\ AsyncTyped' /\ Closing'
      BY <1>1, <2>1 DEF server, Still, Ups, Downs, AsyncTyped, Closing
    <2>3. (Leaving => Leaving') /\ (pc' = "freed" => pc = "freed")
      BY <2>1 DEF Leaving
    <2>. QED
      BY <2>1, <2>2, <2>3, StillInv
  <1>5. CASE redisAsyncFree
    <2>1. /\ flags' = flags \cup {"FREEING"}
          /\ UNCHANGED <<err, replies, invalid, dict, obuf, ibuf, server, fate, issued>>
          /\ bad' \in {bad, "freed"} /\ (pc' = pc \/ pc' = "free")
      BY <1>5 DEF redisAsyncFree
    <2>2. Still /\ AsyncTyped' /\ Closing'
      BY <1>1, <2>1 DEF server, Still, Ups, Downs, AsyncTyped, Closing
    <2>3. (Leaving => Leaving') /\ (pc' = "freed" => pc = "freed")
      BY <2>1 DEF Leaving
    <2>. QED
      BY <2>1, <2>2, <2>3, StillInv
  <1>. QED
    BY <1>2, <1>3, <1>4, <1>5

(* Callbacks return, and the event loop gives the connection up.           *)
LEMMA ReturnsStill ==
  ASSUME AsyncIInv, Causes, Returns \/ redis_close \/ redis_error
  PROVE  AsyncIInv'
  <1>1. AsyncTyped /\ (Leaving => Closing)
    BY DEF AsyncIInv, Basics
  <1>2. CASE ConnectedReturns
    <2>1. UNCHANGED <<ctx, server, fate, issued, bad>> /\ pc = "connected"
          /\ pc' \in {"resumed", "process", "loop"}
      BY <1>2 DEF ConnectedReturns
    <2>2. Still /\ AsyncTyped' /\ ~Leaving /\ ~Leaving' /\ pc' # "freed"
      BY <1>1, <2>1 DEF ctx, server, Still, Ups, Downs, AsyncTyped, Leaving
    <2>. QED
      BY <2>1, <2>2, StillInv
  <1>3. CASE CallbackReturns
    <2>1. /\ flags' = flags \ {"IN_CALLBACK"} /\ pc = "callback"
          /\ pc' = IF "FREEING" \in flags THEN "free" ELSE "process"
          /\ UNCHANGED <<err, replies, invalid, dict, obuf, ibuf, server, fate, issued, bad>>
      BY <1>3 DEF CallbackReturns
    <2>2. Still /\ AsyncTyped' /\ ~Leaving /\ pc' # "freed"
      BY <1>1, <2>1 DEF server, Still, Ups, Downs, AsyncTyped, Leaving
    <2>3. Leaving' => Closing'
      BY <2>1 DEF Leaving, Closing
    <2>. QED
      BY <2>1, <2>2, <2>3, StillInv
  <1>4. CASE LastReturns
    <2>1. /\ flags' = flags \ {"IN_CALLBACK"} /\ pc = "last" /\ pc' = "free"
          /\ UNCHANGED <<err, replies, invalid, dict, obuf, ibuf, server, fate, issued, bad>>
      BY <1>4 DEF LastReturns
    <2>2. Still /\ AsyncTyped' /\ Leaving /\ Leaving' /\ pc' # "freed"
      BY <1>1, <2>1 DEF server, Still, Ups, Downs, AsyncTyped, Leaving
    <2>3. Closing'
      BY <1>1, <2>1, <2>2 DEF Closing
    <2>. QED
      BY <2>1, <2>2, <2>3, StillInv
  <1>5. CASE redis_close
    <2>1. UNCHANGED <<ctx, server, fate, issued, pc, bad>>
      BY <1>5 DEF redis_close
    <2>2. Still /\ AsyncTyped' /\ (Leaving' <=> Leaving) /\ (Closing' <=> Closing)
      BY <1>1, <2>1 DEF ctx, server, Still, Ups, Downs, AsyncTyped, Leaving, Closing
    <2>. QED
      BY <1>1, <2>1, <2>2, StillInv
  <1>6. CASE redis_error
    <2>1. UNCHANGED <<ctx, server, fate, issued, pc>> /\ bad' = "undefined"
      BY <1>6 DEF redis_error
    <2>2. Still /\ AsyncTyped' /\ (Leaving' <=> Leaving) /\ (Closing' <=> Closing)
      BY <1>1, <2>1 DEF ctx, server, Still, Ups, Downs, AsyncTyped, Leaving, Closing
    <2>. QED
      BY <1>1, <2>1, <2>2, StillInv
  <1>7. CASE UnconnectedReturns
    <2>0. ~Leaving
      BY <1>7 DEF UnconnectedReturns, Leaving
    <2>1. UNCHANGED <<replies, invalid, dict, obuf, ibuf, server, fate, issued>>
          /\ AsyncDisconnect /\ err' # "none"
      BY <1>7 DEF UnconnectedReturns, Causes
    <2>2. /\ AsyncTyped' /\ ("SUBSCRIBED" \in flags' <=> "SUBSCRIBED" \in flags)
          /\ Leaving' => Closing'
          /\ pc' # "freed" /\ (bad' = bad \/ bad' = "pending")
      BY <2>0, <2>1, DisconnectStep DEF server
    <2>3. Still
      BY <2>1, <2>2 DEF server, Still, Ups, Downs
    <2>. QED
      BY <2>0, <2>2, <2>3, StillInv
  <1>. QED
    BY <1>2, <1>3, <1>4, <1>5, <1>6, <1>7 DEF Returns

(* Connecting, writing, reading, and nothing to process.                   *)
LEMMA HandlersStill ==
  ASSUME AsyncIInv, HandleConnect \/ HandleWrite \/ HandleRead \/ ProcessNothing
  PROVE  AsyncIInv'
  <1>1. AsyncTyped /\ (Leaving => Closing)
    BY DEF AsyncIInv, Basics
  <1>0. /\ obuf \in Seq(Commands) /\ sent \in Seq(Commands)
        /\ ibuf \in Seq(Answers) /\ down \in Seq(Answers)
    BY <1>1 DEF AsyncTyped
  <1>2. CASE HandleConnect
    <2>0. ~Leaving
      BY <1>2 DEF HandleConnect, Event, Leaving
    <2>1. UNCHANGED <<replies, invalid, dict, obuf, ibuf, server, fate, issued>>
      BY <1>2 DEF HandleConnect
    <2>2. flags' \in {flags, flags \cup {"CONNECTED"}} /\ bad' = bad
          /\ pc' \in {"connected", "unconnected"}
      BY <1>2 DEF HandleConnect
    <2>. QED
      <3>1. Still /\ AsyncTyped' /\ ~Leaving' /\ pc' # "freed"
        BY <1>1, <2>1, <2>2 DEF server, Still, Ups, Downs, AsyncTyped, Leaving
      <3>. QED
        BY <2>0, <2>2, <3>1, StillInv
  <1>3. CASE HandleWrite
    <2>0. ~Leaving
      BY <1>3 DEF HandleWrite, Event, Leaving
    <2>1. UNCHANGED <<replies, invalid, dict, ibuf, down, srvsub, srvup, fate, issued>>
      BY <1>3 DEF HandleWrite
    <2>2. ASSUME NEW n \in 1 .. Len(obuf), sent' = sent \o SubSeq(obuf, 1, n),
                 obuf' = SubSeq(obuf, n + 1, Len(obuf)),
                 pc' = "loop" /\ UNCHANGED <<flags, err, bad>>
          PROVE  AsyncIInv'
      <3>1. sent \in Seq(Commands) /\ obuf \in Seq(Commands) /\ Moves(sent', obuf', sent, obuf, n)
        BY <1>0, <2>2 DEF Moves
      <3>2. sent' \in Seq(Commands) /\ obuf' \in Seq(Commands) /\ sent' \o obuf' = sent \o obuf
        BY <3>1, MoveAlong
      <3>3. Still /\ AsyncTyped' /\ ~Leaving' /\ pc' # "freed"
        BY <1>1, <2>1, <2>2, <3>2 DEF Still, Ups, Downs, AsyncTyped, Leaving
      <3>. QED
        BY <2>0, <2>2, <3>3, StillInv
    <2>3. CASE err' = "io" /\ AsyncDisconnect /\ UNCHANGED <<sent, obuf>>
      <3>1. /\ AsyncTyped' /\ ("SUBSCRIBED" \in flags' <=> "SUBSCRIBED" \in flags)
            /\ Leaving' => Closing'
            /\ pc' # "freed" /\ (bad' = bad \/ bad' = "pending")
        BY <2>0, <2>1, <2>3, DisconnectStep
      <3>2. Still
        BY <2>1, <2>3, <3>1 DEF Still, Ups, Downs
      <3>. QED
        BY <2>0, <3>1, <3>2, StillInv
    <2>. QED
      BY <1>3, <2>2, <2>3 DEF HandleWrite
  <1>4. CASE HandleRead
    <2>0. ~Leaving
      BY <1>4 DEF HandleRead, Event, Leaving
    <2>1. UNCHANGED <<replies, invalid, dict, obuf, sent, srvsub, srvup, fate, issued>>
      BY <1>4 DEF HandleRead
    <2>2. ASSUME NEW n \in 1 .. Len(down), ibuf' = ibuf \o SubSeq(down, 1, n),
                 down' = SubSeq(down, n + 1, Len(down)),
                 pc' = "process" /\ UNCHANGED <<flags, err, bad>>
          PROVE  AsyncIInv'
      <3>1. ibuf \in Seq(Answers) /\ down \in Seq(Answers) /\ Moves(ibuf', down', ibuf, down, n)
        BY <1>0, <2>2 DEF Moves
      <3>2. ibuf' \in Seq(Answers) /\ down' \in Seq(Answers) /\ ibuf' \o down' = ibuf \o down
        BY <3>1, MoveAlong
      <3>3. Still /\ AsyncTyped' /\ ~Leaving' /\ pc' # "freed"
        BY <1>1, <2>1, <2>2, <3>2 DEF Still, Ups, Downs, AsyncTyped, Leaving
      <3>. QED
        BY <2>0, <2>2, <3>3, StillInv
    <2>3. CASE err' = "eof" /\ AsyncDisconnect /\ UNCHANGED <<ibuf, down>>
      <3>1. /\ AsyncTyped' /\ ("SUBSCRIBED" \in flags' <=> "SUBSCRIBED" \in flags)
            /\ Leaving' => Closing'
            /\ pc' # "freed" /\ (bad' = bad \/ bad' = "pending")
        BY <2>0, <2>1, <2>3, DisconnectStep
      <3>2. Still
        BY <2>1, <2>3, <3>1 DEF Still, Ups, Downs
      <3>. QED
        BY <2>0, <3>1, <3>2, StillInv
    <2>. QED
      BY <1>4, <2>2, <2>3 DEF HandleRead
  <1>5. CASE ProcessNothing
    <2>0. ~Leaving
      BY <1>5 DEF ProcessNothing, Leaving
    <2>1. UNCHANGED <<replies, invalid, dict, obuf, ibuf, server, fate, issued>>
      BY <1>5 DEF ProcessNothing
    <2>2. CASE pc' = "loop" /\ UNCHANGED <<flags, err, bad>>
      <3>1. Still /\ AsyncTyped' /\ ~Leaving' /\ pc' # "freed"
        BY <1>1, <2>1, <2>2 DEF server, Still, Ups, Downs, AsyncTyped, Leaving
      <3>. QED
        BY <2>0, <2>2, <3>1, StillInv
    <2>3. CASE "DISCONNECTING" \in flags /\ AsyncDisconnect
      <3>0. Closing
        BY <2>3 DEF Closing
      <3>1. /\ AsyncTyped' /\ ("SUBSCRIBED" \in flags' <=> "SUBSCRIBED" \in flags)
            /\ Leaving' => Closing'
            /\ pc' # "freed" /\ (bad' = bad \/ bad' = "pending")
        BY <2>0, <2>1, <2>3, <3>0, DisconnectStep DEF server
      <3>2. Still
        BY <2>1, <3>1 DEF server, Still, Ups, Downs
      <3>. QED
        BY <2>0, <3>1, <3>2, StillInv
    <2>. QED
      BY <1>5, <2>2, <2>3 DEF ProcessNothing
  <1>. QED
    BY <1>2, <1>3, <1>4, <1>5

(***************************************************************************)
(* A reply or a message is processed.                                      *)
(***************************************************************************)

\* What comes first is the end of a subscription, of the last one.
Ends(n) == srvup # "refused" /\ Downs[1].k = "unsubscribe" /\ Downs[1].name = n
EndsAll == srvup # "refused" /\ Downs[1].k = "unsubscribe" /\ Downs[1].count = 0

\* The first entry is taken, its callback leaves its list and the end of a
\* subscription is noted.
Processed ==
    /\ Shifts(Downs', Downs) /\ UNCHANGED <<Ups, issued, srvsub, srvup>>
    /\ Range(replies') \subseteq Range(replies) /\ Downs[1].id \notin Range(replies')
    /\ srvup # "refused" => \A i \in Range(replies) \cup Range(invalid) :
         i = Downs[1].id \/ i \in Range(replies') \cup Range(invalid')
    /\ invalid' = invalid \/ invalid' = <<>>
    /\ "SUBSCRIBED" \in flags' <=> "SUBSCRIBED" \in flags /\ ~EndsAll
    /\ \A n \in Names : Sub(n)' = IF Ends(n) THEN None ELSE Sub(n)

(* What the rest of the line still says.                                   *)
LEMMA RestOfLine ==
  ASSUME Processed
  PROVE  /\ \A i : i # Downs[1].id /\ InDowns(i) => InDowns(i)'
         /\ \A i : InUps(i)' <=> InUps(i)
         /\ \A n : UnsubscribeBack(n)' => UnsubscribeBack(n)
         /\ \A n : UnsubscribeBack(n) => UnsubscribeBack(n)'
                      \/ (Downs[1].k = "unsubscribe" /\ Downs[1].name = n)
         /\ \A n : SubscribeSent(n)' <=> SubscribeSent(n)
  <1>1. Shifts(Downs', Downs) /\ Ups' = Ups
    BY DEF Processed
  <1>2. ASSUME NEW i, i # Downs[1].id, InDowns(i) PROVE InDowns(i)'
    <2>1. PICK q \in 1 .. Len(Downs) : Downs[q].id = i
      BY <1>2 DEF InDowns
    <2>2. q - 1 \in 1 .. Len(Downs') /\ Downs'[q - 1] = Downs[q]
      BY <1>1, <1>2, <2>1 DEF Shifts
    <2>. QED
      BY <2>1, <2>2 DEF InDowns
  <1>3. ASSUME NEW n, UnsubscribeBack(n)
        PROVE  UnsubscribeBack(n)' \/ (Downs[1].k = "unsubscribe" /\ Downs[1].name = n)
    <2>1. PICK q \in 1 .. Len(Downs) : Downs[q].k = "unsubscribe" /\ Downs[q].name = n
      BY <1>3 DEF UnsubscribeBack
    <2>2. q = 1 \/ (q - 1 \in 1 .. Len(Downs') /\ Downs'[q - 1] = Downs[q])
      BY <1>1 DEF Shifts
    <2>. QED
      BY <2>1, <2>2 DEF UnsubscribeBack
  <1>4. ASSUME NEW n, UnsubscribeBack(n)' PROVE UnsubscribeBack(n)
    <2>1. PICK q \in 1 .. Len(Downs') : Downs'[q].k = "unsubscribe" /\ Downs'[q].name = n
      BY <1>4 DEF UnsubscribeBack
    <2>2. q + 1 \in 1 .. Len(Downs) /\ Downs'[q] = Downs[q + 1]
      BY <1>1 DEF Shifts
    <2>. QED
      BY <2>1, <2>2 DEF UnsubscribeBack
  <1>5. \A i : InUps(i)' <=> InUps(i)
    BY <1>1 DEF InUps
  <1>6. \A n : SubscribeSent(n)' <=> SubscribeSent(n)
    BY <1>1 DEF SubscribeSent
  <1>. QED
    BY <1>2, <1>3, <1>4, <1>5, <1>6

(* The end of a subscription is the only message about it.                 *)
LEMMA EndIsLast ==
  ASSUME AsyncTyped, Lines, Processed, srvup # "refused", Downs[1].k = "unsubscribe"
  PROVE  /\ Downs[1].id = None /\ invalid = <<>> /\ Downs[1].name \in Names
         /\ \A q \in 1 .. Len(Ups) : Ups[q].op \notin Subscribing
         /\ \A q \in 1 .. Len(Downs') : Downs'[q].k \notin Subscribing
         /\ \A q \in 1 .. Len(Downs') : Downs'[q].id = None =>
              Downs'[q].name # Downs[1].name /\ Downs[1].count # 0
         /\ srvup = "up" =>
              Downs[1].name \notin srvsub /\ (Downs[1].count = 0 <=> srvsub = {})
  <1>1. Shifts(Downs', Downs) /\ 1 \in 1 .. Len(Downs)
    BY DEF Processed, Shifts
  <1>2. Messages /\ OneInFlight
    BY DEF Lines
  <1>3. Downs[1].k \in Subscribing
    BY DEF Subscribing
  <1>4. Downs[1].id = None
    BY <1>1, <1>2, <1>3 DEF OneInFlight
  <1>5. /\ invalid = <<>> /\ Downs[1].name \in Names
        /\ \A q \in 1 .. Len(Downs) : 1 < q /\ Downs[q].id = None =>
             Downs[q].name # Downs[1].name /\ Downs[1].count # 0
    BY <1>1, <1>2, <1>3, <1>4 DEF Messages
  <1>6. \A q \in 1 .. Len(Ups) : Ups[q].op \notin Subscribing
    BY <1>1, <1>2, <1>3 DEF OneInFlight
  <1>7. \A q \in 1 .. Len(Downs) : Downs[q].k \in Subscribing => q = 1
    BY <1>1, <1>2, <1>3 DEF OneInFlight
  <1>8. ASSUME NEW q \in 1 .. Len(Downs')
        PROVE  q + 1 \in 1 .. Len(Downs) /\ Downs'[q] = Downs[q + 1] /\ 1 < q + 1 /\ q + 1 # 1
    BY <1>1 DEF Shifts
  <1>9. /\ \A q \in 1 .. Len(Downs') : Downs'[q].k \notin Subscribing
        /\ \A q \in 1 .. Len(Downs') : Downs'[q].id = None =>
             Downs'[q].name # Downs[1].name /\ Downs[1].count # 0
    BY <1>5, <1>7, <1>8
  <1>10. ASSUME srvup = "up"
         PROVE  Downs[1].name \notin srvsub /\ (Downs[1].count = 0 <=> srvsub = {})
    <2>1. Downs[1].name \notin srvsub /\ Downs[1].count = Cardinality(srvsub)
      BY <1>1, <1>10 DEF Lines, Served
    <2>2. IsFiniteSet(srvsub)
      BY DEF AsyncTyped
    <2>3. Cardinality(srvsub) = 0 <=> srvsub = {}
      BY <2>2, FS_EmptySet
    <2>. QED
      BY <2>1, <2>3
  <1>. QED
    BY <1>4, <1>5, <1>6, <1>9, <1>10

(* What remains agrees with the mode the context is in.                    *)
LEMMA ProcessedModes ==
  ASSUME AsyncTyped, Lines, Processed
  PROVE  Modes' /\ (srvup' = "refused" => Refused')
  <1>1. Modes /\ (srvup = "refused" => Refused)
    BY DEF Lines
  <1>2. /\ UNCHANGED <<Ups, issued, srvup>> /\ Range(replies') \subseteq Range(replies)
        /\ (invalid' = invalid \/ invalid' = <<>>) /\ Shifts(Downs', Downs)
        /\ "SUBSCRIBED" \in flags' <=> "SUBSCRIBED" \in flags /\ ~EndsAll
    BY DEF Processed
  <1>3. EndsAll => invalid = <<>> /\ \A q \in 1 .. Len(Ups) : Ups[q].op \notin Subscribing
    BY EndIsLast DEF EndsAll
  <1>4. "SUBSCRIBED" \in flags' => issued' > 0
    BY <1>1, <1>2 DEF Modes
  <1>5. invalid' # <<>> => "SUBSCRIBED" \in flags' /\ Len(invalid') = 1
    BY <1>1, <1>2, <1>3 DEF Modes
  <1>6. ASSUME NEW q \in 1 .. Len(Ups'), Ups'[q].op \in Subscribing
        PROVE  /\ "SUBSCRIBED" \in flags' /\ invalid' = <<>> /\ Ups'[q].name \in Names
               /\ \A i \in Range(replies') : i < Ups'[q].id
    <2>1. Ups' = Ups /\ q \in 1 .. Len(Ups) /\ Ups[q].op \in Subscribing
      BY <1>2, <1>6
    <2>2. /\ "SUBSCRIBED" \in flags /\ invalid = <<>> /\ Ups[q].name \in Names
          /\ \A i \in Range(replies) : i < Ups[q].id
      BY <1>1, <2>1 DEF Modes
    <2>3. ~EndsAll
      BY <1>3, <2>1
    <2>. QED
      BY <1>2, <2>1, <2>2, <2>3
  <1>7. Modes'
    BY <1>4, <1>5, <1>6 DEF Modes
  <1>8. srvup' = "refused" => Refused'
    <2>1. \A p \in 1 .. Len(Downs') : p + 1 \in 1 .. Len(Downs) /\ Downs'[p] = Downs[p + 1]
      BY <1>2 DEF Shifts
    <2>. QED
      BY <1>1, <1>2, <2>1 DEF Refused
  <1>. QED
    BY <1>7, <1>8

(* What remains is in order.                                               *)
LEMMA ProcessedOrder ==
  ASSUME AsyncTyped, Lines, Processed, srvup # "refused"
  PROVE  Order'
  <1>1. Order
    BY DEF Lines
  <1>2. /\ UNCHANGED <<Ups, issued>> /\ Range(replies') \subseteq Range(replies)
        /\ Downs[1].id \notin Range(replies')
        /\ \A i \in Range(replies) \cup Range(invalid) :
             i = Downs[1].id \/ i \in Range(replies') \cup Range(invalid')
    BY DEF Processed
  <1>3. 1 \in 1 .. Len(Downs)
    BY DEF Processed, Shifts
  <1>4. \A i : i # Downs[1].id /\ InDowns(i) => InDowns(i)'
    BY RestOfLine
  <1>5. \A p \in 1 .. Len(Downs') :
          p + 1 \in 1 .. Len(Downs) /\ Downs'[p] = Downs[p + 1] /\ 1 < p + 1
    BY DEF Processed, Shifts
  <1>6. /\ \A q \in 1 .. Len(Ups') : Ups'[q].id <= issued'
        /\ \A p, q \in 1 .. Len(Ups') : p < q => Ups'[p].id < Ups'[q].id
    BY <1>1, <1>2 DEF Order
  <1>7. ASSUME NEW p \in 1 .. Len(Downs'), Downs'[p].id \in Nat
        PROVE  /\ Downs'[p].id \in Range(replies') \cup Range(invalid')
               /\ \A q \in 1 .. Len(Downs') :
                    p < q /\ Downs'[q].id \in Nat => Downs'[p].id < Downs'[q].id
               /\ \A q \in 1 .. Len(Ups') : Downs'[p].id < Ups'[q].id
               /\ \A i \in Range(replies') : i < Downs'[p].id => InDowns(i)'
    <2>1. p + 1 \in 1 .. Len(Downs) /\ Downs'[p] = Downs[p + 1] /\ 1 < p + 1
      BY <1>5
    <2>2. /\ Downs[p + 1].id \in Range(replies) \cup Range(invalid)
          /\ \A q \in 1 .. Len(Downs) :
               p + 1 < q /\ Downs[q].id \in Nat => Downs[p + 1].id < Downs[q].id
          /\ \A q \in 1 .. Len(Ups) : Downs[p + 1].id < Ups[q].id
          /\ \A i \in Range(replies) : i < Downs[p + 1].id => InDowns(i)
      BY <1>1, <1>7, <2>1 DEF Order
    <2>3. Downs[p + 1].id # Downs[1].id
      <3>1. Downs[1].id \in Nat => Downs[1].id < Downs[p + 1].id
        BY <1>1, <1>3, <1>7, <2>1 DEF Order
      <3>. QED
        BY <1>7, <2>1, <3>1
    <2>4. ASSUME NEW q \in 1 .. Len(Downs'), p < q, Downs'[q].id \in Nat
          PROVE  Downs'[p].id < Downs'[q].id
      <3>1. q + 1 \in 1 .. Len(Downs) /\ Downs'[q] = Downs[q + 1]
        BY <1>5
      <3>2. p + 1 < q + 1
        BY <2>4
      <3>. QED
        BY <2>1, <2>2, <2>4, <3>1, <3>2
    <2>5. \A q \in 1 .. Len(Ups') : Downs'[p].id < Ups'[q].id
      BY <1>2, <2>1, <2>2
    <2>6. ASSUME NEW i \in Range(replies'), i < Downs'[p].id PROVE InDowns(i)'
      BY <1>2, <1>4, <2>1, <2>2, <2>6
    <2>7. Downs'[p].id \in Range(replies') \cup Range(invalid')
      BY <1>2, <2>1, <2>2, <2>3
    <2>. QED
      BY <2>4, <2>5, <2>6, <2>7
  <1>. QED
    BY <1>6, <1>7 DEF Order

(* The messages that remain find their subscription.                       *)
LEMMA ProcessedMessages ==
  ASSUME AsyncTyped, Lines, Processed, srvup # "refused"
  PROVE  Messages' /\ OneInFlight'
  <1>1. Messages /\ OneInFlight
    BY DEF Lines
  <1>2. /\ Ups' = Ups /\ Range(replies') \subseteq Range(replies)
        /\ Downs[1].id \notin Range(replies') /\ (invalid' = invalid \/ invalid' = <<>>)
        /\ "SUBSCRIBED" \in flags' <=> "SUBSCRIBED" \in flags /\ ~EndsAll
        /\ \A n \in Names : Sub(n)' = IF Ends(n) THEN None ELSE Sub(n)
    BY DEF Processed
  <1>3. \A p \in 1 .. Len(Downs') :
          p \in Nat /\ p + 1 \in 1 .. Len(Downs) /\ Downs'[p] = Downs[p + 1]
    BY DEF Processed, Shifts
  <1>4. \A q \in 1 .. Len(Downs) : q = 1 \/ (q - 1 \in 1 .. Len(Downs') /\ Downs'[q - 1] = Downs[q])
    BY DEF Processed, Shifts
  <1>5. ASSUME NEW q \in 1 .. Len(Downs'), Downs'[q].id = None
        PROVE  ~EndsAll /\ ~Ends(Downs'[q].name)
    BY <1>5, EndIsLast DEF EndsAll, Ends
  <1>6. ASSUME NEW p \in 1 .. Len(Downs'), Downs'[p].id = None
        PROVE  /\ "SUBSCRIBED" \in flags' /\ Downs'[p].name \in Names
               /\ \A n \in Names : n = Downs'[p].name => Sub(n)' # None
               /\ Downs'[p].k \in {"message"} \cup Subscribing
               /\ Downs'[p].k \in Subscribing => invalid' = <<>>
               /\ \A i \in Range(replies') :
                    \E q \in 1 .. Len(Downs') : q < p /\ Downs'[q].id = i
               /\ Downs'[p].k = "unsubscribe" =>
                    \A q \in 1 .. Len(Downs') : p < q /\ Downs'[q].id = None =>
                      Downs'[q].name # Downs'[p].name /\ Downs'[p].count # 0
    <2>1. p \in Nat /\ p + 1 \in 1 .. Len(Downs) /\ Downs'[p] = Downs[p + 1] /\ Downs[p + 1].id = None
      BY <1>3, <1>6
    <2>2. /\ "SUBSCRIBED" \in flags /\ Downs[p + 1].name \in Names
          /\ Sub(Downs[p + 1].name) # None
          /\ Downs[p + 1].k \in {"message"} \cup Subscribing
          /\ Downs[p + 1].k \in Subscribing => invalid = <<>>
      BY <1>1, <2>1 DEF Messages
    <2>3. \A i \in Range(replies) : \E q \in 1 .. Len(Downs) : q < p + 1 /\ Downs[q].id = i
      BY <1>1, <2>1 DEF Messages
    <2>4. Downs[p + 1].k = "unsubscribe" =>
            \A q \in 1 .. Len(Downs) : p + 1 < q /\ Downs[q].id = None =>
              Downs[q].name # Downs[p + 1].name /\ Downs[p + 1].count # 0
      BY <1>1, <2>1 DEF Messages
    <2>5. ~EndsAll /\ ~Ends(Downs[p + 1].name)
      BY <1>5, <1>6, <2>1
    <2>6. \A n \in Names : n = Downs'[p].name => Sub(n)' # None
      BY <1>2, <2>1, <2>2, <2>5
    <2>7. ASSUME NEW i \in Range(replies')
          PROVE  \E q \in 1 .. Len(Downs') : q < p /\ Downs'[q].id = i
      <3>1. PICK q \in 1 .. Len(Downs) : q < p + 1 /\ Downs[q].id = i
        BY <1>2, <2>3
      <3>2. q # 1
        BY <1>2, <3>1
      <3>3. q - 1 \in 1 .. Len(Downs') /\ Downs'[q - 1] = Downs[q]
        BY <1>4, <3>2
      <3>4. q - 1 < p
        BY <2>1, <3>1
      <3>. QED
        BY <3>1, <3>3, <3>4
    <2>8. ASSUME Downs'[p].k = "unsubscribe",
                 NEW q \in 1 .. Len(Downs'), p < q, Downs'[q].id = None
          PROVE  Downs'[q].name # Downs'[p].name /\ Downs'[p].count # 0
      <3>1. q + 1 \in 1 .. Len(Downs) /\ Downs'[q] = Downs[q + 1] /\ q \in Nat
        BY <1>3
      <3>2. p + 1 < q + 1
        BY <2>1, <2>8, <3>1
      <3>. QED
        BY <2>1, <2>4, <2>8, <3>1, <3>2
    <2>9. /\ "SUBSCRIBED" \in flags' /\ Downs'[p].name \in Names
          /\ Downs'[p].k \in {"message"} \cup Subscribing
          /\ Downs'[p].k \in Subscribing => invalid' = <<>>
      BY <1>2, <2>1, <2>2, <2>5
    <2>. QED
      BY <2>6, <2>7, <2>8, <2>9
  <1>7. Messages'
    BY <1>6 DEF Messages
  <1>8. /\ \A p \in 1 .. Len(Downs') : Downs'[p].k \in Subscribing => Downs'[p].id = None
        /\ \A p, q \in 1 .. Len(Downs') :
             Downs'[p].k \in Subscribing /\ Downs'[q].k \in Subscribing => p = q
    <2>1. ASSUME NEW p \in 1 .. Len(Downs'), Downs'[p].k \in Subscribing PROVE Downs'[p].id = None
      BY <1>1, <1>3, <2>1 DEF OneInFlight
    <2>2. ASSUME NEW p \in 1 .. Len(Downs'), NEW q \in 1 .. Len(Downs'),
                 Downs'[p].k \in Subscribing, Downs'[q].k \in Subscribing
          PROVE  p = q
      <3>1. p + 1 = q + 1
        BY <1>1, <1>3, <2>2 DEF OneInFlight
      <3>2. p \in Nat /\ q \in Nat
        BY <1>3
      <3>. QED
        BY <3>1, <3>2
    <2>. QED
      BY <2>1, <2>2
  <1>9. \A p \in 1 .. Len(Downs'), q \in 1 .. Len(Ups') :
          ~(Downs'[p].k \in Subscribing /\ Ups'[q].op \in Subscribing)
    BY <1>1, <1>2, <1>3 DEF OneInFlight
  <1>10. \A p, q \in 1 .. Len(Ups') :
           Ups'[p].op \in Subscribing /\ Ups'[q].op \in Subscribing => p = q
    BY <1>1, <1>2 DEF OneInFlight
  <1>11. ASSUME NEW q \in 1 .. Len(Ups'), Ups'[q].op \in Subscribing, NEW n, n = Ups'[q].name
         PROVE  Sub(n)' # None
    <2>1. q \in 1 .. Len(Ups) /\ Ups[q].op \in Subscribing /\ n = Ups[q].name
      BY <1>2, <1>11
    <2>2. Sub(n) # None /\ n \in Names
      BY <1>1, <2>1 DEF OneInFlight, Lines, Modes
    <2>3. ~Ends(n)
      BY <2>1, EndIsLast DEF Ends
    <2>. QED
      BY <1>2, <2>2, <2>3
  <1>12. OneInFlight'
    BY <1>8, <1>9, <1>10, <1>11 DEF OneInFlight
  <1>. QED
    BY <1>7, <1>12

(* The server has the same subscriptions as the context.                   *)
LEMMA ProcessedServed ==
  ASSUME AsyncTyped, Lines, Processed, srvup = "up"
  PROVE  Served' /\ Agreed'
  <1>1. Served /\ Agreed /\ Order /\ OneInFlight
    BY DEF Lines
  <1>2. /\ UNCHANGED <<Ups, srvsub>> /\ Range(replies') \subseteq Range(replies)
        /\ Downs[1].id \notin Range(replies') /\ 1 \in 1 .. Len(Downs)
        /\ \A i \in Range(replies) \cup Range(invalid) :
             i = Downs[1].id \/ i \in Range(replies') \cup Range(invalid')
    BY DEF Processed, Shifts
  <1>3. /\ "SUBSCRIBED" \in flags' <=> "SUBSCRIBED" \in flags /\ ~EndsAll
        /\ \A n \in Names : Sub(n)' = IF Ends(n) THEN None ELSE Sub(n)
    BY DEF Processed
  <1>4. \A p \in 1 .. Len(Downs') : p + 1 \in 1 .. Len(Downs) /\ Downs'[p] = Downs[p + 1]
    BY DEF Processed, Shifts
  <1>5. /\ \A i : i # Downs[1].id /\ InDowns(i) => InDowns(i)'
        /\ \A i : InUps(i)' <=> InUps(i)
    BY RestOfLine
  <1>6. /\ \A n : UnsubscribeBack(n)' => UnsubscribeBack(n)
        /\ \A n : UnsubscribeBack(n) => UnsubscribeBack(n)'
                      \/ (Downs[1].k = "unsubscribe" /\ Downs[1].name = n)
        /\ \A n : SubscribeSent(n)' <=> SubscribeSent(n)
    BY RestOfLine
  <1>7. Served'
    <2>1. \A i \in Range(replies') : InDowns(i)' \/ InUps(i)'
      BY <1>1, <1>2, <1>5 DEF Served
    <2>2. ASSUME NEW q \in 1 .. Len(Ups), Ups[q].op = "command"
          PROVE  Ups[q].id \in Range(replies') \cup Range(invalid')
      <3>1. Ups[q].id \in Range(replies) \cup Range(invalid)
        BY <1>1, <2>2 DEF Served
      <3>2. Downs[1].id \in Nat => Downs[1].id < Ups[q].id
        BY <1>1, <1>2 DEF Order
      <3>3. Ups[q].id \in Nat
        BY EntryTypes
      <3>4. Ups[q].id # Downs[1].id
        BY <3>2, <3>3
      <3>. QED
        BY <1>2, <3>1, <3>4
    <2>3. srvsub # {} => "SUBSCRIBED" \in flags' /\ \A i \in Range(replies') : InDowns(i)'
      <3>1. EndsAll => srvsub = {}
        BY EndIsLast DEF EndsAll
      <3>. QED
        BY <1>1, <1>2, <1>3, <1>5, <3>1 DEF Served
    <2>4. \A p \in 1 .. Len(Downs') : Downs'[p].k = "unsubscribe" =>
            Downs'[p].name \notin srvsub /\ Downs'[p].count = Cardinality(srvsub)
      BY <1>1, <1>4 DEF Served
    <2>. QED
      BY <1>2, <2>1, <2>2, <2>3, <2>4 DEF Served
  <1>8. ASSUME NEW n \in Names
        PROVE  Sub(n)' # None <=> n \in srvsub \/ SubscribeSent(n)' \/ UnsubscribeBack(n)'
    <2>1. CASE Ends(n)
      <3>1. /\ n \notin srvsub
            /\ \A q \in 1 .. Len(Ups) : Ups[q].op \notin Subscribing
            /\ \A q \in 1 .. Len(Downs') : Downs'[q].k \notin Subscribing
        BY <2>1, EndIsLast DEF Ends
      <3>2. ~SubscribeSent(n) /\ ~UnsubscribeBack(n)'
        BY <3>1 DEF SubscribeSent, UnsubscribeBack, Subscribing
      <3>. QED
        BY <1>3, <1>6, <2>1, <3>1, <3>2
    <2>2. CASE ~Ends(n)
      <3>1. Sub(n)' = Sub(n) /\ (UnsubscribeBack(n)' <=> UnsubscribeBack(n))
        BY <1>3, <1>6, <2>2 DEF Ends
      <3>2. Sub(n) # None <=> n \in srvsub \/ SubscribeSent(n) \/ UnsubscribeBack(n)
        BY <1>1 DEF Agreed
      <3>. QED
        BY <1>6, <3>1, <3>2
    <2>. QED
      BY <2>1, <2>2
  <1>9. ASSUME "SUBSCRIBED" \in flags'
        PROVE  srvsub # {} \/ \E n \in Names : SubscribeSent(n)' \/ UnsubscribeBack(n)'
    <2>1. "SUBSCRIBED" \in flags /\ ~EndsAll
      BY <1>3, <1>9
    <2>2. CASE Downs[1].k = "unsubscribe"
      BY <2>1, <2>2, EndIsLast DEF EndsAll
    <2>3. CASE Downs[1].k # "unsubscribe"
      BY <1>1, <1>6, <2>1, <2>3 DEF Agreed
    <2>. QED
      BY <2>2, <2>3
  <1>10. Agreed'
    BY <1>2, <1>8, <1>9 DEF Agreed
  <1>. QED
    BY <1>7, <1>10

(* Taking the first entry preserves the invariant of the lines.            *)
LEMMA ProcessedLines ==
  ASSUME AsyncTyped, Lines, Processed
  PROVE  Lines'
  <1>1. srvup' = srvup
    BY DEF Processed
  <1>. QED
    BY <1>1, ProcessedModes, ProcessedOrder, ProcessedMessages, ProcessedServed DEF Lines

(* The reply is the first entry of the line.                               *)
LEMMA FirstTaken ==
  ASSUME AsyncIInv, Take, UNCHANGED <<obuf, server>>
  PROVE  /\ ~Leaving /\ Lines /\ AsyncTyped /\ Shifts(Downs', Downs) /\ Ups' = Ups
         /\ Head(ibuf) = Downs[1] /\ Downs[1] \in Answers /\ 1 \in 1 .. Len(Downs)
         /\ Downs[1].id \in Nat \cup {None} /\ ibuf' \in Seq(Answers)
  <1>1. AsyncTyped /\ ~Leaving /\ Lines
    BY DEF AsyncIInv, Basics, Take, Leaving
  <1>2. ibuf \in Seq(Answers) /\ down \in Seq(Answers) /\ ibuf # <<>> /\ ibuf' = Tail(ibuf)
        /\ down' = down /\ sent' = sent
    BY <1>1 DEF AsyncTyped, Take, server
  <1>3. /\ Tail(ibuf) \o down = Tail(ibuf \o down) /\ Head(ibuf \o down) = Head(ibuf)
        /\ ibuf \o down # <<>> /\ Tail(ibuf) \in Seq(Answers) /\ ibuf \o down \in Seq(Answers)
    BY <1>2, JoinTail
  <1>4. Downs' = Tail(Downs) /\ Downs # <<>> /\ Downs \in Seq(Answers) /\ Head(Downs) = Head(ibuf)
    BY <1>2, <1>3 DEF Downs
  <1>5. Shifts(Tail(Downs), Downs) /\ Head(Downs) = Downs[1] /\ Head(Downs) \in Answers
    BY <1>4, TailShifts
  <1>6. 1 \in 1 .. Len(Downs)
    BY <1>5 DEF Shifts
  <1>7. Downs[1].id \in Nat \cup {None}
    BY <1>1, <1>6, EntryTypes
  <1>8. Ups' = Ups
    BY <1>2 DEF Ups
  <1>. QED
    BY <1>1, <1>2, <1>3, <1>4, <1>5, <1>6, <1>7, <1>8

(* The reply in front is that of the oldest command.                       *)
LEMMA FirstAnswered ==
  ASSUME AsyncTyped, Waiting, Lines, replies # <<>>, 1 \in 1 .. Len(Downs),
         srvup # "refused"
  PROVE  Downs[1].id = Head(replies)
  <1>. DEFINE h == Head(replies)
  <1>1. Order /\ Messages
    BY DEF Lines
  <1>2. replies \in Seq(Ids) /\ \A p, q \in 1 .. Len(replies) : p < q => replies[p] < replies[q]
    BY DEF AsyncTyped, Waiting
  <1>3. (\A i \in Range(Tail(replies)) : h < i) /\ h \in Ids
    BY <1>2, FirstLeast
  <1>4. Range(replies) = {h} \cup Range(Tail(replies))
    BY <1>2, TailShifts
  <1>5. invalid = <<>> /\ Range(<<>>) = {}
    BY DEF Waiting, Range
  <1>6. Downs[1].id \in Nat \cup {None} /\ h \in Nat
    BY <1>3, EntryTypes
  <1>. HIDE DEF h
  <1>7. Downs[1].id # None
    <2>1. SUFFICES ASSUME Downs[1].id = None PROVE FALSE
      OBVIOUS
    <2>2. \E q \in 1 .. Len(Downs) : q < 1 /\ Downs[q].id = h
      BY <1>1, <1>4, <2>1 DEF Messages
    <2>. QED
      BY <2>2
  <1>8. Downs[1].id \in Nat
    BY <1>6, <1>7
  <1>9. /\ Downs[1].id \in Range(replies)
        /\ \A q \in 1 .. Len(Downs) :
             1 < q /\ Downs[q].id \in Nat => Downs[1].id < Downs[q].id
        /\ h < Downs[1].id => InDowns(h)
    BY <1>1, <1>4, <1>5, <1>8 DEF Order
  <1>10. SUFFICES ASSUME h < Downs[1].id PROVE FALSE
    BY <1>3, <1>4, <1>9 DEF h
  <1>11. PICK p \in 1 .. Len(Downs) : Downs[p].id = h
    BY <1>9, <1>10 DEF InDowns
  <1>12. p # 1
    BY <1>6, <1>8, <1>10, <1>11
  <1>13. Downs[1].id < h
    BY <1>6, <1>9, <1>11, <1>12
  <1>. QED
    BY <1>6, <1>8, <1>10, <1>13

(* The first callback of a list is run and leaves it.                      *)
LEMMA FirstSettled ==
  ASSUME NEW list, list \in {replies, invalid}, list # <<>>, AsyncTyped, Waiting,
         NEW x \in {"reply", "null"}, fate' = [fate EXCEPT ![Head(list)] = x],
         \/ list = replies /\ replies' = Tail(replies) /\ invalid' = invalid
         \/ list = invalid /\ invalid' = Tail(invalid) /\ replies' = replies,
         issued' = issued
  PROVE  /\ Waiting' /\ replies' \in Seq(Ids) /\ invalid' \in Seq(Ids)
         /\ fate' \in [Ids -> Fates]
         /\ Range(replies') \subseteq Range(replies)
         /\ \A i \in Range(replies) \cup Range(invalid) :
              i = Head(list) \/ i \in Range(replies') \cup Range(invalid')
         /\ Head(list) \notin Range(replies') \cup Range(invalid') /\ Head(list) \in Ids
  <1>. DEFINE h == Head(list)
              t == Tail(list)
  <1>1. replies \in Seq(Ids) /\ invalid \in Seq(Ids) /\ fate \in [Ids -> Fates]
        /\ issued \in 0 .. MaxCmds /\ list \in Seq(Ids)
    BY DEF AsyncTyped
  <1>2. /\ \A i \in Ids : fate[i] = "waiting" <=> i \in Range(replies) \cup Range(invalid)
        /\ \A i \in Ids : i > issued => fate[i] = "new"
        /\ replies = <<>> \/ invalid = <<>>
    BY DEF Waiting
  <1>3. /\ \A p, q \in 1 .. Len(replies) : p < q => replies[p] < replies[q]
        /\ \A p, q \in 1 .. Len(invalid) : p < q => invalid[p] < invalid[q]
    BY DEF Waiting
  <1>4. \A p, q \in 1 .. Len(list) : p < q => list[p] < list[q]
    BY <1>3
  <1>5. /\ h \notin Range(t) /\ h \in Ids
        /\ \A p, q \in 1 .. Len(t) : p < q => t[p] < t[q]
    BY <1>1, <1>4, FirstLeast
  <1>6. t \in Seq(Ids) /\ Range(list) = {h} \cup Range(t)
    BY <1>1, TailShifts
  <1>7. Range(<<>>) = {}
    BY DEF Range
  <1>. HIDE DEF h, t
  <1>8. CASE list = replies /\ replies' = t /\ invalid' = invalid
    <2>1. invalid = <<>> /\ Range(invalid) = {}
      BY <1>2, <1>7, <1>8
    <2>2. Range(replies') = Range(t) /\ Range(invalid') = {} /\ Range(replies) = {h} \cup Range(t)
      BY <1>6, <1>8, <2>1
    <2>3. fate' = [fate EXCEPT ![h] = x] /\ x # "waiting" /\ x \in Fates
      BY DEF h, Fates
    <2>4. \A i \in Ids : fate'[i] = "waiting" <=> i \in Range(replies') \cup Range(invalid')
      BY <1>1, <1>2, <1>5, <2>1, <2>2, <2>3
    <2>5. \A i \in Ids : i > issued' => fate'[i] = "new"
      <3>1. fate[h] = "waiting"
        BY <1>2, <1>5, <2>2
      <3>2. ~(h > issued)
        BY <1>2, <1>5, <3>1
      <3>. QED
        BY <1>1, <1>2, <2>3, <3>2
    <2>6. fate' \in [Ids -> Fates]
      BY <1>1, <2>3
    <2>7. Waiting'
      <3>1. \A p, q \in 1 .. Len(replies') : p < q => replies'[p] < replies'[q]
        BY <1>5, <1>8
      <3>2. \A p, q \in 1 .. Len(invalid') : p < q => invalid'[p] < invalid'[q]
        BY <1>3, <1>8
      <3>. QED
        BY <1>8, <2>1, <2>4, <2>5, <3>1, <3>2 DEF Waiting
    <2>8. h \notin Range(replies') \cup Range(invalid')
      BY <1>5, <2>2
    <2>. QED
      BY <1>1, <1>5, <1>6, <1>8, <2>1, <2>2, <2>6, <2>7, <2>8 DEF h
  <1>9. CASE list = invalid /\ invalid' = t /\ replies' = replies
    <2>1. replies = <<>> /\ Range(replies) = {}
      BY <1>2, <1>7, <1>9
    <2>2. Range(invalid') = Range(t) /\ Range(replies') = {} /\ Range(invalid) = {h} \cup Range(t)
      BY <1>6, <1>9, <2>1
    <2>3. fate' = [fate EXCEPT ![h] = x] /\ x # "waiting" /\ x \in Fates
      BY DEF h, Fates
    <2>4. \A i \in Ids : fate'[i] = "waiting" <=> i \in Range(replies') \cup Range(invalid')
      BY <1>1, <1>2, <1>5, <2>1, <2>2, <2>3
    <2>5. \A i \in Ids : i > issued' => fate'[i] = "new"
      <3>1. fate[h] = "waiting"
        BY <1>2, <1>5, <2>2
      <3>2. ~(h > issued)
        BY <1>2, <1>5, <3>1
      <3>. QED
        BY <1>1, <1>2, <2>3, <3>2
    <2>6. fate' \in [Ids -> Fates]
      BY <1>1, <2>3
    <2>7. Waiting'
      <3>1. \A p, q \in 1 .. Len(invalid') : p < q => invalid'[p] < invalid'[q]
        BY <1>5, <1>9
      <3>2. \A p, q \in 1 .. Len(replies') : p < q => replies'[p] < replies'[q]
        BY <1>3, <1>9
      <3>. QED
        BY <1>9, <2>1, <2>4, <2>5, <3>1, <3>2 DEF Waiting
    <2>8. h \notin Range(replies') \cup Range(invalid')
      BY <1>5, <2>2
    <2>. QED
      BY <1>1, <1>5, <1>6, <1>9, <2>1, <2>2, <2>6, <2>7, <2>8 DEF h
  <1>. QED
    BY <1>8, <1>9 DEF t

(* The reply of a command ends no subscription.                            *)
LEMMA ReplyEndsNone ==
  ASSUME Lines, 1 \in 1 .. Len(Downs), Downs[1].id # None
  PROVE  ~EndsAll /\ \A n : ~Ends(n)
  <1>1. srvup # "refused" => Downs[1].k \notin Subscribing
    BY DEF Lines, OneInFlight
  <1>. QED
    BY <1>1 DEF EndsAll, Ends, Subscribing

(* A regular callback gets the reply of its own command.                   *)
LEMMA RegularInv ==
  ASSUME AsyncIInv, ProcessRegular
  PROVE  AsyncIInv'
  <1>0. /\ Take /\ replies # <<>> /\ Settle(Head(replies), Head(ibuf)) /\ replies' = Tail(replies)
        /\ flags' = flags \cup {"IN_CALLBACK"} /\ pc' = "callback"
        /\ UNCHANGED <<err, invalid, dict, obuf, server, issued, worker, bad>>
    BY DEF ProcessRegular, RunCallback
  <1>1. /\ ~Leaving /\ Lines /\ AsyncTyped /\ Shifts(Downs', Downs) /\ Ups' = Ups
        /\ Head(ibuf) = Downs[1] /\ Downs[1] \in Answers /\ 1 \in 1 .. Len(Downs)
        /\ Downs[1].id \in Nat \cup {None} /\ ibuf' \in Seq(Answers)
    BY <1>0, FirstTaken
  <1>2. Basics /\ Waiting /\ Dicts
    BY DEF AsyncIInv, Basics
  <1>3. srvup # "refused" => Downs[1].id = Head(replies)
    BY <1>0, <1>1, <1>2, FirstAnswered
  <1>4. srvup = "refused" => Downs[1].id = 0
    BY <1>1 DEF Lines, Refused
  <1>5. fate' = [fate EXCEPT ![Head(replies)] = "reply"]
    <2>1. Downs[1] # None /\ Downs[1].id \in {Head(replies), 0}
      BY <1>1, <1>3, <1>4, AsyncAssumption
    <2>. QED
      BY <1>0, <1>1, <2>1 DEF Settle
  <1>6. /\ Waiting' /\ replies' \in Seq(Ids) /\ invalid' \in Seq(Ids)
        /\ fate' \in [Ids -> Fates]
        /\ Range(replies') \subseteq Range(replies)
        /\ \A i \in Range(replies) \cup Range(invalid) :
             i = Head(replies) \/ i \in Range(replies') \cup Range(invalid')
        /\ Head(replies) \notin Range(replies') \cup Range(invalid') /\ Head(replies) \in Ids
    BY <1>0, <1>1, <1>2, <1>5, FirstSettled
  <1>7. AsyncTyped'
    BY <1>0, <1>1, <1>6 DEF AsyncTyped, server
  <1>8. Downs[1].id # None
    <2>1. Head(replies) \in Nat /\ None \notin Nat
      BY <1>1, <1>6, EntryTypes
    <2>. QED
      BY <1>3, <1>4, <2>1
  <1>9. Processed
    <2>1. Downs[1].id \notin Range(replies')
      <3>1. 0 \notin Ids /\ Range(replies) \subseteq Ids
        BY <1>1, EntryTypes DEF Ids
      <3>. QED
        BY <1>3, <1>4, <1>6, <3>1
    <2>2. "SUBSCRIBED" \in flags' <=> "SUBSCRIBED" \in flags
      BY <1>0
    <2>3. \A n : Sub(n)' = Sub(n)
      BY <1>0 DEF Sub, DictOf
    <2>4. UNCHANGED <<Ups, issued, srvsub, srvup, invalid>>
      BY <1>0, <1>1 DEF server
    <2>5. ~EndsAll /\ \A n : ~Ends(n)
      BY <1>1, <1>8, ReplyEndsNone
    <2>6. srvup # "refused" => \A i \in Range(replies) \cup Range(invalid) :
            i = Downs[1].id \/ i \in Range(replies') \cup Range(invalid')
      BY <1>3, <1>6
    <2>. QED
      BY <1>1, <1>6, <2>1, <2>2, <2>3, <2>4, <2>5, <2>6 DEF Processed
  <1>10. Lines'
    BY <1>1, <1>9, ProcessedLines
  <1>11. ~Leaving' /\ pc' # "freed" /\ Dicts'
    BY <1>0, <1>2 DEF Leaving, Dicts
  <1>12. Basics'
    BY <1>0, <1>2, <1>6, <1>7, <1>11 DEF Basics, server
  <1>. QED
    BY <1>10, <1>12 DEF AsyncIInv

(* Only a server that refuses the connection sends the unexpected.         *)
LEMMA SpontaneousInv ==
  ASSUME AsyncIInv, ProcessSpontaneous
  PROVE  AsyncIInv'
  <1>0. /\ Take /\ replies = <<>> /\ "SUBSCRIBED" \notin flags
        /\ UNCHANGED <<replies, invalid, dict, obuf, server, fate, issued, worker>>
    BY DEF ProcessSpontaneous
  <1>1. /\ ~Leaving /\ Lines /\ AsyncTyped /\ Shifts(Downs', Downs) /\ Ups' = Ups
        /\ Head(ibuf) = Downs[1] /\ Downs[1] \in Answers /\ 1 \in 1 .. Len(Downs)
        /\ Downs[1].id \in Nat \cup {None} /\ ibuf' \in Seq(Answers)
    BY <1>0, FirstTaken
  <1>2. Basics /\ Waiting /\ Dicts
    BY DEF AsyncIInv, Basics
  <1>3. srvup = "refused"
    <2>1. SUFFICES ASSUME srvup # "refused" PROVE FALSE
      BY <1>1 DEF AsyncTyped
    <2>2. Modes /\ Order /\ Messages
      BY <1>1, <2>1 DEF Lines
    <2>3. Downs[1].id \in Nat
      BY <1>0, <1>1, <2>2 DEF Messages
    <2>4. Downs[1].id \in Range(replies) \cup Range(invalid)
      BY <1>1, <2>2, <2>3 DEF Order
    <2>5. invalid = <<>>
      BY <1>0, <2>2 DEF Modes
    <2>. QED
      BY <1>0, <2>4, <2>5 DEF Range
  <1>4. Dicts' /\ Waiting'
    BY <1>0, <1>2 DEF Dicts, Waiting
  <1>5. CASE err' = "other" /\ AsyncDisconnect
    <2>1. flags' = flags \cup {"DISCONNECTING"} /\ pc' = "free" /\ bad' = bad
      BY <1>5 DEF AsyncDisconnect
    <2>2. AsyncTyped' /\ Leaving' /\ Closing' /\ pc' # "freed"
      BY <1>0, <1>1, <2>1 DEF AsyncTyped, server, Leaving, Closing
    <2>. QED
      BY <1>0, <1>3, <1>4, <2>2 DEF AsyncIInv, Basics, server
  <1>6. CASE bad' = "spontaneous" /\ UNCHANGED <<flags, err, pc>>
    <2>1. AsyncTyped' /\ ~Leaving' /\ pc' # "freed"
      BY <1>0, <1>1, <1>6 DEF AsyncTyped, server, Leaving
    <2>2. Processed
      <3>1. \A n : Sub(n)' = Sub(n)
        BY <1>0 DEF Sub, DictOf
      <3>2. UNCHANGED <<Ups, issued, srvsub, srvup, invalid, replies, flags>>
        BY <1>0, <1>1, <1>6 DEF server
      <3>3. ~EndsAll /\ \A n : ~Ends(n)
        BY <1>3 DEF EndsAll, Ends
      <3>4. Range(replies) = {}
        BY <1>0 DEF Range
      <3>. QED
        BY <1>1, <1>3, <3>1, <3>2, <3>3, <3>4 DEF Processed
    <2>3. Lines'
      BY <1>1, <2>2, ProcessedLines
    <2>. QED
      BY <1>0, <1>3, <1>4, <2>1, <2>3 DEF AsyncIInv, Basics, server
  <1>. QED
    BY <1>5, <1>6 DEF ProcessSpontaneous

(* A reply that cannot be read takes the context down.                     *)
LEMMA ErrorInv ==
  ASSUME AsyncIInv, ProcessError
  PROVE  AsyncIInv'
  <1>0. /\ pc' = "free" /\ flags' = flags \cup {"DISCONNECTING"} /\ bad' = bad /\ ibuf' = <<>>
        /\ UNCHANGED <<replies, invalid, dict, obuf, server, fate, issued>>
    BY DEF ProcessError, AsyncDisconnect
  <1>1. AsyncTyped' /\ Leaving' /\ Closing' /\ pc' # "freed"
    <2>1. <<>> \in Seq(Answers) /\ AsyncTyped
      BY DEF AsyncIInv, Basics
    <2>. QED
      BY <1>0, <2>1 DEF AsyncTyped, server, Leaving, Closing
  <1>2. Dicts' /\ Waiting'
    BY <1>0 DEF AsyncIInv, Basics, Dicts, Waiting
  <1>. QED
    BY <1>0, <1>1, <1>2 DEF AsyncIInv, Basics, server

(* A message finds the callback of its subscription.                       *)
LEMMA MessageInv ==
  ASSUME AsyncIInv, ProcessMessage
  PROVE  AsyncIInv'
  <1>0. /\ Take /\ replies = <<>> /\ "SUBSCRIBED" \in flags /\ Head(ibuf).id = None
        /\ UNCHANGED <<err, replies, invalid, obuf, server, fate, issued, worker>>
    BY DEF ProcessMessage
  <1>1. /\ ~Leaving /\ Lines /\ AsyncTyped /\ Shifts(Downs', Downs) /\ Ups' = Ups
        /\ Head(ibuf) = Downs[1] /\ Downs[1] \in Answers /\ 1 \in 1 .. Len(Downs)
        /\ Downs[1].id \in Nat \cup {None} /\ ibuf' \in Seq(Answers)
    BY <1>0, FirstTaken
  <1>2. Basics /\ Waiting /\ Dicts
    BY DEF AsyncIInv, Basics
  <1>3. srvup # "refused"
    <2>1. 0 # None
      BY AsyncAssumption
    <2>. QED
      BY <1>0, <1>1, <2>1 DEF Lines, Refused
  <1>4. PICK n \in Names : n = Downs[1].name /\ Sub(n) # None
    BY <1>0, <1>1, <1>3 DEF Lines, Messages
  <1>5. Waiting'
    BY <1>0, <1>2 DEF Waiting
  <1>6. /\ IF Downs[1].k = "unsubscribe"
           THEN /\ dict' = [dict EXCEPT ![n[1]] = dictDelete(@, n)]
                /\ flags' = StillSubscribed(Downs[1].count) \cup {"IN_CALLBACK"}
           ELSE flags' = flags \cup {"IN_CALLBACK"} /\ UNCHANGED dict
        /\ pc' = "callback" /\ UNCHANGED bad
    BY <1>1, <1>4 DEF ProcessMessage, Sub
  <1>7. AsyncTyped'
    BY <1>0, <1>1, <1>6 DEF AsyncTyped, server, StillSubscribed
  <1>8. /\ Dicts' /\ \A m \in Names : Sub(m)' = IF Ends(m) THEN None ELSE Sub(m)
    <2>1. CASE Downs[1].k = "unsubscribe"
      <3>1. Dicts' /\ Sub(n)' = None /\ \A m \in Names : m # n => Sub(m)' = Sub(m)
        <4>1. dict' = [dict EXCEPT ![n[1]] = dictDelete(@, n)]
          BY <1>6, <2>1
        <4>. QED
          BY <1>2, <4>1, SubDeleted
      <3>2. \A m : Ends(m) <=> m = n
        BY <1>3, <1>4, <2>1 DEF Ends
      <3>. QED
        BY <3>1, <3>2
    <2>2. CASE Downs[1].k # "unsubscribe"
      <3>1. dict' = dict /\ \A m : ~Ends(m)
        BY <1>6, <2>2 DEF Ends
      <3>. QED
        BY <1>2, <3>1 DEF Dicts, Sub, DictOf
    <2>. QED
      BY <2>1, <2>2
  <1>9. "SUBSCRIBED" \in flags' <=> "SUBSCRIBED" \in flags /\ ~EndsAll
    BY <1>3, <1>6 DEF EndsAll, StillSubscribed
  <1>10. Processed
    <2>1. UNCHANGED <<Ups, issued, srvsub, srvup, invalid, replies>>
      BY <1>0, <1>1 DEF server
    <2>2. Range(replies) = {}
      BY <1>0 DEF Range
    <2>. QED
      BY <1>1, <1>8, <1>9, <2>1, <2>2 DEF Processed
  <1>11. Lines'
    BY <1>1, <1>10, ProcessedLines
  <1>12. ~Leaving' /\ pc' # "freed"
    BY <1>6 DEF Leaving
  <1>13. Basics'
    BY <1>0, <1>2, <1>5, <1>6, <1>7, <1>8, <1>12 DEF Basics, server
  <1>. QED
    BY <1>11, <1>13 DEF AsyncIInv

(* The one command issued while subscribed gets its reply.                 *)
LEMMA InvalidInv ==
  ASSUME AsyncIInv, ProcessInvalid
  PROVE  AsyncIInv'
  <1>0. /\ Take /\ replies = <<>> /\ "SUBSCRIBED" \in flags /\ Head(ibuf).id # None
        /\ UNCHANGED <<err, replies, dict, obuf, server, issued, worker>>
    BY DEF ProcessInvalid
  <1>1. /\ ~Leaving /\ Lines /\ AsyncTyped /\ Shifts(Downs', Downs) /\ Ups' = Ups
        /\ Head(ibuf) = Downs[1] /\ Downs[1] \in Answers /\ 1 \in 1 .. Len(Downs)
        /\ Downs[1].id \in Nat \cup {None} /\ ibuf' \in Seq(Answers)
    BY <1>0, FirstTaken
  <1>2. Basics /\ Waiting /\ Dicts
    BY DEF AsyncIInv, Basics
  <1>3. Dicts' /\ \A n : Sub(n)' = Sub(n)
    BY <1>0, <1>2 DEF Dicts, Sub, DictOf
  <1>4. ~EndsAll /\ \A n : ~Ends(n)
    BY <1>0, <1>1, ReplyEndsNone
  <1>5. Range(replies) = {} /\ Range(<<>>) = {}
    BY <1>0 DEF Range
  <1>6. srvup # "refused" => Downs[1].id \in Range(invalid)
    <2>1. Downs[1].id \in Nat
      BY <1>0, <1>1
    <2>. QED
      BY <1>1, <1>5, <2>1 DEF Lines, Order
  <1>7. srvup = "refused" => Downs[1].id = 0
    BY <1>1 DEF Lines, Refused
  <1>8. CASE invalid = <<>>
    <2>1. bad' = "stale" /\ UNCHANGED <<flags, invalid, fate, pc>>
      BY <1>8 DEF ProcessInvalid
    <2>2. srvup = "refused"
      BY <1>5, <1>6, <1>8
    <2>3. AsyncTyped' /\ ~Leaving' /\ pc' # "freed" /\ Waiting'
      BY <1>0, <1>1, <1>2, <2>1 DEF AsyncTyped, server, Leaving, Waiting
    <2>4. Processed
      <3>1. UNCHANGED <<Ups, issued, srvsub, srvup, invalid, replies, flags>>
        BY <1>0, <1>1, <2>1 DEF server
      <3>. QED
        BY <1>1, <1>3, <1>4, <1>5, <2>2, <3>1 DEF Processed
    <2>5. Lines'
      BY <1>1, <2>4, ProcessedLines
    <2>. QED
      BY <1>0, <1>3, <2>2, <2>3, <2>5 DEF AsyncIInv, Basics, server
  <1>9. CASE invalid # <<>>
    <2>1. /\ Settle(Head(invalid), Head(ibuf)) /\ invalid' = Tail(invalid) /\ bad' = bad
          /\ flags' = flags \cup {"IN_CALLBACK"} /\ pc' = "callback"
      BY <1>9 DEF ProcessInvalid, RunCallback
    <2>2. invalid \in Seq(Ids) /\ Len(invalid) = 1
      BY <1>1, <1>9 DEF Lines, Modes, AsyncTyped
    <2>3. Tail(invalid) = <<>> /\ Range(invalid) = {Head(invalid)}
      <3>1. Tail(invalid) \in Seq(Ids) /\ Len(Tail(invalid)) = 0
        BY <2>2
      <3>2. Tail(invalid) = <<>>
        BY <3>1, EmptySeq
      <3>3. Range(invalid) = {Head(invalid)} \cup Range(Tail(invalid))
        BY <1>9, <2>2, TailShifts
      <3>. QED
        BY <1>5, <3>2, <3>3
    <2>4. Downs[1].id \in {Head(invalid), 0} /\ Downs[1] # None
      BY <1>1, <1>6, <1>7, <2>3, AsyncAssumption
    <2>5. fate' = [fate EXCEPT ![Head(invalid)] = "reply"]
      BY <1>1, <2>1, <2>4 DEF Settle
    <2>6. /\ Waiting' /\ replies' \in Seq(Ids) /\ invalid' \in Seq(Ids)
          /\ fate' \in [Ids -> Fates]
      BY <1>0, <1>1, <1>2, <1>9, <2>1, <2>5, FirstSettled
    <2>7. AsyncTyped' /\ ~Leaving' /\ pc' # "freed"
      BY <1>0, <1>1, <2>1, <2>6 DEF AsyncTyped, server, Leaving
    <2>8. Processed
      <3>1. UNCHANGED <<Ups, issued, srvsub, srvup, replies>>
            /\ ("SUBSCRIBED" \in flags' <=> "SUBSCRIBED" \in flags) /\ invalid' = <<>>
        BY <1>0, <1>1, <2>1, <2>3 DEF server
      <3>2. srvup # "refused" => \A i \in Range(replies) \cup Range(invalid) : i = Downs[1].id
        BY <1>5, <1>6, <2>3
      <3>. QED
        BY <1>1, <1>3, <1>4, <1>5, <3>1, <3>2 DEF Processed
    <2>9. Lines'
      BY <1>1, <2>8, ProcessedLines
    <2>. QED
      BY <1>0, <1>2, <1>3, <2>1, <2>6, <2>7, <2>9 DEF AsyncIInv, Basics, server
  <1>. QED
    BY <1>8, <1>9

(***************************************************************************)
(* The context is freed.                                                   *)
(***************************************************************************)
(* A pending callback is run with NULL.                                    *)
LEMMA FreeRunsPendingInv ==
  ASSUME AsyncIInv, FreeRunsPending
  PROVE  AsyncIInv'
  <1>0. /\ pc = "free" /\ replies \o invalid # <<>> /\ flags' = flags \cup {"IN_CALLBACK"}
        /\ pc' = "last"
        /\ UNCHANGED <<err, dict, obuf, ibuf, server, issued, worker, bad>>
    BY DEF FreeRunsPending
  <1>1. AsyncTyped /\ Dicts /\ Waiting /\ Closing /\ Basics
    BY <1>0 DEF AsyncIInv, Basics, Leaving
  <1>2. ASSUME NEW i, Settle(i, None) PROVE fate' = [fate EXCEPT ![i] = "null"]
    BY <1>2 DEF Settle
  <1>3. Waiting' /\ replies' \in Seq(Ids) /\ invalid' \in Seq(Ids) /\ fate' \in [Ids -> Fates]
    <2>1. CASE replies # <<>>
      <3>1. Settle(Head(replies), None) /\ replies' = Tail(replies) /\ invalid' = invalid
        BY <2>1 DEF FreeRunsPending
      <3>2. fate' = [fate EXCEPT ![Head(replies)] = "null"]
        BY <1>2, <3>1
      <3>. QED
        BY <1>0, <1>1, <2>1, <3>1, <3>2, FirstSettled
    <2>2. CASE replies = <<>>
      <3>1. Settle(Head(invalid), None) /\ invalid' = Tail(invalid) /\ replies' = replies
        BY <2>2 DEF FreeRunsPending
      <3>2. fate' = [fate EXCEPT ![Head(invalid)] = "null"]
        BY <1>2, <3>1
      <3>3. invalid # <<>>
        BY <1>0, <2>2
      <3>. QED
        BY <1>0, <1>1, <3>1, <3>2, <3>3, FirstSettled
    <2>. QED
      BY <2>1, <2>2
  <1>4. AsyncTyped' /\ Dicts' /\ Leaving' /\ Closing' /\ pc' # "freed"
    BY <1>0, <1>1, <1>3 DEF AsyncTyped, server, Dicts, Leaving, Closing
  <1>. QED
    BY <1>0, <1>1, <1>3, <1>4 DEF AsyncIInv, Basics, server

(* The context is freed when both lists are empty.                         *)
LEMMA FreeEndsInv ==
  ASSUME AsyncIInv, FreeEnds
  PROVE  AsyncIInv'
  <1>0. /\ pc = "free" /\ replies \o invalid = <<>> /\ pc' = "freed"
        /\ dict' = [v \in {"ch", "pat"} |-> dictCreate]
        /\ obuf' = <<>> /\ ibuf' = <<>>
        /\ UNCHANGED <<flags, err, replies, invalid, server, fate, issued, listed, bad>>
    BY DEF FreeEnds
  <1>1. AsyncTyped /\ Waiting /\ Closing /\ Basics
    BY <1>0 DEF AsyncIInv, Basics, Leaving
  <1>2. replies = <<>> /\ invalid = <<>>
    <2>1. replies \in Seq(Ids) /\ invalid \in Seq(Ids)
      BY <1>1 DEF AsyncTyped
    <2>2. Len(replies \o invalid) = Len(replies) + Len(invalid)
      BY <2>1
    <2>3. Len(replies) = 0 /\ Len(invalid) = 0
      BY <1>0, <2>1, <2>2
    <2>. QED
      BY <2>1, <2>3
  <1>3. Dicts'
    BY <1>0, CreatedDict DEF Dicts
  <1>4. AsyncTyped'
    <2>1. <<>> \in Seq(Commands) /\ <<>> \in Seq(Answers)
      OBVIOUS
    <2>. QED
      BY <1>0, <1>1, <2>1 DEF AsyncTyped, server
  <1>5. Waiting' /\ Leaving' /\ Closing'
    BY <1>0, <1>1 DEF Waiting, Leaving, Closing
  <1>. QED
    BY <1>0, <1>1, <1>2, <1>3, <1>4, <1>5 DEF AsyncIInv, Basics, server

(* A connection that was just made satisfies the invariant.                *)
LEMMA AsyncInit == Init => AsyncIInv
  <1>. SUFFICES ASSUME Init PROVE AsyncIInv
    OBVIOUS
  <1>1. Dicts /\ \A n \in Names : Sub(n) = None
    BY SubCreated DEF Init
  <1>2. /\ flags = {} /\ replies = <<>> /\ invalid = <<>> /\ obuf = <<>> /\ ibuf = <<>>
        /\ sent = <<>> /\ down = <<>> /\ srvsub = {} /\ srvup = "up" /\ issued = 0
        /\ fate = [i \in Ids |-> "new"] /\ pc = "loop" /\ bad = "no"
    BY DEF Init
  <1>3. Ups = <<>> /\ Downs = <<>> /\ Len(<<>>) = 0 /\ 1 .. 0 = {} /\ Range(<<>>) = {}
    BY <1>2 DEF Ups, Downs, Range
  <1>4. AsyncTyped
    <2>1. <<>> \in Seq(Commands) /\ <<>> \in Seq(Answers) /\ <<>> \in Seq(Ids)
      OBVIOUS
    <2>2. IsFiniteSet({}) /\ 0 \in 0 .. MaxCmds
      BY FS_EmptySet, AsyncAssumption
    <2>3. fate \in [Ids -> Fates]
      BY <1>2 DEF Fates
    <2>. QED
      BY <1>2, <2>1, <2>2, <2>3 DEF AsyncTyped
  <1>5. Waiting
    BY <1>2, <1>3 DEF Waiting
  <1>6. Basics /\ ~Leaving
    BY <1>1, <1>2, <1>4, <1>5 DEF Basics, Leaving
  <1>7. Modes /\ Order /\ Messages /\ OneInFlight
    BY <1>2, <1>3 DEF Modes, Order, Messages, OneInFlight
  <1>8. Served /\ Agreed
    BY <1>1, <1>2, <1>3 DEF Served, Agreed, SubscribeSent, UnsubscribeBack
  <1>. QED
    BY <1>2, <1>6, <1>7, <1>8 DEF AsyncIInv, Lines

(***************************************************************************)
(* A command is issued.                                                    *)
(***************************************************************************)

\* A subscription command goes out alone, any other command is entered in the
\* list of the mode the context is in.
IssuedAs(c) ==
    /\ c.id = issued + 1 /\ issued' = issued + 1
    /\ Extends(Ups', Ups, c) /\ UNCHANGED <<Downs, srvsub, srvup>>
    /\ "SUBSCRIBED" \in flags' <=> "SUBSCRIBED" \in flags \/ c.op = "subscribe"
    /\ c.op \in Subscribing =>
         /\ ~SubscriptionInFlight /\ invalid = <<>> /\ UNCHANGED <<replies, invalid>>
         /\ c.name \in Names /\ "SUBSCRIBED" \in flags'
    /\ c.op \notin Subscribing =>
         \/ /\ "SUBSCRIBED" \in flags /\ ~SubscriptionInFlight /\ replies' = <<>>
            /\ replies = <<>> /\ invalid = <<>> /\ invalid' = <<c.id>>
         \/ /\ "SUBSCRIBED" \notin flags /\ invalid' = invalid
            /\ Range(replies') = Range(replies) \cup {c.id}
    /\ \A n \in Names : Sub(n)' # None <=> Sub(n) # None \/ (c.op = "subscribe" /\ c.name = n)
    /\ c.op \in Subscribing => \A n \in Names : n = c.name => Sub(n)' # None

(* Everything that waits was issued before.                                *)
LEMMA WaitsIssued ==
  ASSUME AsyncTyped, Waiting
  PROVE  \A i \in Range(replies) \cup Range(invalid) : i \in Ids /\ i \in Nat /\ i <= issued
  <1>1. issued \in Nat /\ Range(replies) \subseteq Ids /\ Range(invalid) \subseteq Ids /\ Ids \subseteq Nat
    BY EntryTypes DEF AsyncTyped
  <1>2. ASSUME NEW i \in Range(replies) \cup Range(invalid) PROVE i <= issued
    <2>1. i \in Ids /\ i \in Nat
      BY <1>1
    <2>2. fate[i] = "waiting"
      BY <2>1 DEF Waiting
    <2>3. ~(i > issued)
      BY <2>1, <2>2 DEF Waiting
    <2>. QED
      BY <1>1, <2>1, <2>3
  <1>. QED
    BY <1>1, <1>2

(* What the longer line says.                                              *)
LEMMA LongerLine ==
  ASSUME NEW c, Extends(Ups', Ups, c), Len(Ups) \in Nat
  PROVE  /\ \A i : InUps(i)' <=> InUps(i) \/ c.id = i
         /\ \A n : SubscribeSent(n)' <=> SubscribeSent(n) \/ (c.op = "subscribe" /\ c.name = n)
  <1>1. /\ Len(Ups') = Len(Ups) + 1 /\ Ups'[Len(Ups) + 1] = c
        /\ \A p \in 1 .. Len(Ups) : p \in 1 .. Len(Ups') /\ Ups'[p] = Ups[p]
        /\ \A p \in 1 .. Len(Ups') : p = Len(Ups) + 1 \/ p \in 1 .. Len(Ups)
    BY DEF Extends
  <1>2. Len(Ups) + 1 \in 1 .. Len(Ups')
    BY <1>1
  <1>3. ASSUME NEW i PROVE InUps(i)' <=> InUps(i) \/ c.id = i
    BY <1>1, <1>2 DEF InUps
  <1>4. ASSUME NEW n
        PROVE  SubscribeSent(n)' <=> SubscribeSent(n) \/ (c.op = "subscribe" /\ c.name = n)
    BY <1>1, <1>2 DEF SubscribeSent
  <1>. QED
    BY <1>3, <1>4

(* A new command agrees with the mode the context is in.                   *)
LEMMA IssuedModes ==
  ASSUME AsyncTyped, Waiting, Lines, NEW c \in Commands, IssuedAs(c)
  PROVE  Modes'
  <1>1. Modes /\ issued \in Nat
    BY DEF Lines, AsyncTyped
  <1>2. /\ issued' = issued + 1 /\ c.id = issued + 1
        /\ "SUBSCRIBED" \in flags' <=> "SUBSCRIBED" \in flags \/ c.op = "subscribe"
        /\ \A p \in 1 .. Len(Ups') :
             (p = Len(Ups) + 1 /\ Ups'[p] = c) \/ (p \in 1 .. Len(Ups) /\ Ups'[p] = Ups[p])
    BY DEF IssuedAs, Extends
  <1>3. c.op \in Subscribing =>
          /\ invalid = <<>> /\ UNCHANGED <<replies, invalid>>
          /\ c.name \in Names /\ "SUBSCRIBED" \in flags'
    BY DEF IssuedAs
  <1>4. c.op \notin Subscribing =>
         \/ /\ "SUBSCRIBED" \in flags /\ ~SubscriptionInFlight
            /\ replies = <<>> /\ invalid = <<>> /\ invalid' = <<c.id>>
         \/ /\ "SUBSCRIBED" \notin flags /\ invalid' = invalid
    BY DEF IssuedAs
  <1>5. "SUBSCRIBED" \in flags' => issued' > 0
    BY <1>1, <1>2
  <1>6. invalid' # <<>> => "SUBSCRIBED" \in flags' /\ Len(invalid') = 1
    <2>1. Len(<<c.id>>) = 1
      OBVIOUS
    <2>. QED
      BY <1>1, <1>2, <1>3, <1>4, <2>1 DEF Modes
  <1>7. ASSUME NEW q \in 1 .. Len(Ups'), Ups'[q].op \in Subscribing
        PROVE  /\ "SUBSCRIBED" \in flags' /\ invalid' = <<>> /\ Ups'[q].name \in Names
               /\ \A i \in Range(replies') : i < Ups'[q].id
    <2>1. CASE q \in 1 .. Len(Ups) /\ Ups'[q] = Ups[q]
      <3>1. /\ "SUBSCRIBED" \in flags /\ invalid = <<>> /\ Ups[q].name \in Names
            /\ \A i \in Range(replies) : i < Ups[q].id
        BY <1>1, <1>7, <2>1 DEF Modes
      <3>2. SubscriptionInFlight
        BY <1>7, <2>1, InFlight
      <3>3. FALSE
        BY <3>1, <3>2 DEF IssuedAs
      <3>. QED
        BY <3>3
    <2>2. CASE Ups'[q] = c
      <3>1. c.op \in Subscribing
        BY <1>7, <2>2
      <3>2. \A i \in Range(replies) : i < c.id
        BY <1>1, <1>2, WaitsIssued
      <3>. QED
        BY <1>3, <2>2, <3>1, <3>2
    <2>. QED
      BY <1>2, <2>1, <2>2
  <1>. QED
    BY <1>5, <1>6, <1>7 DEF Modes

(* A new command is behind all the others.                                 *)
LEMMA IssuedOrder ==
  ASSUME AsyncTyped, Waiting, Lines, NEW c \in Commands, IssuedAs(c), srvup # "refused"
  PROVE  Order'
  <1>1. Order /\ issued \in Nat /\ Modes
    BY DEF Lines, AsyncTyped
  <1>2. /\ issued' = issued + 1 /\ c.id = issued + 1 /\ Downs' = Downs
        /\ Range(replies') \subseteq Range(replies) \cup {c.id}
        /\ Range(replies) \cup Range(invalid) \subseteq Range(replies') \cup Range(invalid')
    <2>1. Range(<<>>) = {}
      BY DEF Range
    <2>. QED
      BY <2>1 DEF IssuedAs
  <1>3. \A p \in 1 .. Len(Ups') : p \in Nat /\
          ((p = Len(Ups) + 1 /\ Ups'[p] = c) \/ (p \in 1 .. Len(Ups) /\ Ups'[p] = Ups[p]))
    BY DEF IssuedAs, Extends
  <1>4. \A q \in 1 .. Len(Ups) : Ups[q].id \in Nat /\ Ups[q].id <= issued
    BY <1>1, EntryTypes DEF Order
  <1>5. \A q \in 1 .. Len(Ups') : Ups'[q].id <= issued'
    BY <1>1, <1>2, <1>3, <1>4
  <1>6. ASSUME NEW p \in 1 .. Len(Ups'), NEW q \in 1 .. Len(Ups'), p < q
        PROVE  Ups'[p].id < Ups'[q].id
    <2>1. p \in 1 .. Len(Ups) /\ Ups'[p] = Ups[p]
      <3>1. Len(Ups) \in Nat
        BY LineTypes
      <3>2. q <= Len(Ups) + 1
        BY <1>3, <3>1
      <3>. QED
        BY <1>3, <1>6, <3>1, <3>2
    <2>2. CASE q \in 1 .. Len(Ups) /\ Ups'[q] = Ups[q]
      BY <1>1, <1>6, <2>1, <2>2 DEF Order
    <2>3. CASE Ups'[q] = c
      BY <1>1, <1>2, <1>4, <2>1, <2>3
    <2>. QED
      BY <1>3, <2>2, <2>3
  <1>7. \A i : InDowns(i)' <=> InDowns(i)
    BY <1>2 DEF InDowns
  <1>8. ASSUME NEW p \in 1 .. Len(Downs), Downs[p].id \in Nat
        PROVE  /\ Downs[p].id \in Range(replies') \cup Range(invalid')
               /\ \A q \in 1 .. Len(Ups') : Downs[p].id < Ups'[q].id
               /\ \A i \in Range(replies') : i < Downs[p].id => InDowns(i)'
    <2>1. /\ Downs[p].id \in Range(replies) \cup Range(invalid)
          /\ \A q \in 1 .. Len(Ups) : Downs[p].id < Ups[q].id
          /\ \A i \in Range(replies) : i < Downs[p].id => InDowns(i)
      BY <1>1, <1>8 DEF Order
    <2>2. Downs[p].id <= issued
      BY <2>1, WaitsIssued
    <2>3. Downs[p].id < c.id
      BY <1>1, <1>2, <1>8, <2>2
    <2>4. \A q \in 1 .. Len(Ups') : Downs[p].id < Ups'[q].id
      BY <1>3, <2>1, <2>3
    <2>5. ~(c.id < Downs[p].id)
      BY <1>1, <1>2, <1>8, <2>3
    <2>. QED
      BY <1>2, <1>7, <2>1, <2>4, <2>5
  <1>9. \A p \in 1 .. Len(Downs) : Downs[p].id \in Nat =>
          \A q \in 1 .. Len(Downs) :
            p < q /\ Downs[q].id \in Nat => Downs[p].id < Downs[q].id
    BY <1>1 DEF Order
  <1>. QED
    BY <1>2, <1>5, <1>6, <1>8, <1>9 DEF Order

(* A new command disturbs no message on its way.                           *)
LEMMA IssuedMessages ==
  ASSUME AsyncTyped, Waiting, Lines, NEW c \in Commands, IssuedAs(c), srvup # "refused"
  PROVE  Messages' /\ OneInFlight'
  <1>1. Messages /\ OneInFlight
    BY DEF Lines
  <1>2. /\ Downs' = Downs
        /\ "SUBSCRIBED" \in flags' <=> "SUBSCRIBED" \in flags \/ c.op = "subscribe"
        /\ \A n \in Names : Sub(n) # None => Sub(n)' # None
        /\ "SUBSCRIBED" \in flags => Range(replies') \subseteq Range(replies)
    BY DEF IssuedAs
  <1>3. SubscriptionInFlight => c.op \notin Subscribing /\ invalid' = invalid
    BY DEF IssuedAs
  <1>4. ASSUME NEW p \in 1 .. Len(Downs), Downs[p].id = None
        PROVE  /\ "SUBSCRIBED" \in flags' /\ Downs[p].name \in Names
               /\ \A n \in Names : n = Downs[p].name => Sub(n)' # None
               /\ Downs[p].k \in {"message"} \cup Subscribing
               /\ Downs[p].k \in Subscribing => invalid' = <<>>
               /\ \A i \in Range(replies') :
                    \E q \in 1 .. Len(Downs) : q < p /\ Downs[q].id = i
               /\ Downs[p].k = "unsubscribe" =>
                    \A q \in 1 .. Len(Downs) : p < q /\ Downs[q].id = None =>
                      Downs[q].name # Downs[p].name /\ Downs[p].count # 0
    <2>1. /\ "SUBSCRIBED" \in flags /\ Downs[p].name \in Names /\ Sub(Downs[p].name) # None
          /\ Downs[p].k \in {"message"} \cup Subscribing
          /\ Downs[p].k \in Subscribing => invalid = <<>>
      BY <1>1, <1>4 DEF Messages
    <2>2. \A i \in Range(replies) : \E q \in 1 .. Len(Downs) : q < p /\ Downs[q].id = i
      BY <1>1, <1>4 DEF Messages
    <2>3. Downs[p].k = "unsubscribe" =>
            \A q \in 1 .. Len(Downs) : p < q /\ Downs[q].id = None =>
              Downs[q].name # Downs[p].name /\ Downs[p].count # 0
      BY <1>1, <1>4 DEF Messages
    <2>4. Downs[p].k \in Subscribing => invalid' = <<>>
      BY <1>3, <2>1, InFlight
    <2>. QED
      BY <1>2, <2>1, <2>2, <2>3, <2>4
  <1>5. Messages'
    BY <1>2, <1>4 DEF Messages
  <1>6. \A p \in 1 .. Len(Ups') :
          (p = Len(Ups) + 1 /\ Ups'[p] = c) \/ (p \in 1 .. Len(Ups) /\ Ups'[p] = Ups[p])
    BY DEF IssuedAs, Extends
  <1>7. c.op \in Subscribing => /\ \A q \in 1 .. Len(Ups) : Ups[q].op \notin Subscribing
                                /\ \A p \in 1 .. Len(Downs) : Downs[p].k \notin Subscribing
                                /\ \A n \in Names : n = c.name => Sub(n)' # None
    BY <1>3, InFlight DEF IssuedAs
  <1>8. \A p, q \in 1 .. Len(Ups') :
          Ups'[p].op \in Subscribing /\ Ups'[q].op \in Subscribing => p = q
    BY <1>1, <1>6, <1>7 DEF OneInFlight
  <1>9. \A p \in 1 .. Len(Downs), q \in 1 .. Len(Ups') :
          ~(Downs[p].k \in Subscribing /\ Ups'[q].op \in Subscribing)
    BY <1>1, <1>6, <1>7 DEF OneInFlight
  <1>10. ASSUME NEW q \in 1 .. Len(Ups'), Ups'[q].op \in Subscribing, NEW n, n = Ups'[q].name
         PROVE  Sub(n)' # None
    <2>1. CASE q \in 1 .. Len(Ups) /\ Ups'[q] = Ups[q]
      <3>1. Sub(n) # None /\ n \in Names
        BY <1>1, <1>10, <2>1 DEF OneInFlight, Lines, Modes
      <3>. QED
        BY <1>2, <3>1
    <2>2. CASE Ups'[q] = c
      <3>1. c.op \in Subscribing /\ n = c.name /\ n \in Names
        BY <1>10, <2>2 DEF IssuedAs
      <3>. QED
        BY <1>7, <3>1
    <2>. QED
      BY <1>6, <2>1, <2>2
  <1>11. /\ \A p \in 1 .. Len(Downs) : Downs[p].k \in Subscribing => Downs[p].id = None
         /\ \A p, q \in 1 .. Len(Downs) :
              Downs[p].k \in Subscribing /\ Downs[q].k \in Subscribing => p = q
    BY <1>1 DEF OneInFlight
  <1>12. OneInFlight'
    BY <1>2, <1>8, <1>9, <1>10, <1>11 DEF OneInFlight
  <1>. QED
    BY <1>5, <1>12

(* A new command is one the server has yet to see.                         *)
LEMMA IssuedServed ==
  ASSUME AsyncTyped, Waiting, Lines, NEW c \in Commands, IssuedAs(c), srvup = "up"
  PROVE  Served' /\ Agreed'
  <1>1. Served /\ Agreed
    BY DEF Lines
  <1>2. /\ Downs' = Downs /\ srvsub' = srvsub
        /\ "SUBSCRIBED" \in flags' <=> "SUBSCRIBED" \in flags \/ c.op = "subscribe"
        /\ Extends(Ups', Ups, c)
    BY DEF IssuedAs
  <1>3. /\ \A i : InUps(i)' <=> InUps(i) \/ c.id = i
        /\ \A n : SubscribeSent(n)' <=> SubscribeSent(n) \/ (c.op = "subscribe" /\ c.name = n)
    BY <1>2, LineTypes, LongerLine
  <1>4. /\ \A i : InDowns(i)' <=> InDowns(i)
        /\ \A n : UnsubscribeBack(n)' <=> UnsubscribeBack(n)
    BY <1>2 DEF InDowns, UnsubscribeBack
  <1>5. /\ Range(replies') \subseteq Range(replies) \cup {c.id}
        /\ Range(replies) \cup Range(invalid) \subseteq Range(replies') \cup Range(invalid')
        /\ "SUBSCRIBED" \in flags => Range(replies') \subseteq Range(replies)
        /\ c.op = "command" => c.id \in Range(replies') \cup Range(invalid')
    <2>1. Range(<<>>) = {} /\ \A x : Range(<<x>>) = {x}
      BY DEF Range
    <2>. QED
      BY <2>1, EntryTypes DEF IssuedAs
  <1>6. \A i \in Range(replies') : InDowns(i)' \/ InUps(i)'
    BY <1>1, <1>3, <1>4, <1>5 DEF Served
  <1>7. ASSUME NEW q \in 1 .. Len(Ups'), Ups'[q].op = "command"
        PROVE  Ups'[q].id \in Range(replies') \cup Range(invalid')
    <2>1. Ups'[q] = c \/ (q \in 1 .. Len(Ups) /\ Ups'[q] = Ups[q])
      BY <1>2 DEF Extends
    <2>. QED
      BY <1>1, <1>5, <1>7, <2>1 DEF Served
  <1>8. srvsub # {} => "SUBSCRIBED" \in flags' /\ \A i \in Range(replies') : InDowns(i)'
    BY <1>1, <1>2, <1>4, <1>5 DEF Served
  <1>9. Served'
    BY <1>1, <1>2, <1>6, <1>7, <1>8 DEF Served
  <1>10. \A n \in Names : Sub(n)' # None <=> Sub(n) # None \/ (c.op = "subscribe" /\ c.name = n)
    BY DEF IssuedAs
  <1>11. \A n \in Names :
           Sub(n)' # None <=> n \in srvsub \/ SubscribeSent(n)' \/ UnsubscribeBack(n)'
    BY <1>1, <1>3, <1>4, <1>10 DEF Agreed
  <1>12. ASSUME "SUBSCRIBED" \in flags'
         PROVE  srvsub # {} \/ \E n \in Names : SubscribeSent(n)' \/ UnsubscribeBack(n)'
    <2>1. CASE "SUBSCRIBED" \in flags
      BY <1>1, <1>3, <1>4, <2>1 DEF Agreed
    <2>2. CASE c.op = "subscribe"
      <3>1. c.name \in Names
        BY <2>2 DEF IssuedAs, Subscribing
      <3>. QED
        BY <1>3, <2>2, <3>1
    <2>. QED
      BY <1>2, <1>12, <2>1, <2>2
  <1>13. Agreed'
    BY <1>2, <1>11, <1>12 DEF Agreed
  <1>. QED
    BY <1>9, <1>13

(* Issuing a command preserves the invariant of the lines.                 *)
LEMMA IssuedLines ==
  ASSUME AsyncTyped, Waiting, Lines, NEW c \in Commands, IssuedAs(c)
  PROVE  Lines'
  <1>1. srvup' = srvup /\ Downs' = Downs
    BY DEF IssuedAs
  <1>2. srvup' = "refused" => Refused'
    BY <1>1 DEF Lines, Refused
  <1>. QED
    BY <1>1, <1>2, IssuedModes, IssuedOrder, IssuedMessages, IssuedServed DEF Lines

(* A new callback goes behind those of the commands before.                *)
LEMMA Pushed ==
  ASSUME NEW s \in Seq(Ids), \A p, q \in 1 .. Len(s) : p < q => s[p] < s[q],
         NEW i \in Ids, \A j \in Range(s) : j < i
  PROVE  /\ Append(s, i) \in Seq(Ids) /\ Range(Append(s, i)) = Range(s) \cup {i}
         /\ \A p, q \in 1 .. Len(Append(s, i)) :
              p < q => Append(s, i)[p] < Append(s, i)[q]
  <1>. DEFINE t == Append(s, i)
  <1>1. t \in Seq(Ids) /\ Extends(t, s, i) /\ Range(t) = Range(s) \cup {i}
    BY AppendExtends
  <1>. HIDE DEF t
  <1>2. /\ Len(t) = Len(s) + 1 /\ t[Len(s) + 1] = i /\ Len(s) \in Nat
        /\ \A p \in 1 .. Len(t) : p = Len(s) + 1 \/ (p \in 1 .. Len(s) /\ t[p] = s[p])
    BY <1>1 DEF Extends
  <1>3. ASSUME NEW p \in 1 .. Len(t), NEW q \in 1 .. Len(t), p < q PROVE t[p] < t[q]
    <2>1. p \in 1 .. Len(s) /\ t[p] = s[p]
      BY <1>2, <1>3
    <2>2. CASE q \in 1 .. Len(s) /\ t[q] = s[q]
      BY <1>3, <2>1, <2>2
    <2>3. CASE q = Len(s) + 1
      <3>1. s[p] \in Range(s)
        BY <2>1 DEF Range
      <3>. QED
        BY <1>2, <2>1, <2>3, <3>1
    <2>. QED
      BY <1>2, <2>2, <2>3
  <1>. QED
    BY <1>1, <1>3 DEF t

(* A command of a careful service preserves the invariant.                 *)
LEMMA CommandInv ==
  ASSUME Careful, AsyncIInv, NEW op, NEW n, redisAsyncCommand(op, n),
         (op \in Subscribing /\ n \in Names) \/ (op = "command" /\ n = None)
  PROVE  AsyncIInv'
  <1>. DEFINE i == issued + 1
              c == [op |-> op, id |-> i, name |-> n]
  <1>0. /\ Allowed(op, n) /\ ~Closing /\ Register(op, n, i) /\ issued' = i /\ issued < MaxCmds
        /\ obuf' = Append(obuf, c) /\ UNCHANGED <<err, ibuf, server, pc, worker, bad>>
    BY DEF redisAsyncCommand
  <1>1. Basics /\ AsyncTyped /\ Dicts /\ Waiting /\ ~Leaving /\ Lines
    BY <1>0 DEF AsyncIInv, Basics
  <1>2. i \in Ids /\ i \in Nat /\ issued \in Nat /\ i > issued /\ i \in 0 .. MaxCmds
    BY <1>0, <1>1, AsyncAssumption DEF AsyncTyped, Ids
  <1>3. c \in Commands /\ c.op = op /\ c.id = i /\ c.name = n
    BY <1>2 DEF Commands
  <1>4. Ups' = Append(Ups, c) /\ obuf' \in Seq(Commands) /\ Ups \in Seq(Commands)
    <2>1. sent \in Seq(Commands) /\ obuf \in Seq(Commands) /\ Append(obuf, c) \in Seq(Commands)
      BY <1>1, <1>3 DEF AsyncTyped
    <2>2. sent \o Append(obuf, c) = Append(sent \o obuf, c)
      BY <1>3, <2>1, JoinAppend
    <2>3. sent' = sent
      BY <1>0 DEF server
    <2>. QED
      BY <1>0, <1>1, <2>1, <2>2, <2>3, LineTypes DEF Ups
  <1>5. Extends(Ups', Ups, c)
    BY <1>3, <1>4, AppendExtends
  <1>6. UNCHANGED <<Downs, srvsub, srvup>>
    BY <1>0 DEF Downs, server
  <1>7. \A j \in Range(replies) \cup Range(invalid) : j \in Nat /\ j < i
    BY <1>1, <1>2, WaitsIssued
  <1>8. /\ replies \in Seq(Ids) /\ invalid \in Seq(Ids) /\ fate \in [Ids -> Fates]
        /\ \A p, q \in 1 .. Len(replies) : p < q => replies[p] < replies[q]
        /\ \A p, q \in 1 .. Len(invalid) : p < q => invalid[p] < invalid[q]
    BY <1>1 DEF AsyncTyped, Waiting
  <1>9. /\ \A j \in Ids : fate[j] = "waiting" <=> j \in Range(replies) \cup Range(invalid)
        /\ \A j \in Ids : j > issued => fate[j] = "new"
        /\ replies = <<>> \/ invalid = <<>>
    BY <1>1 DEF Waiting
  <1>. HIDE DEF i, c
  <1>10. ASSUME Waiting', replies' \in Seq(Ids), invalid' \in Seq(Ids), fate' \in [Ids -> Fates],
                flags' = flags \/ flags' = flags \cup {"SUBSCRIBED"}, Dicts', IssuedAs(c)
         PROVE  AsyncIInv'
    <2>1. AsyncTyped'
      BY <1>0, <1>1, <1>2, <1>4, <1>10 DEF AsyncTyped, server
    <2>2. ~Leaving' /\ pc' # "freed"
      BY <1>0, <1>1 DEF Leaving
    <2>3. Lines'
      BY <1>1, <1>3, <1>10, IssuedLines
    <2>. QED
      BY <1>0, <1>1, <1>10, <2>1, <2>2, <2>3 DEF AsyncIInv, Basics, server
  <1>11. CASE op = "subscribe"
    <2>1. /\ flags' = flags \cup {"SUBSCRIBED"} /\ dict' = [dict EXCEPT ![n[1]] = dictReplace(@, n, i)]
          /\ UNCHANGED <<replies, invalid, fate>>
          /\ ~SubscriptionInFlight /\ invalid = <<>> /\ n \in Names
      BY <1>0, <1>11 DEF Register, Allowed
    <2>2. Dicts' /\ Sub(n)' = i /\ \A m \in Names : m # n => Sub(m)' = Sub(m)
      BY <1>1, <1>2, <2>1, SubReplaced
    <2>3. i # None
      BY <1>2, AsyncAssumption
    <2>4. IssuedAs(c)
      <3>1. \A m \in Names : Sub(m)' # None <=> Sub(m) # None \/ (op = "subscribe" /\ n = m)
        BY <1>11, <2>2, <2>3
      <3>2. \A m \in Names : m = n => Sub(m)' # None
        BY <2>2, <2>3
      <3>3. c.op \in Subscribing
        BY <1>3, <1>11 DEF Subscribing
      <3>4. "SUBSCRIBED" \in flags' /\ issued' = issued + 1 /\ c.id = issued + 1
        BY <1>0, <1>3, <2>1 DEF i
      <3>. QED
        BY <1>3, <1>5, <1>6, <1>11, <2>1, <3>1, <3>2, <3>3, <3>4 DEF IssuedAs
    <2>5. Waiting'
      <3>1. \A j \in Ids : j > issued' => fate'[j] = "new"
        BY <1>0, <1>2, <1>9, <2>1 DEF Ids
      <3>. QED
        BY <1>8, <1>9, <2>1, <3>1 DEF Waiting
    <2>. QED
      BY <1>8, <1>10, <2>1, <2>2, <2>4, <2>5
  <1>12. CASE op = "unsubscribe"
    <2>1. /\ UNCHANGED <<flags, dict, replies, invalid, fate>> /\ "SUBSCRIBED" \in flags
          /\ ~SubscriptionInFlight /\ invalid = <<>> /\ Sub(n) # None /\ n \in Names
      BY <1>0, <1>12 DEF Register, Allowed, Sub
    <2>2. Dicts' /\ \A m : Sub(m)' = Sub(m)
      BY <1>1, <2>1 DEF Dicts, Sub, DictOf
    <2>3. IssuedAs(c)
      <3>1. \A m \in Names : m = n => Sub(m)' # None
        BY <2>1, <2>2
      <3>2. c.op \in Subscribing /\ c.op # "subscribe"
        BY <1>3, <1>12 DEF Subscribing
      <3>3. issued' = issued + 1 /\ c.id = issued + 1
        BY <1>0, <1>3 DEF i
      <3>. QED
        BY <1>3, <1>5, <1>6, <2>1, <2>2, <3>1, <3>2, <3>3 DEF IssuedAs
    <2>4. Waiting'
      <3>1. \A j \in Ids : j > issued' => fate'[j] = "new"
        BY <1>0, <1>2, <1>9, <2>1 DEF Ids
      <3>. QED
        BY <1>8, <1>9, <2>1, <3>1 DEF Waiting
    <2>. QED
      BY <1>8, <1>10, <2>1, <2>2, <2>3, <2>4
  <1>13. CASE op = "command"
    <2>1. /\ IF "SUBSCRIBED" \in flags
             THEN invalid' = Append(invalid, i) /\ UNCHANGED replies
             ELSE replies' = Append(replies, i) /\ UNCHANGED invalid
          /\ fate' = [fate EXCEPT ![i] = "waiting"] /\ UNCHANGED <<flags, dict>>
          /\ ("SUBSCRIBED" \in flags => ~SubscriptionInFlight /\ replies = <<>> /\ invalid = <<>>)
      BY <1>0, <1>13 DEF Register, Allowed, Push
    <2>2. Dicts' /\ \A m : Sub(m)' = Sub(m)
      BY <1>1, <2>1 DEF Dicts, Sub, DictOf
    <2>3. fate' \in [Ids -> Fates] /\ \A j \in Ids : fate'[j] = IF j = i THEN "waiting" ELSE fate[j]
      BY <1>2, <1>8, <2>1 DEF Fates
    <2>4. \A j \in Ids : j > issued' => fate'[j] = "new"
      BY <1>0, <1>2, <1>9, <2>3 DEF Ids
    <2>5. issued' = issued + 1 /\ c.id = issued + 1 /\ c.op = "command" /\ c.op \notin Subscribing
      BY <1>0, <1>3, <1>13 DEF i, Subscribing
    <2>6. Range(<<>>) = {}
      BY DEF Range
    <2>7. CASE "SUBSCRIBED" \in flags
      <3>1. replies' = <<>> /\ replies = <<>> /\ invalid = <<>> /\ invalid' = Append(invalid, i)
        BY <2>1, <2>7
      <3>2. /\ Append(invalid, i) \in Seq(Ids) /\ Range(Append(invalid, i)) = Range(invalid) \cup {i}
            /\ \A p, q \in 1 .. Len(Append(invalid, i)) :
                 p < q => Append(invalid, i)[p] < Append(invalid, i)[q]
        BY <1>2, <1>7, <1>8, Pushed
      <3>3. invalid' = <<i>> /\ Range(invalid') = {i} /\ Range(replies') = {}
        BY <2>6, <3>1, <3>2
      <3>4. \A j \in Ids : fate'[j] = "waiting" <=> j \in Range(replies') \cup Range(invalid')
        BY <1>9, <2>3, <2>6, <3>1, <3>3
      <3>5. Waiting'
        <4>1. \A p, q \in 1 .. Len(invalid') : p < q => invalid'[p] < invalid'[q]
          BY <3>1, <3>2
        <4>2. \A p, q \in 1 .. Len(replies') : p < q => replies'[p] < replies'[q]
          BY <1>8, <3>1
        <4>. QED
          BY <2>4, <3>1, <3>4, <4>1, <4>2 DEF Waiting
      <3>6. IssuedAs(c)
        BY <1>3, <1>5, <1>6, <2>1, <2>2, <2>5, <2>7, <3>1, <3>3 DEF IssuedAs
      <3>7. replies' \in Seq(Ids) /\ invalid' \in Seq(Ids)
        BY <1>8, <3>1, <3>2
      <3>. QED
        BY <1>10, <2>1, <2>2, <2>3, <3>5, <3>6, <3>7
    <2>8. CASE "SUBSCRIBED" \notin flags
      <3>1. replies' = Append(replies, i) /\ invalid' = invalid /\ invalid = <<>>
        BY <1>1, <2>1, <2>8 DEF Lines, Modes
      <3>2. /\ Append(replies, i) \in Seq(Ids) /\ Range(Append(replies, i)) = Range(replies) \cup {i}
            /\ \A p, q \in 1 .. Len(Append(replies, i)) :
                 p < q => Append(replies, i)[p] < Append(replies, i)[q]
        BY <1>2, <1>7, <1>8, Pushed
      <3>3. \A j \in Ids : fate'[j] = "waiting" <=> j \in Range(replies') \cup Range(invalid')
        BY <1>9, <2>3, <2>6, <3>1, <3>2
      <3>4. Waiting'
        <4>1. \A p, q \in 1 .. Len(replies') : p < q => replies'[p] < replies'[q]
          BY <3>1, <3>2
        <4>2. \A p, q \in 1 .. Len(invalid') : p < q => invalid'[p] < invalid'[q]
          BY <1>8, <3>1
        <4>. QED
          BY <2>4, <3>1, <3>3, <4>1, <4>2 DEF Waiting
      <3>5. IssuedAs(c)
        BY <1>3, <1>5, <1>6, <2>1, <2>2, <2>5, <2>8, <3>1, <3>2 DEF IssuedAs
      <3>6. replies' \in Seq(Ids) /\ invalid' \in Seq(Ids)
        BY <1>8, <3>1, <3>2
      <3>. QED
        BY <1>10, <2>1, <2>2, <2>3, <3>4, <3>5, <3>6
    <2>. QED
      BY <2>7, <2>8
  <1>. QED
    BY <1>11, <1>12, <1>13 DEF Subscribing

(***************************************************************************)
(* The server.                                                             *)
(***************************************************************************)

\* The context is not touched.
ContextKept == UNCHANGED <<flags, replies, invalid, dict, issued>>

(* A longer line of replies.                                               *)
LEMMA LongerDowns ==
  ASSUME NEW r, Extends(Downs', Downs, r), Len(Downs) \in Nat
  PROVE  /\ \A i : InDowns(i)' <=> InDowns(i) \/ r.id = i
         /\ \A n : UnsubscribeBack(n)' <=>
                     UnsubscribeBack(n) \/ (r.k = "unsubscribe" /\ r.name = n)
         /\ Len(Downs) + 1 \in 1 .. Len(Downs') /\ Downs'[Len(Downs) + 1] = r
         /\ \A p \in 1 .. Len(Downs) : p \in 1 .. Len(Downs') /\ Downs'[p] = Downs[p]
         /\ \A p \in 1 .. Len(Downs') :
              (p = Len(Downs) + 1 /\ Downs'[p] = r)
              \/ (p \in 1 .. Len(Downs) /\ Downs'[p] = Downs[p] /\ p < Len(Downs) + 1)
  <1>1. /\ Len(Downs') = Len(Downs) + 1 /\ Downs'[Len(Downs) + 1] = r
        /\ \A p \in 1 .. Len(Downs) : p \in 1 .. Len(Downs') /\ Downs'[p] = Downs[p]
        /\ \A p \in 1 .. Len(Downs') : p = Len(Downs) + 1 \/ p \in 1 .. Len(Downs)
    BY DEF Extends
  <1>2. Len(Downs) + 1 \in 1 .. Len(Downs')
    BY <1>1
  <1>3. ASSUME NEW i PROVE InDowns(i)' <=> InDowns(i) \/ r.id = i
    BY <1>1, <1>2 DEF InDowns
  <1>4. ASSUME NEW n
        PROVE  UnsubscribeBack(n)' <=>
                 UnsubscribeBack(n) \/ (r.k = "unsubscribe" /\ r.name = n)
    BY <1>1, <1>2 DEF UnsubscribeBack
  <1>5. \A p \in 1 .. Len(Downs) : p < Len(Downs) + 1
    OBVIOUS
  <1>. QED
    BY <1>1, <1>2, <1>3, <1>4, <1>5

(* A shorter line of commands.                                             *)
LEMMA ShorterUps ==
  ASSUME Shifts(Ups', Ups)
  PROVE  /\ \A i : InUps(i) <=> InUps(i)' \/ Ups[1].id = i
         /\ \A n : SubscribeSent(n) <=>
                     SubscribeSent(n)' \/ (Ups[1].op = "subscribe" /\ Ups[1].name = n)
         /\ 1 \in 1 .. Len(Ups)
         /\ \A q \in 1 .. Len(Ups') : q + 1 \in 1 .. Len(Ups) /\ Ups'[q] = Ups[q + 1]
                                      /\ 1 < q + 1 /\ q \in Nat
  <1>1. /\ 1 \in 1 .. Len(Ups)
        /\ \A q \in 1 .. Len(Ups') : q + 1 \in 1 .. Len(Ups) /\ Ups'[q] = Ups[q + 1]
        /\ \A q \in 1 .. Len(Ups) : q = 1 \/ (q - 1 \in 1 .. Len(Ups') /\ Ups'[q - 1] = Ups[q])
    BY DEF Shifts
  <1>2. ASSUME NEW i PROVE InUps(i) <=> InUps(i)' \/ Ups[1].id = i
    <2>1. ASSUME InUps(i) PROVE InUps(i)' \/ Ups[1].id = i
      <3>1. PICK q \in 1 .. Len(Ups) : Ups[q].id = i
        BY <2>1 DEF InUps
      <3>. QED
        BY <1>1, <3>1 DEF InUps
    <2>2. ASSUME InUps(i)' PROVE InUps(i)
      <3>1. PICK q \in 1 .. Len(Ups') : Ups'[q].id = i
        BY <2>2 DEF InUps
      <3>. QED
        BY <1>1, <3>1 DEF InUps
    <2>3. Ups[1].id = i => InUps(i)
      BY <1>1 DEF InUps
    <2>. QED
      BY <2>1, <2>2, <2>3
  <1>3. ASSUME NEW n
        PROVE  SubscribeSent(n) <=>
                 SubscribeSent(n)' \/ (Ups[1].op = "subscribe" /\ Ups[1].name = n)
    <2>1. ASSUME SubscribeSent(n)
          PROVE  SubscribeSent(n)' \/ (Ups[1].op = "subscribe" /\ Ups[1].name = n)
      <3>1. PICK q \in 1 .. Len(Ups) : Ups[q].op = "subscribe" /\ Ups[q].name = n
        BY <2>1 DEF SubscribeSent
      <3>. QED
        BY <1>1, <3>1 DEF SubscribeSent
    <2>2. ASSUME SubscribeSent(n)' PROVE SubscribeSent(n)
      <3>1. PICK q \in 1 .. Len(Ups') : Ups'[q].op = "subscribe" /\ Ups'[q].name = n
        BY <2>2 DEF SubscribeSent
      <3>. QED
        BY <1>1, <3>1 DEF SubscribeSent
    <2>3. Ups[1].op = "subscribe" /\ Ups[1].name = n => SubscribeSent(n)
      BY <1>1 DEF SubscribeSent
    <2>. QED
      BY <2>1, <2>2, <2>3
  <1>4. \A q \in 1 .. Len(Ups') : 1 < q + 1 /\ q \in Nat
    OBVIOUS
  <1>. QED
    BY <1>1, <1>2, <1>3, <1>4

(* A command that waits for the server keeps its mode.                     *)
LEMMA ServerModes ==
  ASSUME Modes, ContextKept,
         \A q \in 1 .. Len(Ups') : \E p \in 1 .. Len(Ups) : Ups'[q] = Ups[p]
  PROVE  Modes'
  <1>1. ASSUME NEW q \in 1 .. Len(Ups'), Ups'[q].op \in Subscribing
        PROVE  /\ "SUBSCRIBED" \in flags /\ invalid = <<>> /\ Ups'[q].name \in Names
               /\ \A i \in Range(replies) : i < Ups'[q].id
    <2>1. PICK p \in 1 .. Len(Ups) : Ups'[q] = Ups[p]
      OBVIOUS
    <2>. QED
      BY <1>1, <2>1 DEF Modes
  <1>. QED
    BY <1>1 DEF Modes, ContextKept

(* Everything issued before the first command has been answered.           *)
LEMMA EarlierAnswered ==
  ASSUME AsyncTyped, Order, Served, 1 \in 1 .. Len(Ups)
  PROVE  \A i \in Range(replies) : i < Ups[1].id => InDowns(i)
  <1>1. SUFFICES ASSUME NEW i \in Range(replies), i < Ups[1].id, InUps(i) PROVE FALSE
    BY DEF Served
  <1>2. PICK q \in 1 .. Len(Ups) : Ups[q].id = i
    BY <1>1 DEF InUps
  <1>3. Ups[1].id \in Nat /\ Ups[q].id \in Nat
    BY EntryTypes
  <1>4. q = 1 \/ Ups[1].id < Ups[q].id
    BY DEF Order
  <1>. QED
    BY <1>1, <1>2, <1>3, <1>4

(* A command is answered.                                                  *)
LEMMA ReplyLines ==
  ASSUME AsyncTyped, Lines, srvup = "up", ContextKept, UNCHANGED <<srvsub, srvup>>,
         NEW r \in Answers, Shifts(Ups', Ups), Extends(Downs', Downs, r),
         Ups[1].op = "command", r.id = Ups[1].id, r.k \notin Subscribing
  PROVE  Lines'
  <1>1. Modes /\ Order /\ Messages /\ OneInFlight /\ Served /\ Agreed
    BY DEF Lines
  <1>2. /\ \A i : InUps(i) <=> InUps(i)' \/ Ups[1].id = i
        /\ \A n : SubscribeSent(n) <=> SubscribeSent(n)'
        /\ 1 \in 1 .. Len(Ups)
        /\ \A q \in 1 .. Len(Ups') : q + 1 \in 1 .. Len(Ups) /\ Ups'[q] = Ups[q + 1]
                                     /\ 1 < q + 1 /\ q \in Nat
    BY ShorterUps
  <1>3. Len(Downs) \in Nat /\ Ups[1].id \in Nat /\ None \notin Nat
    BY <1>2, LineTypes, EntryTypes
  <1>4. /\ \A i : InDowns(i)' <=> InDowns(i) \/ r.id = i
        /\ \A n : UnsubscribeBack(n)' <=> UnsubscribeBack(n)
        /\ \A p \in 1 .. Len(Downs) : p \in 1 .. Len(Downs') /\ Downs'[p] = Downs[p]
        /\ \A p \in 1 .. Len(Downs') :
             (p = Len(Downs) + 1 /\ Downs'[p] = r)
             \/ (p \in 1 .. Len(Downs) /\ Downs'[p] = Downs[p] /\ p < Len(Downs) + 1)
    <2>1. r.k # "unsubscribe"
      BY DEF Subscribing
    <2>. QED
      BY <1>3, <2>1, LongerDowns
  <1>5. \A n : Sub(n)' = Sub(n)
    BY DEF ContextKept, Sub, DictOf
  <1>6. Modes'
    BY <1>1, <1>2, ServerModes
  <1>7. Order'
    <2>1. \A q \in 1 .. Len(Ups') : Ups'[q].id <= issued'
      BY <1>1, <1>2 DEF Order, ContextKept
    <2>2. ASSUME NEW p \in 1 .. Len(Ups'), NEW q \in 1 .. Len(Ups'), p < q
          PROVE  Ups'[p].id < Ups'[q].id
      <3>1. p + 1 < q + 1
        BY <1>2, <2>2
      <3>. QED
        BY <1>1, <1>2, <3>1 DEF Order
    <2>3. ASSUME NEW p \in 1 .. Len(Downs'), Downs'[p].id \in Nat
          PROVE  /\ Downs'[p].id \in Range(replies) \cup Range(invalid)
                 /\ \A q \in 1 .. Len(Downs') :
                      p < q /\ Downs'[q].id \in Nat => Downs'[p].id < Downs'[q].id
                 /\ \A q \in 1 .. Len(Ups') : Downs'[p].id < Ups'[q].id
                 /\ \A i \in Range(replies) : i < Downs'[p].id => InDowns(i)'
      <3>1. CASE p = Len(Downs) + 1 /\ Downs'[p] = r
        <4>1. r.id \in Range(replies) \cup Range(invalid)
          BY <1>1, <1>2 DEF Served
        <4>2. \A q \in 1 .. Len(Downs') : ~(p < q)
          BY <1>3, <1>4, <3>1
        <4>3. \A q \in 1 .. Len(Ups') : r.id < Ups'[q].id
          BY <1>1, <1>2 DEF Order
        <4>4. \A i \in Range(replies) : i < r.id => InDowns(i)'
          BY <1>1, <1>2, <1>4, EarlierAnswered
        <4>. QED
          BY <3>1, <4>1, <4>2, <4>3, <4>4
      <3>2. CASE p \in 1 .. Len(Downs) /\ Downs'[p] = Downs[p]
        <4>1. /\ Downs[p].id \in Range(replies) \cup Range(invalid)
              /\ \A q \in 1 .. Len(Downs) :
                   p < q /\ Downs[q].id \in Nat => Downs[p].id < Downs[q].id
              /\ \A q \in 1 .. Len(Ups) : Downs[p].id < Ups[q].id
              /\ \A i \in Range(replies) : i < Downs[p].id => InDowns(i)
          BY <1>1, <2>3, <3>2 DEF Order
        <4>2. Downs[p].id < r.id
          BY <1>2, <4>1
        <4>3. \A q \in 1 .. Len(Downs') :
                p < q /\ Downs'[q].id \in Nat => Downs[p].id < Downs'[q].id
          BY <1>4, <4>1, <4>2
        <4>. QED
          BY <1>2, <1>4, <3>2, <4>1, <4>3
      <3>. QED
        BY <1>4, <3>1, <3>2
    <2>. QED
      BY <2>1, <2>2, <2>3 DEF Order, ContextKept
  <1>8. ASSUME NEW p \in 1 .. Len(Downs'), Downs'[p].id = None
        PROVE  /\ "SUBSCRIBED" \in flags /\ Downs'[p].name \in Names
               /\ Sub(Downs'[p].name) # None
               /\ Downs'[p].k \in {"message"} \cup Subscribing
               /\ Downs'[p].k \in Subscribing => invalid = <<>>
               /\ \A i \in Range(replies) :
                    \E q \in 1 .. Len(Downs') : q < p /\ Downs'[q].id = i
               /\ Downs'[p].k = "unsubscribe" =>
                    \A q \in 1 .. Len(Downs') : p < q /\ Downs'[q].id = None =>
                      Downs'[q].name # Downs'[p].name /\ Downs'[p].count # 0
    <2>1. p \in 1 .. Len(Downs) /\ Downs'[p] = Downs[p] /\ Downs[p].id = None
      BY <1>3, <1>4, <1>8
    <2>2. /\ "SUBSCRIBED" \in flags /\ Downs[p].name \in Names /\ Sub(Downs[p].name) # None
          /\ Downs[p].k \in {"message"} \cup Subscribing
          /\ Downs[p].k \in Subscribing => invalid = <<>>
      BY <1>1, <2>1 DEF Messages
    <2>3. \A i \in Range(replies) : \E q \in 1 .. Len(Downs) : q < p /\ Downs[q].id = i
      BY <1>1, <2>1 DEF Messages
    <2>4. Downs[p].k = "unsubscribe" =>
            \A q \in 1 .. Len(Downs) : p < q /\ Downs[q].id = None =>
              Downs[q].name # Downs[p].name /\ Downs[p].count # 0
      BY <1>1, <2>1 DEF Messages
    <2>5. \A q \in 1 .. Len(Downs') : Downs'[q].id = None =>
            q \in 1 .. Len(Downs) /\ Downs'[q] = Downs[q]
      BY <1>3, <1>4
    <2>6. ASSUME NEW i \in Range(replies)
          PROVE  \E q \in 1 .. Len(Downs') : q < p /\ Downs'[q].id = i
      BY <1>4, <2>3
    <2>. QED
      BY <2>1, <2>2, <2>4, <2>5, <2>6
  <1>9. Messages'
    BY <1>5, <1>8 DEF Messages, ContextKept
  <1>10. OneInFlight'
    <2>1. /\ \A p \in 1 .. Len(Downs') : Downs'[p].k \in Subscribing => Downs'[p].id = None
          /\ \A p, q \in 1 .. Len(Downs') :
               Downs'[p].k \in Subscribing /\ Downs'[q].k \in Subscribing => p = q
      BY <1>1, <1>4 DEF OneInFlight
    <2>2. ASSUME NEW p \in 1 .. Len(Ups'), NEW q \in 1 .. Len(Ups'),
                 Ups'[p].op \in Subscribing, Ups'[q].op \in Subscribing
          PROVE  p = q
      <3>1. p + 1 = q + 1
        BY <1>1, <1>2, <2>2 DEF OneInFlight
      <3>. QED
        BY <1>2, <3>1
    <2>3. \A p \in 1 .. Len(Downs'), q \in 1 .. Len(Ups') :
            ~(Downs'[p].k \in Subscribing /\ Ups'[q].op \in Subscribing)
      BY <1>1, <1>2, <1>4 DEF OneInFlight
    <2>4. \A q \in 1 .. Len(Ups') : Ups'[q].op \in Subscribing => Sub(Ups'[q].name) # None
      BY <1>1, <1>2 DEF OneInFlight
    <2>. QED
      BY <1>5, <2>1, <2>2, <2>3, <2>4 DEF OneInFlight
  <1>11. Served'
    <2>1. \A i \in Range(replies) : InDowns(i)' \/ InUps(i)'
      BY <1>1, <1>2, <1>4 DEF Served
    <2>2. \A q \in 1 .. Len(Ups') : Ups'[q].op = "command" =>
            Ups'[q].id \in Range(replies) \cup Range(invalid)
      BY <1>1, <1>2 DEF Served
    <2>3. srvsub # {} => "SUBSCRIBED" \in flags /\ \A i \in Range(replies) : InDowns(i)'
      BY <1>1, <1>4 DEF Served
    <2>4. \A p \in 1 .. Len(Downs') : Downs'[p].k = "unsubscribe" =>
            Downs'[p].name \notin srvsub /\ Downs'[p].count = Cardinality(srvsub)
      BY <1>1, <1>4 DEF Served, Subscribing
    <2>. QED
      BY <2>1, <2>2, <2>3, <2>4 DEF Served, ContextKept
  <1>12. Agreed'
    BY <1>1, <1>2, <1>4, <1>5 DEF Agreed, ContextKept
  <1>. QED
    BY <1>6, <1>7, <1>9, <1>10, <1>11, <1>12 DEF Lines

(* A subscription command is carried out.                                  *)
LEMMA SubscriptionLines ==
  ASSUME AsyncTyped, Lines, srvup = "up", ContextKept, srvup' = srvup,
         NEW r \in Answers, Shifts(Ups', Ups), Extends(Downs', Downs, r),
         Ups[1].op \in Subscribing, r.id = None, r.k = Ups[1].op, r.name = Ups[1].name,
         r.count = Cardinality(srvsub'),
         srvsub' = IF Ups[1].op = "subscribe" THEN srvsub \cup {r.name} ELSE srvsub \ {r.name}
  PROVE  Lines'
  <1>1. Modes /\ Order /\ Messages /\ OneInFlight /\ Served /\ Agreed
    BY DEF Lines
  <1>2. /\ \A i : InUps(i) <=> InUps(i)' \/ Ups[1].id = i
        /\ \A n : SubscribeSent(n) <=>
                    SubscribeSent(n)' \/ (Ups[1].op = "subscribe" /\ Ups[1].name = n)
        /\ 1 \in 1 .. Len(Ups)
        /\ \A q \in 1 .. Len(Ups') : q + 1 \in 1 .. Len(Ups) /\ Ups'[q] = Ups[q + 1]
                                     /\ 1 < q + 1 /\ q \in Nat
    BY ShorterUps
  <1>3. Len(Downs) \in Nat /\ Ups[1].id \in Nat /\ None \notin Nat
    BY <1>2, LineTypes, EntryTypes
  <1>4. /\ \A i : InDowns(i)' <=> InDowns(i) \/ r.id = i
        /\ \A n : UnsubscribeBack(n)' <=>
                    UnsubscribeBack(n) \/ (r.k = "unsubscribe" /\ r.name = n)
        /\ \A p \in 1 .. Len(Downs) : p \in 1 .. Len(Downs') /\ Downs'[p] = Downs[p]
        /\ \A p \in 1 .. Len(Downs') :
             (p = Len(Downs) + 1 /\ Downs'[p] = r)
             \/ (p \in 1 .. Len(Downs) /\ Downs'[p] = Downs[p] /\ p < Len(Downs) + 1)
    BY <1>3, LongerDowns
  <1>5. \A n : Sub(n)' = Sub(n)
    BY DEF ContextKept, Sub, DictOf
  <1>6. /\ "SUBSCRIBED" \in flags /\ invalid = <<>> /\ r.name \in Names
        /\ \A i \in Range(replies) : i < Ups[1].id
    BY <1>1, <1>2 DEF Modes
  <1>7. /\ \A p \in 1 .. Len(Downs) : Downs[p].k \notin Subscribing
        /\ \A q \in 1 .. Len(Ups) : Ups[q].op \in Subscribing => q = 1
        /\ Sub(r.name) # None /\ r.k \in Subscribing
    BY <1>1, <1>2 DEF OneInFlight
  <1>8. \A i \in Range(replies) : InDowns(i)
    BY <1>1, <1>2, <1>6, EarlierAnswered
  <1>9. \A q \in 1 .. Len(Ups') : Ups'[q].op \notin Subscribing
    <2>1. \A q \in 1 .. Len(Ups') : q + 1 # 1
      BY <1>2
    <2>. QED
      BY <1>2, <1>7, <2>1
  <1>10. Modes'
    BY <1>1, <1>2, ServerModes
  <1>11. Order'
    <2>1. \A q \in 1 .. Len(Ups') : Ups'[q].id <= issued'
      BY <1>1, <1>2 DEF Order, ContextKept
    <2>2. ASSUME NEW p \in 1 .. Len(Ups'), NEW q \in 1 .. Len(Ups'), p < q
          PROVE  Ups'[p].id < Ups'[q].id
      <3>1. p + 1 < q + 1
        BY <1>2, <2>2
      <3>. QED
        BY <1>1, <1>2, <3>1 DEF Order
    <2>3. \A p \in 1 .. Len(Downs') : Downs'[p].id \in Nat =>
            p \in 1 .. Len(Downs) /\ Downs'[p] = Downs[p]
      BY <1>3, <1>4
    <2>4. ASSUME NEW p \in 1 .. Len(Downs'), Downs'[p].id \in Nat
          PROVE  /\ Downs'[p].id \in Range(replies) \cup Range(invalid)
                 /\ \A q \in 1 .. Len(Downs') :
                      p < q /\ Downs'[q].id \in Nat => Downs'[p].id < Downs'[q].id
                 /\ \A q \in 1 .. Len(Ups') : Downs'[p].id < Ups'[q].id
                 /\ \A i \in Range(replies) : i < Downs'[p].id => InDowns(i)'
      <3>1. p \in 1 .. Len(Downs) /\ Downs'[p] = Downs[p]
        BY <2>3, <2>4
      <3>2. /\ Downs[p].id \in Range(replies) \cup Range(invalid)
            /\ \A q \in 1 .. Len(Downs) :
                 p < q /\ Downs[q].id \in Nat => Downs[p].id < Downs[q].id
            /\ \A q \in 1 .. Len(Ups) : Downs[p].id < Ups[q].id
        BY <1>1, <2>4, <3>1 DEF Order
      <3>. QED
        BY <1>2, <1>4, <1>8, <2>3, <3>1, <3>2
    <2>. QED
      BY <2>1, <2>2, <2>4 DEF Order, ContextKept
  <1>12. ASSUME NEW p \in 1 .. Len(Downs'), Downs'[p].id = None
         PROVE  /\ "SUBSCRIBED" \in flags /\ Downs'[p].name \in Names
                /\ Sub(Downs'[p].name) # None
                /\ Downs'[p].k \in {"message"} \cup Subscribing
                /\ Downs'[p].k \in Subscribing => invalid = <<>>
                /\ \A i \in Range(replies) :
                     \E q \in 1 .. Len(Downs') : q < p /\ Downs'[q].id = i
                /\ Downs'[p].k = "unsubscribe" => \A q \in 1 .. Len(Downs') : ~(p < q)
    <2>1. CASE p = Len(Downs) + 1 /\ Downs'[p] = r
      <3>1. ASSUME NEW i \in Range(replies)
            PROVE  \E q \in 1 .. Len(Downs') : q < p /\ Downs'[q].id = i
        <4>1. PICK q \in 1 .. Len(Downs) : Downs[q].id = i
          BY <1>8 DEF InDowns
        <4>2. q \in 1 .. Len(Downs') /\ Downs'[q] = Downs[q] /\ q < p
          BY <1>3, <1>4, <2>1
        <4>. QED
          BY <4>1, <4>2
      <3>2. \A q \in 1 .. Len(Downs') : ~(p < q)
        BY <1>3, <1>4, <2>1
      <3>. QED
        BY <1>6, <1>7, <2>1, <3>1, <3>2
    <2>2. CASE p \in 1 .. Len(Downs) /\ Downs'[p] = Downs[p]
      <3>1. /\ Downs[p].name \in Names /\ Sub(Downs[p].name) # None
            /\ Downs[p].k \in {"message"} \cup Subscribing
        BY <1>1, <1>12, <2>2 DEF Messages
      <3>2. \A i \in Range(replies) : \E q \in 1 .. Len(Downs) : q < p /\ Downs[q].id = i
        BY <1>1, <1>12, <2>2 DEF Messages
      <3>3. ASSUME NEW i \in Range(replies)
            PROVE  \E q \in 1 .. Len(Downs') : q < p /\ Downs'[q].id = i
        BY <1>4, <3>2
      <3>4. Downs'[p].k # "unsubscribe"
        BY <1>7, <2>2 DEF Subscribing
      <3>. QED
        BY <1>6, <2>2, <3>1, <3>3, <3>4
    <2>. QED
      BY <1>4, <2>1, <2>2
  <1>13. Messages'
    BY <1>5, <1>12 DEF Messages, ContextKept
  <1>14. OneInFlight'
    <2>1. /\ \A p \in 1 .. Len(Downs') : Downs'[p].k \in Subscribing => Downs'[p].id = None
          /\ \A p, q \in 1 .. Len(Downs') :
               Downs'[p].k \in Subscribing /\ Downs'[q].k \in Subscribing => p = q
      BY <1>4, <1>7
    <2>. QED
      BY <1>9, <2>1 DEF OneInFlight
  <1>15. Served'
    <2>1. \A i \in Range(replies) : InDowns(i)'
      BY <1>4, <1>8
    <2>2. \A q \in 1 .. Len(Ups') : Ups'[q].op = "command" =>
            Ups'[q].id \in Range(replies) \cup Range(invalid)
      BY <1>1, <1>2 DEF Served
    <2>3. ASSUME NEW p \in 1 .. Len(Downs'), Downs'[p].k = "unsubscribe"
          PROVE  Downs'[p].name \notin srvsub' /\ Downs'[p].count = Cardinality(srvsub')
      <3>1. Downs'[p] = r
        BY <1>4, <1>7, <2>3 DEF Subscribing
      <3>2. Ups[1].op # "subscribe"
        BY <2>3, <3>1
      <3>. QED
        BY <3>1, <3>2
    <2>. QED
      BY <1>6, <2>1, <2>2, <2>3 DEF Served, ContextKept
  <1>16. ASSUME NEW n \in Names
         PROVE  Sub(n) # None <=> n \in srvsub' \/ SubscribeSent(n)' \/ UnsubscribeBack(n)'
    <2>1. Sub(n) # None <=> n \in srvsub \/ SubscribeSent(n) \/ UnsubscribeBack(n)
      BY <1>1 DEF Agreed
    <2>2. CASE Ups[1].op = "subscribe"
      BY <1>2, <1>4, <2>1, <2>2
    <2>3. CASE Ups[1].op = "unsubscribe"
      BY <1>2, <1>4, <1>7, <2>1, <2>3
    <2>. QED
      BY <2>2, <2>3 DEF Subscribing
  <1>17. srvsub' # {} \/ \E n \in Names : SubscribeSent(n)' \/ UnsubscribeBack(n)'
    <2>1. CASE Ups[1].op = "subscribe"
      BY <2>1
    <2>2. CASE Ups[1].op = "unsubscribe"
      BY <1>4, <1>6, <2>2
    <2>. QED
      BY <2>1, <2>2 DEF Subscribing
  <1>18. Agreed'
    BY <1>5, <1>16, <1>17 DEF Agreed
  <1>. QED
    BY <1>10, <1>11, <1>13, <1>14, <1>15, <1>18 DEF Lines

(* A message is published to a subscriber.                                 *)
LEMMA PublishedLines ==
  ASSUME AsyncTyped, Lines, srvup = "up", ContextKept, UNCHANGED <<srvsub, srvup, Ups>>,
         NEW r \in Answers, Extends(Downs', Downs, r),
         r.id = None, r.k = "message", r.name \in srvsub
  PROVE  Lines'
  <1>1. Modes /\ Order /\ Messages /\ OneInFlight /\ Served /\ Agreed
    BY DEF Lines
  <1>3. Len(Downs) \in Nat /\ None \notin Nat
    BY LineTypes, EntryTypes
  <1>4. /\ \A i : InDowns(i)' <=> InDowns(i) \/ r.id = i
        /\ \A n : UnsubscribeBack(n)' <=> UnsubscribeBack(n)
        /\ \A p \in 1 .. Len(Downs) : p \in 1 .. Len(Downs') /\ Downs'[p] = Downs[p]
        /\ \A p \in 1 .. Len(Downs') :
             (p = Len(Downs) + 1 /\ Downs'[p] = r)
             \/ (p \in 1 .. Len(Downs) /\ Downs'[p] = Downs[p] /\ p < Len(Downs) + 1)
    BY <1>3, LongerDowns
  <1>5. /\ \A n : Sub(n)' = Sub(n)
        /\ \A n : SubscribeSent(n)' <=> SubscribeSent(n)
        /\ \A i : InUps(i)' <=> InUps(i)
    BY DEF ContextKept, Sub, DictOf, SubscribeSent, InUps
  <1>6. /\ "SUBSCRIBED" \in flags /\ r.name \in Names /\ Sub(r.name) # None
        /\ \A i \in Range(replies) : InDowns(i)
    BY <1>1 DEF Served, Agreed, AsyncTyped
  <1>7. Cardinality(srvsub) # 0
    BY FS_EmptySet DEF AsyncTyped
  <1>8. r.k \notin Subscribing
    BY DEF Subscribing
  <1>9. Modes'
    BY <1>1 DEF Modes, ContextKept
  <1>10. Order'
    <2>1. \A p \in 1 .. Len(Downs') : Downs'[p].id \in Nat =>
            p \in 1 .. Len(Downs) /\ Downs'[p] = Downs[p]
      BY <1>3, <1>4
    <2>2. ASSUME NEW p \in 1 .. Len(Downs'), Downs'[p].id \in Nat
          PROVE  /\ Downs'[p].id \in Range(replies) \cup Range(invalid)
                 /\ \A q \in 1 .. Len(Downs') :
                      p < q /\ Downs'[q].id \in Nat => Downs'[p].id < Downs'[q].id
                 /\ \A q \in 1 .. Len(Ups) : Downs'[p].id < Ups[q].id
                 /\ \A i \in Range(replies) : InDowns(i)'
      <3>1. p \in 1 .. Len(Downs) /\ Downs'[p] = Downs[p]
        BY <2>1, <2>2
      <3>2. /\ Downs[p].id \in Range(replies) \cup Range(invalid)
            /\ \A q \in 1 .. Len(Downs) :
                 p < q /\ Downs[q].id \in Nat => Downs[p].id < Downs[q].id
            /\ \A q \in 1 .. Len(Ups) : Downs[p].id < Ups[q].id
        BY <1>1, <2>2, <3>1 DEF Order
      <3>. QED
        BY <1>4, <1>6, <2>1, <3>1, <3>2
    <2>3. /\ \A q \in 1 .. Len(Ups) : Ups[q].id <= issued
          /\ \A p, q \in 1 .. Len(Ups) : p < q => Ups[p].id < Ups[q].id
      BY <1>1 DEF Order
    <2>. QED
      BY <2>2, <2>3 DEF Order, ContextKept
  <1>11. ASSUME NEW p \in 1 .. Len(Downs'), Downs'[p].id = None
         PROVE  /\ "SUBSCRIBED" \in flags /\ Downs'[p].name \in Names
                /\ Sub(Downs'[p].name) # None
                /\ Downs'[p].k \in {"message"} \cup Subscribing
                /\ Downs'[p].k \in Subscribing => invalid = <<>>
                /\ \A i \in Range(replies) :
                     \E q \in 1 .. Len(Downs') : q < p /\ Downs'[q].id = i
                /\ Downs'[p].k = "unsubscribe" =>
                     \A q \in 1 .. Len(Downs') : p < q /\ Downs'[q].id = None =>
                       Downs'[q].name # Downs'[p].name /\ Downs'[p].count # 0
    <2>1. CASE p = Len(Downs) + 1 /\ Downs'[p] = r
      <3>1. ASSUME NEW i \in Range(replies)
            PROVE  \E q \in 1 .. Len(Downs') : q < p /\ Downs'[q].id = i
        <4>1. PICK q \in 1 .. Len(Downs) : Downs[q].id = i
          BY <1>6 DEF InDowns
        <4>2. q \in 1 .. Len(Downs') /\ Downs'[q] = Downs[q] /\ q < p
          BY <1>3, <1>4, <2>1
        <4>. QED
          BY <4>1, <4>2
      <3>. QED
        BY <1>6, <1>8, <2>1, <3>1
    <2>2. CASE p \in 1 .. Len(Downs) /\ Downs'[p] = Downs[p]
      <3>1. /\ Downs[p].name \in Names /\ Sub(Downs[p].name) # None
            /\ Downs[p].k \in {"message"} \cup Subscribing
            /\ Downs[p].k \in Subscribing => invalid = <<>>
        BY <1>1, <1>11, <2>2 DEF Messages
      <3>2. \A i \in Range(replies) : \E q \in 1 .. Len(Downs) : q < p /\ Downs[q].id = i
        BY <1>1, <1>11, <2>2 DEF Messages
      <3>3. ASSUME NEW i \in Range(replies)
            PROVE  \E q \in 1 .. Len(Downs') : q < p /\ Downs'[q].id = i
        BY <1>4, <3>2
      <3>4. ASSUME Downs[p].k = "unsubscribe",
                   NEW q \in 1 .. Len(Downs'), p < q, Downs'[q].id = None
            PROVE  Downs'[q].name # Downs[p].name /\ Downs[p].count # 0
        <4>1. Downs[p].name \notin srvsub /\ Downs[p].count = Cardinality(srvsub)
          BY <1>1, <2>2, <3>4 DEF Served
        <4>2. CASE Downs'[q] = r
          BY <1>7, <4>1, <4>2
        <4>3. CASE q \in 1 .. Len(Downs) /\ Downs'[q] = Downs[q]
          BY <1>1, <1>11, <2>2, <3>4, <4>3 DEF Messages
        <4>. QED
          BY <1>4, <4>2, <4>3
      <3>. QED
        BY <1>6, <2>2, <3>1, <3>3, <3>4
    <2>. QED
      BY <1>4, <2>1, <2>2
  <1>12. Messages'
    BY <1>5, <1>11 DEF Messages, ContextKept
  <1>13. OneInFlight'
    <2>1. /\ \A p \in 1 .. Len(Downs') : Downs'[p].k \in Subscribing => Downs'[p].id = None
          /\ \A p, q \in 1 .. Len(Downs') :
               Downs'[p].k \in Subscribing /\ Downs'[q].k \in Subscribing => p = q
          /\ \A p \in 1 .. Len(Downs'), q \in 1 .. Len(Ups) :
               ~(Downs'[p].k \in Subscribing /\ Ups[q].op \in Subscribing)
      BY <1>1, <1>4, <1>8 DEF OneInFlight
    <2>2. /\ \A p, q \in 1 .. Len(Ups) :
               Ups[p].op \in Subscribing /\ Ups[q].op \in Subscribing => p = q
          /\ \A q \in 1 .. Len(Ups) : Ups[q].op \in Subscribing => Sub(Ups[q].name) # None
      BY <1>1 DEF OneInFlight
    <2>. QED
      BY <1>5, <2>1, <2>2 DEF OneInFlight
  <1>14. Served'
    <2>1. \A p \in 1 .. Len(Downs') : Downs'[p].k = "unsubscribe" =>
            Downs'[p].name \notin srvsub /\ Downs'[p].count = Cardinality(srvsub)
      BY <1>1, <1>4, <1>8 DEF Served, Subscribing
    <2>2. \A q \in 1 .. Len(Ups) : Ups[q].op = "command" =>
            Ups[q].id \in Range(replies) \cup Range(invalid)
      BY <1>1 DEF Served
    <2>. QED
      BY <1>4, <1>6, <2>1, <2>2 DEF Served, ContextKept
  <1>15. Agreed'
    BY <1>1, <1>4, <1>5 DEF Agreed, ContextKept
  <1>. QED
    BY <1>9, <1>10, <1>12, <1>13, <1>14, <1>15 DEF Lines

(* A step of the server leaves the context to itself.                      *)
LEMMA ServerBasics ==
  ASSUME AsyncIInv, UNCHANGED <<ctx, fate, issued, pc, bad>>,
         sent' \in Seq(Commands), down' \in Seq(Answers),
         srvsub' \subseteq Names, IsFiniteSet(srvsub'), srvup' \in {"up", "closed", "refused"},
         srvup = "refused" => srvup' = "refused",
         ~Leaving => Lines'
  PROVE  AsyncIInv'
  <1>1. Basics /\ AsyncTyped /\ Dicts /\ Waiting
    BY DEF AsyncIInv, Basics
  <1>2. AsyncTyped' /\ Dicts' /\ Waiting'
    BY <1>1 DEF ctx, AsyncTyped, Dicts, Waiting
  <1>3. (Leaving' <=> Leaving) /\ (Closing' <=> Closing)
    BY DEF ctx, Leaving, Closing
  <1>. QED
    BY <1>1, <1>2, <1>3 DEF AsyncIInv, Basics, ctx

(* The server carries out the next command.                                *)
LEMMA ServeInv ==
  ASSUME AsyncIInv, Serve
  PROVE  AsyncIInv'
  <1>. DEFINE c == Head(sent)
              now == IF c.op = "subscribe" THEN srvsub \cup {c.name} ELSE srvsub \ {c.name}
  <1>0. /\ srvup = "up" /\ sent # <<>> /\ sent' = Tail(sent)
        /\ UNCHANGED <<ctx, srvup, fate, issued, pc, worker, bad>>
    BY DEF Serve
  <1>1. AsyncTyped /\ sent \in Seq(Commands) /\ obuf \in Seq(Commands) /\ down \in Seq(Answers)
        /\ ibuf \in Seq(Answers) /\ srvsub \subseteq Names /\ IsFiniteSet(srvsub)
    BY DEF AsyncIInv, Basics, AsyncTyped
  <1>2. Ups' = Tail(Ups) /\ Ups # <<>> /\ Ups \in Seq(Commands) /\ Head(Ups) = c
        /\ sent' \in Seq(Commands)
    <2>1. /\ Tail(sent) \o obuf = Tail(sent \o obuf) /\ Head(sent \o obuf) = Head(sent)
          /\ sent \o obuf # <<>> /\ Tail(sent) \in Seq(Commands) /\ sent \o obuf \in Seq(Commands)
      BY <1>0, <1>1, JoinTail
    <2>. QED
      BY <1>0, <2>1 DEF Ups, ctx
  <1>3. Shifts(Ups', Ups) /\ Ups[1] = c /\ c \in Commands
    BY <1>2, TailShifts
  <1>4. ContextKept
    BY <1>0 DEF ctx, ContextKept
  <1>5. ~Leaving => Lines
    BY DEF AsyncIInv
  <1>6. ASSUME NEW r \in Answers, down' = Append(down, r)
        PROVE  Extends(Downs', Downs, r) /\ down' \in Seq(Answers)
    <2>1. ibuf \o Append(down, r) = Append(ibuf \o down, r)
      BY <1>1, JoinAppend
    <2>2. Downs' = Append(Downs, r) /\ Downs \in Seq(Answers)
      BY <1>0, <1>1, <1>6, <2>1, LineTypes DEF Downs, ctx
    <2>. QED
      BY <1>1, <1>6, <2>2, AppendExtends
  <1>. HIDE DEF c
  <1>7. c.id \in Nat /\ c.op \in Subscribing \cup {"command"}
    BY <1>3, EntryTypes DEF Commands, Ids
  <1>8. CASE c.op = "command"
    <2>1. PICK r : r = [k |-> IF srvsub = {} THEN "reply" ELSE "error",
                        id |-> c.id, name |-> None, count |-> 0]
      OBVIOUS
    <2>2. r \in Answers /\ r.k \in {"reply", "error"} /\ r.id = c.id
      BY <1>7, <2>1 DEF Answers
    <2>3. r.k \notin Subscribing
      BY <2>2 DEF Subscribing
    <2>4. down' = Append(down, r) /\ srvsub' = srvsub
      BY <1>8, <2>1 DEF Serve, c
    <2>5. Extends(Downs', Downs, r) /\ down' \in Seq(Answers)
      BY <1>6, <2>2, <2>4
    <2>6. ~Leaving => Lines'
      BY <1>0, <1>1, <1>3, <1>4, <1>5, <1>8, <2>2, <2>3, <2>4, <2>5, ReplyLines
    <2>. QED
      BY <1>0, <1>1, <1>2, <2>4, <2>5, <2>6, ServerBasics
  <1>9. CASE c.op \in Subscribing
    <2>0. c.name \in Names
      BY <1>3, <1>9 DEF Commands, Subscribing
    <2>1. PICK s : s = now
      OBVIOUS
    <2>2. s \subseteq Names /\ IsFiniteSet(s) /\ Cardinality(s) \in Nat
      <3>1. IsFiniteSet(srvsub \cup {c.name}) /\ IsFiniteSet(srvsub \ {c.name})
        BY <1>1, FS_AddElement, FS_RemoveElement
      <3>2. IsFiniteSet(s)
        BY <2>1, <3>1
      <3>3. Cardinality(s) \in Nat
        BY <3>2, FS_CardinalityType
      <3>. QED
        BY <1>1, <2>0, <2>1, <3>2, <3>3
    <2>3. PICK r : r = Message(c.op, c.name, Cardinality(s))
      OBVIOUS
    <2>4. r \in Answers /\ r.k = c.op /\ r.id = None /\ r.name = c.name /\ r.count = Cardinality(s)
      BY <1>9, <2>0, <2>2, <2>3 DEF Answers, Message
    <2>5. down' = Append(down, r) /\ srvsub' = s
      BY <1>9, <2>1, <2>3 DEF Serve, c, Subscribing
    <2>6. Extends(Downs', Downs, r) /\ down' \in Seq(Answers)
      BY <1>6, <2>4, <2>5
    <2>7. srvsub' = IF Ups[1].op = "subscribe" THEN srvsub \cup {r.name} ELSE srvsub \ {r.name}
      BY <1>3, <2>1, <2>4, <2>5
    <2>8. ~Leaving => Lines'
      BY <1>0, <1>1, <1>3, <1>4, <1>5, <1>9, <2>4, <2>5, <2>6, <2>7, SubscriptionLines
    <2>. QED
      BY <1>0, <1>1, <1>2, <2>2, <2>5, <2>6, <2>8, ServerBasics
  <1>. QED
    BY <1>7, <1>8, <1>9

(* The server publishes a message.                                         *)
LEMMA PublishInv ==
  ASSUME AsyncIInv, Publish
  PROVE  AsyncIInv'
  <1>0. /\ srvup = "up" /\ UNCHANGED <<ctx, sent, srvsub, srvup, fate, issued, pc, worker, bad>>
    BY DEF Publish
  <1>1. PICK n \in srvsub : down' = Append(down, Message("message", n, 0))
    BY DEF Publish
  <1>2. AsyncTyped /\ sent \in Seq(Commands) /\ down \in Seq(Answers)
        /\ ibuf \in Seq(Answers) /\ srvsub \subseteq Names /\ IsFiniteSet(srvsub)
    BY DEF AsyncIInv, Basics, AsyncTyped
  <1>3. PICK r : r = Message("message", n, 0)
    OBVIOUS
  <1>4. r \in Answers /\ r.k = "message" /\ r.id = None /\ r.name = n
    BY <1>2, <1>3 DEF Answers, Message
  <1>5. Extends(Downs', Downs, r) /\ down' \in Seq(Answers)
    <2>1. ibuf \o Append(down, r) = Append(ibuf \o down, r)
      BY <1>2, <1>4, JoinAppend
    <2>2. Downs' = Append(Downs, r) /\ Downs \in Seq(Answers)
      BY <1>0, <1>1, <1>2, <1>3, <2>1, LineTypes DEF Downs, ctx
    <2>3. down' = Append(down, r)
      BY <1>1, <1>3
    <2>. QED
      BY <1>2, <1>4, <2>2, <2>3, AppendExtends
  <1>6. ContextKept /\ UNCHANGED <<srvsub, srvup, Ups>>
    BY <1>0 DEF ctx, ContextKept, Ups
  <1>7. ~Leaving => Lines'
    BY <1>0, <1>2, <1>4, <1>5, <1>6, PublishedLines DEF AsyncIInv
  <1>. QED
    BY <1>0, <1>2, <1>5, <1>7, ServerBasics

(* The server closes; what it has not read is lost.                        *)
LEMMA ClosesInv ==
  ASSUME AsyncIInv, ServerCloses
  PROVE  AsyncIInv'
  <1>0. /\ srvup = "up" /\ srvup' = "closed" /\ sent' = <<>>
        /\ UNCHANGED <<ctx, down, srvsub, fate, issued, pc, worker, bad>>
    BY DEF ServerCloses
  <1>1. AsyncTyped /\ sent \in Seq(Commands) /\ obuf \in Seq(Commands) /\ down \in Seq(Answers)
        /\ srvsub \subseteq Names /\ IsFiniteSet(srvsub)
    BY DEF AsyncIInv, Basics, AsyncTyped
  <1>2. Ups' = obuf /\ Downs' = Downs
    <2>1. <<>> \o obuf = obuf
      BY <1>1, ConcatEmptySeq
    <2>. QED
      BY <1>0, <2>1 DEF Ups, Downs, ctx
  <1>3. \A q \in 1 .. Len(obuf) : /\ Len(sent) + q \in 1 .. Len(Ups)
                                  /\ obuf[q] = Ups[Len(sent) + q]
    <2>1. /\ Len(sent \o obuf) = Len(sent) + Len(obuf)
          /\ \A q \in 1 .. Len(obuf) : (sent \o obuf)[Len(sent) + q] = obuf[q]
      BY <1>1, JoinedEntries
    <2>2. Len(sent) \in Nat /\ Len(obuf) \in Nat
      BY <1>1
    <2>. QED
      BY <2>1, <2>2 DEF Ups
  <1>4. \A n : Sub(n)' = Sub(n)
    BY <1>0 DEF Sub, DictOf, ctx
  <1>5. ASSUME ~Leaving PROVE Lines'
    <2>1. Modes /\ Order /\ Messages /\ OneInFlight
      BY <1>0, <1>5 DEF AsyncIInv, Lines
    <2>2. ContextKept
      BY <1>0 DEF ctx, ContextKept
    <2>3. Modes'
      BY <1>2, <1>3, <2>1, <2>2, ServerModes
    <2>4. \A i : InDowns(i)' <=> InDowns(i)
      BY <1>2 DEF InDowns
    <2>5. Order'
      <3>1. \A q \in 1 .. Len(obuf) : obuf[q].id <= issued
        BY <1>3, <2>1 DEF Order
      <3>2. ASSUME NEW p \in 1 .. Len(obuf), NEW q \in 1 .. Len(obuf), p < q
            PROVE  obuf[p].id < obuf[q].id
        <4>1. Len(sent) + p < Len(sent) + q
          BY <1>1, <3>2
        <4>. QED
          BY <1>3, <2>1, <4>1 DEF Order
      <3>3. \A p \in 1 .. Len(Downs) : Downs[p].id \in Nat =>
              \A q \in 1 .. Len(obuf) : Downs[p].id < obuf[q].id
        BY <1>3, <2>1 DEF Order
      <3>4. \A p \in 1 .. Len(Downs) : Downs[p].id \in Nat =>
              /\ Downs[p].id \in Range(replies) \cup Range(invalid)
              /\ \A q \in 1 .. Len(Downs) :
                   p < q /\ Downs[q].id \in Nat => Downs[p].id < Downs[q].id
              /\ \A i \in Range(replies) : i < Downs[p].id => InDowns(i)
        BY <2>1 DEF Order
      <3>. QED
        BY <1>2, <2>2, <2>4, <3>1, <3>2, <3>3, <3>4 DEF Order, ContextKept
    <2>6. Messages'
      BY <1>2, <1>4, <2>1, <2>2 DEF Messages, ContextKept
    <2>7. OneInFlight'
      <3>1. ASSUME NEW p \in 1 .. Len(obuf), NEW q \in 1 .. Len(obuf),
                   obuf[p].op \in Subscribing, obuf[q].op \in Subscribing
            PROVE  p = q
        <4>1. Len(sent) + p = Len(sent) + q
          BY <1>3, <2>1, <3>1 DEF OneInFlight
        <4>. QED
          BY <1>1, <4>1
      <3>2. \A p \in 1 .. Len(Downs), q \in 1 .. Len(obuf) :
              ~(Downs[p].k \in Subscribing /\ obuf[q].op \in Subscribing)
        BY <1>3, <2>1 DEF OneInFlight
      <3>3. \A q \in 1 .. Len(obuf) : obuf[q].op \in Subscribing => Sub(obuf[q].name) # None
        BY <1>3, <2>1 DEF OneInFlight
      <3>4. /\ \A p \in 1 .. Len(Downs) : Downs[p].k \in Subscribing => Downs[p].id = None
            /\ \A p, q \in 1 .. Len(Downs) :
                 Downs[p].k \in Subscribing /\ Downs[q].k \in Subscribing => p = q
        BY <2>1 DEF OneInFlight
      <3>. QED
        BY <1>2, <1>4, <3>1, <3>2, <3>3, <3>4 DEF OneInFlight
    <2>. QED
      BY <1>0, <2>3, <2>5, <2>6, <2>7 DEF Lines
  <1>6. sent' \in Seq(Commands)
    <2>1. <<>> \in Seq(Commands)
      OBVIOUS
    <2>. QED
      BY <1>0, <2>1
  <1>. QED
    BY <1>0, <1>1, <1>5, <1>6, ServerBasics

(* The server refuses a connection that has issued nothing.                *)
LEMMA RefusesInv ==
  ASSUME AsyncIInv, ServerRefuses
  PROVE  AsyncIInv'
  <1>. DEFINE e == [k |-> "error", id |-> 0, name |-> None, count |-> 0]
  <1>0. /\ srvup = "up" /\ issued = 0 /\ down = <<>> /\ down' = <<e>> /\ srvup' = "refused"
        /\ UNCHANGED <<ctx, sent, srvsub, fate, issued, pc, worker, bad>>
    BY DEF ServerRefuses
  <1>1. AsyncTyped /\ Waiting /\ sent \in Seq(Commands) /\ ibuf \in Seq(Answers)
        /\ srvsub \subseteq Names /\ IsFiniteSet(srvsub)
    BY DEF AsyncIInv, Basics, AsyncTyped
  <1>2. e \in Answers /\ e.id = 0
    BY DEF Answers
  <1>. HIDE DEF e
  <1>3. down' \in Seq(Answers)
    BY <1>0, <1>2
  <1>4. ASSUME ~Leaving PROVE Lines'
    <2>1. Modes /\ Order /\ Messages
      BY <1>0, <1>4 DEF AsyncIInv, Lines
    <2>2. ASSUME NEW p \in 1 .. Len(ibuf) PROVE FALSE
      <3>1. Downs[p] = ibuf[p] /\ p \in 1 .. Len(Downs)
        <4>1. ibuf \o <<>> = ibuf
          BY <1>1, ConcatEmptySeq
        <4>. QED
          BY <1>0, <4>1 DEF Downs
      <3>2. Downs[p].id \in Nat \cup {None}
        BY <1>1, <3>1, EntryTypes
      <3>3. CASE Downs[p].id \in Nat
        <4>1. Downs[p].id \in Range(replies) \cup Range(invalid)
          BY <2>1, <3>1, <3>3 DEF Order
        <4>2. Downs[p].id \in Ids /\ Downs[p].id <= issued
          BY <1>1, <4>1, WaitsIssued
        <4>. QED
          BY <1>0, <4>2 DEF Ids
      <3>4. CASE Downs[p].id = None
        <4>1. issued > 0
          BY <2>1, <3>1, <3>4 DEF Messages, Modes
        <4>. QED
          BY <1>0, <4>1
      <3>. QED
        BY <3>2, <3>3, <3>4
    <2>3. ibuf = <<>>
      <3>1. Len(ibuf) = 0
        <4>1. Len(ibuf) \in Nat
          BY <1>1
        <4>2. 1 \notin 1 .. Len(ibuf)
          BY <2>2
        <4>. QED
          BY <4>1, <4>2
      <3>. QED
        BY <1>1, <3>1, EmptySeq
    <2>4. Downs' = <<e>>
      <3>1. <<>> \o <<e>> = <<e>> /\ <<e>> \in Seq(Answers)
        BY <1>2, ConcatEmptySeq
      <3>. QED
        BY <1>0, <2>3, <3>1 DEF Downs, ctx
    <2>5. Refused'
      BY <1>2, <2>4 DEF Refused
    <2>6. Modes'
      BY <1>0, <2>1 DEF Modes, Ups, ctx
    <2>. QED
      BY <1>0, <2>5, <2>6 DEF Lines
  <1>. QED
    BY <1>0, <1>1, <1>3, <1>4, ServerBasics

(***************************************************************************)
(* The theorems.                                                           *)
(***************************************************************************)
(* A clean disconnect with a pending command was asked for, and only the   *)
(* connect callback can free the context of the handler that runs it.      *)
LEMMA CausesNext == Causes /\ [Next]_vars => Causes'
  <1>. SUFFICES ASSUME Causes, [Next]_vars PROVE Causes'
    OBVIOUS
  <1>0. AsyncDisconnect /\ bad = "no" /\ UNCHANGED replies
        /\ (err' # "none" \/ "DISCONNECTING" \in flags) /\ pc # "unconnected" => Causes'
    BY DEF AsyncDisconnect, Causes
  <1>1. CASE Service
    <2>1. CASE redis_attach \/ redis_request_map
      BY <2>1 DEF redis_attach, redis_request_map, ctx, Causes, InConnect, Closing
    <2>2. CASE redis_disconnect
      BY <2>2 DEF redis_disconnect, InService, Causes, InConnect, Closing
    <2>3. CASE redisAsyncFree
      BY <2>3 DEF redisAsyncFree, InService, Causes, InConnect, Closing
    <2>4. ASSUME NEW op, NEW n, redisAsyncCommand(op, n) PROVE Causes'
      BY <2>4 DEF redisAsyncCommand, InService, Causes
    <2>. QED
      BY <1>1, <2>1, <2>2, <2>3, <2>4 DEF Service
  <1>2. CASE Handlers
    <2>1. CASE HandleConnect
      BY <2>1 DEF HandleConnect, Event, Causes
    <2>2. CASE HandleWrite
      BY <1>0, <2>2 DEF HandleWrite, Event, Causes
    <2>3. CASE HandleRead
      BY <1>0, <2>3 DEF HandleRead, Event, Causes
    <2>4. CASE ProcessNothing
      BY <1>0, <2>4 DEF ProcessNothing, Causes
    <2>5. CASE ProcessRegular
      BY <2>5 DEF ProcessRegular, Take, RunCallback, Causes
    <2>6. CASE ProcessSpontaneous
      BY <1>0, <2>6 DEF ProcessSpontaneous, Take, Causes
    <2>7. CASE ProcessMessage
      BY <2>7 DEF ProcessMessage, Take, Causes
    <2>8. CASE ProcessInvalid
      BY <2>8 DEF ProcessInvalid, Take, RunCallback, Causes
    <2>9. CASE ProcessError
      BY <1>0, <2>9 DEF ProcessError, Causes
    <2>10. CASE FreeRunsPending \/ FreeEnds
      BY <2>10 DEF FreeRunsPending, FreeEnds, Causes
    <2>. QED
      BY <1>2, <2>1, <2>2, <2>3, <2>4, <2>5, <2>6, <2>7, <2>8, <2>9, <2>10 DEF Handlers
  <1>3. CASE Returns
    <2>1. CASE UnconnectedReturns
      <3>1. err' # "none" /\ AsyncDisconnect /\ bad = "no"
        BY <2>1 DEF UnconnectedReturns, Causes
      <3>2. bad' = "no" /\ pc' = "free"
        BY <3>1 DEF AsyncDisconnect
      <3>. QED
        BY <3>2 DEF Causes
    <2>2. CASE ConnectedReturns \/ CallbackReturns \/ LastReturns
      BY <2>2 DEF ConnectedReturns, CallbackReturns, LastReturns, Causes
    <2>. QED
      BY <1>3, <2>1, <2>2 DEF Returns
  <1>4. CASE redis_close \/ redis_error
    BY <1>4 DEF redis_close, redis_error, ctx, Causes
  <1>5. CASE Serve \/ Publish \/ ServerCloses \/ ServerRefuses
    <2>1. UNCHANGED <<ctx, pc, bad>>
      BY <1>5 DEF Serve, Publish, ServerCloses, ServerRefuses
    <2>. QED
      BY <2>1 DEF ctx, Causes, InConnect, Closing
  <1>6. CASE UNCHANGED vars
    BY <1>6 DEF vars, ctx, Causes, InConnect, Closing
  <1>. QED
    BY <1>1, <1>2, <1>3, <1>4, <1>5, <1>6 DEF Next

(* Every step of a careful service preserves the invariant.                *)
LEMMA AsyncNext == Careful /\ AsyncIInv /\ Causes /\ [Next]_vars => AsyncIInv'
  <1>. SUFFICES ASSUME Careful, AsyncIInv, Causes, [Next]_vars PROVE AsyncIInv'
    OBVIOUS
  <1>1. CASE Service
    <2>1. CASE redis_attach \/ redis_disconnect \/ redisAsyncFree \/ redis_request_map
      BY <2>1, ServiceStill
    <2>2. CASE \E n \in Names : redisAsyncCommand("subscribe", n)
      BY <2>2, CommandInv DEF Subscribing
    <2>3. CASE \E n \in Names : redisAsyncCommand("unsubscribe", n)
      BY <2>3, CommandInv DEF Subscribing
    <2>4. CASE redisAsyncCommand("command", None)
      BY <2>4, CommandInv
    <2>. QED
      BY <1>1, <2>1, <2>2, <2>3, <2>4 DEF Service
  <1>2. CASE Handlers
    BY <1>2, HandlersStill, RegularInv, SpontaneousInv, MessageInv, InvalidInv,
       ErrorInv, FreeRunsPendingInv, FreeEndsInv DEF Handlers
  <1>3. CASE Returns \/ redis_close \/ redis_error
    BY <1>3, ReturnsStill
  <1>4. CASE Serve \/ Publish \/ ServerCloses \/ ServerRefuses
    BY <1>4, ServeInv, PublishInv, ClosesInv, RefusesInv
  <1>5. CASE UNCHANGED vars
    <2>1. UNCHANGED <<ctx, server, fate, issued, pc, bad>>
      BY <1>5 DEF vars
    <2>2. Still /\ AsyncTyped' /\ (Leaving' <=> Leaving) /\ (Closing' <=> Closing)
      BY <2>1 DEF AsyncIInv, Basics, ctx, server, Still, Ups, Downs, AsyncTyped, Leaving, Closing
    <2>3. Leaving => Closing
      BY DEF AsyncIInv, Basics
    <2>. QED
      BY <2>1, <2>2, <2>3, StillInv
  <1>. QED
    BY <1>1, <1>2, <1>3, <1>4, <1>5 DEF Next

(* The invariant holds throughout, for a careful service.                  *)
LEMMA AsyncInvariant == Careful => (Spec => [](AsyncIInv /\ Causes))
  <1>. SUFFICES ASSUME Careful PROVE Spec => [](AsyncIInv /\ Causes)
    OBVIOUS
  <1>1. (AsyncIInv /\ Causes) /\ [Next]_vars => (AsyncIInv /\ Causes)'
    BY AsyncNext, CausesNext
  <1>2. Init => Causes
    BY DEF Init, Causes
  <1>. QED
    BY <1>1, <1>2, AsyncInit, PTL DEF Spec

(* A careful service never meets a reply without a callback, and a freed   *)
(* context has run every callback: whatever the order of events, replies,  *)
(* disconnects and frees from callbacks.  Only the connect callback can    *)
(* free a context under its handler, and the assertion of the disconnect   *)
(* fails only when it was asked for with a command unanswered.             *)
THEOREM ContextIsSound == Careful => (Spec => []ContextSound)
  <1>1. AsyncIInv /\ Causes => ContextSound
    <2>. SUFFICES ASSUME AsyncIInv, Causes PROVE ContextSound
      OBVIOUS
    <2>1. NoIllegalState
      BY DEF AsyncIInv, Basics, Causes, NoIllegalState
    <2>2. ASSUME pc = "freed", NEW i \in Ids PROVE fate[i] \in {"new", "reply", "null"}
      <3>1. replies = <<>> /\ invalid = <<>> /\ Waiting /\ fate \in [Ids -> Fates]
        BY <2>2 DEF AsyncIInv, Basics, AsyncTyped
      <3>2. Range(<<>>) = {}
        BY DEF Range
      <3>3. fate[i] # "waiting"
        BY <3>1, <3>2 DEF Waiting
      <3>. QED
        BY <3>1, <3>3 DEF Fates
    <2>. QED
      BY <2>1, <2>2 DEF ContextSound, SettledWhenFreed
  <1>. QED
    BY <1>1, AsyncInvariant, PTL

(* In the event loop, with no subscription command or message under way,   *)
(* the hash tables of the context hold exactly the server's subscriptions. *)
THEOREM SubscriptionsAreAgreed == Careful => (Spec => []SubscriptionsAgree)
  <1>1. AsyncIInv => SubscriptionsAgree
    <2>. SUFFICES ASSUME AsyncIInv, pc = "loop", srvup = "up", ~SubscriptionInFlight
                  PROVE  /\ {n \in Names : Sub(n) # None} = srvsub
                         /\ ("SUBSCRIBED" \in flags) <=> (srvsub # {})
      BY DEF SubscriptionsAgree, Sub
    <2>1. AsyncTyped /\ Served /\ Agreed
      BY DEF AsyncIInv, Basics, Lines, Leaving
    <2>2. /\ \A q \in 1 .. Len(Ups) : Ups[q].op \notin Subscribing
          /\ \A p \in 1 .. Len(Downs) : Downs[p].k \notin Subscribing
      BY <2>1, InFlight
    <2>3. \A n : ~SubscribeSent(n) /\ ~UnsubscribeBack(n)
      BY <2>2 DEF SubscribeSent, UnsubscribeBack, Subscribing
    <2>4. srvsub \subseteq Names /\ \A n \in Names : Sub(n) # None <=> n \in srvsub
      BY <2>1, <2>3 DEF Agreed, AsyncTyped
    <2>5. ("SUBSCRIBED" \in flags) <=> (srvsub # {})
      BY <2>1, <2>3 DEF Agreed, Served
    <2>. QED
      BY <2>4, <2>5
  <1>. QED
    BY <1>1, AsyncInvariant, PTL

-----------------------------------------------------------------------------
(***************************************************************************)
(* The connection implements the abstract client.                          *)
(***************************************************************************)

\* The abstract state.
Waits == replies \o invalid
Subs == [n \in Names |-> IF pc = "freed" THEN None ELSE dictFind(DictOf(n), n)]

(* The ways a step of the connection shows in the abstract state.          *)
LEMMA ClientStutter ==
  ASSUME UNCHANGED <<Waits, fate, Subs>>, Closing => Closing'
  PROVE  [Client!Next]_<<Waits, fate, Subs, ~Closing>>
  <1>1. CASE Closing' = Closing
    BY <1>1
  <1>2. CASE Closing'
    <2>1. (~Closing)' = FALSE
      BY <1>2
    <2>2. Client!Down
      BY <2>1 DEF Client!Down, Waits, Subs
    <2>. QED
      BY <2>2 DEF Client!Next
  <1>3. Closing \in BOOLEAN /\ Closing' \in BOOLEAN
    BY DEF Closing
  <1>. QED
    BY <1>1, <1>2, <1>3

(* The next callback runs with a reply, or with NULL.                      *)
LEMMA ClientAnswer ==
  ASSUME Waits # <<>>, Waits' = Tail(Waits), Subs' = Subs, flags' = flags \cup {"IN_CALLBACK"},
         \/ fate' = [fate EXCEPT ![Head(Waits)] = "reply"]
         \/ fate' = [fate EXCEPT ![Head(Waits)] = "null"] /\ Closing
  PROVE  Client!Next
  <1>1. Closing' = Closing
    BY DEF Closing
  <1>2. CASE fate' = [fate EXCEPT ![Head(Waits)] = "reply"]
    <2>1. Client!Answer
      BY <1>1, <1>2 DEF Client!Answer, Waits, Subs
    <2>. QED
      BY <2>1 DEF Client!Next
  <1>3. CASE fate' = [fate EXCEPT ![Head(Waits)] = "null"] /\ Closing
    <2>1. (~Closing)' = FALSE
      BY <1>1, <1>3
    <2>2. Client!Cancel
      BY <1>3, <2>1 DEF Client!Cancel, Waits, Subs
    <2>. QED
      BY <2>2 DEF Client!Next
  <1>. QED
    BY <1>2, <1>3

\* Nothing of the abstract state changes, but for the context going down.
Quiet ==
    /\ UNCHANGED <<replies, invalid, fate, dict>>
    /\ pc' = "freed" <=> pc = "freed"
    /\ flags \ {"IN_CALLBACK"} \subseteq flags'

(* A quiet step is a stutter of the abstract client, or takes it down.     *)
LEMMA QuietStep ==
  ASSUME Quiet
  PROVE  [Client!Next]_<<Waits, fate, Subs, ~Closing>>
  <1>1. UNCHANGED <<Waits, fate, Subs>>
    BY DEF Quiet, Waits, Subs, DictOf
  <1>2. Closing => Closing'
    BY DEF Quiet, Closing
  <1>. QED
    BY <1>1, <1>2, ClientStutter

(* The quiet steps of the service, the server and the returns.             *)
LEMMA QuietService ==
  ASSUME redis_attach \/ redis_disconnect \/ redisAsyncFree \/ redis_request_map
         \/ Returns \/ redis_close \/ redis_error \/ Serve \/ Publish \/ ServerCloses \/ ServerRefuses
         \/ UNCHANGED vars
  PROVE  Quiet
  <1>1. CASE redis_attach \/ redis_request_map \/ redis_close \/ redis_error
    BY <1>1 DEF redis_attach, redis_request_map, redis_close, redis_error, ctx, Quiet
  <1>2. CASE redis_disconnect
    BY <1>2 DEF redis_disconnect, InService, Quiet
  <1>3. CASE redisAsyncFree
    BY <1>3 DEF redisAsyncFree, InService, Quiet
  <1>4. CASE Returns
    <2>1. CASE UnconnectedReturns
      BY <2>1 DEF UnconnectedReturns, AsyncDisconnect, Quiet
    <2>2. CASE ConnectedReturns \/ CallbackReturns \/ LastReturns
      BY <2>2 DEF ConnectedReturns, CallbackReturns, LastReturns, ctx, Quiet
    <2>. QED
      BY <1>4, <2>1, <2>2 DEF Returns
  <1>5. CASE Serve \/ Publish \/ ServerCloses \/ ServerRefuses
    BY <1>5 DEF Serve, Publish, ServerCloses, ServerRefuses, ctx, Quiet
  <1>6. CASE UNCHANGED vars
    BY <1>6 DEF vars, ctx, Quiet
  <1>. QED
    BY <1>1, <1>2, <1>3, <1>4, <1>5, <1>6

(* The quiet steps of the handlers.                                        *)
LEMMA QuietHandlers ==
  ASSUME HandleConnect \/ HandleWrite \/ HandleRead \/ ProcessNothing \/ ProcessSpontaneous
         \/ ProcessError
  PROVE  Quiet
  <1>1. AsyncDisconnect /\ pc # "freed" =>
          (flags \subseteq flags' /\ pc' # "freed")
    BY DEF AsyncDisconnect
  <1>2. CASE HandleConnect
    BY <1>1, <1>2 DEF HandleConnect, Event, Quiet
  <1>3. CASE HandleWrite
    BY <1>1, <1>3 DEF HandleWrite, Event, Quiet
  <1>4. CASE HandleRead
    BY <1>1, <1>4 DEF HandleRead, Event, Quiet
  <1>5. CASE ProcessNothing
    BY <1>1, <1>5 DEF ProcessNothing, Quiet
  <1>6. CASE ProcessSpontaneous
    BY <1>1, <1>6 DEF ProcessSpontaneous, Take, Quiet
  <1>7. CASE ProcessError
    BY <1>1, <1>7 DEF ProcessError, Quiet
  <1>. QED
    BY <1>2, <1>3, <1>4, <1>5, <1>6, <1>7

(* A command is issued, a subscription entered.                            *)
LEMMA CommandRefines ==
  ASSUME Careful, AsyncIInv, NEW op, NEW n, redisAsyncCommand(op, n),
         (op \in Subscribing /\ n \in Names) \/ (op = "command" /\ n = None)
  PROVE  [Client!Next]_<<Waits, fate, Subs, ~Closing>>
  <1>. DEFINE i == issued + 1
  <1>0. /\ Allowed(op, n) /\ ~Closing /\ Register(op, n, i) /\ issued < MaxCmds
        /\ pc' = pc /\ pc # "freed"
    BY DEF redisAsyncCommand, InService, InConnect
  <1>1. AsyncTyped /\ Dicts /\ Waiting /\ Lines
    BY <1>0 DEF AsyncIInv, Basics
  <1>2. i \in Ids /\ i \in Nat /\ i > issued
    BY <1>0, <1>1, AsyncAssumption DEF AsyncTyped, Ids
  <1>3. replies \in Seq(Ids) /\ invalid \in Seq(Ids)
    BY <1>1 DEF AsyncTyped
  <1>4. fate[i] = "new"
    BY <1>1, <1>2 DEF Waiting
  <1>. HIDE DEF i
  <1>5. CASE op = "subscribe"
    <2>1. /\ flags' = flags \cup {"SUBSCRIBED"} /\ dict' = [dict EXCEPT ![n[1]] = dictReplace(@, n, i)]
          /\ UNCHANGED <<replies, invalid, fate>> /\ n \in Names
      BY <1>0, <1>5 DEF Register
    <2>2. Sub(n)' = i /\ \A m \in Names : m # n => Sub(m)' = Sub(m)
      BY <1>1, <1>2, <2>1, SubReplaced
    <2>3. Subs' = [Subs EXCEPT ![n] = i]
      BY <1>0, <2>1, <2>2 DEF Subs, Sub
    <2>4. Waits' = Waits /\ Closing' = Closing
      BY <2>1 DEF Waits, Closing
    <2>5. Client!Subscribe(n, i)
      BY <1>0, <2>1, <2>3, <2>4 DEF Client!Subscribe, Waits, Subs
    <2>. QED
      BY <1>2, <2>1, <2>5 DEF Client!Next
  <1>6. CASE op = "unsubscribe"
    <2>1. Quiet
      BY <1>0, <1>6 DEF Register, Quiet
    <2>. QED
      BY <2>1, QuietStep
  <1>7. CASE op = "command"
    <2>1. /\ IF "SUBSCRIBED" \in flags
             THEN invalid' = Append(invalid, i) /\ UNCHANGED replies
             ELSE replies' = Append(replies, i) /\ UNCHANGED invalid
          /\ fate' = [fate EXCEPT ![i] = "waiting"] /\ UNCHANGED <<flags, dict>>
          /\ ("SUBSCRIBED" \in flags => replies = <<>> /\ invalid = <<>>)
      BY <1>0, <1>7 DEF Register, Allowed, Push
    <2>2. Waits' = Append(Waits, i)
      <3>1. CASE "SUBSCRIBED" \in flags
        <4>1. replies \o Append(invalid, i) = Append(replies \o invalid, i)
          BY <1>2, <1>3, JoinAppend
        <4>. QED
          BY <2>1, <3>1, <4>1 DEF Waits
      <3>2. CASE "SUBSCRIBED" \notin flags
        <4>1. invalid = <<>> /\ invalid' = <<>> /\ replies' = Append(replies, i)
          BY <1>1, <2>1, <3>2 DEF Lines, Modes
        <4>2. replies \o <<>> = replies /\ Append(replies, i) \o <<>> = Append(replies, i)
          BY <1>2, <1>3, ConcatEmptySeq
        <4>. QED
          BY <4>1, <4>2 DEF Waits
      <3>. QED
        BY <3>1, <3>2
    <2>3. Subs' = Subs /\ Closing' = Closing
      BY <1>0, <2>1 DEF Subs, DictOf, Closing
    <2>4. Client!Issue(i)
      BY <1>0, <1>4, <2>1, <2>2, <2>3 DEF Client!Issue, Waits, Subs
    <2>. QED
      BY <1>2, <2>4 DEF Client!Next
  <1>. QED
    BY <1>5, <1>6, <1>7 DEF Subscribing

(* The callback in front is the first of the abstract line.                *)
LEMMA FirstWaits ==
  ASSUME replies \in Seq(Ids), invalid \in Seq(Ids)
  PROVE  /\ replies # <<>> => /\ Waits # <<>> /\ Head(Waits) = Head(replies)
                              /\ Tail(Waits) = Tail(replies) \o invalid
         /\ replies = <<>> => Waits = invalid
  <1>1. ASSUME replies # <<>>
        PROVE  /\ Waits # <<>> /\ Head(Waits) = Head(replies)
               /\ Tail(Waits) = Tail(replies) \o invalid
    <2>1. /\ Tail(replies) \o invalid = Tail(replies \o invalid)
          /\ Head(replies \o invalid) = Head(replies) /\ replies \o invalid # <<>>
      BY <1>1, JoinTail
    <2>. QED
      BY <2>1 DEF Waits
  <1>2. ASSUME replies = <<>> PROVE Waits = invalid
    BY <1>2, ConcatEmptySeq DEF Waits
  <1>. QED
    BY <1>1, <1>2

(* The callbacks of commands run in the abstract order.                    *)
LEMMA CallbackRefines ==
  ASSUME AsyncIInv, ProcessRegular \/ ProcessInvalid \/ FreeRunsPending
  PROVE  [Client!Next]_<<Waits, fate, Subs, ~Closing>>
  <1>1. AsyncTyped /\ Waiting /\ replies \in Seq(Ids) /\ invalid \in Seq(Ids)
    BY DEF AsyncIInv, Basics, AsyncTyped
  <1>2. /\ replies # <<>> => /\ Waits # <<>> /\ Head(Waits) = Head(replies)
                             /\ Tail(Waits) = Tail(replies) \o invalid
        /\ replies = <<>> => Waits = invalid
    BY <1>1, FirstWaits
  <1>3. CASE ProcessRegular
    <2>1. /\ Take /\ replies # <<>> /\ Settle(Head(replies), Head(ibuf)) /\ replies' = Tail(replies)
          /\ flags' = flags \cup {"IN_CALLBACK"} /\ pc' = "callback" /\ pc = "process"
          /\ UNCHANGED <<invalid, dict, obuf, server>>
      BY <1>3 DEF ProcessRegular, RunCallback, Take
    <2>2. /\ Lines /\ Head(ibuf) = Downs[1] /\ Downs[1] \in Answers /\ 1 \in 1 .. Len(Downs)
      BY <2>1, FirstTaken
    <2>3. srvup # "refused" => Downs[1].id = Head(replies)
      BY <1>1, <2>1, <2>2, FirstAnswered
    <2>4. srvup = "refused" => Downs[1].id = 0
      BY <2>2 DEF Lines, Refused
    <2>5. fate' = [fate EXCEPT ![Head(Waits)] = "reply"]
      <3>1. Downs[1] # None /\ Downs[1].id \in {Head(replies), 0}
        BY <2>2, <2>3, <2>4, AsyncAssumption
      <3>. QED
        BY <1>2, <2>1, <2>2, <3>1 DEF Settle
    <2>6. Waits' = Tail(Waits) /\ Waits # <<>>
      BY <1>2, <2>1 DEF Waits
    <2>7. Subs' = Subs
      BY <2>1 DEF Subs, DictOf
    <2>. QED
      BY <2>1, <2>5, <2>6, <2>7, ClientAnswer
  <1>4. CASE ProcessInvalid
    <2>1. /\ Take /\ replies = <<>> /\ Head(ibuf).id # None /\ pc = "process"
          /\ UNCHANGED <<replies, dict, obuf, server>>
      BY <1>4 DEF ProcessInvalid, Take
    <2>2. CASE invalid = <<>>
      <3>1. Quiet
        BY <1>4, <2>1, <2>2 DEF ProcessInvalid, Quiet
      <3>. QED
        BY <3>1, QuietStep
    <2>3. CASE invalid # <<>>
      <3>1. /\ Settle(Head(invalid), Head(ibuf)) /\ invalid' = Tail(invalid)
            /\ flags' = flags \cup {"IN_CALLBACK"} /\ pc' = "callback"
        BY <1>4, <2>3 DEF ProcessInvalid, RunCallback
      <3>2. /\ Lines /\ Head(ibuf) = Downs[1] /\ Downs[1] \in Answers /\ 1 \in 1 .. Len(Downs)
            /\ Downs[1].id \in Nat \cup {None}
        BY <2>1, FirstTaken
      <3>3. srvup # "refused" => Downs[1].id = Head(invalid)
        <4>1. Range(invalid) = {Head(invalid)} \cup Range(Tail(invalid)) /\ Tail(invalid) \in Seq(Ids)
          BY <1>1, <2>3, TailShifts
        <4>2. Len(invalid) = 1
          BY <2>3, <3>2 DEF Lines, Modes
        <4>3. Tail(invalid) = <<>>
          <5>1. Len(Tail(invalid)) = 0
            BY <1>1, <4>2
          <5>. QED
            BY <4>1, <5>1, EmptySeq
        <4>4. Range(<<>>) = {}
          BY DEF Range
        <4>5. srvup # "refused" => Downs[1].id \in Range(replies) \cup Range(invalid)
          <5>1. Downs[1].id \in Nat
            BY <2>1, <3>2
          <5>. QED
            BY <3>2, <5>1 DEF Lines, Order
        <4>. QED
          BY <2>1, <4>1, <4>3, <4>4, <4>5
      <3>4. srvup = "refused" => Downs[1].id = 0
        BY <3>2 DEF Lines, Refused
      <3>5. fate' = [fate EXCEPT ![Head(Waits)] = "reply"]
        <4>1. Downs[1] # None /\ Downs[1].id \in {Head(invalid), 0}
          BY <3>2, <3>3, <3>4, AsyncAssumption
        <4>. QED
          BY <1>2, <2>1, <3>1, <3>2, <4>1 DEF Settle
      <3>6. Waits' = Tail(Waits) /\ Waits # <<>>
        <4>1. <<>> \o Tail(invalid) = Tail(invalid)
          BY <1>1, <2>3, TailShifts, ConcatEmptySeq
        <4>. QED
          BY <1>2, <2>1, <2>3, <3>1, <4>1 DEF Waits
      <3>7. Subs' = Subs
        BY <2>1, <3>1 DEF Subs, DictOf
      <3>. QED
        BY <3>1, <3>5, <3>6, <3>7, ClientAnswer
    <2>. QED
      BY <2>2, <2>3
  <1>5. CASE FreeRunsPending
    <2>1. /\ pc = "free" /\ pc' = "last" /\ flags' = flags \cup {"IN_CALLBACK"} /\ dict' = dict
          /\ replies \o invalid # <<>>
      BY <1>5 DEF FreeRunsPending
    <2>2. Closing
      BY <2>1 DEF AsyncIInv, Basics, Leaving
    <2>3. ASSUME NEW i, Settle(i, None) PROVE fate' = [fate EXCEPT ![i] = "null"]
      BY <2>3 DEF Settle
    <2>4. Waits # <<>> /\ Waits' = Tail(Waits) /\ fate' = [fate EXCEPT ![Head(Waits)] = "null"]
      <3>1. CASE replies # <<>>
        <4>1. Settle(Head(replies), None) /\ replies' = Tail(replies) /\ invalid' = invalid
          BY <1>5, <3>1 DEF FreeRunsPending
        <4>. QED
          BY <1>2, <2>3, <3>1, <4>1 DEF Waits
      <3>2. CASE replies = <<>>
        <4>1. Settle(Head(invalid), None) /\ invalid' = Tail(invalid) /\ replies' = replies
          BY <1>5, <3>2 DEF FreeRunsPending
        <4>2. invalid # <<>> /\ Waits = invalid
          BY <1>2, <2>1, <3>2
        <4>3. <<>> \o Tail(invalid) = Tail(invalid)
          BY <1>1, <4>2, TailShifts, ConcatEmptySeq
        <4>. QED
          BY <2>3, <3>2, <4>1, <4>2, <4>3 DEF Waits
      <3>. QED
        BY <3>1, <3>2
    <2>5. Subs' = Subs
      BY <2>1 DEF Subs, DictOf
    <2>. QED
      BY <2>1, <2>2, <2>4, <2>5, ClientAnswer
  <1>. QED
    BY <1>3, <1>4, <1>5

(* The end of a subscription is noted, other messages change nothing.      *)
LEMMA MessageRefines ==
  ASSUME AsyncIInv, ProcessMessage
  PROVE  [Client!Next]_<<Waits, fate, Subs, ~Closing>>
  <1>1. /\ Take /\ Head(ibuf).id = None /\ pc = "process"
        /\ UNCHANGED <<replies, invalid, obuf, server, fate>>
    BY DEF ProcessMessage, Take
  <1>2. /\ Lines /\ Head(ibuf) = Downs[1] /\ 1 \in 1 .. Len(Downs)
    BY <1>1, FirstTaken
  <1>3. srvup # "refused"
    <2>1. 0 # None
      BY AsyncAssumption
    <2>. QED
      BY <1>1, <1>2, <2>1 DEF Lines, Refused
  <1>4. PICK n \in Names : n = Downs[1].name /\ Sub(n) # None
    BY <1>1, <1>2, <1>3 DEF Lines, Messages
  <1>5. CASE Downs[1].k = "unsubscribe"
    <2>1. /\ dict' = [dict EXCEPT ![n[1]] = dictDelete(@, n)] /\ pc' = "callback"
          /\ flags' = StillSubscribed(Downs[1].count) \cup {"IN_CALLBACK"}
      BY <1>2, <1>4, <1>5 DEF ProcessMessage, Sub
    <2>2. Sub(n)' = None /\ \A m \in Names : m # n => Sub(m)' = Sub(m)
      BY <2>1, SubDeleted DEF AsyncIInv, Basics
    <2>3. Subs' = [Subs EXCEPT ![n] = None]
      BY <1>1, <2>1, <2>2 DEF Subs, Sub
    <2>4. Subs[n] # None
      BY <1>1, <1>4 DEF Subs, Sub
    <2>5. Waits' = Waits /\ Closing' = Closing
      BY <1>1, <2>1 DEF Waits, Closing, StillSubscribed
    <2>6. Client!Unsubscribe(n)
      BY <1>1, <2>3, <2>4, <2>5 DEF Client!Unsubscribe, Waits, Subs
    <2>. QED
      BY <2>6 DEF Client!Next
  <1>6. CASE Downs[1].k # "unsubscribe"
    <2>1. flags' = flags \cup {"IN_CALLBACK"} /\ dict' = dict /\ pc' = "callback"
      BY <1>2, <1>4, <1>6 DEF ProcessMessage, Sub
    <2>2. Quiet
      BY <1>1, <2>1 DEF Quiet
    <2>. QED
      BY <2>2, QuietStep
  <1>. QED
    BY <1>5, <1>6

(* Freeing the context forgets the subscriptions.                          *)
LEMMA FreeEndsRefines ==
  ASSUME AsyncIInv, FreeEnds
  PROVE  Client!Next
  <1>1. /\ pc = "free" /\ replies \o invalid = <<>> /\ pc' = "freed"
        /\ UNCHANGED <<flags, replies, invalid, fate>>
    BY DEF FreeEnds
  <1>2. Closing /\ Closing' = Closing
    BY <1>1 DEF AsyncIInv, Basics, Leaving, Closing
  <1>3. Waits = <<>> /\ Waits' = Waits /\ Subs' = [n \in Names |-> None]
    BY <1>1 DEF Waits, Subs
  <1>4. Client!Forget
    BY <1>1, <1>2, <1>3 DEF Client!Forget, Waits, Subs
  <1>. QED
    BY <1>4 DEF Client!Next

(* The asynchronous connection of a careful service implements the         *)
(* abstract client: one line of commands, each callback run once and in    *)
(* order, with its reply or, once the connection goes down, with NULL.     *)
THEOREM ClientRefined == Careful => (Spec => ImplementsClient)
  <1>. SUFFICES ASSUME Careful PROVE Spec => ImplementsClient
    OBVIOUS
  <1>1. Init => Client!Init
    <2>. SUFFICES ASSUME Init PROVE Client!Init
      OBVIOUS
    <2>1. replies \o invalid = <<>> /\ fate = [i \in Ids |-> "new"] /\ pc # "freed"
      BY DEF Init
    <2>2. (~Closing) = TRUE
      BY DEF Init, Closing
    <2>3. \A n \in Names : Sub(n) = None
      BY SubCreated DEF Init
    <2>4. Subs = [n \in Names |-> None]
      BY <2>1, <2>3 DEF Subs, Sub
    <2>. QED
      BY <2>1, <2>2, <2>4 DEF Client!Init, Subs
  <1>2. AsyncIInv /\ [Next]_vars => [Client!Next]_<<Waits, fate, Subs, ~Closing>>
    <2>. SUFFICES ASSUME AsyncIInv, [Next]_vars
                  PROVE  [Client!Next]_<<Waits, fate, Subs, ~Closing>>
      OBVIOUS
    <2>1. CASE Service
      <3>1. CASE redis_attach \/ redis_disconnect \/ redisAsyncFree \/ redis_request_map
        BY <3>1, QuietService, QuietStep
      <3>2. CASE \E n \in Names : redisAsyncCommand("subscribe", n)
        BY <3>2, CommandRefines DEF Subscribing
      <3>3. CASE \E n \in Names : redisAsyncCommand("unsubscribe", n)
        BY <3>3, CommandRefines DEF Subscribing
      <3>4. CASE redisAsyncCommand("command", None)
        BY <3>4, CommandRefines
      <3>. QED
        BY <2>1, <3>1, <3>2, <3>3, <3>4 DEF Service
    <2>2. CASE Handlers
      BY <2>2, QuietHandlers, QuietStep, CallbackRefines, MessageRefines, FreeEndsRefines
         DEF Handlers
    <2>3. CASE Returns \/ redis_close \/ redis_error \/ Serve \/ Publish \/ ServerCloses \/ ServerRefuses
               \/ UNCHANGED vars
      BY <2>3, QuietService, QuietStep
    <2>. QED
      BY <2>1, <2>2, <2>3 DEF Next
  <1>. QED
    BY <1>1, <1>2, AsyncInvariant, PTL DEF Spec, ImplementsClient, Client!Spec, Waits, Subs
=============================================================================
