---------------------------- MODULE LauncherProofs ----------------------------
(***************************************************************************)
(* Proofs about Launcher, for any number of sections, workers and signals, *)
(* and channels of any capacity: startup fails only where the              *)
(* configuration lets it, and the signals reach each channel once.  The    *)
(* two have inductive invariants of their own, StartIInv about the lists   *)
(* and threads and SignalIInv about the channels.                          *)
(***************************************************************************)
EXTENDS Launcher, DataLemmas

Places == {"unborn", "new", "locked", "walk", "up"}

StartTyped ==
    /\ conf \in [Svcs -> Sections]
    /\ services \in Seq(Svcs) /\ loaded \in Seq(Svcs)
    /\ state \in [Svcs -> {"listed", "registered", "refused", "freed"}]
    /\ master \in {"load", "messages", "mutex", "up", "exited"}
    /\ pc \in [Threads -> Places]
    /\ at \in [Threads -> Nat]

\* The list of the host is in order, and has all that were not freed.
InOrder ==
    /\ \A a, b \in 1 .. Len(services) : a < b => services[a] < services[b]
    /\ \A i \in Svcs : state[i] # "freed" => \E k \in 1 .. Len(services) : services[k] = i

\* The services before the one the master loads next are done with.
Progress ==
    /\ master = "load" => loadat \in Svcs
    /\ master = "load" => \A i \in Svcs : state[i] = "listed" <=> loadat <= i
    /\ master \in {"messages", "mutex", "up"} => \A i \in Svcs : state[i] # "listed"

\* What a service is tells how its section was.
Sectioned ==
    \A i \in Svcs : /\ state[i] = "freed" => conf[i].file = "missing"
                    /\ state[i] = "refused" => conf[i].main # 0

\* The HTTP workers wait for the master, and the other threads were spawned
\* by a service that is loaded.
Born ==
    /\ master # "up" => \A t \in Http : pc[t] = "unborn"
    /\ \A i \in Svcs : pc[User(i)] # "unborn" => Spawner(i) /\ state[i] # "listed"
    /\ \A t \in Threads : pc[t] = "walk" => at[t] \in Svcs

StartIInv ==
    StartTyped /\ InOrder /\ Progress /\ Sectioned /\ Born /\ StartupSafe

(***************************************************************************)
(* The list of services.                                                   *)
(***************************************************************************)
(* A service of the list is where Place finds it.                          *)
LEMMA PlaceFinds ==
  ASSUME services \in Seq(Svcs), NEW i \in Svcs,
         \E k \in 1 .. Len(services) : services[k] = i
  PROVE  Place(i) \in 1 .. Len(services) /\ services[Place(i)] = i
  <1>. DEFINE I == {k \in 1 .. Len(services) : services[k] = i}
  <1>1. Place(i) = IF I # {} THEN Min(I) ELSE 0
    BY DEF Place, SelectInSeq
  <1>2. I # {} /\ I \in SUBSET Nat
    OBVIOUS
  <1>3. \E m \in I : \A k \in I : m <= k
    BY <1>2, LeastNatural
  <1>4. Min(I) \in I
    BY <1>3 DEF Min
  <1>. QED
    BY <1>1, <1>2, <1>4

(* What comes after it is in the list, if anything does.                   *)
LEMMA AfterListed ==
  ASSUME services \in Seq(Svcs), NEW i \in Svcs,
         \E k \in 1 .. Len(services) : services[k] = i
  PROVE  After(i) = 0 \/ After(i) \in Svcs
  <1>1. Place(i) \in 1 .. Len(services)
    BY PlaceFinds
  <1>2. Place(i) # Len(services) => Place(i) + 1 \in 1 .. Len(services)
    BY <1>1
  <1>3. \A k \in 1 .. Len(services) : services[k] \in Svcs
    OBVIOUS
  <1>. QED
    BY <1>2, <1>3 DEF After

(* While it loads, the master goes through the services one by one.        *)
LEMMA AfterIsNext ==
  ASSUME StartTyped, InOrder, NEW i \in Svcs,
         \A j \in Svcs : i <= j => state[j] # "freed"
  PROVE  After(i) = IF i = N THEN 0 ELSE i + 1
  <1>. DEFINE n == Len(services)
              k == Place(i)
  <1>1. services \in Seq(Svcs) /\ n \in Nat /\ N \in Nat /\ i \in 1 .. N
        /\ \A a \in 1 .. n : services[a] \in Nat /\ services[a] \in 1 .. N
    BY LauncherAssumption DEF StartTyped, Svcs
  <1>2. k \in 1 .. n /\ services[k] = i
    <2>1. state[i] # "freed"
      BY <1>1
    <2>2. \E a \in 1 .. Len(services) : services[a] = i
      BY <2>1 DEF InOrder
    <2>. QED
      BY <1>1, <2>2, PlaceFinds
  <1>3. \A a, b \in 1 .. n : a < b => services[a] < services[b]
    BY DEF InOrder
  <1>4. After(i) = IF k = n THEN 0 ELSE services[k + 1]
    BY DEF After
  <1>. HIDE DEF n, k
  <1>5. CASE i = N
    <2>1. ASSUME k # n PROVE FALSE
      <3>1. k + 1 \in 1 .. n /\ k < k + 1
        BY <1>1, <1>2, <2>1
      <3>2. i < services[k + 1] /\ services[k + 1] <= N
        BY <1>1, <1>2, <1>3, <3>1
      <3>. QED
        BY <1>1, <1>5, <3>1, <3>2
    <2>. QED
      BY <1>4, <1>5, <2>1
  <1>6. CASE i # N
    <2>1. i + 1 \in Svcs /\ i <= i + 1
      BY <1>1, <1>6 DEF Svcs
    <2>2. state[i + 1] # "freed"
      BY <2>1
    <2>3. PICK m \in 1 .. n : services[m] = i + 1
      BY <2>1, <2>2 DEF InOrder, n
    <2>4. m > k
      <3>1. m # k
        BY <1>1, <1>2, <2>3
      <3>2. ~ (m < k)
        BY <1>1, <1>2, <1>3, <2>3
      <3>. QED
        BY <1>1, <1>2, <3>1, <3>2
    <2>5. k # n /\ k + 1 \in 1 .. n /\ k < k + 1
      BY <1>1, <1>2, <2>4
    <2>6. i < services[k + 1]
      BY <1>2, <1>3, <2>5
    <2>7. services[k + 1] <= i + 1
      <3>1. CASE m = k + 1
        BY <1>1, <2>3, <3>1
      <3>2. CASE k + 1 < m
        <4>1. services[k + 1] < services[m]
          BY <1>3, <2>5, <3>2
        <4>. QED
          BY <1>1, <2>3, <2>5, <4>1
      <3>. QED
        BY <1>1, <1>2, <2>4, <3>1, <3>2
    <2>8. services[k + 1] \in Nat
      BY <1>1, <2>5
    <2>9. services[k + 1] = i + 1
      BY <1>1, <2>6, <2>7, <2>8
    <2>. QED
      BY <1>4, <1>6, <2>5, <2>9
  <1>. QED
    BY <1>5, <1>6

(* The service after the one that was loaded is next, or loading is done.  *)
LEMMA Advances ==
  ASSUME StartIInv, NEW i \in Svcs, Loading(i), Advance(i),
         state' \in [Svcs -> {"listed", "registered", "refused", "freed"}],
         state'[i] # "listed",
         \A j \in Svcs : j # i => state'[j] = state[j]
  PROVE  Progress' /\ master' \in {"load", "messages"}
  <1>1. master = "load" /\ loadat = i
    BY DEF Loading
  <1>2. /\ StartTyped /\ InOrder
        /\ \A j \in Svcs : state[j] = "listed" <=> i <= j
    BY <1>1 DEF StartIInv, Progress
  <1>3. After(i) = IF i = N THEN 0 ELSE i + 1
    <2>1. \A j \in Svcs : i <= j => state[j] # "freed"
      BY <1>2
    <2>. QED
      BY <1>2, <2>1, AfterIsNext
  <1>4. i \in 1 .. N /\ N \in Nat
    BY LauncherAssumption DEF Svcs
  <1>5. CASE i = N
    <2>1. master' = "messages"
      BY <1>3, <1>5 DEF Advance
    <2>2. ASSUME NEW j \in Svcs, j # i PROVE state'[j] # "listed"
      <3>1. j \in 1 .. N
        BY DEF Svcs
      <3>2. ~ (i <= j)
        BY <1>4, <1>5, <2>2, <3>1
      <3>. QED
        BY <1>2, <2>2, <3>2
    <2>. QED
      BY <2>1, <2>2 DEF Progress
  <1>6. CASE i # N
    <2>1. loadat' = i + 1 /\ master' = "load" /\ i + 1 \in Svcs
      BY <1>1, <1>3, <1>4, <1>6 DEF Advance, Svcs
    <2>2. ASSUME NEW j \in Svcs PROVE state'[j] = "listed" <=> i + 1 <= j
      <3>1. j \in 1 .. N
        BY DEF Svcs
      <3>2. CASE j = i
        BY <1>4, <3>2
      <3>3. CASE j # i
        <4>1. i <= j <=> i + 1 <= j
          BY <1>4, <3>1, <3>3
        <4>. QED
          BY <1>2, <3>3, <4>1
      <3>. QED
        BY <3>2, <3>3
    <2>. QED
      BY <2>1, <2>2 DEF Progress
  <1>. QED
    BY <1>5, <1>6

(***************************************************************************)
(* Startup.                                                                *)
(***************************************************************************)
LEMMA InitStart == Init => StartIInv
  <1>. SUFFICES ASSUME Init PROVE StartIInv
    OBVIOUS
  <1>1. N \in Nat \ {0} /\ Svcs = 1 .. N
    BY LauncherAssumption DEF Svcs
  <1>2. services \in Seq(Svcs) /\ Len(services) = N /\ loaded = services
        /\ \A a \in 1 .. N : services[a] = a
    BY <1>1 DEF Init
  <1>3. StartTyped
    BY <1>2 DEF Init, StartTyped, Places
  <1>4. InOrder
    BY <1>1, <1>2 DEF InOrder
  <1>5. Progress
    BY <1>1 DEF Init, Progress
  <1>6. Sectioned /\ StartupSafe
    BY DEF Init, Sectioned, StartupSafe
  <1>7. Born
    BY DEF Init, Born, Threads
  <1>. QED
    BY <1>3, <1>4, <1>5, <1>6, <1>7 DEF StartIInv

LEMMA MissingStart ==
  ASSUME StartIInv, NEW i \in Svcs, ServiceMissing(i)
  PROVE  StartIInv'
  <1>1. /\ Loading(i) /\ conf[i].file = "missing" /\ Advance(i)
        /\ state' = [state EXCEPT ![i] = "freed"]
        /\ services' = RemoveAt(services, Place(i))
        /\ UNCHANGED <<conf, loaded, pc, at, bad>>
    BY DEF ServiceMissing, threads
  <1>2. StartTyped /\ InOrder /\ Progress /\ Sectioned /\ Born /\ StartupSafe
    BY DEF StartIInv
  <1>3. state \in [Svcs -> {"listed", "registered", "refused", "freed"}]
        /\ services \in Seq(Svcs)
    BY <1>2 DEF StartTyped
  <1>4. /\ state' \in [Svcs -> {"listed", "registered", "refused", "freed"}]
        /\ state'[i] = "freed" /\ \A j \in Svcs : j # i => state'[j] = state[j]
    BY <1>1, <1>3
  <1>5. Progress' /\ master' \in {"load", "messages"}
    BY <1>1, <1>4, Advances
  <1>6. master = "load" /\ loadat = i /\ state[i] = "listed"
    <2>1. master = "load" /\ loadat = i
      BY <1>1 DEF Loading
    <2>2. i <= i
      BY DEF Svcs
    <2>. QED
      BY <1>2, <2>1, <2>2 DEF Progress
  <1>7. Place(i) \in 1 .. Len(services) /\ services[Place(i)] = i
    BY <1>2, <1>3, <1>6, PlaceFinds DEF InOrder
  <1>. DEFINE f == Place(i)
              r == services'
  <1>8. r = Without(services, f)
    BY <1>1 DEF RemoveAt, Without
  <1>9. f \in 1 .. Len(services) /\ services[f] = i
    BY <1>7
  <1>. HIDE DEF f, r
  <1>10. /\ r \in Seq(Svcs) /\ Len(r) = Len(services) - 1
         /\ \A a \in 1 .. Len(r) : r[a] = IF a < f THEN services[a] ELSE services[a + 1]
    <2>. DEFINE s == services
                S == Svcs
    <2>1. /\ s \in Seq(S) /\ f \in 1 .. Len(s)
          /\ r = Without(s, f)
      BY <1>3, <1>8, <1>9
    <2>. HIDE DEF s, S
    <2>2. r \in Seq(S)
      BY <2>1, WithoutEntry
    <2>3. Len(r) = Len(s) - 1
      BY <2>1, WithoutEntry
    <2>4. \A a \in 1 .. Len(r) : r[a] = IF a < f THEN s[a] ELSE s[a + 1]
      BY <2>1, WithoutEntry
    <2>. QED
      BY <2>2, <2>3, <2>4 DEF s, S
  <1>11. Others(r, services, f)
    BY <1>3, <1>8, <1>9, OthersStay
  <1>12. StartTyped'
    BY <1>1, <1>2, <1>4, <1>5, <1>10 DEF StartTyped, r
  <1>13. \A a, b \in 1 .. Len(r) : a < b => r[a] < r[b]
    <2>. SUFFICES ASSUME NEW a \in 1 .. Len(r), NEW b \in 1 .. Len(r), a < b
                  PROVE  r[a] < r[b]
      OBVIOUS
    <2>. DEFINE x == IF a < f THEN a ELSE a + 1
                y == IF b < f THEN b ELSE b + 1
                n == Len(services)
    <2>1. n \in Nat /\ Len(r) = n - 1 /\ f \in 1 .. n
      BY <1>3, <1>9, <1>10
    <2>. HIDE DEF n
    <2>2. x \in 1 .. n /\ y \in 1 .. n /\ x < y
      BY <2>1
    <2>3. r[a] = services[x] /\ r[b] = services[y]
      BY <1>10
    <2>4. services[x] < services[y]
      <3>. HIDE DEF x, y
      <3>. QED
        BY <1>2, <2>2 DEF InOrder, n
    <2>. QED
      BY <2>3, <2>4
  <1>14. ASSUME NEW j \in Svcs, state'[j] # "freed"
         PROVE  \E k \in 1 .. Len(r) : r[k] = j
    <2>1. j # i /\ state[j] # "freed"
      BY <1>4, <1>14
    <2>2. PICK k \in 1 .. Len(services) : services[k] = j
      BY <1>2, <2>1 DEF InOrder
    <2>3. k # f
      BY <1>9, <2>1, <2>2
    <2>. QED
      BY <1>11, <2>2, <2>3 DEF Others
  <1>15. InOrder'
    BY <1>13, <1>14 DEF InOrder, r
  <1>16. Sectioned'
    BY <1>1, <1>2, <1>4 DEF Sectioned
  <1>17. Born'
    <2>1. master # "up" /\ master' # "up"
      BY <1>5, <1>6
    <2>2. \A j \in Svcs : state'[j] = "listed" => state[j] = "listed"
      BY <1>4
    <2>. QED
      BY <1>1, <1>2, <2>1, <2>2 DEF Born, Spawner
  <1>18. StartupSafe'
    BY <1>1, <1>2 DEF StartupSafe, Spawner
  <1>. QED
    BY <1>5, <1>12, <1>15, <1>16, <1>17, <1>18 DEF StartIInv

LEMMA RegisterStart ==
  ASSUME StartIInv, NEW i \in Svcs, duda_service_register(i)
  PROVE  StartIInv'
  <1>1. /\ Loading(i) /\ conf[i].file = "ok" /\ Advance(i)
        /\ state' = [state EXCEPT ![i] = Loaded(i)]
        /\ pc' = IF conf[i].main = 0 /\ conf[i].spawns
                 THEN [pc EXCEPT ![User(i)] = "new"] ELSE pc
        /\ UNCHANGED <<conf, services, loaded, at, bad>>
    BY DEF duda_service_register
  <1>2. StartTyped /\ InOrder /\ Progress /\ Sectioned /\ Born /\ StartupSafe
    BY DEF StartIInv
  <1>3. /\ state \in [Svcs -> {"listed", "registered", "refused", "freed"}]
        /\ pc \in [Threads -> Places] /\ User(i) \in Threads
    BY <1>2 DEF StartTyped, Threads
  <1>4. Loaded(i) \in {"registered", "refused"} /\ (Loaded(i) = "refused" => conf[i].main # 0)
    BY DEF Loaded
  <1>5. /\ state' \in [Svcs -> {"listed", "registered", "refused", "freed"}]
        /\ state'[i] = Loaded(i) /\ \A j \in Svcs : j # i => state'[j] = state[j]
    BY <1>1, <1>3, <1>4
  <1>6. Progress' /\ master' \in {"load", "messages"}
    BY <1>1, <1>4, <1>5, Advances
  <1>7. pc' \in [Threads -> Places]
    BY <1>1, <1>3 DEF Places
  <1>8. StartTyped'
    BY <1>1, <1>2, <1>5, <1>6, <1>7 DEF StartTyped
  <1>9. master = "load" /\ loadat = i /\ state[i] = "listed"
    <2>1. master = "load" /\ loadat = i
      BY <1>1 DEF Loading
    <2>2. i <= i
      BY DEF Svcs
    <2>. QED
      BY <1>2, <2>1, <2>2 DEF Progress
  <1>10. InOrder'
    BY <1>1, <1>2, <1>5, <1>9 DEF InOrder
  <1>11. Sectioned'
    BY <1>1, <1>2, <1>4, <1>5 DEF Sectioned
  <1>12. Born'
    <2>1. \A t \in Threads : pc'[t] = pc[t] \/ (t = User(i) /\ pc'[t] = "new" /\ Spawner(i))
      BY <1>1, <1>3 DEF Spawner
    <2>2. \A t \in Http : t # User(i) /\ t \in Threads
      BY LauncherAssumption DEF User, Svcs, Threads
    <2>3. \A t \in Http : pc'[t] = "unborn"
      BY <1>2, <1>9, <2>1, <2>2 DEF Born
    <2>4. \A j \in Svcs : User(j) \in Threads /\ (User(j) = User(i) => j = i)
      BY DEF User, Threads
    <2>5. \A j \in Svcs : Spawner(j)' = Spawner(j)
      BY <1>1 DEF Spawner
    <2>6. \A j \in Svcs : pc'[User(j)] # "unborn" => Spawner(j)' /\ state'[j] # "listed"
      <3>. SUFFICES ASSUME NEW j \in Svcs, pc'[User(j)] # "unborn"
                    PROVE  Spawner(j)' /\ state'[j] # "listed"
        OBVIOUS
      <3>1. CASE pc'[User(j)] = pc[User(j)]
        BY <1>2, <1>4, <1>5, <2>5, <3>1 DEF Born
      <3>2. CASE j = i /\ Spawner(i)
        BY <1>4, <1>5, <2>5, <3>2
      <3>. QED
        BY <2>1, <2>4, <3>1, <3>2
    <2>7. \A t \in Threads : pc'[t] = "walk" => at'[t] \in Svcs
      BY <1>1, <1>2, <2>1 DEF Born
    <2>. QED
      BY <2>3, <2>6, <2>7 DEF Born
  <1>13. StartupSafe'
    BY <1>1, <1>2 DEF StartupSafe, Spawner
  <1>. QED
    BY <1>6, <1>8, <1>10, <1>11, <1>12, <1>13 DEF StartIInv

(* The steps that leave the lists alone keep what is said of them, and     *)
(* which sections spawn.                                                   *)
LEMMA SameLists ==
  ASSUME StartIInv, UNCHANGED <<conf, services, loaded, state, master, loadat>>
  PROVE  InOrder' /\ Progress' /\ Sectioned' /\ \A i \in Svcs : Spawner(i)' = Spawner(i)
  BY DEF StartIInv, InOrder, Progress, Sectioned, Spawner

(* A thread that is there and finds a service not yet loaded was spawned   *)
(* by an earlier one.                                                      *)
LEMMA EarlyThread ==
  ASSUME StartIInv, Fine, NEW t \in Threads, pc[t] # "unborn",
         NEW i \in Svcs, state[i] = "listed"
  PROVE  \E j \in Svcs : j < i /\ Spawner(j)
  <1>1. StartTyped /\ Progress /\ Born
    BY DEF StartIInv
  <1>2. master = "load"
    BY <1>1 DEF StartTyped, Progress, Fine
  <1>3. t \notin Http
    BY <1>1, <1>2 DEF Born
  <1>4. PICK j \in Svcs : t = User(j)
    BY <1>3 DEF Threads
  <1>5. Spawner(j) /\ state[j] # "listed"
    BY <1>1, <1>4 DEF Born
  <1>6. loadat <= i /\ ~ (loadat <= j) /\ loadat \in Svcs
    BY <1>1, <1>2, <1>5 DEF Progress
  <1>7. j < i
    <2>1. i \in Nat /\ j \in Nat /\ loadat \in Nat
      BY <1>6, LauncherAssumption DEF Svcs
    <2>. QED
      BY <1>6, <2>1
  <1>. QED
    BY <1>5, <1>7

LEMMA MasterStart ==
  ASSUME StartIInv, (\E i \in Svcs : ServiceBroken(i)) \/ MasterMessages \/ MasterMutex
  PROVE  StartIInv'
  <1>1. StartTyped /\ InOrder /\ Progress /\ Sectioned /\ Born /\ StartupSafe
    BY DEF StartIInv
  <1>2. Fine /\ UNCHANGED <<conf, services, loaded, state, loadat, at>>
    BY DEF ServiceBroken, Loading, MasterMessages, MasterMutex, threads
  <1>3. InOrder' /\ Sectioned'
    BY <1>1, <1>2 DEF InOrder, Sectioned
  <1>4. \A i \in Svcs : Spawner(i)' = Spawner(i)
    BY <1>2 DEF Spawner
  <1>5. loaded \in Seq(Svcs) /\ \A i \in Range(loaded) : i \in Svcs
    BY <1>1 DEF StartTyped, Range
  <1>6. CASE \E i \in Svcs : ServiceBroken(i)
    <2>1. master' = "exited" /\ UNCHANGED <<pc, bad>>
      BY <1>6 DEF ServiceBroken, threads
    <2>2. master # "up"
      BY <1>6 DEF ServiceBroken, Loading
    <2>3. StartTyped' /\ Progress'
      BY <1>1, <1>2, <2>1 DEF StartTyped, Progress
    <2>4. Born'
      BY <1>1, <1>2, <1>4, <2>1, <2>2 DEF Born
    <2>5. StartupSafe'
      BY <1>1, <1>2, <1>4, <2>1 DEF StartupSafe
    <2>. QED
      BY <1>3, <2>3, <2>4, <2>5 DEF StartIInv
  <1>7. CASE MasterMessages
    <2>1. /\ master = "messages" /\ master' = "mutex" /\ pc' = pc
          /\ bad' = IF \E i \in Range(loaded) : state[i] = "freed" THEN "freed service" ELSE bad
      BY <1>7 DEF MasterMessages, threads
    <2>2. StartTyped' /\ Progress'
      BY <1>1, <1>2, <2>1 DEF StartTyped, Progress
    <2>3. Born'
      BY <1>1, <1>2, <1>4, <2>1 DEF Born
    <2>4. StartupSafe'
      <3>1. CASE \E i \in Range(loaded) : state[i] = "freed"
        <4>1. bad' = "freed service" /\ \E i \in Svcs : conf'[i].file = "missing"
          BY <1>1, <1>2, <1>5, <2>1, <3>1 DEF Sectioned
        <4>. QED
          BY <4>1 DEF StartupSafe
      <3>2. CASE bad' = bad
        BY <1>1, <1>2, <1>4, <3>2 DEF StartupSafe
      <3>. QED
        BY <2>1, <3>1, <3>2
    <2>. QED
      BY <1>3, <2>2, <2>3, <2>4 DEF StartIInv
  <1>8. CASE MasterMutex
    <2>1. /\ master = "mutex" /\ master' = "up"
          /\ bad' = IF Holder # {} THEN "mutex in use" ELSE bad
          /\ pc' = [t \in Threads |-> IF t \in Http THEN "new" ELSE pc[t]]
      BY <1>8 DEF MasterMutex
    <2>2. pc \in [Threads -> Places] /\ pc' \in [Threads -> Places]
      BY <1>1, <2>1 DEF StartTyped, Places
    <2>3. StartTyped' /\ Progress'
      BY <1>1, <1>2, <2>1, <2>2 DEF StartTyped, Progress
    <2>4. Born'
      <3>1. \A i \in Svcs : User(i) \in Threads /\ User(i) \notin Http
        BY LauncherAssumption DEF User, Threads, Svcs
      <3>. QED
        BY <1>1, <1>2, <1>4, <2>1, <3>1 DEF Born
    <2>5. StartupSafe'
      <3>1. CASE Holder # {}
        <4>1. PICK t \in Threads : pc[t] = "locked"
          BY <3>1 DEF Holder
        <4>2. t \notin Http
          BY <1>1, <2>1, <4>1 DEF Born
        <4>3. PICK i \in Svcs : t = User(i)
          BY <4>2 DEF Threads
        <4>4. Spawner(i)
          BY <1>1, <4>1, <4>3 DEF Born
        <4>5. bad' = "mutex in use" /\ Spawner(i)'
          BY <1>4, <2>1, <3>1, <4>4
        <4>. QED
          BY <4>5 DEF StartupSafe
      <3>2. CASE bad' = bad
        BY <1>1, <1>2, <1>4, <3>2 DEF StartupSafe
      <3>. QED
        BY <2>1, <3>1, <3>2
    <2>. QED
      BY <1>3, <2>3, <2>4, <2>5 DEF StartIInv
  <1>. QED
    BY <1>6, <1>7, <1>8

LEMMA WorkerStart ==
  ASSUME StartIInv, NEW t \in Threads,
         WorkerLock(t) \/ WorkerChannel(t) \/ WorkerGlobals(t)
  PROVE  StartIInv'
  <1>1. StartTyped /\ InOrder /\ Progress /\ Sectioned /\ Born /\ StartupSafe
    BY DEF StartIInv
  <1>2. Fine /\ UNCHANGED <<conf, services, loaded, state, master, loadat>>
    BY DEF WorkerLock, WorkerChannel, WorkerGlobals, lists
  <1>3. InOrder' /\ Progress' /\ Sectioned' /\ \A i \in Svcs : Spawner(i)' = Spawner(i)
    BY <1>2, SameLists
  <1>4. /\ pc \in [Threads -> Places] /\ at \in [Threads -> Nat]
        /\ services \in Seq(Svcs) /\ Svcs \subseteq Nat
    BY <1>1, LauncherAssumption DEF StartTyped, Svcs
  \* A thread that is there stays there, and walks on services.
  <1>5. ASSUME pc[t] # "unborn",
               \/ UNCHANGED <<pc, at>>
               \/ /\ pc' \in [Threads -> Places] /\ at' \in [Threads -> Nat]
                  /\ pc'[t] = "walk" => at'[t] \in Svcs
                  /\ \A u \in Threads : u # t => pc'[u] = pc[u] /\ at'[u] = at[u]
        PROVE  StartTyped' /\ Born'
    <2>1. StartTyped'
      BY <1>1, <1>2, <1>5 DEF StartTyped
    <2>2. \A u \in Threads : pc'[u] # "unborn" => pc[u] # "unborn"
      BY <1>5
    <2>3. \A u \in Http : u \in Threads
      BY DEF Threads
    <2>4. master' # "up" => \A u \in Http : pc'[u] = "unborn"
      BY <1>1, <1>2, <2>2, <2>3 DEF Born
    <2>5. \A i \in Svcs : User(i) \in Threads
      BY DEF Threads
    <2>6. \A i \in Svcs : pc'[User(i)] # "unborn" => Spawner(i)' /\ state'[i] # "listed"
      BY <1>1, <1>2, <1>3, <2>2, <2>5 DEF Born
    <2>7. \A u \in Threads : pc'[u] = "walk" => at'[u] \in Svcs
      BY <1>1, <1>5 DEF Born
    <2>. QED
      BY <2>1, <2>4, <2>6, <2>7 DEF Born
  <1>6. ASSUME bad' = bad PROVE StartupSafe'
    BY <1>1, <1>2, <1>3, <1>6 DEF StartupSafe
  <1>7. CASE WorkerLock(t)
    <2>1. pc[t] = "new" /\ pc' = [pc EXCEPT ![t] = "locked"] /\ UNCHANGED <<at, bad>>
      BY <1>7 DEF WorkerLock
    <2>2. StartTyped' /\ Born'
      BY <1>4, <1>5, <2>1 DEF Places
    <2>. QED
      BY <1>3, <1>6, <2>1, <2>2 DEF StartIInv
  <1>8. CASE WorkerChannel(t)
    <2>1. /\ pc[t] = "locked" /\ bad' = bad
          /\ pc' = [pc EXCEPT ![t] = IF services = <<>> THEN "up" ELSE "walk"]
          /\ at' = [at EXCEPT ![t] = IF services = <<>> THEN 0 ELSE Head(services)]
      BY <1>8 DEF WorkerChannel
    <2>2. services # <<>> => Head(services) \in Svcs /\ Head(services) \in Nat
      <3>1. services # <<>> => Head(services) \in Svcs
        BY <1>4
      <3>. QED
        BY <1>4, <3>1
    <2>3. /\ pc' \in [Threads -> Places] /\ at' \in [Threads -> Nat]
          /\ pc'[t] = "walk" => at'[t] \in Svcs
          /\ \A u \in Threads : u # t => pc'[u] = pc[u] /\ at'[u] = at[u]
      BY <1>4, <2>1, <2>2 DEF Places
    <2>4. StartTyped' /\ Born'
      BY <1>5, <2>1, <2>3
    <2>. QED
      BY <1>3, <1>6, <2>1, <2>4 DEF StartIInv
  <1>9. CASE WorkerGlobals(t)
    <2>. DEFINE i == at[t]
    <2>1. pc[t] = "walk" /\ i \in Svcs
      BY <1>1, <1>9 DEF WorkerGlobals, Born
    <2>2. CASE state[i] # "registered"
      <3>1. /\ bad' = IF state[i] = "freed" THEN "freed service" ELSE "null list"
            /\ UNCHANGED <<pc, at>>
        BY <1>9, <2>2 DEF WorkerGlobals, threads
      <3>2. StartTyped' /\ Born'
        BY <1>5, <2>1, <3>1
      <3>3. CASE state[i] = "freed"
        <4>1. bad' = "freed service" /\ conf'[i].file = "missing"
          BY <1>1, <1>2, <2>1, <3>1, <3>3 DEF Sectioned
        <4>2. StartupSafe'
          BY <2>1, <4>1 DEF StartupSafe
        <4>. QED
          BY <1>3, <3>2, <4>2 DEF StartIInv
      <3>4. CASE state[i] = "refused"
        <4>1. bad' = "null list" /\ conf'[i].main # 0
          BY <1>1, <1>2, <2>1, <3>1, <3>4 DEF Sectioned
        <4>2. StartupSafe'
          BY <2>1, <4>1 DEF StartupSafe
        <4>. QED
          BY <1>3, <3>2, <4>2 DEF StartIInv
      <3>5. CASE state[i] = "listed"
        <4>. HIDE DEF i
        <4>1. PICK j \in Svcs : j < i /\ Spawner(j)
          BY <1>2, <2>1, <3>5, EarlyThread
        <4>2. bad' = "null list" /\ Spawner(j)'
          BY <1>3, <3>1, <3>5, <4>1
        <4>3. \E a, b \in Svcs : a < b /\ Spawner(a)'
          BY <2>1, <4>1, <4>2
        <4>4. StartupSafe'
          BY <4>2, <4>3 DEF StartupSafe
        <4>. QED
          BY <1>3, <3>2, <4>4 DEF StartIInv
      <3>. QED
        BY <1>1, <2>1, <2>2, <3>3, <3>4, <3>5 DEF StartTyped
    <2>3. CASE state[i] = "registered"
      <3>1. /\ at' = [at EXCEPT ![t] = After(i)] /\ bad' = bad
            /\ pc' = IF After(i) = 0 THEN [pc EXCEPT ![t] = "up"] ELSE pc
        BY <1>9, <2>3 DEF WorkerGlobals
      <3>2. After(i) = 0 \/ After(i) \in Svcs
        <4>. HIDE DEF i
        <4>1. \E k \in 1 .. Len(services) : services[k] = i
          BY <1>1, <2>1, <2>3 DEF InOrder
        <4>. QED
          BY <1>4, <2>1, <4>1, AfterListed
      <3>. DEFINE a == After(i)
      <3>3. a = 0 \/ a \in Svcs
        BY <3>2
      <3>4. at' = [at EXCEPT ![t] = a] /\ pc' = IF a = 0 THEN [pc EXCEPT ![t] = "up"] ELSE pc
        BY <3>1
      <3>. HIDE DEF a
      <3>5. /\ pc' \in [Threads -> Places] /\ at' \in [Threads -> Nat]
            /\ pc'[t] = "walk" => at'[t] \in Svcs
            /\ \A u \in Threads : u # t => pc'[u] = pc[u] /\ at'[u] = at[u]
        <4>1. CASE a = 0
          BY <1>4, <3>4, <4>1 DEF Places
        <4>2. CASE a # 0
          <5>1. a \in Svcs /\ a \in Nat /\ pc' = pc
            BY <1>4, <3>3, <3>4, <4>2
          <5>. QED
            BY <1>4, <3>4, <5>1
        <4>. QED
          BY <4>1, <4>2
      <3>6. StartTyped' /\ Born'
        BY <1>5, <2>1, <3>5
      <3>. QED
        BY <1>3, <1>6, <3>1, <3>6 DEF StartIInv
    <2>. QED
      BY <2>2, <2>3
  <1>. QED
    BY <1>7, <1>8, <1>9

LEMMA SignalStart ==
  ASSUME StartIInv, NEW t \in Threads,
         Signal(t) \/ SignalWrite(t) \/ duda_event_fd_read(t)
  PROVE  StartIInv'
  <1>1. StartTyped /\ InOrder /\ Progress /\ Sectioned /\ Born /\ StartupSafe
    BY DEF StartIInv
  <1>2. Fine /\ UNCHANGED <<conf, services, loaded, state, master, loadat, pc, at>>
    BY DEF Signal, SignalWrite, duda_event_fd_read, lists, threads
  <1>3. InOrder' /\ Progress' /\ Sectioned' /\ \A i \in Svcs : Spawner(i)' = Spawner(i)
    BY <1>2, SameLists
  <1>4. StartTyped' /\ Born'
    BY <1>1, <1>2, <1>3 DEF StartTyped, Born
  <1>5. CASE bad' = bad
    <2>1. StartupSafe'
      BY <1>1, <1>2, <1>3, <1>5 DEF StartupSafe
    <2>. QED
      BY <1>3, <1>4, <2>1 DEF StartIInv
  <1>6. CASE duda_event_fd_read(t)
    <2>1. /\ t \in Http /\ pc[t] = "up"
          /\ bad' = IF \E i \in Range(loaded) : state[i] = "freed" THEN "freed service"
                    ELSE IF \E i \in Range(loaded) : state[i] # "registered"
                         THEN "null list" ELSE bad
      BY <1>6 DEF duda_event_fd_read, Reads
    <2>2. \A i \in Range(loaded) : i \in Svcs
      BY <1>1 DEF StartTyped, Range
    <2>3. master = "up"
      BY <1>1, <2>1 DEF Born
    <2>4. \A i \in Svcs : state[i] # "listed"
      BY <1>1, <2>3 DEF Progress
    <2>5. CASE \E i \in Range(loaded) : state[i] = "freed"
      <3>1. bad' = "freed service" /\ \E i \in Svcs : conf'[i].file = "missing"
        BY <1>1, <1>2, <2>1, <2>2, <2>5 DEF Sectioned
      <3>2. StartupSafe'
        BY <3>1 DEF StartupSafe
      <3>. QED
        BY <1>3, <1>4, <3>2 DEF StartIInv
    <2>6. CASE /\ ~ \E i \in Range(loaded) : state[i] = "freed"
               /\ \E i \in Range(loaded) : state[i] # "registered"
      <3>1. PICK i \in Range(loaded) : state[i] # "registered"
        BY <2>6
      <3>2. i \in Svcs /\ state[i] = "refused"
        BY <1>1, <2>2, <2>4, <2>6, <3>1 DEF StartTyped
      <3>3. bad' = "null list" /\ conf'[i].main # 0
        BY <1>1, <1>2, <2>1, <2>6, <3>2 DEF Sectioned
      <3>4. StartupSafe'
        BY <3>2, <3>3 DEF StartupSafe
      <3>. QED
        BY <1>3, <1>4, <3>4 DEF StartIInv
    <2>. QED
      BY <1>5, <2>1, <2>5, <2>6
  <1>. QED
    BY <1>5, <1>6 DEF Signal, SignalWrite

LEMMA NextStart ==
  ASSUME StartIInv, [Next]_vars
  PROVE  StartIInv'
  <1>1. CASE UNCHANGED vars
    <2>1. UNCHANGED <<conf, services, loaded, state, master, loadat, pc, at, bad>>
      BY <1>1 DEF vars, lists, threads
    <2>2. InOrder' /\ Progress' /\ Sectioned' /\ \A i \in Svcs : Spawner(i)' = Spawner(i)
      BY <2>1, SameLists
    <2>3. StartTyped' /\ Born' /\ StartupSafe'
      BY <2>1, <2>2 DEF StartIInv, StartTyped, Born, StartupSafe
    <2>. QED
      BY <2>2, <2>3 DEF StartIInv
  <1>. QED
    BY <1>1, MissingStart, RegisterStart, MasterStart, WorkerStart, SignalStart DEF Next

(* Startup with any sections, and any number of HTTP workers, runs into an *)
(* illegal state only where the configuration lets it (duda_master_init,   *)
(* duda_load_services, duda_service_register and duda_worker_init).        *)
THEOREM LauncherStartup == Spec => []StartupSafe
  <1>1. StartIInv /\ [Next]_vars => StartIInv'
    BY NextStart
  <1>2. StartIInv => StartupSafe
    BY DEF StartIInv
  <1>. QED
    BY <1>1, <1>2, InitStart, PTL DEF Spec

(***************************************************************************)
(* Signals.                                                                *)
(***************************************************************************)
SigTyped ==
    /\ chans \in Seq(Threads)
    /\ pipe \in [Threads -> Seq(Nat)] /\ got \in [Threads -> Seq(Nat)]
    /\ full \in [Threads -> SUBSET Nat]
    /\ sig \in [Threads -> [val : Nat, next : Nat]]
    /\ vals \in Nat /\ vals <= MaxSignals
    /\ span \in [1 .. MaxSignals -> [from : Nat, done : Nat]]

\* How often the value v came to the thread t.
Came(v, t) == Times(v, got[t] \o pipe[t]) + (IF v \in full[t] THEN 1 ELSE 0)

\* A channel is in the list once, when its thread is past duda_worker_init's
\* lock; nothing came to a thread before, nor a value that was not sent.
Joined ==
    /\ \A a, b \in 1 .. Len(chans) : chans[a] = chans[b] => a = b
    /\ \A a \in 1 .. Len(chans) : pc[chans[a]] \in {"walk", "up"}
    /\ \A t \in Threads : \A v \in Nat :
          pc[t] \notin {"walk", "up"} \/ v > vals => Came(v, t) = 0

\* A loop of duda_event_signal has its own value, and is at the channel
\* after those it wrote to.
Loops ==
    /\ \A t \in Threads : sig[t] # NoSignal =>
          /\ sig[t].val \in 1 .. vals /\ sig[t].next \in 1 .. Len(chans)
          /\ span[sig[t].val].done = sig[t].next - 1
    /\ \A s, t \in Threads : sig[s].val = sig[t].val /\ sig[s].val # 0 => s = t
    /\ \A v \in 1 .. MaxSignals : v > vals => span[v].done = 0
    /\ \A v \in 1 .. vals : span[v].from <= Len(chans) /\ span[v].done <= Len(chans)

\* A value came once to the channels its loop has written to, and those that
\* were there when it began are among them when it ends.
Spread ==
    /\ \A v \in 1 .. vals : \A k \in 1 .. Len(chans) :
          Came(v, chans[k]) = IF k <= span[v].done THEN 1 ELSE 0
    /\ \A v \in 1 .. vals :
          (\A t \in Threads : sig[t].val # v) => span[v].done >= span[v].from

SignalIInv == SigTyped /\ Joined /\ Loops /\ Spread

(* What Times counts is a number, 0 in the empty sequence, and one more    *)
(* for a value that is appended.                                           *)
LEMMA TimesNat ==
  ASSUME NEW s \in Seq(Nat), NEW v
  PROVE  IsFiniteSet({j \in DOMAIN s : s[j] = v}) /\ Times(v, s) \in Nat
  <1>. DEFINE T == {j \in DOMAIN s : s[j] = v}
  <1>1. DOMAIN s = 1 .. Len(s) /\ Len(s) \in Int /\ 1 \in Int
    OBVIOUS
  <1>2. IsFiniteSet(1 .. Len(s))
    BY <1>1, FS_Interval
  <1>3. T \in SUBSET (1 .. Len(s))
    BY <1>1
  <1>. HIDE DEF T
  <1>4. IsFiniteSet(T) /\ Cardinality(T) \in Nat
    BY <1>2, <1>3, FS_Subset, FS_CardinalityType
  <1>. QED
    BY <1>4 DEF T, Times

LEMMA TimesEmpty == \A v : Times(v, <<>>) = 0
  <1>. SUFFICES ASSUME NEW v PROVE Times(v, <<>>) = 0
    OBVIOUS
  <1>1. {j \in DOMAIN <<>> : <<>>[j] = v} = {}
    OBVIOUS
  <1>. QED
    BY <1>1, FS_EmptySet DEF Times

LEMMA TimesAppend ==
  ASSUME NEW s \in Seq(Nat), NEW w \in Nat, NEW v
  PROVE  Times(v, Append(s, w)) = Times(v, s) + (IF v = w THEN 1 ELSE 0)
  <1>. DEFINE a == Append(s, w)
              n == Len(s)
              T == {j \in DOMAIN s : s[j] = v}
              U == {j \in DOMAIN a : a[j] = v}
  <1>1. /\ n \in Nat /\ DOMAIN s = 1 .. n /\ DOMAIN a = 1 .. n + 1
        /\ (\A j \in 1 .. n : a[j] = s[j]) /\ a[n + 1] = w
    OBVIOUS
  <1>2. IsFiniteSet(T) /\ Cardinality(T) \in Nat
    BY TimesNat DEF Times
  <1>3. Times(v, s) = Cardinality(T) /\ Times(v, a) = Cardinality(U)
    BY DEF Times
  <1>. HIDE DEF a, n
  <1>4. \A j : j \in 1 .. n + 1 <=> j \in 1 .. n \/ j = n + 1
    BY <1>1
  <1>5. n + 1 \notin T
    BY <1>1
  <1>6. CASE v = w
    <2>1. U = T \cup {n + 1}
      BY <1>1, <1>4, <1>6
    <2>. HIDE DEF T, U
    <2>2. Cardinality(U) = Cardinality(T) + 1
      BY <1>2, <1>5, <2>1, FS_AddElement
    <2>. QED
      BY <1>3, <1>6, <2>2 DEF a
  <1>7. CASE v # w
    <2>1. U = T
      BY <1>1, <1>4, <1>7
    <2>. HIDE DEF T, U
    <2>. QED
      BY <1>2, <1>3, <1>7, <2>1 DEF a
  <1>. QED
    BY <1>6, <1>7

(* A value that is put in the pipe is at the end of what was got and waits. *)
LEMMA PipeAppend ==
  ASSUME NEW g \in Seq(Nat), NEW q \in Seq(Nat), NEW w \in Nat
  PROVE  g \o Append(q, w) = Append(g \o q, w) /\ g \o q \in Seq(Nat)
  <1>1. <<w>> \in Seq(Nat) /\ g \o q \in Seq(Nat)
    OBVIOUS
  <1>2. Append(q, w) = q \o <<w>>
    BY AppendIsConcat
  <1>3. Append(g \o q, w) = (g \o q) \o <<w>>
    BY <1>1, AppendIsConcat
  <1>4. (g \o q) \o <<w>> = g \o (q \o <<w>>)
    BY <1>1, ConcatAssociative, SMTT(20)
  <1>. QED
    BY <1>1, <1>2, <1>3, <1>4

(* Reading moves a value from the pipe to what was got.                    *)
LEMMA PipeRead ==
  ASSUME NEW g \in Seq(Nat), NEW q \in Seq(Nat), q # <<>>
  PROVE  /\ Append(g, Head(q)) \o Tail(q) = g \o q
         /\ Append(g, Head(q)) \in Seq(Nat) /\ Tail(q) \in Seq(Nat)
  <1>1. Head(q) \in Nat /\ Tail(q) \in Seq(Nat) /\ <<Head(q)>> \in Seq(Nat)
    OBVIOUS
  <1>2. Append(g, Head(q)) = g \o <<Head(q)>>
    BY <1>1, AppendIsConcat
  <1>3. (g \o <<Head(q)>>) \o Tail(q) = g \o (<<Head(q)>> \o Tail(q))
    BY <1>1, ConcatAssociative, SMTT(20)
  <1>4. <<Head(q)>> \o Tail(q) = q
    <2>. DEFINE c == <<Head(q)>> \o Tail(q)
    <2>1. c \in Seq(Nat) /\ Len(c) = Len(q) /\ \A i \in 1 .. Len(c) : c[i] = q[i]
      BY <1>1
    <2>. HIDE DEF c
    <2>2. c = q
      BY <2>1, SeqEqual
    <2>. QED
      BY <2>2 DEF c
  <1>5. Append(g, Head(q)) \o Tail(q) = g \o q
    BY <1>2, <1>3, <1>4, Zenon
  <1>6. Append(g, Head(q)) \in Seq(Nat)
    BY <1>1, AppendProperties
  <1>. QED
    BY <1>1, <1>5, <1>6, Zenon

LEMMA CameNat ==
  ASSUME SigTyped, NEW t \in Threads, NEW v
  PROVE  Came(v, t) \in Nat /\ (Came(v, t) = 0 => v \notin full[t] /\ Times(v, got[t] \o pipe[t]) = 0)
  <1>1. got[t] \o pipe[t] \in Seq(Nat)
    BY DEF SigTyped
  <1>2. Times(v, got[t] \o pipe[t]) \in Nat
    BY <1>1, TimesNat
  <1>. QED
    BY <1>2 DEF Came

LEMMA InitSignal == Init => SignalIInv
  <1>. SUFFICES ASSUME Init PROVE SignalIInv
    OBVIOUS
  <1>1. <<>> \in Seq(Threads) /\ <<>> \in Seq(Nat) /\ Len(<<>>) = 0 /\ <<>> \o <<>> = <<>>
    OBVIOUS
  <1>2. MaxSignals \in Nat
    BY LauncherAssumption
  <1>3. SigTyped
    BY <1>1, <1>2 DEF Init, SigTyped, NoSignal
  <1>4. \A t \in Threads : \A v : Came(v, t) = 0
    BY <1>1, TimesEmpty DEF Init, Came
  <1>5. Joined
    BY <1>1, <1>4 DEF Init, Joined
  <1>6. Loops
    BY <1>1, <1>2 DEF Init, Loops, NoSignal
  <1>7. Spread
    BY <1>1 DEF Init, Spread
  <1>. QED
    BY <1>3, <1>5, <1>6, <1>7 DEF SignalIInv

(* The steps that send and read nothing, where a thread goes on.           *)
LEMMA ThreadSignal ==
  ASSUME SignalIInv, UNCHANGED signals,
         \A t \in Threads : pc'[t] = pc[t] \/ pc[t] \notin {"walk", "up"}
                            \/ pc'[t] \in {"walk", "up"},
         \A t \in Threads : pc'[t] \in {"walk", "up"} => pc[t] \in {"walk", "up"}
  PROVE  SignalIInv'
  <1>1. UNCHANGED <<chans, pipe, got, full, sig, vals, span>>
    BY DEF signals
  <1>2. SigTyped /\ Joined /\ Loops /\ Spread
    BY DEF SignalIInv
  <1>3. \A t, v : Came(v, t)' = Came(v, t)
    BY <1>1 DEF Came
  <1>4. SigTyped'
    BY <1>1, <1>2 DEF SigTyped
  <1>5. \A a \in 1 .. Len(chans) : chans[a] \in Threads
    BY <1>2 DEF SigTyped
  <1>6. Joined'
    BY <1>1, <1>2, <1>3, <1>5 DEF Joined
  <1>7. Loops'
    BY <1>1, <1>2 DEF Loops
  <1>8. Spread'
    BY <1>1, <1>2, <1>3 DEF Spread
  <1>. QED
    BY <1>4, <1>6, <1>7, <1>8 DEF SignalIInv

LEMMA StartSignal ==
  ASSUME StartIInv, SignalIInv,
         \/ MasterMessages \/ MasterMutex
         \/ \E i \in Svcs : ServiceMissing(i) \/ duda_service_register(i) \/ ServiceBroken(i)
         \/ \E t \in Threads : WorkerLock(t) \/ WorkerGlobals(t)
  PROVE  SignalIInv'
  <1>1. StartTyped /\ Progress /\ Born /\ pc \in [Threads -> Places]
    BY DEF StartIInv, StartTyped
  <1>2. CASE MasterMessages \/ \E i \in Svcs : ServiceMissing(i) \/ ServiceBroken(i)
    <2>1. pc' = pc /\ UNCHANGED signals
      BY <1>2 DEF MasterMessages, ServiceMissing, ServiceBroken, threads
    <2>. QED
      BY <2>1, ThreadSignal
  <1>3. CASE MasterMutex
    <2>1. /\ master = "mutex" /\ UNCHANGED signals
          /\ pc' = [t \in Threads |-> IF t \in Http THEN "new" ELSE pc[t]]
      BY <1>3 DEF MasterMutex
    <2>2. \A t \in Http : pc[t] = "unborn"
      BY <1>1, <2>1 DEF Born
    <2>. QED
      BY <2>1, <2>2, ThreadSignal
  <1>4. ASSUME NEW i \in Svcs, duda_service_register(i) PROVE SignalIInv'
    <2>1. /\ master = "load" /\ loadat = i /\ UNCHANGED signals
          /\ pc' = IF conf[i].main = 0 /\ conf[i].spawns
                   THEN [pc EXCEPT ![User(i)] = "new"] ELSE pc
      BY <1>4 DEF duda_service_register, Loading
    <2>2. state[i] = "listed"
      <3>1. i <= i
        BY DEF Svcs
      <3>. QED
        BY <1>1, <2>1, <3>1 DEF Progress
    <2>3. pc[User(i)] = "unborn" /\ User(i) \in Threads
      BY <1>1, <2>2 DEF Born, Threads
    <2>4. \A t \in Threads : pc'[t] = pc[t] \/ (pc[t] = "unborn" /\ pc'[t] = "new")
      BY <1>1, <2>1, <2>3
    <2>. QED
      BY <2>1, <2>4, ThreadSignal
  <1>5. ASSUME NEW t \in Threads, WorkerLock(t) PROVE SignalIInv'
    <2>1. pc[t] = "new" /\ pc' = [pc EXCEPT ![t] = "locked"] /\ UNCHANGED signals
      BY <1>5 DEF WorkerLock
    <2>2. \A u \in Threads : pc'[u] = pc[u] \/ (pc[u] = "new" /\ pc'[u] = "locked")
      BY <1>1, <2>1
    <2>. QED
      BY <2>1, <2>2, ThreadSignal
  <1>6. ASSUME NEW t \in Threads, WorkerGlobals(t) PROVE SignalIInv'
    <2>1. /\ pc[t] = "walk" /\ UNCHANGED signals
          /\ pc' = pc \/ pc' = [pc EXCEPT ![t] = "up"]
      BY <1>6 DEF WorkerGlobals, threads
    <2>2. \A u \in Threads : pc'[u] = pc[u] \/ (pc[u] = "walk" /\ pc'[u] = "up")
      BY <1>1, <2>1
    <2>. QED
      BY <2>1, <2>2, ThreadSignal
  <1>. QED
    BY <1>2, <1>3, <1>4, <1>5, <1>6

(* A channel that joins the list was written to by no loop.                *)
LEMMA ChannelSignal ==
  ASSUME StartIInv, SignalIInv, NEW t \in Threads, WorkerChannel(t)
  PROVE  SignalIInv'
  <1>1. /\ pc[t] = "locked" /\ chans' = Append(chans, t)
        /\ pc' = [pc EXCEPT ![t] = IF services = <<>> THEN "up" ELSE "walk"]
        /\ UNCHANGED <<pipe, got, full, sig, vals, span>>
    BY DEF WorkerChannel
  <1>2. SigTyped /\ Joined /\ Loops /\ Spread /\ pc \in [Threads -> Places]
    BY DEF SignalIInv, StartIInv, StartTyped
  <1>3. \A u, v : Came(v, u)' = Came(v, u)
    BY <1>1 DEF Came
  <1>. DEFINE n == Len(chans)
  <1>4. /\ n \in Nat /\ chans' \in Seq(Threads) /\ Len(chans') = n + 1
        /\ \A a \in 1 .. n : chans'[a] = chans[a] /\ chans[a] \in Threads
        /\ chans'[n + 1] = t
    BY <1>1, <1>2 DEF SigTyped
  <1>5. \A a \in 1 .. n : chans[a] # t
    BY <1>1, <1>2 DEF Joined
  <1>6. /\ pc'[t] \in {"walk", "up"}
        /\ \A u \in Threads : u # t => pc'[u] = pc[u]
    BY <1>1, <1>2
  <1>7. \A v \in 1 .. vals : v \in Nat /\ v \in 1 .. MaxSignals /\ span[v].done \in Nat
                             /\ span[v].from \in Nat
    BY <1>2, LauncherAssumption DEF SigTyped
  <1>8. \A v \in 1 .. vals : span[v].from <= n /\ span[v].done <= n
    BY <1>2 DEF Loops
  <1>9. \A v \in 1 .. vals : \A k \in 1 .. n :
            Came(v, chans[k]) = IF k <= span[v].done THEN 1 ELSE 0
    BY <1>2 DEF Spread
  <1>10. \A a, b \in 1 .. n : chans[a] = chans[b] => a = b
    BY <1>2 DEF Joined
  <1>11. \A a \in 1 .. n : pc[chans[a]] \in {"walk", "up"}
    BY <1>2 DEF Joined
  <1>12. \A u \in Threads : sig[u] # NoSignal =>
             /\ sig[u].val \in 1 .. vals /\ sig[u].next \in 1 .. n
             /\ span[sig[u].val].done = sig[u].next - 1
    BY <1>2 DEF Loops
  <1>. HIDE DEF n
  <1>13. \A k : k \in 1 .. n + 1 <=> k \in 1 .. n \/ k = n + 1
    BY <1>4
  <1>14. SigTyped'
    BY <1>1, <1>2, <1>4 DEF SigTyped
  <1>15. Joined'
    <2>1. \A a, b \in 1 .. n + 1 : chans'[a] = chans'[b] => a = b
      BY <1>4, <1>5, <1>10, <1>13
    <2>2. \A a \in 1 .. n + 1 : pc'[chans'[a]] \in {"walk", "up"}
      BY <1>4, <1>5, <1>6, <1>11, <1>13
    <2>3. \A u \in Threads : \A v \in Nat :
              pc'[u] \notin {"walk", "up"} \/ v > vals' => Came(v, u)' = 0
      BY <1>1, <1>2, <1>3, <1>6 DEF Joined
    <2>. QED
      BY <1>4, <2>1, <2>2, <2>3 DEF Joined
  <1>16. Loops'
    <2>1. \A v \in 1 .. vals : span[v].from <= n + 1 /\ span[v].done <= n + 1
      BY <1>4, <1>7, <1>8
    <2>. QED
      BY <1>1, <1>2, <1>4, <1>12, <1>13, <2>1 DEF Loops
  <1>17. Spread'
    <2>1. ASSUME NEW v \in 1 .. vals, NEW k \in 1 .. n + 1
          PROVE  Came(v, chans[k])' = IF k <= span[v].done THEN 1 ELSE 0
      <3>1. CASE k \in 1 .. n
        BY <1>3, <1>4, <1>9, <3>1
      <3>2. CASE k = n + 1
        <4>1. ~ (k <= span[v].done)
          BY <1>4, <1>7, <1>8, <3>2
        <4>2. Came(v, t) = 0
          BY <1>1, <1>2, <1>7 DEF Joined
        <4>3. chans'[k] = t
          BY <1>4, <3>2
        <4>. QED
          BY <1>3, <4>1, <4>2, <4>3
      <3>. QED
        BY <1>13, <3>1, <3>2
    <2>. QED
      BY <1>1, <1>2, <1>4, <2>1 DEF Spread
  <1>. QED
    BY <1>14, <1>15, <1>16, <1>17 DEF SignalIInv

(* A new signal has a value of its own and has not been written anywhere.  *)
LEMMA SendSignal ==
  ASSUME StartIInv, SignalIInv, NEW t \in Threads, Signal(t)
  PROVE  SignalIInv'
  <1>0. PICK w : w = vals + 1
    OBVIOUS
  <1>1. /\ sig[t] = NoSignal /\ vals < MaxSignals /\ chans # <<>>
        /\ vals' = w /\ sig' = [sig EXCEPT ![t] = [val |-> w, next |-> 1]]
        /\ span' = [span EXCEPT ![w].from = Len(chans)]
        /\ UNCHANGED <<chans, pipe, got, full, pc>>
    BY <1>0 DEF Signal, threads
  <1>2. SigTyped /\ Joined /\ Loops /\ Spread
    BY DEF SignalIInv
  <1>3. \A u, v : Came(v, u)' = Came(v, u)
    BY <1>1 DEF Came
  <1>4. /\ vals \in Nat /\ MaxSignals \in Nat /\ w \in Nat /\ w \in 1 .. MaxSignals
        /\ w # 0 /\ w > vals
    <2>1. vals \in Nat /\ MaxSignals \in Nat
      BY <1>2, LauncherAssumption DEF SigTyped
    <2>. QED
      BY <1>0, <1>1, <2>1
  <1>5. \A v : v \in 1 .. w <=> v \in 1 .. vals \/ v = w
    BY <1>0, <1>4
  <1>6. /\ sig \in [Threads -> [val : Nat, next : Nat]] /\ Len(chans) \in Nat
        /\ span \in [1 .. MaxSignals -> [from : Nat, done : Nat]]
        /\ Len(chans) # 0
    <2>1. sig \in [Threads -> [val : Nat, next : Nat]] /\ chans \in Seq(Threads)
      BY <1>2 DEF SigTyped
    <2>2. span \in [1 .. MaxSignals -> [from : Nat, done : Nat]]
      BY <1>2 DEF SigTyped
    <2>. QED
      BY <1>1, <2>1, <2>2
  <1>7. /\ sig'[t] = [val |-> w, next |-> 1] /\ sig'[t].val = w /\ sig'[t].next = 1
        /\ \A u \in Threads : u # t => sig'[u] = sig[u]
        /\ sig[t].val = 0
    BY <1>1, <1>6 DEF NoSignal
  <1>8. /\ span' \in [1 .. MaxSignals -> [from : Nat, done : Nat]]
        /\ span'[w].from = Len(chans) /\ span'[w].done = span[w].done
        /\ \A v \in 1 .. MaxSignals : v # w => span'[v] = span[v]
    BY <1>1, <1>4, <1>6
  <1>9. \A v \in 1 .. vals : v \in 1 .. MaxSignals /\ v # w /\ v \in Nat
    BY <1>2, <1>4 DEF SigTyped
  <1>10. span[w].done = 0
    BY <1>2, <1>4 DEF Loops
  <1>11. SigTyped'
    <2>1. sig' \in [Threads -> [val : Nat, next : Nat]]
      BY <1>1, <1>4, <1>6
    <2>2. vals' \in Nat /\ vals' <= MaxSignals
      BY <1>1, <1>4
    <2>. QED
      BY <1>1, <1>2, <1>8, <2>1, <2>2 DEF SigTyped
  <1>12. Joined'
    <2>1. \A v \in Nat : v > w => v > vals
      BY <1>4
    <2>. QED
      BY <1>1, <1>2, <1>3, <2>1 DEF Joined
  <1>13. Loops'
    <2>1. ASSUME NEW u \in Threads, sig'[u] # NoSignal
          PROVE  /\ sig'[u].val \in 1 .. w /\ sig'[u].next \in 1 .. Len(chans)
                 /\ span'[sig'[u].val].done = sig'[u].next - 1
      <3>1. CASE u = t
        <4>1. w \in 1 .. w /\ 1 \in 1 .. Len(chans)
          BY <1>4, <1>6
        <4>. QED
          BY <1>7, <1>8, <1>10, <3>1, <4>1
      <3>2. CASE u # t
        <4>1. sig[u].val \in 1 .. vals /\ sig[u].next \in 1 .. Len(chans)
              /\ span[sig[u].val].done = sig[u].next - 1 /\ sig'[u] = sig[u]
          BY <1>2, <1>7, <2>1, <3>2 DEF Loops
        <4>2. span'[sig[u].val] = span[sig[u].val]
          BY <1>8, <1>9, <4>1
        <4>. QED
          BY <1>5, <4>1, <4>2
      <3>. QED
        BY <3>1, <3>2
    <2>2. \A u \in Threads : sig[u].val # w
      <3>1. \A u \in Threads : sig[u] # NoSignal => sig[u].val \in 1 .. vals
        BY <1>2 DEF Loops
      <3>2. NoSignal.val = 0
        BY DEF NoSignal
      <3>. QED
        BY <1>4, <1>9, <3>1, <3>2
    <2>3. \A a, b \in Threads : sig'[a].val = sig'[b].val /\ sig'[a].val # 0 => a = b
      BY <1>2, <1>7, <2>2 DEF Loops
    <2>4. \A v \in 1 .. MaxSignals : v > w => v # w /\ v > vals
      BY <1>4
    <2>5. \A v \in 1 .. MaxSignals : v > w => span'[v].done = 0
      BY <1>2, <1>8, <2>4 DEF Loops
    <2>6. \A v \in 1 .. w : span'[v].from <= Len(chans) /\ span'[v].done <= Len(chans)
      BY <1>2, <1>5, <1>6, <1>8, <1>9, <1>10, SMTT(20) DEF Loops
    <2>. QED
      BY <1>1, <2>1, <2>3, <2>5, <2>6 DEF Loops
  <1>14. Spread'
    <2>1. ASSUME NEW v \in 1 .. w, NEW k \in 1 .. Len(chans)
          PROVE  Came(v, chans[k]) = IF k <= span'[v].done THEN 1 ELSE 0
      <3>1. CASE v \in 1 .. vals
        BY <1>2, <1>8, <1>9, <3>1 DEF Spread
      <3>2. CASE v = w
        <4>1. chans[k] \in Threads
          BY <1>2 DEF SigTyped
        <4>2. Came(w, chans[k]) = 0
          BY <1>2, <1>4, <4>1 DEF Joined
        <4>3. ~ (k <= 0)
          OBVIOUS
        <4>. QED
          BY <1>8, <1>10, <3>2, <4>2, <4>3
      <3>. QED
        BY <1>5, <3>1, <3>2
    <2>2. ASSUME NEW v \in 1 .. w, \A u \in Threads : sig'[u].val # v
          PROVE  span'[v].done >= span'[v].from
      <3>1. v # w /\ v \in 1 .. vals
        BY <1>5, <1>7, <2>2
      <3>2. \A u \in Threads : sig[u].val # v
        BY <1>7, <1>9, <2>2, <3>1
      <3>. QED
        BY <1>2, <1>8, <1>9, <3>1, <3>2 DEF Spread
    <2>. QED
      BY <1>1, <1>3, <2>1, <2>2 DEF Spread
  <1>. QED
    BY <1>11, <1>12, <1>13, <1>14 DEF SignalIInv

(* One write: the value is in the pipe, or the pipe was full; it came once *)
(* to this channel, which it had not come to.                              *)
LEMMA WriteCame ==
  ASSUME SigTyped, NEW r \in Threads, NEW w \in Nat, Came(w, r) = 0, got' = got,
         IF Len(pipe[r]) < PipeCap
         THEN pipe' = [pipe EXCEPT ![r] = Append(@, w)] /\ full' = full
         ELSE full' = [full EXCEPT ![r] = @ \cup {w}] /\ pipe' = pipe
  PROVE  /\ pipe' \in [Threads -> Seq(Nat)] /\ full' \in [Threads -> SUBSET Nat]
         /\ \A u \in Threads : \A v \in Nat :
               Came(v, u)' = IF u = r /\ v = w THEN 1 ELSE Came(v, u)
  <1>1. /\ pipe \in [Threads -> Seq(Nat)] /\ got \in [Threads -> Seq(Nat)]
        /\ full \in [Threads -> SUBSET Nat]
    BY DEF SigTyped
  <1>2. w \notin full[r] /\ Times(w, got[r] \o pipe[r]) = 0
    BY CameNat
  <1>3. CASE pipe' = [pipe EXCEPT ![r] = Append(@, w)] /\ full' = full
    <2>1. pipe' \in [Threads -> Seq(Nat)]
      BY <1>1, <1>3
    <2>2. pipe'[r] = Append(pipe[r], w) /\ \A u \in Threads : u # r => pipe'[u] = pipe[u]
      BY <1>1, <1>3
    <2>3. ASSUME NEW u \in Threads, NEW v \in Nat
          PROVE  Came(v, u)' = IF u = r /\ v = w THEN 1 ELSE Came(v, u)
      <3>1. CASE u # r
        BY <1>3, <2>2, <3>1 DEF Came
      <3>2. CASE u = r
        <4>1. got[r] \in Seq(Nat) /\ pipe[r] \in Seq(Nat)
          BY <1>1
        <4>2. got'[r] \o pipe'[r] = Append(got[r] \o pipe[r], w)
              /\ got[r] \o pipe[r] \in Seq(Nat)
          <5>1. got[r] \o Append(pipe[r], w) = Append(got[r] \o pipe[r], w)
            BY <4>1, PipeAppend, Zenon
          <5>2. got'[r] = got[r] /\ pipe'[r] = Append(pipe[r], w)
            BY <2>2
          <5>3. got'[r] \o pipe'[r] = Append(got[r] \o pipe[r], w)
            BY <5>1, <5>2, Zenon
          <5>4. got[r] \o pipe[r] \in Seq(Nat)
            BY <4>1
          <5>. QED
            BY <5>3, <5>4
        <4>. DEFINE q == got[r] \o pipe[r]
        <4>3. q \in Seq(Nat)
          BY <4>2
        <4>. HIDE DEF q
        <4>4. Times(v, Append(q, w)) = Times(v, q) + (IF v = w THEN 1 ELSE 0)
          BY <4>3, TimesAppend
        <4>5. Times(v, q) \in Nat
          BY <4>3, TimesNat
        <4>6. Came(v, r)' = Times(v, Append(q, w)) + (IF v \in full[r] THEN 1 ELSE 0)
          BY <1>3, <4>2 DEF Came, q
        <4>7. Came(v, r) = Times(v, q) + (IF v \in full[r] THEN 1 ELSE 0)
          BY DEF Came, q
        <4>8. Times(w, q) = 0
          BY <1>2 DEF q
        <4>9. CASE v = w
          BY <1>2, <3>2, <4>4, <4>6, <4>8, <4>9
        <4>10. CASE v # w
          BY <3>2, <4>4, <4>5, <4>6, <4>7, <4>10
        <4>. QED
          BY <4>9, <4>10
      <3>. QED
        BY <3>1, <3>2
    <2>. QED
      BY <1>1, <1>3, <2>1, <2>3
  <1>4. CASE full' = [full EXCEPT ![r] = @ \cup {w}] /\ pipe' = pipe
    <2>1. full' \in [Threads -> SUBSET Nat]
      BY <1>1, <1>4
    <2>2. full'[r] = full[r] \cup {w} /\ \A u \in Threads : u # r => full'[u] = full[u]
      BY <1>1, <1>4
    <2>3. ASSUME NEW u \in Threads, NEW v \in Nat
          PROVE  Came(v, u)' = IF u = r /\ v = w THEN 1 ELSE Came(v, u)
      <3>1. CASE u # r
        BY <1>4, <2>2, <3>1 DEF Came
      <3>2. CASE u = r /\ v # w
        BY <1>4, <2>2, <3>2 DEF Came
      <3>3. CASE u = r /\ v = w
        BY <1>2, <1>4, <2>2, <3>3 DEF Came
      <3>. QED
        BY <3>1, <3>2, <3>3
    <2>. QED
      BY <1>1, <1>4, <2>1, <2>3
  <1>. QED
    BY <1>3, <1>4

LEMMA WriteSignal ==
  ASSUME SignalIInv, NEW t \in Threads, SignalWrite(t)
  PROVE  SignalIInv'
  <1>0. PICK w, x, r : w = sig[t].val /\ x = sig[t].next /\ r = chans[x]
    OBVIOUS
  <1>1. SigTyped /\ Joined /\ Loops /\ Spread
    BY DEF SignalIInv
  <1>2. /\ sig[t] # NoSignal
        /\ IF Len(pipe[r]) < PipeCap
           THEN pipe' = [pipe EXCEPT ![r] = Append(@, w)] /\ full' = full
           ELSE full' = [full EXCEPT ![r] = @ \cup {w}] /\ pipe' = pipe
        /\ sig' = [sig EXCEPT ![t] = IF NextChannel(x) = 0 THEN NoSignal
                                     ELSE [@ EXCEPT !.next = NextChannel(x)]]
        /\ span' = [span EXCEPT ![w].done = x]
        /\ UNCHANGED <<chans, got, vals, pc>>
    BY <1>0 DEF SignalWrite, threads
  <1>. DEFINE n == Len(chans)
  <1>3. w \in 1 .. vals /\ x \in 1 .. n /\ span[w].done = x - 1
    BY <1>0, <1>1, <1>2 DEF Loops
  <1>4. /\ vals \in Nat /\ MaxSignals \in Nat /\ n \in Nat
        /\ \A v \in 1 .. vals : v \in Nat /\ v # 0 /\ v \in 1 .. MaxSignals
        /\ \A k \in 1 .. n : chans[k] \in Threads
    <2>1. vals \in Nat /\ MaxSignals \in Nat /\ vals <= MaxSignals /\ chans \in Seq(Threads)
      BY <1>1, LauncherAssumption DEF SigTyped
    <2>. QED
      BY <2>1
  <1>5. r \in Threads /\ w \in Nat /\ w # 0 /\ w \in 1 .. MaxSignals
    BY <1>0, <1>3, <1>4
  <1>6. Came(w, r) = 0
    <2>1. ~ (x <= span[w].done)
      BY <1>3, <1>4
    <2>. QED
      BY <1>0, <1>1, <1>3, <2>1 DEF Spread
  <1>7. pipe' \in [Threads -> Seq(Nat)] /\ full' \in [Threads -> SUBSET Nat]
    BY <1>1, <1>2, <1>5, <1>6, WriteCame
  <1>8. \A u \in Threads : \A v \in Nat :
            Came(v, u)' = IF u = r /\ v = w THEN 1 ELSE Came(v, u)
    BY <1>1, <1>2, <1>5, <1>6, WriteCame
  <1>9. /\ sig \in [Threads -> [val : Nat, next : Nat]]
        /\ span \in [1 .. MaxSignals -> [from : Nat, done : Nat]]
    BY <1>1 DEF SigTyped
  <1>10. /\ span' \in [1 .. MaxSignals -> [from : Nat, done : Nat]]
         /\ span'[w].done = x /\ span'[w].from = span[w].from
         /\ \A v \in 1 .. MaxSignals : v # w => span'[v] = span[v]
    <2>1. x \in Nat
      BY <1>3, <1>4
    <2>. QED
      BY <1>2, <1>5, <1>9, <2>1
  \* The loop has ended, or is at the next channel.
  <1>11. /\ \A u \in Threads : u # t => sig'[u] = sig[u]
         /\ \/ x = n /\ sig'[t] = NoSignal
            \/ x + 1 \in 1 .. n /\ sig'[t] = [val |-> w, next |-> x + 1]
    <2>1. \A u \in Threads : u # t => sig'[u] = sig[u]
      BY <1>2, <1>9
    <2>2. CASE x < n
      <3>1. NextChannel(x) = x + 1 /\ x + 1 # 0 /\ x + 1 \in 1 .. n
        BY <1>3, <1>4, <2>2 DEF NextChannel
      <3>2. sig'[t] = [sig[t] EXCEPT !.next = x + 1]
        BY <1>2, <1>9, <3>1
      <3>3. sig[t] \in [val : Nat, next : Nat]
        BY <1>9
      <3>4. sig'[t] = [val |-> w, next |-> x + 1]
        BY <1>0, <3>2, <3>3
      <3>. QED
        BY <2>1, <3>1, <3>4
    <2>3. CASE ~ (x < n)
      <3>1. NextChannel(x) = 0 /\ x = n
        BY <1>3, <1>4, <2>3 DEF NextChannel
      <3>2. sig'[t] = NoSignal
        BY <1>2, <1>9, <3>1
      <3>. QED
        BY <2>1, <3>1, <3>2
    <2>. QED
      BY <2>2, <2>3
  <1>. HIDE DEF n
  <1>12. NoSignal.val = 0 /\ NoSignal \in [val : Nat, next : Nat]
    BY DEF NoSignal
  <1>13. sig'[t].val = 0 \/ sig'[t].val = w
    BY <1>11, <1>12
  <1>14. SigTyped'
    <2>1. sig'[t] \in [val : Nat, next : Nat]
      <3>1. x + 1 \in Nat
        BY <1>3, <1>4
      <3>. QED
        BY <1>5, <1>11, <1>12, <3>1
    <2>2. DOMAIN sig' = Threads /\ sig' = [u \in Threads |-> sig'[u]]
      BY <1>2, <1>9
    <2>3. sig' \in [Threads -> [val : Nat, next : Nat]]
      BY <1>9, <1>11, <2>1, <2>2
    <2>. QED
      BY <1>1, <1>2, <1>7, <1>10, <2>3 DEF SigTyped
  <1>15. Joined'
    <2>1. pc[r] \in {"walk", "up"}
      BY <1>0, <1>1, <1>3 DEF Joined, n
    <2>2. ~ (w > vals)
      BY <1>3, <1>4
    <2>3. \A u \in Threads : \A v \in Nat :
              pc[u] \notin {"walk", "up"} \/ v > vals => Came(v, u)' = 0
      BY <1>1, <1>8, <2>1, <2>2 DEF Joined
    <2>. QED
      BY <1>1, <1>2, <2>3 DEF Joined
  <1>16. \A u \in Threads : u # t => sig[u].val # w
    BY <1>0, <1>1, <1>5 DEF Loops
  <1>17. Loops'
    <2>1. ASSUME NEW u \in Threads, sig'[u] # NoSignal
          PROVE  /\ sig'[u].val \in 1 .. vals /\ sig'[u].next \in 1 .. n
                 /\ span'[sig'[u].val].done = sig'[u].next - 1
      <3>1. CASE u = t
        <4>1. x + 1 \in 1 .. n /\ sig'[t].val = w /\ sig'[t].next = x + 1
          BY <1>11, <2>1, <3>1
        <4>2. x = (x + 1) - 1
          BY <1>3, <1>4
        <4>. QED
          BY <1>3, <1>10, <3>1, <4>1, <4>2
      <3>2. CASE u # t
        <4>1. sig'[u] = sig[u] /\ sig[u] # NoSignal /\ sig[u].val # w
          BY <1>11, <1>16, <2>1, <3>2
        <4>2. sig[u].val \in 1 .. vals /\ sig[u].next \in 1 .. n
              /\ span[sig[u].val].done = sig[u].next - 1
          BY <1>1, <4>1 DEF Loops, n
        <4>3. span'[sig[u].val] = span[sig[u].val]
          BY <1>4, <1>10, <4>1, <4>2
        <4>. QED
          BY <4>1, <4>2, <4>3
      <3>. QED
        BY <3>1, <3>2
    <2>2. \A a, b \in Threads : sig'[a].val = sig'[b].val /\ sig'[a].val # 0 => a = b
      BY <1>1, <1>11, <1>13, <1>16 DEF Loops
    <2>3. \A v \in 1 .. MaxSignals : v > vals => span'[v].done = 0
      <3>1. \A v \in 1 .. MaxSignals : v > vals => v # w
        BY <1>3, <1>4
      <3>. QED
        BY <1>1, <1>10, <3>1 DEF Loops
    <2>4. ASSUME NEW v \in 1 .. vals
          PROVE  span'[v].from <= n /\ span'[v].done <= n
      <3>1. span[v].from <= n /\ span[v].done <= n
        BY <1>1 DEF Loops, n
      <3>2. x <= n
        BY <1>3, <1>4
      <3>. QED
        BY <1>4, <1>10, <3>1, <3>2
    <2>. QED
      BY <1>2, <2>1, <2>2, <2>3, <2>4 DEF Loops, n
  <1>18. Spread'
    <2>1. ASSUME NEW v \in 1 .. vals, NEW k \in 1 .. n
          PROVE  Came(v, chans[k])' = IF k <= span'[v].done THEN 1 ELSE 0
      <3>1. chans'[k] = chans[k] /\ chans[k] \in Threads /\ v \in Nat /\ v \in 1 .. MaxSignals
        BY <1>2, <1>4
      <3>2. Came(v, chans[k])' = IF chans[k] = r /\ v = w THEN 1 ELSE Came(v, chans[k])
        BY <1>8, <3>1
      <3>3. Came(v, chans[k]) = IF k <= span[v].done THEN 1 ELSE 0
        BY <1>1 DEF Spread, n
      <3>4. CASE v # w
        BY <1>10, <3>1, <3>2, <3>3, <3>4
      <3>5. CASE v = w /\ k = x
        <4>1. k <= span'[v].done
          BY <1>3, <1>4, <1>10, <3>5
        <4>. QED
          BY <1>0, <3>2, <3>5, <4>1
      <3>6. CASE v = w /\ k # x
        <4>1. chans[k] # r
          BY <1>0, <1>1, <1>3, <3>6 DEF Joined, n
        <4>2. k <= x - 1 <=> k <= x
          BY <1>3, <1>4, <3>6
        <4>. QED
          BY <1>3, <1>10, <3>2, <3>3, <3>6, <4>1, <4>2
      <3>. QED
        BY <3>4, <3>5, <3>6
    <2>2. ASSUME NEW v \in 1 .. vals, \A u \in Threads : sig'[u].val # v
          PROVE  span'[v].done >= span'[v].from
      <3>1. CASE v = w
        <4>1. x = n
          BY <1>11, <2>2, <3>1
        <4>2. span[w].from <= n /\ span[w].from \in Nat
          BY <1>1, <1>3, <1>5, <1>9 DEF Loops, n
        <4>. QED
          BY <1>4, <1>10, <3>1, <4>1, <4>2
      <3>2. CASE v # w
        <4>1. \A u \in Threads : sig[u].val # v
          BY <1>0, <1>11, <2>2, <3>2
        <4>. QED
          BY <1>1, <1>4, <1>10, <3>2, <4>1 DEF Spread
      <3>. QED
        BY <3>1, <3>2
    <2>. QED
      BY <1>2, <2>1, <2>2 DEF Spread, n
  <1>. QED
    BY <1>14, <1>15, <1>17, <1>18 DEF SignalIInv

LEMMA ReadSignal ==
  ASSUME SignalIInv, NEW t \in Threads, duda_event_fd_read(t)
  PROVE  SignalIInv'
  <1>1. /\ pipe[t] # <<>>
        /\ pipe' = [pipe EXCEPT ![t] = Tail(@)]
        /\ got' = [got EXCEPT ![t] = Append(@, Head(pipe[t]))]
        /\ UNCHANGED <<chans, full, sig, vals, span, pc>>
    BY DEF duda_event_fd_read, threads
  <1>2. SigTyped /\ Joined /\ Loops /\ Spread
    BY DEF SignalIInv
  <1>3. pipe \in [Threads -> Seq(Nat)] /\ got \in [Threads -> Seq(Nat)]
        /\ got[t] \in Seq(Nat) /\ pipe[t] \in Seq(Nat)
    BY <1>2 DEF SigTyped
  <1>4. /\ Append(got[t], Head(pipe[t])) \o Tail(pipe[t]) = got[t] \o pipe[t]
        /\ Append(got[t], Head(pipe[t])) \in Seq(Nat) /\ Tail(pipe[t]) \in Seq(Nat)
    BY <1>1, <1>3, PipeRead
  <1>5. pipe' \in [Threads -> Seq(Nat)] /\ got' \in [Threads -> Seq(Nat)]
    BY <1>1, <1>3, <1>4
  <1>6. \A u \in Threads : got'[u] \o pipe'[u] = got[u] \o pipe[u]
    BY <1>1, <1>3, <1>4
  <1>7. \A u \in Threads : \A v : Came(v, u)' = Came(v, u)
    BY <1>1, <1>6 DEF Came
  <1>8. \A k \in 1 .. Len(chans) : chans[k] \in Threads
    BY <1>2 DEF SigTyped
  <1>9. SigTyped'
    BY <1>1, <1>2, <1>5 DEF SigTyped
  <1>10. Joined'
    BY <1>1, <1>2, <1>7 DEF Joined
  <1>11. Loops'
    BY <1>1, <1>2 DEF Loops
  <1>12. Spread'
    BY <1>1, <1>2, <1>7, <1>8 DEF Spread
  <1>. QED
    BY <1>9, <1>10, <1>11, <1>12 DEF SignalIInv

LEMMA NextSignal ==
  ASSUME StartIInv, SignalIInv, [Next]_vars
  PROVE  SignalIInv'
  <1>1. CASE UNCHANGED vars
    <2>1. UNCHANGED signals /\ pc' = pc
      BY <1>1 DEF vars, threads
    <2>. QED
      BY <2>1, ThreadSignal
  <1>. QED
    BY <1>1, StartSignal, ChannelSignal, SendSignal, WriteSignal, ReadSignal DEF Next

(* Signals of any number of workers, next to workers that come up          *)
(* (duda_event_signal, duda_event_fd_read): each comes exactly once to     *)
(* each channel its loop has passed, read, waiting or dropped at a full    *)
(* pipe, and no channel that was there when it began is missed.            *)
THEOREM LauncherSignals == Spec => []SignalOnce
  <1>1. StartIInv /\ [Next]_vars => StartIInv'
    BY NextStart
  <1>2. StartIInv /\ SignalIInv /\ [Next]_vars => SignalIInv'
    BY NextSignal
  <1>3. SignalIInv => SignalOnce
    <2>. SUFFICES ASSUME SignalIInv PROVE SignalOnce
      OBVIOUS
    <2>1. SigTyped /\ Spread
      BY DEF SignalIInv
    <2>2. DOMAIN chans = 1 .. Len(chans)
      BY <2>1 DEF SigTyped
    <2>. QED
      BY <2>1, <2>2 DEF SignalOnce, Spread, Came
  <1>. QED
    BY <1>1, <1>2, <1>3, InitStart, InitSignal, PTL DEF Spec
=============================================================================
