----------------------------- MODULE DataLemmas -----------------------------
(***************************************************************************)
(* Facts about numbers and sequences that the proofs of several components *)
(* share.  The induction theorems of the library take an operator, which   *)
(* the provers cannot instantiate; NatSetInduction takes a set, from which *)
(* it is as easy to argue.                                                 *)
(***************************************************************************)
EXTENDS Integers, Sequences, FiniteSets, Functions, WellFoundedInduction,
        FiniteSetTheorems, FunctionTheorems, SequenceTheorems, TLAPS

(* A set of natural numbers that is not empty has a least element.         *)
LEMMA LeastNatural ==
  ASSUME NEW T \in SUBSET Nat, T # {}
  PROVE  \E m \in T : \A k \in T : m <= k
  <1>1. \A y, x \in Nat : y < x => <<y, x>> \in OpToRel(<, Nat)
    BY DEF OpToRel
  <1>2. \E R : /\ IsWellFoundedOn(R, Nat)
               /\ \A y, x \in Nat : y < x => <<y, x>> \in R
    BY <1>1, NatLessThanWellFounded, Zenon
  <1>3. PICK R : /\ IsWellFoundedOn(R, Nat)
                 /\ \A y, x \in Nat : y < x => <<y, x>> \in R
    BY <1>2
  <1>4. \A U : U \subseteq Nat /\ U # {} =>
                 \E x \in U : \A y \in U : ~ (<<y, x>> \in R)
    <2>1. IsWellFoundedOn(R, Nat)
      BY <1>3
    <2>. QED
      BY <2>1, WFMin
  <1>5. T \subseteq Nat
    OBVIOUS
  <1>6. PICK x \in T : \A y \in T : ~ (<<y, x>> \in R)
    BY <1>4, <1>5
  <1>7. \A y \in T : ~ (y < x)
    BY <1>3, <1>5, <1>6, Zenon
  <1>. QED
    BY <1>7

(* A set that has 0 and with each number its successor has them all.       *)
LEMMA NatSetInduction ==
  ASSUME NEW T, 0 \in T, \A n \in T \cap Nat : n + 1 \in T
  PROVE  Nat \subseteq T
  <1>1. SUFFICES ASSUME Nat \ T # {} PROVE FALSE
    OBVIOUS
  <1>2. PICK m \in Nat \ T : \A k \in Nat \ T : m <= k
    BY <1>1, LeastNatural
  <1>3. m # 0 /\ m - 1 \in T \cap Nat
    BY <1>2
  <1>. QED
    BY <1>2, <1>3

(* A sequence without repetitions is as long as it has elements.           *)
LEMMA DistinctCount ==
  ASSUME NEW S, NEW s \in Seq(S),
         \A i, j \in 1 .. Len(s) : s[i] = s[j] => i = j
  PROVE  /\ IsFiniteSet({s[i] : i \in 1 .. Len(s)})
         /\ Cardinality({s[i] : i \in 1 .. Len(s)}) = Len(s)
  <1>. DEFINE n == Len(s)
              R == {s[i] : i \in 1 .. n}
  <1>1. n \in Nat /\ DOMAIN s = 1 .. n /\ s \in [1 .. n -> R]
    OBVIOUS
  <1>2. s \in Injection(1 .. n, R)
    BY <1>1 DEF Injection, IsInjective
  <1>3. s \in Surjection(1 .. n, R)
    <2>1. \A t \in R : \E i \in 1 .. n : s[i] = t
      OBVIOUS
    <2>. QED
      BY <1>1, <2>1 DEF Surjection
  <1>4. ExistsBijection(1 .. n, R)
    BY <1>2, <1>3 DEF Bijection, ExistsBijection
  <1>5. IsFiniteSet(1 .. n) /\ Cardinality(1 .. n) = n
    <2>. HIDE DEF n
    <2>. QED
      BY <1>1, FS_Interval
  <1>. HIDE DEF n, R
  <1>6. IsFiniteSet(R) /\ Cardinality(R) = n
    BY <1>4, <1>5, FS_Bijection
  <1>. QED
    BY <1>6 DEF n, R

\* The list s without its entry f.
Without(s, f) == SubSeq(s, 1, f - 1) \o SubSeq(s, f + 1, Len(s))

(* What is left of a list when one entry is unlinked.                      *)
LEMMA WithoutEntry ==
  ASSUME NEW S, NEW s \in Seq(S), NEW f \in 1 .. Len(s), NEW r,
         r = Without(s, f)
  PROVE  /\ r \in Seq(S)
         /\ Len(r) = Len(s) - 1
         /\ \A i \in 1 .. Len(r) : r[i] = IF i < f THEN s[i] ELSE s[i + 1]
  <1>. DEFINE a == SubSeq(s, 1, f - 1)
              b == SubSeq(s, f + 1, Len(s))
              n == Len(s)
  <1>1. n \in Nat /\ f \in Nat /\ f >= 1 /\ f <= n
    OBVIOUS
  <1>2. /\ a \in Seq(S) /\ Len(a) = f - 1
        /\ \A i \in 1 .. f - 1 : a[i] = s[i]
    BY <1>1
  <1>3. /\ b \in Seq(S) /\ Len(b) = n - f
        /\ \A i \in 1 .. n - f : b[i] = s[f + i]
    <2>1. \A i \in f + 1 .. n : s[i] \in S
      BY <1>1
    <2>2. b = [i \in 1 .. n - f |-> s[f + i]]
      BY <1>1, <2>1
    <2>. QED
      BY <1>1, <2>1, <2>2
  <1>. HIDE DEF a, b, n
  <1>4. r = a \o b
    BY DEF a, b, Without
  <1>5. r \in Seq(S)
    BY <1>2, <1>3, <1>4, ConcatProperties
  <1>6. Len(r) = Len(a) + Len(b)
    BY <1>2, <1>3, <1>4, ConcatProperties
  <1>. DEFINE la == Len(a)
              lb == Len(b)
  <1>7. /\ la = f - 1 /\ lb = n - f /\ Len(r) = la + lb
        /\ \A i \in 1 .. la + lb : r[i] = IF i <= la THEN a[i] ELSE b[i - la]
    <2>1. \A i \in 1 .. la + lb : r[i] = IF i <= la THEN a[i] ELSE b[i - la]
      <3>1. a \in Seq(S) /\ b \in Seq(S)
        BY <1>2, <1>3
      <3>2. \A i \in 1 .. Len(a) + Len(b) :
              (a \o b)[i] = IF i <= Len(a) THEN a[i] ELSE b[i - Len(a)]
        BY <3>1, ConcatProperties
      <3>. QED
        BY <1>4, <3>2
    <2>. QED
      BY <1>2, <1>3, <1>6, <2>1
  <1>. HIDE DEF la, lb
  <1>8. Len(r) = n - 1 /\ la + lb = n - 1
    <2>1. la + lb = n - 1
      <3>1. la = f - 1 /\ lb = n - f
        BY <1>7
      <3>. QED
        BY <1>1, <3>1
    <2>. QED
      BY <1>7, <2>1
  <1>9. ASSUME NEW i \in 1 .. n - 1
        PROVE  r[i] = IF i < f THEN s[i] ELSE s[i + 1]
    <2>1. CASE i < f
      <3>1. i \in 1 .. f - 1 /\ i <= la /\ i \in 1 .. la + lb
        BY <1>1, <1>7, <1>8, <2>1
      <3>. QED
        BY <1>2, <1>7, <2>1, <3>1
    <2>2. CASE ~(i < f)
      <3>1. /\ i \in 1 .. la + lb /\ ~(i <= la)
            /\ i - la \in 1 .. n - f /\ f + (i - la) = i + 1
        BY <1>1, <1>7, <1>8, <2>2
      <3>. QED
        BY <1>3, <1>7, <2>2, <3>1
    <2>. QED
      BY <2>1, <2>2
  <1>. QED
    BY <1>5, <1>8, <1>9 DEF n

\* The entries of r are those of s but for entry f, each once.
Others(r, s, f) ==
    /\ \A i \in 1 .. Len(r) : \E k \in 1 .. Len(s) : k # f /\ r[i] = s[k]
    /\ \A k \in 1 .. Len(s) : k # f => \E i \in 1 .. Len(r) : r[i] = s[k]
    /\ \A i, j \in 1 .. Len(r) : i # j =>
          \E k, l \in 1 .. Len(s) : k # l /\ r[i] = s[k] /\ r[j] = s[l]

(* Unlinking entry f of s keeps the other entries, each once.              *)
LEMMA OthersStay ==
  ASSUME NEW S, NEW s \in Seq(S), NEW f \in 1 .. Len(s), NEW r,
         r = Without(s, f)
  PROVE  Others(r, s, f)
  <1>. DEFINE n == Len(s)
  <1>1. n \in Nat /\ f \in 1 .. n
    OBVIOUS
  <1>2. Len(r) = n - 1
    BY WithoutEntry
  <1>3. \A i \in 1 .. Len(r) : r[i] = IF i < f THEN s[i] ELSE s[i + 1]
    BY WithoutEntry
  <1>. HIDE DEF n
  \* Where an entry of r was in s, and where one of s is in r.
  <1>. DEFINE old(i) == IF i < f THEN i ELSE i + 1
              new(k) == IF k < f THEN k ELSE k - 1
  <1>4. \A i \in 1 .. Len(r) : old(i) \in 1 .. n /\ old(i) # f /\ r[i] = s[old(i)]
    <2>1. TAKE i \in 1 .. Len(r)
    <2>2. i \in 1 .. n - 1
      BY <1>2
    <2>3. old(i) \in 1 .. n /\ old(i) # f
      BY <1>1, <2>2
    <2>. QED
      BY <1>3, <2>3
  <1>5. \A k \in 1 .. n : k # f => new(k) \in 1 .. Len(r) /\ r[new(k)] = s[k]
    <2>1. SUFFICES ASSUME NEW k \in 1 .. n, k # f
                   PROVE  new(k) \in 1 .. Len(r) /\ r[new(k)] = s[k]
      OBVIOUS
    <2>2. new(k) \in 1 .. n - 1
      BY <1>1, <2>1
    <2>3. new(k) \in 1 .. Len(r)
      BY <1>2, <2>2
    <2>4. r[new(k)] = IF new(k) < f THEN s[new(k)] ELSE s[new(k) + 1]
      BY <1>3, <2>3
    <2>5. CASE k < f
      BY <2>3, <2>4, <2>5
    <2>6. CASE ~(k < f)
      <3>1. ~(new(k) < f) /\ new(k) + 1 = k
        BY <1>1, <2>1, <2>6
      <3>. QED
        BY <2>3, <2>4, <3>1
    <2>. QED
      BY <2>5, <2>6
  <1>6. \A i, j \in 1 .. Len(r) : i # j => old(i) # old(j)
    BY <1>1
  <1>. HIDE DEF old, new
  <1>7. \A i \in 1 .. Len(r) : \E k \in 1 .. n : k # f /\ r[i] = s[k]
    BY <1>4
  <1>8. \A k \in 1 .. n : k # f => \E i \in 1 .. Len(r) : r[i] = s[k]
    BY <1>5
  <1>9. \A i, j \in 1 .. Len(r) : i # j =>
          \E k, l \in 1 .. n : k # l /\ r[i] = s[k] /\ r[j] = s[l]
    BY <1>4, <1>6
  <1>. QED
    BY <1>7, <1>8, <1>9 DEF n, Others

(***************************************************************************)
(* Loops that add up: f[i] is what the first i of n passes have added, and *)
(* p[i] what pass i adds.                                                  *)
(***************************************************************************)
IsSum(f, p, n) ==
    /\ f[0] = 0
    /\ \A i \in 0 .. n : f[i] \in Nat
    /\ \A i \in 1 .. n : f[i] = f[i - 1] + p[i]

(* Every loop has its partial sums.                                        *)
LEMMA SumExists ==
  ASSUME NEW n \in Nat, NEW p, \A i \in 1 .. n : p[i] \in Nat
  PROVE  \E f : f = [i \in 0 .. n |-> IF i = 0 THEN 0 ELSE f[i - 1] + p[i]]
                /\ \A i \in 0 .. n : f[i] \in Nat
  <1>. DEFINE Good(f, m) ==
                /\ f = [i \in 0 .. m |-> IF i = 0 THEN 0 ELSE f[i - 1] + p[i]]
                /\ \A i \in 0 .. m : f[i] \in Nat
              T == {m \in Nat : m <= n => \E f : Good(f, m)}
  <1>1. 0 \in T
    <2>1. Good([i \in 0 .. 0 |-> 0], 0)
      OBVIOUS
    <2>. QED
      BY <2>1
  <1>2. ASSUME NEW m \in T \cap Nat PROVE m + 1 \in T
    <2>1. SUFFICES ASSUME m + 1 <= n PROVE \E f : Good(f, m + 1)
      OBVIOUS
    <2>2. PICK f : Good(f, m)
      BY <2>1
    <2>. DEFINE g == [i \in 0 .. m + 1 |-> IF i = m + 1 THEN f[m] + p[m + 1] ELSE f[i]]
    <2>3. \A i \in 0 .. m : g[i] = f[i]
      OBVIOUS
    <2>4. g[m + 1] = g[m] + p[m + 1]
      OBVIOUS
    <2>5. \A i \in 0 .. m : f[i] \in Nat
      BY <2>2
    <2>6. p[m + 1] \in Nat /\ f[m] \in Nat
      BY <2>1, <2>5
    <2>7. \A i \in 0 .. m + 1 : g[i] \in Nat
      BY <2>5, <2>6
    <2>8. \A i \in 0 .. m : f[i] = IF i = 0 THEN 0 ELSE f[i - 1] + p[i]
      BY <2>2
    <2>9. \A i \in 0 .. m + 1 : g[i] = IF i = 0 THEN 0 ELSE g[i - 1] + p[i]
      <3>1. TAKE i \in 0 .. m + 1
      <3>2. CASE i = m + 1
        BY <2>4, <3>2
      <3>3. CASE i = 0
        BY <2>3, <2>8, <3>3
      <3>4. CASE i \in 1 .. m
        <4>1. i \in 0 .. m /\ i - 1 \in 0 .. m /\ i # 0
          BY <3>4
        <4>2. f[i] = f[i - 1] + p[i]
          BY <2>8, <4>1
        <4>. HIDE DEF g
        <4>. QED
          BY <2>3, <4>1, <4>2
      <3>. QED
        BY <3>1, <3>2, <3>3, <3>4
    <2>10. g = [i \in 0 .. m + 1 |-> g[i]]
      OBVIOUS
    <2>. HIDE DEF g
    <2>11. g = [i \in 0 .. m + 1 |-> IF i = 0 THEN 0 ELSE g[i - 1] + p[i]]
      BY <2>9, <2>10
    <2>. QED
      BY <2>7, <2>11
  <1>. HIDE DEF T
  <1>3. Nat \subseteq T
    BY <1>1, <1>2, NatSetInduction
  <1>4. n \in T
    BY <1>3
  <1>. QED
    BY <1>4 DEF T

(* Loops that add the same come to the same.                               *)
LEMMA SumsAgree ==
  ASSUME NEW n \in Nat, NEW f, NEW p, NEW g, NEW q,
         IsSum(f, p, n), IsSum(g, q, n),
         \A i \in 1 .. n : q[i] = p[i]
  PROVE  g[n] = f[n]
  <1>. DEFINE T == {m \in Nat : m <= n => g[m] = f[m]}
  <1>1. 0 \in T
    BY DEF IsSum
  <1>2. ASSUME NEW m \in T \cap Nat PROVE m + 1 \in T
    <2>1. SUFFICES ASSUME m + 1 <= n PROVE g[m + 1] = f[m + 1]
      OBVIOUS
    <2>2. m \in 0 .. n /\ m + 1 \in 1 .. n /\ (m + 1) - 1 = m
      BY <2>1
    <2>. QED
      BY <2>2 DEF IsSum
  <1>. HIDE DEF T
  <1>3. Nat \subseteq T
    BY <1>1, <1>2, NatSetInduction
  <1>. QED
    BY <1>3 DEF T

\* Two loops that add the same but for pass j.
DifferAt(j, f, p, g, q, n) ==
    /\ n \in Nat /\ j \in 1 .. n
    /\ IsSum(f, p, n) /\ IsSum(g, q, n)
    /\ \A i \in 1 .. n : p[i] \in Nat
    /\ q[j] \in Nat
    /\ \A i \in 1 .. n : i # j => q[i] = p[i]

(* They differ by what they differ there.                                  *)
LEMMA SumsDiffer ==
  ASSUME NEW j, NEW f, NEW p, NEW g, NEW q, NEW n, DifferAt(j, f, p, g, q, n)
  PROVE  g[n] = f[n] + (q[j] - p[j])
  <1>. /\ n \in Nat /\ j \in 1 .. n
       /\ IsSum(f, p, n) /\ IsSum(g, q, n)
       /\ \A i \in 1 .. n : p[i] \in Nat
       /\ q[j] \in Nat
       /\ \A i \in 1 .. n : i # j => q[i] = p[i]
    BY DEF DifferAt
  <1>. DEFINE T == {m \in Nat : m <= n =>
                       g[m] = f[m] + (IF m >= j THEN q[j] - p[j] ELSE 0)}
  <1>1. 0 \in T
    BY DEF IsSum
  <1>2. ASSUME NEW m \in T \cap Nat PROVE m + 1 \in T
    <2>1. SUFFICES ASSUME m + 1 <= n
                   PROVE  g[m + 1] = f[m + 1] + (IF m + 1 >= j THEN q[j] - p[j] ELSE 0)
      OBVIOUS
    <2>2. m \in 0 .. n /\ m + 1 \in 1 .. n /\ m + 1 \in 0 .. n /\ (m + 1) - 1 = m
      BY <2>1
    <2>3. g[m + 1] = g[m] + q[m + 1] /\ f[m + 1] = f[m] + p[m + 1]
      BY <2>2 DEF IsSum
    <2>4. g[m] = f[m] + (IF m >= j THEN q[j] - p[j] ELSE 0)
      BY <2>2
    <2>5. g[m] \in Nat /\ f[m] \in Nat /\ g[m + 1] \in Nat /\ f[m + 1] \in Nat
      BY <2>2 DEF IsSum
    <2>6. CASE m + 1 = j
      BY <2>3, <2>4, <2>5, <2>6
    <2>7. CASE m + 1 # j
      <3>1. q[m + 1] = p[m + 1] /\ p[m + 1] \in Nat
        BY <2>2, <2>7
      <3>2. m >= j <=> m + 1 >= j
        BY <2>7
      <3>. QED
        BY <2>3, <2>4, <2>5, <3>1, <3>2
    <2>. QED
      BY <2>6, <2>7
  <1>. HIDE DEF T
  <1>3. Nat \subseteq T
    BY <1>1, <1>2, NatSetInduction
  <1>. QED
    BY <1>3 DEF T

(* No pass adds more than the loop does in the end.                        *)
LEMMA SumBounds ==
  ASSUME NEW n \in Nat, NEW f, NEW p, IsSum(f, p, n),
         \A i \in 1 .. n : p[i] \in Nat
  PROVE  \A i \in 1 .. n : p[i] <= f[n]
  <1>. DEFINE T == {m \in Nat : m <= n => \A i \in 1 .. m : p[i] <= f[m]}
  <1>1. 0 \in T
    OBVIOUS
  <1>2. ASSUME NEW m \in T \cap Nat PROVE m + 1 \in T
    <2>1. SUFFICES ASSUME m + 1 <= n, NEW i \in 1 .. m + 1 PROVE p[i] <= f[m + 1]
      OBVIOUS
    <2>2. m \in 0 .. n /\ m + 1 \in 1 .. n /\ (m + 1) - 1 = m
      BY <2>1
    <2>3. f[m + 1] = f[m] + p[m + 1] /\ f[m] \in Nat /\ p[m + 1] \in Nat
      BY <2>2 DEF IsSum
    <2>4. CASE i = m + 1
      BY <2>3, <2>4
    <2>5. CASE i \in 1 .. m
      <3>1. p[i] <= f[m] /\ p[i] \in Nat
        BY <2>1, <2>5
      <3>. QED
        BY <2>3, <3>1
    <2>. QED
      BY <2>1, <2>4, <2>5
  <1>. HIDE DEF T
  <1>3. Nat \subseteq T
    BY <1>1, <1>2, NatSetInduction
  <1>. QED
    BY <1>3 DEF T

(* A loop that ends above 0 has a pass that adds something.                *)
LEMMA SumPositive ==
  ASSUME NEW n \in Nat, NEW f, NEW p, IsSum(f, p, n),
         \A i \in 1 .. n : p[i] \in Nat, f[n] > 0
  PROVE  \E i \in 1 .. n : p[i] > 0
  <1>1. SUFFICES ASSUME \A i \in 1 .. n : p[i] = 0 PROVE FALSE
    OBVIOUS
  <1>. DEFINE T == {m \in Nat : m <= n => f[m] = 0}
  <1>2. 0 \in T
    BY DEF IsSum
  <1>3. ASSUME NEW m \in T \cap Nat PROVE m + 1 \in T
    <2>1. SUFFICES ASSUME m + 1 <= n PROVE f[m + 1] = 0
      OBVIOUS
    <2>2. m \in 0 .. n /\ m + 1 \in 1 .. n /\ (m + 1) - 1 = m
      BY <2>1
    <2>. QED
      BY <1>1, <2>2 DEF IsSum
  <1>. HIDE DEF T
  <1>4. Nat \subseteq T
    BY <1>2, <1>3, NatSetInduction
  <1>. QED
    BY <1>4 DEF T

(* The entries of two sequences, one behind the other.                     *)
LEMMA JoinedEntries ==
  ASSUME NEW S, NEW s \in Seq(S), NEW t \in Seq(S)
  PROVE  /\ s \o t \in Seq(S) /\ Len(s \o t) = Len(s) + Len(t)
         /\ \A i \in 1 .. Len(s) : (s \o t)[i] = s[i]
         /\ \A i \in 1 .. Len(t) : (s \o t)[Len(s) + i] = t[i]
  <1>1. s \o t \in Seq(S) /\ Len(s \o t) = Len(s) + Len(t)
    OBVIOUS
  <1>2. ASSUME NEW i \in 1 .. Len(s) PROVE (s \o t)[i] = s[i]
    OBVIOUS
  <1>3. ASSUME NEW i \in 1 .. Len(t) PROVE (s \o t)[Len(s) + i] = t[i]
    OBVIOUS
  <1>. QED
    BY <1>1, <1>2, <1>3

(* The entries of a sequence from the one behind the k-th on.              *)
LEMMA RestEntries ==
  ASSUME NEW S, NEW s \in Seq(S), NEW k \in 0 .. Len(s)
  PROVE  /\ SubSeq(s, k + 1, Len(s)) \in Seq(S)
         /\ Len(SubSeq(s, k + 1, Len(s))) = Len(s) - k
         /\ \A i \in 1 .. Len(s) - k : SubSeq(s, k + 1, Len(s))[i] = s[k + i]
  <1>1. Len(s) \in Nat /\ k + 1 \in Int /\ k \in Nat
    OBVIOUS
  <1>2. \A i \in k + 1 .. Len(s) : s[i] \in S
    BY <1>1
  <1>3. /\ SubSeq(s, k + 1, Len(s)) \in Seq(S)
        /\ Len(SubSeq(s, k + 1, Len(s)))
              = IF k + 1 <= Len(s) THEN Len(s) - (k + 1) + 1 ELSE 0
        /\ \A i \in 1 .. Len(s) - (k + 1) + 1 :
              SubSeq(s, k + 1, Len(s))[i] = s[(k + 1) + i - 1]
    BY <1>1, <1>2, SubSeqProperties
  <1>4. \A i \in 1 .. Len(s) - k : i \in 1 .. Len(s) - (k + 1) + 1 /\ (k + 1) + i - 1 = k + i
    BY <1>1
  <1>5. (IF k + 1 <= Len(s) THEN Len(s) - (k + 1) + 1 ELSE 0) = Len(s) - k
    BY <1>1
  <1>6. ASSUME NEW i \in 1 .. Len(s) - k
        PROVE  SubSeq(s, k + 1, Len(s))[i] = s[k + i]
    BY <1>3, <1>4
  <1>. QED
    BY <1>3, <1>5, <1>6
=============================================================================
