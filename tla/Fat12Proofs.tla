---------------------------- MODULE Fat12Proofs ----------------------------
(***************************************************************************)
(* Proofs about kernel/fat12.c, for disks of every size: the directories   *)
(* form a tree, no cluster is in two chains or lost, and each open handle  *)
(* is on the file of its path.  From the FAT up: chains, slots of          *)
(* directories, the tree, paths, handles, and the calls one by one.        *)
(***************************************************************************)
EXTENDS Fat12Crash, FiniteSetTheorems, TLAPS

-----------------------------------------------------------------------------
(***************************************************************************)
(* Numbers and recursive definitions.                                      *)
(***************************************************************************)
\* A set of numbers has a smallest one.
LEMMA MinOf ==
  ASSUME NEW S \in SUBSET Nat, NEW a \in S
  PROVE  Min(S) \in S /\ \A y \in S : Min(S) <= y
<1>1. PICK x \in S : \A y \in S : ~(<<y, x>> \in OpToRel(<, Nat))
  BY NatLessThanWellFounded, WFMin
<1>2. ASSUME NEW y \in S PROVE x <= y
  <2>1. ~(y < x)
    <3>1. ASSUME y < x PROVE <<y, x>> \in OpToRel(<, Nat)
      BY <3>1 DEF OpToRel
    <3> QED BY <1>1, <3>1
  <2> QED BY <2>1
<1>3. \E z \in S : \A y \in S : z <= y
  BY <1>2
<1> QED BY <1>3 DEF Min

\* Induction, for a set of numbers.
LEMMA AllNumbers ==
  ASSUME NEW X, 0 \in X, \A n \in Nat : n \in X => n + 1 \in X
  PROVE  \A n \in Nat : n \in X
<1> DEFINE S == {n \in Nat : n \notin X}
<1> SUFFICES ASSUME NEW n \in Nat, n \notin X PROVE FALSE
  OBVIOUS
<1>1. n \in S /\ S \in SUBSET Nat
  OBVIOUS
<1>2. Min(S) \in S /\ \A y \in S : Min(S) <= y
  BY <1>1, MinOf
<1> DEFINE m == Min(S)
<1> HIDE DEF m
<1>3. m \in Nat /\ m \notin X /\ \A y \in Nat : y \notin X => m <= y
  BY <1>2 DEF m
<1>4. m # 0 /\ m - 1 \in Nat
  BY <1>3
<1>5. m - 1 \in X
  BY <1>3, <1>4
<1>6. (m - 1) + 1 \in X
  BY <1>4, <1>5
<1> QED BY <1>3, <1>6

\* w is what comes of a when it is changed again and again, by g[i] in step i.
Runs(w, S, g, a) == w \in [Nat -> S] /\ w[0] = a /\ \A i \in Nat : w[i + 1] = g[i][w[i]]

\* There is always such a sequence.
LEMMA Iterates ==
  ASSUME NEW S, NEW g, g \in [Nat -> [S -> S]], NEW a, a \in S
  PROVE  \E w : Runs(w, S, g, a)
<1> DEFINE A(n) == {w \in [0 .. n -> S] : w[0] = a /\ \A i \in 0 .. n - 1 : w[i + 1] = g[i][w[i]]}
<1>1. \A n \in Nat : \E w : w \in A(n)
  <2> DEFINE X == {n \in Nat : \E w : w \in A(n)}
  <2>1. 0 \in X
    <3>1. [i \in 0 .. 0 |-> a] \in A(0)
      OBVIOUS
    <3> QED BY <3>1
  <2>2. ASSUME NEW n \in Nat, n \in X PROVE n + 1 \in X
    <3>1. PICK w : w \in A(n)
      BY <2>2
    <3> DEFINE v == [i \in 0 .. n + 1 |-> IF i <= n THEN w[i] ELSE g[n][w[n]]]
    <3>2. \A i \in 0 .. n : w[i] \in S
      BY <3>1
    <3>3. g[n][w[n]] \in S
      BY <3>2
    <3>4. v \in [0 .. n + 1 -> S]
      BY <3>2, <3>3
    <3>5. v[0] = a
      BY <3>1
    <3>6. ASSUME NEW i \in 0 .. (n + 1) - 1 PROVE v[i + 1] = g[i][v[i]]
      <4>1. CASE i = n
        <5>1. i <= n /\ ~(i + 1 <= n) /\ i + 1 \in 0 .. n + 1 /\ i \in 0 .. n + 1
          BY <4>1
        <5>2. v[i + 1] = g[n][w[n]] /\ v[i] = w[i]
          BY <5>1
        <5> QED BY <4>1, <5>2
      <4>2. CASE i < n
        <5>1. i \in 0 .. n - 1 /\ i <= n /\ i + 1 <= n /\ i \in 0 .. n + 1 /\ i + 1 \in 0 .. n + 1
          BY <4>2
        <5>2. w[i + 1] = g[i][w[i]]
          BY <3>1, <5>1
        <5> QED BY <5>1, <5>2
      <4> QED BY <4>1, <4>2
    <3>7. v \in A(n + 1)
      BY <3>4, <3>5, <3>6
    <3> HIDE DEF A, v
    <3> QED BY <3>7
  <2> HIDE DEF X
  <2>3. \A n \in Nat : n \in X
    BY <2>1, <2>2, AllNumbers
  <2> QED BY <2>3 DEF X
<1>2. ASSUME NEW m \in Nat, NEW n \in Nat, m <= n, NEW v \in A(m), NEW w \in A(n)
      PROVE  v[m] = w[m]
  <2> DEFINE X == {k \in Nat : k <= m => v[k] = w[k]}
  <2>1. 0 \in X
    BY <1>2
  <2>2. ASSUME NEW k \in Nat, k \in X PROVE k + 1 \in X
    <3>1. CASE k + 1 <= m
      <4>1. k \in 0 .. m - 1 /\ k \in 0 .. n - 1 /\ v[k] = w[k]
        BY <1>2, <2>2, <3>1
      <4>2. v[k + 1] = g[k][v[k]] /\ w[k + 1] = g[k][w[k]]
        BY <4>1
      <4> QED BY <4>1, <4>2
    <3> QED BY <3>1
  <2> HIDE DEF X
  <2>3. m \in X
    BY <2>1, <2>2, AllNumbers
  <2> QED BY <2>3 DEF X
<1> DEFINE pick(n) == CHOOSE w : w \in A(n)
<1>3. \A n \in Nat : pick(n) \in A(n)
  BY <1>1
<1> DEFINE w == [n \in Nat |-> pick(n)[n]]
<1> HIDE DEF pick
<1>4. w \in [Nat -> S]
  <2>1. ASSUME NEW n \in Nat PROVE pick(n)[n] \in S
    <3>1. pick(n) \in [0 .. n -> S] /\ n \in 0 .. n
      BY <1>3
    <3> QED BY <3>1
  <2> QED BY <2>1
<1>5. w[0] = a
  BY <1>3
<1>6. ASSUME NEW i \in Nat PROVE w[i + 1] = g[i][w[i]]
  <2>1. pick(i) \in A(i) /\ pick(i + 1) \in A(i + 1) /\ i + 1 \in Nat
    BY <1>3
  <2>2. pick(i)[i] = pick(i + 1)[i]
    <3> HIDE DEF A
    <3>1. i <= i + 1
      OBVIOUS
    <3> QED BY <1>2, <2>1, <3>1
  <2>3. pick(i + 1)[i + 1] = g[i][pick(i + 1)[i]]
    <3>1. i \in 0 .. (i + 1) - 1
      OBVIOUS
    <3> QED BY <2>1, <3>1
  <2> QED BY <2>1, <2>2, <2>3
<1> QED BY <1>4, <1>5, <1>6 DEF Runs

-----------------------------------------------------------------------------
(***************************************************************************)
(* Chains of the FAT.                                                      *)
(***************************************************************************)
FatValue == {Free, EndOfChain} \cup Cluster

\* A cluster in use that no link leads to: the first of a chain.
IsHead(fat, h) == h \in Cluster /\ fat[h] # Free /\ \A c \in Cluster : fat[c] # h

\* A cluster in use is in a chain that has a first cluster: no links go round in a ring.
InChain(fat, c) == \E h \in Cluster : IsHead(fat, h) /\ \E k \in Nat : Nth(fat, h, k) = c
AllInChains(fat) == \A c \in Cluster : fat[c] # Free => InChain(fat, c)

\* A FAT whose links are one to one, lead to clusters in use and go round in no ring.
SoundFat(fat) ==
  /\ fat \in [Cluster -> FatValue]
  /\ \A c \in Cluster : fat[c] \in Cluster => fat[fat[c]] # Free
  /\ \A b, c \in Cluster : fat[b] = fat[c] /\ fat[b] \in Cluster => b = c
  /\ AllInChains(fat)

\* The numbers of clusters and what is none.
LEMMA Numbers ==
  /\ Cluster \subseteq Nat \ {0, 1} /\ 0 \notin Cluster /\ Free \notin Cluster
  /\ EndOfChain \notin Cluster /\ None \notin Cluster /\ None \notin DirCluster
  /\ EndOfChain \in Nat \ {0, 1} /\ EndOfChain # Free /\ LastCluster \in Nat /\ LastCluster >= 2
  /\ ClusterSlots \in Nat \ {0, 1, 2} /\ RootEntries \in Nat \ {0} /\ ClusterBytes \in Nat \ {0}
BY FatAssumption DEF Cluster, Free, EndOfChain, None, DirCluster

\* How many clusters there are.
LEMMA ClusterCount == IsFiniteSet(Cluster) /\ Cardinality(Cluster) = LastCluster - 1
BY FS_Interval, Numbers DEF Cluster

\* Nth goes from cluster to cluster.
LEMMA NthSteps ==
  ASSUME NEW fat \in [Cluster -> FatValue], NEW c \in FatValue
  PROVE  /\ Nth(fat, c, 0) = c
         /\ \A k \in Nat : Nth(fat, c, k) \in FatValue
         /\ \A k \in Nat :
              Nth(fat, c, k + 1) = IF Nth(fat, c, k) \in Cluster THEN fat[Nth(fat, c, k)]
                                                                 ELSE EndOfChain
<1> DEFINE step(at) == IF at \in Cluster THEN fat[at] ELSE EndOfChain
           g == [i \in Nat |-> [at \in FatValue |-> step(at)]]
           Eq(v) == v = [i \in Nat |->
                           IF i = 0 THEN c
                           ELSE IF v[i - 1] \in Cluster THEN fat[v[i - 1]] ELSE EndOfChain]
           walk == CHOOSE v : Eq(v)
<1>1. \A at \in FatValue : step(at) \in FatValue
  BY DEF FatValue
<1>2. g \in [Nat -> [FatValue -> FatValue]]
  BY <1>1
<1>3. PICK w : Runs(w, FatValue, g, c)
  <2> HIDE DEF g
  <2> QED BY <1>2, Iterates
<1>4. \A i \in Nat : w[i + 1] = step(w[i])
  <2> TAKE i \in Nat
  <2>1. w[i] \in FatValue /\ w[i + 1] = g[i][w[i]]
    BY <1>3 DEF Runs
  <2> QED BY <2>1
<1>5. Eq(w)
  <2>1. \A i \in Nat : i # 0 => i - 1 \in Nat /\ (i - 1) + 1 = i
    OBVIOUS
  <2> QED BY <1>3, <1>4, <2>1 DEF Runs
<1>6. Eq(walk)
  <2> HIDE DEF Eq
  <2> QED BY <1>5
<1>7. \A k \in Nat : Nth(fat, c, k) = walk[k]
  BY DEF Nth
<1> HIDE DEF walk
<1>8. walk[0] = c /\ \A i \in Nat : walk[i + 1] = step(walk[i])
  BY <1>6
<1>9. \A k \in Nat : walk[k] \in FatValue
  <2> DEFINE X == {k \in Nat : walk[k] \in FatValue}
  <2>1. 0 \in X
    BY <1>8
  <2>2. ASSUME NEW n \in Nat, n \in X PROVE n + 1 \in X
    <3> HIDE DEF step
    <3>1. walk[n + 1] = step(walk[n]) /\ walk[n] \in FatValue
      BY <1>8, <2>2
    <3>2. walk[n + 1] \in FatValue
      BY <1>1, <3>1
    <3> QED BY <3>2
  <2> HIDE DEF X
  <2>3. \A n \in Nat : n \in X
    BY <2>1, <2>2, AllNumbers
  <2> QED BY <2>3 DEF X
<1> QED BY <1>7, <1>8, <1>9

\* The same, one step at a time.
LEMMA NthNext ==
  ASSUME NEW fat, fat \in [Cluster -> FatValue], NEW c, c \in FatValue, NEW k, k \in Nat,
         NEW at, Nth(fat, c, k) = at
  PROVE  /\ Nth(fat, c, k + 1) = IF at \in Cluster THEN fat[at] ELSE EndOfChain
         /\ at \in FatValue
BY NthSteps

\* Behind its last cluster there is none.
LEMMA ChainOver ==
  ASSUME NEW fat \in [Cluster -> FatValue], NEW c \in FatValue, NEW m \in Nat,
         Nth(fat, c, m) \notin Cluster \/ fat[Nth(fat, c, m)] \notin Cluster
  PROVE  \A k \in Nat : k > m => Nth(fat, c, k) \notin Cluster
<1> DEFINE X == {k \in Nat : Nth(fat, c, m + k + 1) \notin Cluster}
<1>1. 0 \in X
  <2>1. Nth(fat, c, m + 1) \notin Cluster
    BY NthSteps, Numbers
  <2>2. m + 0 + 1 = m + 1
    OBVIOUS
  <2> QED BY <2>1, <2>2
<1>2. ASSUME NEW n \in Nat, n \in X PROVE n + 1 \in X
  <2>1. m + n + 1 \in Nat
    OBVIOUS
  <2>2. Nth(fat, c, (m + n + 1) + 1) = EndOfChain
    BY <1>2, <2>1, NthSteps
  <2>3. m + (n + 1) + 1 = (m + n + 1) + 1
    OBVIOUS
  <2> QED BY <2>2, <2>3, Numbers
<1> HIDE DEF X
<1>3. \A n \in Nat : n \in X
  BY <1>1, <1>2, AllNumbers
<1> TAKE k \in Nat
<1>4. k > m => k - m - 1 \in Nat /\ m + (k - m - 1) + 1 = k
  OBVIOUS
<1>5. k > m => k - m - 1 \in X
  BY <1>3, <1>4
<1> QED BY <1>4, <1>5 DEF X

\* A chain has clusters up to some number; they are all in use.
LEMMA NthBefore ==
  ASSUME NEW fat, SoundFat(fat), NEW c \in Cluster, fat[c] # Free,
         NEW k \in Nat, Nth(fat, c, k) \in Cluster
  PROVE  \A j \in 0 .. k : Nth(fat, c, j) \in Cluster /\ fat[Nth(fat, c, j)] # Free
<1>0. fat \in [Cluster -> FatValue] /\ c \in FatValue
  BY DEF SoundFat, FatValue
<1>1. ASSUME NEW j \in Nat, Nth(fat, c, j + 1) \in Cluster PROVE Nth(fat, c, j) \in Cluster
  BY <1>0, <1>1, NthSteps, Numbers
<1>2. \A j \in 0 .. k : Nth(fat, c, j) \in Cluster
  <2> DEFINE X == {n \in Nat : n <= k => Nth(fat, c, k - n) \in Cluster}
  <2>1. 0 \in X
    OBVIOUS
  <2>2. ASSUME NEW n \in Nat, n \in X PROVE n + 1 \in X
    <3> SUFFICES ASSUME n + 1 <= k PROVE Nth(fat, c, k - (n + 1)) \in Cluster
      OBVIOUS
    <3>1. k - (n + 1) \in Nat /\ (k - (n + 1)) + 1 = k - n /\ n <= k
      OBVIOUS
    <3>2. Nth(fat, c, (k - (n + 1)) + 1) \in Cluster
      BY <2>2, <3>1
    <3> QED BY <1>1, <3>1, <3>2
  <2> HIDE DEF X
  <2>3. \A n \in Nat : n \in X
    BY <2>1, <2>2, AllNumbers
  <2> TAKE j \in 0 .. k
  <2>4. k - j \in Nat /\ k - j <= k /\ k - (k - j) = j
    OBVIOUS
  <2>5. k - j \in X
    BY <2>3, <2>4
  <2> QED BY <2>4, <2>5 DEF X
<1>3. \A j \in 0 .. k : fat[Nth(fat, c, j)] # Free
  <2> DEFINE X == {n \in Nat : n <= k => fat[Nth(fat, c, n)] # Free}
  <2>1. 0 \in X
    BY <1>0, NthSteps
  <2>2. ASSUME NEW n \in Nat, n \in X PROVE n + 1 \in X
    <3> SUFFICES ASSUME n + 1 <= k PROVE fat[Nth(fat, c, n + 1)] # Free
      OBVIOUS
    <3>1. n \in 0 .. k /\ n + 1 \in 0 .. k
      OBVIOUS
    <3>2. Nth(fat, c, n) \in Cluster /\ Nth(fat, c, n + 1) \in Cluster
      BY <1>2, <3>1
    <3>3. Nth(fat, c, n + 1) = fat[Nth(fat, c, n)]
      BY <1>0, <3>2, NthSteps
    <3> QED BY <3>2, <3>3 DEF SoundFat
  <2> HIDE DEF X
  <2>3. \A n \in Nat : n \in X
    BY <2>1, <2>2, AllNumbers
  <2> QED BY <2>3 DEF X
<1> QED BY <1>2, <1>3

\* A cluster is in one chain and at one place of it.
LEMMA OnePlace ==
  ASSUME NEW fat, SoundFat(fat), NEW g, NEW h, IsHead(fat, g), IsHead(fat, h),
         NEW j \in Nat, NEW k \in Nat, Nth(fat, g, j) = Nth(fat, h, k), Nth(fat, g, j) \in Cluster
  PROVE  g = h /\ j = k
<1>0. fat \in [Cluster -> FatValue] /\ g \in FatValue /\ h \in FatValue
  BY DEF SoundFat, FatValue, IsHead
<1> DEFINE X == {n \in Nat : \A m \in Nat : Nth(fat, g, n) = Nth(fat, h, m) /\ Nth(fat, g, n) \in Cluster
                                              => g = h /\ n = m}
<1>1. ASSUME NEW n \in Nat, NEW a \in FatValue, Nth(fat, a, n + 1) \in Cluster
      PROVE  /\ Nth(fat, a, n) \in Cluster
             /\ fat[Nth(fat, a, n)] = Nth(fat, a, n + 1)
  BY <1>0, <1>1, NthSteps, Numbers
<1>2. 0 \in X
  <2> SUFFICES ASSUME NEW m \in Nat, Nth(fat, g, 0) = Nth(fat, h, m), Nth(fat, g, 0) \in Cluster
               PROVE  g = h /\ 0 = m
    OBVIOUS
  <2>1. Nth(fat, g, 0) = g /\ Nth(fat, h, 0) = h
    BY <1>0, NthSteps
  <2>2. m = 0
    <3> SUFFICES ASSUME m # 0 PROVE FALSE
      OBVIOUS
    <3>1. m - 1 \in Nat /\ (m - 1) + 1 = m
      OBVIOUS
    <3>2. Nth(fat, h, (m - 1) + 1) = g /\ g \in Cluster
      BY <2>1, <3>1
    <3>3. Nth(fat, h, m - 1) \in Cluster /\ fat[Nth(fat, h, m - 1)] = g
      BY <1>0, <1>1, <3>1, <3>2
    <3> QED BY <3>3 DEF IsHead
  <2> QED BY <2>1, <2>2
<1>3. ASSUME NEW n \in Nat, n \in X PROVE n + 1 \in X
  <2> SUFFICES ASSUME NEW m \in Nat, Nth(fat, g, n + 1) = Nth(fat, h, m), Nth(fat, g, n + 1) \in Cluster
               PROVE  g = h /\ n + 1 = m
    OBVIOUS
  <2>1. Nth(fat, g, n) \in Cluster /\ fat[Nth(fat, g, n)] = Nth(fat, g, n + 1)
    BY <1>0, <1>1
  <2>2. m # 0
    <3>1. Nth(fat, h, 0) = h
      BY <1>0, NthSteps
    <3> QED BY <2>1, <3>1 DEF IsHead
  <2>3. m - 1 \in Nat /\ (m - 1) + 1 = m
    BY <2>2
  <2>4. Nth(fat, h, m - 1) \in Cluster /\ fat[Nth(fat, h, m - 1)] = Nth(fat, h, m)
    BY <1>0, <1>1, <2>3
  <2>5. Nth(fat, g, n) = Nth(fat, h, m - 1)
    BY <2>1, <2>4 DEF SoundFat
  <2>6. g = h /\ n = m - 1
    BY <1>3, <2>1, <2>3, <2>5
  <2> QED BY <2>3, <2>6
<1> HIDE DEF X
<1>4. j \in X
  BY <1>2, <1>3, AllNumbers
<1> QED BY <1>4 DEF X

\* The chain of a head: as many clusters as its size says, then none.
LEMMA ChainLength ==
  ASSUME NEW fat, SoundFat(fat), NEW h, IsHead(fat, h)
  PROVE  \E n \in 1 .. LastCluster - 1 :
           /\ n = Cardinality(Chain(fat, h))
           /\ \A k \in Nat : Nth(fat, h, k) \in Cluster <=> k < n
           /\ Chain(fat, h) = {Nth(fat, h, k) : k \in 0 .. n - 1}
<1>0. fat \in [Cluster -> FatValue] /\ h \in FatValue /\ h \in Cluster /\ fat[h] # Free
  BY DEF SoundFat, FatValue, IsHead
<1>1. \E k \in 0 .. LastCluster - 1 : Nth(fat, h, k) \notin Cluster
  <2> SUFFICES ASSUME \A k \in 0 .. LastCluster - 1 : Nth(fat, h, k) \in Cluster PROVE FALSE
    OBVIOUS
  <2> DEFINE f == [k \in 0 .. LastCluster - 1 |-> Nth(fat, h, k)]
  <2>1. f \in [0 .. LastCluster - 1 -> Cluster]
    OBVIOUS
  <2>2. IsFiniteSet(0 .. LastCluster - 1) /\ Cardinality(0 .. LastCluster - 1) = LastCluster
    BY FS_Interval, Numbers, SMTT(30)
  <2>3. IsFiniteSet(Cluster) /\ Cardinality(Cluster) = LastCluster - 1
    BY ClusterCount
  <2>4. Cardinality(Cluster) < Cardinality(0 .. LastCluster - 1)
    BY <2>2, <2>3, Numbers
  <2>5. PICK x \in 0 .. LastCluster - 1, y \in 0 .. LastCluster - 1 : x # y /\ f[x] = f[y]
    <3> HIDE DEF f
    <3> QED BY <2>1, <2>2, <2>3, <2>4, FS_PigeonHole
  <2>6. x \in Nat /\ y \in Nat /\ Nth(fat, h, x) = Nth(fat, h, y) /\ Nth(fat, h, x) \in Cluster
    BY <2>5, Numbers
  <2> QED BY <2>5, <2>6, OnePlace
<1> DEFINE S == {k \in Nat : Nth(fat, h, k) \notin Cluster}
           n == Min(S)
<1>2. n \in S /\ \A y \in S : n <= y
  <2>1. S \in SUBSET Nat /\ \E k : k \in S
    BY <1>1, Numbers
  <2> HIDE DEF S
  <2> QED BY <2>1, MinOf
<1> HIDE DEF n
<1>3. n \in Nat /\ n # 0 /\ n <= LastCluster - 1
  <2>1. Nth(fat, h, 0) = h
    BY <1>0, NthSteps
  <2> QED BY <1>0, <1>1, <1>2, <2>1, Numbers
<1>4. ASSUME NEW k \in Nat PROVE Nth(fat, h, k) \in Cluster <=> k < n
  <2>1. k < n => Nth(fat, h, k) \in Cluster
    BY <1>2, <1>3
  <2>2. ASSUME ~(k < n), Nth(fat, h, k) \in Cluster PROVE FALSE
    <3>1. n \in 0 .. k
      BY <1>3, <2>2
    <3> QED BY <1>0, <1>2, <2>2, <3>1, NthBefore
  <2> QED BY <2>1, <2>2
<1>5. Chain(fat, h) = {Nth(fat, h, k) : k \in 0 .. n - 1}
  <2>1. \A k \in 0 .. LastCluster : Nth(fat, h, k) \in Cluster => k \in 0 .. n - 1
    BY <1>3, <1>4
  <2>2. \A k \in 0 .. n - 1 : Nth(fat, h, k) \in Cluster /\ k \in 0 .. LastCluster
    BY <1>3, <1>4, Numbers
  <2> QED BY <2>1, <2>2 DEF Chain
<1>6. n = Cardinality(Chain(fat, h))
  <2> DEFINE f == [k \in 0 .. n - 1 |-> Nth(fat, h, k)]
  <2>1. f \in [0 .. n - 1 -> Chain(fat, h)] /\ \A c \in Chain(fat, h) : \E k \in 0 .. n - 1 : f[k] = c
    BY <1>5
  <2>2. ASSUME NEW x \in 0 .. n - 1, NEW y \in 0 .. n - 1, f[x] = f[y] PROVE x = y
    <3>1. x \in Nat /\ y \in Nat /\ Nth(fat, h, x) = Nth(fat, h, y) /\ Nth(fat, h, x) \in Cluster
      BY <1>3, <1>4, <2>2
    <3> QED BY <3>1, OnePlace
  <2> HIDE DEF f
  <2>3. f \in Bijection(0 .. n - 1, Chain(fat, h))
    <3>1. DOMAIN f = 0 .. n - 1
      BY <2>1
    <3>2. IsInjective(f)
      BY <2>2, <3>1 DEF IsInjective
    <3> QED BY <2>1, <3>2, Zenon DEF Bijection, Injection, Surjection
  <2>4. IsFiniteSet(0 .. n - 1) /\ Cardinality(0 .. n - 1) = n
    BY <1>3, FS_Interval
  <2>5. ExistsBijection(0 .. n - 1, Chain(fat, h))
    BY <2>3, Zenon DEF ExistsBijection
  <2>6. Cardinality(Chain(fat, h)) = Cardinality(0 .. n - 1)
    BY <2>4, <2>5, FS_Bijection
  <2> QED BY <2>4, <2>6
<1>7. n \in 1 .. LastCluster - 1
  BY <1>3, Numbers
<1> QED BY <1>4, <1>5, <1>6, <1>7

\* Both tables have the same chain at c.
SameChain(fat, fat2, c) == \A k \in Nat : Nth(fat2, c, k) = Nth(fat, c, k)

\* They have if they agree about its clusters.
LEMMA Agreeing ==
  ASSUME NEW fat \in [Cluster -> FatValue], NEW fat2 \in [Cluster -> FatValue], NEW c \in FatValue,
         \A k \in Nat : Nth(fat, c, k) \in Cluster => fat2[Nth(fat, c, k)] = fat[Nth(fat, c, k)]
  PROVE  SameChain(fat, fat2, c)
<1> DEFINE X == {k \in Nat : Nth(fat2, c, k) = Nth(fat, c, k)}
<1>1. 0 \in X
  <2>1. Nth(fat, c, 0) = c /\ Nth(fat2, c, 0) = c
    BY NthSteps
  <2> QED BY <2>1
<1>2. ASSUME NEW n \in Nat, n \in X PROVE n + 1 \in X
  <2>1. PICK at : at = Nth(fat, c, n)
    OBVIOUS
  <2>2. at = Nth(fat2, c, n)
    BY <1>2, <2>1
  <2>3. Nth(fat, c, n + 1) = IF at \in Cluster THEN fat[at] ELSE EndOfChain
    BY <2>1, NthNext
  <2>4. Nth(fat2, c, n + 1) = IF at \in Cluster THEN fat2[at] ELSE EndOfChain
    BY <2>2, NthNext
  <2>5. at \in Cluster => fat2[at] = fat[at]
    BY <2>1
  <2>6. Nth(fat2, c, n + 1) = Nth(fat, c, n + 1)
    BY <2>3, <2>4, <2>5
  <2> QED BY <2>6
<1> HIDE DEF X
<1>3. \A n \in Nat : n \in X
  BY <1>1, <1>2, AllNumbers
<1> QED BY <1>3 DEF X, SameChain

\* A chain of one cluster.
LEMMA OneCluster ==
  ASSUME NEW fat \in [Cluster -> FatValue], NEW c \in Cluster, fat[c] \notin Cluster
  PROVE  Nth(fat, c, 0) = c /\ \A k \in Nat : k # 0 => Nth(fat, c, k) \notin Cluster
<1>0. c \in FatValue
  BY DEF FatValue
<1>1. Nth(fat, c, 0) = c
  BY <1>0, NthSteps
<1>2. \A k \in Nat : k > 0 => Nth(fat, c, k) \notin Cluster
  BY <1>0, <1>1, ChainOver
<1> QED BY <1>1, <1>2

\* A free cluster becomes a chain of its own.
LEMMA Marked ==
  ASSUME NEW fat, SoundFat(fat), NEW new \in Cluster, fat[new] = Free,
         NEW fat2 \in [Cluster -> FatValue], fat2[new] = EndOfChain,
         \A c \in Cluster : c # new => fat2[c] = fat[c]
  PROVE  /\ SoundFat(fat2)
         /\ \A h : IsHead(fat2, h) <=> IsHead(fat, h) \/ h = new
         /\ \A h : IsHead(fat, h) => SameChain(fat, fat2, h)
         /\ \A k \in Nat : Nth(fat2, new, k) \in Cluster <=> k = 0
         /\ Nth(fat2, new, 0) = new
<1>0. fat \in [Cluster -> FatValue] /\ fat2 \in [Cluster -> FatValue] /\ fat2[new] = EndOfChain
  BY DEF SoundFat, FatValue
<1>1. \A c \in Cluster : c # new => fat2[c] = fat[c]
  BY <1>0
<1>2. \A c \in Cluster : fat[c] # new
  BY DEF SoundFat
<1>3. /\ \A c \in Cluster : fat2[c] \in Cluster => fat2[fat2[c]] # Free
     /\ \A b, c \in Cluster : fat2[b] = fat2[c] /\ fat2[b] \in Cluster => b = c
  BY <1>0, <1>1, <1>2, Numbers, ZenonT(40) DEF SoundFat
<1>4. \A h : IsHead(fat2, h) <=> IsHead(fat, h) \/ h = new
  BY <1>0, <1>1, <1>2, Numbers DEF IsHead
<1>5. ASSUME NEW h, IsHead(fat, h) PROVE SameChain(fat, fat2, h)
  <2>1. h \in FatValue /\ h \in Cluster /\ fat[h] # Free
    BY <1>5 DEF IsHead, FatValue
  <2>2. ASSUME NEW k \in Nat, Nth(fat, h, k) \in Cluster PROVE Nth(fat, h, k) # new
    <3>1. k \in 0 .. k
      OBVIOUS
    <3>2. fat[Nth(fat, h, k)] # Free
      BY <2>1, <2>2, <3>1, NthBefore
    <3> QED BY <3>2
  <2> QED BY <1>0, <1>1, <2>1, <2>2, Agreeing
<1>6. fat2[new] \notin Cluster
  BY <1>0, Numbers
<1>7. Nth(fat2, new, 0) = new /\ \A k \in Nat : Nth(fat2, new, k) \in Cluster <=> k = 0
  BY <1>0, <1>6, OneCluster
<1>8. ASSUME NEW c \in Cluster, fat2[c] # Free PROVE InChain(fat2, c)
  <2>1. CASE c = new
    BY <1>4, <1>7, <2>1 DEF InChain
  <2>2. CASE c # new
    <3>1. PICK h \in Cluster : IsHead(fat, h) /\ \E k \in Nat : Nth(fat, h, k) = c
      BY <1>1, <1>8, <2>2 DEF SoundFat, AllInChains, InChain
    <3>2. PICK k \in Nat : Nth(fat, h, k) = c
      BY <3>1
    <3>3. Nth(fat2, h, k) = c
      BY <1>5, <3>1, <3>2 DEF SameChain
    <3> QED BY <1>4, <3>1, <3>3 DEF InChain
  <2> QED BY <2>1, <2>2
<1>9. SoundFat(fat2)
  BY <1>0, <1>3, <1>8 DEF SoundFat, AllInChains
<1> QED BY <1>4, <1>5, <1>7, <1>9

\* A free cluster is linked to the end of a chain.
LEMMA Linked ==
  ASSUME NEW fat, SoundFat(fat), NEW h, IsHead(fat, h), NEW new \in Cluster, fat[new] = Free,
         NEW j \in Nat, NEW at, at = Nth(fat, h, j), at \in Cluster, fat[at] \notin Cluster,
         NEW fat2 \in [Cluster -> FatValue], fat2[at] = new, at # new => fat2[new] = EndOfChain,
         \A c \in Cluster : c # new /\ c # at => fat2[c] = fat[c]
  PROVE  /\ SoundFat(fat2)
         /\ \A g : IsHead(fat2, g) <=> IsHead(fat, g)
         /\ \A g : IsHead(fat, g) /\ g # h => SameChain(fat, fat2, g)
         /\ \A k \in 0 .. j : Nth(fat2, h, k) = Nth(fat, h, k)
         /\ Nth(fat2, h, j + 1) = new
         /\ \A k \in Nat : k > j + 1 => Nth(fat2, h, k) \notin Cluster
         /\ \A k \in Nat : k > j => Nth(fat, h, k) \notin Cluster
<1>0. fat \in [Cluster -> FatValue] /\ h \in FatValue /\ h \in Cluster /\ fat[h] # Free /\ new \in FatValue
  BY DEF SoundFat, FatValue, IsHead
<1>1. fat[at] # Free /\ at # new
  <2>1. j \in 0 .. j
    OBVIOUS
  <2> QED BY <1>0, <2>1, NthBefore
<1>2. fat2 \in [Cluster -> FatValue] /\ fat2[new] = EndOfChain /\ fat2[at] = new
      /\ \A c \in Cluster : c # new /\ c # at => fat2[c] = fat[c]
  BY <1>1
<1>3. \A c \in Cluster : fat[c] # new
  BY DEF SoundFat
<1>4. /\ \A c \in Cluster : fat2[c] \in Cluster => fat2[fat2[c]] # Free
     /\ \A b, c \in Cluster : fat2[b] = fat2[c] /\ fat2[b] \in Cluster => b = c
  <2>1. \A c \in Cluster : fat2[c] \in Cluster => fat2[fat2[c]] # Free
    BY <1>0, <1>1, <1>2, <1>3, Numbers DEF SoundFat
  <2>2. \A b, c \in Cluster : fat2[b] = fat2[c] /\ fat2[b] \in Cluster => b = c
    BY <1>0, <1>1, <1>2, <1>3, Numbers DEF SoundFat
  <2> QED BY <2>1, <2>2
<1>5. \A g : IsHead(fat2, g) <=> IsHead(fat, g)
  BY <1>0, <1>1, <1>2, <1>3, Numbers DEF IsHead
<1>6. ASSUME NEW g, IsHead(fat, g), g # h PROVE SameChain(fat, fat2, g)
  <2>1. g \in FatValue /\ g \in Cluster /\ fat[g] # Free
    BY <1>6 DEF IsHead, FatValue
  <2>2. ASSUME NEW k \in Nat, Nth(fat, g, k) \in Cluster
        PROVE  Nth(fat, g, k) # new /\ Nth(fat, g, k) # at
    <3>1. k \in 0 .. k
      OBVIOUS
    <3>2. fat[Nth(fat, g, k)] # Free
      BY <2>1, <2>2, <3>1, NthBefore
    <3> QED BY <1>6, <2>2, <3>2, OnePlace
  <2> QED BY <1>0, <1>2, <2>1, <2>2, Agreeing
<1>7. ASSUME NEW k \in 0 .. j PROVE Nth(fat, h, k) \in Cluster /\ Nth(fat, h, k) # new /\ (k # j => Nth(fat, h, k) # at)
  <2>1. Nth(fat, h, k) \in Cluster /\ fat[Nth(fat, h, k)] # Free
    BY <1>0, NthBefore
  <2>2. k \in Nat
    OBVIOUS
  <2> QED BY <2>1, <2>2, OnePlace
<1>8. \A k \in 0 .. j : Nth(fat2, h, k) = Nth(fat, h, k)
  <2> DEFINE X == {k \in Nat : k <= j => Nth(fat2, h, k) = Nth(fat, h, k)}
  <2>1. 0 \in X
    <3>1. Nth(fat, h, 0) = h /\ Nth(fat2, h, 0) = h
      BY <1>0, <1>2, NthSteps
    <3> QED BY <3>1
  <2>2. ASSUME NEW n \in Nat, n \in X PROVE n + 1 \in X
    <3> SUFFICES ASSUME n + 1 <= j PROVE Nth(fat2, h, n + 1) = Nth(fat, h, n + 1)
      OBVIOUS
    <3>1. n \in 0 .. j /\ n # j
      OBVIOUS
    <3>2. Nth(fat2, h, n) = Nth(fat, h, n)
      BY <2>2, <3>1
    <3>3. fat2[Nth(fat, h, n)] = fat[Nth(fat, h, n)]
      BY <1>2, <1>7, <3>1
    <3>4. PICK b : b = Nth(fat, h, n)
      OBVIOUS
    <3>5. Nth(fat2, h, n + 1) = IF b \in Cluster THEN fat2[b] ELSE EndOfChain
      BY <1>0, <1>2, <3>2, <3>4, NthNext
    <3>6. Nth(fat, h, n + 1) = IF b \in Cluster THEN fat[b] ELSE EndOfChain
      BY <1>0, <3>4, NthNext
    <3> QED BY <3>3, <3>4, <3>5, <3>6
  <2> HIDE DEF X
  <2>3. \A n \in Nat : n \in X
    BY <2>1, <2>2, AllNumbers
  <2>4. \A k \in 0 .. j : k \in Nat /\ k <= j
    OBVIOUS
  <2> QED BY <2>3, <2>4 DEF X
<1>9. Nth(fat2, h, j + 1) = new
  <2>1. Nth(fat2, h, j) = at
    <3>1. j \in 0 .. j
      OBVIOUS
    <3> QED BY <1>8, <3>1
  <2> QED BY <1>0, <1>2, <2>1, NthNext
<1>11. \A k \in Nat : k > j + 1 => Nth(fat2, h, k) \notin Cluster
  <2>1. fat2[new] \notin Cluster /\ j + 1 \in Nat
    BY <1>2, Numbers
  <2> QED BY <1>0, <1>2, <1>9, <2>1, ChainOver
<1>12. \A k \in Nat : k > j => Nth(fat, h, k) \notin Cluster
  BY <1>0, ChainOver
<1>13. ASSUME NEW c \in Cluster, fat2[c] # Free PROVE InChain(fat2, c)
  <2>1. CASE c = new
    <3>1. IsHead(fat2, h) /\ j + 1 \in Nat
      BY <1>5
    <3> QED BY <1>0, <1>9, <2>1, <3>1 DEF InChain
  <2>2. CASE c # new
    <3>1. fat[c] # Free
      BY <1>1, <1>2, <1>13, <2>2
    <3>2. PICK g \in Cluster : IsHead(fat, g) /\ \E k \in Nat : Nth(fat, g, k) = c
      BY <3>1 DEF SoundFat, AllInChains, InChain
    <3>3. PICK k \in Nat : Nth(fat, g, k) = c
      BY <3>2
    <3>4. g = h => k \in 0 .. j
      BY <1>12, <3>3
    <3>5. Nth(fat2, g, k) = c
      BY <1>6, <1>8, <3>2, <3>3, <3>4 DEF SameChain
    <3> QED BY <1>5, <3>2, <3>5 DEF InChain
  <2> QED BY <2>1, <2>2
<1>14. SoundFat(fat2)
  BY <1>2, <1>4, <1>13 DEF SoundFat, AllInChains
<1> QED BY <1>5, <1>6, <1>8, <1>9, <1>11, <1>12, <1>14

\* A whole chain is freed.
LEMMA Cut ==
  ASSUME NEW fat, SoundFat(fat), NEW s, IsHead(fat, s),
         NEW fat2 \in [Cluster -> FatValue],
         \A c \in Cluster : fat2[c] = IF c \in Chain(fat, s) THEN Free ELSE fat[c]
  PROVE  /\ SoundFat(fat2)
         /\ \A h : IsHead(fat2, h) <=> IsHead(fat, h) /\ h # s
         /\ \A h : IsHead(fat, h) /\ h # s => SameChain(fat, fat2, h)
<1>0. fat \in [Cluster -> FatValue] /\ s \in FatValue /\ s \in Cluster /\ fat[s] # Free
  BY DEF SoundFat, FatValue, IsHead
<1>1. PICK n \in 1 .. LastCluster - 1 :
        /\ \A k \in Nat : Nth(fat, s, k) \in Cluster <=> k < n
        /\ Chain(fat, s) = {Nth(fat, s, k) : k \in 0 .. n - 1}
  BY ChainLength
<1>n. n \in Nat \ {0} /\ 0 \in 0 .. n - 1
  BY Numbers
<1>2. fat2 \in [Cluster -> FatValue]
  OBVIOUS
<1>3. s \in Chain(fat, s)
  BY <1>0, <1>1, <1>n, NthSteps
<1>4. \A c \in Chain(fat, s) : c \in Cluster /\ (fat[c] \in Cluster => fat[c] \in Chain(fat, s))
  <2> TAKE c \in Chain(fat, s)
  <2>1. PICK k \in 0 .. n - 1 : c = Nth(fat, s, k)
    BY <1>1
  <2>2. k \in Nat /\ k < n /\ k + 1 \in Nat
    BY <1>n, <2>1
  <2>3. c \in Cluster
    BY <1>1, <2>1, <2>2
  <2>4. Nth(fat, s, k + 1) = fat[c]
    BY <1>0, <2>1, <2>2, <2>3, NthSteps
  <2>5. fat[c] \in Cluster => k + 1 < n
    BY <1>1, <2>2, <2>4
  <2>6. k + 1 < n => k + 1 \in 0 .. n - 1
    BY <2>2, <1>n
  <2> QED BY <1>1, <2>3, <2>4, <2>5, <2>6
<1>5. ASSUME NEW c \in Cluster, fat[c] \in Chain(fat, s) PROVE c \in Chain(fat, s)
  <2>1. PICK k \in 0 .. n - 1 : fat[c] = Nth(fat, s, k)
    BY <1>1, <1>5
  <2>2. k # 0
    <3>1. Nth(fat, s, 0) = s
      BY <1>0, NthSteps
    <3> QED BY <2>1, <3>1 DEF IsHead
  <2>3. k - 1 \in Nat /\ (k - 1) + 1 = k /\ k - 1 \in 0 .. n - 1 /\ k - 1 < n
    BY <1>n, <2>1, <2>2
  <2>4. Nth(fat, s, k - 1) \in Cluster
    BY <1>1, <2>3
  <2>5. fat[Nth(fat, s, k - 1)] = fat[c]
    BY <1>0, <2>1, <2>3, <2>4, NthSteps
  <2>6. fat[c] \in Cluster
    BY <1>4, <1>5
  <2>7. c = Nth(fat, s, k - 1)
    BY <2>4, <2>5, <2>6 DEF SoundFat
  <2> QED BY <1>1, <2>3, <2>7
<1>6. /\ \A c \in Cluster : fat2[c] \in Cluster => fat2[fat2[c]] # Free
     /\ \A b, c \in Cluster : fat2[b] = fat2[c] /\ fat2[b] \in Cluster => b = c
  <2>1. \A c \in Cluster : fat2[c] \in Cluster => fat2[fat2[c]] # Free
    <3> SUFFICES ASSUME NEW c \in Cluster, fat2[c] \in Cluster PROVE fat2[fat2[c]] # Free
      OBVIOUS
    <3>1. c \notin Chain(fat, s) /\ fat2[c] = fat[c]
      BY Numbers
    <3>2. fat[c] \notin Chain(fat, s)
      BY <1>5, <3>1
    <3>3. fat2[fat[c]] = fat[fat[c]]
      BY <3>1, <3>2
    <3> QED BY <3>1, <3>3 DEF SoundFat
  <2>2. \A b, c \in Cluster : fat2[b] = fat2[c] /\ fat2[b] \in Cluster => b = c
    BY Numbers DEF SoundFat
  <2> QED BY <2>1, <2>2
<1>7. \A h : IsHead(fat2, h) <=> IsHead(fat, h) /\ h # s
  <2>1. ASSUME NEW h, IsHead(fat2, h) PROVE IsHead(fat, h) /\ h # s
    <3>1. h \in Cluster /\ h \notin Chain(fat, s) /\ fat[h] # Free /\ \A c \in Cluster : fat2[c] # h
      BY <2>1 DEF IsHead
    <3>2. \A c \in Cluster : fat[c] # h
      <4> SUFFICES ASSUME NEW c \in Cluster, fat[c] = h PROVE FALSE
        OBVIOUS
      <4>1. c \in Chain(fat, s)
        BY <3>1
      <4> QED BY <1>4, <3>1, <4>1
    <3> QED BY <1>3, <3>1, <3>2 DEF IsHead
  <2>2. ASSUME NEW h, IsHead(fat, h), h # s PROVE IsHead(fat2, h)
    <3>1. h \in Cluster /\ fat[h] # Free /\ \A c \in Cluster : fat[c] # h
      BY <2>2 DEF IsHead
    <3>2. h \notin Chain(fat, s)
      <4> SUFFICES ASSUME h \in Chain(fat, s) PROVE FALSE
        OBVIOUS
      <4>1. PICK k \in 0 .. n - 1 : h = Nth(fat, s, k)
        BY <1>1
      <4>2. Nth(fat, h, 0) = h /\ k \in Nat
        BY <1>0, <3>1, NthSteps DEF FatValue
      <4> QED BY <2>2, <3>1, <4>1, <4>2, OnePlace
    <3> QED BY <3>1, <3>2, Numbers DEF IsHead
  <2> QED BY <2>1, <2>2
<1>8. ASSUME NEW h, IsHead(fat, h), h # s PROVE SameChain(fat, fat2, h)
  <2>1. h \in FatValue
    BY <1>8 DEF IsHead, FatValue
  <2>2. ASSUME NEW k \in Nat, Nth(fat, h, k) \in Cluster PROVE Nth(fat, h, k) \notin Chain(fat, s)
    <3> SUFFICES ASSUME Nth(fat, h, k) \in Chain(fat, s) PROVE FALSE
      OBVIOUS
    <3>1. PICK m \in 0 .. n - 1 : Nth(fat, h, k) = Nth(fat, s, m)
      BY <1>1
    <3>2. m \in Nat
      OBVIOUS
    <3> QED BY <1>8, <2>2, <3>1, <3>2, OnePlace
  <2> QED BY <1>0, <1>2, <2>1, <2>2, Agreeing
<1>9. ASSUME NEW c \in Cluster, fat2[c] # Free PROVE InChain(fat2, c)
  <2>1. c \notin Chain(fat, s) /\ fat[c] # Free
    BY <1>9
  <2>2. PICK g \in Cluster : IsHead(fat, g) /\ \E k \in Nat : Nth(fat, g, k) = c
    BY <2>1 DEF SoundFat, AllInChains, InChain
  <2>3. PICK k \in Nat : Nth(fat, g, k) = c
    BY <2>2
  <2>4. g # s
    <3> SUFFICES ASSUME g = s PROVE FALSE
      OBVIOUS
    <3>1. k \in 0 .. n - 1
      BY <1>1, <1>n, <2>3
    <3> QED BY <1>1, <2>1, <2>3, <3>1
  <2>5. Nth(fat2, g, k) = c
    BY <1>8, <2>2, <2>3, <2>4 DEF SameChain
  <2> QED BY <1>7, <2>2, <2>4, <2>5 DEF InChain
<1>10. SoundFat(fat2)
  BY <1>2, <1>6, <1>9 DEF SoundFat, AllInChains
<1> QED BY <1>7, <1>8, <1>10

\* Nothing belongs to a file without clusters.
LEMMA NoChain ==
  ASSUME NEW fat \in [Cluster -> FatValue], NEW c \in FatValue, c \notin Cluster
  PROVE  Chain(fat, c) = {} /\ \A k \in Nat : Nth(fat, c, k) \notin Cluster
<1>1. Nth(fat, c, 0) = c /\ 0 \in Nat
  BY NthSteps
<1>2. \A k \in Nat : k > 0 => Nth(fat, c, k) \notin Cluster
  BY <1>1, ChainOver
<1>3. \A k \in Nat : Nth(fat, c, k) \notin Cluster
  BY <1>1, <1>2
<1>4. \A k \in 0 .. LastCluster : Nth(fat, c, k) \notin Cluster
  BY <1>3
<1> QED BY <1>3, <1>4 DEF Chain

\* The chains of two heads have nothing in common.
LEMMA ChainsDisjoint ==
  ASSUME NEW fat, SoundFat(fat), NEW g, NEW h, IsHead(fat, g), IsHead(fat, h), g # h
  PROVE  Chain(fat, g) \cap Chain(fat, h) = {}
<1> SUFFICES ASSUME NEW c, c \in Chain(fat, g), c \in Chain(fat, h) PROVE FALSE
  OBVIOUS
<1>1. PICK j \in 0 .. LastCluster : c = Nth(fat, g, j)
  BY DEF Chain
<1>2. PICK k \in 0 .. LastCluster : c = Nth(fat, h, k)
  BY DEF Chain
<1>3. c \in Cluster /\ j \in Nat /\ k \in Nat
  BY DEF Chain
<1>4. Nth(fat, g, j) = Nth(fat, h, k) /\ Nth(fat, g, j) \in Cluster
  BY <1>1, <1>2, <1>3
<1> QED BY <1>3, <1>4, OnePlace

\* What fat12_allocate_cluster picks is free; it fails only if none is.
LEMMA FreeClusterIs ==
  ASSUME NEW d, NEW new, new = FreeCluster(d)
  PROVE  \/ new = None /\ \A c \in Cluster : d.fat[c] # Free
         \/ new \in Cluster /\ d.fat[new] = Free
<1> DEFINE S == {c \in Cluster : d.fat[c] = Free}
<1>1. S \in SUBSET Nat
  BY Numbers
<1>2. S # {} => Min(S) \in S
  <2> HIDE DEF S
  <2> QED BY <1>1, MinOf
<1>3. new = IF S = {} THEN None ELSE Min(S)
  BY DEF FreeCluster
<1> QED BY <1>2, <1>3

-----------------------------------------------------------------------------
(***************************************************************************)
(* Disks and their changes.                                                *)
(***************************************************************************)
SlotTable ==
  {s \in [DirCluster -> UNION {[Slots(dir) -> Entry] : dir \in DirCluster}] :
     \A dir \in DirCluster : s[dir] \in [Slots(dir) -> Entry]}

ByteTable == [Cluster -> [0 .. ClusterBytes - 1 -> Byte \cup {JunkByte}]]

Disk == [fat : [Cluster -> FatValue], slots : SlotTable, bytes : ByteTable]

SoundDisk(d) == d \in Disk /\ SoundFat(d.fat)

\* The first clusters of directories, and of files.
Dir(d, c) == c = 0 \/ IsHead(d.fat, c)

\* The parts of a disk.
LEMMA DiskParts ==
  ASSUME NEW d, d \in Disk
  PROVE  /\ d = [fat |-> d.fat, slots |-> d.slots, bytes |-> d.bytes]
         /\ d.fat \in [Cluster -> FatValue] /\ d.slots \in SlotTable /\ d.bytes \in ByteTable
BY DEF Disk

\* Parts of the right types make a disk.
LEMMA DiskOf ==
  ASSUME NEW fat, fat \in [Cluster -> FatValue], NEW slots, slots \in SlotTable,
         NEW bytes, bytes \in ByteTable
  PROVE  [fat |-> fat, slots |-> slots, bytes |-> bytes] \in Disk
BY DEF Disk

\* A table with the item at c replaced.
Put(s, c, f) == [s EXCEPT ![c] = f]

\* Replacing the slots of one cluster leaves those of the others.
LEMMA PutSlots ==
  ASSUME NEW s, s \in SlotTable, NEW c, c \in DirCluster, NEW f, f \in [Slots(c) -> Entry]
  PROVE  /\ Put(s, c, f) \in SlotTable
         /\ Put(s, c, f)[c] = f
         /\ \A e \in DirCluster : e # c => Put(s, c, f)[e] = s[e]
<1> DEFINE t == [s EXCEPT ![c] = f]
<1>0. t = Put(s, c, f)
  BY DEF Put
<1>1. t[c] = f /\ \A e \in DirCluster : e # c => t[e] = s[e]
  BY DEF SlotTable
<1>2. \A e \in DirCluster : t[e] \in [Slots(e) -> Entry]
  BY <1>1 DEF SlotTable
<1> DEFINE R == UNION {[Slots(dir) -> Entry] : dir \in DirCluster}
<1>3. \A e \in DirCluster : t[e] \in R
  BY <1>2
<1>4. t = [e \in DirCluster |-> t[e]]
  BY DEF SlotTable
<1>5. t \in [DirCluster -> R]
  <2> HIDE DEF R
  <2> QED BY <1>3, <1>4
<1> HIDE DEF t
<1> QED BY <1>0, <1>1, <1>2, <1>5 DEF SlotTable

\* Replacing the bytes of one cluster.
LEMMA PutBytes ==
  ASSUME NEW b, b \in ByteTable, NEW c, c \in Cluster,
         NEW f, f \in [0 .. ClusterBytes - 1 -> Byte \cup {JunkByte}]
  PROVE  Put(b, c, f) \in ByteTable
BY DEF ByteTable, Put

\* Entries, and what is none.
LEMMA Entries ==
  /\ EndEntry \in Entry /\ Blank(Deleted) \in Entry /\ Blank(Junk) \in Entry
  /\ \A n \in Name : Blank(n) \in Entry
  /\ Blank(Missing) \notin Entry /\ Blank(Missing).name = Missing
  /\ \A e \in Entry : e.name # Missing /\ e.first \in FatValue /\ e.first \in DirCluster
  /\ EndEntry.name = End /\ Blank(Deleted).name = Deleted
BY FatAssumption DEF EndEntry, Entry, Blank, Live, Special, End, Deleted, Missing, Junk, FatValue,
   DirCluster, Free

\* Slot i is slot i % ClusterSlots of cluster number i \div ClusterSlots.
LEMMA SlotNumbers ==
  ASSUME NEW i, i \in Nat
  PROVE  /\ i \div ClusterSlots \in Nat /\ i % ClusterSlots \in 0 .. ClusterSlots - 1
         /\ i = ClusterSlots * (i \div ClusterSlots) + (i % ClusterSlots)
BY Numbers

\* What can be read of a directory.
LEMMA Reading ==
  ASSUME NEW d, d \in Disk, NEW c, c \in DirCluster, NEW i, i \in Nat
  PROVE  /\ ReadSlot(d, c, i) \in Entry \cup {Blank(Missing)}
         /\ ReadSlot(d, c, i).name = Missing <=> ReadSlot(d, c, i) = Blank(Missing)
         /\ c = 0 => ReadSlot(d, c, i) = IF i < RootEntries THEN d.slots[0][i] ELSE Blank(Missing)
         /\ c # 0 => ReadSlot(d, c, i) =
                       IF OnDisk(Nth(d.fat, c, i \div ClusterSlots))
                       THEN d.slots[Nth(d.fat, c, i \div ClusterSlots)][i % ClusterSlots]
                       ELSE Blank(Missing)
<1>1. c = 0 => ReadSlot(d, c, i) = IF i < RootEntries THEN d.slots[0][i] ELSE Blank(Missing)
  BY Numbers DEF ReadSlot, OnDisk
<1>2. c # 0 => ReadSlot(d, c, i) =
                 IF OnDisk(Nth(d.fat, c, i \div ClusterSlots))
                 THEN d.slots[Nth(d.fat, c, i \div ClusterSlots)][i % ClusterSlots]
                 ELSE Blank(Missing)
  BY DEF ReadSlot
<1>3. d.slots \in SlotTable
  BY DiskParts
<1>4. ReadSlot(d, c, i) \in Entry \cup {Blank(Missing)}
  <2>1. CASE c = 0
    <3>1. i < RootEntries => d.slots[0] \in [Slots(0) -> Entry] /\ i \in Slots(0)
      BY <1>3, Numbers DEF SlotTable, DirCluster, Slots
    <3> QED BY <1>1, <2>1, <3>1
  <2>2. CASE c # 0
    <3> DEFINE at == Nth(d.fat, c, i \div ClusterSlots)
    <3>1. OnDisk(at) => at \in Cluster /\ at \in DirCluster /\ at # 0
      BY Numbers DEF OnDisk, DirCluster
    <3>2. OnDisk(at) => d.slots[at] \in [Slots(at) -> Entry] /\ i % ClusterSlots \in Slots(at)
      BY <1>3, <3>1, SlotNumbers DEF SlotTable, Slots
    <3> QED BY <1>2, <2>2, <3>2
  <2> QED BY <2>1, <2>2
<1>5. ReadSlot(d, c, i).name = Missing <=> ReadSlot(d, c, i) = Blank(Missing)
  BY <1>4, Entries
<1> QED BY <1>1, <1>2, <1>4, <1>5

\* A directory is read to its first slot with one of the names, or to its end.
FirstWith(d, c, names, i) ==
  /\ i \in Nat
  /\ ReadSlot(d, c, i).name \in names \cup {Missing}
  /\ \A j \in Nat : j < i => ReadSlot(d, c, j).name \notin names \cup {Missing}

\* The searches of fat12.c stop at that slot: there is one, and FirstSlot is it.
LEMMA FirstSlotIs ==
  ASSUME NEW d, SoundDisk(d), NEW c, Dir(d, c), NEW names
  PROVE  /\ FirstWith(d, c, names, FirstSlot(d, c, names))
         /\ \A i : FirstWith(d, c, names, i) => i = FirstSlot(d, c, names)
<1>0. d \in Disk /\ c \in DirCluster /\ d.fat \in [Cluster -> FatValue]
  BY DiskParts DEF SoundDisk, Dir, IsHead, DirCluster
<1> DEFINE last == IF c = 0 THEN RootEntries ELSE ClusterSlots * Cardinality(Chain(d.fat, c))
<1>1. last \in Nat /\ ReadSlot(d, c, last).name = Missing
  <2>1. CASE c = 0
    BY <1>0, <2>1, Reading, Numbers, Entries
  <2>2. CASE c # 0
    <3>1. PICK n \in 1 .. LastCluster - 1 :
            n = Cardinality(Chain(d.fat, c)) /\ \A k \in Nat : Nth(d.fat, c, k) \in Cluster <=> k < n
      BY <2>2, ChainLength DEF SoundDisk, Dir
    <3>2. n \in Nat /\ last = ClusterSlots * n /\ last \in Nat
      BY <2>2, <3>1, Numbers
    <3>3. (ClusterSlots * n) \div ClusterSlots = n
      BY <3>2, Numbers
    <3>4. ~OnDisk(Nth(d.fat, c, last \div ClusterSlots))
      BY <3>1, <3>2, <3>3 DEF OnDisk
    <3>5. ReadSlot(d, c, last) = Blank(Missing)
      BY <1>0, <2>2, <3>2, <3>4, Reading
    <3> QED BY <3>2, <3>5, Entries
  <2> QED BY <2>1, <2>2
<1> DEFINE hit == {i \in 0 .. last : ReadSlot(d, c, i).name \in names \cup {Missing}}
           m == Min(hit)
<1>2. FirstSlot(d, c, names) = m
  BY DEF FirstSlot
<1>3. hit \in SUBSET Nat /\ last \in hit
  BY <1>1
<1>4. m \in hit /\ \A y \in hit : m <= y
  <2> HIDE DEF hit
  <2> QED BY <1>3, MinOf
<1> HIDE DEF m
<1>5. m \in Nat /\ m <= last /\ ReadSlot(d, c, m).name \in names \cup {Missing}
  BY <1>1, <1>4
<1>6. ASSUME NEW j \in Nat, j < m PROVE ReadSlot(d, c, j).name \notin names \cup {Missing}
  <2>1. j \notin hit
    BY <1>4, <1>5, <1>6
  <2>2. j \in 0 .. last
    BY <1>1, <1>5, <1>6
  <2> QED BY <2>1, <2>2
<1>7. FirstWith(d, c, names, m)
  BY <1>5, <1>6 DEF FirstWith
<1>8. ASSUME NEW i, FirstWith(d, c, names, i) PROVE i = m
  BY <1>7, <1>8 DEF FirstWith
<1> QED BY <1>2, <1>7, <1>8

\* fat12_allocate_cluster: only the FAT changes.
LEMMA AllocatedIs ==
  ASSUME NEW d, d \in Disk, NEW new, new = FreeCluster(d), new # None,
         NEW current, NEW d2, d2 = Allocated(d, current)
  PROVE  /\ new \in Cluster /\ d.fat[new] = Free
         /\ d2 \in Disk /\ d2.slots = d.slots /\ d2.bytes = d.bytes
         /\ current \notin Cluster =>
              d2.fat[new] = EndOfChain /\ \A c \in Cluster : c # new => d2.fat[c] = d.fat[c]
         /\ current \in Cluster =>
              /\ d2.fat[current] = new
              /\ current # new => d2.fat[new] = EndOfChain
              /\ \A c \in Cluster : c # new /\ c # current => d2.fat[c] = d.fat[c]
<1>1. new \in Cluster /\ d.fat[new] = Free
  BY FreeClusterIs
<1>0. /\ d = [fat |-> d.fat, slots |-> d.slots, bytes |-> d.bytes]
      /\ d.fat \in [Cluster -> FatValue] /\ d.slots \in SlotTable /\ d.bytes \in ByteTable
  BY DiskParts
<1> DEFINE marked == [d.fat EXCEPT ![new] = EndOfChain]
           fat == IF current \in Cluster THEN [marked EXCEPT ![current] = new] ELSE marked
<1>2. d2 = [d EXCEPT !.fat = fat]
  BY DEF Allocated
<1>3. marked \in [Cluster -> FatValue] /\ marked[new] = EndOfChain
      /\ \A c \in Cluster : c # new => marked[c] = d.fat[c]
  BY <1>0, <1>1 DEF FatValue
<1> HIDE DEF marked
<1>4. fat \in [Cluster -> FatValue]
  BY <1>1, <1>3 DEF FatValue
<1>5. current \in Cluster =>
              /\ fat[current] = new
              /\ current # new => fat[new] = EndOfChain
              /\ \A c \in Cluster : c # new /\ c # current => fat[c] = d.fat[c]
  BY <1>1, <1>3
<1>6. current \notin Cluster =>
        fat[new] = EndOfChain /\ \A c \in Cluster : c # new => fat[c] = d.fat[c]
  BY <1>3
<1> HIDE DEF fat
<1>7. d2 = [fat |-> fat, slots |-> d.slots, bytes |-> d.bytes]
  BY <1>0, <1>2
<1>8. d2 \in Disk /\ d2.slots = d.slots /\ d2.bytes = d.bytes /\ d2.fat = fat
  BY <1>0, <1>4, <1>7, DiskOf
<1> QED BY <1>1, <1>5, <1>6, <1>8

\* Filling a cluster with zeros touches no other.
LEMMA ZeroedIs ==
  ASSUME NEW d, d \in Disk, NEW c, c \in Cluster, NEW zero, zero \in BOOLEAN, NEW d2, d2 = Zeroed(d, c, zero)
  PROVE  /\ d2 \in Disk /\ d2.fat = d.fat
         /\ \A e \in DirCluster : e # c => d2.slots[e] = d.slots[e]
         /\ ~zero => d2 = d
         /\ zero /\ OnDisk(c) => \A i \in 0 .. ClusterSlots - 1 : d2.slots[c][i] = EndEntry
         /\ ~OnDisk(c) => d2 = d
<1>0. /\ d = [fat |-> d.fat, slots |-> d.slots, bytes |-> d.bytes]
      /\ d.fat \in [Cluster -> FatValue] /\ d.slots \in SlotTable /\ d.bytes \in ByteTable
  BY DiskParts
<1>1. CASE ~(zero /\ OnDisk(c))
  BY <1>1 DEF Zeroed
<1>2. CASE zero /\ OnDisk(c)
  <2> DEFINE blank == [i \in Slots(c) |-> EndEntry]
             zeros == [i \in 0 .. ClusterBytes - 1 |-> 0]
             slots == Put(d.slots, c, blank)
             bytes == Put(d.bytes, c, zeros)
  <2>1. d2 = [d EXCEPT !.slots[c] = blank, !.bytes[c] = zeros]
    BY <1>2 DEF Zeroed
  <2>2. c \in DirCluster /\ c # 0 /\ Slots(c) = 0 .. ClusterSlots - 1
    BY Numbers DEF DirCluster, Slots
  <2>3. blank \in [Slots(c) -> Entry] /\ \A i \in 0 .. ClusterSlots - 1 : blank[i] = EndEntry
    BY <2>2, Entries
  <2>4. zeros \in [0 .. ClusterBytes - 1 -> Byte \cup {JunkByte}]
    BY FatAssumption
  <2> HIDE DEF blank, zeros
  <2>5. slots \in SlotTable /\ slots[c] = blank /\ \A e \in DirCluster : e # c => slots[e] = d.slots[e]
    <3>1. d.slots \in SlotTable /\ c \in DirCluster /\ blank \in [Slots(c) -> Entry]
      BY <1>0, <2>2, <2>3
    <3>2. /\ Put(d.slots, c, blank) \in SlotTable
          /\ Put(d.slots, c, blank)[c] = blank
          /\ \A e \in DirCluster : e # c => Put(d.slots, c, blank)[e] = d.slots[e]
      BY <3>1, PutSlots
    <3> QED BY <3>2
  <2>6. bytes \in ByteTable
    BY <1>0, <2>4, PutBytes
  <2>7. d2 = [fat |-> d.fat, slots |-> slots, bytes |-> bytes]
    BY <1>0, <2>1 DEF Put
  <2> HIDE DEF slots, bytes
  <2>8. d2 \in Disk /\ d2.fat = d.fat /\ d2.slots = slots
    BY <1>0, <2>5, <2>6, <2>7, DiskOf
  <2> QED BY <1>2, <2>3, <2>5, <2>8
<1> QED BY <1>1, <1>2

\* A cluster with directory entries that are all zero.
AllZero(d, c) == \A i \in 0 .. ClusterSlots - 1 : d.slots[c][i] = EndEntry

\* That is what a directory's new cluster is like.
LEMMA ZerosRead ==
  ASSUME NEW d, d \in Disk, NEW c, c \in Cluster, OnDisk(c), NEW d2, d2 = Zeroed(d, c, TRUE)
  PROVE  AllZero(d2, c)
<1>1. d2 = [d EXCEPT !.slots[c] = [i \in Slots(c) |-> EndEntry],
                     !.bytes[c] = [i \in 0 .. ClusterBytes - 1 |-> 0]]
  BY DEF Zeroed
<1>2. c \in DirCluster /\ Slots(c) = 0 .. ClusterSlots - 1
  BY Numbers DEF DirCluster, Slots
<1>3. d.slots \in SlotTable /\ d = [fat |-> d.fat, slots |-> d.slots, bytes |-> d.bytes]
  BY DiskParts
<1>4. d2.slots = [d.slots EXCEPT ![c] = [i \in Slots(c) |-> EndEntry]]
  BY <1>1, <1>3
<1>5. d2.slots[c] = [i \in Slots(c) |-> EndEntry]
  BY <1>2, <1>3, <1>4 DEF SlotTable
<1> QED BY <1>2, <1>5 DEF AllZero

\* Walks along a chain.
Walk == [disk : Disk, at : Cluster, ok : BOOLEAN]

\* What one hop does.
Hopped(w, v, zero) ==
  /\ v \in Walk
  /\ ~w.ok => v = w
  /\ w.ok /\ w.disk.fat[w.at] \in Cluster =>
       v.ok /\ v.at = w.disk.fat[w.at] /\ v.disk = w.disk
  /\ w.ok /\ w.disk.fat[w.at] \notin Cluster /\ FreeCluster(w.disk) = None =>
       ~v.ok /\ v.at = w.at /\ v.disk = w.disk
  /\ w.ok /\ w.disk.fat[w.at] \notin Cluster /\ FreeCluster(w.disk) # None =>
       v.ok /\ v.at = FreeCluster(w.disk) /\ v.disk = Zeroed(Allocated(w.disk, w.at), v.at, zero)

\* From cluster to cluster.
LEMMA HopIs ==
  ASSUME NEW w, w \in Walk, NEW zero, zero \in BOOLEAN, NEW v, v = Hop(w, zero)
  PROVE  Hopped(w, v, zero)
<1> SUFFICES
      /\ v \in Walk
      /\ ~w.ok => v = w
      /\ w.ok /\ w.disk.fat[w.at] \in Cluster =>
           v.ok /\ v.at = w.disk.fat[w.at] /\ v.disk = w.disk
      /\ w.ok /\ w.disk.fat[w.at] \notin Cluster /\ FreeCluster(w.disk) = None =>
           ~v.ok /\ v.at = w.at /\ v.disk = w.disk
      /\ w.ok /\ w.disk.fat[w.at] \notin Cluster /\ FreeCluster(w.disk) # None =>
           v.ok /\ v.at = FreeCluster(w.disk) /\ v.disk = Zeroed(Allocated(w.disk, w.at), v.at, zero)
  BY DEF Hopped
<1>0. /\ w = [disk |-> w.disk, at |-> w.at, ok |-> w.ok]
      /\ w.disk \in Disk /\ w.at \in Cluster /\ w.ok \in BOOLEAN
  BY DEF Walk
<1> DEFINE next == w.disk.fat[w.at]
           new == FreeCluster(w.disk)
           grown == Zeroed(Allocated(w.disk, w.at), new, zero)
<1>1. v = IF ~w.ok THEN w
          ELSE IF next \in Cluster THEN [w EXCEPT !.at = next]
          ELSE IF new = None THEN [w EXCEPT !.ok = FALSE]
          ELSE [ok |-> TRUE, at |-> new, disk |-> grown]
  BY DEF Hop
<1>2. ASSUME new # None PROVE new \in Cluster /\ grown \in Disk
  <2>0. PICK n : n = FreeCluster(w.disk)
    OBVIOUS
  <2>1. PICK d : d = Allocated(w.disk, w.at)
    OBVIOUS
  <2>d. w.disk \in Disk
    BY <1>0
  <2>2. n \in Cluster /\ d \in Disk
    BY <1>2, <2>d, <2>0, <2>1, AllocatedIs
  <2>3. Zeroed(d, n, zero) \in Disk
    BY <2>2, ZeroedIs
  <2> QED BY <2>0, <2>1, <2>2, <2>3
<1> HIDE DEF next, new, grown
<1>3. CASE ~w.ok
  BY <1>1, <1>3 DEF next, new, grown
<1>4. CASE w.ok /\ next \in Cluster
  <2>1. v = [disk |-> w.disk, at |-> next, ok |-> w.ok]
    BY <1>0, <1>1, <1>4
  <2> QED BY <1>0, <1>4, <2>1 DEF Walk, next, new, grown
<1>5. CASE w.ok /\ next \notin Cluster /\ new = None
  <2>1. v = [disk |-> w.disk, at |-> w.at, ok |-> FALSE]
    BY <1>0, <1>1, <1>5
  <2> QED BY <1>0, <1>5, <2>1 DEF Walk, next, new, grown
<1>6. CASE w.ok /\ next \notin Cluster /\ new # None
  <2>1. v = [disk |-> grown, at |-> new, ok |-> TRUE]
    BY <1>1, <1>6
  <2>2. v \in Walk
    BY <1>2, <1>6, <2>1 DEF Walk
  <2> QED BY <1>6, <2>1, <2>2 DEF next, new, grown
<1> QED BY <1>3, <1>4, <1>5, <1>6

\* A walk is made of hops.
LEMMA ReachSteps ==
  ASSUME NEW d, d \in Disk, NEW first, first \in Cluster, NEW zero, zero \in BOOLEAN
  PROVE  /\ Reach(d, first, 0, zero) = [disk |-> d, at |-> first, ok |-> TRUE]
         /\ \A k \in Nat : /\ Reach(d, first, k, zero) \in Walk
                           /\ Reach(d, first, k + 1, zero) = Hop(Reach(d, first, k, zero), zero)
<1> DEFINE start == [disk |-> d, at |-> first, ok |-> TRUE]
           g == [i \in Nat |-> [w \in Walk |-> Hop(w, zero)]]
           Eq(v) == v = [i \in Nat |-> IF i = 0 THEN [disk |-> d, at |-> first, ok |-> TRUE]
                                                ELSE Hop(v[i - 1], zero)]
           walk == CHOOSE v : Eq(v)
<1>1. start \in Walk
  BY DEF Walk
<1>2. g \in [Nat -> [Walk -> Walk]]
  <2>1. \A w \in Walk : Hop(w, zero) \in Walk
    BY HopIs DEF Hopped
  <2> QED BY <2>1
<1>3. PICK w : Runs(w, Walk, g, start)
  <2> HIDE DEF g, start
  <2> QED BY <1>1, <1>2, Iterates
<1>4. \A i \in Nat : w[i] \in Walk /\ w[i + 1] = Hop(w[i], zero)
  <2> TAKE i \in Nat
  <2>1. w[i] \in Walk /\ w[i + 1] = g[i][w[i]]
    BY <1>3 DEF Runs
  <2> QED BY <2>1
<1>5. Eq(w)
  <2>1. \A i \in Nat : i # 0 => i - 1 \in Nat /\ (i - 1) + 1 = i
    OBVIOUS
  <2>2. w[0] = start /\ w \in [Nat -> Walk]
    BY <1>3 DEF Runs
  <2>3. \A i \in Nat : i # 0 => w[i] = Hop(w[i - 1], zero)
    BY <1>4, <2>1
  <2> QED BY <2>2, <2>3
<1>6. Eq(walk)
  <2> HIDE DEF Eq
  <2> QED BY <1>5
<1>7. \A k \in Nat : Reach(d, first, k, zero) = walk[k]
  BY DEF Reach
<1> HIDE DEF walk
<1>8. walk[0] = start /\ \A i \in Nat : walk[i + 1] = Hop(walk[i], zero)
  <2>1. walk[0] = start
    BY <1>6
  <2>2. \A i \in Nat : i + 1 \in Nat /\ i + 1 # 0 /\ (i + 1) - 1 = i
    OBVIOUS
  <2>3. \A i \in Nat : walk[i + 1] = Hop(walk[i], zero)
    BY <1>6, <2>2
  <2> QED BY <2>1, <2>3
<1>9. \A k \in Nat : walk[k] \in Walk
  <2> DEFINE X == {k \in Nat : walk[k] \in Walk}
  <2>1. 0 \in X
    BY <1>1, <1>8
  <2>2. ASSUME NEW n \in Nat, n \in X PROVE n + 1 \in X
    BY <1>8, <2>2, HopIs DEF Hopped
  <2> HIDE DEF X
  <2>3. \A n \in Nat : n \in X
    BY <2>1, <2>2, AllNumbers
  <2> QED BY <2>3 DEF X
<1> QED BY <1>7, <1>8, <1>9

-----------------------------------------------------------------------------
(***************************************************************************)
(* Walks along chains.                                                     *)
(***************************************************************************)
SameHeads(d, d2) == \A h : IsHead(d2.fat, h) <=> IsHead(d.fat, h)

\* A chain that gets another cluster at its end; d2 is d with it.
Longer(d, d2, h, j, new) ==
  /\ SoundDisk(d2) /\ SameHeads(d, d2)
  /\ \A g : IsHead(d.fat, g) /\ g # h => SameChain(d.fat, d2.fat, g)
  /\ \A k \in 0 .. j : Nth(d2.fat, h, k) = Nth(d.fat, h, k)
  /\ Nth(d2.fat, h, j + 1) = new
  /\ \A k \in Nat : k > j + 1 => Nth(d2.fat, h, k) \notin Cluster
  /\ \A k \in Nat : k > j => Nth(d.fat, h, k) \notin Cluster
  /\ new \in Cluster /\ d.fat[new] = Free
  /\ \A e \in DirCluster : e # new => d2.slots[e] = d.slots[e]

\* fat12_allocate_cluster behind the last cluster of a chain makes it longer by one.
LEMMA Grown ==
  ASSUME NEW d, SoundDisk(d), NEW h, IsHead(d.fat, h), NEW j, j \in Nat, NEW at, at = Nth(d.fat, h, j),
         at \in Cluster, d.fat[at] \notin Cluster, NEW new, new = FreeCluster(d), new # None,
         NEW zero, zero \in BOOLEAN, NEW d2, d2 = Zeroed(Allocated(d, at), new, zero)
  PROVE  Longer(d, d2, h, j, new)
<1>0. d \in Disk /\ SoundFat(d.fat)
  BY DEF SoundDisk
<1>1. PICK d1 : d1 = Allocated(d, at)
  OBVIOUS
<1>2. /\ new \in Cluster /\ d.fat[new] = Free
      /\ d1 \in Disk /\ d1.slots = d.slots
      /\ d1.fat[at] = new
      /\ at # new => d1.fat[new] = EndOfChain
      /\ \A c \in Cluster : c # new /\ c # at => d1.fat[c] = d.fat[c]
  BY <1>0, <1>1, AllocatedIs
<1>3. /\ d2 \in Disk /\ d2.fat = d1.fat
      /\ \A e \in DirCluster : e # new => d2.slots[e] = d1.slots[e]
  <2>1. d2 = Zeroed(d1, new, zero)
    BY <1>1
  <2>2. d1 \in Disk /\ new \in Cluster
    BY <1>2
  <2>3. d2 \in Disk /\ d2.fat = d1.fat
    BY <2>1, <2>2, ZeroedIs
  <2>4. \A e \in DirCluster : e # new => d2.slots[e] = d1.slots[e]
    BY <2>1, <2>2, ZeroedIs
  <2> QED BY <2>3, <2>4
<1>f. PICK fat2 : fat2 = d2.fat
  OBVIOUS
<1>4. fat2 \in [Cluster -> FatValue] /\ fat2[at] = new /\ (at # new => fat2[new] = EndOfChain)
      /\ \A c \in Cluster : c # new /\ c # at => fat2[c] = d.fat[c]
  BY <1>2, <1>3, <1>f, DiskParts
<1>5. /\ SoundFat(fat2)
      /\ \A g : IsHead(fat2, g) <=> IsHead(d.fat, g)
      /\ \A g : IsHead(d.fat, g) /\ g # h => SameChain(d.fat, fat2, g)
      /\ \A k \in 0 .. j : Nth(fat2, h, k) = Nth(d.fat, h, k)
      /\ Nth(fat2, h, j + 1) = new
      /\ \A k \in Nat : k > j + 1 => Nth(fat2, h, k) \notin Cluster
      /\ \A k \in Nat : k > j => Nth(d.fat, h, k) \notin Cluster
  BY <1>0, <1>2, <1>4, Linked
<1>7. SoundDisk(d2)
  BY <1>3, <1>5, <1>f DEF SoundDisk
<1>8. SameHeads(d, d2)
  BY <1>5, <1>f DEF SameHeads
<1>9. \A e \in DirCluster : e # new => d2.slots[e] = d.slots[e]
  BY <1>2, <1>3
<1> QED BY <1>2, <1>5, <1>7, <1>8, <1>9, <1>f, Zenon DEF Longer

\* Within a chain a walk changes nothing.
LEMMA ReachWithin ==
  ASSUME NEW d, SoundDisk(d), NEW h, IsHead(d.fat, h), NEW k, k \in Nat, Nth(d.fat, h, k) \in Cluster,
         NEW zero, zero \in BOOLEAN
  PROVE  Reach(d, h, k, zero) = [disk |-> d, at |-> Nth(d.fat, h, k), ok |-> TRUE]
<1>0. d \in Disk /\ SoundFat(d.fat) /\ d.fat \in [Cluster -> FatValue] /\ h \in Cluster /\ h \in FatValue
      /\ d.fat[h] # Free
  BY DEF SoundDisk, SoundFat, IsHead, FatValue
<1> DEFINE W(i) == Reach(d, h, i, zero)
           X == {i \in Nat : i <= k => W(i).disk = d /\ W(i).at = Nth(d.fat, h, i) /\ W(i).ok}
<1>1. 0 \in X
  <2>1. W(0) = [disk |-> d, at |-> h, ok |-> TRUE] /\ Nth(d.fat, h, 0) = h
    BY <1>0, ReachSteps, NthSteps
  <2> QED BY <2>1
<1>2. ASSUME NEW n \in Nat, n \in X PROVE n + 1 \in X
  <2> SUFFICES ASSUME n + 1 <= k
               PROVE  W(n + 1).disk = d /\ W(n + 1).at = Nth(d.fat, h, n + 1) /\ W(n + 1).ok
    OBVIOUS
  <2>1. W(n) \in Walk /\ W(n + 1) = Hop(W(n), zero)
    BY <1>0, ReachSteps
  <2>2. W(n).disk = d /\ W(n).at = Nth(d.fat, h, n) /\ W(n).ok
    BY <1>2
  <2>3. n \in 0 .. k /\ n + 1 \in 0 .. k
    OBVIOUS
  <2>4. Nth(d.fat, h, n) \in Cluster /\ Nth(d.fat, h, n + 1) \in Cluster
    BY <1>0, <2>3, NthBefore
  <2>5. Nth(d.fat, h, n + 1) = d.fat[Nth(d.fat, h, n)]
    BY <1>0, <2>4, NthSteps
  <2> HIDE DEF W
  <2> QED BY <2>1, <2>2, <2>4, <2>5, HopIs DEF Hopped
<1> HIDE DEF X
<1>3. \A n \in Nat : n \in X
  BY <1>1, <1>2, AllNumbers
<1>4. W(k).disk = d /\ W(k).at = Nth(d.fat, h, k) /\ W(k).ok
  <2>1. k \in X /\ k <= k
    BY <1>3
  <2> QED BY <2>1 DEF X
<1>5. W(k) \in Walk
  BY <1>0, ReachSteps
<1>6. W(k) = [disk |-> W(k).disk, at |-> W(k).at, ok |-> W(k).ok] /\ W(k).ok \in BOOLEAN
  BY <1>5 DEF Walk
<1> QED BY <1>4, <1>6

\* w has gone on from the last cluster of a chain, at: to a new one, unless there is none.
WentOn(d, at, w, zero) ==
  /\ d.fat[at] \notin Cluster
  /\ FreeCluster(d) = None => ~w.ok /\ w.disk = d
  /\ FreeCluster(d) # None =>
       w.ok /\ w.at = FreeCluster(d) /\ w.disk = Zeroed(Allocated(d, at), w.at, zero)

\* One cluster further, the chain gets longer, or the FAT is full.
LEMMA ReachOneMore ==
  ASSUME NEW d, SoundDisk(d), NEW h, IsHead(d.fat, h), NEW j, j \in Nat, NEW at, at = Nth(d.fat, h, j),
         at \in Cluster, Nth(d.fat, h, j + 1) \notin Cluster, NEW zero, zero \in BOOLEAN,
         NEW w, w = Reach(d, h, j + 1, zero)
  PROVE  WentOn(d, at, w, zero)
<1>0. d \in Disk /\ d.fat \in [Cluster -> FatValue] /\ h \in Cluster /\ h \in FatValue
  BY DEF SoundDisk, SoundFat, IsHead, FatValue
<1>1. d.fat[at] \notin Cluster
  BY <1>0, NthSteps
<1>2. PICK v : v = Reach(d, h, j, zero)
  OBVIOUS
<1>3. v.disk = d /\ v.at = at /\ v.ok
  BY <1>2, ReachWithin
<1>4. v \in Walk /\ w = Hop(v, zero)
  BY <1>0, <1>2, ReachSteps
<1> QED BY <1>1, <1>3, <1>4, HopIs DEF WentOn, Hopped

-----------------------------------------------------------------------------
(***************************************************************************)
(* Writing a slot.                                                         *)
(***************************************************************************)
\* Cluster number and place of a slot.
LEMMA SlotOrder ==
  ASSUME NEW i, i \in Nat, NEW j, j \in Nat
  PROVE  /\ j <= i => j \div ClusterSlots <= i \div ClusterSlots
         /\ j \div ClusterSlots = i \div ClusterSlots /\ j % ClusterSlots = i % ClusterSlots => j = i
<1>0. PICK m : m = ClusterSlots
  OBVIOUS
<1>1. m \in Nat /\ m > 0
  BY <1>0, Numbers
<1>2. PICK a \in Nat : a = i \div m
  BY <1>1
<1>3. PICK b \in Nat : b = j \div m
  BY <1>1
<1>4. i = m * a + (i % m) /\ i % m \in 0 .. m - 1 /\ j = m * b + (j % m) /\ j % m \in 0 .. m - 1
  BY <1>1, <1>2, <1>3
<1>5. ASSUME b >= a + 1 PROVE j > i
  <2>1. m * b >= m * (a + 1)
    BY <1>1, <1>5
  <2>2. m * (a + 1) = m * a + m
    BY <1>1
  <2>3. PICK p \in Int : p = m * a
    BY <1>1
  <2>4. PICK q \in Int : q = m * b
    BY <1>1
  <2>5. q >= p + m
    BY <2>1, <2>2, <2>3, <2>4
  <2>6. i = p + (i % m) /\ j = q + (j % m)
    BY <1>4, <2>3, <2>4
  <2>7. PICK x \in 0 .. m - 1 : x = i % m
    BY <1>4
  <2>8. PICK y \in 0 .. m - 1 : y = j % m
    BY <1>4
  <2> QED BY <1>1, <2>5, <2>6, <2>7, <2>8
<1>6. j <= i => b <= a
  BY <1>5
<1>7. b = a /\ j % m = i % m => j = i
  BY <1>4
<1> QED BY <1>0, <1>2, <1>3, <1>6, <1>7

\* The entry is put into one slot of a cluster.
LEMMA WrittenIs ==
  ASSUME NEW w, w \in Walk, NEW i, i \in Nat, NEW e, e \in Entry, NEW v, v = Written(w, i, e)
  PROVE  /\ w.ok /\ OnDisk(w.at) =>
              /\ v.ok /\ v.disk \in Disk /\ v.disk.fat = w.disk.fat
              /\ \A c \in DirCluster : c # w.at => v.disk.slots[c] = w.disk.slots[c]
              /\ v.disk.slots[w.at][i % ClusterSlots] = e
              /\ \A n \in 0 .. ClusterSlots - 1 :
                   n # i % ClusterSlots => v.disk.slots[w.at][n] = w.disk.slots[w.at][n]
         /\ ~(w.ok /\ OnDisk(w.at)) => ~v.ok /\ v.disk = w.disk
<1>1. CASE ~(w.ok /\ OnDisk(w.at))
  BY <1>1 DEF Written
<1>2. CASE w.ok /\ OnDisk(w.at)
  <2>0. PICK d : d = w.disk
    OBVIOUS
  <2>1. PICK at : at = w.at
    OBVIOUS
  <2>2. PICK n : n = i % ClusterSlots
    OBVIOUS
  <2>3. /\ d = [fat |-> d.fat, slots |-> d.slots, bytes |-> d.bytes]
        /\ d.fat \in [Cluster -> FatValue] /\ d.slots \in SlotTable /\ d.bytes \in ByteTable
    BY <2>0, DiskParts DEF Walk
  <2>4. at \in Cluster /\ at \in DirCluster /\ at # 0 /\ Slots(at) = 0 .. ClusterSlots - 1
    BY <2>1, Numbers DEF Walk, DirCluster, Slots
  <2>5. n \in 0 .. ClusterSlots - 1
    BY <2>2, SlotNumbers
  <2> DEFINE row == Put(d.slots[at], n, e)
             junk == [k \in DOMAIN d.bytes[at] |-> JunkByte]
             slots == Put(d.slots, at, row)
             bytes == Put(d.bytes, at, junk)
  <2>6. d.slots[at] \in [Slots(at) -> Entry]
    BY <2>3, <2>4 DEF SlotTable
  <2>7. row \in [Slots(at) -> Entry] /\ row[n] = e
        /\ \A k \in 0 .. ClusterSlots - 1 : k # n => row[k] = d.slots[at][k]
    BY <2>4, <2>5, <2>6 DEF Put
  <2>8. junk \in [0 .. ClusterBytes - 1 -> Byte \cup {JunkByte}]
    BY <2>3, <2>4 DEF ByteTable
  <2>9. v = [ok |-> TRUE, disk |-> [fat |-> d.fat, slots |-> slots, bytes |-> bytes]]
    <3>1. v.ok = TRUE /\ v = [ok |-> TRUE, disk |-> v.disk]
          /\ v.disk = [d EXCEPT !.slots[at][n] = e, !.bytes[at] = [k \in DOMAIN @ |-> JunkByte]]
      BY <1>2, <2>0, <2>1, <2>2 DEF Written
    <3>2. v.disk = [fat |-> d.fat, slots |-> slots, bytes |-> bytes]
      BY <2>3, <3>1 DEF Put
    <3> QED BY <3>1, <3>2
  <2> HIDE DEF row, junk
  <2>10. /\ slots \in SlotTable /\ slots[at] = row
         /\ \A c \in DirCluster : c # at => slots[c] = d.slots[c]
    <3>1. d.slots \in SlotTable /\ at \in DirCluster /\ row \in [Slots(at) -> Entry]
      BY <2>3, <2>4, <2>7
    <3> QED BY <3>1, PutSlots
  <2>11. bytes \in ByteTable
    <3>1. d.bytes \in ByteTable /\ at \in Cluster
      BY <2>3, <2>4
    <3> QED BY <2>8, <3>1, PutBytes
  <2> HIDE DEF slots, bytes
  <2>12. v.ok /\ v.disk \in Disk /\ v.disk.fat = d.fat /\ v.disk.slots = slots
    <3>1. d.fat \in [Cluster -> FatValue] /\ slots \in SlotTable
      BY <2>3, <2>10
    <3>2. [fat |-> d.fat, slots |-> slots, bytes |-> bytes] \in Disk
      BY <2>11, <3>1, DiskOf
    <3> QED BY <2>9, <3>2
  <2> QED BY <1>2, <2>0, <2>1, <2>2, <2>7, <2>10, <2>12
<1> QED BY <1>1, <1>2

SameDir(d, d2, h) == \A j \in Nat : ReadSlot(d2, h, j) = ReadSlot(d, h, j)

\* A directory reads the same if its clusters and their slots are the same.
LEMMA DirKept ==
  ASSUME NEW d, SoundDisk(d), NEW d2, SoundDisk(d2), NEW h, Dir(d, h),
         h = 0 => d2.slots[0] = d.slots[0],
         h # 0 => /\ SameChain(d.fat, d2.fat, h)
                  /\ \A k \in Nat : Nth(d.fat, h, k) \in Cluster =>
                       d2.slots[Nth(d.fat, h, k)] = d.slots[Nth(d.fat, h, k)]
  PROVE  SameDir(d, d2, h)
<1> SUFFICES ASSUME NEW j \in Nat PROVE ReadSlot(d2, h, j) = ReadSlot(d, h, j)
  BY DEF SameDir
<1>0. d \in Disk /\ d2 \in Disk /\ h \in DirCluster
  BY DEF SoundDisk, Dir, IsHead, DirCluster
<1>1. CASE h = 0
  BY <1>0, <1>1, Reading
<1>2. CASE h # 0
  <2>1. PICK k \in Nat : k = j \div ClusterSlots
    BY SlotNumbers
  <2>2. PICK at : at = Nth(d.fat, h, k)
    OBVIOUS
  <2>3. at = Nth(d2.fat, h, k)
    BY <1>2, <2>2 DEF SameChain
  <2>4. OnDisk(at) => d2.slots[at] = d.slots[at]
    BY <1>2, <2>2 DEF OnDisk
  <2> QED BY <1>0, <1>2, <2>1, <2>2, <2>3, <2>4, Reading
<1> QED BY <1>1, <1>2

\* Only the directory at c changes from d to d2.
Elsewhere(d, d2, c) ==
  SoundDisk(d2) /\ SameHeads(d, d2) /\ \A h : Dir(d, h) /\ h # c => SameDir(d, d2, h)

\* Slot i of the directory at c is written, or cannot be.  Behind the last slot that
\* can be read, the directory gets longer.
Wrote(d, d2, c, i, e, ok) ==
  /\ Elsewhere(d, d2, c)
  /\ ok => ReadSlot(d2, c, i) = e
  /\ ~ok => SameDir(d, d2, c) /\ ReadSlot(d, c, i).name = Missing
  /\ ReadSlot(d, c, i).name # Missing =>
       ok /\ \A j \in Nat : j # i => ReadSlot(d2, c, j) = ReadSlot(d, c, j)
  /\ ReadSlot(d, c, i).name = Missing /\ ok =>
       /\ \A j \in Nat : j < i => ReadSlot(d2, c, j) = ReadSlot(d, c, j)
       /\ \A j \in Nat : j > i => ReadSlot(d2, c, j).name \in {End, Missing}

\* A call that changes nothing.
LEMMA NothingWrote ==
  ASSUME NEW d, SoundDisk(d), NEW c, Dir(d, c), NEW i \in Nat, ReadSlot(d, c, i).name = Missing, NEW e
  PROVE  Wrote(d, d, c, i, e, FALSE)
BY DEF Wrote, Elsewhere, SameHeads, SameDir

\* A slot of the root directory.
LEMMA WriteRoot ==
  ASSUME NEW d, SoundDisk(d), NEW i, i \in Nat, NEW e, e \in Entry, NEW v, v = WriteSlot(d, 0, i, e)
  PROVE  Wrote(d, v.disk, 0, i, e, v.ok)
<1>0. d \in Disk /\ Dir(d, 0) /\ 0 \in DirCluster
  BY DEF SoundDisk, Dir, DirCluster
<1>1. CASE i >= RootEntries
  <2>1. ~v.ok /\ v.disk = d
    BY <1>1, Numbers DEF WriteSlot
  <2>2. ReadSlot(d, 0, i).name = Missing
    <3>1. ReadSlot(d, 0, i) = IF i < RootEntries THEN d.slots[0][i] ELSE Blank(Missing)
      BY <1>0, Reading
    <3> QED BY <1>1, <3>1, Numbers, Entries
  <2>3. Wrote(d, d, 0, i, e, FALSE)
    BY <1>0, <2>2, NothingWrote
  <2> QED BY <2>1, <2>3 DEF Wrote
<1>2. CASE i < RootEntries
  <2> DEFINE row == Put(d.slots[0], i, e)
             slots == Put(d.slots, 0, row)
  <2>1. /\ d = [fat |-> d.fat, slots |-> d.slots, bytes |-> d.bytes]
        /\ d.fat \in [Cluster -> FatValue] /\ d.slots \in SlotTable /\ d.bytes \in ByteTable
    BY <1>0, DiskParts
  <2>2. i \in Slots(0) /\ d.slots[0] \in [Slots(0) -> Entry]
    BY <1>0, <1>2, <2>1, Numbers DEF Slots, SlotTable
  <2>3. row \in [Slots(0) -> Entry] /\ row[i] = e
        /\ \A j \in Slots(0) : j # i => row[j] = d.slots[0][j]
    BY <2>2 DEF Put
  <2>4. v.ok /\ v.disk = [fat |-> d.fat, slots |-> slots, bytes |-> d.bytes]
    <3>1. v.ok /\ v.disk = [d EXCEPT !.slots[0][i] = e]
      BY <1>2 DEF WriteSlot
    <3> QED BY <2>1, <3>1 DEF Put
  <2> HIDE DEF row
  <2>5. /\ slots \in SlotTable /\ slots[0] = row
        /\ \A h \in DirCluster : h # 0 => slots[h] = d.slots[h]
    <3>1. d.slots \in SlotTable /\ row \in [Slots(0) -> Entry]
      BY <2>1, <2>3
    <3> QED BY <1>0, <3>1, PutSlots
  <2> HIDE DEF slots
  <2>6. v.disk \in Disk /\ v.disk.fat = d.fat /\ v.disk.slots = slots
    <3>1. d.fat \in [Cluster -> FatValue] /\ slots \in SlotTable /\ d.bytes \in ByteTable
      BY <2>1, <2>5
    <3>2. [fat |-> d.fat, slots |-> slots, bytes |-> d.bytes] \in Disk
      BY <3>1, DiskOf
    <3> QED BY <2>4, <3>2
  <2> PICK d2 : d2 = v.disk
    OBVIOUS
  <2>7. SoundDisk(d2) /\ SameHeads(d, d2)
    BY <2>6 DEF SoundDisk, SameHeads
  <2>8. ASSUME NEW h, Dir(d, h), h # 0 PROVE SameDir(d, d2, h)
    <3>1. SameChain(d.fat, d2.fat, h)
      BY <2>6 DEF SameChain
    <3>2. \A k \in Nat : Nth(d.fat, h, k) \in Cluster => d2.slots[Nth(d.fat, h, k)] = d.slots[Nth(d.fat, h, k)]
      BY <2>5, <2>6, Numbers DEF DirCluster
    <3> QED BY <2>7, <2>8, <3>1, <3>2, DirKept
  <2>9. \A j \in Nat : /\ ReadSlot(d, 0, j) = IF j < RootEntries THEN d.slots[0][j] ELSE Blank(Missing)
                       /\ ReadSlot(d2, 0, j) = IF j < RootEntries THEN d2.slots[0][j] ELSE Blank(Missing)
    BY <1>0, <2>6, Reading
  <2>10. ReadSlot(d2, 0, i) = e
    BY <1>2, <2>3, <2>5, <2>6, <2>9
  <2>11. \A j \in Nat : j # i => ReadSlot(d2, 0, j) = ReadSlot(d, 0, j)
    <3>1. \A j \in Nat : j < RootEntries => j \in Slots(0)
      BY Numbers DEF Slots
    <3> QED BY <2>3, <2>5, <2>6, <2>9, <3>1
  <2>12. ReadSlot(d, 0, i).name # Missing
    <3>1. ReadSlot(d, 0, i) \in Entry
      BY <1>2, <2>2, <2>9
    <3> QED BY <3>1, Entries
  <2> QED BY <2>4, <2>7, <2>8, <2>10, <2>11, <2>12, Zenon DEF Wrote, Elsewhere
<1> QED BY <1>1, <1>2, Numbers

\* Where the next slot is in another cluster, it is the first one there.
LEMMA NextSlot ==
  ASSUME NEW i, i \in Nat, i # 0, NEW j, j = (i - 1) \div ClusterSlots, NEW k, k = i \div ClusterSlots, j # k
  PROVE  k = j + 1 /\ i = ClusterSlots * (j + 1)
<1>1. PICK m : m = ClusterSlots
  OBVIOUS
<1>2. m \in Nat /\ m > 0
  BY <1>1, Numbers
<1>3. PICK p \in Nat : p = i - 1
  OBVIOUS
<1>4. PICK r \in 0 .. m - 1 : r = p % m
  BY <1>2
<1>5. j \in Nat /\ p = m * j + r
  BY <1>1, <1>2, <1>3, <1>4
<1>6. PICK q \in Nat : q = m * j
  BY <1>2, <1>5
<1>7. m * (j + 1) = q + m
  BY <1>2, <1>5, <1>6
<1>8. CASE r < m - 1
  <2>1. r + 1 \in 0 .. m - 1 /\ i = m * j + (r + 1)
    BY <1>2, <1>3, <1>5, <1>6, <1>8
  <2>2. i \div m = j
    BY <1>2, <1>5, <2>1
  <2> QED BY <1>1, <2>2
<1>9. CASE r = m - 1
  <2>1. i = m * (j + 1)
    BY <1>2, <1>3, <1>5, <1>6, <1>7, <1>9
  <2>2. PICK b \in Nat : b = j + 1
    BY <1>5
  <2>3. i = m * b
    BY <2>1, <2>2
  <2>4. i \div m = b
    BY <1>2, <2>3
  <2> QED BY <1>1, <2>1, <2>2, <2>4
<1> QED BY <1>2, <1>4, <1>8, <1>9

\* A slot in a cluster that the directory has.
LEMMA WriteInside ==
  ASSUME NEW d, SoundDisk(d), NEW c, IsHead(d.fat, c), NEW i, i \in Nat, NEW e, e \in Entry,
         Nth(d.fat, c, i \div ClusterSlots) \in Cluster, NEW v, v = WriteSlot(d, c, i, e)
  PROVE  Wrote(d, v.disk, c, i, e, v.ok)
<1>0. d \in Disk /\ SoundFat(d.fat) /\ c \in Cluster /\ c # 0 /\ c \in DirCluster /\ Dir(d, c)
  BY Numbers DEF SoundDisk, IsHead, DirCluster, Dir
<1>k. PICK k \in Nat : k = i \div ClusterSlots
  BY SlotNumbers
<1>a. PICK at : at = Nth(d.fat, c, k)
  OBVIOUS
<1>n. PICK n \in 0 .. ClusterSlots - 1 : n = i % ClusterSlots
  BY SlotNumbers
<1>1. at \in Cluster /\ at # 0 /\ at \in DirCluster
  BY <1>k, <1>a, Numbers DEF DirCluster
<1>2. PICK w : w = Reach(d, c, k, TRUE)
  OBVIOUS
<1>3. w.disk = d /\ w.at = at /\ w.ok /\ w \in Walk
  <2>1. Reach(d, c, k, TRUE) = [disk |-> d, at |-> Nth(d.fat, c, k), ok |-> TRUE]
    BY <1>1, <1>a, ReachWithin
  <2>2. w = [disk |-> d, at |-> at, ok |-> TRUE]
    BY <1>2, <1>a, <2>1
  <2> QED BY <1>0, <1>1, <2>2 DEF Walk
<1>4. v = Written(w, i, e)
  BY <1>0, <1>2, <1>k DEF WriteSlot
<1>5. ReadSlot(d, c, i) = IF OnDisk(at) THEN d.slots[at][n] ELSE Blank(Missing)
  BY <1>0, <1>k, <1>a, <1>n, Reading
<1>6. CASE ~OnDisk(at)
  <2>1. ~v.ok /\ v.disk = d
    BY <1>3, <1>4, <1>6, WrittenIs
  <2>2. Wrote(d, d, c, i, e, FALSE)
    BY <1>0, <1>5, <1>6, Entries, NothingWrote
  <2> QED BY <2>1, <2>2 DEF Wrote
<1>7. CASE OnDisk(at)
  <2> PICK d2 : d2 = v.disk
    OBVIOUS
  <2>1. /\ v.ok /\ d2 \in Disk /\ d2.fat = d.fat
        /\ \A h \in DirCluster : h # at => d2.slots[h] = d.slots[h]
        /\ d2.slots[at][n] = e
        /\ \A m \in 0 .. ClusterSlots - 1 : m # n => d2.slots[at][m] = d.slots[at][m]
    <3>1. w.ok /\ OnDisk(w.at)
      BY <1>3, <1>7
    <3>2. /\ v.ok /\ v.disk \in Disk /\ v.disk.fat = w.disk.fat
          /\ \A h \in DirCluster : h # w.at => v.disk.slots[h] = w.disk.slots[h]
          /\ v.disk.slots[w.at][i % ClusterSlots] = e
          /\ \A m \in 0 .. ClusterSlots - 1 :
               m # i % ClusterSlots => v.disk.slots[w.at][m] = w.disk.slots[w.at][m]
      BY <1>3, <1>4, <3>1, WrittenIs
    <3> QED BY <1>3, <1>n, <3>2
  <2>2. SoundDisk(d2) /\ SameHeads(d, d2)
    BY <1>0, <2>1 DEF SoundDisk, SameHeads
  <2>3. ASSUME NEW h, Dir(d, h), h # c PROVE SameDir(d, d2, h)
    <3>1. SameChain(d.fat, d2.fat, h)
      BY <2>1 DEF SameChain
    <3>2. d2.slots[0] = d.slots[0]
      BY <1>1, <2>1 DEF DirCluster
    <3>3. ASSUME NEW l \in Nat, Nth(d.fat, h, l) \in Cluster, h # 0
          PROVE  d2.slots[Nth(d.fat, h, l)] = d.slots[Nth(d.fat, h, l)]
      <4>1. IsHead(d.fat, h)
        BY <2>3, <3>3 DEF Dir
      <4>2. Nth(d.fat, h, l) # at
        BY <1>0, <1>a, <2>3, <3>3, <4>1, OnePlace
      <4> QED BY <2>1, <3>3, <4>2 DEF DirCluster
    <3> QED BY <2>2, <2>3, <3>1, <3>2, <3>3, DirKept
  <2>4. ReadSlot(d2, c, i) = e
    <3>1. ReadSlot(d2, c, i) = d2.slots[at][n]
      BY <1>0, <1>7, <1>k, <1>a, <1>n, <2>1, Reading
    <3> QED BY <2>1, <3>1
  <2>5. ASSUME NEW j \in Nat, j # i PROVE ReadSlot(d2, c, j) = ReadSlot(d, c, j)
    <3>l. PICK l \in Nat : l = j \div ClusterSlots
      BY SlotNumbers
    <3>m. PICK m \in 0 .. ClusterSlots - 1 : m = j % ClusterSlots
      BY SlotNumbers
    <3>b. PICK b : b = Nth(d.fat, c, l)
      OBVIOUS
    <3>1. /\ ReadSlot(d, c, j) = IF OnDisk(b) THEN d.slots[b][m] ELSE Blank(Missing)
          /\ ReadSlot(d2, c, j) = IF OnDisk(b) THEN d2.slots[b][m] ELSE Blank(Missing)
      BY <1>0, <2>1, <3>l, <3>m, <3>b, Reading
    <3>2. CASE b # at
      BY <2>1, <3>1, <3>2 DEF OnDisk, DirCluster
    <3>3. CASE b = at
      <4>1. l = k
        BY <1>0, <1>1, <1>a, <3>b, <3>3, OnePlace
      <4>2. m # n
        BY <1>k, <1>n, <2>5, <3>l, <3>m, <4>1, SlotOrder
      <4> QED BY <2>1, <3>1, <3>3, <4>2
    <3> QED BY <3>2, <3>3
  <2>6. ReadSlot(d, c, i).name # Missing
    <3>1. ReadSlot(d, c, i) = d.slots[at][n]
      BY <1>5, <1>7
    <3>2. d.slots[at] \in [Slots(at) -> Entry] /\ Slots(at) = 0 .. ClusterSlots - 1
      BY <1>0, <1>1, DiskParts DEF SlotTable, Slots
    <3> QED BY <3>1, <3>2, Entries
  <2> QED BY <2>1, <2>2, <2>3, <2>4, <2>5, <2>6, Zenon DEF Wrote, Elsewhere
<1> QED BY <1>6, <1>7

\* The first slot behind those that can be read: the directory gets another cluster,
\* unless the FAT is full.
LEMMA WriteBehind ==
  ASSUME NEW d, SoundDisk(d), NEW c, IsHead(d.fat, c), NEW j, j \in Nat, NEW i, i = ClusterSlots * (j + 1),
         NEW at, at = Nth(d.fat, c, j), at \in Cluster, Nth(d.fat, c, j + 1) \notin Cluster,
         NEW e, e \in Entry, NEW v, v = WriteSlot(d, c, i, e)
  PROVE  Wrote(d, v.disk, c, i, e, v.ok)
<1>0. d \in Disk /\ SoundFat(d.fat) /\ c \in Cluster /\ c # 0 /\ c \in DirCluster /\ Dir(d, c)
  BY Numbers DEF SoundDisk, IsHead, DirCluster, Dir
<1>i. i \in Nat /\ i \div ClusterSlots = j + 1 /\ i % ClusterSlots = 0
  <2>1. PICK m : m = ClusterSlots
    OBVIOUS
  <2>2. m \in Nat /\ m > 0 /\ i = m * (j + 1)
    BY <2>1, Numbers
  <2>3. PICK a \in Nat : a = j + 1
    OBVIOUS
  <2>4. i = m * a
    BY <2>2, <2>3
  <2>5. i \in Nat /\ i \div m = a /\ i % m = 0
    BY <2>2, <2>4
  <2> QED BY <2>1, <2>3, <2>5
<1>1. PICK w : w = Reach(d, c, j + 1, TRUE)
  OBVIOUS
<1>2. /\ d.fat[at] \notin Cluster
      /\ FreeCluster(d) = None => ~w.ok /\ w.disk = d
      /\ FreeCluster(d) # None =>
           w.ok /\ w.at = FreeCluster(d) /\ w.disk = Zeroed(Allocated(d, at), w.at, TRUE)
  <2>1. WentOn(d, at, w, TRUE)
    BY <1>1, ReachOneMore
  <2> QED BY <2>1 DEF WentOn
<1>3. w \in Walk
  <2>1. j + 1 \in Nat
    OBVIOUS
  <2> QED BY <1>0, <1>1, <2>1, ReachSteps
<1>4. v = Written(w, i, e)
  BY <1>0, <1>1, <1>i DEF WriteSlot
<1>5. \A k \in Nat : k >= i => ReadSlot(d, c, k) = Blank(Missing)
  <2> TAKE k \in Nat
  <2> HAVE k >= i
  <2>1. PICK l \in Nat : l = k \div ClusterSlots
    BY SlotNumbers
  <2>2. l >= j + 1
    BY <1>i, <2>1, SlotOrder
  <2>3. Nth(d.fat, c, l) \notin Cluster
    <3>1. d.fat \in [Cluster -> FatValue] /\ c \in FatValue
      BY <1>0 DEF SoundFat, FatValue
    <3>2. l > j
      BY <2>2
    <3>3. \A x \in Nat : x > j => Nth(d.fat, c, x) \notin Cluster
      BY <1>2, <3>1, ChainOver
    <3> QED BY <3>2, <3>3
  <2> QED BY <1>0, <2>1, <2>3, Reading DEF OnDisk
<1>6. ReadSlot(d, c, i).name = Missing
  BY <1>5, <1>i, Entries
<1>7. CASE FreeCluster(d) = None
  <2>1. ~v.ok /\ v.disk = d
    BY <1>2, <1>3, <1>4, <1>i, <1>7, WrittenIs
  <2>2. Wrote(d, d, c, i, e, FALSE)
    BY <1>0, <1>6, <1>i, NothingWrote
  <2> QED BY <2>1, <2>2 DEF Wrote
<1>8. CASE FreeCluster(d) # None
  <2>n. PICK new : new = FreeCluster(d)
    OBVIOUS
  <2>d. PICK d1 : d1 = w.disk
    OBVIOUS
  <2>1. w.ok /\ w.at = new /\ d1 = Zeroed(Allocated(d, at), new, TRUE) /\ d1 \in Disk
    BY <1>2, <1>3, <1>8, <2>n, <2>d DEF Walk
  <2>2. Longer(d, d1, c, j, new)
    BY <1>2, <1>8, <2>1, <2>n, Grown
  <2>3. OnDisk(new) => AllZero(d1, new)
    <3>1. PICK d0 : d0 = Allocated(d, at)
      OBVIOUS
    <3>2. d0 \in Disk /\ new \in Cluster
      BY <1>0, <1>8, <2>n, <3>1, AllocatedIs
    <3>3. d1 = Zeroed(d0, new, TRUE)
      BY <2>1, <3>1
    <3> QED BY <3>2, <3>3, ZerosRead
  <2> PICK d2 : d2 = v.disk
    OBVIOUS
  <2>4. /\ v.ok <=> OnDisk(new)
        /\ d2 \in Disk /\ d2.fat = d1.fat
        /\ \A h \in DirCluster : h # new => d2.slots[h] = d1.slots[h]
        /\ ~v.ok => d2 = d1
        /\ v.ok => /\ d2.slots[new][0] = e
                   /\ \A n \in 0 .. ClusterSlots - 1 : n # 0 => d2.slots[new][n] = EndEntry
    <3>1. CASE OnDisk(new)
      <4>1. w.ok /\ OnDisk(w.at)
        BY <2>1, <3>1
      <4>2. /\ v.ok /\ v.disk \in Disk /\ v.disk.fat = w.disk.fat
            /\ \A h \in DirCluster : h # w.at => v.disk.slots[h] = w.disk.slots[h]
            /\ v.disk.slots[w.at][i % ClusterSlots] = e
            /\ \A m \in 0 .. ClusterSlots - 1 :
                 m # i % ClusterSlots => v.disk.slots[w.at][m] = w.disk.slots[w.at][m]
        BY <1>3, <1>4, <1>i, <4>1, WrittenIs
      <4>3. \A n \in 0 .. ClusterSlots - 1 : d1.slots[new][n] = EndEntry
        BY <2>3, <3>1 DEF AllZero
      <4>4. /\ v.ok /\ d2 \in Disk /\ d2.fat = d1.fat
            /\ \A h \in DirCluster : h # new => d2.slots[h] = d1.slots[h]
            /\ d2.slots[new][0] = e
            /\ \A m \in 0 .. ClusterSlots - 1 : m # 0 => d2.slots[new][m] = d1.slots[new][m]
        BY <1>i, <2>1, <2>d, <4>2, ZenonT(40)
      <4>5. \A m \in 0 .. ClusterSlots - 1 : m # 0 => d2.slots[new][m] = EndEntry
        BY <4>3, <4>4
      <4> QED BY <3>1, <4>4, <4>5
    <3>2. CASE ~OnDisk(new)
      <4>1. ~(w.ok /\ OnDisk(w.at))
        BY <2>1, <3>2
      <4>2. ~v.ok /\ v.disk = w.disk
        BY <1>3, <1>4, <1>i, <4>1, WrittenIs
      <4> QED BY <2>1, <2>d, <3>2, <4>2
    <3> QED BY <3>1, <3>2
  <2>5. SoundDisk(d2) /\ SameHeads(d, d2)
    BY <2>2, <2>4 DEF SoundDisk, SameHeads, Longer
  <2>6. /\ \A h \in DirCluster : h # new => d2.slots[h] = d.slots[h]
        /\ d.fat[new] = Free /\ new \in Cluster
    BY <2>2, <2>4 DEF Longer
  <2>7. ASSUME NEW h, IsHead(d.fat, h), NEW l \in Nat, Nth(d.fat, h, l) \in Cluster
        PROVE  Nth(d.fat, h, l) # new
    <3>1. d.fat[Nth(d.fat, h, l)] # Free
      <4>1. h \in Cluster /\ d.fat[h] # Free /\ l \in 0 .. l
        BY <2>7 DEF IsHead
      <4> QED BY <1>0, <2>7, <4>1, NthBefore
    <3> QED BY <2>6, <3>1
  <2>8. ASSUME NEW h, Dir(d, h), h # c PROVE SameDir(d, d2, h)
    <3>1. h # 0 => SameChain(d.fat, d2.fat, h)
      BY <2>2, <2>4, <2>8 DEF Dir, Longer
    <3>2. d2.slots[0] = d.slots[0]
      BY <2>6, Numbers DEF DirCluster
    <3>3. ASSUME NEW l \in Nat, Nth(d.fat, h, l) \in Cluster, h # 0
          PROVE  d2.slots[Nth(d.fat, h, l)] = d.slots[Nth(d.fat, h, l)]
      BY <2>6, <2>7, <2>8, <3>3 DEF Dir, DirCluster
    <3> QED BY <2>5, <2>8, <3>1, <3>2, <3>3, DirKept
  <2>9. ASSUME NEW k \in Nat, k < i PROVE ReadSlot(d2, c, k) = ReadSlot(d, c, k)
    <3>l. PICK l \in Nat : l = k \div ClusterSlots
      BY SlotNumbers
    <3>m. PICK m \in 0 .. ClusterSlots - 1 : m = k % ClusterSlots
      BY SlotNumbers
    <3>b. PICK b : b = Nth(d.fat, c, l)
      OBVIOUS
    <3>1. l \in 0 .. j
      <4>1. l <= j + 1
        BY <1>i, <2>9, <3>l, SlotOrder
      <4>2. l # j + 1
        <5>1. PICK m1 \in Nat : m1 = ClusterSlots
          BY Numbers
        <5>2. SUFFICES ASSUME l = j + 1 PROVE FALSE
          OBVIOUS
        <5>3. k = i + m
          BY <3>l, <3>m, <5>2, SlotNumbers
        <5> QED BY <1>i, <2>9, <5>3
      <4> QED BY <4>1, <4>2
    <3>2. Nth(d2.fat, c, l) = b
      BY <2>2, <2>4, <3>b, <3>1 DEF Longer
    <3>3. /\ ReadSlot(d, c, k) = IF OnDisk(b) THEN d.slots[b][m] ELSE Blank(Missing)
          /\ ReadSlot(d2, c, k) = IF OnDisk(b) THEN d2.slots[b][m] ELSE Blank(Missing)
      BY <1>0, <2>4, <3>2, <3>l, <3>m, <3>b, Reading
    <3>4. OnDisk(b) => d2.slots[b] = d.slots[b]
      BY <2>6, <2>7, <3>b DEF OnDisk, DirCluster
    <3> QED BY <3>3, <3>4
  <2>10. ASSUME NEW k \in Nat, k >= i
         PROVE  ReadSlot(d2, c, k) = IF k \div ClusterSlots = j + 1 /\ OnDisk(new)
                                     THEN d2.slots[new][k % ClusterSlots] ELSE Blank(Missing)
    <3>l. PICK l \in Nat : l = k \div ClusterSlots
      BY SlotNumbers
    <3>1. l >= j + 1
      BY <1>i, <2>10, <3>l, SlotOrder
    <3>2. CASE l = j + 1
      <4>1. Nth(d2.fat, c, l) = new
        BY <2>2, <2>4, <3>2 DEF Longer
      <4> QED BY <1>0, <2>4, <3>l, <3>2, <4>1, Reading
    <3>3. CASE l # j + 1
      <4>1. l > j + 1
        BY <3>1, <3>3
      <4>2. Nth(d2.fat, c, l) \notin Cluster
        BY <2>2, <2>4, <4>1 DEF Longer
      <4>3. ~OnDisk(Nth(d2.fat, c, l))
        BY <4>2 DEF OnDisk
      <4> QED BY <1>0, <2>4, <3>l, <3>3, <4>3, Reading
    <3> QED BY <3>2, <3>3
  <2>11. CASE v.ok
    <3>1. ReadSlot(d2, c, i) = e
      BY <1>i, <2>4, <2>10, <2>11
    <3>2. ASSUME NEW k \in Nat, k > i PROVE ReadSlot(d2, c, k).name \in {End, Missing}
      <4>m. PICK m \in 0 .. ClusterSlots - 1 : m = k % ClusterSlots
        BY SlotNumbers
      <4>1. CASE k \div ClusterSlots = j + 1
        <5>1. m # 0
          BY <1>i, <3>2, <4>m, <4>1, SlotOrder
        <5>2. ReadSlot(d2, c, k) = EndEntry
          BY <2>4, <2>10, <2>11, <3>2, <4>m, <4>1, <5>1
        <5> QED BY <5>2, Entries
      <4>2. CASE k \div ClusterSlots # j + 1
        <5>1. ReadSlot(d2, c, k) = Blank(Missing)
          BY <2>10, <3>2, <4>2
        <5> QED BY <5>1, Entries
      <4> QED BY <4>1, <4>2
    <3> QED BY <1>6, <2>5, <2>8, <2>9, <2>11, <3>1, <3>2, Zenon DEF Wrote, Elsewhere
  <2>12. CASE ~v.ok
    <3>1. SameDir(d, d2, c)
      <4> SUFFICES ASSUME NEW k \in Nat PROVE ReadSlot(d2, c, k) = ReadSlot(d, c, k)
        BY DEF SameDir
      <4>1. CASE k < i
        BY <2>9, <4>1
      <4>2. CASE k >= i
        BY <1>5, <2>4, <2>10, <2>12, <4>2
      <4> QED BY <1>i, <4>1, <4>2
    <3> QED BY <1>6, <2>5, <2>8, <2>12, <3>1, Zenon DEF Wrote, Elsewhere
  <2> QED BY <2>11, <2>12
<1> QED BY <1>7, <1>8

\* fat12_write_dir_entry: the slot is one that can be read, the first one or the one
\* behind one that can be read.
LEMMA WriteSlotIs ==
  ASSUME NEW d, SoundDisk(d), NEW c, Dir(d, c), NEW i, i \in Nat, NEW e, e \in Entry,
         i # 0 => ReadSlot(d, c, i - 1).name # Missing, NEW v, v = WriteSlot(d, c, i, e)
  PROVE  Wrote(d, v.disk, c, i, e, v.ok)
<1>1. CASE c = 0
  BY <1>1, WriteRoot
<1>2. CASE c # 0
  <2>0. d \in Disk /\ IsHead(d.fat, c) /\ c \in DirCluster /\ SoundFat(d.fat) /\ d.fat \in [Cluster -> FatValue]
        /\ c \in FatValue /\ c \in Cluster
    BY <1>2 DEF SoundDisk, Dir, IsHead, DirCluster, SoundFat, FatValue
  <2>k. PICK k \in Nat : k = i \div ClusterSlots
    BY SlotNumbers
  <2>1. CASE Nth(d.fat, c, k) \in Cluster
    BY <2>0, <2>1, <2>k, WriteInside
  <2>2. CASE Nth(d.fat, c, k) \notin Cluster
    <3>1. k # 0
      BY <2>0, <2>2, NthSteps
    <3>2. i # 0
      BY <2>k, <3>1, Numbers
    <3>3. PICK p \in Nat : p = i - 1
      BY <3>2
    <3>4. PICK j \in Nat : j = p \div ClusterSlots
      BY SlotNumbers
    <3>5. OnDisk(Nth(d.fat, c, j))
      <4>1. ReadSlot(d, c, p) = IF OnDisk(Nth(d.fat, c, j))
                                THEN d.slots[Nth(d.fat, c, j)][p % ClusterSlots] ELSE Blank(Missing)
        BY <1>2, <2>0, <3>4, Reading
      <4>2. ReadSlot(d, c, p).name # Missing
        BY <3>2, <3>3
      <4> QED BY <4>1, <4>2, Entries
    <3>6. j # k
      BY <2>2, <3>5 DEF OnDisk
    <3>7. k = j + 1 /\ i = ClusterSlots * (j + 1)
      BY <2>k, <3>2, <3>3, <3>4, <3>6, NextSlot
    <3> QED BY <2>0, <2>2, <3>5, <3>7, WriteBehind DEF OnDisk
  <2> QED BY <2>1, <2>2
<1> QED BY <1>1, <1>2

-----------------------------------------------------------------------------
(***************************************************************************)
(* The entries of a directory.                                             *)
(***************************************************************************)
\* The slots up to this one are read by every search.
Seen(d, c, i) == \A j \in 0 .. i : ReadSlot(d, c, j).name \notin {End, Missing}

\* The slot holds an entry: of a file, of a directory, or "." or "..".
InUse(d, c, i) == Seen(d, c, i) /\ ReadSlot(d, c, i).name # Deleted

SameSlot(d, d2, c, i) ==
  /\ InUse(d2, c, i) <=> InUse(d, c, i)
  /\ InUse(d, c, i) => ReadSlot(d2, c, i) = ReadSlot(d, c, i)

\* No entry changes, or at most the one in slot i of c.
Untouched(d, d2) ==
  SoundDisk(d2) /\ SameHeads(d, d2) /\ \A h : Dir(d, h) => \A j \in Nat : SameSlot(d, d2, h, j)

Edited(d, d2, c, i) ==
  /\ SoundDisk(d2) /\ SameHeads(d, d2)
  /\ \A h : Dir(d, h) => \A j \in Nat : h # c \/ j # i => SameSlot(d, d2, h, j)

\* What reads the same holds the same entries.
LEMMA SameEntries ==
  ASSUME NEW d, NEW d2, NEW h, SameDir(d, d2, h)
  PROVE  \A j \in Nat : SameSlot(d, d2, h, j)
BY DEF SameDir, SameSlot, InUse, Seen

\* An entry is replaced.
LEMMA EditSlot ==
  ASSUME NEW d, SoundDisk(d), NEW c, Dir(d, c), NEW i, i \in Nat, Seen(d, c, i),
         NEW e, e \in Entry, e.name # End, NEW v, v = WriteSlot(d, c, i, e)
  PROVE  Edited(d, v.disk, c, i) /\ Seen(v.disk, c, i) /\ ReadSlot(v.disk, c, i) = e
<1>1. i # 0 => ReadSlot(d, c, i - 1).name # Missing
  <2>1. i # 0 => i - 1 \in 0 .. i
    OBVIOUS
  <2> QED BY <2>1 DEF Seen
<1>2. Wrote(d, v.disk, c, i, e, v.ok)
  BY <1>1, WriteSlotIs
<1>3. ReadSlot(d, c, i).name # Missing
  <2>1. i \in 0 .. i
    OBVIOUS
  <2> QED BY <2>1 DEF Seen
<1> PICK d2 : d2 = v.disk
  OBVIOUS
<1>4. /\ Elsewhere(d, d2, c) /\ ReadSlot(d2, c, i) = e
      /\ \A j \in Nat : j # i => ReadSlot(d2, c, j) = ReadSlot(d, c, j)
  BY <1>2, <1>3 DEF Wrote
<1>5. \A j \in Nat : ReadSlot(d2, c, j).name \notin {End, Missing} <=>
                     ReadSlot(d, c, j).name \notin {End, Missing}
  <2> TAKE j \in Nat
  <2>1. CASE j = i
    <3>1. i \in 0 .. i
      OBVIOUS
    <3>2. ReadSlot(d, c, i).name \notin {End, Missing}
      BY <3>1 DEF Seen
    <3> QED BY <1>4, <2>1, <3>2, Entries
  <2>2. CASE j # i
    BY <1>4, <2>2
  <2> QED BY <2>1, <2>2
<1>6. \A j \in Nat : Seen(d2, c, j) <=> Seen(d, c, j)
  <2>1. \A j \in Nat : \A k \in 0 .. j : k \in Nat
    OBVIOUS
  <2> QED BY <1>5, <2>1 DEF Seen
<1>7. \A j \in Nat : j # i => SameSlot(d, d2, c, j)
  BY <1>4, <1>6 DEF SameSlot, InUse
<1>8. \A h : Dir(d, h) /\ h # c => \A j \in Nat : SameSlot(d, d2, h, j)
  BY <1>4, SameEntries DEF Elsewhere
<1>9. Edited(d, d2, c, i)
  BY <1>4, <1>7, <1>8, Zenon DEF Edited, Elsewhere
<1> QED BY <1>4, <1>6, <1>9

\* fat12_create_entry: v is what it returns.
Created(d, v, c, e) ==
  /\ ~v.ok => Untouched(d, v.disk)
  /\ v.ok => /\ v.slot \in Nat /\ ~InUse(d, c, v.slot)
             /\ Edited(d, v.disk, c, v.slot)
             /\ InUse(v.disk, c, v.slot) /\ ReadSlot(v.disk, c, v.slot) = e

\* A new entry: the others stay, and the search still ends behind the last one.
LEMMA CreateIs ==
  ASSUME NEW d, SoundDisk(d), NEW c, Dir(d, c), NEW e, e \in Entry, e.name \notin {End, Deleted},
         NEW v, v = Create(d, c, e)
  PROVE  Created(d, v, c, e)
<1>0. PICK i : i = FirstSlot(d, c, {End, Deleted})
  OBVIOUS
<1>1. /\ i \in Nat /\ ReadSlot(d, c, i).name \in {End, Deleted, Missing}
      /\ \A j \in Nat : j < i => ReadSlot(d, c, j).name \notin {End, Deleted, Missing}
  <2>1. FirstWith(d, c, {End, Deleted}, i)
    BY <1>0, FirstSlotIs
  <2> QED BY <2>1 DEF FirstWith
<1>2. PICK w : w = WriteSlot(d, c, i, e)
  OBVIOUS
<1>3. PICK d1 : d1 = w.disk
  OBVIOUS
<1>4. PICK x : x = WriteSlot(d1, c, i + 1, EndEntry)
  OBVIOUS
<1>5. /\ v.ok = w.ok /\ v.slot = i
      /\ v.disk = IF w.ok /\ ReadSlot(d, c, i).name = End THEN x.disk ELSE d1
  BY <1>0, <1>2, <1>3, <1>4 DEF Create
<1>6. Wrote(d, d1, c, i, e, w.ok)
  <2>1. i # 0 => ReadSlot(d, c, i - 1).name # Missing
    <3>1. i # 0 => i - 1 \in Nat /\ i - 1 < i
      BY <1>1
    <3> QED BY <1>1, <3>1
  <2> QED BY <1>1, <1>2, <1>3, <2>1, WriteSlotIs
<1>7. ~InUse(d, c, i)
  <2>1. i \in 0 .. i
    BY <1>1
  <2> QED BY <1>1, <2>1 DEF InUse, Seen
<1>8. Seen(d, c, i) <=> ReadSlot(d, c, i).name = Deleted
  <2>1. \A j \in 0 .. i : j \in Nat /\ (j < i \/ j = i)
    BY <1>1
  <2>2. i \in 0 .. i
    BY <1>1
  <2> QED BY <1>1, <2>1, <2>2 DEF Seen, End, Deleted, Missing
<1>9. e.name \notin {End, Deleted, Missing}
  BY Entries
<1>10. CASE ~w.ok
  <2>1. Elsewhere(d, d1, c) /\ SameDir(d, d1, c)
    BY <1>6, <1>10 DEF Wrote
  <2>2. \A h : Dir(d, h) => SameDir(d, d1, h)
    BY <2>1 DEF Elsewhere
  <2>3. Untouched(d, d1)
    BY <2>1, <2>2, SameEntries DEF Untouched, Elsewhere
  <2> QED BY <1>5, <1>10, <2>3 DEF Created
<1>11. CASE w.ok /\ ReadSlot(d, c, i).name = Deleted
  <2>1. v.disk = d1
    BY <1>5, <1>11 DEF End, Deleted
  <2>2. Edited(d, d1, c, i) /\ Seen(d1, c, i) /\ ReadSlot(d1, c, i) = e
    BY <1>1, <1>2, <1>3, <1>8, <1>9, <1>11, EditSlot
  <2>3. InUse(d1, c, i)
    BY <1>9, <2>2 DEF InUse
  <2> QED BY <1>1, <1>5, <1>7, <1>11, <2>1, <2>2, <2>3 DEF Created
<1>12. CASE w.ok /\ ReadSlot(d, c, i).name # Deleted
  <2> PICK d2 : d2 = v.disk
    OBVIOUS
  <2>1. /\ Elsewhere(d, d1, c) /\ ReadSlot(d1, c, i) = e
        /\ \A j \in Nat : j < i => ReadSlot(d1, c, j) = ReadSlot(d, c, j)
    <3>1. \A j \in Nat : j < i => j # i
      BY <1>1
    <3> QED BY <1>6, <1>12, <3>1 DEF Wrote
  <2>2. SoundDisk(d1) /\ Dir(d1, c)
    BY <2>1 DEF Elsewhere, Dir, SameHeads
  <2>3. Wrote(d1, x.disk, c, i + 1, EndEntry, x.ok)
    <3>1. i + 1 \in Nat /\ (i + 1) - 1 = i /\ ReadSlot(d1, c, (i + 1) - 1).name # Missing
      BY <1>1, <1>9, <2>1
    <3>2. EndEntry \in Entry
      BY Entries
    <3> QED BY <1>4, <2>2, <3>1, <3>2, WriteSlotIs
  <2>4. /\ SoundDisk(d2) /\ SameHeads(d, d2) /\ ReadSlot(d2, c, i) = e
        /\ \A h : Dir(d, h) /\ h # c => SameDir(d, d2, h)
        /\ \A j \in Nat : j < i => ReadSlot(d2, c, j) = ReadSlot(d, c, j)
        /\ ReadSlot(d2, c, i + 1).name \in {End, Missing}
    <3>1. CASE ReadSlot(d, c, i).name = End
      <4>1. d2 = x.disk
        BY <1>5, <1>12, <3>1
      <4>2. Elsewhere(d1, d2, c)
        BY <2>3, <4>1 DEF Wrote
      <4>3. SoundDisk(d2) /\ SameHeads(d, d2)
        BY <2>1, <4>2 DEF Elsewhere, SameHeads
      <4>4. \A h : Dir(d, h) => Dir(d1, h)
        BY <2>1 DEF Elsewhere, SameHeads, Dir
      <4>5. \A h : Dir(d, h) /\ h # c => SameDir(d, d2, h)
        BY <2>1, <4>2, <4>4 DEF Elsewhere, SameDir
      <4>6. \A j \in Nat : j < i + 1 => ReadSlot(d2, c, j) = ReadSlot(d1, c, j)
        <5>1. \A j \in Nat : j < i + 1 => j # i + 1
          BY <1>1
        <5> QED BY <2>3, <4>1, <5>1 DEF Wrote, SameDir
      <4>7. ReadSlot(d2, c, i + 1).name \in {End, Missing}
        <5>1. CASE x.ok
          <6>1. ReadSlot(d2, c, i + 1) = EndEntry
            BY <2>3, <4>1, <5>1 DEF Wrote
          <6> QED BY <6>1, Entries
        <5>2. CASE ~x.ok
          <6>1. SameDir(d1, d2, c) /\ ReadSlot(d1, c, i + 1).name = Missing
            BY <2>3, <4>1, <5>2 DEF Wrote
          <6>2. i + 1 \in Nat
            BY <1>1
          <6> QED BY <6>1, <6>2 DEF SameDir
        <5> QED BY <5>1, <5>2
      <4>8. i < i + 1 /\ \A j \in Nat : j < i => j < i + 1
        BY <1>1
      <4> QED BY <1>1, <2>1, <4>3, <4>5, <4>6, <4>7, <4>8
    <3>2. CASE ReadSlot(d, c, i).name = Missing
      <4>1. d2 = d1
        BY <1>5, <3>2 DEF End, Missing
      <4>2. i + 1 \in Nat /\ i + 1 > i
        BY <1>1
      <4>3. ReadSlot(d1, c, i + 1).name \in {End, Missing}
        BY <1>6, <1>12, <3>2, <4>2 DEF Wrote
      <4> QED BY <2>1, <4>1, <4>3 DEF Elsewhere
    <3> QED BY <1>1, <1>12, <3>1, <3>2
  <2>5. Seen(d2, c, i)
    <3>1. \A j \in 0 .. i : j \in Nat /\ (j < i \/ j = i)
      BY <1>1
    <3> QED BY <1>1, <1>9, <2>4, <3>1 DEF Seen
  <2>6. InUse(d2, c, i)
    BY <1>9, <2>4, <2>5 DEF InUse
  <2>7. ASSUME NEW j \in Nat, j # i PROVE SameSlot(d, d2, c, j)
    <3>1. CASE j < i
      <4>1. \A k \in 0 .. j : k \in Nat /\ k < i
        BY <1>1, <3>1
      <4> QED BY <2>4, <3>1, <4>1 DEF SameSlot, InUse, Seen
    <3>2. CASE j > i
      <4>1. i \in 0 .. j /\ i + 1 \in 0 .. j
        BY <1>1, <3>2
      <4>2. ~InUse(d, c, j)
        BY <1>1, <1>12, <4>1 DEF InUse, Seen
      <4>3. ~InUse(d2, c, j)
        BY <2>4, <4>1 DEF InUse, Seen
      <4> QED BY <4>2, <4>3 DEF SameSlot
    <3> QED BY <1>1, <2>7, <3>1, <3>2
  <2>8. \A h : Dir(d, h) /\ h # c => \A j \in Nat : SameSlot(d, d2, h, j)
    BY <2>4, SameEntries
  <2>9. Edited(d, d2, c, i)
    BY <2>4, <2>7, <2>8, Zenon DEF Edited
  <2> QED BY <1>1, <1>5, <1>7, <1>12, <2>4, <2>6, <2>9 DEF Created
<1> QED BY <1>10, <1>11, <1>12

-----------------------------------------------------------------------------
(***************************************************************************)
(* What the calls do to a disk.                                            *)
(***************************************************************************)
\* From d to d2 a free cluster becomes the chain of new.
Marks(d, d2, new) ==
  /\ new \in Cluster /\ ~IsHead(d.fat, new) /\ SoundDisk(d2)
  /\ \A h : IsHead(d2.fat, h) <=> IsHead(d.fat, h) \/ h = new
  /\ \A h : Dir(d, h) => SameDir(d, d2, h)

\* fat12_allocate_cluster for a new file or directory
LEMMA NewChain ==
  ASSUME NEW d, SoundDisk(d), NEW new, new = FreeCluster(d), new # None,
         NEW d2, d2 = Allocated(d, Free)
  PROVE  Marks(d, d2, new)
<1>0. d \in Disk /\ SoundFat(d.fat)
  BY DEF SoundDisk
<1>1. /\ new \in Cluster /\ d.fat[new] = Free /\ d2 \in Disk /\ d2.slots = d.slots
      /\ d2.fat[new] = EndOfChain /\ \A c \in Cluster : c # new => d2.fat[c] = d.fat[c]
  BY <1>0, Numbers, AllocatedIs
<1>2. d2.fat \in [Cluster -> FatValue]
  BY <1>1, DiskParts
<1>3. /\ SoundFat(d2.fat)
      /\ \A h : IsHead(d2.fat, h) <=> IsHead(d.fat, h) \/ h = new
      /\ \A h : IsHead(d.fat, h) => SameChain(d.fat, d2.fat, h)
  BY <1>0, <1>1, <1>2, Marked
<1>4. SoundDisk(d2)
  BY <1>1, <1>3 DEF SoundDisk
<1>5. ASSUME NEW h, Dir(d, h) PROVE SameDir(d, d2, h)
  BY <1>1, <1>3, <1>4, <1>5, DirKept DEF Dir
<1> QED BY <1>1, <1>3, <1>4, <1>5 DEF Marks, IsHead

\* From d to d2 the chain of x is freed, if there is one.
Frees(d, d2, x) ==
  /\ SoundDisk(d2)
  /\ \A h : IsHead(d2.fat, h) <=> IsHead(d.fat, h) /\ h # x
  /\ \A h : Dir(d2, h) => SameDir(d, d2, h)

\* fat12_free_cluster_chain
LEMMA FreedIs ==
  ASSUME NEW d, SoundDisk(d), NEW x, x = Free \/ IsHead(d.fat, x), NEW d2, d2 = Freed(d, x)
  PROVE  Frees(d, d2, x)
<1>0. d \in Disk /\ SoundFat(d.fat) /\ d.fat \in [Cluster -> FatValue]
  BY DEF SoundDisk, SoundFat
<1> DEFINE fat == [c \in Cluster |-> IF c \in Chain(d.fat, x) THEN Free ELSE d.fat[c]]
<1>1. d2 = [fat |-> fat, slots |-> d.slots, bytes |-> d.bytes]
  <2>1. d = [fat |-> d.fat, slots |-> d.slots, bytes |-> d.bytes]
    BY <1>0, DiskParts
  <2> QED BY <2>1 DEF Freed
<1>2. fat \in [Cluster -> FatValue]
  BY <1>0 DEF FatValue
<1>3. \A c \in Cluster : fat[c] = IF c \in Chain(d.fat, x) THEN Free ELSE d.fat[c]
  OBVIOUS
<1> HIDE DEF fat
<1>4. d2 \in Disk /\ d2.fat = fat /\ d2.slots = d.slots
  <2>1. d.slots \in SlotTable /\ d.bytes \in ByteTable
    BY <1>0, DiskParts
  <2>2. [fat |-> fat, slots |-> d.slots, bytes |-> d.bytes] \in Disk
    BY <1>2, <2>1, DiskOf
  <2> QED BY <1>1, <2>2
<1>5. /\ SoundFat(fat)
      /\ \A h : IsHead(fat, h) <=> IsHead(d.fat, h) /\ h # x
      /\ \A h : IsHead(d.fat, h) /\ h # x => SameChain(d.fat, fat, h)
  <2>1. CASE x = Free
    <3>1. Free \in FatValue /\ Free \notin Cluster
      BY Numbers DEF FatValue
    <3>2. Chain(d.fat, x) = {}
      BY <1>0, <2>1, <3>1, NoChain
    <3>3. fat = d.fat
      BY <1>0, <1>2, <1>3, <3>2
    <3> QED BY <1>0, <2>1, <3>1, <3>3 DEF IsHead, SameChain
  <2>2. CASE IsHead(d.fat, x)
    BY <1>0, <1>2, <1>3, <2>2, Cut
  <2> QED BY <2>1, <2>2
<1>6. SoundDisk(d2)
  BY <1>4, <1>5 DEF SoundDisk
<1>7. ASSUME NEW h, Dir(d2, h) PROVE SameDir(d, d2, h)
  <2>1. Dir(d, h) /\ (h # 0 => SameChain(d.fat, d2.fat, h))
    BY <1>4, <1>5, <1>7 DEF Dir
  <2>2. d2.slots = d.slots
    BY <1>4
  <2> QED BY <1>6, <2>1, <2>2, DirKept
<1> QED BY <1>4, <1>5, <1>6, <1>7 DEF Frees

\* A new directory has the entries "." and "..", or none if it cannot be read.
Inited(d, d2, c, parent) ==
  /\ Elsewhere(d, d2, c)
  /\ OnDisk(c) => /\ InUse(d2, c, 0) /\ ReadSlot(d2, c, 0).name = "." /\ ReadSlot(d2, c, 0).first = c
                  /\ InUse(d2, c, 1) /\ ReadSlot(d2, c, 1).name = ".."
                  /\ ReadSlot(d2, c, 1).first = parent
  /\ \A j \in Nat : InUse(d2, c, j) => OnDisk(c) /\ j \in {0, 1}

\* One after the other.
LEMMA ElsewhereTwice ==
  ASSUME NEW d, NEW d1, NEW d2, NEW c, Elsewhere(d, d1, c), Elsewhere(d1, d2, c)
  PROVE  Elsewhere(d, d2, c)
<1>1. \A h : Dir(d, h) => Dir(d1, h)
  BY DEF Elsewhere, SameHeads, Dir
<1>2. SoundDisk(d2) /\ SameHeads(d, d2)
  BY DEF Elsewhere, SameHeads
<1>3. \A h : Dir(d, h) /\ h # c => SameDir(d, d2, h)
  BY <1>1 DEF Elsewhere, SameDir
<1> QED BY <1>2, <1>3 DEF Elsewhere

\* A slot in the first cluster of a directory.
LEMMA WriteFirst ==
  ASSUME NEW d, SoundDisk(d), NEW c, IsHead(d.fat, c), NEW i \in {0, 1, 2}, NEW e, e \in Entry,
         NEW v, v = WriteSlot(d, c, i, e)
  PROVE  /\ Elsewhere(d, v.disk, c) /\ IsHead(v.disk.fat, c)
         /\ OnDisk(c) => /\ ReadSlot(v.disk, c, i) = e
                         /\ \A j \in Nat : j # i => ReadSlot(v.disk, c, j) = ReadSlot(d, c, j)
<1>0. d \in Disk /\ d.fat \in [Cluster -> FatValue] /\ c \in Cluster /\ c \in FatValue /\ c # 0
      /\ c \in DirCluster
  BY Numbers DEF SoundDisk, SoundFat, IsHead, FatValue, DirCluster
<1>1. i \in Nat /\ i \div ClusterSlots = 0 /\ i % ClusterSlots = i /\ i \in 0 .. ClusterSlots - 1
  <2>1. PICK m \in Nat : m = ClusterSlots
    BY Numbers
  <2>2. m >= 3
    BY <2>1, Numbers
  <2> QED BY <2>1, <2>2
<1>2. Nth(d.fat, c, 0) = c
  BY <1>0, NthSteps
<1>3. Wrote(d, v.disk, c, i, e, v.ok)
  BY <1>0, <1>1, <1>2, WriteInside
<1>4. Elsewhere(d, v.disk, c) /\ IsHead(v.disk.fat, c)
  BY <1>3 DEF Wrote, Elsewhere, SameHeads
<1>5. ASSUME OnDisk(c) PROVE ReadSlot(d, c, i).name # Missing
  <2>1. ReadSlot(d, c, i) = d.slots[c][i]
    BY <1>0, <1>1, <1>2, <1>5, Reading
  <2>2. d.slots[c] \in [Slots(c) -> Entry] /\ Slots(c) = 0 .. ClusterSlots - 1
    BY <1>0, DiskParts DEF SlotTable, Slots
  <2> QED BY <1>1, <2>1, <2>2, Entries
<1> QED BY <1>3, <1>4, <1>5 DEF Wrote

\* fat12_init_dir_cluster
LEMMA InitDirIs ==
  ASSUME NEW d, SoundDisk(d), NEW c, IsHead(d.fat, c), NEW parent, parent \in DirCluster,
         NEW v, v = InitDir(d, c, parent)
  PROVE  Inited(d, v, c, parent)
<1>0. c \in Cluster /\ c # 0 /\ c \in DirCluster
  BY Numbers DEF IsHead, DirCluster
<1> DEFINE dot(name, first) == [name |-> name, dir |-> TRUE, first |-> first, size |-> 0]
<1>d. PICK e1 : e1 = dot(".", c)
  OBVIOUS
<1>e. PICK e2 : e2 = dot("..", parent)
  OBVIOUS
<1>f. /\ e1 \in Entry /\ e1.name = "." /\ e1.first = c
      /\ e2 \in Entry /\ e2.name = ".." /\ e2.first = parent
  BY <1>0, <1>d, <1>e DEF Entry, Live, Special, DirCluster, Free
<1>1. PICK v1 : v1 = WriteSlot(d, c, 0, e1)
  OBVIOUS
<1>2. PICK d1 : d1 = v1.disk
  OBVIOUS
<1>3. PICK v2 : v2 = WriteSlot(d1, c, 1, e2)
  OBVIOUS
<1>4. PICK d2 : d2 = v2.disk
  OBVIOUS
<1>5. PICK v3 : v3 = WriteSlot(d2, c, 2, EndEntry)
  OBVIOUS
<1>6. PICK d3 : d3 = v3.disk
  OBVIOUS
<1>7. v = d3
  BY <1>d, <1>e, <1>1, <1>2, <1>3, <1>4, <1>5, <1>6 DEF InitDir
<1> HIDE DEF dot
<1>8. /\ Elsewhere(d, d1, c) /\ IsHead(d1.fat, c)
      /\ OnDisk(c) => /\ ReadSlot(d1, c, 0) = e1
                      /\ \A j \in Nat : j # 0 => ReadSlot(d1, c, j) = ReadSlot(d, c, j)
  BY <1>f, <1>1, <1>2, WriteFirst
<1>9. /\ Elsewhere(d1, d2, c) /\ IsHead(d2.fat, c)
      /\ OnDisk(c) => /\ ReadSlot(d2, c, 1) = e2
                      /\ \A j \in Nat : j # 1 => ReadSlot(d2, c, j) = ReadSlot(d1, c, j)
  <2>1. SoundDisk(d1)
    BY <1>8 DEF Elsewhere
  <2> QED BY <1>f, <1>3, <1>4, <1>8, <2>1, WriteFirst
<1>10. /\ Elsewhere(d2, d3, c) /\ IsHead(d3.fat, c)
       /\ OnDisk(c) => /\ ReadSlot(d3, c, 2) = EndEntry
                       /\ \A j \in Nat : j # 2 => ReadSlot(d3, c, j) = ReadSlot(d2, c, j)
  <2>1. SoundDisk(d2) /\ EndEntry \in Entry
    BY <1>9, Entries DEF Elsewhere
  <2> QED BY <1>5, <1>6, <1>9, <2>1, WriteFirst
<1>11. Elsewhere(d, d3, c)
  BY <1>8, <1>9, <1>10, ElsewhereTwice
<1>12. CASE OnDisk(c)
  <2>1. ReadSlot(d3, c, 0) = e1 /\ ReadSlot(d3, c, 1) = e2 /\ ReadSlot(d3, c, 2) = EndEntry
    BY <1>8, <1>9, <1>10, <1>12
  <2>2. \A j \in 0 .. 0 : j = 0
    OBVIOUS
  <2>3. \A j \in 0 .. 1 : j \in {0, 1}
    OBVIOUS
  <2>4. /\ e1.name \notin {End, Missing, Deleted}
        /\ e2.name \notin {End, Missing, Deleted}
    BY <1>f DEF End, Missing, Deleted
  <2>5. Seen(d3, c, 0) /\ Seen(d3, c, 1)
    BY <2>1, <2>2, <2>3, <2>4 DEF Seen
  <2>6. InUse(d3, c, 0) /\ InUse(d3, c, 1)
    BY <2>1, <2>4, <2>5 DEF InUse
  <2>7. ASSUME NEW j \in Nat, InUse(d3, c, j) PROVE j \in {0, 1}
    <3>1. SUFFICES ASSUME j \notin {0, 1} PROVE FALSE
      OBVIOUS
    <3>2. 2 \in 0 .. j
      BY <3>1
    <3> QED BY <2>1, <2>7, <3>2, Entries DEF InUse, Seen
  <2> QED BY <1>f, <1>7, <1>11, <1>12, <2>1, <2>6, <2>7, Zenon DEF Inited
<1>13. CASE ~OnDisk(c)
  <2>1. ASSUME NEW j \in Nat, InUse(d3, c, j) PROVE FALSE
    <3>1. d3 \in Disk /\ d3.fat \in [Cluster -> FatValue] /\ c \in FatValue
      BY <1>0, <1>11 DEF Elsewhere, SoundDisk, SoundFat, FatValue
    <3>2. Nth(d3.fat, c, 0) = c
      BY <3>1, NthSteps
    <3>3. 0 \div ClusterSlots = 0 /\ 0 \in Nat
      BY Numbers
    <3>4. ReadSlot(d3, c, 0) = Blank(Missing)
      BY <1>0, <1>13, <3>1, <3>2, <3>3, Reading
    <3>5. 0 \in 0 .. j
      OBVIOUS
    <3> QED BY <2>1, <3>4, <3>5, Entries DEF InUse, Seen
  <2> QED BY <1>7, <1>11, <1>13, <2>1, Zenon DEF Inited
<1> QED BY <1>12, <1>13

\* The entry in slot i of c becomes e.
Replaced(d, d2, c, i, e) ==
  Edited(d, d2, c, i) /\ InUse(d2, c, i) /\ ReadSlot(d2, c, i) = e

\* An entry with another one of its fields.
LEMMA OtherFirst ==
  ASSUME NEW e, e \in Entry, NEW x, x \in DirCluster, NEW f, f = [e EXCEPT !.first = x]
  PROVE  f \in Entry /\ f.name = e.name /\ f.dir = e.dir /\ f.first = x /\ f.size = e.size
BY DEF Entry, DirCluster, Free

\* An entry with another size.
LEMMA OtherSize ==
  ASSUME NEW e, e \in Entry, NEW x, x \in Nat, NEW f, f = [e EXCEPT !.size = x]
  PROVE  f \in Entry /\ f.name = e.name /\ f.dir = e.dir /\ f.first = e.first /\ f.size = x
BY DEF Entry

\* An entry in use can be read.
LEMMA InUseIs ==
  ASSUME NEW d, d \in Disk, NEW c, c \in DirCluster, NEW i, i \in Nat, InUse(d, c, i)
  PROVE  /\ Seen(d, c, i) /\ ReadSlot(d, c, i) \in Entry
         /\ ReadSlot(d, c, i).name \notin {End, Missing, Deleted}
<1>1. i \in 0 .. i
  OBVIOUS
<1>2. ReadSlot(d, c, i).name \notin {End, Missing, Deleted}
  BY <1>1 DEF InUse, Seen
<1> QED BY <1>2, Reading DEF InUse

\* Writing over an entry in use.
LEMMA ReplaceIs ==
  ASSUME NEW d, SoundDisk(d), NEW c, Dir(d, c), NEW i, i \in Nat, InUse(d, c, i),
         NEW e, e \in Entry, e.name \notin {End, Deleted}, NEW d2, d2 = WriteSlot(d, c, i, e).disk
  PROVE  Replaced(d, d2, c, i, e)
<1>0. PICK v : v = WriteSlot(d, c, i, e)
  OBVIOUS
<1>1. Seen(d, c, i)
  BY DEF InUse
<1>2. Edited(d, v.disk, c, i) /\ Seen(v.disk, c, i) /\ ReadSlot(v.disk, c, i) = e
  BY <1>0, <1>1, EditSlot
<1> QED BY <1>0, <1>2 DEF Replaced, InUse

\* The old entry is marked deleted.
LEMMA ErasedIs ==
  ASSUME NEW d, SoundDisk(d), NEW found, NEW c, c = found.dir, Dir(d, c), NEW i, i = found.slot, i \in Nat,
         InUse(d, c, i), NEW d2, d2 = Erased(d, found)
  PROVE  Edited(d, d2, c, i) /\ ~InUse(d2, c, i)
<1>0. PICK v : v = WriteSlot(d, c, i, Blank(Deleted))
  OBVIOUS
<1>1. Seen(d, c, i)
  BY DEF InUse
<1>2. Blank(Deleted) \in Entry /\ Blank(Deleted).name # End /\ Blank(Deleted).name = Deleted
  BY Entries DEF End, Deleted
<1>3. Edited(d, v.disk, c, i) /\ ReadSlot(v.disk, c, i) = Blank(Deleted)
  BY <1>0, <1>1, <1>2, EditSlot
<1>4. d2 = v.disk
  BY <1>0 DEF Erased
<1> QED BY <1>2, <1>3, <1>4 DEF InUse

\* The ".." of a directory is set, if it can be read.
LEMMA ReparentedIs ==
  ASSUME NEW d, SoundDisk(d), NEW c, Dir(d, c), ReadSlot(d, c, 1).name = Missing \/ InUse(d, c, 1),
         NEW parent, parent \in DirCluster, NEW d2, d2 = Reparented(d, c, parent)
  PROVE  \/ ReadSlot(d, c, 1).name = Missing /\ d2 = d
         \/ /\ InUse(d, c, 1) /\ Edited(d, d2, c, 1) /\ InUse(d2, c, 1)
            /\ ReadSlot(d2, c, 1).name = ReadSlot(d, c, 1).name /\ ReadSlot(d2, c, 1).first = parent
<1>1. CASE ReadSlot(d, c, 1).name = Missing
  BY <1>1 DEF Reparented
<1>2. CASE ReadSlot(d, c, 1).name # Missing
  <2>0. d \in Disk /\ c \in DirCluster
    BY DEF SoundDisk, Dir, DirCluster, IsHead
  <2>1. PICK e : e = ReadSlot(d, c, 1)
    OBVIOUS
  <2>2. PICK f : f = [e EXCEPT !.first = parent]
    OBVIOUS
  <2>3. InUse(d, c, 1) /\ e \in Entry /\ e.name \notin {End, Missing, Deleted}
    BY <1>2, <2>0, <2>1, InUseIs
  <2>4. f \in Entry /\ f.name = e.name /\ f.first = parent
    BY <2>2, <2>3, OtherFirst
  <2>5. d2 = WriteSlot(d, c, 1, f).disk
    BY <1>2, <2>1, <2>2 DEF Reparented
  <2>6. Replaced(d, d2, c, 1, f)
    BY <2>3, <2>4, <2>5, ReplaceIs
  <2> QED BY <2>1, <2>3, <2>4, <2>6 DEF Replaced
<1> QED BY <1>1, <1>2

\* A handle's entry with another first cluster or another size.
Patches(d, d2, c, i, first, size) ==
  /\ Edited(d, d2, c, i) /\ InUse(d2, c, i)
  /\ ReadSlot(d2, c, i).name = ReadSlot(d, c, i).name /\ ReadSlot(d2, c, i).dir = ReadSlot(d, c, i).dir
  /\ ReadSlot(d2, c, i).first = first /\ ReadSlot(d2, c, i).size = size

\* fat12_write enters the first cluster of a file; the rest of its entry stays.
LEMMA PatchFirst ==
  ASSUME NEW d, SoundDisk(d), NEW file, NEW c, c = file.parent_cluster, Dir(d, c),
         NEW i, i = file.entry_idx, i \in Nat, InUse(d, c, i), NEW x, x \in Cluster,
         NEW d2, d2 = Patched(d, file, "first", x)
  PROVE  Patches(d, d2, c, i, x, ReadSlot(d, c, i).size)
<1>0. d \in Disk /\ c \in DirCluster
  BY DEF SoundDisk, Dir, DirCluster, IsHead
<1>1. PICK e : e = ReadSlot(d, c, i)
  OBVIOUS
<1>2. PICK f : f = [e EXCEPT !.first = x]
  OBVIOUS
<1>3. e \in Entry /\ e.name \notin {End, Missing, Deleted}
  BY <1>0, <1>1, InUseIs
<1>4. f \in Entry /\ f.name = e.name /\ f.dir = e.dir /\ f.first = x /\ f.size = e.size
  <2>1. x \in DirCluster
    BY DEF DirCluster
  <2> QED BY <1>2, <1>3, <2>1, OtherFirst
<1>5. d2 = WriteSlot(d, c, i, f).disk
  <2>1. f = Changed(e, "first", x)
    BY <1>2 DEF Changed
  <2> QED BY <1>1, <1>3, <2>1 DEF Patched
<1>6. Replaced(d, d2, c, i, f)
  BY <1>3, <1>4, <1>5, ReplaceIs
<1> QED BY <1>1, <1>4, <1>6 DEF Replaced, Patches

\* fat12_write enters the size of a file; the rest of its entry stays.
LEMMA PatchSize ==
  ASSUME NEW d, SoundDisk(d), NEW file, NEW c, c = file.parent_cluster, Dir(d, c),
         NEW i, i = file.entry_idx, i \in Nat, InUse(d, c, i), NEW x, x \in Nat,
         NEW d2, d2 = Patched(d, file, "size", x)
  PROVE  Patches(d, d2, c, i, ReadSlot(d, c, i).first, x)
<1>0. d \in Disk /\ c \in DirCluster
  BY DEF SoundDisk, Dir, DirCluster, IsHead
<1>1. PICK e : e = ReadSlot(d, c, i)
  OBVIOUS
<1>2. PICK f : f = [e EXCEPT !.size = x]
  OBVIOUS
<1>3. e \in Entry /\ e.name \notin {End, Missing, Deleted}
  BY <1>0, <1>1, InUseIs
<1>4. f \in Entry /\ f.name = e.name /\ f.dir = e.dir /\ f.first = e.first /\ f.size = x
  BY <1>2, <1>3, OtherSize
<1>5. d2 = WriteSlot(d, c, i, f).disk
  <2>1. f = Changed(e, "size", x)
    BY <1>2 DEF Changed
  <2> QED BY <1>1, <1>3, <2>1 DEF Patched
<1>6. Replaced(d, d2, c, i, f)
  BY <1>3, <1>4, <1>5, ReplaceIs
<1> QED BY <1>1, <1>4, <1>6 DEF Replaced, Patches

\* A walk along a file's chain, and where it has come to.
Reached(d, w, h) ==
  /\ w \in Walk /\ Elsewhere(d, w.disk, h)
  /\ \E j \in Nat : w.at = Nth(w.disk.fat, h, j)

\* A chain that gets longer is no directory's but its own.
LEMMA LongerIs ==
  ASSUME NEW d, SoundDisk(d), NEW d2, NEW h, IsHead(d.fat, h), NEW j, NEW new, Longer(d, d2, h, j, new)
  PROVE  Elsewhere(d, d2, h)
<1>0. SoundFat(d.fat) /\ SoundDisk(d2) /\ SameHeads(d, d2) /\ new \in Cluster /\ d.fat[new] = Free
      /\ \A e \in DirCluster : e # new => d2.slots[e] = d.slots[e]
  BY DEF SoundDisk, Longer
<1>1. ASSUME NEW g, Dir(d, g), g # h PROVE SameDir(d, d2, g)
  <2>1. g # 0 => SameChain(d.fat, d2.fat, g)
    BY <1>1 DEF Dir, Longer
  <2>2. d2.slots[0] = d.slots[0]
    BY <1>0, Numbers DEF DirCluster
  <2>3. ASSUME NEW l \in Nat, Nth(d.fat, g, l) \in Cluster, g # 0
        PROVE  d2.slots[Nth(d.fat, g, l)] = d.slots[Nth(d.fat, g, l)]
    <3>1. g \in Cluster /\ d.fat[g] # Free /\ l \in 0 .. l
      BY <1>1, <2>3 DEF Dir, IsHead
    <3>2. d.fat[Nth(d.fat, g, l)] # Free
      BY <1>0, <2>3, <3>1, NthBefore
    <3> QED BY <1>0, <2>3, <3>2 DEF DirCluster
  <2> QED BY <1>0, <1>1, <2>1, <2>2, <2>3, DirKept
<1> QED BY <1>0, <1>1 DEF Elsewhere

\* fat12_write's walk to the cluster at the cursor
LEMMA ReachFile ==
  ASSUME NEW d, SoundDisk(d), NEW h, IsHead(d.fat, h)
  PROVE  \A k \in Nat : Reached(d, Reach(d, h, k, FALSE), h)
<1>0. d \in Disk /\ h \in Cluster
  BY DEF SoundDisk, IsHead
<1> DEFINE W(k) == Reach(d, h, k, FALSE)
           P(k) == Reached(d, W(k), h)
           X == {k \in Nat : P(k)}
<1>1. 0 \in X
  <2>1. W(0) = [disk |-> d, at |-> h, ok |-> TRUE]
    BY <1>0, ReachSteps
  <2>w. PICK w : w = W(0)
    OBVIOUS
  <2>2. w \in Walk /\ w.disk = d /\ w.at = h
    <3>1. w = [disk |-> d, at |-> h, ok |-> TRUE]
      BY <2>1, <2>w
    <3> QED BY <1>0, <3>1 DEF Walk
  <2>3. Nth(d.fat, h, 0) = h
    <3>1. d.fat \in [Cluster -> FatValue] /\ h \in FatValue
      BY <1>0, DiskParts DEF FatValue
    <3> QED BY <3>1, NthSteps
  <2>4. Elsewhere(d, d, h)
    BY DEF Elsewhere, SameHeads, SameDir
  <2>5. Reached(d, w, h)
    BY <2>2, <2>3, <2>4 DEF Reached
  <2> QED BY <2>5, <2>w
<1>2. ASSUME NEW k \in Nat, k \in X PROVE k + 1 \in X
  <2>1. PICK w : w = W(k)
    OBVIOUS
  <2>2. PICK v : v = W(k + 1)
    OBVIOUS
  <2>3. v = Hop(w, FALSE) /\ w \in Walk
    BY <1>0, <2>1, <2>2, ReachSteps
  <2>4. Reached(d, w, h)
    BY <1>2, <2>1
  <2>5. PICK j \in Nat : w.at = Nth(w.disk.fat, h, j)
    BY <2>4 DEF Reached
  <2>6. PICK e : e = w.disk
    OBVIOUS
  <2>7. SoundDisk(e) /\ IsHead(e.fat, h) /\ w.at \in Cluster /\ e \in Disk /\ h \in FatValue
        /\ e.fat \in [Cluster -> FatValue]
    BY <1>0, <2>3, <2>4, <2>6 DEF Reached, Elsewhere, SameHeads, Walk, SoundDisk, SoundFat, FatValue
  <2>h. Hopped(w, v, FALSE)
    BY <2>3, HopIs
  <2>8. /\ v \in Walk
        /\ ~w.ok => v = w
        /\ w.ok /\ w.disk.fat[w.at] \in Cluster =>
             v.ok /\ v.at = w.disk.fat[w.at] /\ v.disk = w.disk
        /\ w.ok /\ w.disk.fat[w.at] \notin Cluster /\ FreeCluster(w.disk) = None =>
             ~v.ok /\ v.at = w.at /\ v.disk = w.disk
        /\ w.ok /\ w.disk.fat[w.at] \notin Cluster /\ FreeCluster(w.disk) # None =>
             v.ok /\ v.at = FreeCluster(w.disk) /\ v.disk = Zeroed(Allocated(w.disk, w.at), v.at, FALSE)
    BY <2>h DEF Hopped
  <2>y. Reached(d, v, h) => P(k + 1)
    BY <2>2
  <2>x. Reached(d, v, h) => k + 1 \in X
    <3> HIDE DEF P
    <3> QED BY <2>y
  <2> HIDE DEF X, W
  <2>9. CASE ~w.ok
    BY <2>x, <2>4, <2>8, <2>9
  <2>10. CASE w.ok /\ e.fat[w.at] \in Cluster
    <3>1. Nth(e.fat, h, j + 1) = e.fat[w.at] /\ j + 1 \in Nat
      <4>1. PICK at : at = w.at
        OBVIOUS
      <4>2. Nth(e.fat, h, j) = at
        BY <2>5, <2>6, <4>1
      <4>3. Nth(e.fat, h, j + 1) = IF at \in Cluster THEN e.fat[at] ELSE EndOfChain
        BY <2>7, <4>2, NthNext
      <4> QED BY <2>7, <4>1, <4>3
    <3>2. v.at = Nth(v.disk.fat, h, j + 1) /\ v.disk = e
      BY <2>6, <2>8, <2>10, <3>1
    <3>3. Reached(d, v, h)
      BY <2>4, <2>6, <2>8, <3>1, <3>2 DEF Reached
    <3> QED BY <2>x, <3>3
  <2>11. CASE w.ok /\ e.fat[w.at] \notin Cluster /\ FreeCluster(e) = None
    <3>1. v.at = w.at /\ v.disk = w.disk
      BY <2>6, <2>8, <2>11
    <3>2. Reached(d, v, h)
      BY <2>4, <2>8, <3>1 DEF Reached
    <3> QED BY <2>x, <3>2
  <2>12. CASE w.ok /\ e.fat[w.at] \notin Cluster /\ FreeCluster(e) # None
    <3>1. PICK at : at = w.at
      OBVIOUS
    <3>2. PICK new : new = FreeCluster(e)
      OBVIOUS
    <3>3. PICK e2 : e2 = v.disk
      OBVIOUS
    <3>4. v.at = new /\ e2 = Zeroed(Allocated(e, at), new, FALSE)
      BY <2>6, <2>8, <2>12, <3>1, <3>2, <3>3
    <3>5. at = Nth(e.fat, h, j) /\ at \in Cluster /\ e.fat[at] \notin Cluster /\ new # None
      BY <2>5, <2>6, <2>7, <2>12, <3>1, <3>2
    <3>6. Longer(e, e2, h, j, new)
      BY <2>7, <3>2, <3>4, <3>5, Grown
    <3>7. Elsewhere(e, e2, h)
      BY <2>7, <3>6, LongerIs
    <3>8. Elsewhere(d, e2, h)
      BY <2>4, <2>6, <3>7, ElsewhereTwice DEF Reached
    <3>9. Nth(e2.fat, h, j + 1) = new /\ j + 1 \in Nat
      BY <3>6 DEF Longer
    <3>10. Reached(d, v, h)
      BY <2>8, <3>3, <3>4, <3>8, <3>9 DEF Reached
    <3> QED BY <2>x, <3>10
  <2> QED BY <2>6, <2>9, <2>10, <2>11, <2>12
<1> HIDE DEF X
<1>3. \A k \in Nat : k \in X
  BY <1>1, <1>2, AllNumbers
<1> QED BY <1>3 DEF X

\* Data is written to a cluster of a file's chain.
LEMMA DataElsewhere ==
  ASSUME NEW d, SoundDisk(d), NEW h, IsHead(d.fat, h), NEW j, j \in Nat, NEW c, c = Nth(d.fat, h, j),
         c \in Cluster, NEW d2, d2 \in Disk, d2.fat = d.fat,
         \A e \in DirCluster : e # c => d2.slots[e] = d.slots[e]
  PROVE  Elsewhere(d, d2, h)
<1>0. SoundFat(d.fat) /\ SoundDisk(d2) /\ SameHeads(d, d2)
  BY DEF SoundDisk, SameHeads
<1>1. ASSUME NEW g, Dir(d, g), g # h PROVE SameDir(d, d2, g)
  <2>1. SameChain(d.fat, d2.fat, g)
    BY DEF SameChain
  <2>2. d2.slots[0] = d.slots[0]
    BY Numbers DEF DirCluster
  <2>3. ASSUME NEW l \in Nat, Nth(d.fat, g, l) \in Cluster, g # 0
        PROVE  d2.slots[Nth(d.fat, g, l)] = d.slots[Nth(d.fat, g, l)]
    <3>1. IsHead(d.fat, g)
      BY <1>1, <2>3 DEF Dir
    <3>2. Nth(d.fat, g, l) # c
      BY <1>0, <1>1, <2>3, <3>1, OnePlace
    <3> QED BY <2>3, <3>2 DEF DirCluster
  <2> QED BY <1>0, <1>1, <2>1, <2>2, <2>3, DirKept
<1> QED BY <1>0, <1>1 DEF Elsewhere

-----------------------------------------------------------------------------
(***************************************************************************)
(* The tree.  D are the first clusters of its directories.                 *)
(***************************************************************************)
\* The entry of a file or of a directory.
Listed(d, c, i) == InUse(d, c, i) /\ ReadSlot(d, c, i).name \notin {".", ".."}

Directories(d, D) == SoundDisk(d) /\ D \subseteq DirCluster /\ 0 \in D /\ \A c \in D : Dir(d, c)

\* An entry leads to a directory, or to a file: to a chain that is no directory's.
Proper(d, D, e) ==
  /\ e.name \in Name
  /\ e.dir => e.first \in D /\ e.first # 0
  /\ ~e.dir => e.first = Free \/ (IsHead(d.fat, e.first) /\ e.first \notin D)

AllProper(d, D) ==
  \A c \in D : \A i \in Nat : Listed(d, c, i) => Proper(d, D, ReadSlot(d, c, i))

\* Two entries are of different names or in different directories, and have different chains.
Apart(d, b, i, c, j) ==
  /\ ReadSlot(d, b, i).first = ReadSlot(d, c, j).first => ReadSlot(d, b, i).first = Free
  /\ b = c => ReadSlot(d, b, i).name # ReadSlot(d, c, j).name

AllApart(d, D) ==
  \A b, c \in D : \A i, j \in Nat :
    Listed(d, b, i) /\ Listed(d, c, j) /\ (b # c \/ i # j) => Apart(d, b, i, c, j)

\* A directory starts with "." and "..".
Dots(d, c) ==
  /\ InUse(d, c, 0) /\ ReadSlot(d, c, 0).name = "." /\ ReadSlot(d, c, 0).first = c
  /\ InUse(d, c, 1) /\ ReadSlot(d, c, 1).name = ".."

Dotted(d, D) == \A c \in D : c # 0 /\ OnDisk(c) => Dots(d, c)

\* The ".." of a directory leads to the one with its entry.
LeadsBack(d, c, i) ==
  ReadSlot(d, c, i).dir /\ OnDisk(ReadSlot(d, c, i).first) =>
    ReadSlot(d, ReadSlot(d, c, i).first, 1).first = c

AllLeadBack(d, D) == \A c \in D : \A i \in Nat : Listed(d, c, i) => LeadsBack(d, c, i)

IsTree(d, D) ==
  Directories(d, D) /\ AllProper(d, D) /\ AllApart(d, D) /\ Dotted(d, D) /\ AllLeadBack(d, D)

\* An entry in the directory at c leads to h.
Leads(d, c, h) == \E i \in Nat : Listed(d, c, i) /\ ReadSlot(d, c, i).first = h

\* Every chain has an entry, and the entries lead from the root to every directory: a set
\* of directories without the root is entered from outside.
Owned(d, D) == \A h : IsHead(d.fat, h) => \E c \in D : Leads(d, c, h)
Entrance(d, D, X) == \E h \in X : \E c \in D \ X : Leads(d, c, h)
Whole(d, D) ==
  Owned(d, D) /\ \A X : X \subseteq D /\ 0 \notin X /\ X # {} => Entrance(d, D, X)

\* From d to d2 nothing changes in the directories of D but, perhaps, the slots in X.
Changes(d, d2, D, X) ==
  \A c \in D : \A i \in Nat : <<c, i>> \notin X => SameSlot(d, d2, c, i)

\* What the other entries lead to is still there.
Remain(d, d2, D, X) ==
  \A c \in D : \A i \in Nat : <<c, i>> \notin X /\ Listed(d, c, i) =>
    /\ ReadSlot(d, c, i).dir => ReadSlot(d, c, i).first \in D
    /\ ~ReadSlot(d, c, i).dir /\ ReadSlot(d, c, i).first # Free => IsHead(d2.fat, ReadSlot(d, c, i).first)

\* The entries in X fit with the others.
Fit(d, D, X) ==
  \A c \in D : \A i \in Nat : <<c, i>> \in X /\ Listed(d, c, i) =>
    /\ Proper(d, D, ReadSlot(d, c, i))
    /\ \A b \in D : \A j \in Nat : Listed(d, b, j) /\ (b # c \/ j # i) => Apart(d, c, i, b, j)

\* An entry that stays stays a file's or a directory's.
LEMMA SameListed ==
  ASSUME NEW d, NEW d2, NEW c, NEW i, SameSlot(d, d2, c, i)
  PROVE  /\ Listed(d2, c, i) <=> Listed(d, c, i)
         /\ Listed(d, c, i) => ReadSlot(d2, c, i) = ReadSlot(d, c, i)
BY DEF Listed, SameSlot

\* A change leaves a tree if the new entries fit.
LEMMA TreeAfter ==
  ASSUME NEW d, NEW D, IsTree(d, D), NEW d2, NEW D2, D2 \subseteq D, Directories(d2, D2),
         NEW X, Changes(d, d2, D2, X), Remain(d, d2, D2, X), Fit(d2, D2, X),
         Dotted(d2, D2), AllLeadBack(d2, D2)
  PROVE  IsTree(d2, D2)
<1>1. ASSUME NEW c \in D2, NEW i \in Nat, <<c, i>> \notin X
      PROVE  /\ Listed(d2, c, i) <=> Listed(d, c, i)
             /\ Listed(d, c, i) => ReadSlot(d2, c, i) = ReadSlot(d, c, i)
  BY <1>1, SameListed DEF Changes
<1>2. ASSUME NEW c \in D2, NEW i \in Nat, Listed(d2, c, i) PROVE Proper(d2, D2, ReadSlot(d2, c, i))
  <2>1. CASE <<c, i>> \in X
    BY <1>2, <2>1 DEF Fit
  <2>2. CASE <<c, i>> \notin X
    <3>1. PICK e : e = ReadSlot(d, c, i)
      OBVIOUS
    <3>2. Listed(d, c, i) /\ ReadSlot(d2, c, i) = e
      BY <1>1, <1>2, <2>2, <3>1
    <3>3. Proper(d, D, e)
      BY <3>1, <3>2 DEF IsTree, AllProper
    <3>4. (e.dir => e.first \in D2) /\ (~e.dir /\ e.first # Free => IsHead(d2.fat, e.first))
      BY <2>2, <3>1, <3>2 DEF Remain
    <3> QED BY <3>2, <3>3, <3>4 DEF Proper
  <2> QED BY <2>1, <2>2
<1>3. AllProper(d2, D2)
  BY <1>2 DEF AllProper
<1>4. ASSUME NEW b \in D2, NEW c \in D2, NEW i \in Nat, NEW j \in Nat, Listed(d2, b, i), Listed(d2, c, j),
             b # c \/ i # j
      PROVE  Apart(d2, b, i, c, j)
  <2>1. CASE <<b, i>> \in X
    BY <1>4, <2>1 DEF Fit
  <2>2. CASE <<c, j>> \in X
    <3>1. Apart(d2, c, j, b, i)
      BY <1>4, <2>2 DEF Fit
    <3> QED BY <3>1 DEF Apart
  <2>3. CASE <<b, i>> \notin X /\ <<c, j>> \notin X
    <3>1. /\ Listed(d, b, i) /\ ReadSlot(d2, b, i) = ReadSlot(d, b, i)
          /\ Listed(d, c, j) /\ ReadSlot(d2, c, j) = ReadSlot(d, c, j)
      BY <1>1, <1>4, <2>3
    <3>2. Apart(d, b, i, c, j)
      BY <1>4, <3>1 DEF IsTree, AllApart
    <3> QED BY <3>1, <3>2 DEF Apart
  <2> QED BY <2>1, <2>2, <2>3
<1>5. AllApart(d2, D2)
  BY <1>4 DEF AllApart
<1> QED BY <1>3, <1>5 DEF IsTree

\* X holds none of the dots.
NoDots(d, D, X) ==
  \A c \in D : \A i \in Nat : <<c, i>> \in X => ~InUse(d, c, i) \/ Listed(d, c, i)

\* Where no dot entry changes, each directory still has its "." and "..".
LEMMA DotsKept ==
  ASSUME NEW d, NEW D, IsTree(d, D), NEW d2, NEW D2, D2 \subseteq D,
         NEW X, Changes(d, d2, D2, X), NoDots(d, D2, X)
  PROVE  /\ Dotted(d2, D2)
         /\ \A c \in D2 : c # 0 /\ OnDisk(c) => ReadSlot(d2, c, 1) = ReadSlot(d, c, 1)
<1> SUFFICES ASSUME NEW c \in D2, c # 0, OnDisk(c)
             PROVE  Dots(d2, c) /\ ReadSlot(d2, c, 1) = ReadSlot(d, c, 1)
  BY DEF Dotted
<1>1. Dots(d, c)
  BY DEF IsTree, Dotted
<1>2. InUse(d, c, 0) /\ ~Listed(d, c, 0) /\ InUse(d, c, 1) /\ ~Listed(d, c, 1)
  BY <1>1 DEF Dots, Listed
<1>3. 0 \in Nat /\ 1 \in Nat
  OBVIOUS
<1>4. SameSlot(d, d2, c, 0) /\ SameSlot(d, d2, c, 1)
  BY <1>2, <1>3 DEF NoDots, Changes
<1> QED BY <1>1, <1>4 DEF SameSlot, Dots

\* If no "." and no ".." changes, only the new entries have to lead back.
LEMMA DotsAfter ==
  ASSUME NEW d, NEW D, IsTree(d, D), NEW d2, NEW D2, D2 \subseteq D,
         NEW X, Changes(d, d2, D2, X), NoDots(d, D2, X), Remain(d, d2, D2, X),
         \A c \in D2 : \A i \in Nat : <<c, i>> \in X /\ Listed(d2, c, i) => LeadsBack(d2, c, i)
  PROVE  Dotted(d2, D2) /\ AllLeadBack(d2, D2)
<1>1. Dotted(d2, D2)
  BY DotsKept
<1>2. ASSUME NEW c \in D2, NEW i \in Nat, Listed(d2, c, i) PROVE LeadsBack(d2, c, i)
  <2>1. CASE <<c, i>> \in X
    BY <1>2, <2>1
  <2>2. CASE <<c, i>> \notin X
    <3>1. SameSlot(d, d2, c, i)
      BY <2>2 DEF Changes
    <3>2. Listed(d, c, i) /\ ReadSlot(d2, c, i) = ReadSlot(d, c, i)
      BY <1>2, <3>1, SameListed
    <3>3. PICK e : e = ReadSlot(d, c, i)
      OBVIOUS
    <3>4. SUFFICES ASSUME e.dir, OnDisk(e.first) PROVE ReadSlot(d2, e.first, 1).first = c
      BY <3>2, <3>3 DEF LeadsBack
    <3>5. ReadSlot(d, e.first, 1).first = c
      BY <3>2, <3>3, <3>4 DEF IsTree, AllLeadBack, LeadsBack
    <3>6. e.first \in D2 /\ e.first # 0
      BY <2>2, <3>2, <3>3, <3>4 DEF Remain, IsTree, AllProper, Proper
    <3>7. PICK h : h = e.first
      OBVIOUS
    <3>8. h \in D2 /\ h # 0 /\ OnDisk(h)
      BY <3>4, <3>6, <3>7
    <3>9. \A g \in D2 : g # 0 /\ OnDisk(g) => ReadSlot(d2, g, 1) = ReadSlot(d, g, 1)
      BY DotsKept
    <3> QED BY <3>5, <3>7, <3>8, <3>9
  <2> QED BY <2>1, <2>2
<1> QED BY <1>1, <1>2 DEF AllLeadBack

-----------------------------------------------------------------------------
(***************************************************************************)
(* Paths.                                                                  *)
(***************************************************************************)
\* The entry of that name.
Holds(d, c, i, name) == i \in Nat /\ Listed(d, c, i) /\ ReadSlot(d, c, i).name = name

\* The directories of a tree are directories of the disk.
LEMMA DirIs ==
  ASSUME NEW d, NEW D, IsTree(d, D), NEW c, c \in D
  PROVE  SoundDisk(d) /\ d \in Disk /\ c \in DirCluster /\ Dir(d, c) /\ c \in Nat /\ c # None
BY Numbers DEF IsTree, Directories, SoundDisk, DirCluster, None

\* There is at most one.
LEMMA OneName ==
  ASSUME NEW d, NEW D, IsTree(d, D), NEW c, c \in D, NEW name, NEW i, Holds(d, c, i, name),
         NEW j, Holds(d, c, j, name)
  PROVE  i = j
BY DEF IsTree, AllApart, Apart, Holds

\* fat12_find_entry finds it, unless there is none.
Looks(d, c, name, i) ==
  \/ i = None /\ \A j : ~Holds(d, c, j, name)
  \/ i \in Nat /\ Holds(d, c, i, name)

\* The inner loop of fat12_find_entry: it finds the entry of the name if there is one.
LEMMA LookupIs ==
  ASSUME NEW d, NEW D, IsTree(d, D), NEW c, c \in D, NEW name, name \in Name,
         NEW i, i = Lookup(d, c, name)
  PROVE  Looks(d, c, name, i)
<1>0. SoundDisk(d) /\ d \in Disk /\ c \in DirCluster /\ Dir(d, c)
  BY DirIs
<1>1. PICK k : k = FirstSlot(d, c, {name, End})
  OBVIOUS
<1>2. /\ k \in Nat /\ ReadSlot(d, c, k).name \in {name, End, Missing}
      /\ \A j \in Nat : j < k => ReadSlot(d, c, j).name \notin {name, End, Missing}
  <2>1. FirstWith(d, c, {name, End}, k)
    BY <1>0, <1>1, FirstSlotIs
  <2> QED BY <2>1 DEF FirstWith
<1>3. i = IF ReadSlot(d, c, k).name = name THEN k ELSE None
  BY <1>1 DEF Lookup
<1>4. name \notin {End, Missing, Deleted, ".", ".."}
  BY FatAssumption DEF Special
<1>5. CASE ReadSlot(d, c, k).name = name
  <2>1. \A j \in 0 .. k : j \in Nat /\ (j < k \/ j = k)
    BY <1>2
  <2>2. Seen(d, c, k)
    BY <1>2, <1>4, <1>5, <2>1 DEF Seen
  <2>3. Holds(d, c, k, name)
    BY <1>2, <1>4, <1>5, <2>2 DEF Holds, Listed, InUse
  <2> QED BY <1>2, <1>3, <1>5, <2>3 DEF Looks
<1>6. CASE ReadSlot(d, c, k).name # name
  <2>1. ASSUME NEW j, Holds(d, c, j, name) PROVE FALSE
    <3>1. j \in Nat /\ Seen(d, c, j) /\ ReadSlot(d, c, j).name = name
      BY <2>1 DEF Holds, Listed, InUse
    <3>2. j > k
      BY <1>2, <1>6, <3>1
    <3>3. k \in 0 .. j
      BY <1>2, <3>1, <3>2
    <3> QED BY <1>2, <1>6, <3>1, <3>3 DEF Seen
  <2> QED BY <1>3, <1>6, <2>1 DEF Looks
<1> QED BY <1>5, <1>6

\* What the names of a path lead to, one after the other.
DirAt(d, path, n) ==
  LET at[k \in 0 .. Len(path) - 1] == IF k = 0 THEN 0 ELSE Enter(d, at[k - 1], path[k])
  IN  at[n]

\* A directory of that name, or none.
LEMMA EnterIs ==
  ASSUME NEW d, NEW D, IsTree(d, D), NEW c, c \in D, NEW name, name \in Name, NEW e, e = Enter(d, c, name)
  PROVE  \/ e = None /\ \A i : Holds(d, c, i, name) => ~ReadSlot(d, c, i).dir
         \/ \E i \in Nat : /\ Holds(d, c, i, name) /\ ReadSlot(d, c, i).dir
                           /\ e = ReadSlot(d, c, i).first /\ e \in D /\ e # 0
<1>1. PICK i : i = Lookup(d, c, name)
  OBVIOUS
<1>2. Looks(d, c, name, i)
  BY <1>1, LookupIs
<1>3. c # None
  BY DirIs
<1>4. e = IF i # None /\ ReadSlot(d, c, i).dir THEN ReadSlot(d, c, i).first ELSE None
  BY <1>1, <1>3 DEF Enter, FindIn, Found
<1>5. CASE i = None
  BY <1>2, <1>4, <1>5 DEF Looks, None
<1>6. CASE i \in Nat /\ Holds(d, c, i, name)
  <2>1. \A j : Holds(d, c, j, name) => j = i
    BY <1>6, OneName
  <2>2. i # None
    BY <1>6 DEF None
  <2>3. Proper(d, D, ReadSlot(d, c, i))
    BY <1>6 DEF Holds, IsTree, AllProper
  <2> QED BY <1>4, <1>6, <2>1, <2>2, <2>3 DEF Proper
<1> QED BY <1>2, <1>5, <1>6 DEF Looks

\* The recursion of fat12_resolve_parent.
LEMMA DirAtIs ==
  ASSUME NEW d, NEW D, IsTree(d, D), NEW path, path \in Seq(Name), path # <<>>
  PROVE  /\ DirAt(d, path, 0) = 0
         /\ \A n \in 0 .. Len(path) - 1 : DirAt(d, path, n) \in D \cup {None}
         /\ \A n \in 1 .. Len(path) - 1 : DirAt(d, path, n) = Enter(d, DirAt(d, path, n - 1), path[n])
<1> DEFINE m == Len(path) - 1
           S == D \cup {None}
           next(i, s) == IF i < m THEN Enter(d, s, path[i + 1]) ELSE s
           g == [i \in Nat |-> [s \in S |-> next(i, s)]]
           Eq(v) == v = [k \in 0 .. Len(path) - 1 |-> IF k = 0 THEN 0 ELSE Enter(d, v[k - 1], path[k])]
           at == CHOOSE v : Eq(v)
<1>1. m \in Nat /\ \A k \in 1 .. Len(path) : path[k] \in Name
  OBVIOUS
<1>2. 0 \in S
  BY DEF IsTree, Directories
<1>3. \A i \in Nat : \A s \in S : next(i, s) \in S
  <2> SUFFICES ASSUME NEW i \in Nat, NEW s \in S PROVE next(i, s) \in S
    OBVIOUS
  <2>1. CASE i < m /\ s = None
    <3>1. Enter(d, None, path[i + 1]) = None
      BY DEF Enter, FindIn, Found
    <3> QED BY <2>1, <3>1
  <2>2. CASE i < m /\ s \in D
    <3>1. path[i + 1] \in Name
      BY <1>1, <2>2
    <3>2. Enter(d, s, path[i + 1]) \in S
      BY <2>2, <3>1, EnterIs
    <3> QED BY <2>2, <3>2
  <2>3. CASE ~(i < m)
    BY <2>3
  <2> QED BY <2>1, <2>2, <2>3
<1>4. g \in [Nat -> [S -> S]]
  <2> HIDE DEF next, S
  <2> QED BY <1>3
<1>5. PICK w : Runs(w, S, g, 0)
  <2> HIDE DEF g, S
  <2> QED BY <1>2, <1>4, Iterates
<1>6. \A i \in Nat : w[i] \in S /\ w[i + 1] = next(i, w[i])
  <2> TAKE i \in Nat
  <2>1. w[i] \in S /\ w[i + 1] = g[i][w[i]]
    BY <1>5 DEF Runs
  <2> HIDE DEF next, S
  <2> QED BY <2>1
<1> DEFINE u == [k \in 0 .. m |-> w[k]]
<1>7. Eq(u)
  <2>1. w[0] = 0
    BY <1>5 DEF Runs
  <2>2. \A k \in 0 .. m : k # 0 => w[k] = Enter(d, w[k - 1], path[k])
    <3> TAKE k \in 0 .. m
    <3> HAVE k # 0
    <3>1. k - 1 \in Nat /\ k - 1 < m /\ (k - 1) + 1 = k
      BY <1>1
    <3> QED BY <1>6, <3>1
  <2>3. \A k \in 0 .. m : k # 0 => k - 1 \in 0 .. m /\ u[k - 1] = w[k - 1]
    BY <1>1
  <2>4. u = [k \in 0 .. m |-> IF k = 0 THEN 0 ELSE Enter(d, u[k - 1], path[k])]
    BY <2>1, <2>2, <2>3
  <2> QED BY <2>4
<1>8. Eq(at)
  <2> HIDE DEF Eq, u
  <2> QED BY <1>7
<1>9. \A k \in 0 .. m : DirAt(d, path, k) = at[k]
  BY DEF DirAt
<1> HIDE DEF at
<1>10. at[0] = 0 /\ \A k \in 1 .. m : at[k] = Enter(d, at[k - 1], path[k])
  BY <1>1, <1>8
<1>11. \A k \in Nat : k <= m => at[k] \in S
  <2> DEFINE X == {k \in Nat : k <= m => at[k] \in S}
  <2>1. 0 \in X
    BY <1>2, <1>10
  <2>2. ASSUME NEW k \in Nat, k \in X PROVE k + 1 \in X
    <3>1. CASE k + 1 <= m
      <4>1. k + 1 \in 1 .. m /\ (k + 1) - 1 = k /\ k < m
        BY <1>1, <3>1
      <4>2. at[k + 1] = next(k, at[k])
        BY <1>10, <4>1
      <4>3. at[k] \in S
        BY <2>2, <4>1
      <4>4. at[k + 1] \in S
        BY <1>3, <4>2, <4>3
      <4> QED BY <4>4
    <3>2. CASE ~(k + 1 <= m)
      BY <3>2
    <3> QED BY <3>1, <3>2
  <2> HIDE DEF X
  <2>3. \A k \in Nat : k \in X
    BY <2>1, <2>2, AllNumbers
  <2> QED BY <2>3 DEF X
<1>12. \A k \in 0 .. m : DirAt(d, path, k) \in S
  BY <1>1, <1>9, <1>11
<1>13. \A k \in 1 .. m : k \in 0 .. m /\ k - 1 \in 0 .. m
  BY <1>1
<1>14. 0 \in 0 .. m
  BY <1>1
<1> QED BY <1>9, <1>10, <1>12, <1>13, <1>14

\* Name n of the path is that of entry i of the directory c.
Step(d, path, n, c, i) == DirAt(d, path, n - 1) = c /\ c # None /\ Holds(d, c, i, path[n])

IsPath(path) == path \in Seq(Name) /\ path # <<>>

\* A path is one name or more.
LEMMA PathNames ==
  ASSUME NEW path, IsPath(path)
  PROVE  Len(path) \in Nat /\ Len(path) >= 1 /\ \A n \in 1 .. Len(path) : path[n] \in Name
BY DEF IsPath

\* There is one such entry.
LEMMA OneStep ==
  ASSUME NEW d, NEW D, IsTree(d, D), NEW path, IsPath(path), NEW n, n \in 1 .. Len(path),
         NEW c, NEW i, Step(d, path, n, c, i)
  PROVE  /\ c \in D /\ i \in Nat /\ Listed(d, c, i) /\ ReadSlot(d, c, i).name = path[n]
         /\ \A b, j : Step(d, path, n, b, j) => b = c /\ j = i
<1>1. Len(path) \in Nat
  BY PathNames
<1>2. n - 1 \in 0 .. Len(path) - 1
  BY <1>1
<1>3. DirAt(d, path, n - 1) \in D \cup {None}
  BY <1>2, DirAtIs DEF IsPath
<1>4. c \in D /\ Holds(d, c, i, path[n])
  BY <1>3 DEF Step
<1>5. ASSUME NEW b, NEW j, Step(d, path, n, b, j) PROVE b = c /\ j = i
  <2>1. b = c /\ Holds(d, c, j, path[n])
    BY <1>5 DEF Step
  <2> QED BY <1>4, <2>1, OneName
<1> QED BY <1>4, <1>5 DEF Holds

\* It leads to the next directory,
LEMMA StepDown ==
  ASSUME NEW d, NEW D, IsTree(d, D), NEW path, IsPath(path), NEW n, n \in 1 .. Len(path) - 1,
         NEW c, NEW i, Step(d, path, n, c, i), ReadSlot(d, c, i).dir
  PROVE  /\ DirAt(d, path, n) = ReadSlot(d, c, i).first /\ ReadSlot(d, c, i).first \in D
         /\ ReadSlot(d, c, i).first # None
<1>1. n \in 1 .. Len(path)
  BY PathNames
<1>2. c \in D /\ Holds(d, c, i, path[n]) /\ DirAt(d, path, n - 1) = c /\ path[n] \in Name
  BY <1>1, OneStep, PathNames DEF Step
<1>3. DirAt(d, path, n) = Enter(d, c, path[n])
  BY <1>2, DirAtIs DEF IsPath
<1>4. PICK e : e = Enter(d, c, path[n])
  OBVIOUS
<1>5. \/ e = None /\ \A j : Holds(d, c, j, path[n]) => ~ReadSlot(d, c, j).dir
      \/ \E j \in Nat : /\ Holds(d, c, j, path[n]) /\ ReadSlot(d, c, j).dir
                        /\ e = ReadSlot(d, c, j).first /\ e \in D /\ e # 0
  BY <1>2, <1>4, EnterIs
<1>6. PICK j \in Nat : /\ Holds(d, c, j, path[n]) /\ ReadSlot(d, c, j).dir
                       /\ e = ReadSlot(d, c, j).first /\ e \in D /\ e # 0
  BY <1>2, <1>5
<1>7. j = i
  BY <1>2, <1>6, OneName
<1>8. e # None
  BY <1>6, DirIs
<1> QED BY <1>3, <1>4, <1>6, <1>7, <1>8

\* and a directory is come to in no other way.
LEMMA StepUp ==
  ASSUME NEW d, NEW D, IsTree(d, D), NEW path, IsPath(path), NEW n, n \in 1 .. Len(path) - 1,
         NEW e, e = DirAt(d, path, n), e # None
  PROVE  /\ e # 0
         /\ \E c \in D, i \in Nat : /\ Step(d, path, n, c, i) /\ ReadSlot(d, c, i).dir
                                    /\ ReadSlot(d, c, i).first = e
<1>1. n \in 1 .. Len(path) /\ n - 1 \in 0 .. Len(path) - 1 /\ path[n] \in Name
  BY PathNames
<1>2. PICK c : c = DirAt(d, path, n - 1)
  OBVIOUS
<1>3. c \in D \cup {None} /\ e = Enter(d, c, path[n])
  BY <1>1, <1>2, DirAtIs DEF IsPath
<1>4. c # None
  <2>1. Enter(d, None, path[n]) = None
    BY DEF Enter, FindIn, Found
  <2> QED BY <1>3, <2>1
<1>5. \/ e = None /\ \A j : Holds(d, c, j, path[n]) => ~ReadSlot(d, c, j).dir
      \/ \E j \in Nat : /\ Holds(d, c, j, path[n]) /\ ReadSlot(d, c, j).dir
                        /\ e = ReadSlot(d, c, j).first /\ e \in D /\ e # 0
  BY <1>1, <1>3, <1>4, EnterIs
<1> QED BY <1>2, <1>3, <1>4, <1>5 DEF Step

\* fat12_find_entry, with the whole path
Finds(d, D, path, r) ==
  \/ r.dir = None /\ r.slot = None /\ \A c, i : ~Step(d, path, Len(path), c, i)
  \/ r.dir \in D /\ r.slot = None /\ \A i : ~Holds(d, r.dir, i, path[Len(path)])
  \/ r.dir \in D /\ r.slot \in Nat /\ Step(d, path, Len(path), r.dir, r.slot)
     /\ r.entry = ReadSlot(d, r.dir, r.slot)

\* fat12_find_entry finds the one entry that the path leads to, or says what is missing.
LEMMA FindIs ==
  ASSUME NEW d, NEW D, IsTree(d, D), NEW path, IsPath(path), NEW r, r = Find(d, path)
  PROVE  Finds(d, D, path, r) /\ r.dir = DirAt(d, path, Len(path) - 1)
<1>1. PICK n : n = Len(path)
  OBVIOUS
<1>2. n \in Nat /\ n >= 1 /\ n \in 1 .. Len(path) /\ n - 1 \in 0 .. Len(path) - 1 /\ path[n] \in Name
  BY <1>1, PathNames
<1>3. PICK c : c = DirAt(d, path, n - 1)
  OBVIOUS
<1>4. c \in D \cup {None}
  BY <1>2, <1>3, DirAtIs DEF IsPath
<1>5. Parent(d, path) = c /\ Last(path) = path[n]
  BY <1>1, <1>3 DEF Parent, DirAt, Last
<1>6. PICK s : s = IF c = None THEN None ELSE Lookup(d, c, path[n])
  OBVIOUS
<1>7. r = Found(d, c, s)
  BY <1>5, <1>6 DEF Find, FindIn
<1>8. r.dir = c /\ r.slot = s /\ (s # None => r.entry = ReadSlot(d, c, s))
  BY <1>7 DEF Found
<1>9. CASE c = None
  BY <1>1, <1>3, <1>6, <1>8, <1>9 DEF Finds, Step
<1>10. CASE c \in D
  <2>1. c # None
    BY <1>10, DirIs
  <2>2. s = Lookup(d, c, path[n])
    BY <1>6, <2>1
  <2>3. Looks(d, c, path[n], s)
    BY <1>2, <1>10, <2>2, LookupIs
  <2>4. CASE s = None /\ \A j : ~Holds(d, c, j, path[n])
    BY <1>1, <1>3, <1>8, <1>10, <2>4 DEF Finds
  <2>5. CASE s \in Nat /\ Holds(d, c, s, path[n])
    <3>1. s # None
      BY <2>5 DEF None
    <3> QED BY <1>1, <1>3, <1>8, <1>10, <2>1, <2>5, <3>1 DEF Finds, Step
  <2> QED BY <2>3, <2>4, <2>5 DEF Looks
<1> QED BY <1>1, <1>3, <1>4, <1>8, <1>9, <1>10

\* An entry is found by one path only.
LEMMA PathUnique ==
  ASSUME NEW d, NEW D, IsTree(d, D), NEW p, IsPath(p), NEW q, IsPath(q)
  PROVE  \A m \in 1 .. Len(p) : \A n \in 1 .. Len(q) : \A c, i :
           Step(d, p, m, c, i) /\ Step(d, q, n, c, i) => m = n /\ \A k \in 1 .. m : p[k] = q[k]
<1> DEFINE Same(m) == \A n \in 1 .. Len(q) : \A c, i :
             Step(d, p, m, c, i) /\ Step(d, q, n, c, i) => m = n /\ \A k \in 1 .. m : p[k] = q[k]
           X == {m \in Nat : m \in 1 .. Len(p) => Same(m)}
<1>0. Len(p) \in Nat /\ Len(q) \in Nat
  BY PathNames
<1>1. 0 \in X
  OBVIOUS
<1>2. ASSUME NEW m \in Nat, m \in X PROVE m + 1 \in X
  <2> SUFFICES ASSUME m + 1 \in 1 .. Len(p), NEW n \in 1 .. Len(q), NEW c, NEW i,
                      Step(d, p, m + 1, c, i), Step(d, q, n, c, i)
               PROVE  m + 1 = n /\ \A k \in 1 .. m + 1 : p[k] = q[k]
    OBVIOUS
  <2>1. p[m + 1] = q[n]
    BY DEF Step, Holds
  <2>2. DirAt(d, p, m) = c /\ DirAt(d, q, n - 1) = c /\ c # None
    BY DEF Step
  <2>3. CASE m = 0
    <3>1. c = 0
      BY <2>2, <2>3, DirAtIs DEF IsPath
    <3>2. n = 1
      <4>1. SUFFICES ASSUME n # 1 PROVE FALSE
        OBVIOUS
      <4>2. n - 1 \in 1 .. Len(q) - 1
        BY <1>0, <4>1
      <4>3. PICK e : e = DirAt(d, q, n - 1)
        OBVIOUS
      <4>4. e # 0
        BY <2>2, <4>2, <4>3, StepUp
      <4> QED BY <2>2, <3>1, <4>3, <4>4
    <3> QED BY <2>1, <2>3, <3>2
  <2>4. CASE m # 0
    <3>1. m \in 1 .. Len(p) - 1 /\ m \in 1 .. Len(p)
      BY <1>0, <2>4
    <3>2. c # 0 /\ \E b \in D, j \in Nat : /\ Step(d, p, m, b, j) /\ ReadSlot(d, b, j).dir
                                           /\ ReadSlot(d, b, j).first = c
      BY <2>2, <3>1, StepUp
    <3>3. n # 1
      <4>1. DirAt(d, q, 0) = 0
        BY DirAtIs DEF IsPath
      <4> QED BY <2>2, <3>2, <4>1
    <3>4. n - 1 \in 1 .. Len(q) - 1 /\ n - 1 \in 1 .. Len(q)
      BY <1>0, <3>3
    <3>5. \E b \in D, j \in Nat : /\ Step(d, q, n - 1, b, j) /\ ReadSlot(d, b, j).dir
                                  /\ ReadSlot(d, b, j).first = c
      <4>1. PICK l : l = n - 1
        OBVIOUS
      <4>2. l \in 1 .. Len(q) - 1 /\ DirAt(d, q, l) = c
        BY <2>2, <3>4, <4>1
      <4>3. \E b \in D, j \in Nat : /\ Step(d, q, l, b, j) /\ ReadSlot(d, b, j).dir
                                    /\ ReadSlot(d, b, j).first = c
        BY <2>2, <4>2, StepUp
      <4> QED BY <4>1, <4>3
    <3>6. PICK b \in D, j \in Nat : Step(d, p, m, b, j) /\ ReadSlot(d, b, j).first = c
      BY <3>2
    <3>7. PICK b2 \in D, j2 \in Nat : Step(d, q, n - 1, b2, j2) /\ ReadSlot(d, b2, j2).first = c
      BY <3>5
    <3>8. b = b2 /\ j = j2
      <4>1. Listed(d, b, j) /\ Listed(d, b2, j2)
        BY <3>6, <3>7 DEF Step, Holds
      <4>2. ~Apart(d, b, j, b2, j2)
        BY <3>2, <3>6, <3>7 DEF Apart, Free
      <4> QED BY <4>1, <4>2 DEF IsTree, AllApart
    <3>9. m = n - 1 /\ \A k \in 1 .. m : p[k] = q[k]
      BY <1>2, <3>1, <3>4, <3>6, <3>7, <3>8
    <3>10. \A k \in 1 .. m + 1 : k \in 1 .. m \/ k = m + 1
      OBVIOUS
    <3> QED BY <1>0, <2>1, <3>9, <3>10
  <2> QED BY <2>3, <2>4
<1> HIDE DEF X
<1>3. \A m \in Nat : m \in X
  BY <1>1, <1>2, AllNumbers
<1> QED BY <1>0, <1>3 DEF X

\* The entry stays what a path is concerned with.
Stays(d, d2, c, i) ==
  /\ Listed(d2, c, i)
  /\ ReadSlot(d2, c, i).name = ReadSlot(d, c, i).name
  /\ ReadSlot(d2, c, i).dir = ReadSlot(d, c, i).dir
  /\ ReadSlot(d, c, i).dir => ReadSlot(d2, c, i).first = ReadSlot(d, c, i).first

\* A path leads where it led if all its entries stay.
AllStay(d, d2, path) == \A n \in 1 .. Len(path) : \A c, i : Step(d, path, n, c, i) => Stays(d, d2, c, i)

\* If the entries that a path goes by stay, it goes by them still.
LEMMA PathKept ==
  ASSUME NEW d, NEW D, IsTree(d, D), NEW d2, NEW D2, IsTree(d2, D2), NEW path, IsPath(path),
         AllStay(d, d2, path)
  PROVE  \A n \in 1 .. Len(path) : \A c, i : Step(d, path, n, c, i) => Step(d2, path, n, c, i)
<1> DEFINE Same(n) == \A c, i : Step(d, path, n, c, i) => Step(d2, path, n, c, i)
           X == {n \in Nat : n \in 1 .. Len(path) => Same(n)}
<1>0. Len(path) \in Nat
  BY PathNames
<1>1. 0 \in X
  OBVIOUS
<1>2. ASSUME NEW m \in Nat, m \in X PROVE m + 1 \in X
  <2> SUFFICES ASSUME m + 1 \in 1 .. Len(path), NEW c, NEW i, Step(d, path, m + 1, c, i)
               PROVE  Step(d2, path, m + 1, c, i)
    OBVIOUS
  <2>1. Stays(d, d2, c, i)
    BY DEF AllStay
  <2>2. Holds(d2, c, i, path[m + 1])
    BY <2>1 DEF Stays, Step, Holds
  <2>3. DirAt(d, path, m) = c /\ c # None
    BY DEF Step
  <2>4. DirAt(d2, path, m) = c
    <3>1. CASE m = 0
      <4>1. DirAt(d, path, 0) = 0 /\ DirAt(d2, path, 0) = 0
        BY DirAtIs DEF IsPath
      <4> QED BY <2>3, <3>1, <4>1
    <3>2. CASE m # 0
      <4>1. m \in 1 .. Len(path) - 1 /\ m \in 1 .. Len(path)
        BY <1>0, <3>2
      <4>2. PICK b \in D, j \in Nat : /\ Step(d, path, m, b, j) /\ ReadSlot(d, b, j).dir
                                      /\ ReadSlot(d, b, j).first = c
        BY <2>3, <4>1, StepUp
      <4>3. Step(d2, path, m, b, j) /\ Stays(d, d2, b, j)
        BY <1>2, <4>1, <4>2 DEF AllStay
      <4>4. ReadSlot(d2, b, j).dir /\ ReadSlot(d2, b, j).first = c
        BY <4>2, <4>3 DEF Stays
      <4>5. DirAt(d2, path, m) = ReadSlot(d2, b, j).first
        BY <4>1, <4>3, <4>4, StepDown
      <4> QED BY <4>4, <4>5
    <3> QED BY <3>1, <3>2
  <2> QED BY <2>2, <2>3, <2>4 DEF Step
<1> HIDE DEF X
<1>3. \A n \in Nat : n \in X
  BY <1>1, <1>2, AllNumbers
<1> QED BY <1>0, <1>3 DEF X

-----------------------------------------------------------------------------
(***************************************************************************)
(* Changes of the tree.                                                    *)
(***************************************************************************)
\* The entries in D lead on to the clusters they led to.
KeepsLeads(d, d2, D) == \A c \in D : \A h : Leads(d, c, h) /\ h # Free => Leads(d2, c, h)

\* They do if those that change lead where they led.
LEMMA LeadsKept ==
  ASSUME NEW d, NEW d2, NEW D, NEW X, Changes(d, d2, D, X),
         \A c \in D : \A i \in Nat : <<c, i>> \in X /\ Listed(d, c, i) =>
           \/ ReadSlot(d, c, i).first = Free
           \/ Listed(d2, c, i) /\ ReadSlot(d2, c, i).first = ReadSlot(d, c, i).first
  PROVE  KeepsLeads(d, d2, D)
<1> SUFFICES ASSUME NEW c \in D, NEW h, Leads(d, c, h), h # Free PROVE Leads(d2, c, h)
  BY DEF KeepsLeads
<1>1. PICK i \in Nat : Listed(d, c, i) /\ ReadSlot(d, c, i).first = h
  BY DEF Leads
<1>2. CASE <<c, i>> \in X
  BY <1>1, <1>2 DEF Leads
<1>3. CASE <<c, i>> \notin X
  <2>1. SameSlot(d, d2, c, i)
    BY <1>3 DEF Changes
  <2>2. Listed(d2, c, i) /\ ReadSlot(d2, c, i) = ReadSlot(d, c, i)
    BY <1>1, <2>1, SameListed
  <2> QED BY <1>1, <2>2 DEF Leads
<1> QED BY <1>2, <1>3

\* Then the tree stays whole, if new chains have entries.
LEMMA WholeKept ==
  ASSUME NEW d, NEW D, IsTree(d, D), Whole(d, D), NEW d2, KeepsLeads(d, d2, D),
         \A h : IsHead(d2.fat, h) => IsHead(d.fat, h) \/ \E c \in D : Leads(d2, c, h)
  PROVE  Whole(d2, D)
<1>1. ASSUME NEW h, IsHead(d2.fat, h) PROVE \E c \in D : Leads(d2, c, h)
  <2>1. CASE IsHead(d.fat, h)
    <3>1. PICK c \in D : Leads(d, c, h)
      BY <2>1 DEF Whole, Owned
    <3>2. h # Free
      BY <2>1, Numbers DEF IsHead
    <3> QED BY <3>1, <3>2 DEF KeepsLeads
  <2>2. CASE ~IsHead(d.fat, h)
    BY <1>1, <2>2
  <2> QED BY <2>1, <2>2
<1>2. ASSUME NEW X, X \subseteq D, 0 \notin X, X # {} PROVE Entrance(d2, D, X)
  <2>1. Entrance(d, D, X)
    BY <1>2 DEF Whole
  <2>2. PICK h \in X, c \in D \ X : Leads(d, c, h)
    BY <2>1 DEF Entrance
  <2>3. h # Free
    BY <1>2 DEF Free
  <2>4. Leads(d2, c, h)
    BY <2>2, <2>3 DEF KeepsLeads
  <2> QED BY <2>4 DEF Entrance
<1>3. Owned(d2, D)
  BY <1>1 DEF Owned
<1> QED BY <1>2, <1>3 DEF Whole

\* Two changes make one.
LEMMA ChangesTwice ==
  ASSUME NEW d, NEW d1, NEW d2, NEW D, NEW X, NEW Y, Changes(d, d1, D, X), Changes(d1, d2, D, Y)
  PROVE  Changes(d, d2, D, X \cup Y)
<1> SUFFICES ASSUME NEW c \in D, NEW i \in Nat, <<c, i>> \notin X, <<c, i>> \notin Y
             PROVE  SameSlot(d, d2, c, i)
  BY DEF Changes
<1>1. SameSlot(d, d1, c, i) /\ SameSlot(d1, d2, c, i)
  BY DEF Changes
<1> QED BY <1>1 DEF SameSlot

\* What an untouched disk, a file's data and an edited slot change.
LEMMA UntouchedChanges ==
  ASSUME NEW d, NEW D, Directories(d, D), NEW d2, Untouched(d, d2)
  PROVE  Changes(d, d2, D, {}) /\ Directories(d2, D)
BY DEF Directories, Untouched, Changes, Dir, SameHeads

\* A chain that is no directory's changes no slot of any directory.
LEMMA ElsewhereChanges ==
  ASSUME NEW d, NEW D, Directories(d, D), NEW d2, NEW h, Elsewhere(d, d2, h), h \notin D
  PROVE  Changes(d, d2, D, {}) /\ Directories(d2, D) /\ SameHeads(d, d2)
<1>1. \A c \in D : \A i \in Nat : SameSlot(d, d2, c, i)
  BY SameEntries DEF Directories, Elsewhere
<1> QED BY <1>1 DEF Directories, Elsewhere, Changes, Dir, SameHeads

\* Writing one slot changes no other.
LEMMA EditedChanges ==
  ASSUME NEW d, NEW D, Directories(d, D), NEW d2, NEW c, NEW i, Edited(d, d2, c, i)
  PROVE  Changes(d, d2, D, {<<c, i>>}) /\ Directories(d2, D) /\ SameHeads(d, d2)
<1>1. Directories(d2, D) /\ SameHeads(d, d2)
  BY DEF Directories, Edited, Dir, SameHeads
<1>2. ASSUME NEW h \in D, NEW j \in Nat, <<h, j>> \notin {<<c, i>>} PROVE SameSlot(d, d2, h, j)
  <2>1. h # c \/ j # i
    BY <1>2
  <2> QED BY <2>1 DEF Edited, Directories
<1> QED BY <1>1, <1>2 DEF Changes

\* Where no entry changes, the tree stays.
LEMMA TreeKept ==
  ASSUME NEW d, NEW D, IsTree(d, D), NEW d2, Directories(d2, D), Changes(d, d2, D, {}),
         \A h : IsHead(d.fat, h) => IsHead(d2.fat, h)
  PROVE  IsTree(d2, D)
<1>1. Remain(d, d2, D, {})
  BY DEF Remain, IsTree, AllProper, Proper
<1>2. Fit(d2, D, {}) /\ NoDots(d, D, {})
  BY DEF Fit, NoDots
<1>3. Dotted(d2, D) /\ AllLeadBack(d2, D)
  BY <1>1, <1>2, DotsAfter
<1> QED BY <1>1, <1>2, <1>3, TreeAfter

\* A call that fails without having changed an entry leaves the tree as it was.
LEMMA TreeUntouched ==
  ASSUME NEW d, NEW D, IsTree(d, D), NEW d2, Untouched(d, d2)
  PROVE  IsTree(d2, D) /\ Changes(d, d2, D, {})
<1>1. Directories(d, D)
  BY DEF IsTree
<1>2. Changes(d, d2, D, {}) /\ Directories(d2, D)
  BY <1>1, UntouchedChanges
<1>3. \A h : IsHead(d.fat, h) => IsHead(d2.fat, h)
  BY DEF Untouched, SameHeads
<1> QED BY <1>2, <1>3, TreeKept

\* A file's clusters are no directory's.
LEMMA TreeElsewhere ==
  ASSUME NEW d, NEW D, IsTree(d, D), NEW d2, NEW h, Elsewhere(d, d2, h), h \notin D
  PROVE  IsTree(d2, D) /\ Changes(d, d2, D, {}) /\ SameHeads(d, d2)
<1>1. Directories(d, D)
  BY DEF IsTree
<1>2. Changes(d, d2, D, {}) /\ Directories(d2, D) /\ SameHeads(d, d2)
  BY <1>1, ElsewhereChanges
<1>3. \A h2 : IsHead(d.fat, h2) => IsHead(d2.fat, h2)
  BY <1>2 DEF SameHeads
<1> QED BY <1>2, <1>3, TreeKept

\* An entry that the directory at c may get.
Welcome(d, D, c, e) ==
  /\ e \in Entry /\ Proper(d, D, e) /\ \A i : ~Holds(d, c, i, e.name)
  /\ \A b \in D : \A j \in Nat : Listed(d, b, j) => ReadSlot(d, b, j).first # e.first \/ e.first = Free
  /\ e.dir /\ OnDisk(e.first) => ReadSlot(d, e.first, 1).first = c

\* fat12_create_entry: the tree has the new entry, or is the same.
TreeCreated(d, D, v, c, e) ==
  /\ IsTree(v.disk, D) /\ SameHeads(d, v.disk)
  /\ ~v.ok => Changes(d, v.disk, D, {})
  /\ v.ok => /\ v.slot \in Nat /\ Changes(d, v.disk, D, {<<c, v.slot>>})
             /\ ~Listed(d, c, v.slot) /\ Listed(v.disk, c, v.slot) /\ ReadSlot(v.disk, c, v.slot) = e

\* fat12_create_entry keeps the tree when the entry may be there.
LEMMA TreeCreate ==
  ASSUME NEW d, NEW D, IsTree(d, D), NEW c, c \in D, NEW e, Welcome(d, D, c, e),
         NEW v, v = Create(d, c, e)
  PROVE  TreeCreated(d, D, v, c, e)
<1>0. SoundDisk(d) /\ d \in Disk /\ c \in DirCluster /\ Dir(d, c)
  BY DirIs
<1>1. e \in Entry /\ Proper(d, D, e) /\ e.name \in Name /\ e.name \notin {End, Deleted, ".", ".."}
  BY FatAssumption DEF Welcome, Proper, Special
<1>2. Created(d, v, c, e)
  BY <1>0, <1>1, CreateIs
<1>3. CASE ~v.ok
  <2>1. Untouched(d, v.disk)
    BY <1>2, <1>3 DEF Created
  <2>2. IsTree(v.disk, D) /\ Changes(d, v.disk, D, {})
    BY <2>1, TreeUntouched
  <2> QED BY <1>3, <2>1, <2>2 DEF TreeCreated, Untouched
<1>4. CASE v.ok
  <2> PICK i : i = v.slot
    OBVIOUS
  <2> PICK d2 : d2 = v.disk
    OBVIOUS
  <2>1. i \in Nat /\ ~InUse(d, c, i) /\ Edited(d, d2, c, i) /\ InUse(d2, c, i) /\ ReadSlot(d2, c, i) = e
    BY <1>2, <1>4 DEF Created
  <2> DEFINE X == {<<c, i>>}
  <2>2. Changes(d, d2, D, X) /\ Directories(d2, D) /\ SameHeads(d, d2)
    BY <2>1, EditedChanges DEF IsTree
  <2>3. ~Listed(d, c, i) /\ Listed(d2, c, i)
    BY <1>1, <2>1 DEF Listed
  <2>4. \A b, j : <<b, j>> \in X <=> b = c /\ j = i
    OBVIOUS
  <2> HIDE DEF X
  <2>5. Remain(d, d2, D, X)
    BY <2>2 DEF Remain, IsTree, AllProper, Proper, SameHeads
  <2>6. Proper(d2, D, e)
    BY <1>1, <2>2 DEF Proper, SameHeads
  <2>7. ASSUME NEW b \in D, NEW j \in Nat, Listed(d2, b, j), b # c \/ j # i PROVE Apart(d2, c, i, b, j)
    <3>1. SameSlot(d, d2, b, j)
      BY <2>2, <2>4, <2>7 DEF Changes
    <3>2. Listed(d, b, j) /\ ReadSlot(d2, b, j) = ReadSlot(d, b, j)
      BY <2>7, <3>1, SameListed
    <3>3. ReadSlot(d, b, j).first # e.first \/ e.first = Free
      BY <3>2 DEF Welcome
    <3>4. b = c => ReadSlot(d, b, j).name # e.name
      BY <3>2 DEF Welcome, Holds
    <3> QED BY <2>1, <3>2, <3>3, <3>4 DEF Apart
  <2>8. Fit(d2, D, X)
    BY <2>1, <2>4, <2>6, <2>7 DEF Fit
  <2>9. NoDots(d, D, X)
    BY <2>1, <2>4 DEF NoDots
  <2>10. LeadsBack(d2, c, i)
    <3>1. SUFFICES ASSUME e.dir, OnDisk(e.first) PROVE ReadSlot(d2, e.first, 1).first = c
      BY <2>1 DEF LeadsBack
    <3>2. ReadSlot(d, e.first, 1).first = c
      BY <3>1 DEF Welcome
    <3>3. \A h \in D : h # 0 /\ OnDisk(h) => ReadSlot(d2, h, 1) = ReadSlot(d, h, 1)
      BY <2>2, <2>9, DotsKept, SMTT(30)
    <3>4. e.first \in D /\ e.first # 0
      BY <1>1, <3>1 DEF Proper
    <3> QED BY <3>1, <3>2, <3>3, <3>4
  <2>11. Dotted(d2, D) /\ AllLeadBack(d2, D)
    <3>1. \A b \in D : \A j \in Nat : <<b, j>> \in X /\ Listed(d2, b, j) => LeadsBack(d2, b, j)
      BY <2>4, <2>10
    <3> QED BY <2>2, <2>5, <2>9, <3>1, DotsAfter
  <2>12. IsTree(d2, D)
    BY <2>2, <2>5, <2>8, <2>11, TreeAfter
  <2> QED BY <1>4, <2>1, <2>2, <2>3, <2>12 DEF TreeCreated, X
<1> QED BY <1>3, <1>4

\* Nothing is lost: the entries that were there are there still.
LEMMA WholeCreated ==
  ASSUME NEW d, NEW D, IsTree(d, D), Whole(d, D), NEW c, NEW e, NEW v, TreeCreated(d, D, v, c, e)
  PROVE  Whole(v.disk, D)
<1>1. PICK i : i = v.slot
  OBVIOUS
<1>2. PICK d2 : d2 = v.disk
  OBVIOUS
<1>3. PICK X : Changes(d, d2, D, X) /\ \A b \in D : \A j \in Nat : <<b, j>> \in X => ~Listed(d, b, j)
  <2>1. CASE v.ok
    <3>1. Changes(d, d2, D, {<<c, i>>}) /\ ~Listed(d, c, i)
      BY <1>1, <1>2, <2>1 DEF TreeCreated
    <3>2. \A b \in D : \A j \in Nat : <<b, j>> \in {<<c, i>>} => ~Listed(d, b, j)
      BY <3>1
    <3> QED BY <3>1, <3>2
  <2>2. CASE ~v.ok
    <3>1. Changes(d, d2, D, {})
      BY <1>2, <2>2 DEF TreeCreated
    <3>2. \A b \in D : \A j \in Nat : <<b, j>> \in {} => ~Listed(d, b, j)
      OBVIOUS
    <3> QED BY <3>1, <3>2
  <2> QED BY <2>1, <2>2
<1>4. KeepsLeads(d, d2, D)
  BY <1>3, LeadsKept
<1>5. \A h : IsHead(d2.fat, h) => IsHead(d.fat, h)
  BY <1>2 DEF TreeCreated, SameHeads
<1>6. Whole(d2, D)
  BY <1>4, <1>5, WholeKept
<1> QED BY <1>2, <1>6

\* A change leaves a tree if the new entries fit and lead back.
LEMMA TreeChanged ==
  ASSUME NEW d, NEW D, IsTree(d, D), NEW d2, NEW D2, D2 \subseteq D, Directories(d2, D2),
         NEW X, Changes(d, d2, D2, X), NoDots(d, D2, X), Remain(d, d2, D2, X), Fit(d2, D2, X),
         \A c \in D2 : \A i \in Nat : <<c, i>> \in X /\ Listed(d2, c, i) => LeadsBack(d2, c, i)
  PROVE  IsTree(d2, D2)
<1>1. Dotted(d2, D2) /\ AllLeadBack(d2, D2)
  BY DotsAfter
<1> QED BY <1>1, TreeAfter

\* A directory without files and directories.
Empty(d, x) == \A j \in Nat : ~Listed(d, x, j)

\* What a search finds can be removed: the entry in slot i of c, and what it leads to.
Removable(d, D, c, i, D2) ==
  /\ c \in D /\ i \in Nat /\ Listed(d, c, i)
  /\ ReadSlot(d, c, i).dir => Empty(d, ReadSlot(d, c, i).first)
  /\ \A h : h \in D2 <=> h \in D /\ (ReadSlot(d, c, i).dir => h # ReadSlot(d, c, i).first)

\* The chain is freed.
LEMMA FreedTree ==
  ASSUME NEW d, NEW D, IsTree(d, D), NEW c, NEW i, NEW D2, Removable(d, D, c, i, D2),
         NEW d1, d1 = Freed(d, ReadSlot(d, c, i).first)
  PROVE  /\ D2 \subseteq D /\ c \in D2 /\ Directories(d1, D2) /\ Changes(d, d1, D2, {})
         /\ \A h : IsHead(d1.fat, h) <=> IsHead(d.fat, h) /\ h # ReadSlot(d, c, i).first
<1>1. PICK e : e = ReadSlot(d, c, i)
  OBVIOUS
<1>2. Proper(d, D, e)
  BY <1>1 DEF Removable, IsTree, AllProper
<1>3. Directories(d, D) /\ SoundDisk(d)
  BY DEF IsTree, Directories
<1>4. e.first = Free \/ IsHead(d.fat, e.first)
  BY <1>2, <1>3 DEF Proper, Directories, Dir
<1>5. PICK x : x = e.first
  OBVIOUS
<1>6. Frees(d, d1, x)
  BY <1>1, <1>3, <1>4, <1>5, FreedIs
<1>7. D2 \subseteq D
  BY DEF Removable
<1>8. c \in D2
  <2>1. c \in D /\ (e.dir => c # x)
    BY <1>1, <1>5 DEF Removable, Empty
  <2> QED BY <1>1, <1>5, <2>1 DEF Removable
<1>9. ASSUME NEW h \in D2 PROVE Dir(d1, h) /\ SameDir(d, d1, h)
  <2>1. h \in D /\ (e.dir => h # x) /\ Dir(d, h)
    BY <1>1, <1>3, <1>5, <1>9 DEF Removable, Directories
  <2>2. h = 0 \/ h # x
    BY <1>2, <1>5, <2>1 DEF Proper, Free
  <2>3. Dir(d1, h)
    BY <1>6, <2>1, <2>2 DEF Frees, Dir
  <2> QED BY <1>6, <2>3 DEF Frees
<1>10. Directories(d1, D2)
  <2>1. 0 \in D2
    BY <1>1, <1>2, <1>3 DEF Removable, Directories, Proper
  <2> QED BY <1>3, <1>6, <1>7, <1>9, <2>1 DEF Directories, Frees
<1>11. Changes(d, d1, D2, {})
  BY <1>9, SameEntries DEF Changes
<1>12. \A h : IsHead(d1.fat, h) <=> IsHead(d.fat, h) /\ h # x
  BY <1>6 DEF Frees
<1> QED BY <1>1, <1>5, <1>7, <1>8, <1>10, <1>11, <1>12

\* And the entry is erased: one file or directory less.
TreeRemoved(d, D, d2, D2, c, i) ==
  /\ IsTree(d2, D2) /\ Changes(d, d2, D2, {<<c, i>>}) /\ ~Listed(d2, c, i)
  /\ \A h : IsHead(d2.fat, h) => IsHead(d.fat, h) /\ h # ReadSlot(d, c, i).first

\* fat12_removefile and fat12_removedir keep the tree: the rest of it.
LEMMA TreeRemove ==
  ASSUME NEW d, NEW D, IsTree(d, D), NEW found, NEW c, c = found.dir, NEW i, i = found.slot,
         NEW D2, Removable(d, D, c, i, D2),
         NEW d1, d1 = Freed(d, ReadSlot(d, c, i).first), NEW d2, d2 = Erased(d1, found)
  PROVE  TreeRemoved(d, D, d2, D2, c, i)
<1>1. PICK e : e = ReadSlot(d, c, i)
  OBVIOUS
<1>2. i \in Nat /\ Listed(d, c, i) /\ Proper(d, D, e) /\ c \in D
  BY <1>1 DEF Removable, IsTree, AllProper
<1>3. /\ D2 \subseteq D /\ c \in D2 /\ Directories(d1, D2) /\ Changes(d, d1, D2, {})
      /\ \A h : IsHead(d1.fat, h) <=> IsHead(d.fat, h) /\ h # e.first
  <2>1. /\ D2 \subseteq D /\ c \in D2 /\ Directories(d1, D2) /\ Changes(d, d1, D2, {})
        /\ \A h : IsHead(d1.fat, h) <=> IsHead(d.fat, h) /\ h # ReadSlot(d, c, i).first
    BY FreedTree
  <2> QED BY <1>1, <2>1
<1>4. SoundDisk(d1) /\ Dir(d1, c)
  BY <1>3 DEF Directories
<1>5. InUse(d1, c, i)
  BY <1>2, <1>3 DEF Changes, SameSlot, Listed
<1>6. Edited(d1, d2, c, i) /\ ~InUse(d2, c, i)
  BY <1>2, <1>4, <1>5, ErasedIs
<1> DEFINE X == {<<c, i>>}
<1>7. Changes(d1, d2, D2, X) /\ Directories(d2, D2) /\ SameHeads(d1, d2)
  BY <1>3, <1>6, EditedChanges
<1>8. Changes(d, d2, D2, X)
  <2>1. Changes(d, d2, D2, {} \cup X)
    BY <1>3, <1>7, ChangesTwice
  <2> QED BY <2>1
<1>9. \A b, j : <<b, j>> \in X <=> b = c /\ j = i
  OBVIOUS
<1>10. ~Listed(d2, c, i)
  BY <1>6 DEF Listed
<1> HIDE DEF X
<1>11. NoDots(d, D2, X) /\ Fit(d2, D2, X)
  BY <1>2, <1>9, <1>10 DEF NoDots, Fit
<1>12. ASSUME NEW b \in D2, NEW j \in Nat, <<b, j>> \notin X, Listed(d, b, j), NEW g, g = ReadSlot(d, b, j)
       PROVE  (g.dir => g.first \in D2) /\ (~g.dir /\ g.first # Free => IsHead(d2.fat, g.first))
  <2>1. Apart(d, c, i, b, j) /\ Proper(d, D, g)
    BY <1>2, <1>3, <1>9, <1>12 DEF IsTree, AllApart, AllProper
  <2>2. e.first = g.first => e.first = Free
    BY <1>1, <1>12, <2>1 DEF Apart
  <2>3. ASSUME g.dir PROVE g.first \in D2
    <3>1. g.first \in D /\ g.first # e.first
      BY <2>1, <2>2, <2>3 DEF Proper, Free
    <3> QED BY <1>1, <3>1 DEF Removable
  <2>4. ASSUME ~g.dir, g.first # Free PROVE IsHead(d2.fat, g.first)
    <3>1. IsHead(d.fat, g.first) /\ g.first # e.first
      BY <2>1, <2>2, <2>4 DEF Proper
    <3> QED BY <1>3, <1>7, <3>1 DEF SameHeads
  <2> QED BY <2>3, <2>4
<1>13. Remain(d, d2, D2, X)
  BY <1>12 DEF Remain
<1>14. IsTree(d2, D2)
  <2>1. \A b \in D2 : \A j \in Nat : <<b, j>> \in X /\ Listed(d2, b, j) => LeadsBack(d2, b, j)
    BY <1>9, <1>10
  <2> QED BY <1>3, <1>7, <1>8, <1>11, <1>13, <2>1, TreeChanged
<1>15. \A h : IsHead(d2.fat, h) => IsHead(d.fat, h) /\ h # ReadSlot(d, c, i).first
  BY <1>1, <1>3, <1>7 DEF SameHeads
<1> QED BY <1>8, <1>10, <1>14, <1>15 DEF TreeRemoved, X

\* What is left is whole: the removed directory had no entry of a file or directory.
LEMMA WholeRemoved ==
  ASSUME NEW d, NEW D, IsTree(d, D), Whole(d, D), NEW c, NEW i, NEW D2, Removable(d, D, c, i, D2),
         NEW d2, TreeRemoved(d, D, d2, D2, c, i)
  PROVE  Whole(d2, D2)
<1>1. PICK e : e = ReadSlot(d, c, i)
  OBVIOUS
<1>2. /\ c \in D /\ i \in Nat /\ Listed(d, c, i)
      /\ e.dir => Empty(d, e.first)
      /\ \A h : h \in D2 <=> h \in D /\ (e.dir => h # e.first)
  BY <1>1 DEF Removable
<1>3. Changes(d, d2, D2, {<<c, i>>}) /\ \A h : IsHead(d2.fat, h) => IsHead(d.fat, h) /\ h # e.first
  BY <1>1 DEF TreeRemoved
<1>4. ASSUME NEW b \in D, NEW h, Leads(d, b, h), h # e.first PROVE b \in D2 /\ Leads(d2, b, h)
  <2>1. PICK j \in Nat : Listed(d, b, j) /\ ReadSlot(d, b, j).first = h
    BY <1>4 DEF Leads
  <2>2. b \in D2
    BY <1>2, <2>1 DEF Empty
  <2>3. b # c \/ i # j
    BY <1>1, <1>4, <2>1
  <2>4. SameSlot(d, d2, b, j)
    BY <1>3, <2>2, <2>3 DEF Changes
  <2>5. Listed(d2, b, j) /\ ReadSlot(d2, b, j) = ReadSlot(d, b, j)
    BY <2>1, <2>4, SameListed
  <2> QED BY <2>1, <2>2, <2>5 DEF Leads
<1>5. Owned(d2, D2)
  <2> SUFFICES ASSUME NEW h, IsHead(d2.fat, h) PROVE \E b \in D2 : Leads(d2, b, h)
    BY DEF Owned
  <2>1. PICK b \in D : Leads(d, b, h)
    BY <1>3 DEF Whole, Owned
  <2> QED BY <1>3, <1>4, <2>1
<1>6. ASSUME NEW h \in D2, h # 0 PROVE h # e.first
  <2>1. h \in D /\ Proper(d, D, e)
    BY <1>1, <1>2, <1>6 DEF IsTree, AllProper
  <2> QED BY <1>2, <1>6, <2>1 DEF Proper, Free
<1>7. ASSUME NEW X, X \subseteq D2, 0 \notin X, X # {} PROVE Entrance(d2, D2, X)
  <2>1. X \subseteq D
    BY <1>2, <1>7
  <2>2. Entrance(d, D, X)
    BY <1>7, <2>1 DEF Whole
  <2>3. PICK h \in X, b \in D \ X : Leads(d, b, h)
    BY <2>2 DEF Entrance
  <2>4. h # e.first
    BY <1>6, <1>7
  <2>5. b \in D2 \ X /\ Leads(d2, b, h)
    BY <1>4, <2>3, <2>4
  <2> QED BY <2>5 DEF Entrance
<1> QED BY <1>5, <1>7 DEF Whole

\* fat12_is_dir_empty
LEMMA EmptyIs ==
  ASSUME NEW d, NEW D, IsTree(d, D), NEW x, x \in D, IsEmpty(d, x)
  PROVE  Empty(d, x)
<1>1. SoundDisk(d) /\ d \in Disk /\ x \in DirCluster /\ Dir(d, x)
  BY DirIs
<1>2. PICK f : f = FirstSlot(d, x, Live \cup {End})
  OBVIOUS
<1>3. FirstWith(d, x, Live \cup {End}, f)
  BY <1>1, <1>2, FirstSlotIs
<1>4. ReadSlot(d, x, f).name \notin Live
  BY <1>2 DEF IsEmpty
<1>5. f \in Nat /\ ReadSlot(d, x, f).name \in {End, Missing}
  BY <1>3, <1>4 DEF FirstWith
<1> SUFFICES ASSUME NEW j \in Nat, Listed(d, x, j) PROVE FALSE
  BY DEF Empty
<1>6. ReadSlot(d, x, j).name \in Live /\ Seen(d, x, j)
  BY DEF Listed, InUse, IsTree, AllProper, Proper, Live
<1>7. ~(f <= j)
  <2>1. SUFFICES ASSUME f <= j PROVE FALSE
    OBVIOUS
  <2>2. f \in 0 .. j
    BY <1>5, <2>1
  <2> QED BY <1>5, <1>6, <2>2 DEF Seen
<1>8. j < f
  BY <1>5, <1>7
<1> QED BY <1>3, <1>6, <1>8 DEF FirstWith

\* The entry of a file gets another size, or its first cluster, y.
TreePatched(d, D, d2, c, i, y) ==
  /\ IsTree(d2, D) /\ Changes(d, d2, D, {<<c, i>>})
  /\ Stays(d, d2, c, i) /\ ReadSlot(d2, c, i).first = y
  /\ Whole(d, D) => Whole(d2, D)

\* A change of a file's entry that keeps its name keeps the tree.
LEMMA TreePatch ==
  ASSUME NEW d, NEW D, IsTree(d, D), NEW c, c \in D, NEW i, i \in Nat, Listed(d, c, i),
         ~ReadSlot(d, c, i).dir, NEW d2, Directories(d2, D), Changes(d, d2, D, {<<c, i>>}),
         \A h : IsHead(d.fat, h) => IsHead(d2.fat, h),
         InUse(d2, c, i), ReadSlot(d2, c, i).name = ReadSlot(d, c, i).name,
         ReadSlot(d2, c, i).dir = ReadSlot(d, c, i).dir,
         NEW y, y = ReadSlot(d2, c, i).first, \A h : IsHead(d2.fat, h) => IsHead(d.fat, h) \/ h = y,
         \/ y = ReadSlot(d, c, i).first
         \/ ReadSlot(d, c, i).first = Free /\ IsHead(d2.fat, y) /\ ~IsHead(d.fat, y) /\ y # 0
  PROVE  TreePatched(d, D, d2, c, i, y)
<1>1. PICK e : e = ReadSlot(d, c, i)
  OBVIOUS
<1>2. PICK f : f = ReadSlot(d2, c, i)
  OBVIOUS
<1>3. Proper(d, D, e) /\ e.name = f.name /\ ~e.dir /\ ~f.dir /\ y = f.first
  BY <1>1, <1>2 DEF IsTree, AllProper
<1>4. Listed(d2, c, i) /\ Stays(d, d2, c, i)
  BY DEF Listed, Stays
<1> DEFINE X == {<<c, i>>}
<1>5. \A b, j : <<b, j>> \in X <=> b = c /\ j = i
  OBVIOUS
<1>6. Changes(d, d2, D, X)
  OBVIOUS
<1> HIDE DEF X
<1>7. Remain(d, d2, D, X)
  BY DEF Remain, IsTree, AllProper, Proper
<1>8. Proper(d2, D, f)
  <2>1. CASE y = e.first
    BY <1>3, <2>1 DEF Proper
  <2>2. CASE y # e.first
    <3>1. IsHead(d2.fat, y) /\ ~IsHead(d.fat, y) /\ y # 0
      BY <1>1, <2>2
    <3>2. y \notin D
      BY <3>1 DEF IsTree, Directories, Dir
    <3> QED BY <1>3, <3>1, <3>2 DEF Proper
  <2> QED BY <2>1, <2>2
<1>9. ASSUME NEW b \in D, NEW j \in Nat, Listed(d2, b, j), b # c \/ j # i PROVE Apart(d2, c, i, b, j)
  <2>1. SameSlot(d, d2, b, j)
    BY <1>5, <1>6, <1>9 DEF Changes
  <2>2. PICK g : g = ReadSlot(d, b, j)
    OBVIOUS
  <2>3. Listed(d, b, j) /\ ReadSlot(d2, b, j) = g
    BY <1>9, <2>1, <2>2, SameListed
  <2>4. Apart(d, c, i, b, j) /\ Proper(d, D, g)
    BY <1>9, <2>2, <2>3 DEF IsTree, AllApart, AllProper
  <2>5. c = b => f.name # g.name
    BY <1>1, <1>3, <2>2, <2>4 DEF Apart
  <2>6. ASSUME f.first = g.first PROVE f.first = Free
    <3>1. CASE y = e.first
      BY <1>1, <1>3, <2>2, <2>4, <2>6, <3>1 DEF Apart
    <3>2. CASE y # e.first
      <4>1. IsHead(d2.fat, y) /\ ~IsHead(d.fat, y) /\ y # 0
        BY <1>1, <3>2
      <4>2. \A h \in D : h = 0 \/ IsHead(d.fat, h)
        BY DEF IsTree, Directories, Dir
      <4> QED BY <1>3, <2>4, <2>6, <4>1, <4>2 DEF Proper, Free
    <3> QED BY <3>1, <3>2
  <2> QED BY <1>2, <2>3, <2>5, <2>6 DEF Apart
<1>10. Fit(d2, D, X)
  BY <1>2, <1>5, <1>8, <1>9 DEF Fit
<1>11. NoDots(d, D, X)
  BY <1>5 DEF NoDots
<1>12. \A b \in D : \A j \in Nat : <<b, j>> \in X /\ Listed(d2, b, j) => LeadsBack(d2, b, j)
  BY <1>2, <1>3, <1>5 DEF LeadsBack
<1>13. IsTree(d2, D)
  BY <1>6, <1>7, <1>10, <1>11, <1>12, TreeChanged
<1>14. ASSUME Whole(d, D) PROVE Whole(d2, D)
  <2>1. KeepsLeads(d, d2, D)
    <3>1. ASSUME NEW b \in D, NEW j \in Nat, <<b, j>> \in X, Listed(d, b, j)
          PROVE  \/ ReadSlot(d, b, j).first = Free
                 \/ Listed(d2, b, j) /\ ReadSlot(d2, b, j).first = ReadSlot(d, b, j).first
      BY <1>4, <1>5, <3>1
    <3> QED BY <1>6, <3>1, LeadsKept
  <2>2. Leads(d2, c, y)
    BY <1>4 DEF Leads
  <2>3. \A h : IsHead(d2.fat, h) => IsHead(d.fat, h) \/ \E b \in D : Leads(d2, b, h)
    BY <2>2
  <2> QED BY <1>14, <2>1, <2>3, WholeKept
<1> QED BY <1>4, <1>6, <1>13, <1>14 DEF TreePatched, X

\* fat12_write enters the new size,
LEMMA SizeTree ==
  ASSUME NEW d, NEW D, IsTree(d, D), NEW file, NEW c, c = file.parent_cluster, c \in D,
         NEW i, i = file.entry_idx, i \in Nat, Listed(d, c, i), ~ReadSlot(d, c, i).dir,
         NEW x, x \in Nat, NEW d2, d2 = Patched(d, file, "size", x)
  PROVE  TreePatched(d, D, d2, c, i, ReadSlot(d, c, i).first)
<1>1. SoundDisk(d) /\ Dir(d, c) /\ Directories(d, D)
  BY DirIs DEF IsTree
<1>2. InUse(d, c, i)
  BY DEF Listed
<1>3. Patches(d, d2, c, i, ReadSlot(d, c, i).first, x)
  BY <1>1, <1>2, PatchSize
<1>4. PICK y : y = ReadSlot(d2, c, i).first
  OBVIOUS
<1>5. /\ Edited(d, d2, c, i) /\ InUse(d2, c, i)
      /\ ReadSlot(d2, c, i).name = ReadSlot(d, c, i).name /\ ReadSlot(d2, c, i).dir = ReadSlot(d, c, i).dir
      /\ y = ReadSlot(d, c, i).first
  BY <1>3, <1>4 DEF Patches
<1>6. Changes(d, d2, D, {<<c, i>>}) /\ Directories(d2, D) /\ SameHeads(d, d2)
  BY <1>1, <1>5, EditedChanges
<1>7. \A h : IsHead(d.fat, h) <=> IsHead(d2.fat, h)
  BY <1>6 DEF SameHeads
<1>8. TreePatched(d, D, d2, c, i, y)
  BY <1>4, <1>5, <1>6, <1>7, TreePatch
<1> QED BY <1>5, <1>8

\* and the first cluster of a file that had none.
LEMMA FirstTree ==
  ASSUME NEW d, NEW D, IsTree(d, D), NEW file, NEW c, c = file.parent_cluster, c \in D,
         NEW i, i = file.entry_idx, i \in Nat, Listed(d, c, i), ~ReadSlot(d, c, i).dir,
         ReadSlot(d, c, i).first = Free, NEW new, new = FreeCluster(d), new # None, NEW d1, d1 = Allocated(d, Free),
         NEW d2, d2 = Patched(d1, file, "first", new)
  PROVE  TreePatched(d, D, d2, c, i, new) /\ IsHead(d2.fat, new) /\ new \notin D
<1>1. SoundDisk(d) /\ Dir(d, c) /\ Directories(d, D)
  BY DirIs DEF IsTree
<1>2. Marks(d, d1, new)
  BY <1>1, NewChain
<1>3. /\ new \in Cluster /\ ~IsHead(d.fat, new) /\ SoundDisk(d1)
      /\ \A h : IsHead(d1.fat, h) <=> IsHead(d.fat, h) \/ h = new
      /\ \A h : Dir(d, h) => SameDir(d, d1, h)
  BY <1>2, Zenon DEF Marks
<1>4. Dir(d1, c) /\ SameSlot(d, d1, c, i)
  BY <1>1, <1>3, SameEntries DEF Dir
<1>5. InUse(d1, c, i) /\ ReadSlot(d1, c, i) = ReadSlot(d, c, i)
  BY <1>4 DEF Listed, SameSlot
<1>6. Patches(d1, d2, c, i, new, ReadSlot(d1, c, i).size)
  BY <1>3, <1>4, <1>5, PatchFirst
<1>7. PICK y : y = ReadSlot(d2, c, i).first
  OBVIOUS
<1>8. /\ Edited(d1, d2, c, i) /\ InUse(d2, c, i)
      /\ ReadSlot(d2, c, i).name = ReadSlot(d, c, i).name /\ ReadSlot(d2, c, i).dir = ReadSlot(d, c, i).dir
      /\ y = new
  BY <1>5, <1>6, <1>7 DEF Patches
<1>9. Directories(d1, D)
  BY <1>1, <1>3 DEF Directories, Dir
<1>10. Changes(d1, d2, D, {<<c, i>>}) /\ Directories(d2, D) /\ SameHeads(d1, d2)
  BY <1>8, <1>9, EditedChanges
<1>11. Changes(d, d1, D, {})
  <2>1. \A h \in D : \A j \in Nat : SameSlot(d, d1, h, j)
    BY <1>1, <1>3, SameEntries DEF Directories
  <2> QED BY <2>1 DEF Changes
<1>12. Changes(d, d2, D, {<<c, i>>})
  <2>1. Changes(d, d2, D, {} \cup {<<c, i>>})
    BY <1>10, <1>11, ChangesTwice
  <2> QED BY <2>1
<1>13. \A h : IsHead(d2.fat, h) <=> IsHead(d.fat, h) \/ h = y
  BY <1>3, <1>8, <1>10 DEF SameHeads
<1>14. IsHead(d2.fat, y) /\ ~IsHead(d.fat, y) /\ y # 0
  BY <1>3, <1>8, <1>10 DEF SameHeads, Cluster
<1>15. TreePatched(d, D, d2, c, i, y)
  BY <1>7, <1>8, <1>10, <1>12, <1>13, <1>14, TreePatch
<1>16. new \notin D
  BY <1>1, <1>8, <1>14 DEF Directories, Dir
<1> QED BY <1>8, <1>14, <1>15, <1>16

\* fat12_makedir's new directory, before it has an entry: D2 is D with it.
NewDir(d, D, d2, D2, new, parent) ==
  /\ new \in Cluster /\ new \notin D /\ ~IsHead(d.fat, new) /\ D2 = D \cup {new}
  /\ IsTree(d2, D2) /\ Changes(d, d2, D, {}) /\ Empty(d2, new)
  /\ \A h : IsHead(d2.fat, h) <=> IsHead(d.fat, h) \/ h = new
  /\ OnDisk(new) => ReadSlot(d2, new, 1).first = parent

\* fat12_makedir takes a free cluster and puts "." and ".." into it.
LEMMA NewDirIs ==
  ASSUME NEW d, NEW D, IsTree(d, D), NEW new, new = FreeCluster(d), new # None,
         NEW parent, parent \in D, NEW d1, d1 = Allocated(d, Free),
         NEW d2, d2 = InitDir(d1, new, parent), NEW D2, D2 = D \cup {new}
  PROVE  NewDir(d, D, d2, D2, new, parent)
<1>1. SoundDisk(d) /\ Directories(d, D) /\ parent \in DirCluster
  BY DirIs DEF IsTree
<1>2. Marks(d, d1, new)
  BY <1>1, NewChain
<1>3. /\ new \in Cluster /\ ~IsHead(d.fat, new) /\ SoundDisk(d1)
      /\ \A h : IsHead(d1.fat, h) <=> IsHead(d.fat, h) \/ h = new
      /\ \A h : Dir(d, h) => SameDir(d, d1, h)
  BY <1>2, Zenon DEF Marks
<1>4. IsHead(d1.fat, new)
  BY <1>3
<1>5. Inited(d1, d2, new, parent)
  BY <1>1, <1>3, <1>4, InitDirIs
<1>6. Elsewhere(d1, d2, new)
  BY <1>5 DEF Inited
<1>7. SoundDisk(d2) /\ SameHeads(d1, d2) /\ \A h : Dir(d1, h) /\ h # new => SameDir(d1, d2, h)
  BY <1>6, Zenon DEF Elsewhere
<1>8. \A h : IsHead(d2.fat, h) <=> IsHead(d.fat, h) \/ h = new
  BY <1>3, <1>7 DEF SameHeads
<1>9. new \notin D /\ new # 0
  BY <1>1, <1>3 DEF Directories, Dir, Cluster
<1>10. ASSUME NEW h \in D, NEW j \in Nat PROVE SameSlot(d, d2, h, j)
  <2>1. Dir(d, h) /\ Dir(d1, h) /\ h # new
    BY <1>1, <1>3, <1>9 DEF Directories, Dir
  <2>2. SameDir(d, d1, h) /\ SameDir(d1, d2, h)
    BY <1>3, <1>7, <2>1
  <2>3. SameSlot(d, d1, h, j) /\ SameSlot(d1, d2, h, j)
    BY <2>2, SameEntries
  <2> QED BY <2>3 DEF SameSlot
<1>11. Changes(d, d2, D, {})
  BY <1>10 DEF Changes
<1>12. ASSUME NEW c \in D, NEW i \in Nat
       PROVE  /\ Listed(d2, c, i) <=> Listed(d, c, i)
              /\ Listed(d, c, i) => ReadSlot(d2, c, i) = ReadSlot(d, c, i)
  BY <1>10, SameListed
<1>13. Empty(d2, new)
  <2> SUFFICES ASSUME NEW j \in Nat, Listed(d2, new, j) PROVE FALSE
    BY DEF Empty
  <2>1. OnDisk(new) /\ j \in {0, 1}
    BY <1>5 DEF Inited, Listed
  <2> QED BY <1>5, <2>1 DEF Inited, Listed
<1>14. Directories(d2, D2)
  <2>1. D2 \subseteq DirCluster /\ 0 \in D2
    BY <1>1, <1>3 DEF Directories, DirCluster
  <2>2. \A c \in D2 : Dir(d2, c)
    BY <1>1, <1>8 DEF Directories, Dir
  <2> QED BY <1>7, <2>1, <2>2 DEF Directories
<1>15. AllProper(d2, D2)
  <2> SUFFICES ASSUME NEW c \in D2, NEW i \in Nat, Listed(d2, c, i) PROVE Proper(d2, D2, ReadSlot(d2, c, i))
    BY DEF AllProper
  <2>1. c \in D
    BY <1>13 DEF Empty
  <2>2. PICK e : e = ReadSlot(d, c, i)
    OBVIOUS
  <2>3. ReadSlot(d2, c, i) = e /\ Proper(d, D, e)
    BY <1>12, <2>1, <2>2 DEF IsTree, AllProper
  <2> QED BY <1>3, <1>8, <2>3 DEF Proper
<1>16. AllApart(d2, D2)
  <2> SUFFICES ASSUME NEW b \in D2, NEW c \in D2, NEW i \in Nat, NEW j \in Nat,
                      Listed(d2, b, i), Listed(d2, c, j), b # c \/ i # j
               PROVE  Apart(d2, b, i, c, j)
    BY DEF AllApart
  <2>1. b \in D /\ c \in D
    BY <1>13 DEF Empty
  <2>2. /\ Listed(d, b, i) /\ ReadSlot(d2, b, i) = ReadSlot(d, b, i)
        /\ Listed(d, c, j) /\ ReadSlot(d2, c, j) = ReadSlot(d, c, j)
    BY <1>12, <2>1
  <2>3. Apart(d, b, i, c, j)
    BY <2>1, <2>2 DEF IsTree, AllApart
  <2> QED BY <2>2, <2>3 DEF Apart
<1>17. NoDots(d, D, {})
  BY DEF NoDots
<1>18. Dotted(d2, D) /\ \A c \in D : c # 0 /\ OnDisk(c) => ReadSlot(d2, c, 1) = ReadSlot(d, c, 1)
  <2>1. D \subseteq D
    OBVIOUS
  <2> QED BY <1>11, <1>17, <2>1, DotsKept
<1>19. Dotted(d2, D2)
  <2>1. OnDisk(new) => Dots(d2, new)
    BY <1>5 DEF Inited, Dots
  <2> QED BY <1>18, <2>1 DEF Dotted
<1>20. AllLeadBack(d2, D2)
  <2> SUFFICES ASSUME NEW c \in D2, NEW i \in Nat, Listed(d2, c, i) PROVE LeadsBack(d2, c, i)
    BY DEF AllLeadBack
  <2>1. c \in D
    BY <1>13 DEF Empty
  <2>2. PICK e : e = ReadSlot(d, c, i)
    OBVIOUS
  <2>3. ReadSlot(d2, c, i) = e /\ Listed(d, c, i)
    BY <1>12, <2>1, <2>2
  <2> SUFFICES ASSUME e.dir, OnDisk(e.first) PROVE ReadSlot(d2, e.first, 1).first = c
    BY <2>3 DEF LeadsBack
  <2>4. ReadSlot(d, e.first, 1).first = c
    BY <2>1, <2>2, <2>3 DEF IsTree, AllLeadBack, LeadsBack
  <2>5. e.first \in D /\ e.first # 0
    BY <2>1, <2>2, <2>3 DEF IsTree, AllProper, Proper
  <2> QED BY <1>18, <2>4, <2>5
<1>21. OnDisk(new) => ReadSlot(d2, new, 1).first = parent
  BY <1>5 DEF Inited
<1>22. IsTree(d2, D2)
  BY <1>14, <1>15, <1>16, <1>19, <1>20 DEF IsTree
<1> QED BY <1>3, <1>8, <1>9, <1>11, <1>13, <1>21, <1>22 DEF NewDir

\* The entry for it.
DirEntry(e, new) == e \in Entry /\ e.name \in Name /\ e.dir /\ e.first = new

\* What fat12_makedir leaves, whether it works or not.
DirMade(d, D, d2, D2, c, ok) ==
  /\ IsTree(d2, D2) /\ D \subseteq D2 /\ (Whole(d, D) => Whole(d2, D2))
  /\ IF ok THEN \E i \in Nat : Changes(d, d2, D, {<<c, i>>}) /\ ~Listed(d, c, i)
     ELSE Changes(d, d2, D, {})

\* The parent directory may get the new entry.
LEMMA NewDirWelcome ==
  ASSUME NEW d, NEW D, IsTree(d, D), NEW new, NEW parent, parent \in D, NEW d2, NEW D2,
         NewDir(d, D, d2, D2, new, parent),
         NEW e, DirEntry(e, new), \A i : ~Holds(d, parent, i, e.name)
  PROVE  Welcome(d2, D2, parent, e)
<1>1. IsTree(d2, D2) /\ Changes(d, d2, D, {}) /\ Empty(d2, new) /\ D2 = D \cup {new} /\ new \in Cluster
  BY DEF NewDir
<1>2. ASSUME NEW c \in D, NEW i \in Nat
      PROVE  /\ Listed(d2, c, i) <=> Listed(d, c, i)
             /\ Listed(d, c, i) => ReadSlot(d2, c, i) = ReadSlot(d, c, i)
  <2>1. SameSlot(d, d2, c, i)
    BY <1>1 DEF Changes
  <2> QED BY <2>1, SameListed
<1>3. Proper(d2, D2, e)
  BY <1>1 DEF DirEntry, Proper, Cluster
<1>4. \A i : ~Holds(d2, parent, i, e.name)
  BY <1>2 DEF Holds
<1>5. ASSUME NEW b \in D2, NEW j \in Nat, Listed(d2, b, j) PROVE ReadSlot(d2, b, j).first # e.first
  <2>1. b \in D
    BY <1>1, <1>5 DEF Empty
  <2>2. PICK g : g = ReadSlot(d, b, j)
    OBVIOUS
  <2>3. Listed(d, b, j) /\ ReadSlot(d2, b, j) = g
    BY <1>2, <1>5, <2>1, <2>2
  <2>4. Proper(d, D, g)
    BY <2>1, <2>2, <2>3 DEF IsTree, AllProper
  <2>5. new \notin D /\ ~IsHead(d.fat, new) /\ new # Free
    BY <1>1 DEF NewDir, Cluster, Free
  <2>6. g.first # new
    BY <2>4, <2>5 DEF Proper
  <2> QED BY <2>3, <2>6 DEF DirEntry
<1>6. e.dir /\ OnDisk(e.first) => ReadSlot(d2, e.first, 1).first = parent
  BY DEF NewDir, DirEntry
<1>7. e \in Entry
  BY DEF DirEntry
<1> QED BY <1>3, <1>4, <1>5, <1>6, <1>7 DEF Welcome

\* fat12_makedir, when there is room for the entry.
LEMMA MakeDirDone ==
  ASSUME NEW d, NEW D, IsTree(d, D), NEW new, NEW parent, parent \in D, NEW d2, NEW D2,
         NewDir(d, D, d2, D2, new, parent), NEW e, DirEntry(e, new), Welcome(d2, D2, parent, e),
         NEW v, v = Create(d2, parent, e), v.ok
  PROVE  DirMade(d, D, v.disk, D2, parent, TRUE)
<1>1. IsTree(d2, D2) /\ Changes(d, d2, D, {}) /\ D2 = D \cup {new}
  BY DEF NewDir
<1>2. parent \in D2
  BY <1>1
<1>3. TreeCreated(d2, D2, v, parent, e)
  BY <1>1, <1>2, TreeCreate
<1>4. PICK i \in Nat : i = v.slot
  BY <1>3 DEF TreeCreated
<1>5. IsTree(v.disk, D2) /\ Changes(d2, v.disk, D2, {<<parent, i>>}) /\ ~Listed(d2, parent, i)
  BY <1>3, <1>4 DEF TreeCreated
<1>6. Changes(d, v.disk, D, {<<parent, i>>})
  <2>1. Changes(d2, v.disk, D, {<<parent, i>>})
    BY <1>1, <1>5 DEF Changes
  <2>2. Changes(d, v.disk, D, {} \cup {<<parent, i>>})
    BY <1>1, <2>1, ChangesTwice
  <2> QED BY <2>2
<1>7. ~Listed(d, parent, i)
  <2>1. SameSlot(d, d2, parent, i)
    BY <1>1 DEF Changes
  <2> QED BY <1>5, <2>1, SameListed
<1>8. Leads(v.disk, parent, new)
  BY <1>3, <1>4 DEF TreeCreated, DirEntry, Leads
<1>9. ASSUME Whole(d, D) PROVE Whole(v.disk, D2)
  <2>1. KeepsLeads(d, v.disk, D)
    <3>1. \A b \in D : \A j \in Nat : <<b, j>> \in {<<parent, i>>} => ~Listed(d, b, j)
      BY <1>7
    <3> QED BY <1>6, <3>1, LeadsKept
  <2>2. ASSUME NEW h, IsHead(v.disk.fat, h) PROVE \E c \in D2 : Leads(v.disk, c, h)
    <3>1. IsHead(d.fat, h) \/ h = new
      BY <1>3, <2>2 DEF TreeCreated, SameHeads, NewDir
    <3>2. CASE IsHead(d.fat, h)
      <4>1. PICK c \in D : Leads(d, c, h)
        BY <1>9, <3>2 DEF Whole, Owned
      <4>2. h # Free
        BY <3>2, Numbers DEF IsHead
      <4> QED BY <1>1, <2>1, <4>1, <4>2 DEF KeepsLeads
    <3> QED BY <1>2, <1>8, <3>1, <3>2
  <2>3. ASSUME NEW X, X \subseteq D2, 0 \notin X, X # {} PROVE Entrance(v.disk, D2, X)
    <3>1. CASE X = {new}
      <4>1. parent \in D2 \ X
        BY <1>2, <3>1 DEF NewDir
      <4> QED BY <1>8, <3>1, <4>1 DEF Entrance
    <3>2. CASE X # {new}
      <4>1. PICK Y : Y = X \ {new}
        OBVIOUS
      <4>2. Y \subseteq D /\ 0 \notin Y /\ Y # {}
        BY <1>1, <2>3, <3>2, <4>1
      <4>3. Entrance(d, D, Y)
        BY <1>9, <4>2 DEF Whole
      <4>4. PICK h \in Y, c \in D \ Y : Leads(d, c, h)
        BY <4>3 DEF Entrance
      <4>5. h \in X /\ c \in D2 \ X /\ h # Free
        BY <1>1, <4>1, <4>2, <4>4 DEF NewDir, Free
      <4>6. Leads(v.disk, c, h)
        BY <2>1, <4>4, <4>5 DEF KeepsLeads
      <4> QED BY <4>5, <4>6 DEF Entrance
    <3> QED BY <3>1, <3>2
  <2>4. Owned(v.disk, D2)
    BY <2>2 DEF Owned
  <2> QED BY <2>3, <2>4 DEF Whole
<1> QED BY <1>1, <1>5, <1>6, <1>7, <1>9 DEF DirMade

\* fat12_makedir, when there is none: the cluster is given back.
LEMMA MakeDirFailed ==
  ASSUME NEW d, NEW D, IsTree(d, D), NEW new, NEW parent, parent \in D, NEW d2, NEW D2,
         NewDir(d, D, d2, D2, new, parent), NEW e, Welcome(d2, D2, parent, e),
         NEW v, v = Create(d2, parent, e), ~v.ok, NEW d4, d4 = Freed(v.disk, new)
  PROVE  DirMade(d, D, d4, D, parent, FALSE)
<1>1. /\ IsTree(d2, D2) /\ Changes(d, d2, D, {}) /\ D2 = D \cup {new} /\ new \notin D
      /\ \A h : IsHead(d2.fat, h) <=> IsHead(d.fat, h) \/ h = new
      /\ ~IsHead(d.fat, new)
  BY DEF NewDir
<1>2. parent \in D2
  BY <1>1
<1>3. TreeCreated(d2, D2, v, parent, e)
  BY <1>1, <1>2, TreeCreate
<1>4. PICK d3 : d3 = v.disk
  OBVIOUS
<1>5. IsTree(d3, D2) /\ Changes(d2, d3, D2, {}) /\ SameHeads(d2, d3)
  BY <1>3, <1>4 DEF TreeCreated
<1>6. SoundDisk(d3) /\ IsHead(d3.fat, new)
  BY <1>1, <1>5 DEF SameHeads, IsTree, Directories
<1>7. Frees(d3, d4, new)
  BY <1>4, <1>6, FreedIs
<1>8. /\ SoundDisk(d4) /\ \A h : IsHead(d4.fat, h) <=> IsHead(d3.fat, h) /\ h # new
      /\ \A h : Dir(d4, h) => SameDir(d3, d4, h)
  BY <1>7, Zenon DEF Frees
<1>9. \A h : IsHead(d4.fat, h) <=> IsHead(d.fat, h)
  BY <1>1, <1>5, <1>8 DEF SameHeads
<1>10. Directories(d4, D)
  BY <1>8, <1>9 DEF IsTree, Directories, Dir
<1>11. Changes(d3, d4, D, {})
  <2>1. \A h \in D : SameDir(d3, d4, h)
    BY <1>8, <1>10 DEF Directories
  <2> QED BY <2>1, SameEntries DEF Changes
<1>12. Changes(d, d4, D, {})
  <2>1. Changes(d2, d3, D, {})
    BY <1>1, <1>5 DEF Changes
  <2>2. Changes(d, d3, D, {} \cup {})
    BY <1>1, <2>1, ChangesTwice
  <2>3. Changes(d, d4, D, ({} \cup {}) \cup {})
    BY <1>11, <2>2, ChangesTwice
  <2> QED BY <2>3
<1>13. IsTree(d4, D)
  BY <1>9, <1>10, <1>12, TreeKept
<1>14. ASSUME Whole(d, D) PROVE Whole(d4, D)
  <2>1. KeepsLeads(d, d4, D)
    <3>1. \A b \in D : \A j \in Nat : <<b, j>> \notin {}
      OBVIOUS
    <3> QED BY <1>12, <3>1, LeadsKept
  <2> QED BY <1>9, <1>14, <2>1, WholeKept
<1> QED BY <1>12, <1>13, <1>14 DEF DirMade

-----------------------------------------------------------------------------
(***************************************************************************)
(* fat12_rename: the entry in slot j of b moves to slot k of c.            *)
(***************************************************************************)
\* The ".." of a directory with the entry e comes to name c; other slots stay.
Turned(d, d2, D, e, c) ==
  /\ SoundDisk(d2) /\ SameHeads(d, d2)
  /\ \A h \in D : \A i \in Nat :
       ~e.dir \/ h # e.first \/ i # 1 \/ ~InUse(d, h, i) => SameSlot(d, d2, h, i)
  /\ e.dir /\ InUse(d, e.first, 1) =>
       /\ InUse(d2, e.first, 1) /\ ReadSlot(d2, e.first, 1).name = ReadSlot(d, e.first, 1).name
       /\ ReadSlot(d2, e.first, 1).first = c

\* A directory beyond the end of the disk has no "..".
LEMMA NoParent ==
  ASSUME NEW d, SoundDisk(d), NEW x, IsHead(d.fat, x), ~OnDisk(x)
  PROVE  ReadSlot(d, x, 1).name = Missing
<1>1. d \in Disk /\ x \in DirCluster /\ x # 0 /\ x \in Cluster
  BY DEF SoundDisk, IsHead, DirCluster, Cluster
<1>2. 1 \div ClusterSlots = 0
  BY FatAssumption
<1>3. Nth(d.fat, x, 0) = x
  <2>1. PICK fat : fat = d.fat
    OBVIOUS
  <2>2. fat \in [Cluster -> FatValue] /\ x \in FatValue
    BY <1>1, <2>1 DEF Disk, FatValue
  <2>3. Nth(fat, x, 0) = x
    BY <2>2, NthSteps
  <2> QED BY <2>1, <2>3
<1>4. ReadSlot(d, x, 1) = Blank(Missing)
  <2>1. PICK i \in Nat : i = 1
    OBVIOUS
  <2>2. ReadSlot(d, x, i) = IF OnDisk(Nth(d.fat, x, i \div ClusterSlots))
                            THEN d.slots[Nth(d.fat, x, i \div ClusterSlots)][i % ClusterSlots]
                            ELSE Blank(Missing)
    BY <1>1, Reading
  <2> QED BY <1>2, <1>3, <2>1, <2>2
<1> QED BY <1>4, Entries

\* What fat12_rename does to the ".." of a directory.
LEMMA TurnedIs ==
  ASSUME NEW d, NEW D, Directories(d, D), NEW e, e.dir => e.first \in D /\ e.first # 0,
         e.dir /\ OnDisk(e.first) => InUse(d, e.first, 1),
         NEW c, c \in D, NEW d2,
         d2 = IF e.dir /\ e.first # Free THEN Reparented(d, e.first, c) ELSE d
  PROVE  Turned(d, d2, D, e, c)
<1>1. CASE ~e.dir
  BY <1>1 DEF Turned, SameHeads, SameSlot, Directories
<1>2. CASE e.dir
  <2>1. PICK x : x = e.first
    OBVIOUS
  <2>2. x \in D /\ x # 0 /\ Dir(d, x) /\ SoundDisk(d) /\ c \in DirCluster
    BY <1>2, <2>1 DEF Directories
  <2>3. d2 = Reparented(d, x, c)
    BY <1>2, <2>1, <2>2 DEF Free
  <2>4. ReadSlot(d, x, 1).name = Missing \/ InUse(d, x, 1)
    <3>1. CASE OnDisk(x)
      BY <1>2, <2>1, <3>1
    <3>2. CASE ~OnDisk(x)
      <4>1. IsHead(d.fat, x)
        BY <2>2 DEF Dir
      <4> QED BY <2>2, <3>2, <4>1, NoParent
    <3> QED BY <3>1, <3>2
  <2>5. \/ ReadSlot(d, x, 1).name = Missing /\ d2 = d
        \/ /\ InUse(d, x, 1) /\ Edited(d, d2, x, 1) /\ InUse(d2, x, 1)
           /\ ReadSlot(d2, x, 1).name = ReadSlot(d, x, 1).name /\ ReadSlot(d2, x, 1).first = c
    BY <2>2, <2>3, <2>4, ReparentedIs
  <2>6. CASE ReadSlot(d, x, 1).name = Missing /\ d2 = d
    <3>1. ~InUse(d, x, 1)
      BY <2>6 DEF InUse, Seen
    <3> QED BY <2>1, <2>2, <2>6, <3>1 DEF Turned, SameHeads, SameSlot
  <2>7. CASE /\ InUse(d, x, 1) /\ Edited(d, d2, x, 1) /\ InUse(d2, x, 1)
             /\ ReadSlot(d2, x, 1).name = ReadSlot(d, x, 1).name /\ ReadSlot(d2, x, 1).first = c
    <3>1. /\ SoundDisk(d2) /\ SameHeads(d, d2)
          /\ \A h \in D : \A i \in Nat : h # x \/ i # 1 => SameSlot(d, d2, h, i)
      BY <2>7, SMTT(30) DEF Edited, Directories
    <3> QED BY <1>2, <2>1, <2>7, <3>1 DEF Turned
  <2> QED BY <2>5, <2>6, <2>7
<1> QED BY <1>1, <1>2

\* The slots of D that differ: the new entry, in slot k of c, the old one, in slot j of
\* b, and the ".." of a directory that was moved.
Moves(d, d2, D, e, b, j, c, k, f) ==
  /\ Directories(d2, D) /\ SameHeads(d, d2)
  /\ ~InUse(d, c, k) /\ InUse(d2, c, k) /\ ReadSlot(d2, c, k) = f
  /\ ~InUse(d2, b, j)
  /\ \A h \in D : \A i \in Nat :
       /\ h # c \/ i # k
       /\ h # b \/ i # j
       /\ ~e.dir \/ h # e.first \/ i # 1
       => SameSlot(d, d2, h, i)
  /\ e.dir /\ OnDisk(e.first) =>
       /\ InUse(d2, e.first, 1) /\ ReadSlot(d2, e.first, 1).name = ".."
       /\ ReadSlot(d2, e.first, 1).first = c
  /\ e.dir /\ ~OnDisk(e.first) => ~Listed(d2, e.first, 1)

\* The new entry, the ".." and the deleted old entry make a move.
LEMMA MovesIs ==
  ASSUME NEW d, NEW D, IsTree(d, D), NEW found, NEW b, b = found.dir, b \in D, NEW j, j = found.slot,
         j \in Nat, Listed(d, b, j), NEW e, e = ReadSlot(d, b, j), NEW c, c \in D,
         NEW f, f \in Entry, f.name \in Name,
         NEW v, v = Create(d, c, f), v.ok, NEW d2,
         d2 = IF e.dir /\ e.first # Free THEN Reparented(v.disk, e.first, c) ELSE v.disk,
         NEW d3, d3 = Erased(d2, found)
  PROVE  Moves(d, d3, D, e, b, j, c, v.slot, f)
<1>1. SoundDisk(d) /\ Dir(d, c) /\ Directories(d, D)
  BY DirIs DEF IsTree
<1>2. f.name \notin {End, Deleted}
  BY FatAssumption DEF Special
<1>3. Created(d, v, c, f)
  BY <1>1, <1>2, CreateIs
<1>4. PICK k \in Nat : k = v.slot
  BY <1>3 DEF Created
<1>5. PICK d1 : d1 = v.disk
  OBVIOUS
<1>6. /\ ~InUse(d, c, k) /\ Edited(d, d1, c, k)
      /\ InUse(d1, c, k) /\ ReadSlot(d1, c, k) = f
  BY <1>3, <1>4, <1>5 DEF Created
<1>7. Directories(d1, D) /\ SameHeads(d, d1)
  BY <1>1, <1>6, EditedChanges
<1>8. ASSUME NEW h \in D, NEW i \in Nat, h # c \/ i # k PROVE SameSlot(d, d1, h, i)
  BY <1>1, <1>6, <1>8 DEF Edited, Directories
<1>9. Proper(d, D, e)
  BY DEF IsTree, AllProper
<1>10. PICK x : x = e.first
  OBVIOUS
<1>11. e.dir => x \in D /\ x # 0 /\ IsHead(d.fat, x)
  BY <1>1, <1>9, <1>10 DEF Proper, Directories, Dir
<1>12. ASSUME e.dir, OnDisk(x)
       PROVE  /\ InUse(d, x, 1) /\ ReadSlot(d, x, 1).name = ".." /\ ~Listed(d, x, 1)
              /\ (x # c \/ 1 # k) /\ (x # b \/ 1 # j)
              /\ InUse(d1, x, 1) /\ ReadSlot(d1, x, 1).name = ".."
  <2>1. InUse(d, x, 1) /\ ReadSlot(d, x, 1).name = ".."
    BY <1>11, <1>12 DEF IsTree, Dotted, Dots
  <2>2. ~Listed(d, x, 1)
    BY <2>1 DEF Listed
  <2>3. (x # c \/ 1 # k) /\ (x # b \/ 1 # j)
    BY <1>6, <2>1, <2>2
  <2>4. SameSlot(d, d1, x, 1)
    BY <1>8, <1>11, <1>12, <2>3
  <2> QED BY <2>1, <2>2, <2>3, <2>4 DEF SameSlot
<1>13. ASSUME e.dir, ~OnDisk(x), NEW g, SoundDisk(g), SameHeads(d, g) PROVE ~InUse(g, x, 1)
  <2>1. IsHead(g.fat, x)
    BY <1>11, <1>13 DEF SameHeads
  <2>2. ReadSlot(g, x, 1).name = Missing
    BY <1>13, <2>1, NoParent
  <2> QED BY <2>2 DEF InUse, Seen
<1>14. Turned(d1, d2, D, e, c)
  <2>1. e.dir => e.first \in D /\ e.first # 0
    BY <1>10, <1>11
  <2>2. e.dir /\ OnDisk(e.first) => InUse(d1, e.first, 1)
    BY <1>10, <1>12
  <2> QED BY <1>5, <1>7, <2>1, <2>2, TurnedIs
<1>15. SoundDisk(d2) /\ SameHeads(d1, d2)
  BY <1>14, Zenon DEF Turned
<1>16. ASSUME NEW h \in D, NEW i \in Nat, ~e.dir \/ h # x \/ i # 1 \/ ~InUse(d1, h, i)
       PROVE  SameSlot(d1, d2, h, i)
  BY <1>10, <1>14, <1>16 DEF Turned
<1>17. SameHeads(d, d2) /\ Directories(d2, D)
  BY <1>1, <1>7, <1>15 DEF SameHeads, Directories, Dir
<1>18. SameSlot(d1, d2, b, j) /\ SameSlot(d, d1, b, j)
  <2>1. b # c \/ j # k
    BY <1>6 DEF Listed
  <2>2. SameSlot(d, d1, b, j)
    BY <1>8, <2>1
  <2>3. ~e.dir \/ b # x \/ j # 1 \/ ~InUse(d1, b, j)
    BY <1>7, <1>12, <1>13 DEF Directories
  <2> QED BY <1>16, <2>2, <2>3
<1>19. InUse(d2, b, j)
  BY <1>18 DEF SameSlot, Listed
<1>20. Edited(d2, d3, b, j) /\ ~InUse(d3, b, j)
  <2>1. SoundDisk(d2) /\ Dir(d2, b)
    BY <1>17 DEF Directories
  <2> QED BY <1>19, <2>1, ErasedIs
<1>21. Directories(d3, D) /\ SameHeads(d2, d3)
  BY <1>17, <1>20, EditedChanges
<1>22. ASSUME NEW h \in D, NEW i \in Nat, h # b \/ i # j PROVE SameSlot(d2, d3, h, i)
  BY <1>17, <1>20, <1>22 DEF Edited, Directories
<1>23. SameHeads(d, d3)
  BY <1>17, <1>21 DEF SameHeads
<1>24. InUse(d3, c, k) /\ ReadSlot(d3, c, k) = f
  <2>1. c # b \/ k # j
    BY <1>6 DEF Listed
  <2>2. ~e.dir \/ c # x \/ k # 1
    BY <1>6, <1>7, <1>12, <1>13 DEF Directories
  <2>3. SameSlot(d1, d2, c, k)
    BY <1>16, <2>2
  <2>4. SameSlot(d2, d3, c, k)
    BY <1>22, <2>1
  <2> QED BY <1>6, <2>3, <2>4 DEF SameSlot
<1>25. ASSUME NEW h \in D, NEW i \in Nat, h # c \/ i # k, h # b \/ i # j, ~e.dir \/ h # e.first \/ i # 1
       PROVE  SameSlot(d, d3, h, i)
  <2>1. SameSlot(d, d1, h, i)
    BY <1>8, <1>25
  <2>2. SameSlot(d1, d2, h, i)
    BY <1>10, <1>16, <1>25
  <2>3. SameSlot(d2, d3, h, i)
    BY <1>22, <1>25
  <2> QED BY <2>1, <2>2, <2>3 DEF SameSlot
<1>26. ASSUME e.dir, OnDisk(x)
       PROVE  InUse(d3, x, 1) /\ ReadSlot(d3, x, 1).name = ".." /\ ReadSlot(d3, x, 1).first = c
  <2>1. InUse(d2, x, 1) /\ ReadSlot(d2, x, 1).name = ".." /\ ReadSlot(d2, x, 1).first = c
    BY <1>10, <1>12, <1>14, <1>26 DEF Turned
  <2>2. SameSlot(d2, d3, x, 1)
    BY <1>11, <1>12, <1>22, <1>26
  <2> QED BY <2>1, <2>2 DEF SameSlot
<1>27. ASSUME e.dir, ~OnDisk(x) PROVE ~Listed(d3, x, 1)
  BY <1>13, <1>21, <1>23, <1>27 DEF Listed, Directories
<1> QED BY <1>4, <1>6, <1>10, <1>20, <1>21, <1>23, <1>24, <1>25, <1>26, <1>27 DEF Moves

\* The tree after fat12_rename: everything else is where it was.
TreeRenamed(d, D, d2, b, j) ==
  /\ IsTree(d2, D)
  /\ \A h \in D : \A i \in Nat : Listed(d, h, i) /\ (h # b \/ i # j) =>
       Stays(d, d2, h, i) /\ ReadSlot(d2, h, i) = ReadSlot(d, h, i)

\* fat12_rename keeps the tree: the entry has another place, what it leads to is the same.
LEMMA TreeRename ==
  ASSUME NEW d, NEW D, IsTree(d, D), NEW b, b \in D, NEW j, j \in Nat, Listed(d, b, j),
         NEW e, e = ReadSlot(d, b, j), NEW c, c \in D, NEW k, k \in Nat,
         NEW f, f.name \in Name, f.dir = e.dir, f.first = e.first, \A i : ~Holds(d, c, i, f.name),
         NEW d2, Moves(d, d2, D, e, b, j, c, k, f)
  PROVE  TreeRenamed(d, D, d2, b, j)
<1>1. /\ Directories(d2, D) /\ SameHeads(d, d2)
      /\ ~InUse(d, c, k) /\ InUse(d2, c, k) /\ ReadSlot(d2, c, k) = f
      /\ ~InUse(d2, b, j)
  BY Zenon DEF Moves
<1>2. PICK x : x = e.first
  OBVIOUS
<1>3. ASSUME NEW h \in D, NEW i \in Nat, h # c \/ i # k, h # b \/ i # j, ~e.dir \/ h # x \/ i # 1
      PROVE  SameSlot(d, d2, h, i)
  BY <1>2, <1>3 DEF Moves
<1>4. ASSUME e.dir, OnDisk(x)
      PROVE  InUse(d2, x, 1) /\ ReadSlot(d2, x, 1).name = ".." /\ ReadSlot(d2, x, 1).first = c
  BY <1>2, <1>4 DEF Moves
<1>5. ASSUME e.dir PROVE ~Listed(d2, x, 1)
  <2>1. CASE OnDisk(x)
    BY <1>4, <1>5, <2>1 DEF Listed
  <2>2. CASE ~OnDisk(x)
    BY <1>2, <1>5, <2>2 DEF Moves
  <2> QED BY <2>1, <2>2
<1>6. Proper(d, D, e)
  BY DEF IsTree, AllProper
<1>7. e.dir => x \in D /\ x # 0
  BY <1>2, <1>6 DEF Proper
<1>8. Listed(d2, c, k)
  <2>1. f.name \notin {".", ".."}
    BY FatAssumption DEF Special
  <2> QED BY <1>1, <2>1 DEF Listed
<1>9. ASSUME NEW h \in D, NEW i \in Nat, Listed(d2, h, i), h # c \/ i # k
      PROVE  /\ Listed(d, h, i) /\ ReadSlot(d2, h, i) = ReadSlot(d, h, i)
             /\ h # b \/ i # j
  <2>1. h # b \/ i # j
    BY <1>1, <1>9 DEF Listed
  <2>2. ~e.dir \/ h # x \/ i # 1
    BY <1>5, <1>9
  <2>3. SameSlot(d, d2, h, i)
    BY <1>3, <1>9, <2>1, <2>2
  <2> QED BY <1>9, <2>1, <2>3, SameListed
\* The dots.
<1>10. ASSUME NEW h \in D, h # 0, OnDisk(h)
       PROVE  /\ Dots(d2, h)
              /\ ~e.dir \/ h # x => ReadSlot(d2, h, 1) = ReadSlot(d, h, 1)
  <2>1. Dots(d, h)
    BY <1>10 DEF IsTree, Dotted
  <2>2. 0 \in Nat /\ 1 \in Nat
    OBVIOUS
  <2>3. InUse(d, h, 0) /\ ~Listed(d, h, 0) /\ InUse(d, h, 1) /\ ~Listed(d, h, 1)
    BY <2>1 DEF Dots, Listed
  <2>4. SameSlot(d, d2, h, 0)
    BY <1>1, <1>3, <2>2, <2>3
  <2>5. ~e.dir \/ h # x => SameSlot(d, d2, h, 1)
    BY <1>1, <1>3, <2>2, <2>3
  <2>6. InUse(d2, h, 0) /\ ReadSlot(d2, h, 0).name = "." /\ ReadSlot(d2, h, 0).first = h
    BY <2>1, <2>4 DEF SameSlot, Dots
  <2>7. InUse(d2, h, 1) /\ ReadSlot(d2, h, 1).name = ".."
    <3>1. CASE e.dir /\ h = x
      BY <1>4, <1>10, <3>1
    <3>2. CASE ~e.dir \/ h # x
      BY <2>1, <2>5, <3>2 DEF SameSlot, Dots
    <3> QED BY <3>1, <3>2
  <2>8. ~e.dir \/ h # x => ReadSlot(d2, h, 1) = ReadSlot(d, h, 1)
    BY <2>3, <2>5 DEF SameSlot
  <2> QED BY <2>6, <2>7, <2>8 DEF Dots
<1>11. Dotted(d2, D)
  BY <1>10 DEF Dotted
\* The entries.
<1>12. ASSUME NEW h \in D, NEW i \in Nat, Listed(d2, h, i)
       PROVE  Proper(d2, D, ReadSlot(d2, h, i))
  <2>1. CASE h = c /\ i = k
    BY <1>1, <1>6, <2>1 DEF Proper, SameHeads
  <2>2. CASE h # c \/ i # k
    <3>1. Listed(d, h, i) /\ ReadSlot(d2, h, i) = ReadSlot(d, h, i)
      BY <1>9, <1>12, <2>2
    <3>2. PICK g : g = ReadSlot(d, h, i)
      OBVIOUS
    <3>3. Proper(d, D, g)
      BY <3>1, <3>2 DEF IsTree, AllProper
    <3> QED BY <1>1, <3>1, <3>2, <3>3 DEF Proper, SameHeads
  <2> QED BY <2>1, <2>2
<1>13. ASSUME NEW h \in D, NEW i \in Nat, Listed(d2, h, i), h # c \/ i # k
       PROVE  Apart(d2, c, k, h, i) /\ Apart(d2, h, i, c, k)
  <2>1. Listed(d, h, i) /\ ReadSlot(d2, h, i) = ReadSlot(d, h, i) /\ (h # b \/ i # j)
    BY <1>9, <1>13
  <2>2. Apart(d, b, j, h, i)
    BY <2>1 DEF IsTree, AllApart
  <2>3. c = h => ReadSlot(d, h, i).name # f.name
    BY <2>1 DEF Holds
  <2>4. ReadSlot(d, h, i).first = f.first => f.first = Free
    BY <2>2 DEF Apart
  <2> QED BY <1>1, <2>1, <2>3, <2>4 DEF Apart
<1>14. ASSUME NEW g \in D, NEW h \in D, NEW l \in Nat, NEW i \in Nat, Listed(d2, g, l), Listed(d2, h, i),
              g # h \/ l # i
       PROVE  Apart(d2, g, l, h, i)
  <2>1. CASE g = c /\ l = k
    BY <1>13, <1>14, <2>1
  <2>2. CASE h = c /\ i = k
    BY <1>13, <1>14, <2>2
  <2>3. CASE (g # c \/ l # k) /\ (h # c \/ i # k)
    <3>1. /\ Listed(d, g, l) /\ ReadSlot(d2, g, l) = ReadSlot(d, g, l)
          /\ Listed(d, h, i) /\ ReadSlot(d2, h, i) = ReadSlot(d, h, i)
      BY <1>9, <1>14, <2>3
    <3>2. Apart(d, g, l, h, i)
      BY <1>14, <3>1 DEF IsTree, AllApart
    <3> QED BY <3>1, <3>2 DEF Apart
  <2> QED BY <2>1, <2>2, <2>3
<1>15. ASSUME NEW h \in D, NEW i \in Nat, Listed(d2, h, i) PROVE LeadsBack(d2, h, i)
  <2>1. CASE h = c /\ i = k
    BY <1>1, <1>2, <1>4, <2>1 DEF LeadsBack
  <2>2. CASE h # c \/ i # k
    <3>1. Listed(d, h, i) /\ ReadSlot(d2, h, i) = ReadSlot(d, h, i) /\ (h # b \/ i # j)
      BY <1>9, <1>15, <2>2
    <3>2. PICK g : g = ReadSlot(d, h, i)
      OBVIOUS
    <3> SUFFICES ASSUME g.dir, OnDisk(g.first) PROVE ReadSlot(d2, g.first, 1).first = h
      BY <3>1, <3>2 DEF LeadsBack
    <3>3. Proper(d, D, g) /\ Apart(d, b, j, h, i)
      BY <3>1, <3>2 DEF IsTree, AllProper, AllApart
    <3>4. g.first \in D /\ g.first # 0
      BY <3>3 DEF Proper
    <3>5. g.first # x
      BY <1>2, <3>2, <3>3, <3>4 DEF Apart, Free
    <3>6. PICK a : a = g.first
      OBVIOUS
    <3>7. ReadSlot(d2, a, 1) = ReadSlot(d, a, 1)
      BY <1>10, <3>4, <3>5, <3>6
    <3>8. ReadSlot(d, a, 1).first = h
      BY <3>1, <3>2, <3>6 DEF IsTree, AllLeadBack, LeadsBack
    <3> QED BY <3>6, <3>7, <3>8
  <2> QED BY <2>1, <2>2
<1>16. IsTree(d2, D)
  BY <1>1, <1>11, <1>12, <1>14, <1>15 DEF IsTree, AllProper, AllApart, AllLeadBack
<1>17. ASSUME NEW h \in D, NEW i \in Nat, Listed(d, h, i), h # b \/ i # j
       PROVE  Stays(d, d2, h, i) /\ ReadSlot(d2, h, i) = ReadSlot(d, h, i)
  <2>1. h # c \/ i # k
    BY <1>1, <1>17 DEF Listed
  <2>2. CASE ~e.dir \/ h # x \/ i # 1
    <3>1. SameSlot(d, d2, h, i)
      BY <1>3, <1>17, <2>1, <2>2
    <3> QED BY <1>17, <3>1, SameListed DEF Stays
  <2>3. CASE e.dir /\ h = x /\ i = 1
    <3>1. CASE OnDisk(x)
      <4>1. ReadSlot(d, x, 1).name = ".."
        BY <1>7, <2>3, <3>1 DEF IsTree, Dotted, Dots
      <4> QED BY <1>17, <2>3, <4>1 DEF Listed
    <3>2. CASE ~OnDisk(x)
      <4>1. SoundDisk(d) /\ IsHead(d.fat, x)
        BY <1>7, <2>3 DEF IsTree, Directories, Dir
      <4>2. ReadSlot(d, x, 1).name = Missing
        BY <3>2, <4>1, NoParent
      <4> QED BY <1>17, <2>3, <4>2 DEF Listed, InUse, Seen
    <3> QED BY <3>1, <3>2
  <2> QED BY <2>2, <2>3
<1> QED BY <1>16, <1>17 DEF TreeRenamed

\* A directory that is come to without this entry: the path's names go by others.
ReachedWithout(d, D, b, j, c) ==
  \A X : X \subseteq D /\ 0 \notin X /\ c \in X =>
    \E h \in X : \E a \in D \ X : \E i \in Nat :
      Listed(d, a, i) /\ ReadSlot(d, a, i).first = h /\ (a # b \/ i # j)

\* A path goes by other entries: it comes to its directory without this one.
LEMMA PathWithout ==
  ASSUME NEW d, NEW D, IsTree(d, D), NEW path, IsPath(path), NEW m, m \in 0 .. Len(path) - 1,
         NEW c, c = DirAt(d, path, m), c # None, NEW b, NEW j,
         \A n \in 1 .. m : ~Step(d, path, n, b, j)
  PROVE  ReachedWithout(d, D, b, j, c)
<1> SUFFICES ASSUME NEW X, X \subseteq D, 0 \notin X, c \in X
             PROVE  \E h \in X : \E a \in D \ X : \E i \in Nat :
                      Listed(d, a, i) /\ ReadSlot(d, a, i).first = h /\ (a # b \/ i # j)
  BY DEF ReachedWithout
<1> DEFINE S == {n \in 0 .. m : DirAt(d, path, n) \in X}
<1>1. m \in Nat /\ m \in S /\ S \in SUBSET Nat
  OBVIOUS
<1>2. PICK n \in S : \A k \in S : n <= k
  <2> HIDE DEF S
  <2>1. Min(S) \in S /\ \A y \in S : Min(S) <= y
    BY <1>1, MinOf
  <2> QED BY <2>1
<1>3. n \in 0 .. m /\ DirAt(d, path, n) \in X
  OBVIOUS
<1>4. n # 0
  BY <1>3, DirAtIs DEF IsPath
<1>5. n - 1 \in 0 .. m /\ ~(n <= n - 1) /\ n \in 1 .. m /\ n \in 1 .. Len(path) - 1
  BY <1>3, <1>4, PathNames
<1>6. DirAt(d, path, n - 1) \notin X
  BY <1>2, <1>5
<1>7. PICK e : e = DirAt(d, path, n)
  OBVIOUS
<1>8. e \in X /\ e # None
  BY <1>3, <1>7, DirIs
<1>9. PICK a \in D, i \in Nat : Step(d, path, n, a, i) /\ ReadSlot(d, a, i).first = e
  BY <1>5, <1>7, <1>8, StepUp
<1>10. a \notin X
  BY <1>6, <1>9 DEF Step
<1>11. Listed(d, a, i)
  BY <1>9 DEF Step, Holds
<1>12. a # b \/ i # j
  BY <1>5, <1>9
<1> QED BY <1>8, <1>9, <1>10, <1>11, <1>12

\* After a move all directories are come to still, if the new place was come to without
\* the old entry: a directory moved below itself would be lost with all that is in it.
LEMMA WholeRenamed ==
  ASSUME NEW d, NEW D, IsTree(d, D), Whole(d, D), NEW b, b \in D, NEW j, j \in Nat, Listed(d, b, j),
         NEW e, e = ReadSlot(d, b, j), NEW c, c \in D, NEW k, k \in Nat,
         NEW f, f.name \in Name, f.first = e.first,
         NEW d2, Moves(d, d2, D, e, b, j, c, k, f), TreeRenamed(d, D, d2, b, j),
         e.dir => ReachedWithout(d, D, b, j, c)
  PROVE  Whole(d2, D)
<1>1. PICK x : x = e.first
  OBVIOUS
<1>2. SameHeads(d, d2) /\ InUse(d2, c, k) /\ ReadSlot(d2, c, k) = f
  BY Zenon DEF Moves
<1>3. Leads(d2, c, x)
  <2>1. f.name \notin {".", ".."}
    BY FatAssumption DEF Special
  <2> QED BY <1>1, <1>2, <2>1 DEF Listed, Leads
<1>4. ASSUME NEW a \in D, NEW i \in Nat, Listed(d, a, i), a # b \/ i # j, NEW h, h = ReadSlot(d, a, i).first
      PROVE  Leads(d2, a, h)
  BY <1>4 DEF TreeRenamed, Stays, Leads
<1>5. ASSUME NEW a \in D, NEW h, Leads(d, a, h), h # x PROVE Leads(d2, a, h)
  <2>1. PICK i \in Nat : Listed(d, a, i) /\ h = ReadSlot(d, a, i).first
    BY <1>5 DEF Leads
  <2>2. a # b \/ i # j
    BY <1>1, <1>5, <2>1
  <2> QED BY <1>4, <2>1, <2>2
<1>6. Owned(d2, D)
  <2> SUFFICES ASSUME NEW h, IsHead(d2.fat, h) PROVE \E a \in D : Leads(d2, a, h)
    BY DEF Owned
  <2>1. IsHead(d.fat, h)
    BY <1>2 DEF SameHeads
  <2>2. PICK a \in D : Leads(d, a, h)
    BY <2>1 DEF Whole, Owned
  <2> QED BY <1>3, <1>5, <2>2
<1>7. ASSUME NEW X, X \subseteq D, 0 \notin X, X # {} PROVE Entrance(d2, D, X)
  <2>1. Entrance(d, D, X)
    BY <1>7 DEF Whole
  <2>2. PICK h \in X, a \in D \ X : Leads(d, a, h)
    BY <2>1 DEF Entrance
  <2>3. CASE h # x
    <3>1. Leads(d2, a, h)
      BY <1>5, <2>2, <2>3
    <3> QED BY <2>2, <3>1 DEF Entrance
  <2>4. CASE h = x /\ c \notin X
    BY <1>3, <2>2, <2>4 DEF Entrance
  <2>5. CASE h = x /\ c \in X
    <3>1. e.dir
      <4>1. Proper(d, D, e) /\ e.first \in D /\ e.first # 0
        BY <1>1, <1>7, <2>2, <2>5 DEF IsTree, AllProper
      <4> QED BY <4>1 DEF Proper, Free
    <3>2. PICK g \in X, a2 \in D \ X, i \in Nat :
            Listed(d, a2, i) /\ ReadSlot(d, a2, i).first = g /\ (a2 # b \/ i # j)
      BY <1>7, <2>5, <3>1 DEF ReachedWithout
    <3>3. Leads(d2, a2, g)
      BY <1>4, <3>2
    <3> QED BY <3>2, <3>3 DEF Entrance
  <2> QED BY <2>3, <2>4, <2>5
<1> QED BY <1>6, <1>7 DEF Whole

-----------------------------------------------------------------------------
(***************************************************************************)
(* The handles: each one is open on the file that its path leads to.       *)
(***************************************************************************)
\* The entry of the file, and its first cluster, are where the handle has them.
OpenAt(d, F) ==
  /\ IsPath(F.path[1]) /\ Step(d, F.path[1], Len(F.path[1]), F.parent_cluster, F.entry_idx)
  /\ ~ReadSlot(d, F.parent_cluster, F.entry_idx).dir
  /\ ReadSlot(d, F.parent_cluster, F.entry_idx).first = F.first_cluster

\* No file is open twice.
Handles(d, of) ==
  /\ of \in [Handle -> File \cup {Closed}]
  /\ \A f \in Handle : of[f].used => OpenAt(d, of[f])
  /\ \A f, g \in Handle : of[f].used /\ of[g].used /\ f # g => of[f].path[1] # of[g].path[1]

\* Above an entry there are directories only.
LEMMA Ancestors ==
  ASSUME NEW d, NEW D, IsTree(d, D), NEW path, IsPath(path), NEW c, NEW i, Step(d, path, Len(path), c, i)
  PROVE  \A n \in 1 .. Len(path) - 1 :
           \E b \in D, j \in Nat : /\ Step(d, path, n, b, j) /\ ReadSlot(d, b, j).dir
                                   /\ ReadSlot(d, b, j).first = DirAt(d, path, n)
                                   /\ DirAt(d, path, n) # None
<1> DEFINE X == {k \in Nat : k \in 0 .. Len(path) - 1 => DirAt(d, path, Len(path) - 1 - k) # None}
<1>0. Len(path) \in Nat
  BY PathNames
<1>1. 0 \in X
  BY <1>0 DEF Step
<1>2. ASSUME NEW k \in Nat, k \in X PROVE k + 1 \in X
  <2> SUFFICES ASSUME k + 1 \in 0 .. Len(path) - 1, DirAt(d, path, Len(path) - 1 - (k + 1)) = None
               PROVE  FALSE
    OBVIOUS
  <2>1. PICK n : n = Len(path) - 1 - k
    OBVIOUS
  <2>2. n \in 1 .. Len(path) - 1 /\ n - 1 = Len(path) - 1 - (k + 1) /\ k \in 0 .. Len(path) - 1
    BY <1>0, <2>1
  <2>3. PICK e : e = DirAt(d, path, n)
    OBVIOUS
  <2>4. e # None
    BY <1>2, <2>1, <2>2, <2>3
  <2>5. \E b \in D, j \in Nat : /\ Step(d, path, n, b, j) /\ ReadSlot(d, b, j).dir
                                /\ ReadSlot(d, b, j).first = e
    BY <2>2, <2>3, <2>4, StepUp
  <2> QED BY <2>2, <2>5 DEF Step
<1> HIDE DEF X
<1>3. \A k \in Nat : k \in X
  BY <1>1, <1>2, AllNumbers
<1> SUFFICES ASSUME NEW n \in 1 .. Len(path) - 1
             PROVE  \E b \in D, j \in Nat : /\ Step(d, path, n, b, j) /\ ReadSlot(d, b, j).dir
                                            /\ ReadSlot(d, b, j).first = DirAt(d, path, n)
                                            /\ DirAt(d, path, n) # None
  OBVIOUS
<1>4. PICK k : k = Len(path) - 1 - n
  OBVIOUS
<1>5. k \in Nat /\ k \in 0 .. Len(path) - 1 /\ Len(path) - 1 - k = n
  BY <1>0, <1>4
<1>6. PICK e : e = DirAt(d, path, n)
  OBVIOUS
<1>7. e # None
  BY <1>3, <1>5, <1>6 DEF X
<1>8. \E b \in D, j \in Nat : /\ Step(d, path, n, b, j) /\ ReadSlot(d, b, j).dir
                              /\ ReadSlot(d, b, j).first = e
  BY <1>6, <1>7, StepUp
<1> QED BY <1>6, <1>7, <1>8

\* So a path is met at a file's entry only at its end, and at a directory's only above
\* something in the directory.
LEMMA AtFile ==
  ASSUME NEW d, NEW D, IsTree(d, D), NEW path, IsPath(path), NEW b, NEW j,
         Step(d, path, Len(path), b, j), ~ReadSlot(d, b, j).dir,
         NEW n, n \in 1 .. Len(path), NEW c, NEW i, Step(d, path, n, c, i)
  PROVE  /\ ~ReadSlot(d, c, i).dir => n = Len(path) /\ c = b /\ i = j
         /\ ReadSlot(d, c, i).dir => ~Empty(d, ReadSlot(d, c, i).first)
<1>0. Len(path) \in Nat /\ Len(path) >= 1
  BY PathNames
<1>1. CASE n = Len(path)
  <2>1. c = b /\ i = j
    BY <1>1, OneStep
  <2> QED BY <1>1, <2>1
<1>2. CASE n # Len(path)
  <2>1. n \in 1 .. Len(path) - 1
    BY <1>0, <1>2
  <2>2. PICK c2 \in D, i2 \in Nat : /\ Step(d, path, n, c2, i2) /\ ReadSlot(d, c2, i2).dir
                                    /\ ReadSlot(d, c2, i2).first = DirAt(d, path, n)
                                    /\ DirAt(d, path, n) # None
    BY <2>1, Ancestors
  <2>3. c2 = c /\ i2 = i
    BY <2>2, OneStep
  <2>4. \E x, k : Step(d, path, n + 1, x, k)
    <3>1. CASE n + 1 = Len(path)
      BY <3>1
    <3>2. CASE n + 1 # Len(path)
      <4>1. n + 1 \in 1 .. Len(path) - 1
        BY <1>0, <2>1, <3>2
      <4> QED BY <4>1, Ancestors
    <3> QED BY <3>1, <3>2
  <2>5. PICK x, k : Step(d, path, n + 1, x, k)
    BY <2>4
  <2>6. DirAt(d, path, n) = x
    BY <2>1, <2>5 DEF Step
  <2>7. Listed(d, x, k) /\ k \in Nat
    BY <2>5 DEF Step, Holds
  <2> QED BY <2>2, <2>3, <2>6, <2>7 DEF Empty
<1> QED BY <1>1, <1>2

\* A handle that is in use.
LEMMA UsedIs ==
  ASSUME NEW d, NEW of, Handles(d, of), NEW f, f \in Handle, of[f].used
  PROVE  /\ of[f] \in File /\ OpenAt(d, of[f])
         /\ \A g \in Handle : of[g].used /\ g # f => of[g].path[1] # of[f].path[1]
<1>1. of[f] \in File \cup {Closed}
  BY DEF Handles
<1>2. of[f] # Closed
  BY DEF Closed
<1> QED BY <1>1, <1>2 DEF Handles

\* What the path of a handle goes by stays where it is, the first cluster too.
Stands(d, d2, F) ==
  \A n \in 1 .. Len(F.path[1]) : \A c, i : Step(d, F.path[1], n, c, i) =>
    Stays(d, d2, c, i) /\ ReadSlot(d2, c, i).first = ReadSlot(d, c, i).first

\* Then the handle is open there still.
LEMMA OpenKept ==
  ASSUME NEW d, NEW D, IsTree(d, D), NEW d2, NEW D2, IsTree(d2, D2), NEW F, OpenAt(d, F), Stands(d, d2, F)
  PROVE  OpenAt(d2, F)
<1>1. PICK path : path = F.path[1]
  OBVIOUS
<1>2. PICK c : c = F.parent_cluster
  OBVIOUS
<1>3. PICK i : i = F.entry_idx
  OBVIOUS
<1>4. IsPath(path) /\ Step(d, path, Len(path), c, i) /\ Len(path) \in 1 .. Len(path)
  BY <1>1, <1>2, <1>3, PathNames DEF OpenAt
<1>5. AllStay(d, d2, path)
  BY <1>1 DEF Stands, AllStay
<1>6. Step(d2, path, Len(path), c, i)
  BY <1>4, <1>5, PathKept
<1>7. Stays(d, d2, c, i) /\ ReadSlot(d2, c, i).first = ReadSlot(d, c, i).first
  BY <1>1, <1>4 DEF Stands
<1> QED BY <1>1, <1>2, <1>3, <1>4, <1>6, <1>7, Zenon DEF OpenAt, Stays

\* A call that disturbs no handle.
AllStand(d, d2, of) == \A f \in Handle : of[f].used => Stands(d, d2, of[f])

\* A call that disturbs no handle leaves all of them on their files.
LEMMA HandlesKept ==
  ASSUME NEW d, NEW D, IsTree(d, D), NEW d2, NEW D2, IsTree(d2, D2), NEW of, Handles(d, of),
         AllStand(d, d2, of)
  PROVE  Handles(d2, of)
<1>1. ASSUME NEW f \in Handle, of[f].used PROVE OpenAt(d2, of[f])
  <2>1. OpenAt(d, of[f]) /\ Stands(d, d2, of[f])
    BY <1>1 DEF Handles, AllStand
  <2> QED BY <2>1, OpenKept
<1> QED BY <1>1 DEF Handles

\* A path leads to the same directories if all its entries stay.
LEMMA DirAtKept ==
  ASSUME NEW d, NEW D, IsTree(d, D), NEW d2, NEW D2, IsTree(d2, D2), NEW path, IsPath(path),
         AllStay(d, d2, path), NEW n, n \in 0 .. Len(path) - 1, NEW c, c = DirAt(d, path, n), c # None
  PROVE  DirAt(d2, path, n) = c
<1>0. Len(path) \in Nat /\ Len(path) >= 1
  BY PathNames
<1>1. CASE n = 0
  <2>1. DirAt(d, path, 0) = 0 /\ DirAt(d2, path, 0) = 0
    BY DirAtIs DEF IsPath
  <2> QED BY <1>1, <2>1
<1>2. CASE n # 0
  <2>1. n \in 1 .. Len(path) - 1 /\ n \in 1 .. Len(path)
    BY <1>0, <1>2
  <2>2. PICK b \in D, j \in Nat : /\ Step(d, path, n, b, j) /\ ReadSlot(d, b, j).dir
                                  /\ ReadSlot(d, b, j).first = c
    BY <2>1, StepUp
  <2>3. Stays(d, d2, b, j)
    BY <2>1, <2>2 DEF AllStay
  <2>4. Step(d2, path, n, b, j)
    BY <2>1, <2>2, PathKept
  <2>5. ReadSlot(d2, b, j).dir /\ ReadSlot(d2, b, j).first = c
    BY <2>2, <2>3 DEF Stays
  <2>6. DirAt(d2, path, n) = ReadSlot(d2, b, j).first
    BY <2>1, <2>4, <2>5, StepDown
  <2> QED BY <2>5, <2>6
<1> QED BY <1>1, <1>2

\* All the entries of a path stay if no entry changes or goes.
Adds(d, D, X) == \A c \in D : \A i \in Nat : <<c, i>> \in X => ~Listed(d, c, i)

\* A new entry is on no path that led anywhere.
LEMMA AddsStay ==
  ASSUME NEW d, NEW D, IsTree(d, D), NEW d2, NEW X, Changes(d, d2, D, X), Adds(d, D, X),
         NEW path, IsPath(path)
  PROVE  /\ AllStay(d, d2, path)
         /\ \A n \in 1 .. Len(path) : \A c, i : Step(d, path, n, c, i) =>
              ReadSlot(d2, c, i).first = ReadSlot(d, c, i).first
<1>1. ASSUME NEW n \in 1 .. Len(path), NEW c, NEW i, Step(d, path, n, c, i)
      PROVE  Stays(d, d2, c, i) /\ ReadSlot(d2, c, i).first = ReadSlot(d, c, i).first
  <2>1. c \in D /\ i \in Nat /\ Listed(d, c, i)
    BY <1>1, OneStep
  <2>2. SameSlot(d, d2, c, i)
    BY <2>1 DEF Changes, Adds
  <2> QED BY <2>1, <2>2, SameListed DEF Stays
<1> QED BY <1>1 DEF AllStay

\* So it disturbs no handle.
LEMMA AddsStand ==
  ASSUME NEW d, NEW D, IsTree(d, D), NEW d2, NEW X, Changes(d, d2, D, X), Adds(d, D, X),
         NEW of, Handles(d, of)
  PROVE  AllStand(d, d2, of)
<1> SUFFICES ASSUME NEW f \in Handle, of[f].used PROVE Stands(d, d2, of[f])
  BY DEF AllStand
<1>1. PICK path : path = of[f].path[1]
  OBVIOUS
<1>2. IsPath(path)
  BY <1>1 DEF Handles, OpenAt
<1>3. /\ AllStay(d, d2, path)
      /\ \A n \in 1 .. Len(path) : \A c, i : Step(d, path, n, c, i) =>
           ReadSlot(d2, c, i).first = ReadSlot(d, c, i).first
  BY <1>2, AddsStay
<1> QED BY <1>1, <1>3 DEF Stands, AllStay

\* What is removed is no open file, and no directory above one.
LEMMA RemovedStand ==
  ASSUME NEW d, NEW D, IsTree(d, D), NEW c, NEW i, NEW D2, Removable(d, D, c, i, D2),
         NEW d2, TreeRemoved(d, D, d2, D2, c, i), NEW path, IsPath(path), Step(d, path, Len(path), c, i),
         NEW of, Handles(d, of),
         \A f \in Handle : of[f].used /\ ~ReadSlot(d, c, i).dir => of[f].path[1] # path
  PROVE  AllStand(d, d2, of)
<1> SUFFICES ASSUME NEW f \in Handle, of[f].used, NEW p, p = of[f].path[1],
                    NEW n \in 1 .. Len(p), NEW b, NEW j, Step(d, p, n, b, j)
             PROVE  Stays(d, d2, b, j) /\ ReadSlot(d2, b, j).first = ReadSlot(d, b, j).first
  BY DEF AllStand, Stands
<1>1. PICK b2 : b2 = of[f].parent_cluster
  OBVIOUS
<1>2. PICK j2 : j2 = of[f].entry_idx
  OBVIOUS
<1>3. IsPath(p) /\ Step(d, p, Len(p), b2, j2) /\ ~ReadSlot(d, b2, j2).dir
  BY <1>1, <1>2 DEF Handles, OpenAt
<1>4. b \in D /\ j \in Nat /\ Listed(d, b, j)
  BY <1>3, OneStep
<1>5. PICK e : e = ReadSlot(d, c, i)
  OBVIOUS
<1>6. b \in D2
  <2>1. e.dir => b # e.first
    BY <1>4, <1>5 DEF Removable, Empty
  <2> QED BY <1>4, <1>5, <2>1 DEF Removable
<1>7. b # c \/ j # i
  <2>1. SUFFICES ASSUME b = c, j = i PROVE FALSE
    OBVIOUS
  <2>2. /\ ~ReadSlot(d, b, j).dir => n = Len(p)
        /\ ReadSlot(d, b, j).dir => ~Empty(d, ReadSlot(d, b, j).first)
    BY <1>3, AtFile
  <2>3. ~e.dir
    BY <1>5, <2>1, <2>2 DEF Removable
  <2>4. n = Len(p) /\ Step(d, p, Len(p), c, i)
    BY <1>5, <2>1, <2>2, <2>3
  <2>5. Len(p) \in 1 .. Len(p) /\ Len(path) \in 1 .. Len(path)
    BY <1>3, PathNames
  <2>6. Len(path) = Len(p) /\ \A k \in 1 .. Len(path) : path[k] = p[k]
    BY <1>3, <2>4, <2>5, PathUnique
  <2>7. path = p
    BY <1>3, <2>6 DEF IsPath
  <2> QED BY <1>5, <2>3, <2>7
<1>8. SameSlot(d, d2, b, j)
  BY <1>4, <1>6, <1>7 DEF TreeRemoved, Changes
<1> QED BY <1>4, <1>8, SameListed DEF Stays

\* What is renamed is no open file, and no directory above one.
LEMMA RenamedStand ==
  ASSUME NEW d, NEW D, IsTree(d, D), NEW b, NEW j, NEW d2, TreeRenamed(d, D, d2, b, j),
         NEW old, IsPath(old), Step(d, old, Len(old), b, j), NEW of, Handles(d, of),
         \A f \in Handle : of[f].used => ~IsPrefix(old, of[f].path[1])
  PROVE  AllStand(d, d2, of)
<1> SUFFICES ASSUME NEW f \in Handle, of[f].used, NEW p, p = of[f].path[1],
                    NEW n \in 1 .. Len(p), NEW c, NEW i, Step(d, p, n, c, i)
             PROVE  Stays(d, d2, c, i) /\ ReadSlot(d2, c, i).first = ReadSlot(d, c, i).first
  BY DEF AllStand, Stands
<1>1. IsPath(p)
  BY DEF Handles, OpenAt
<1>2. c \in D /\ i \in Nat /\ Listed(d, c, i)
  BY <1>1, OneStep
<1>3. c # b \/ i # j
  <2>1. SUFFICES ASSUME c = b, i = j PROVE FALSE
    OBVIOUS
  <2>2. Len(old) \in 1 .. Len(old)
    BY PathNames
  <2>3. Len(old) = n /\ \A k \in 1 .. Len(old) : old[k] = p[k]
    BY <1>1, <2>1, <2>2, PathUnique
  <2>4. old \in Seq(Name) /\ p \in Seq(Name) /\ Len(old) \in Nat /\ Len(p) \in Nat /\ Len(old) <= Len(p)
    BY <1>1, <2>3 DEF IsPath
  <2>5. SubSeq(old, 1, Len(old)) = SubSeq(p, 1, Len(old))
    BY <2>3, <2>4
  <2> QED BY <2>4, <2>5 DEF IsPrefix
<1>4. Stays(d, d2, c, i) /\ ReadSlot(d2, c, i) = ReadSlot(d, c, i)
  BY <1>2, <1>3 DEF TreeRenamed
<1> QED BY <1>4

-----------------------------------------------------------------------------
(***************************************************************************)
(* The inductive invariant of Fat12, and its calls.                        *)
(***************************************************************************)
\* Clients take no liberty, and there is one way to write a path.
NoLiberties == Liberties = {} /\ \A s, t \in Spelling : s = t

\* The disk holds a whole tree, and the handles are open on files in it.
Consistent(d, of) == \E D : IsTree(d, D) /\ Whole(d, D) /\ Handles(d, of)
FilesInv == Consistent(disk, open_files)

\* The path of a call.
LEMMA PathIs ==
  ASSUME NEW path, path \in Path \X Spelling
  PROVE  IsPath(path[1]) /\ path[1] \in Path /\ path[2] \in Spelling /\ Last(path[1]) = path[1][Len(path[1])]
BY ClientAssumption DEF IsPath, Last

\* A formatted disk holds the tree that is only the root directory.
LEMMA FormattedIs ==
  IsTree(Formatted, {0}) /\ Whole(Formatted, {0}) /\ Handles(Formatted, [f \in Handle |-> Closed])
<1>1. PICK fat : fat = [c \in Cluster |-> Free]
  OBVIOUS
<1>2. PICK slots : slots = [dir \in DirCluster |-> [i \in Slots(dir) |-> EndEntry]]
  OBVIOUS
<1>3. PICK bytes : bytes = [c \in Cluster |-> [i \in 0 .. ClusterBytes - 1 |-> 0]]
  OBVIOUS
<1>4. fat \in [Cluster -> FatValue]
  BY <1>1 DEF FatValue
<1>5. slots \in SlotTable /\ \A dir \in DirCluster : slots[dir] = [i \in Slots(dir) |-> EndEntry]
  <2>1. \A dir \in DirCluster : slots[dir] = [i \in Slots(dir) |-> EndEntry]
    BY <1>2
  <2>2. \A dir \in DirCluster : slots[dir] \in [Slots(dir) -> Entry]
    <3> SUFFICES ASSUME NEW dir \in DirCluster PROVE slots[dir] \in [Slots(dir) -> Entry]
      OBVIOUS
    <3>1. slots[dir] = [i \in Slots(dir) |-> EndEntry] /\ EndEntry \in Entry
      BY <2>1, Entries
    <3> QED BY <3>1
  <2>3. slots \in [DirCluster -> UNION {[Slots(dir) -> Entry] : dir \in DirCluster}]
    <3>1. \A dir \in DirCluster : slots[dir] \in UNION {[Slots(e) -> Entry] : e \in DirCluster}
      BY <2>2
    <3>2. slots = [dir \in DirCluster |-> slots[dir]]
      BY <1>2
    <3> QED BY <3>1, <3>2
  <2> QED BY <2>1, <2>2, <2>3 DEF SlotTable
<1>6. bytes \in ByteTable
  BY <1>3, FatAssumption DEF ByteTable
<1>7. PICK d : d = [fat |-> fat, slots |-> slots, bytes |-> bytes]
  OBVIOUS
<1>8. d = Formatted
  BY <1>1, <1>2, <1>3, <1>7 DEF Formatted
<1>9. d \in Disk
  <2>1. [fat |-> fat, slots |-> slots, bytes |-> bytes] \in Disk
    BY <1>4, <1>5, <1>6, DiskOf
  <2> QED BY <1>7, <2>1
<1>10. d.fat = fat /\ d.slots = slots
  BY <1>7
<1>11. SoundFat(fat)
  <2>1. \A c \in Cluster : fat[c] = Free /\ fat[c] \notin Cluster
    BY <1>1, Numbers
  <2> QED BY <1>4, <2>1 DEF SoundFat, AllInChains
<1>12. Directories(d, {0})
  BY <1>9, <1>10, <1>11 DEF Directories, SoundDisk, DirCluster, Dir
<1>13. ReadSlot(d, 0, 0) = EndEntry
  <2>1. 0 \in Nat /\ 0 \in DirCluster /\ 0 < RootEntries /\ 0 \in Slots(0)
    BY Numbers DEF DirCluster, Slots
  <2>2. ReadSlot(d, 0, 0) = IF 0 < RootEntries THEN d.slots[0][0] ELSE Blank(Missing)
    BY <1>9, <2>1, Reading
  <2>3. slots[0] = [i \in Slots(0) |-> EndEntry]
    BY <1>5, <2>1
  <2> QED BY <1>10, <2>1, <2>2, <2>3
<1>14. \A i \in Nat : ~Listed(d, 0, i)
  <2> SUFFICES ASSUME NEW i \in Nat, Seen(d, 0, i) PROVE FALSE
    BY DEF Listed, InUse
  <2>1. 0 \in 0 .. i
    OBVIOUS
  <2> QED BY <1>13, <2>1, Entries DEF Seen
<1>15. IsTree(d, {0})
  <2>1. AllProper(d, {0}) /\ AllApart(d, {0}) /\ AllLeadBack(d, {0})
    BY <1>14 DEF AllProper, AllApart, AllLeadBack
  <2>2. Dotted(d, {0})
    BY DEF Dotted
  <2> QED BY <1>12, <2>1, <2>2 DEF IsTree
<1>18. Whole(d, {0})
  <2>1. \A h : ~IsHead(d.fat, h)
    BY <1>1, <1>10 DEF IsHead
  <2>2. \A X : X \subseteq {0} /\ 0 \notin X => X = {}
    OBVIOUS
  <2> QED BY <2>1, <2>2 DEF Whole, Owned
<1>16. PICK of : of = [f \in Handle |-> Closed]
  OBVIOUS
<1>17. Handles(d, of)
  <2>1. of \in [Handle -> File \cup {Closed}]
    BY <1>16
  <2>2. \A f \in Handle : ~of[f].used
    BY <1>16 DEF Closed
  <2> QED BY <2>1, <2>2 DEF Handles
<1> QED BY <1>8, <1>15, <1>16, <1>17, <1>18

\* The driver starts in the invariant.
LEMMA InvInit ==
  ASSUME Init PROVE FilesInv
BY FormattedIs DEF Init, FilesInv, Consistent

\* A handle becomes open.
LEMMA HandleOpened ==
  ASSUME NEW d, NEW of, Handles(d, of), NEW F, F \in File, OpenAt(d, F), NEW fd \in Handle,
         \A f \in Handle : of[f].used => of[f].path[1] # F.path[1],
         NEW of2, of2 = [of EXCEPT ![fd] = F]
  PROVE  Handles(d, of2)
<1>1. of \in [Handle -> File \cup {Closed}]
  BY DEF Handles
<1>2. of2 \in [Handle -> File \cup {Closed}]
  BY <1>1
<1>3. of2[fd] = F /\ \A f \in Handle : f # fd => of2[f] = of[f]
  BY <1>1
<1>4. ASSUME NEW f \in Handle, of2[f].used PROVE OpenAt(d, of2[f])
  BY <1>3, <1>4 DEF Handles
<1>5. ASSUME NEW f \in Handle, NEW g \in Handle, of2[f].used, of2[g].used, f # g
      PROVE  of2[f].path[1] # of2[g].path[1]
  <2>1. CASE f = fd
    BY <1>3, <1>5, <2>1
  <2>2. CASE g = fd
    BY <1>3, <1>5, <2>2
  <2>3. CASE f # fd /\ g # fd
    BY <1>3, <1>5, <2>3 DEF Handles
  <2> QED BY <2>1, <2>2, <2>3
<1> QED BY <1>2, <1>4, <1>5 DEF Handles

\* fat12_close
LEMMA InvClose ==
  ASSUME FilesInv, NEW f \in Handle, Close(f) PROVE FilesInv'
<1>1. CASE f \notin Used
  BY <1>1 DEF Close, Refuse, FilesInv, Consistent
<1>2. CASE f \in Used
  <2>1. PICK D : IsTree(disk, D) /\ Whole(disk, D) /\ Handles(disk, open_files)
    BY DEF FilesInv, Consistent
  <2>2. disk' = disk /\ open_files' = [open_files EXCEPT ![f] = Closed]
    BY <1>2 DEF Close
  <2>3. PICK of : of = open_files
    OBVIOUS
  <2>4. PICK of2 : of2 = open_files'
    OBVIOUS
  <2>5. of \in [Handle -> File \cup {Closed}] /\ of2 = [of EXCEPT ![f] = Closed]
    BY <2>1, <2>2, <2>3, <2>4 DEF Handles
  <2>6. of2 \in [Handle -> File \cup {Closed}]
    BY <2>5
  <2>7. of2[f] = Closed /\ ~of2[f].used /\ \A g \in Handle : g # f => of2[g] = of[g]
    BY <2>5 DEF Closed
  <2>8. Handles(disk, of2)
    <3>1. ASSUME NEW g \in Handle, of2[g].used PROVE g # f /\ of2[g] = of[g] /\ of[g].used
      BY <2>7, <3>1
    <3>2. \A g \in Handle : of2[g].used => OpenAt(disk, of2[g])
      BY <2>1, <2>3, <3>1 DEF Handles
    <3>3. \A g, h \in Handle : of2[g].used /\ of2[h].used /\ g # h => of2[g].path[1] # of2[h].path[1]
      BY <2>1, <2>3, <3>1 DEF Handles
    <3> QED BY <2>6, <3>2, <3>3 DEF Handles
  <2> QED BY <2>1, <2>2, <2>4, <2>8 DEF FilesInv, Consistent
<1> QED BY <1>1, <1>2

\* fat12_get_size, fat12_listcontent and refused calls
LEMMA InvRefused ==
  ASSUME FilesInv, UNCHANGED <<disk, open_files>> PROVE FilesInv'
BY DEF FilesInv, Consistent

\* fat12_get_size changes nothing.
LEMMA InvGetSize ==
  ASSUME FilesInv, NEW f, GetSize(f) PROVE FilesInv'
BY InvRefused DEF GetSize, Refuse

\* fat12_listcontent changes nothing.
LEMMA InvListContent ==
  ASSUME FilesInv, NEW path, ListContent(path) PROVE FilesInv'
BY InvRefused DEF ListContent, Refuse

\* What fat12_open returns: a handle at the beginning of the file.
LEMMA OpenedIs ==
  ASSUME NEW d, NEW D, IsTree(d, D), NEW path, path \in Path \X Spelling, NEW c, NEW i,
         Step(d, path[1], Len(path[1]), c, i), NEW e, e = ReadSlot(d, c, i), ~e.dir,
         NEW F, F = Opened(path, c, i, e)
  PROVE  F \in File /\ F.path = path /\ OpenAt(d, F)
<1>1. IsPath(path[1])
  BY PathIs
<1>2. Len(path[1]) \in 1 .. Len(path[1])
  BY <1>1, PathNames
<1>3. c \in D /\ i \in Nat /\ Listed(d, c, i)
  BY <1>1, <1>2, OneStep
<1>4. d \in Disk /\ c \in DirCluster
  BY <1>3, DirIs
<1>5. e \in Entry
  BY <1>3, <1>4, InUseIs DEF Listed
<1>6. e.first \in {Free} \cup Cluster /\ e.size \in Nat
  BY <1>5 DEF Entry
<1>7. F = [used |-> TRUE, path |-> path, first_cluster |-> e.first, cursor |-> 0,
           file_size |-> e.size, parent_cluster |-> c, entry_idx |-> i]
  BY DEF Opened
<1>8. F \in File
  BY <1>3, <1>4, <1>6, <1>7 DEF File
<1>9. F.path = path /\ F.first_cluster = e.first /\ F.parent_cluster = c /\ F.entry_idx = i
  BY <1>7
<1> QED BY <1>1, <1>8, <1>9 DEF OpenAt

\* fat12_open of a file that does not exist
LEMMA OpenCreates ==
  ASSUME NEW d, NEW D, IsTree(d, D), Whole(d, D), NEW of, Handles(d, of),
         NEW path, path \in Path \X Spelling, NEW c, c \in D, c = DirAt(d, path[1], Len(path[1]) - 1),
         \A i : ~Holds(d, c, i, path[1][Len(path[1])]),
         NEW e, e = Blank(Last(path[1])), NEW v, v = Create(d, c, e)
  PROVE  /\ IsTree(v.disk, D) /\ Whole(v.disk, D) /\ Handles(v.disk, of)
         /\ v.ok => /\ Step(v.disk, path[1], Len(path[1]), c, v.slot)
                    /\ ReadSlot(v.disk, c, v.slot) = e
<1>1. PICK p : p = path[1]
  OBVIOUS
<1>2. IsPath(p) /\ Last(path[1]) = p[Len(p)]
  BY <1>1, PathIs
<1>3. Len(p) \in Nat /\ Len(p) >= 1 /\ p[Len(p)] \in Name
  BY <1>2, PathNames
<1>4. e \in Entry /\ e.name = p[Len(p)] /\ ~e.dir /\ e.first = Free
  BY <1>2, <1>3, Entries DEF Blank
<1>5. Welcome(d, D, c, e)
  BY <1>1, <1>3, <1>4 DEF Welcome, Proper
<1>6. TreeCreated(d, D, v, c, e)
  BY <1>5, TreeCreate
<1>9. Whole(v.disk, D)
  BY <1>6, WholeCreated
<1>7. CASE ~v.ok
  <2>1. IsTree(v.disk, D) /\ Changes(d, v.disk, D, {})
    BY <1>6, <1>7 DEF TreeCreated
  <2>2. Adds(d, D, {})
    BY DEF Adds
  <2>3. AllStand(d, v.disk, of)
    BY <2>1, <2>2, AddsStand
  <2> QED BY <1>7, <1>9, <2>1, <2>3, HandlesKept
<1>8. CASE v.ok
  <2>1. PICK i : i = v.slot
    OBVIOUS
  <2>2. PICK d2 : d2 = v.disk
    OBVIOUS
  <2>3. /\ IsTree(d2, D) /\ i \in Nat /\ Changes(d, d2, D, {<<c, i>>}) /\ ~Listed(d, c, i)
        /\ Listed(d2, c, i) /\ ReadSlot(d2, c, i) = e
    BY <1>6, <1>8, <2>1, <2>2 DEF TreeCreated
  <2>4. Adds(d, D, {<<c, i>>})
    BY <2>3 DEF Adds
  <2>5. AllStand(d, d2, of)
    BY <2>3, <2>4, AddsStand
  <2>6. Handles(d2, of)
    BY <2>3, <2>5, HandlesKept
  <2>7. AllStay(d, d2, p)
    BY <1>2, <2>3, <2>4, AddsStay
  <2>8. c # None
    BY DirIs
  <2>9. PICK n : n = Len(p) - 1
    OBVIOUS
  <2>10. n \in 0 .. Len(p) - 1
    BY <1>3, <2>9
  <2>11. DirAt(d2, p, n) = c
    BY <1>1, <1>2, <2>3, <2>7, <2>8, <2>9, <2>10, DirAtKept
  <2>12. Step(d2, p, Len(p), c, i)
    BY <1>4, <2>3, <2>8, <2>9, <2>11 DEF Step, Holds
  <2> QED BY <1>1, <1>9, <2>1, <2>2, <2>3, <2>6, <2>12
<1> QED BY <1>7, <1>8

\* fat12_open keeps the invariant: the file is not open yet.
LEMMA InvOpen ==
  ASSUME FilesInv, NEW path \in Path \X Spelling, ~IsOpen(path), Open(path) PROVE FilesInv'
<1>1. PICK D : IsTree(disk, D) /\ Whole(disk, D) /\ Handles(disk, open_files)
  BY DEF FilesInv, Consistent
<1>2. PICK r : r = Find(disk, path[1])
  OBVIOUS
<1>3. PICK p : p = path[1]
  OBVIOUS
<1>4. IsPath(p)
  BY <1>3, PathIs
<1>5. Finds(disk, D, p, r) /\ r.dir = DirAt(disk, p, Len(p) - 1)
  BY <1>1, <1>2, <1>3, <1>4, FindIs
<1>6. PICK fd : fd = Min(Handle \ Used)
  OBVIOUS
<1>7. PICK new : new = Blank(Last(path[1]))
  OBVIOUS
<1>8. \/ UNCHANGED <<disk, open_files>>
      \/ /\ Handle \ Used # {}
         /\ \/ /\ r.slot # None /\ ~r.entry.dir /\ disk' = disk
               /\ open_files' = [open_files EXCEPT ![fd] = Opened(path, r.dir, r.slot, r.entry)]
            \/ /\ r.slot = None /\ r.dir # None
               /\ disk' = Create(disk, r.dir, new).disk
               /\ IF Create(disk, r.dir, new).ok
                  THEN open_files' = [open_files EXCEPT
                                        ![fd] = Opened(path, r.dir, Create(disk, r.dir, new).slot, new)]
                  ELSE UNCHANGED open_files
  BY <1>2, <1>6, <1>7 DEF Open, Refuse
<1>9. CASE UNCHANGED <<disk, open_files>>
  BY <1>9, InvRefused
<1>10. ASSUME Handle \ Used # {} PROVE fd \in Handle
  <2>1. Handle \ Used \in SUBSET Nat
    BY DEF Handle
  <2>2. PICK a : a \in Handle \ Used
    BY <1>10
  <2>3. Min(Handle \ Used) \in Handle \ Used
    BY <2>1, <2>2, MinOf
  <2> QED BY <1>6, <2>3
<1>11. \A f \in Handle : open_files[f].used => open_files[f].path[1] # p
  BY <1>3 DEF IsOpen, Used
<1>12. ASSUME Handle \ Used # {}, r.slot # None, ~r.entry.dir, disk' = disk,
              open_files' = [open_files EXCEPT ![fd] = Opened(path, r.dir, r.slot, r.entry)]
       PROVE  FilesInv'
  <2>1. Step(disk, p, Len(p), r.dir, r.slot) /\ r.entry = ReadSlot(disk, r.dir, r.slot)
    BY <1>5, <1>12, Zenon DEF Finds
  <2>2. PICK F : F = Opened(path, r.dir, r.slot, r.entry)
    OBVIOUS
  <2>3. F \in File /\ F.path = path /\ OpenAt(disk, F)
    BY <1>1, <1>3, <1>12, <2>1, <2>2, OpenedIs
  <2>4. \A f \in Handle : open_files[f].used => open_files[f].path[1] # F.path[1]
    BY <1>3, <1>11, <2>3
  <2>5. PICK of2 : of2 = open_files'
    OBVIOUS
  <2>6. of2 = [open_files EXCEPT ![fd] = F]
    BY <1>12, <2>2, <2>5
  <2>7. Handles(disk, of2)
    BY <1>1, <1>10, <1>12, <2>3, <2>4, <2>6, HandleOpened
  <2> QED BY <1>1, <1>12, <2>5, <2>7 DEF FilesInv, Consistent
<1>13. ASSUME Handle \ Used # {}, r.slot = None, r.dir # None, NEW v, v = Create(disk, r.dir, new),
              disk' = v.disk,
              IF v.ok THEN open_files' = [open_files EXCEPT ![fd] = Opened(path, r.dir, v.slot, new)]
              ELSE UNCHANGED open_files
       PROVE  FilesInv'
  <2>1. PICK c : c = r.dir
    OBVIOUS
  <2>2. c \in D /\ c = DirAt(disk, p, Len(p) - 1) /\ \A i : ~Holds(disk, c, i, p[Len(p)])
    BY <1>5, <1>13, <2>1 DEF Finds, None
  <2>3. /\ IsTree(v.disk, D) /\ Whole(v.disk, D) /\ Handles(v.disk, open_files)
        /\ v.ok => /\ Step(v.disk, path[1], Len(path[1]), c, v.slot)
                   /\ ReadSlot(v.disk, c, v.slot) = new
    BY <1>1, <1>3, <1>7, <1>13, <2>1, <2>2, OpenCreates
  <2>4. CASE ~v.ok
    BY <1>13, <2>3, <2>4 DEF FilesInv, Consistent
  <2>5. CASE v.ok
    <3>1. PICK F : F = Opened(path, r.dir, v.slot, new)
      OBVIOUS
    <3>2. PICK i : i = v.slot
      OBVIOUS
    <3>3. PICK d2 : d2 = v.disk
      OBVIOUS
    <3>4. Step(d2, path[1], Len(path[1]), c, i) /\ ReadSlot(d2, c, i) = new /\ ~new.dir
          /\ F = Opened(path, c, i, new) /\ IsTree(d2, D) /\ Whole(d2, D) /\ Handles(d2, open_files)
      BY <1>7, <2>1, <2>3, <2>5, <3>1, <3>2, <3>3 DEF Blank
    <3>5. F \in File /\ F.path = path /\ OpenAt(d2, F)
      BY <3>4, OpenedIs
    <3>6. \A f \in Handle : open_files[f].used => open_files[f].path[1] # F.path[1]
      BY <1>3, <1>11, <3>5
    <3>7. PICK of2 : of2 = open_files'
      OBVIOUS
    <3>8. of2 = [open_files EXCEPT ![fd] = F]
      BY <1>13, <2>5, <3>1, <3>7
    <3>9. Handles(d2, of2)
      BY <1>10, <1>13, <3>4, <3>5, <3>6, <3>8, HandleOpened
    <3> QED BY <1>13, <3>3, <3>4, <3>7, <3>9 DEF FilesInv, Consistent
  <2> QED BY <2>4, <2>5
<1> QED BY <1>8, <1>9, <1>12, <1>13

\* fat12_makedir
LEMMA InvMakeDir ==
  ASSUME FilesInv, NEW path \in Path \X Spelling, MakeDir(path) PROVE FilesInv'
<1>1. PICK D : IsTree(disk, D) /\ Whole(disk, D) /\ Handles(disk, open_files)
  BY DEF FilesInv, Consistent
<1>2. PICK r : r = Find(disk, path[1])
  OBVIOUS
<1>3. PICK p : p = path[1]
  OBVIOUS
<1>4. IsPath(p) /\ Last(path[1]) = p[Len(p)]
  BY <1>3, PathIs
<1>5. Finds(disk, D, p, r)
  BY <1>1, <1>2, <1>3, <1>4, FindIs
<1>6. PICK new : new = FreeCluster(disk)
  OBVIOUS
<1>7. PICK e : e = [name |-> Last(path[1]), dir |-> TRUE, first |-> new, size |-> 0]
  OBVIOUS
<1>8. PICK d1 : d1 = Allocated(disk, Free)
  OBVIOUS
<1>9. PICK d2 : d2 = InitDir(d1, new, r.dir)
  OBVIOUS
<1>10. PICK v : v = Create(d2, r.dir, e)
  OBVIOUS
<1>11. \/ UNCHANGED <<disk, open_files>>
       \/ /\ r.slot = None /\ r.dir # None /\ new # None
          /\ disk' = (IF v.ok THEN v.disk ELSE Freed(v.disk, new)) /\ open_files' = open_files
  BY <1>2, <1>6, <1>7, <1>8, <1>9, <1>10 DEF MakeDir, Refuse
<1>12. CASE UNCHANGED <<disk, open_files>>
  BY <1>12, InvRefused
<1>13. ASSUME r.slot = None, r.dir # None, new # None,
              disk' = IF v.ok THEN v.disk ELSE Freed(v.disk, new), open_files' = open_files
       PROVE  FilesInv'
  <2>1. PICK c : c = r.dir
    OBVIOUS
  <2>2. c \in D /\ \A i : ~Holds(disk, c, i, p[Len(p)])
    BY <1>5, <1>13, <2>1 DEF Finds, None
  <2>3. PICK D2 : D2 = D \cup {new}
    OBVIOUS
  <2>4. NewDir(disk, D, d2, D2, new, c)
    BY <1>1, <1>6, <1>8, <1>9, <1>13, <2>1, <2>2, <2>3, NewDirIs
  <2>5. DirEntry(e, new)
    <3>1. p[Len(p)] \in Name /\ new \in Cluster
      BY <1>4, <2>4, PathNames DEF NewDir
    <3> QED BY <1>4, <1>7, <3>1 DEF DirEntry, Entry, Live
  <2>6. e.name = p[Len(p)]
    BY <1>4, <1>7
  <2>7. Welcome(d2, D2, c, e)
    BY <1>1, <2>2, <2>4, <2>5, <2>6, NewDirWelcome
  <2>8. PICK d3 : d3 = disk'
    OBVIOUS
  <2>9. \E D3 : \E b \in BOOLEAN : DirMade(disk, D, d3, D3, c, b)
    <3>1. CASE v.ok
      <4>1. DirMade(disk, D, v.disk, D2, c, TRUE)
        BY <1>1, <1>10, <2>1, <2>2, <2>4, <2>5, <2>7, <3>1, MakeDirDone
      <4> QED BY <1>13, <2>8, <3>1, <4>1
    <3>2. CASE ~v.ok
      <4>1. d3 = Freed(v.disk, new)
        BY <1>13, <2>8, <3>2
      <4>2. DirMade(disk, D, d3, D, c, FALSE)
        BY <1>1, <1>10, <2>1, <2>2, <2>4, <2>7, <3>2, <4>1, MakeDirFailed
      <4> QED BY <4>2
    <3> QED BY <3>1, <3>2
  <2>10. PICK D3 : \E b \in BOOLEAN : DirMade(disk, D, d3, D3, c, b)
    BY <2>9
  <2>11. IsTree(d3, D3) /\ Whole(d3, D3) /\ \E X : Changes(disk, d3, D, X) /\ Adds(disk, D, X)
    <3>1. Adds(disk, D, {})
      BY DEF Adds
    <3>2. \A i \in Nat : ~Listed(disk, c, i) => Adds(disk, D, {<<c, i>>})
      BY DEF Adds
    <3> QED BY <1>1, <2>10, <3>1, <3>2 DEF DirMade
  <2>12. AllStand(disk, d3, open_files)
    BY <1>1, <2>11, AddsStand
  <2>13. Handles(d3, open_files)
    BY <1>1, <2>11, <2>12, HandlesKept
  <2> QED BY <1>13, <2>8, <2>11, <2>13 DEF FilesInv, Consistent
<1> QED BY <1>11, <1>12, <1>13

\* What fat12_removedir and fat12_removefile have in common.
LEMMA InvRemoved ==
  ASSUME NEW D, IsTree(disk, D), Whole(disk, D), Handles(disk, open_files), NEW p, IsPath(p),
         NEW r, r.slot # None, Finds(disk, D, p, r), r.entry.dir => IsEmpty(disk, r.entry.first),
         ~r.entry.dir => \A f \in Handle : open_files[f].used => open_files[f].path[1] # p,
         disk' = Removed(r), open_files' = open_files
  PROVE  FilesInv'
<1>1. PICK c : c = r.dir
  OBVIOUS
<1>2. PICK i : i = r.slot
  OBVIOUS
<1>3. PICK e : e = ReadSlot(disk, c, i)
  OBVIOUS
<1>4. Step(disk, p, Len(p), c, i) /\ r.entry = e
  BY <1>1, <1>2, <1>3 DEF Finds
<1>5. c \in D /\ i \in Nat /\ Listed(disk, c, i)
  <2>1. Len(p) \in 1 .. Len(p)
    BY PathNames
  <2> QED BY <1>4, <2>1, OneStep
<1>6. PICK D2 : D2 = {h \in D : e.dir => h # e.first}
  OBVIOUS
<1>7. e.dir => Empty(disk, e.first)
  <2>1. SUFFICES ASSUME e.dir PROVE Empty(disk, e.first)
    OBVIOUS
  <2>2. PICK x : x = e.first
    OBVIOUS
  <2>3. x \in D
    BY <1>3, <1>5, <2>1, <2>2 DEF IsTree, AllProper, Proper
  <2>4. IsEmpty(disk, x)
    BY <1>4, <2>1, <2>2
  <2> QED BY <2>2, <2>3, <2>4, EmptyIs
<1>8. Removable(disk, D, c, i, D2)
  BY <1>3, <1>5, <1>6, <1>7 DEF Removable
<1>9. PICK d1 : d1 = Freed(disk, ReadSlot(disk, c, i).first)
  OBVIOUS
<1>10. PICK d2 : d2 = Erased(d1, r)
  OBVIOUS
<1>11. disk' = d2
  BY <1>3, <1>4, <1>9, <1>10 DEF Removed
<1>12. TreeRemoved(disk, D, d2, D2, c, i)
  BY <1>1, <1>2, <1>8, <1>9, <1>10, TreeRemove
<1>13. \A f \in Handle : open_files[f].used /\ ~ReadSlot(disk, c, i).dir => open_files[f].path[1] # p
  BY <1>3, <1>4
<1>14. AllStand(disk, d2, open_files)
  BY <1>4, <1>8, <1>12, <1>13, RemovedStand
<1>15. IsTree(d2, D2)
  BY <1>12 DEF TreeRemoved
<1>16. Handles(d2, open_files)
  BY <1>14, <1>15, HandlesKept
<1>17. Whole(d2, D2)
  BY <1>8, <1>12, WholeRemoved
<1> QED BY <1>11, <1>15, <1>16, <1>17 DEF FilesInv, Consistent

\* fat12_removedir
LEMMA InvRemoveDir ==
  ASSUME FilesInv, NEW path \in Path \X Spelling, RemoveDir(path) PROVE FilesInv'
<1>1. PICK D : IsTree(disk, D) /\ Whole(disk, D) /\ Handles(disk, open_files)
  BY DEF FilesInv, Consistent
<1>2. PICK r : r = Find(disk, path[1])
  OBVIOUS
<1>3. PICK p : p = path[1]
  OBVIOUS
<1>4. IsPath(p)
  BY <1>3, PathIs
<1>5. Finds(disk, D, p, r)
  BY <1>1, <1>2, <1>3, <1>4, FindIs
<1>6. \/ UNCHANGED <<disk, open_files>>
      \/ /\ r.slot # None /\ r.entry.dir /\ IsEmpty(disk, r.entry.first)
         /\ disk' = Removed(r) /\ open_files' = open_files
  BY <1>2 DEF RemoveDir, Refuse
<1>7. CASE UNCHANGED <<disk, open_files>>
  BY <1>7, InvRefused
<1>8. ASSUME r.slot # None, r.entry.dir, IsEmpty(disk, r.entry.first),
             disk' = Removed(r), open_files' = open_files
      PROVE  FilesInv'
  BY <1>1, <1>4, <1>5, <1>8, InvRemoved
<1> QED BY <1>6, <1>7, <1>8

\* fat12_removefile
LEMMA InvRemoveFile ==
  ASSUME NoLiberties, FilesInv, NEW path \in Path \X Spelling, RemoveFile(path) PROVE FilesInv'
<1>1. PICK D : IsTree(disk, D) /\ Whole(disk, D) /\ Handles(disk, open_files)
  BY DEF FilesInv, Consistent
<1>2. PICK r : r = Find(disk, path[1])
  OBVIOUS
<1>3. PICK p : p = path[1]
  OBVIOUS
<1>4. IsPath(p)
  BY <1>3, PathIs
<1>5. Finds(disk, D, p, r)
  BY <1>1, <1>2, <1>3, <1>4, FindIs
<1>6. \/ UNCHANGED <<disk, open_files>>
      \/ /\ r.slot # None /\ ~r.entry.dir /\ ~BeingUsed(r.entry, path)
         /\ disk' = Removed(r) /\ open_files' = open_files
  BY <1>2 DEF RemoveFile, Refuse
<1>7. CASE UNCHANGED <<disk, open_files>>
  BY <1>7, InvRefused
<1>8. ASSUME r.slot # None, ~r.entry.dir, ~BeingUsed(r.entry, path),
             disk' = Removed(r), open_files' = open_files
      PROVE  FilesInv'
  <2>1. PICK c : c = r.dir
    OBVIOUS
  <2>2. PICK i : i = r.slot
    OBVIOUS
  <2>3. PICK e : e = ReadSlot(disk, c, i)
    OBVIOUS
  <2>4. Step(disk, p, Len(p), c, i) /\ r.entry = e
    BY <1>5, <1>8, <2>1, <2>2, <2>3 DEF Finds
  <2>5. ASSUME NEW f \in Handle, open_files[f].used, open_files[f].path[1] = p PROVE FALSE
    <3>1. open_files[f] \in File /\ OpenAt(disk, open_files[f])
      BY <1>1, <2>5, UsedIs
    <3>2. Step(disk, p, Len(p), open_files[f].parent_cluster, open_files[f].entry_idx)
          /\ ReadSlot(disk, open_files[f].parent_cluster, open_files[f].entry_idx).first
               = open_files[f].first_cluster
      BY <2>5, <3>1 DEF OpenAt
    <3>3. open_files[f].parent_cluster = c /\ open_files[f].entry_idx = i
      <4>1. Len(p) \in 1 .. Len(p)
        BY <1>4, PathNames
      <4> QED BY <1>1, <1>4, <2>4, <3>2, <4>1, OneStep
    <3>4. open_files[f].first_cluster = e.first
      BY <2>3, <3>2, <3>3
    <3>5. open_files[f].path = path
      <4>1. open_files[f].path \in Path \X Spelling
        BY <3>1 DEF File
      <4>2. open_files[f].path[2] = path[2]
        BY <4>1 DEF NoLiberties
      <4> QED BY <1>3, <2>5, <4>1, <4>2
    <3> QED BY <1>8, <2>4, <2>5, <3>4, <3>5 DEF BeingUsed, Used
  <2>6. ~r.entry.dir => \A f \in Handle : open_files[f].used => open_files[f].path[1] # p
    BY <2>5
  <2>7. r.entry.dir => IsEmpty(disk, r.entry.first)
    BY <1>8
  <2> QED BY <1>1, <1>4, <1>5, <1>8, <2>6, <2>7, InvRemoved
<1> QED BY <1>6, <1>7, <1>8

\* An entry with another name.
LEMMA OtherName ==
  ASSUME NEW e, e \in Entry, NEW n, n \in Name, NEW f, f = [e EXCEPT !.name = n]
  PROVE  f \in Entry /\ f.name = n /\ f.dir = e.dir /\ f.first = e.first
BY DEF Entry, Live

\* A shorter path with the same names is a prefix.
LEMMA PrefixIs ==
  ASSUME NEW p, IsPath(p), NEW q, IsPath(q), Len(p) < Len(q), \A k \in 1 .. Len(p) : p[k] = q[k]
  PROVE  IsStrictPrefix(p, q)
<1>1. p \in Seq(Name) /\ q \in Seq(Name) /\ Len(p) \in Nat /\ Len(q) \in Nat /\ Len(p) <= Len(q)
  BY DEF IsPath
<1>2. SubSeq(p, 1, Len(p)) = SubSeq(q, 1, Len(p))
  BY <1>1
<1>3. IsPrefix(p, q)
  BY <1>1, <1>2 DEF IsPrefix
<1>4. p # q
  OBVIOUS
<1> QED BY <1>3, <1>4 DEF IsStrictPrefix

\* fat12_rename
LEMMA InvRename ==
  ASSUME NoLiberties, FilesInv, NEW old \in Path \X Spelling, NEW new \in Path \X Spelling,
         ~OpenBelow(old), ~IntoItself(old, new), Rename(old, new)
  PROVE  FilesInv'
<1>1. PICK D : IsTree(disk, D) /\ Whole(disk, D) /\ Handles(disk, open_files)
  BY DEF FilesInv, Consistent
<1>2. PICK r : r = Find(disk, old[1])
  OBVIOUS
<1>3. PICK t : t = Find(disk, new[1])
  OBVIOUS
<1>4. PICK p : p = old[1]
  OBVIOUS
<1>5. PICK q : q = new[1]
  OBVIOUS
<1>6. IsPath(p) /\ IsPath(q) /\ Last(new[1]) = q[Len(q)]
  BY <1>4, <1>5, PathIs
<1>7. Finds(disk, D, p, r) /\ Finds(disk, D, q, t)
  BY <1>1, <1>2, <1>3, <1>4, <1>5, <1>6, FindIs
<1>17. t.dir = DirAt(disk, q, Len(q) - 1)
  BY <1>1, <1>3, <1>5, <1>6, FindIs
<1>8. PICK g : g = [r.entry EXCEPT !.name = Last(new[1])]
  OBVIOUS
<1>9. PICK v : v = Create(disk, t.dir, g)
  OBVIOUS
<1>10. PICK d2 : d2 = IF r.entry.dir /\ r.entry.first # Free
                      THEN Reparented(v.disk, r.entry.first, t.dir) ELSE v.disk
  OBVIOUS
<1>11. PICK of2 : of2 = [f \in Handle |-> IF f \in Used /\ open_files[f].path = old
                                          THEN [open_files[f] EXCEPT !.path = new] ELSE open_files[f]]
  OBVIOUS
<1>12. \/ UNCHANGED <<disk, open_files>>
       \/ /\ r.slot # None /\ t.slot = None /\ t.dir # None
          /\ \/ ~v.ok /\ disk' = v.disk /\ open_files' = open_files
             \/ v.ok /\ disk' = Erased(d2, r) /\ open_files' = of2
  BY <1>2, <1>3, <1>8, <1>9, <1>10, <1>11 DEF Rename, Refuse
<1>13. CASE UNCHANGED <<disk, open_files>>
  BY <1>13, InvRefused
<1>14. \A f \in Handle : open_files[f].used => ~IsPrefix(p, open_files[f].path[1])
  BY <1>4 DEF OpenBelow, Used
<1>15. of2 = open_files
  <2>1. open_files \in [Handle -> File \cup {Closed}]
    BY <1>1 DEF Handles
  <2>2. IsPrefix(p, p)
    BY <1>6, PathNames DEF IsPrefix
  <2>3. \A f \in Handle : f \in Used => open_files[f].path # old
    BY <1>4, <1>14, <2>2 DEF Used
  <2>4. of2 = [f \in Handle |-> open_files[f]]
    BY <1>11, <2>3
  <2> QED BY <2>1, <2>4
<1>16. ASSUME r.slot # None, t.slot = None, t.dir # None,
              \/ ~v.ok /\ disk' = v.disk /\ open_files' = open_files
              \/ v.ok /\ disk' = Erased(d2, r) /\ open_files' = of2
       PROVE  FilesInv'
  <2>1. PICK b : b = r.dir
    OBVIOUS
  <2>2. PICK j : j = r.slot
    OBVIOUS
  <2>3. PICK c : c = t.dir
    OBVIOUS
  <2>4. PICK e : e = ReadSlot(disk, b, j)
    OBVIOUS
  <2>5. Step(disk, p, Len(p), b, j) /\ r.entry = e
    BY <1>7, <1>16, <2>1, <2>2, <2>4 DEF Finds
  <2>6. b \in D /\ j \in Nat /\ Listed(disk, b, j)
    <3>1. Len(p) \in 1 .. Len(p)
      BY <1>6, PathNames
    <3> QED BY <1>1, <1>6, <2>5, <3>1, OneStep
  <2>7. c \in D /\ \A i : ~Holds(disk, c, i, q[Len(q)])
    BY <1>7, <1>16, <2>3 DEF Finds, None
  <2>8. SoundDisk(disk) /\ disk \in Disk /\ b \in DirCluster /\ Dir(disk, c)
    BY <1>1, <2>6, <2>7, DirIs
  <2>9. e \in Entry
    BY <2>4, <2>6, <2>8, InUseIs DEF Listed
  <2>10. q[Len(q)] \in Name
    BY <1>6, PathNames
  <2>11. g \in Entry /\ g.name = q[Len(q)] /\ g.dir = e.dir /\ g.first = e.first
    <3>1. g = [e EXCEPT !.name = q[Len(q)]]
      BY <1>6, <1>8, <2>5
    <3> QED BY <2>9, <2>10, <3>1, OtherName
  <2>12. g.name \notin {End, Deleted}
    BY <2>10, <2>11, FatAssumption DEF Special
  <2>13. v = Create(disk, c, g)
    BY <1>9, <2>3
  <2>16. ASSUME e.dir PROVE ReachedWithout(disk, D, b, j, c)
    <3>1. ~IsStrictPrefix(p, q)
      BY <1>2, <1>4, <1>5, <2>5, <2>16 DEF IntoItself
    <3>2. PICK m : m = Len(q) - 1
      OBVIOUS
    <3>3. m \in 0 .. Len(q) - 1 /\ Len(q) \in Nat
      BY <1>6, <3>2, PathNames
    <3>4. c = DirAt(disk, q, m) /\ c # None
      BY <1>16, <1>17, <2>3, <3>2
    <3>5. ASSUME NEW n \in 1 .. m, Step(disk, q, n, b, j) PROVE FALSE
      <4>1. Len(p) \in 1 .. Len(p) /\ n \in 1 .. Len(q) /\ n < Len(q)
        BY <1>6, <3>2, <3>3, PathNames
      <4>2. Len(p) = n /\ \A k \in 1 .. Len(p) : p[k] = q[k]
        BY <1>1, <1>6, <2>5, <3>5, <4>1, PathUnique
      <4> QED BY <1>6, <3>1, <4>1, <4>2, PrefixIs
    <3>6. \A n \in 1 .. m : ~Step(disk, q, n, b, j)
      BY <3>5
    <3> QED BY <1>1, <1>6, <3>3, <3>4, <3>6, PathWithout
  <2>14. CASE ~v.ok
    <3>1. Created(disk, v, c, g)
      BY <2>8, <2>11, <2>12, <2>13, CreateIs
    <3>2. PICK d1 : d1 = v.disk
      OBVIOUS
    <3>3. Untouched(disk, d1)
      BY <2>14, <3>1, <3>2 DEF Created
    <3>4. IsTree(d1, D) /\ Changes(disk, d1, D, {})
      BY <1>1, <3>3, TreeUntouched
    <3>5. Adds(disk, D, {})
      BY DEF Adds
    <3>6. AllStand(disk, d1, open_files)
      BY <1>1, <3>4, <3>5, AddsStand
    <3>7. Handles(d1, open_files)
      BY <1>1, <3>4, <3>6, HandlesKept
    <3>8. KeepsLeads(disk, d1, D)
      BY <3>4, LeadsKept
    <3>9. \A h : IsHead(d1.fat, h) => IsHead(disk.fat, h)
      BY <3>3 DEF Untouched, SameHeads
    <3>10. Whole(d1, D)
      BY <1>1, <3>8, <3>9, WholeKept
    <3> QED BY <1>16, <2>14, <3>2, <3>4, <3>7, <3>10 DEF FilesInv, Consistent
  <2>15. CASE v.ok
    <3>1. PICK d3 : d3 = Erased(d2, r)
      OBVIOUS
    <3>2. PICK k : k = v.slot
      OBVIOUS
    <3>3. d2 = IF e.dir /\ e.first # Free THEN Reparented(v.disk, e.first, c) ELSE v.disk
      BY <1>10, <2>3, <2>5
    <3>4. g.name \in Name
      BY <2>10, <2>11
    <3>5. Moves(disk, d3, D, e, b, j, c, k, g)
      BY <1>1, <2>1, <2>2, <2>4, <2>6, <2>7, <2>11, <2>13, <2>15, <3>1, <3>2, <3>3, <3>4, MovesIs
    <3>6. k \in Nat
      <4>1. Created(disk, v, c, g)
        BY <2>8, <2>11, <2>12, <2>13, CreateIs
      <4> QED BY <2>15, <3>2, <4>1 DEF Created
    <3>7. \A i : ~Holds(disk, c, i, g.name)
      BY <2>7, <2>11
    <3>8. TreeRenamed(disk, D, d3, b, j)
      BY <1>1, <2>4, <2>6, <2>7, <2>11, <3>4, <3>5, <3>6, <3>7, TreeRename
    <3>9. AllStand(disk, d3, open_files)
      BY <1>1, <1>6, <1>14, <2>5, <3>8, RenamedStand
    <3>10. IsTree(d3, D)
      BY <3>8 DEF TreeRenamed
    <3>11. Handles(d3, open_files)
      BY <1>1, <3>9, <3>10, HandlesKept
    <3>12. Whole(d3, D)
      BY <1>1, <2>4, <2>6, <2>7, <2>11, <2>16, <3>4, <3>5, <3>6, <3>8, WholeRenamed
    <3> QED BY <1>15, <1>16, <2>15, <3>1, <3>10, <3>11, <3>12 DEF FilesInv, Consistent
  <2> QED BY <2>14, <2>15
<1> QED BY <1>12, <1>13, <1>16

\* A handle on the same file.
SameFile(F, G) ==
  /\ G.path = F.path /\ G.first_cluster = F.first_cluster
  /\ G.parent_cluster = F.parent_cluster /\ G.entry_idx = F.entry_idx

\* A handle moves on in its file.
LEMMA HandleMoved ==
  ASSUME NEW d, NEW of, Handles(d, of), NEW f, f \in Handle, of[f].used, NEW G, G \in File, G.path = of[f].path,
         OpenAt(d, G), NEW of2, of2 = [of EXCEPT ![f] = G]
  PROVE  Handles(d, of2)
<1>1. of \in [Handle -> File \cup {Closed}]
  BY DEF Handles
<1>2. of2 \in [Handle -> File \cup {Closed}]
  BY <1>1
<1>3. of2[f] = G /\ \A g \in Handle : g # f => of2[g] = of[g]
  BY <1>1
<1>4. ASSUME NEW g \in Handle, of2[g].used
      PROVE  of[g].used /\ OpenAt(d, of2[g]) /\ of2[g].path[1] = of[g].path[1]
  <2>1. CASE g = f
    BY <1>3, <2>1
  <2>2. CASE g # f
    BY <1>3, <1>4, <2>2 DEF Handles
  <2> QED BY <2>1, <2>2
<1>5. \A g, h \in Handle : of2[g].used /\ of2[h].used /\ g # h => of2[g].path[1] # of2[h].path[1]
  BY <1>4 DEF Handles
<1> QED BY <1>2, <1>4, <1>5 DEF Handles

\* fat12_read's loop: the handle stays on its file.
ReadStates(F, count) ==
  {r \in [file : File, out : Seq(Byte \cup {JunkByte}), go : BOOLEAN, failed : BOOLEAN] :
     SameFile(F, r.file) /\ (r.go => Len(r.out) < count)}

\* A turn of the loop moves the cursor, nothing else of the handle.
LEMMA ReadTurnIs ==
  ASSUME disk \in Disk, NEW F, NEW count, count \in Nat, NEW r, r \in ReadStates(F, count), r.go
  PROVE  ReadTurn(r, count) \in ReadStates(F, count)
<1>1. PICK file : file = r.file
  OBVIOUS
<1>2. PICK out : out = r.out
  OBVIOUS
<1>3. PICK failed : failed = r.failed
  OBVIOUS
<1>g. PICK go : go = r.go
  OBVIOUS
<1>4. r = [file |-> file, out |-> out, go |-> go, failed |-> failed]
  BY <1>1, <1>2, <1>3, <1>g DEF ReadStates
<1>5. file \in File /\ out \in Seq(Byte \cup {JunkByte}) /\ failed \in BOOLEAN /\ SameFile(F, file)
      /\ Len(out) \in Nat /\ Len(out) < count
  BY <1>1, <1>2, <1>3 DEF ReadStates
<1>6. file.cursor \in Nat /\ file.file_size \in Nat
  BY <1>5 DEF File
<1>7. PICK skip : skip = file.cursor % ClusterBytes
  OBVIOUS
<1>8. skip \in 0 .. ClusterBytes - 1
  BY <1>6, <1>7, Numbers
<1>9. PICK c : c = Nth(disk.fat, file.first_cluster, file.cursor \div ClusterBytes)
  OBVIOUS
<1>10. PICK n : n = ToRead(file, count - Len(out))
  OBVIOUS
<1>11. PICK x : x = [i \in 1 .. n |-> disk.bytes[c][skip + i - 1]]
  OBVIOUS
<1>12. PICK b : b = (Len(out) + n < count)
  OBVIOUS
<1>13. PICK s : s = ReadTurn(r, count)
  OBVIOUS
<1>14. s = IF file.cursor >= file.file_size \/ c \notin Cluster THEN [r EXCEPT !.go = FALSE]
           ELSE IF ~OnDisk(c) THEN [r EXCEPT !.go = FALSE, !.failed = TRUE]
           ELSE [r EXCEPT !.out = @ \o x, !.file.cursor = @ + n, !.go = b]
  BY <1>1, <1>2, <1>7, <1>9, <1>10, <1>11, <1>12, <1>13 DEF ReadTurn
<1>15. CASE file.cursor >= file.file_size \/ c \notin Cluster
  <2>1. s = [r EXCEPT !.go = FALSE]
    BY <1>14, <1>15, Zenon
  <2>2. s = [file |-> file, out |-> out, go |-> FALSE, failed |-> failed]
    BY <1>4, <2>1
  <2> QED BY <1>5, <1>13, <2>2 DEF ReadStates
<1>16. CASE ~(file.cursor >= file.file_size \/ c \notin Cluster) /\ ~OnDisk(c)
  <2>1. s = [r EXCEPT !.go = FALSE, !.failed = TRUE]
    BY <1>14, <1>16, Zenon
  <2>2. s = [file |-> file, out |-> out, go |-> FALSE, failed |-> TRUE]
    BY <1>4, <2>1
  <2> QED BY <1>5, <1>13, <2>2 DEF ReadStates
<1>17. CASE ~(file.cursor >= file.file_size \/ c \notin Cluster) /\ OnDisk(c)
  <2>1. n \in Nat /\ n <= ClusterBytes - skip
    <3>1. PICK m1 : m1 = count - Len(out)
      OBVIOUS
    <3>2. PICK m2 : m2 = ClusterBytes - skip
      OBVIOUS
    <3>3. PICK m3 : m3 = file.file_size - file.cursor
      OBVIOUS
    <3>4. m1 \in Nat /\ m2 \in Nat /\ m3 \in Nat
      BY <1>5, <1>6, <1>8, <1>17, <3>1, <3>2, <3>3, Numbers
    <3>5. n = Min({m1, m2, m3})
      BY <1>7, <1>10, <3>1, <3>2, <3>3 DEF ToRead
    <3>6. {m1, m2, m3} \in SUBSET Nat /\ m1 \in {m1, m2, m3}
      BY <3>4
    <3>7. Min({m1, m2, m3}) \in {m1, m2, m3} /\ \A y \in {m1, m2, m3} : Min({m1, m2, m3}) <= y
      BY <3>6, MinOf
    <3> QED BY <3>2, <3>4, <3>5, <3>7
  <2>2. x \in Seq(Byte \cup {JunkByte})
    <3>1. c \in Cluster
      BY <1>17
    <3>2. disk.bytes \in ByteTable
      BY DiskParts
    <3>3. disk.bytes[c] \in [0 .. ClusterBytes - 1 -> Byte \cup {JunkByte}]
      BY <3>1, <3>2 DEF ByteTable
    <3>4. \A i \in 1 .. n : disk.bytes[c][skip + i - 1] \in Byte \cup {JunkByte}
      <4>1. \A i \in 1 .. n : skip + i - 1 \in 0 .. ClusterBytes - 1
        BY <1>8, <2>1, Numbers
      <4> QED BY <3>3, <4>1
    <3> QED BY <1>11, <2>1, <3>4
  <2>3. PICK out2 : out2 = out \o x
    OBVIOUS
  <2>4. out2 \in Seq(Byte \cup {JunkByte}) /\ Len(out2) = Len(out) + n
    <3>1. Len(x) = n
      BY <1>11, <2>1
    <3>2. Len(out2) = Len(out) + Len(x)
      BY <1>5, <2>2, <2>3
    <3>3. out2 \in Seq(Byte \cup {JunkByte})
      BY <1>5, <2>2, <2>3
    <3> QED BY <3>1, <3>2, <3>3
  <2>5. PICK cursor \in Nat : cursor = file.cursor + n
    BY <1>6, <2>1
  <2>g. PICK g : g = [file EXCEPT !.cursor = cursor]
    OBVIOUS
  <2>6. g \in File /\ SameFile(F, g)
    BY <1>5, <2>g DEF File, SameFile
  <2>7. s = [file |-> g, out |-> out2, go |-> b, failed |-> failed]
    <3>1. s = [r EXCEPT !.out = @ \o x, !.file.cursor = @ + n, !.go = b]
      BY <1>14, <1>17, Zenon
    <3>2. s = [r EXCEPT !.out = out \o x, !.file = [file EXCEPT !.cursor = file.cursor + n], !.go = b]
      BY <1>1, <1>2, <3>1
    <3>3. s = [r EXCEPT !.out = out2, !.file = g, !.go = b]
      BY <2>3, <2>5, <2>g, <3>2
    <3> QED BY <1>4, <3>3
  <2>8. b \in BOOLEAN /\ (b => Len(out2) < count)
    <3>1. b \in BOOLEAN
      BY <1>12
    <3>2. ASSUME b PROVE Len(out2) < count
      <4>1. Len(out) + n < count
        BY <1>12, <3>2, Zenon
      <4> QED BY <2>4, <4>1
    <3> QED BY <3>1, <3>2
  <2>9. s \in [file : File, out : Seq(Byte \cup {JunkByte}), go : BOOLEAN, failed : BOOLEAN]
    BY <1>5, <2>4, <2>6, <2>7, <2>8
  <2>10. s.file = g /\ s.out = out2 /\ s.go = b
    BY <2>7
  <2> QED BY <1>13, <2>6, <2>8, <2>9, <2>10 DEF ReadStates
<1> QED BY <1>15, <1>16, <1>17

\* fat12_read keeps the invariant.
LEMMA InvRead ==
  ASSUME FilesInv, NEW f \in Handle, NEW count \in 1 .. MaxRead, Read(f, count) PROVE FilesInv'
<1>1. PICK D : IsTree(disk, D) /\ Whole(disk, D) /\ Handles(disk, open_files)
  BY DEF FilesInv, Consistent
<1>2. CASE f \notin Used
  BY <1>2, InvRefused DEF Read, Refuse
<1>3. CASE f \in Used
  <2>1. PICK F : F = open_files[f]
    OBVIOUS
  <2>2. F \in File /\ OpenAt(disk, F) /\ open_files[f].used
    BY <1>1, <1>3, <2>1, UsedIs DEF Used
  <2>3. PICK S : S = ReadStates(F, count)
    OBVIOUS
  <2>4. disk \in Disk /\ count \in Nat /\ count >= 1
    <3>1. disk \in Disk
      BY <1>1 DEF IsTree, Directories, SoundDisk
    <3>2. MaxRead \in Nat
      BY ClientAssumption
    <3> QED BY <3>1, <3>2
  <2> DEFINE start == [file |-> F, out |-> <<>>, go |-> TRUE, failed |-> FALSE]
             turn(r) == IF r.go THEN ReadTurn(r, count) ELSE r
             g == [i \in Nat |-> [r \in S |-> turn(r)]]
             Eq(v) == v = [i \in Nat |-> IF i = 0
                             THEN [file |-> open_files[f], out |-> <<>>, go |-> TRUE, failed |-> FALSE]
                             ELSE turn(v[i - 1])]
             loop == CHOOSE v : Eq(v)
  <2>5. start \in S
    <3>1. SameFile(F, F) /\ Len(<<>>) < count /\ <<>> \in Seq(Byte \cup {JunkByte})
      BY <2>4 DEF SameFile
    <3> QED BY <2>2, <2>3, <3>1 DEF ReadStates
  <2>6. g \in [Nat -> [S -> S]]
    <3>1. \A r \in S : turn(r) \in S
      BY <2>3, <2>4, ReadTurnIs
    <3> HIDE DEF turn
    <3> QED BY <3>1
  <2>7. PICK w : Runs(w, S, g, start)
    <3> HIDE DEF g, start
    <3> QED BY <2>5, <2>6, Iterates
  <2>8. \A i \in Nat : w[i] \in S /\ w[i + 1] = turn(w[i])
    <3> SUFFICES ASSUME NEW i \in Nat PROVE w[i] \in S /\ w[i + 1] = turn(w[i])
      OBVIOUS
    <3>1. w[i] \in S /\ w[i + 1] = g[i][w[i]]
      BY <2>7 DEF Runs
    <3> HIDE DEF turn
    <3> QED BY <3>1
  <2>9. Eq(w)
    <3>1. \A i \in Nat : i # 0 => i - 1 \in Nat /\ (i - 1) + 1 = i
      OBVIOUS
    <3>2. w[0] = start /\ w \in [Nat -> S]
      BY <2>7 DEF Runs
    <3>3. \A i \in Nat : i # 0 => w[i] = turn(w[i - 1])
      <4> HIDE DEF turn
      <4> QED BY <2>8, <3>1
    <3> QED BY <2>1, <3>2, <3>3
  <2>10. Eq(loop)
    <3> HIDE DEF Eq
    <3> QED BY <2>9
  <2>11. open_files' = [open_files EXCEPT ![f] = loop[count].file] /\ disk' = disk
    BY <1>3 DEF Read
  <2> HIDE DEF loop
  <2>12. loop[0] = start /\ \A i \in Nat : loop[i + 1] = turn(loop[i])
    <3>1. loop[0] = start
      BY <2>1, <2>10
    <3>2. \A i \in Nat : i + 1 \in Nat /\ i + 1 # 0 /\ (i + 1) - 1 = i
      OBVIOUS
    <3>3. \A i \in Nat : loop[i + 1] = turn(loop[i])
      <4> HIDE DEF turn
      <4> QED BY <2>10, <3>2
    <3> QED BY <3>1, <3>3
  <2>13. \A i \in Nat : loop[i] \in S
    <3> DEFINE X == {i \in Nat : loop[i] \in S}
    <3>1. 0 \in X
      BY <2>5, <2>12
    <3>2. ASSUME NEW i \in Nat, i \in X PROVE i + 1 \in X
      <4>1. turn(loop[i]) \in S
        BY <2>3, <2>4, <3>2, ReadTurnIs
      <4>2. loop[i + 1] = turn(loop[i])
        <5> HIDE DEF turn
        <5> QED BY <2>12
      <4> QED BY <4>1, <4>2
    <3> HIDE DEF X
    <3>3. \A i \in Nat : i \in X
      BY <3>1, <3>2, AllNumbers
    <3> QED BY <3>3 DEF X
  <2>14. PICK G : G = loop[count].file
    OBVIOUS
  <2>15. G \in File /\ SameFile(F, G)
    BY <2>3, <2>4, <2>13, <2>14 DEF ReadStates
  <2>16. OpenAt(disk, G) /\ G.path = open_files[f].path
    BY <2>1, <2>2, <2>15, Zenon DEF OpenAt, SameFile
  <2>17. PICK of2 : of2 = open_files'
    OBVIOUS
  <2>18. Handles(disk, of2)
    BY <1>1, <2>2, <2>11, <2>14, <2>15, <2>16, <2>17, HandleMoved
  <2> QED BY <1>1, <2>11, <2>17, <2>18 DEF FilesInv, Consistent
<1> QED BY <1>2, <1>3

\* The handles with F as f.
With(of, f, F) == [of EXCEPT ![f] = F]

\* Replacing one handle.
LEMMA WithIs ==
  ASSUME NEW of, of \in [Handle -> File \cup {Closed}], NEW f, f \in Handle, NEW F, F \in File
  PROVE  With(of, f, F)[f] = F /\ \A G : With(With(of, f, F), f, G) = With(of, f, G)
BY DEF With

\* The file of a handle gets another size or its first cluster, y.
LEMMA HandlePatched ==
  ASSUME NEW d, NEW D, IsTree(d, D), Whole(d, D), NEW of, Handles(d, of), NEW f, f \in Handle,
         NEW F, F = of[f], F.used, NEW c, c = F.parent_cluster, NEW i, i = F.entry_idx,
         NEW d2, NEW y, TreePatched(d, D, d2, c, i, y),
         NEW G, G \in File, G.path = F.path, G.parent_cluster = c, G.entry_idx = i, G.first_cluster = y,
         NEW of2, of2 = With(of, f, G)
  PROVE  IsTree(d2, D) /\ Whole(d2, D) /\ Handles(d2, of2)
<1>4. PICK p : p = F.path[1]
  OBVIOUS
<1>5. IsPath(p) /\ Step(d, p, Len(p), c, i) /\ ~ReadSlot(d, c, i).dir
  BY <1>4 DEF Handles, OpenAt
<1>6. /\ IsTree(d2, D) /\ Whole(d2, D) /\ Changes(d, d2, D, {<<c, i>>}) /\ Stays(d, d2, c, i) /\ ReadSlot(d2, c, i).first = y
  BY DEF TreePatched
<1>7. ASSUME NEW b \in D, NEW j \in Nat, Listed(d, b, j)
      PROVE  /\ Stays(d, d2, b, j)
             /\ b # c \/ j # i => ReadSlot(d2, b, j) = ReadSlot(d, b, j)
  <2>1. CASE b = c /\ j = i
    BY <1>6, <2>1
  <2>2. CASE b # c \/ j # i
    <3>1. SameSlot(d, d2, b, j)
      BY <1>6, <2>2 DEF Changes
    <3> QED BY <1>7, <3>1, SameListed DEF Stays
  <2> QED BY <2>1, <2>2
<1>8. OpenAt(d2, G)
  <2>1. Len(p) \in 1 .. Len(p)
    BY <1>5, PathNames
  <2>2. AllStay(d, d2, p)
    <3> SUFFICES ASSUME NEW n \in 1 .. Len(p), NEW b, NEW j, Step(d, p, n, b, j) PROVE Stays(d, d2, b, j)
      BY DEF AllStay
    <3>1. b \in D /\ j \in Nat /\ Listed(d, b, j)
      BY <1>5, OneStep
    <3> QED BY <1>7, <3>1
  <2>3. Step(d2, p, Len(p), c, i)
    BY <1>5, <1>6, <2>1, <2>2, PathKept
  <2>4. ~ReadSlot(d2, c, i).dir
    BY <1>5, <1>6 DEF Stays
  <2>5. G.path[1] = p /\ G.parent_cluster = c /\ G.entry_idx = i
    BY <1>4
  <2> QED BY <1>5, <1>6, <2>3, <2>4, <2>5 DEF OpenAt
<1>9. ASSUME NEW g \in Handle, of[g].used, g # f PROVE OpenAt(d2, of[g])
  <2>1. OpenAt(d, of[g]) /\ of[g].path[1] # p
    BY <1>4, <1>9 DEF Handles
  <2>2. PICK q : q = of[g].path[1]
    OBVIOUS
  <2>3. PICK b2 : b2 = of[g].parent_cluster
    OBVIOUS
  <2>4. PICK j2 : j2 = of[g].entry_idx
    OBVIOUS
  <2>5. IsPath(q) /\ Step(d, q, Len(q), b2, j2) /\ ~ReadSlot(d, b2, j2).dir
    BY <2>1, <2>2, <2>3, <2>4 DEF OpenAt
  <2>6. ASSUME NEW n \in 1 .. Len(q), NEW b, NEW j, Step(d, q, n, b, j)
        PROVE  Stays(d, d2, b, j) /\ ReadSlot(d2, b, j).first = ReadSlot(d, b, j).first
    <3>1. b \in D /\ j \in Nat /\ Listed(d, b, j)
      BY <2>5, <2>6, OneStep
    <3>2. b # c \/ j # i
      <4>1. SUFFICES ASSUME b = c, j = i PROVE FALSE
        OBVIOUS
      <4>2. ~ReadSlot(d, b, j).dir => n = Len(q)
        BY <2>5, <2>6, AtFile
      <4>3. n = Len(q)
        BY <1>5, <4>1, <4>2
      <4>4. Len(p) \in 1 .. Len(p) /\ Len(q) \in 1 .. Len(q)
        BY <1>5, <2>5, PathNames
      <4>5. Len(p) = Len(q) /\ \A k \in 1 .. Len(p) : p[k] = q[k]
        BY <1>5, <2>5, <2>6, <4>1, <4>3, <4>4, PathUnique
      <4>6. p = q
        BY <1>5, <2>5, <4>5 DEF IsPath
      <4> QED BY <2>1, <2>2, <4>6
    <3> QED BY <1>7, <3>1, <3>2
  <2>7. Stands(d, d2, of[g])
    BY <2>2, <2>6 DEF Stands
  <2> QED BY <1>6, <2>1, <2>7, OpenKept
<1>10. of \in [Handle -> File \cup {Closed}]
  BY DEF Handles
<1>11. of2 \in [Handle -> File \cup {Closed}]
  BY <1>10 DEF With
<1>12. of2[f] = G /\ \A g \in Handle : g # f => of2[g] = of[g]
  BY <1>10 DEF With
<1>13. ASSUME NEW g \in Handle, of2[g].used
       PROVE  of[g].used /\ OpenAt(d2, of2[g]) /\ of2[g].path[1] = of[g].path[1]
  <2>1. CASE g = f
    BY <1>8, <1>12, <2>1
  <2>2. CASE g # f
    BY <1>9, <1>12, <1>13, <2>2
  <2> QED BY <2>1, <2>2
<1>14. \A g, h \in Handle : of2[g].used /\ of2[h].used /\ g # h => of2[g].path[1] # of2[h].path[1]
  BY <1>13 DEF Handles
<1> QED BY <1>6, <1>11, <1>13, <1>14 DEF Handles

\* The clusters of a file change.
LEMMA HandleElsewhere ==
  ASSUME NEW d, NEW D, IsTree(d, D), Whole(d, D), NEW of, Handles(d, of), NEW d2, NEW h, h \notin D, Elsewhere(d, d2, h)
  PROVE  IsTree(d2, D) /\ Whole(d2, D) /\ Handles(d2, of)
<1>1. IsTree(d2, D) /\ Changes(d, d2, D, {}) /\ SameHeads(d, d2)
  BY TreeElsewhere
<1>2. Adds(d, D, {})
  BY DEF Adds
<1>3. AllStand(d, d2, of)
  BY <1>1, <1>2, AddsStand
<1>4. KeepsLeads(d, d2, D)
  BY <1>1, LeadsKept
<1>5. \A g : IsHead(d2.fat, g) => IsHead(d.fat, g)
  BY <1>1 DEF SameHeads
<1>6. Whole(d2, D)
  BY <1>4, <1>5, WholeKept
<1> QED BY <1>1, <1>3, <1>6, HandlesKept

\* Data is stored in cluster c.
DataAt(d, c, b) == [d EXCEPT !.bytes[c] = b, !.slots[c] = [i \in Slots(c) |-> Blank(Junk)]]

\* The data goes to one cluster and leaves the FAT and the slots of the others.
LEMMA DataStored ==
  ASSUME NEW d, d \in Disk, NEW c, c \in Cluster,
         NEW b, b \in [0 .. ClusterBytes - 1 -> Byte \cup {JunkByte}],
         NEW d2, d2 = DataAt(d, c, b)
  PROVE  /\ d2 \in Disk /\ d2.fat = d.fat
         /\ \A e \in DirCluster : e # c => d2.slots[e] = d.slots[e]
<1>1. PICK fat : fat = d.fat
  OBVIOUS
<1>2. PICK slots : slots = d.slots
  OBVIOUS
<1>3. PICK bytes : bytes = d.bytes
  OBVIOUS
<1>4. /\ d = [fat |-> fat, slots |-> slots, bytes |-> bytes]
      /\ fat \in [Cluster -> FatValue] /\ slots \in SlotTable /\ bytes \in ByteTable
  BY <1>1, <1>2, <1>3, DiskParts
<1>5. PICK s : s = [i \in Slots(c) |-> Blank(Junk)]
  OBVIOUS
<1>6. s \in [Slots(c) -> Entry] /\ c \in DirCluster
  BY <1>5, Entries DEF DirCluster
<1>7. /\ Put(slots, c, s) \in SlotTable
      /\ \A e \in DirCluster : e # c => Put(slots, c, s)[e] = slots[e]
  BY <1>4, <1>6, PutSlots
<1>8. Put(bytes, c, b) \in ByteTable
  BY <1>4, PutBytes
<1>9. d2 = [fat |-> fat, slots |-> Put(slots, c, s), bytes |-> Put(bytes, c, b)]
  BY <1>4, <1>5 DEF Put, DataAt
<1>10. PICK slots2 : slots2 = Put(slots, c, s)
  OBVIOUS
<1>11. PICK bytes2 : bytes2 = Put(bytes, c, b)
  OBVIOUS
<1>12. d2 = [fat |-> fat, slots |-> slots2, bytes |-> bytes2]
  BY <1>9, <1>10, <1>11
<1>13. [fat |-> fat, slots |-> slots2, bytes |-> bytes2] \in Disk
  BY <1>4, <1>7, <1>8, <1>10, <1>11, DiskOf
<1>r. PICK r : r = [fat |-> fat, slots |-> slots2, bytes |-> bytes2]
  OBVIOUS
<1>s. r.fat = fat /\ r.slots = slots2
  BY <1>r
<1>t. d2 = r /\ r \in Disk
  BY <1>12, <1>13, <1>r, Zenon
<1>14. d2 \in Disk /\ d2.fat = fat /\ d2.slots = slots2
  BY <1>s, <1>t, Zenon
<1>15. d2.slots = Put(slots, c, s)
  BY <1>10, <1>14, Zenon
<1>16. \A e \in DirCluster : e # c => d2.slots[e] = slots[e]
  BY <1>7, <1>15, Zenon
<1>17. \A e \in DirCluster : e # c => d2.slots[e] = d.slots[e]
  BY <1>2, <1>16, Zenon
<1> QED BY <1>1, <1>14, <1>17, Zenon

\* fat12_write's loop.  All through it, the disk holds a tree and the handles are on their files.
WriteStates ==
  [disk : Disk, file : File, buf : Seq(Byte), done : Nat, go : BOOLEAN, failed : BOOLEAN]

Writing(of, f, w) == w \in WriteStates /\ Consistent(w.disk, With(of, f, w.file))

\* The handle f of the loop, its entry and its chain.
Entered(d, D, of, f, F) ==
  /\ IsTree(d, D) /\ Whole(d, D) /\ Handles(d, With(of, f, F)) /\ With(of, f, F)[f] = F
  /\ F.parent_cluster \in D /\ F.entry_idx \in Nat /\ Listed(d, F.parent_cluster, F.entry_idx)
  /\ ~ReadSlot(d, F.parent_cluster, F.entry_idx).dir
  /\ ReadSlot(d, F.parent_cluster, F.entry_idx).first = F.first_cluster
  /\ F.first_cluster # Free => IsHead(d.fat, F.first_cluster) /\ F.first_cluster \notin D

\* All that the turns need to know of the handle.
LEMMA WritingIs ==
  ASSUME NEW of, of \in [Handle -> File \cup {Closed}], NEW f, f \in Handle, NEW w, Writing(of, f, w)
  PROVE  w.file \in File /\ w.disk \in Disk /\ \E D : Entered(w.disk, D, of, f, w.file)
<1>1. PICK F : F = w.file
  OBVIOUS
<1>2. PICK d : d = w.disk
  OBVIOUS
<1>3. w \in WriteStates /\ Consistent(d, With(of, f, F))
  BY <1>1, <1>2 DEF Writing
<1>4. F \in File /\ d \in Disk
  BY <1>1, <1>2, <1>3 DEF WriteStates
<1>5. PICK ofw : ofw = With(of, f, F)
  OBVIOUS
<1>6. PICK D : IsTree(d, D) /\ Whole(d, D) /\ Handles(d, ofw)
  BY <1>3, <1>5 DEF Consistent
<1>u. F.used
  BY <1>4 DEF File
<1>7. ofw[f] = F /\ F.used
  BY <1>4, <1>5, <1>u, WithIs
<1>8. OpenAt(d, F)
  BY <1>6, <1>7 DEF Handles
<1>9. PICK p : p = F.path[1]
  OBVIOUS
<1>10. PICK c : c = F.parent_cluster
  OBVIOUS
<1>11. PICK i : i = F.entry_idx
  OBVIOUS
<1>12. PICK e : e = ReadSlot(d, c, i)
  OBVIOUS
<1>13. IsPath(p) /\ Step(d, p, Len(p), c, i) /\ ~e.dir /\ e.first = F.first_cluster
  BY <1>8, <1>9, <1>10, <1>11, <1>12 DEF OpenAt
<1>14. Len(p) \in 1 .. Len(p)
  BY <1>13, PathNames
<1>15. c \in D /\ i \in Nat /\ Listed(d, c, i)
  BY <1>6, <1>13, <1>14, OneStep
<1>16. Proper(d, D, e)
  BY <1>6, <1>12, <1>15 DEF IsTree, AllProper
<1>17. F.first_cluster # Free => IsHead(d.fat, F.first_cluster) /\ F.first_cluster \notin D
  BY <1>13, <1>16 DEF Proper
<1>18. Entered(d, D, of, f, F)
  BY <1>5, <1>6, <1>7, <1>10, <1>11, <1>12, <1>13, <1>15, <1>17 DEF Entered
<1> QED BY <1>1, <1>2, <1>4, <1>18

\* The entry of the handle is patched, or not: w2 goes on with d2 and G.
LEMMA WritingOn ==
  ASSUME NEW of, NEW f, NEW d2, d2 \in Disk, NEW G, G \in File, NEW D,
         IsTree(d2, D), Whole(d2, D), Handles(d2, With(of, f, G)), NEW buf, buf \in Seq(Byte), NEW done, done \in Nat,
         NEW go, go \in BOOLEAN, NEW failed, failed \in BOOLEAN,
         NEW w2, w2 = [disk |-> d2, file |-> G, buf |-> buf, done |-> done, go |-> go, failed |-> failed]
  PROVE  Writing(of, f, w2)
<1>1. w2 \in WriteStates /\ w2.disk = d2 /\ w2.file = G
  BY DEF WriteStates
<1> QED BY <1>1 DEF Writing, Consistent

\* The first cluster of a file.
LEMMA StartedIs ==
  ASSUME NEW of, of \in [Handle -> File \cup {Closed}], NEW f, f \in Handle, NEW w, Writing(of, f, w),
         NEW s, s = Started(w)
  PROVE  Writing(of, f, s) /\ (s.go => s.file.first_cluster # Free)
<1>1. PICK d : d = w.disk
  OBVIOUS
<1>2. PICK file : file = w.file
  OBVIOUS
<1>3. PICK buf : buf = w.buf
  OBVIOUS
<1>4. PICK done : done = w.done
  OBVIOUS
<1>5. PICK go : go = w.go
  OBVIOUS
<1>6. PICK failed : failed = w.failed
  OBVIOUS
<1>7. w = [disk |-> d, file |-> file, buf |-> buf, done |-> done, go |-> go, failed |-> failed]
  BY <1>1, <1>2, <1>3, <1>4, <1>5, <1>6 DEF Writing, WriteStates
<1>8. d \in Disk /\ file \in File /\ buf \in Seq(Byte) /\ done \in Nat /\ go \in BOOLEAN /\ failed \in BOOLEAN
  BY <1>1, <1>2, <1>3, <1>4, <1>5, <1>6 DEF Writing, WriteStates
<1>9. PICK new : new = FreeCluster(d)
  OBVIOUS
<1>10. PICK d1 : d1 = Allocated(d, Free)
  OBVIOUS
<1>11. PICK d2 : d2 = Patched(d1, file, "first", new)
  OBVIOUS
<1>12. PICK D : Entered(d, D, of, f, file)
  BY <1>1, <1>2, WritingIs
<1>13. s = IF file.first_cluster # Free THEN w
           ELSE IF new = None THEN [w EXCEPT !.go = FALSE, !.failed = TRUE]
           ELSE [w EXCEPT !.file.first_cluster = new, !.disk = d2]
  BY <1>1, <1>2, <1>9, <1>10, <1>11 DEF Started
<1>14. CASE file.first_cluster # Free
  <2>1. s = w
    BY <1>13, <1>14, Zenon
  <2> QED BY <1>2, <1>14, <2>1
<1>15. CASE file.first_cluster = Free /\ new = None
  <2>1. s = [w EXCEPT !.go = FALSE, !.failed = TRUE]
    BY <1>13, <1>15, Zenon
  <2>2. s = [disk |-> d, file |-> file, buf |-> buf, done |-> done, go |-> FALSE, failed |-> TRUE]
    BY <1>7, <2>1
  <2>3. IsTree(d, D) /\ Whole(d, D) /\ Handles(d, With(of, f, file))
    BY <1>12 DEF Entered
  <2>4. Writing(of, f, s)
    BY <1>8, <2>2, <2>3, WritingOn
  <2> QED BY <2>2, <2>4
<1>16. CASE file.first_cluster = Free /\ new # None
  <2>1. s = [w EXCEPT !.file.first_cluster = new, !.disk = d2]
    BY <1>13, <1>16, Zenon
  <2>2. PICK G : G = [file EXCEPT !.first_cluster = new]
    OBVIOUS
  <2>3. s = [disk |-> d2, file |-> G, buf |-> buf, done |-> done, go |-> go, failed |-> failed]
    <3>1. s = [w EXCEPT !.file = G, !.disk = d2]
      BY <1>2, <2>1, <2>2
    <3> QED BY <1>7, <3>1
  <2>4. PICK c : c = file.parent_cluster
    OBVIOUS
  <2>5. PICK i : i = file.entry_idx
    OBVIOUS
  <2>6. IsTree(d, D) /\ Whole(d, D) /\ c \in D /\ i \in Nat /\ Listed(d, c, i) /\ ~ReadSlot(d, c, i).dir
    BY <1>12, <2>4, <2>5 DEF Entered
  <2>7. TreePatched(d, D, d2, c, i, new)
    <3>1. ReadSlot(d, c, i).first = Free
      BY <1>12, <1>16, <2>4, <2>5 DEF Entered
    <3> QED BY <1>9, <1>10, <1>11, <1>16, <2>4, <2>5, <2>6, <3>1, FirstTree
  <2>8. new \in Cluster
    BY <1>9, <1>16, FreeClusterIs
  <2>9. /\ G \in File /\ G.path = file.path /\ G.parent_cluster = c /\ G.entry_idx = i
        /\ G.first_cluster = new
    BY <1>8, <2>2, <2>4, <2>5, <2>8 DEF File
  <2>10. PICK ofw : ofw = With(of, f, file)
    OBVIOUS
  <2>11. Handles(d, ofw) /\ ofw[f] = file /\ file.used
    BY <1>8, <1>12, <2>10 DEF Entered, File
  <2>12. PICK of2 : of2 = With(ofw, f, G)
    OBVIOUS
  <2>13. IsTree(d2, D) /\ Whole(d2, D) /\ Handles(d2, of2)
    <3>1. IsTree(d, D) /\ Whole(d, D) /\ Handles(d, ofw) /\ file = ofw[f] /\ file.used
      BY <2>6, <2>11
    <3>2. PICK y : y = new
      OBVIOUS
    <3>3. TreePatched(d, D, d2, c, i, y)
      BY <2>7, <3>2
    <3>4. /\ G \in File /\ G.path = file.path /\ G.parent_cluster = c /\ G.entry_idx = i
          /\ G.first_cluster = y
      BY <2>9, <3>2
    <3> QED BY <2>4, <2>5, <2>12, <3>1, <3>3, <3>4, HandlePatched
  <2>14. of2 = With(of, f, G)
    <3>1. of2 = With(ofw, f, G)
      BY <2>12
    <3> QED BY <1>8, <2>10, <3>1, WithIs
  <2>15. d2 \in Disk
    BY <2>13 DEF IsTree, Directories, SoundDisk
  <2>16. Writing(of, f, s)
    BY <1>8, <2>3, <2>9, <2>13, <2>14, <2>15, WritingOn
  <2>17. new # Free
    BY <2>8, Numbers
  <2> QED BY <2>3, <2>9, <2>16, <2>17
<1> QED BY <1>14, <1>15, <1>16

\* What is left of a buffer.
LEMMA RestIs ==
  ASSUME NEW S, NEW buf, buf \in Seq(S), NEW n, n \in Nat, n <= Len(buf)
  PROVE  SubSeq(buf, n + 1, Len(buf)) \in Seq(S)
<1>1. PICK m \in Nat : m = Len(buf)
  OBVIOUS
<1>2. \A i \in n + 1 .. m : buf[i] \in S
  BY <1>1
<1>3. SubSeq(buf, n + 1, m) \in Seq(S)
  BY <1>1, <1>2
<1> QED BY <1>1, <1>3

\* The bytes of a cluster, some of them from the buffer.
Overlay(old, buf, skip, n) ==
  [i \in 0 .. ClusterBytes - 1 |-> IF i \in skip .. skip + n - 1 THEN buf[i - skip + 1] ELSE old[i]]

\* They are bytes.
LEMMA OverlayIs ==
  ASSUME NEW old, old \in [0 .. ClusterBytes - 1 -> Byte \cup {JunkByte}], NEW buf, buf \in Seq(Byte),
         NEW skip, skip \in Nat, NEW n, n \in Nat, n <= Len(buf)
  PROVE  Overlay(old, buf, skip, n) \in [0 .. ClusterBytes - 1 -> Byte \cup {JunkByte}]
<1>1. PICK m \in Nat : m = Len(buf)
  OBVIOUS
<1>2. ASSUME NEW i \in 0 .. ClusterBytes - 1, i \in skip .. skip + n - 1
      PROVE  buf[i - skip + 1] \in Byte
  <2>1. i - skip + 1 \in 1 .. m
    BY <1>1, <1>2
  <2> QED BY <1>1, <2>1
<1>3. \A i \in 0 .. ClusterBytes - 1 : old[i] \in Byte \cup {JunkByte}
  OBVIOUS
<1> QED BY <1>2, <1>3 DEF Overlay

\* The entry of the handle gets a size.
Sized(d, file, size) == Patched(d, file, "size", size)

\* Bytes of the buffer are stored in cluster number j of the file.
LEMMA StoredIs ==
  ASSUME NEW of, of \in [Handle -> File \cup {Closed}], NEW f, f \in Handle, NEW w, Writing(of, f, w),
         w.file.first_cluster # Free, NEW j, j \in Nat, NEW c,
         c = Nth(w.disk.fat, w.file.first_cluster, j), c \in Cluster, NEW s, s = Stored(w, c)
  PROVE  Writing(of, f, s)
<1>1. PICK d : d = w.disk
  OBVIOUS
<1>2. PICK file : file = w.file
  OBVIOUS
<1>3. PICK buf : buf = w.buf
  OBVIOUS
<1>4. PICK done : done = w.done
  OBVIOUS
<1>5. PICK go : go = w.go
  OBVIOUS
<1>6. PICK failed : failed = w.failed
  OBVIOUS
<1>7. w = [disk |-> d, file |-> file, buf |-> buf, done |-> done, go |-> go, failed |-> failed]
  BY <1>1, <1>2, <1>3, <1>4, <1>5, <1>6 DEF Writing, WriteStates
<1>8. d \in Disk /\ file \in File /\ buf \in Seq(Byte) /\ done \in Nat /\ go \in BOOLEAN /\ failed \in BOOLEAN
  BY <1>1, <1>2, <1>3, <1>4, <1>5, <1>6 DEF Writing, WriteStates
<1>9. PICK D : Entered(d, D, of, f, file)
  BY <1>1, <1>2, WritingIs
<1>10. file.cursor \in Nat /\ file.file_size \in Nat
  BY <1>8 DEF File
<1>11. PICK skip : skip = file.cursor % ClusterBytes
  OBVIOUS
<1>12. skip \in 0 .. ClusterBytes - 1
  BY <1>10, <1>11, Numbers
<1>13. PICK n : n = Min({Len(buf), ClusterBytes - skip})
  OBVIOUS
<1>14. n \in Nat /\ n <= Len(buf)
  <2>1. PICK m1 : m1 = Len(buf)
    OBVIOUS
  <2>2. PICK m2 : m2 = ClusterBytes - skip
    OBVIOUS
  <2>3. m1 \in Nat /\ m2 \in Nat
    BY <1>8, <1>12, <2>1, <2>2, Numbers
  <2>4. n = Min({m1, m2}) /\ {m1, m2} \in SUBSET Nat /\ m1 \in {m1, m2}
    BY <1>13, <2>1, <2>2, <2>3
  <2>5. Min({m1, m2}) \in {m1, m2} /\ \A y \in {m1, m2} : Min({m1, m2}) <= y
    BY <2>4, MinOf
  <2> QED BY <2>1, <2>3, <2>4, <2>5
<1>15. PICK end : end = file.cursor + n
  OBVIOUS
<1>16. end \in Nat
  BY <1>10, <1>14, <1>15
<1>17. PICK old : old = d.bytes[c]
  OBVIOUS
<1>18. PICK bytes : bytes = Overlay(old, buf, skip, n)
  OBVIOUS
<1>19. bytes \in [0 .. ClusterBytes - 1 -> Byte \cup {JunkByte}]
  <2>1. old \in [0 .. ClusterBytes - 1 -> Byte \cup {JunkByte}]
    BY <1>8, <1>17, DiskParts DEF ByteTable
  <2>2. skip \in Nat
    BY <1>12, Numbers
  <2> QED BY <1>8, <1>14, <1>18, <2>1, <2>2, OverlayIs
<1>20. PICK d1 : d1 = DataAt(d, c, bytes)
  OBVIOUS
<1>21. /\ d1 \in Disk /\ d1.fat = d.fat
       /\ \A e \in DirCluster : e # c => d1.slots[e] = d.slots[e]
  BY <1>8, <1>19, <1>20, DataStored
<1>22. PICK ofw : ofw = With(of, f, file)
  OBVIOUS
<1>23. IsTree(d, D) /\ Whole(d, D) /\ Handles(d, ofw) /\ ofw[f] = file /\ file.used
  BY <1>8, <1>9, <1>22 DEF Entered, File
<1>24. PICK h : h = file.first_cluster
  OBVIOUS
<1>25. h \notin D /\ Elsewhere(d, d1, h)
  <2>1. h # Free /\ c = Nth(d.fat, h, j)
    BY <1>1, <1>2, <1>24
  <2>2. IsHead(d.fat, h) /\ h \notin D
    BY <1>9, <1>24, <2>1 DEF Entered
  <2>3. SoundDisk(d)
    BY <1>23 DEF IsTree, Directories
  <2> QED BY <1>21, <2>1, <2>2, <2>3, DataElsewhere
<1>26. IsTree(d1, D) /\ Whole(d1, D) /\ Handles(d1, ofw)
  BY <1>23, <1>25, HandleElsewhere
<1>27. PICK d2 : d2 = Sized(d1, file, end)
  OBVIOUS
<1>28. PICK rest : rest = SubSeq(buf, n + 1, Len(buf))
  OBVIOUS
<1>29. rest \in Seq(Byte)
  BY <1>8, <1>14, <1>28, RestIs
<1>30. PICK more : more = (n < Len(buf))
  OBVIOUS
<1>31. more \in BOOLEAN
  BY <1>30
<1>32. s = [w EXCEPT !.disk = IF end > file.file_size THEN d2 ELSE d1,
                     !.file.cursor = end,
                     !.file.file_size = IF end > file.file_size THEN end ELSE @,
                     !.buf = rest, !.done = @ + n, !.go = more]
  <2> DEFINE skips == w.file.cursor % ClusterBytes
             fits == Min({Len(w.buf), ClusterBytes - skips})
             ends == w.file.cursor + fits
             data == DataAt(w.disk, c, Overlay(w.disk.bytes[c], w.buf, skips, fits))
  <2>1. s = [w EXCEPT !.disk = IF ends > w.file.file_size THEN Sized(data, w.file, ends) ELSE data,
                      !.file.cursor = ends,
                      !.file.file_size = IF ends > w.file.file_size THEN ends ELSE @,
                      !.buf = SubSeq(@, fits + 1, Len(@)), !.done = @ + fits, !.go = fits < Len(w.buf)]
    BY Zenon DEF Stored, Overlay, DataAt, Sized
  <2>2. skips = skip
    BY <1>2, <1>11
  <2> HIDE DEF skips
  <2>3. fits = n
    BY <1>3, <1>13, <2>2
  <2> HIDE DEF fits
  <2>4. ends = end
    BY <1>2, <1>15, <2>3
  <2> HIDE DEF ends
  <2>5. data = d1
    BY <1>1, <1>3, <1>17, <1>18, <1>20, <2>2, <2>3
  <2> HIDE DEF data
  <2>6. Sized(data, w.file, ends) = d2
    BY <1>2, <1>27, <2>4, <2>5
  <2>7. s = [w EXCEPT !.disk = IF end > w.file.file_size THEN d2 ELSE d1,
                      !.file.cursor = end,
                      !.file.file_size = IF end > w.file.file_size THEN end ELSE @,
                      !.buf = SubSeq(@, n + 1, Len(@)), !.done = @ + n, !.go = n < Len(w.buf)]
    BY <2>1, <2>3, <2>4, <2>5, <2>6, Zenon
  <2> QED BY <1>1, <1>2, <1>3, <1>28, <1>30, <2>7
<1>33. PICK done2 : done2 = done + n
  OBVIOUS
<1>34. done2 \in Nat
  BY <1>8, <1>14, <1>33
<1>35. CASE ~(end > file.file_size)
  <2>1. s = [w EXCEPT !.disk = d1, !.file.cursor = end, !.file.file_size = @,
                      !.buf = rest, !.done = @ + n, !.go = more]
    BY <1>32, <1>35, Zenon
  <2>2. PICK G : G = [file EXCEPT !.cursor = end, !.file_size = @]
    OBVIOUS
  <2>3. s = [disk |-> d1, file |-> G, buf |-> rest, done |-> done2, go |-> more, failed |-> failed]
    <3>1. s = [w EXCEPT !.disk = d1, !.file = G, !.buf = rest, !.done = done2, !.go = more]
      BY <1>2, <1>4, <1>33, <2>1, <2>2, ZenonT(40)
    <3> QED BY <1>7, <3>1
  <2>4. /\ G \in File /\ G.path = file.path /\ G.parent_cluster = file.parent_cluster
        /\ G.entry_idx = file.entry_idx /\ G.first_cluster = file.first_cluster
    BY <1>8, <1>16, <2>2 DEF File
  <2>5. OpenAt(d1, file)
    BY <1>23, <1>26 DEF Handles
  <2>6. OpenAt(d1, G)
    BY <2>4, <2>5, Zenon DEF OpenAt
  <2>7. PICK of2 : of2 = [ofw EXCEPT ![f] = G]
    OBVIOUS
  <2>8. Handles(d1, of2)
    BY <1>23, <1>26, <2>4, <2>6, <2>7, HandleMoved
  <2>9. of2 = With(of, f, G)
    <3>1. of2 = With(ofw, f, G)
      BY <2>7 DEF With
    <3> QED BY <1>8, <1>22, <3>1, WithIs
  <2> QED BY <1>8, <1>21, <1>26, <1>29, <1>31, <1>34, <2>3, <2>4, <2>8, <2>9, WritingOn
<1>36. CASE end > file.file_size
  <2>1. s = [w EXCEPT !.disk = d2, !.file.cursor = end, !.file.file_size = end,
                      !.buf = rest, !.done = @ + n, !.go = more]
    BY <1>32, <1>36, Zenon
  <2>2. PICK G : G = [file EXCEPT !.cursor = end, !.file_size = end]
    OBVIOUS
  <2>3. s = [disk |-> d2, file |-> G, buf |-> rest, done |-> done2, go |-> more, failed |-> failed]
    <3>1. s = [w EXCEPT !.disk = d2, !.file = G, !.buf = rest, !.done = done2, !.go = more]
      BY <1>2, <1>4, <1>8, <1>33, <2>1, <2>2, ZenonT(40) DEF File
    <3> QED BY <1>7, <3>1
  <2>4. PICK b : b = file.parent_cluster
    OBVIOUS
  <2>5. PICK i : i = file.entry_idx
    OBVIOUS
  <2>6. /\ G \in File /\ G.path = file.path /\ G.parent_cluster = b
        /\ G.entry_idx = i /\ G.first_cluster = h
    BY <1>8, <1>16, <1>24, <2>2, <2>4, <2>5 DEF File
  <2>7. PICK w1 : w1 = [disk |-> d1, file |-> file, buf |-> buf, done |-> done, go |-> go, failed |-> failed]
    OBVIOUS
  <2>8. Writing(of, f, w1)
    BY <1>8, <1>21, <1>22, <1>26, <2>7, WritingOn
  <2>9. PICK D1 : Entered(d1, D1, of, f, file)
    <3>1. w1.disk = d1 /\ w1.file = file
      BY <2>7
    <3>2. \E D1 : Entered(w1.disk, D1, of, f, w1.file)
      BY <2>8, WritingIs
    <3> QED BY <3>1, <3>2, Zenon
  <2>10. /\ IsTree(d1, D1) /\ Whole(d1, D1) /\ Handles(d1, ofw) /\ b \in D1 /\ i \in Nat /\ Listed(d1, b, i)
         /\ ~ReadSlot(d1, b, i).dir /\ ReadSlot(d1, b, i).first = h
    BY <1>22, <1>24, <2>4, <2>5, <2>9 DEF Entered
  <2>11. TreePatched(d1, D1, d2, b, i, ReadSlot(d1, b, i).first)
    <3>1. d2 = Patched(d1, file, "size", end)
      BY <1>27, Zenon DEF Sized
    <3> QED BY <1>16, <2>4, <2>5, <2>10, <3>1, SizeTree
  <2>12. TreePatched(d1, D1, d2, b, i, h)
    BY <2>10, <2>11
  <2>13. PICK of2 : of2 = With(ofw, f, G)
    OBVIOUS
  <2>14. IsTree(d1, D1) /\ Whole(d1, D1) /\ Handles(d1, ofw) /\ file = ofw[f] /\ file.used
    BY <1>23, <2>10
  <2>15. IsTree(d2, D1) /\ Whole(d2, D1) /\ Handles(d2, of2)
    BY <2>4, <2>5, <2>6, <2>12, <2>13, <2>14, HandlePatched
  <2>16. of2 = With(of, f, G)
    BY <1>8, <1>22, <2>13, WithIs
  <2>17. d2 \in Disk
    BY <2>15 DEF IsTree, Directories, SoundDisk
  <2> QED BY <1>8, <1>29, <1>31, <1>34, <2>3, <2>6, <2>15, <2>16, <2>17, WritingOn
<1> QED BY <1>35, <1>36

\* A turn of fat12_write's loop.
LEMMA WriteTurnIs ==
  ASSUME NEW of, of \in [Handle -> File \cup {Closed}], NEW f, f \in Handle, NEW v, Writing(of, f, v),
         NEW u, u = WriteTurn(v)
  PROVE  Writing(of, f, u)
<1>1. PICK w : w = Started(v)
  OBVIOUS
<1>2. Writing(of, f, w) /\ (w.go => w.file.first_cluster # Free)
  BY <1>1, StartedIs
<1>3. PICK d : d = w.disk
  OBVIOUS
<1>4. PICK file : file = w.file
  OBVIOUS
<1>5. PICK buf : buf = w.buf
  OBVIOUS
<1>6. PICK done : done = w.done
  OBVIOUS
<1>7. PICK go : go = w.go
  OBVIOUS
<1>8. PICK failed : failed = w.failed
  OBVIOUS
<1>9. w = [disk |-> d, file |-> file, buf |-> buf, done |-> done, go |-> go, failed |-> failed]
  BY <1>2, <1>3, <1>4, <1>5, <1>6, <1>7, <1>8 DEF Writing, WriteStates
<1>10. d \in Disk /\ file \in File /\ buf \in Seq(Byte) /\ done \in Nat /\ go \in BOOLEAN /\ failed \in BOOLEAN
  BY <1>2, <1>3, <1>4, <1>5, <1>6, <1>7, <1>8 DEF Writing, WriteStates
<1>11. PICK h : h = file.first_cluster
  OBVIOUS
<1>12. PICK k : k = file.cursor \div ClusterBytes
  OBVIOUS
<1>13. PICK walk : walk = Reach(d, h, k, FALSE)
  OBVIOUS
<1>14. PICK t : t = [w EXCEPT !.disk = walk.disk]
  OBVIOUS
<1>15. u = IF ~w.go THEN w
           ELSE IF ~walk.ok THEN [t EXCEPT !.go = FALSE]
           ELSE IF ~OnDisk(walk.at) THEN [t EXCEPT !.go = FALSE, !.failed = TRUE]
           ELSE Stored(t, walk.at)
  <2>1. u = IF ~w.go THEN w
            ELSE IF ~walk.ok THEN [[w EXCEPT !.disk = walk.disk] EXCEPT !.go = FALSE]
            ELSE IF ~OnDisk(walk.at) THEN [[w EXCEPT !.disk = walk.disk] EXCEPT !.go = FALSE, !.failed = TRUE]
            ELSE Stored([w EXCEPT !.disk = walk.disk], walk.at)
    BY <1>1, <1>3, <1>4, <1>11, <1>12, <1>13, Zenon DEF WriteTurn
  <2> QED BY <1>14, <2>1, Zenon
<1>16. CASE ~w.go
  BY <1>2, <1>15, <1>16, Zenon
<1>17. CASE w.go
  <2>1. PICK D : Entered(d, D, of, f, file)
    BY <1>2, <1>3, <1>4, WritingIs
  <2>2. PICK ofw : ofw = With(of, f, file)
    OBVIOUS
  <2>3. /\ IsTree(d, D) /\ Whole(d, D) /\ Handles(d, ofw) /\ SoundDisk(d)
        /\ h # Free /\ IsHead(d.fat, h) /\ h \notin D
    BY <1>2, <1>4, <1>11, <1>17, <2>1, <2>2 DEF Entered, IsTree, Directories
  <2>4. k \in Nat
    <3>1. file.cursor \in Nat
      BY <1>10 DEF File
    <3> QED BY <1>12, <3>1, Numbers
  <2>5. Reached(d, walk, h)
    BY <1>13, <2>3, <2>4, ReachFile
  <2>6. PICK d2 : d2 = walk.disk
    OBVIOUS
  <2>7. PICK at : at = walk.at
    OBVIOUS
  <2>8. Elsewhere(d, d2, h) /\ d2 \in Disk /\ at \in Cluster /\ \E j \in Nat : at = Nth(d2.fat, h, j)
    BY <2>5, <2>6, <2>7 DEF Reached, Walk
  <2>9. IsTree(d2, D) /\ Whole(d2, D) /\ Handles(d2, ofw)
    BY <2>3, <2>8, HandleElsewhere
  <2>10. t = [disk |-> d2, file |-> file, buf |-> buf, done |-> done, go |-> go, failed |-> failed]
    BY <1>9, <1>14, <2>6
  <2>11. CASE ~walk.ok
    <3>1. u = [t EXCEPT !.go = FALSE]
      BY <1>15, <1>17, <2>11, Zenon
    <3>2. u = [disk |-> d2, file |-> file, buf |-> buf, done |-> done, go |-> FALSE, failed |-> failed]
      BY <2>10, <3>1
    <3> QED BY <1>10, <2>2, <2>8, <2>9, <3>2, WritingOn
  <2>12. CASE walk.ok /\ ~OnDisk(at)
    <3>1. u = [t EXCEPT !.go = FALSE, !.failed = TRUE]
      BY <1>15, <1>17, <2>7, <2>12, Zenon
    <3>2. u = [disk |-> d2, file |-> file, buf |-> buf, done |-> done, go |-> FALSE, failed |-> TRUE]
      BY <2>10, <3>1
    <3> QED BY <1>10, <2>2, <2>8, <2>9, <3>2, WritingOn
  <2>13. CASE walk.ok /\ OnDisk(at)
    <3>1. u = Stored(t, at)
      BY <1>15, <1>17, <2>7, <2>13, Zenon
    <3>2. Writing(of, f, t)
      BY <1>10, <2>2, <2>8, <2>9, <2>10, WritingOn
    <3>3. t.disk = d2 /\ t.file = file
      BY <2>10
    <3>4. PICK j : j \in Nat /\ at = Nth(d2.fat, h, j)
      BY <2>8
    <3>5. t.file.first_cluster # Free /\ at = Nth(t.disk.fat, t.file.first_cluster, j)
      BY <1>11, <2>3, <3>3, <3>4
    <3> QED BY <2>8, <3>1, <3>2, <3>4, <3>5, StoredIs
  <2> QED BY <2>11, <2>12, <2>13, <2>7
<1> QED BY <1>16, <1>17

\* fat12_write keeps the invariant, however many clusters it takes.
LEMMA InvWrite ==
  ASSUME FilesInv, NEW f \in Handle, NEW buf \in Buffer, Write(f, buf) PROVE FilesInv'
<1>1. PICK D : IsTree(disk, D) /\ Whole(disk, D) /\ Handles(disk, open_files)
  BY DEF FilesInv, Consistent
<1>2. CASE f \notin Used
  BY <1>2, InvRefused DEF Write, Refuse
<1>3. CASE f \in Used
  <2>1. PICK of : of = open_files
    OBVIOUS
  <2>2. PICK F : F = of[f]
    OBVIOUS
  <2>3. F \in File /\ of \in [Handle -> File \cup {Closed}]
    BY <1>1, <1>3, <2>1, <2>2, UsedIs DEF Used, Handles
  <2>4. disk \in Disk
    BY <1>1 DEF IsTree, Directories, SoundDisk
  <2>5. buf \in Seq(Byte) /\ Len(buf) \in Nat
    <3>1. buf \in Seq(Byte)
      BY ClientAssumption
    <3> QED BY <3>1
  <2>6. PICK S : S = {w \in WriteStates : Writing(of, f, w)}
    OBVIOUS
  <2> DEFINE start == WriteLoop(open_files[f], buf)
             turn(w) == IF w.go THEN WriteTurn(w) ELSE w
             g == [i \in Nat |-> [w \in S |-> turn(w)]]
             Eq(v) == v = [i \in Nat |-> IF i = 0 THEN WriteLoop(open_files[f], buf) ELSE turn(v[i - 1])]
             loop == CHOOSE v : Eq(v)
  <2>7. start \in S
    <3>1. start = [disk |-> disk, file |-> F, buf |-> buf, done |-> 0, go |-> TRUE, failed |-> FALSE]
      BY <2>1, <2>2 DEF WriteLoop
    <3>2. With(of, f, F) = of
      BY <2>2, <2>3 DEF With
    <3>3. Writing(of, f, start)
      <4> HIDE DEF start
      <4> QED BY <1>1, <2>1, <2>3, <2>4, <2>5, <3>1, <3>2, WritingOn
    <3> HIDE DEF start
    <3> QED BY <2>6, <3>3 DEF Writing
  <2>8. \A w \in S : turn(w) \in S
    <3> SUFFICES ASSUME NEW w \in S PROVE turn(w) \in S
      OBVIOUS
    <3>1. PICK u : u = WriteTurn(w)
      OBVIOUS
    <3>2. Writing(of, f, w)
      BY <2>6
    <3>3. Writing(of, f, u)
      BY <2>3, <3>1, <3>2, WriteTurnIs
    <3>4. u \in S
      BY <2>6, <3>3 DEF Writing
    <3> QED BY <3>1, <3>4
  <2>9. g \in [Nat -> [S -> S]]
    <3> HIDE DEF turn
    <3> QED BY <2>8
  <2>10. PICK w : Runs(w, S, g, start)
    <3> HIDE DEF g, start
    <3> QED BY <2>7, <2>9, Iterates
  <2>11. \A i \in Nat : w[i] \in S /\ w[i + 1] = turn(w[i])
    <3> SUFFICES ASSUME NEW i \in Nat PROVE w[i] \in S /\ w[i + 1] = turn(w[i])
      OBVIOUS
    <3>1. w[i] \in S /\ w[i + 1] = g[i][w[i]]
      <4> HIDE DEF g, start
      <4> QED BY <2>10 DEF Runs
    <3> HIDE DEF turn
    <3> QED BY <3>1
  <2>12. Eq(w)
    <3>1. \A i \in Nat : i # 0 => i - 1 \in Nat /\ (i - 1) + 1 = i
      OBVIOUS
    <3>2. w[0] = start /\ w \in [Nat -> S]
      <4> HIDE DEF g, start
      <4> QED BY <2>10 DEF Runs
    <3>3. \A i \in Nat : i # 0 => w[i] = turn(w[i - 1])
      <4> HIDE DEF turn
      <4> QED BY <2>11, <3>1
    <3> HIDE DEF turn
    <3> QED BY <3>2, <3>3
  <2>13. Eq(loop)
    <3> HIDE DEF Eq
    <3> QED BY <2>12
  <2>14. open_files' = [open_files EXCEPT ![f] = loop[Len(buf)].file] /\ disk' = loop[Len(buf)].disk
    BY <1>3, Zenon DEF Write
  <2> HIDE DEF loop
  <2>15. loop[0] = start /\ \A i \in Nat : loop[i + 1] = turn(loop[i])
    <3>1. loop[0] = start
      <4> HIDE DEF turn
      <4> QED BY <2>13
    <3>2. \A i \in Nat : i + 1 \in Nat /\ i + 1 # 0 /\ (i + 1) - 1 = i
      OBVIOUS
    <3>3. \A i \in Nat : loop[i + 1] = turn(loop[i])
      <4> HIDE DEF turn
      <4> QED BY <2>13, <3>2
    <3> QED BY <3>1, <3>3
  <2>16. \A i \in Nat : loop[i] \in S
    <3> DEFINE X == {i \in Nat : loop[i] \in S}
    <3> HIDE DEF start, turn
    <3>1. 0 \in X
      BY <2>7, <2>15
    <3>2. ASSUME NEW i \in Nat, i \in X PROVE i + 1 \in X
      BY <2>8, <2>15, <3>2
    <3> HIDE DEF X
    <3>3. \A i \in Nat : i \in X
      BY <3>1, <3>2, AllNumbers
    <3> QED BY <3>3 DEF X
  <2>17. PICK r : r = loop[Len(buf)]
    OBVIOUS
  <2>18. Writing(of, f, r)
    BY <2>5, <2>6, <2>16, <2>17
  <2>19. Consistent(r.disk, With(of, f, r.file))
    BY <2>18 DEF Writing
  <2>20. open_files' = With(of, f, r.file) /\ disk' = r.disk
    BY <2>1, <2>14, <2>17, Zenon DEF With
  <2>21. PICK d2 : d2 = disk'
    OBVIOUS
  <2>22. PICK of2 : of2 = open_files'
    OBVIOUS
  <2>23. Consistent(d2, of2)
    BY <2>19, <2>20, <2>21, <2>22, Zenon
  <2> QED BY <2>21, <2>22, <2>23, Zenon DEF FilesInv
<1> QED BY <1>2, <1>3

\* Every call of a client keeps the invariant.
LEMMA InvNext ==
  ASSUME NoLiberties, FilesInv, [Next]_vars PROVE FilesInv'
<1>1. \A l : ~Takes(l)
  BY DEF NoLiberties, Takes
<1>2. CASE UNCHANGED vars
  <2>1. UNCHANGED <<disk, open_files>>
    BY <1>2 DEF vars
  <2> QED BY <2>1, InvRefused
<1>3. CASE \E path \in Path \X Spelling : ~IsOpen(path) /\ Open(path)
  BY <1>3, InvOpen
<1>4. CASE \E path \in Path \X Spelling : MakeDir(path)
  BY <1>4, InvMakeDir
<1>5. CASE \E path \in Path \X Spelling : RemoveDir(path)
  BY <1>5, InvRemoveDir
<1>6. CASE \E path \in Path \X Spelling : RemoveFile(path)
  BY <1>6, InvRemoveFile
<1>7. CASE \E path, new \in Path \X Spelling :
                ~OpenBelow(path) /\ ~IntoItself(path, new) /\ Rename(path, new)
  BY <1>7, InvRename
<1>8. CASE \E path \in Path \cup {<<>>} : ListContent(path)
  BY <1>8, InvListContent
<1>9. CASE \E f \in Handle : Close(f)
  BY <1>9, InvClose
<1>10. CASE \E f \in Handle : GetSize(f)
  BY <1>10, InvGetSize
<1>11. CASE \E f \in Handle, buf \in Buffer : Write(f, buf)
  BY <1>11, InvWrite, SMTT(30)
<1>12. CASE \E f \in Handle, count \in 1 .. MaxRead : Read(f, count)
  BY <1>12, InvRead
<1>13. CASE Next
  <2>1. \/ \E path \in Path \X Spelling : ~IsOpen(path) /\ Open(path)
        \/ \E path \in Path \X Spelling : MakeDir(path)
        \/ \E path \in Path \X Spelling : RemoveDir(path)
        \/ \E path \in Path \X Spelling : RemoveFile(path)
        \/ \E path, new \in Path \X Spelling :
                ~OpenBelow(path) /\ ~IntoItself(path, new) /\ Rename(path, new)
        \/ \E path \in Path \cup {<<>>} : ListContent(path)
        \/ \E f \in Handle : Close(f)
        \/ \E f \in Handle : GetSize(f)
        \/ \E f \in Handle, buf \in Buffer : Write(f, buf)
        \/ \E f \in Handle, count \in 1 .. MaxRead : Read(f, count)
    BY <1>1, <1>13, Zenon DEF Next
  <2> QED BY <1>3, <1>4, <1>5, <1>6, <1>7, <1>8, <1>9, <1>10, <1>11, <1>12, <2>1
<1> QED BY <1>2, <1>13

\* The variables have their types in every state of it.
LEMMA InvTypes ==
  ASSUME FilesInv PROVE TypeOK
<1>1. PICK D : IsTree(disk, D) /\ Handles(disk, open_files)
  BY DEF FilesInv, Consistent
<1>2. disk \in Disk
  BY <1>1 DEF IsTree, Directories, SoundDisk
<1>3. disk.fat \in [Cluster -> FatValue] /\ disk.slots \in SlotTable /\ disk.bytes \in ByteTable
  BY <1>2, DiskParts
<1>4. disk.fat \in [Cluster -> {Free, EndOfChain} \cup Cluster]
  BY <1>3 DEF FatValue
<1>5. \A dir \in DirCluster : disk.slots[dir] \in [Slots(dir) -> Entry]
  BY <1>3 DEF SlotTable
<1>6. disk.bytes \in [Cluster -> [0 .. ClusterBytes - 1 -> Byte \cup {JunkByte}]]
  BY <1>3 DEF ByteTable
<1>7. \A f \in Handle : open_files[f] \in File \cup {Closed}
  BY <1>1 DEF Handles
<1> QED BY <1>4, <1>5, <1>6, <1>7 DEF TypeOK

\* The disk holds a tree in which every open handle is on the file of its path: no sequence
\* of calls - opening, writing, growing, renaming, removing, on a full disk too - breaks that
\* (kernel/fat12.c).  This is the inductive invariant from which the rest follows.
THEOREM FilesStayConsistent == NoLiberties => (Spec => []FilesInv)
<1> SUFFICES ASSUME NoLiberties PROVE Spec => []FilesInv
  OBVIOUS
<1>1. Init => FilesInv
  BY InvInit
<1>2. FilesInv /\ [Next]_vars => FilesInv'
  BY InvNext
<1> QED BY <1>1, <1>2, PTL DEF Spec

\* The FAT, the directory slots, the bytes and the table of open files keep their types:
\* every FAT value is free, a cluster or an end, every slot an entry (kernel/fat12.c, fileno.c).
THEOREM TypesKept == NoLiberties => (Spec => []TypeOK)
<1>1. FilesInv => TypeOK
  BY InvTypes
<1> QED BY <1>1, FilesStayConsistent, PTL

\* With the power on, a crash run is a run of the driver.
CrashInv == on => FilesInv

\* The same while the power is on, whenever it is going to be lost: the driver's invariant
\* holds in every state of Fat12Crash in which calls can still be made.
THEOREM ConsistentWhileOn == NoLiberties => (CrashSpec => []CrashInv)
<1> SUFFICES ASSUME NoLiberties PROVE CrashSpec => []CrashInv
  OBVIOUS
<1>1. CrashInit => CrashInv
  BY InvInit DEF CrashInit, FilesInit, CrashInv
<1>2. ASSUME CrashInv, [CrashNext]_crashVars PROVE CrashInv'
  <2>1. CASE Work
    <3>1. on /\ Next
      BY <2>1 DEF Work, FilesNext
    <3>2. FilesInv'
      BY <1>2, <3>1, InvNext DEF CrashInv
    <3> QED BY <3>2 DEF CrashInv
  <2>2. CASE PowerLoss
    BY <2>2 DEF PowerLoss, CrashInv
  <2>3. CASE UNCHANGED crashVars
    <3>1. UNCHANGED vars /\ on' = on
      BY <2>3 DEF crashVars, filesVars, vars
    <3>2. FilesInv => FilesInv'
      BY <3>1, InvNext
    <3> QED BY <1>2, <3>1, <3>2 DEF CrashInv
  <2> QED BY <1>2, <2>1, <2>2, <2>3 DEF CrashNext
<1> QED BY <1>1, <1>2, PTL DEF CrashSpec

-----------------------------------------------------------------------------
(***************************************************************************)
(* The files and directories of a disk.                                    *)
(***************************************************************************)

\* The place of an entry: its path leads to it.
Placed(d, D) ==
  {p \in [path : Seq(Name), dir : D, slot : Nat] :
     IsPath(p.path) /\ Step(d, p.path, Len(p.path), p.dir, p.slot)}

\* A path leads where a longer one passes.
LEMMA Passes ==
  ASSUME NEW d, NEW D, IsTree(d, D), NEW path, IsPath(path), NEW name, name \in Name,
         NEW q, q = Append(path, name)
  PROVE  /\ IsPath(q) /\ Len(q) = Len(path) + 1 /\ q[Len(q)] = name
         /\ \A c, i : Step(d, path, Len(path), c, i) => Step(d, q, Len(path), c, i)
<1>1. PICK m : m = Len(path)
  OBVIOUS
<1>2. m \in Nat /\ m >= 1 /\ path \in Seq(Name) /\ path # <<>> /\ m - 1 \in Nat
  BY <1>1, PathNames DEF IsPath
<1>3. q \in Seq(Name) /\ q # <<>> /\ Len(q) = m + 1 /\ q[m + 1] = name /\ \A n \in 1 .. m : q[n] = path[n]
  BY <1>1, <1>2
<1>4. /\ DirAt(d, path, 0) = 0
      /\ \A n \in 1 .. m - 1 : DirAt(d, path, n) = Enter(d, DirAt(d, path, n - 1), path[n])
  BY <1>1, <1>2, DirAtIs
<1>5. DirAt(d, q, 0) = 0 /\ \A n \in 1 .. Len(q) - 1 : DirAt(d, q, n) = Enter(d, DirAt(d, q, n - 1), q[n])
  BY <1>3, DirAtIs
<1>6. \A n \in Nat : n < m => DirAt(d, q, n) = DirAt(d, path, n)
  <2> DEFINE X == {n \in Nat : n < m => DirAt(d, q, n) = DirAt(d, path, n)}
  <2>1. 0 \in X
    BY <1>4, <1>5
  <2>2. ASSUME NEW n \in Nat, n \in X PROVE n + 1 \in X
    <3>1. CASE n + 1 < m
      <4>1. n + 1 \in 1 .. m - 1 /\ n + 1 \in 1 .. Len(q) - 1 /\ n + 1 \in 1 .. m /\ (n + 1) - 1 = n /\ n < m
        BY <1>2, <1>3, <3>1
      <4>2. DirAt(d, path, n + 1) = Enter(d, DirAt(d, path, n), path[n + 1])
        BY <1>4, <4>1
      <4>3. DirAt(d, q, n + 1) = Enter(d, DirAt(d, q, n), q[n + 1])
        BY <1>5, <4>1
      <4>4. DirAt(d, q, n) = DirAt(d, path, n) /\ q[n + 1] = path[n + 1]
        BY <1>3, <2>2, <4>1
      <4>5. DirAt(d, q, n + 1) = DirAt(d, path, n + 1)
        BY <4>2, <4>3, <4>4
      <4> QED BY <4>5
    <3>2. CASE ~(n + 1 < m)
      BY <3>2
    <3> QED BY <3>1, <3>2
  <2> HIDE DEF X
  <2>3. \A n \in Nat : n \in X
    BY <2>1, <2>2, AllNumbers
  <2> QED BY <2>3 DEF X
<1>7. m - 1 < m /\ m \in 1 .. m
  BY <1>2
<1>8. DirAt(d, q, m - 1) = DirAt(d, path, m - 1) /\ q[m] = path[m]
  BY <1>2, <1>3, <1>6, <1>7
<1>9. \A c, i : Step(d, path, m, c, i) => Step(d, q, m, c, i)
  BY <1>8 DEF Step
<1> QED BY <1>1, <1>3, <1>9 DEF IsPath

\* Where the entries of a directory are placed: the root's or one that is placed.
LeadsTo(d, D, path, c) ==
  \/ path = <<>> /\ c = 0
  \/ \E p \in Placed(d, D) : path = p.path /\ EntryAt(d, p).dir /\ c = EntryAt(d, p).first

\* The entries of a directory that is placed are placed.
LEMMA BelowPlaced ==
  ASSUME NEW d, NEW D, IsTree(d, D), NEW path, NEW c, LeadsTo(d, D, path, c)
  PROVE  Below(d, c, path) \subseteq Placed(d, D)
<1>1. path \in Seq(Name) /\ c \in D
  <2>1. CASE path = <<>> /\ c = 0
    BY <2>1 DEF IsTree, Directories
  <2>2. CASE \E p \in Placed(d, D) : path = p.path /\ EntryAt(d, p).dir /\ c = EntryAt(d, p).first
    <3>1. PICK p \in Placed(d, D) : path = p.path /\ EntryAt(d, p).dir /\ c = EntryAt(d, p).first
      BY <2>2
    <3>2. PICK b : b = p.dir
      OBVIOUS
    <3>3. PICK j : j = p.slot
      OBVIOUS
    <3>4. IsPath(path) /\ Step(d, path, Len(path), b, j)
      BY <3>1, <3>2, <3>3 DEF Placed
    <3>5. Len(path) \in 1 .. Len(path)
      BY <3>4, PathNames
    <3>6. b \in D /\ j \in Nat /\ Listed(d, b, j)
      BY <3>4, <3>5, OneStep
    <3>7. ReadSlot(d, b, j).dir /\ c = ReadSlot(d, b, j).first
      BY <3>1, <3>2, <3>3 DEF EntryAt
    <3>8. Proper(d, D, ReadSlot(d, b, j))
      BY <3>6 DEF IsTree, AllProper
    <3> QED BY <3>4, <3>7, <3>8 DEF IsPath, Proper
  <2> QED BY <2>1, <2>2 DEF LeadsTo
<1>2. SUFFICES ASSUME NEW p \in Below(d, c, path) PROVE p \in Placed(d, D)
  OBVIOUS
<1>3. PICK i \in LiveSlots(d, c) : p = [path |-> Append(path, ReadSlot(d, c, i).name), dir |-> c, slot |-> i]
  BY <1>2 DEF Below
<1>4. PICK name : name = ReadSlot(d, c, i).name
  OBVIOUS
<1>5. i \in 0 .. FirstSlot(d, c, {End}) - 1 /\ name \in Live
  BY <1>4 DEF LiveSlots
<1>6. SoundDisk(d) /\ Dir(d, c)
  BY <1>1, DirIs
<1>7. FirstWith(d, c, {End}, FirstSlot(d, c, {End}))
  BY <1>6, FirstSlotIs
<1>8. i \in Nat /\ Seen(d, c, i)
  <2>1. PICK e : e = FirstSlot(d, c, {End})
    OBVIOUS
  <2>2. e \in Nat /\ \A j \in Nat : j < e => ReadSlot(d, c, j).name \notin {End} \cup {Missing}
    BY <1>7, <2>1 DEF FirstWith
  <2>3. i \in Nat /\ i < e
    BY <1>5, <2>1, <2>2
  <2>4. \A j \in 0 .. i : j \in Nat /\ j < e
    BY <2>2, <2>3
  <2> QED BY <2>2, <2>3, <2>4 DEF Seen
<1>9. name \notin {Deleted, ".", ".."}
  BY <1>5, FatAssumption DEF Live, Special, Deleted, Junk
<1>10. Listed(d, c, i)
  BY <1>4, <1>8, <1>9 DEF Listed, InUse
<1>11. name \in Name
  BY <1>1, <1>4, <1>8, <1>10 DEF IsTree, AllProper, Proper
<1>12. PICK q : q = Append(path, name)
  OBVIOUS
<1>13. Holds(d, c, i, name) /\ c # None
  BY <1>1, <1>4, <1>8, <1>10, DirIs DEF Holds
<1>14. IsPath(q) /\ Step(d, q, Len(q), c, i)
  <2>1. CASE path = <<>> /\ c = 0
    <3>1. q = <<name>> /\ Len(q) = 1 /\ q[1] = name /\ q \in Seq(Name) /\ q # <<>>
      BY <1>1, <1>11, <1>12, <2>1
    <3>2. DirAt(d, q, 0) = 0
      BY <3>1, DirAtIs
    <3> QED BY <1>13, <2>1, <3>1, <3>2 DEF Step, IsPath
  <2>2. CASE \E r \in Placed(d, D) : path = r.path /\ EntryAt(d, r).dir /\ c = EntryAt(d, r).first
    <3>1. PICK r \in Placed(d, D) : path = r.path /\ EntryAt(d, r).dir /\ c = EntryAt(d, r).first
      BY <2>2
    <3>2. PICK b : b = r.dir
      OBVIOUS
    <3>3. PICK j : j = r.slot
      OBVIOUS
    <3>4. PICK m : m = Len(path)
      OBVIOUS
    <3>5. IsPath(path) /\ Step(d, path, m, b, j)
      BY <3>1, <3>2, <3>3, <3>4 DEF Placed
    <3>6. ReadSlot(d, b, j).dir /\ c = ReadSlot(d, b, j).first
      BY <3>1, <3>2, <3>3 DEF EntryAt
    <3>7. IsPath(q) /\ Len(q) = m + 1 /\ q[Len(q)] = name /\ Step(d, q, m, b, j)
      BY <1>11, <1>12, <3>4, <3>5, Passes
    <3>8. m \in Nat /\ m >= 1
      BY <3>4, <3>5, PathNames
    <3>9. m \in 1 .. Len(q) - 1 /\ Len(q) - 1 = m
      BY <3>7, <3>8
    <3>10. DirAt(d, q, m) = c
      BY <3>6, <3>7, <3>9, StepDown
    <3> QED BY <1>13, <3>7, <3>9, <3>10 DEF Step
  <2> QED BY <2>1, <2>2 DEF LeadsTo
<1>15. p = [path |-> q, dir |-> c, slot |-> i] /\ q \in Seq(Name)
  BY <1>3, <1>4, <1>12, <1>14 DEF IsPath
<1> QED BY <1>1, <1>8, <1>14, <1>15 DEF Placed

\* Places collects them level by level.
Deeper(d, upper) ==
  upper \cup UNION {Below(d, EntryAt(d, p).first, p.path) : p \in {p \in upper : EntryAt(d, p).dir}}

Levels(d, D, level) ==
  /\ level[0] = Below(d, 0, <<>>) /\ Places(d) = level[LastCluster - 1]
  /\ \A n \in Nat : level[n] \subseteq Placed(d, D) /\ level[n + 1] = Deeper(d, level[n])

\* All files and directories are placed, on every level.
LEMMA LevelsPlaced ==
  ASSUME NEW d, NEW D, IsTree(d, D)
  PROVE  \E level : Levels(d, D, level)
<1>1. PICK P : P = Placed(d, D)
  OBVIOUS
<1> DEFINE start == Below(d, 0, <<>>)
           turn(upper) == Deeper(d, upper)
           g == [i \in Nat |-> [s \in SUBSET P |-> turn(s)]]
           Eq(v) == v = [n \in Nat |-> IF n = 0 THEN Below(d, 0, <<>>) ELSE turn(v[n - 1])]
           level == CHOOSE v : Eq(v)
<1>2. start \in SUBSET P
  <2>1. LeadsTo(d, D, <<>>, 0)
    BY DEF LeadsTo
  <2> QED BY <1>1, <2>1, BelowPlaced
<1>3. \A s \in SUBSET P : turn(s) \in SUBSET P
  <2> SUFFICES ASSUME NEW s \in SUBSET P, NEW p \in s, EntryAt(d, p).dir
               PROVE  Below(d, EntryAt(d, p).first, p.path) \in SUBSET P
    BY DEF Deeper
  <2>1. PICK c : c = EntryAt(d, p).first
    OBVIOUS
  <2>2. PICK path : path = p.path
    OBVIOUS
  <2>3. LeadsTo(d, D, path, c)
    BY <1>1, <2>1, <2>2 DEF LeadsTo
  <2>4. Below(d, c, path) \subseteq Placed(d, D)
    BY <2>3, BelowPlaced
  <2> QED BY <1>1, <2>1, <2>2, <2>4
<1>4. g \in [Nat -> [SUBSET P -> SUBSET P]]
  <2> HIDE DEF turn
  <2> QED BY <1>3
<1>5. PICK w : Runs(w, SUBSET P, g, start)
  <2> HIDE DEF g, start
  <2> QED BY <1>2, <1>4, Iterates
<1>6. \A i \in Nat : w[i] \in SUBSET P /\ w[i + 1] = turn(w[i])
  <2> SUFFICES ASSUME NEW i \in Nat PROVE w[i] \in SUBSET P /\ w[i + 1] = turn(w[i])
    OBVIOUS
  <2>1. w[i] \in SUBSET P /\ w[i + 1] = g[i][w[i]]
    <3> HIDE DEF g, start
    <3> QED BY <1>5 DEF Runs
  <2> HIDE DEF turn
  <2> QED BY <2>1
<1>7. Eq(w)
  <2>1. \A i \in Nat : i # 0 => i - 1 \in Nat /\ (i - 1) + 1 = i
    OBVIOUS
  <2>2. w[0] = start /\ w \in [Nat -> SUBSET P]
    <3> HIDE DEF g, start
    <3> QED BY <1>5 DEF Runs
  <2>3. \A i \in Nat : i # 0 => w[i] = turn(w[i - 1])
    <3> HIDE DEF turn
    <3> QED BY <1>6, <2>1
  <2> HIDE DEF turn
  <2> QED BY <2>2, <2>3
<1>8. Eq(level)
  <2> HIDE DEF Eq
  <2> QED BY <1>7
<1>9. Places(d) = level[LastCluster - 1]
  BY Zenon DEF Places, Deeper
<1> HIDE DEF level
<1>10. level[0] = start /\ \A i \in Nat : level[i + 1] = turn(level[i])
  <2>1. level[0] = start
    <3> HIDE DEF turn
    <3> QED BY <1>8
  <2>2. \A i \in Nat : i + 1 \in Nat /\ i + 1 # 0 /\ (i + 1) - 1 = i
    OBVIOUS
  <2>3. \A i \in Nat : level[i + 1] = turn(level[i])
    <3> HIDE DEF turn
    <3> QED BY <1>8, <2>2
  <2> QED BY <2>1, <2>3
<1>11. \A i \in Nat : level[i] \in SUBSET P
  <2> DEFINE X == {i \in Nat : level[i] \in SUBSET P}
  <2> HIDE DEF start, turn
  <2>1. 0 \in X
    BY <1>2, <1>10
  <2>2. ASSUME NEW i \in Nat, i \in X PROVE i + 1 \in X
    BY <1>3, <1>10, <2>2
  <2> HIDE DEF X
  <2>3. \A i \in Nat : i \in X
    BY <2>1, <2>2, AllNumbers
  <2> QED BY <2>3 DEF X
<1>12. level[0] = Below(d, 0, <<>>) /\ \A i \in Nat : level[i + 1] = Deeper(d, level[i])
  BY <1>10
<1> QED BY <1>1, <1>9, <1>11, <1>12 DEF Levels

\* So they are all placed.
LEMMA PlacesPlaced ==
  ASSUME NEW d, NEW D, IsTree(d, D)
  PROVE  Places(d) \subseteq Placed(d, D)
<1>1. PICK level : Levels(d, D, level)
  BY LevelsPlaced
<1>2. LastCluster - 1 \in Nat
  BY FatAssumption
<1> QED BY <1>1, <1>2 DEF Levels

\* The entries of a directory that are below it are all its entries.
LEMMA ListedBelow ==
  ASSUME NEW d, NEW D, IsTree(d, D), NEW c, c \in D, NEW i, i \in Nat, Listed(d, c, i), NEW path
  PROVE  \E p \in Below(d, c, path) : p.dir = c /\ p.slot = i
<1>1. PICK f : f = FirstSlot(d, c, {End})
  OBVIOUS
<1>2. FirstWith(d, c, {End}, f)
  BY <1>1, DirIs, FirstSlotIs
<1>3. f \in Nat /\ ReadSlot(d, c, f).name \in {End, Missing}
  BY <1>2 DEF FirstWith
<1>4. ~(f <= i)
  BY <1>3 DEF Listed, InUse, Seen
<1>5. i \in 0 .. f - 1
  BY <1>3, <1>4
<1>6. ReadSlot(d, c, i).name \in Live
  BY DEF IsTree, AllProper, Proper, Live
<1>7. i \in LiveSlots(d, c)
  BY <1>1, <1>5, <1>6 DEF LiveSlots
<1>8. PICK p : p = [path |-> Append(path, ReadSlot(d, c, i).name), dir |-> c, slot |-> i]
  OBVIOUS
<1>9. p \in Below(d, c, path)
  BY <1>7, <1>8 DEF Below
<1> QED BY <1>8, <1>9

\* The directories with all their entries in a set of places.
Covered(d, D, S) == {c \in D : \E path : Below(d, c, path) \subseteq S}

\* The next level has a directory more, unless all are there.
LEMMA CoversMore ==
  ASSUME NEW d, NEW D, IsTree(d, D), Whole(d, D), NEW S, 0 \in Covered(d, D, S)
  PROVE  /\ Covered(d, D, S) \subseteq Covered(d, D, Deeper(d, S))
         /\ Covered(d, D, S) # D => Covered(d, D, S) # Covered(d, D, Deeper(d, S))
<1>1. PICK T : T = Deeper(d, S)
  OBVIOUS
<1>2. S \subseteq T
  BY <1>1 DEF Deeper
<1>3. Covered(d, D, S) \subseteq Covered(d, D, T)
  BY <1>2 DEF Covered
<1>4. ASSUME Covered(d, D, S) # D PROVE \E h : h \in Covered(d, D, T) /\ h \notin Covered(d, D, S)
  <2>1. PICK X : X = D \ Covered(d, D, S)
    OBVIOUS
  <2>2. X \subseteq D /\ 0 \notin X /\ X # {} /\ \A c \in D \ X : c \in Covered(d, D, S)
    BY <1>4, <2>1 DEF Covered
  <2>3. Entrance(d, D, X)
    BY <2>2 DEF Whole
  <2>4. PICK h \in X, c \in D \ X : Leads(d, c, h)
    BY <2>3 DEF Entrance
  <2>5. PICK i \in Nat : Listed(d, c, i) /\ ReadSlot(d, c, i).first = h
    BY <2>4 DEF Leads
  <2>6. c \in D /\ h \in D /\ h # 0 /\ h # Free
    BY <2>2, <2>4 DEF Free
  <2>7. ReadSlot(d, c, i).dir
    <3>1. Proper(d, D, ReadSlot(d, c, i))
      BY <2>5, <2>6 DEF IsTree, AllProper
    <3> QED BY <2>5, <2>6, <3>1 DEF Proper
  <2>8. PICK path : Below(d, c, path) \subseteq S
    BY <2>2, <2>4 DEF Covered
  <2>9. PICK p \in Below(d, c, path) : p.dir = c /\ p.slot = i
    BY <2>5, <2>6, ListedBelow
  <2>10. p \in S /\ EntryAt(d, p).dir /\ EntryAt(d, p).first = h
    BY <2>5, <2>7, <2>8, <2>9 DEF EntryAt
  <2>11. PICK q : q = p.path
    OBVIOUS
  <2>12. Below(d, h, q) \subseteq T
    BY <1>1, <2>10, <2>11 DEF Deeper
  <2>13. h \in Covered(d, D, T)
    BY <2>6, <2>12 DEF Covered
  <2> QED BY <2>1, <2>4, <2>13
<1> QED BY <1>1, <1>3, <1>4

\* There are no more levels than directories, and no more directories than clusters: every
\* entry has its place.
LEMMA AllInPlaces ==
  ASSUME NEW d, NEW D, IsTree(d, D), Whole(d, D), NEW c, c \in D, NEW i, i \in Nat, Listed(d, c, i)
  PROVE  \E p \in Places(d) : p.dir = c /\ p.slot = i
<1>1. PICK level : Levels(d, D, level)
  BY LevelsPlaced
<1> DEFINE R(n) == Covered(d, D, level[n])
<1>2. IsFiniteSet(D) /\ Cardinality(D) <= LastCluster
  <2>1. IsFiniteSet(Cluster) /\ Cardinality(Cluster) = LastCluster - 1
    BY ClusterCount
  <2>2. IsFiniteSet(Cluster \cup {0}) /\ Cardinality(Cluster \cup {0}) = Cardinality(Cluster) + 1
    <3>1. PICK S : S = Cluster
      OBVIOUS
    <3>2. 0 \notin S /\ IsFiniteSet(S)
      BY <2>1, <3>1, Numbers
    <3>3. IsFiniteSet(S \cup {0}) /\ Cardinality(S \cup {0}) = Cardinality(S) + 1
      BY <3>2, FS_AddElement, Zenon
    <3> QED BY <3>1, <3>3
  <2>3. Cardinality(Cluster \cup {0}) = LastCluster
    BY <2>1, <2>2, Numbers
  <2>4. D \in SUBSET (Cluster \cup {0})
    BY DEF IsTree, Directories, DirCluster
  <2>5. IsFiniteSet(D) /\ Cardinality(D) <= Cardinality(Cluster \cup {0})
    BY <2>2, <2>4, FS_Subset
  <2> QED BY <2>3, <2>5
<1>3. \A n \in Nat : R(n) \in SUBSET D /\ IsFiniteSet(R(n)) /\ Cardinality(R(n)) \in Nat
  <2> SUFFICES ASSUME NEW n \in Nat PROVE R(n) \in SUBSET D /\ IsFiniteSet(R(n)) /\ Cardinality(R(n)) \in Nat
    OBVIOUS
  <2>1. R(n) \in SUBSET D
    BY DEF Covered
  <2> HIDE DEF R
  <2>2. IsFiniteSet(R(n))
    BY <1>2, <2>1, FS_Subset
  <2> QED BY <2>1, <2>2, FS_CardinalityType
<1> DEFINE X == {n \in Nat : 0 \in R(n) /\ (R(n) = D \/ Cardinality(R(n)) > n)}
<1>4. 0 \in X
  <2>1. 0 \in R(0)
    <3>1. Below(d, 0, <<>>) \subseteq level[0] /\ 0 \in D
      BY <1>1 DEF Levels, IsTree, Directories
    <3> QED BY <3>1 DEF Covered
  <2> HIDE DEF R
  <2>2. R(0) # {} /\ IsFiniteSet(R(0)) /\ Cardinality(R(0)) \in Nat
    BY <1>3, <2>1
  <2>3. Cardinality(R(0)) # 0
    BY <2>2, FS_EmptySet
  <2> QED BY <2>1, <2>2, <2>3
<1>5. ASSUME NEW n \in Nat, n \in X PROVE n + 1 \in X
  <2>1. 0 \in R(n) /\ (R(n) = D \/ Cardinality(R(n)) > n)
    BY <1>5
  <2>2. level[n + 1] = Deeper(d, level[n])
    BY <1>1 DEF Levels
  <2>3. R(n) \subseteq R(n + 1) /\ (R(n) # D => R(n) # R(n + 1))
    BY <2>1, <2>2, CoversMore
  <2> HIDE DEF R
  <2>4. R(n + 1) \in SUBSET D /\ IsFiniteSet(R(n + 1)) /\ Cardinality(R(n + 1)) \in Nat /\ Cardinality(R(n)) \in Nat
    BY <1>3
  <2>5. CASE R(n) = D
    BY <2>1, <2>3, <2>4, <2>5
  <2>6. CASE R(n) # D
    <3>1. R(n) \in SUBSET R(n + 1)
      BY <2>3
    <3>2. /\ Cardinality(R(n)) <= Cardinality(R(n + 1))
          /\ Cardinality(R(n + 1)) = Cardinality(R(n)) => R(n + 1) = R(n)
      BY <2>4, <3>1, FS_Subset
    <3>3. Cardinality(R(n + 1)) > n + 1
      BY <2>1, <2>3, <2>4, <2>6, <3>2
    <3> QED BY <2>1, <2>3, <3>3
  <2> QED BY <2>5, <2>6
<1> HIDE DEF R
<1>6. \A n \in Nat : 0 \in R(n) /\ (R(n) = D \/ Cardinality(R(n)) > n)
  <2> HIDE DEF X
  <2>1. \A n \in Nat : n \in X
    BY <1>4, <1>5, AllNumbers
  <2> QED BY <2>1 DEF X
<1>7. PICK last : last = LastCluster - 1
  OBVIOUS
<1>8. last \in Nat /\ LastCluster = last + 1
  BY <1>7, Numbers
<1>9. R(last) = D
  <2>1. SUFFICES ASSUME Cardinality(R(last)) > last PROVE R(last) = D
    BY <1>6, <1>8
  <2>2. R(last) \in SUBSET D /\ Cardinality(R(last)) \in Nat /\ Cardinality(D) \in Nat
    BY <1>2, <1>3, <1>8, FS_CardinalityType
  <2>3. Cardinality(R(last)) <= Cardinality(D) /\ (Cardinality(D) = Cardinality(R(last)) => D = R(last))
    BY <1>2, <2>2, FS_Subset
  <2> QED BY <1>2, <1>8, <2>1, <2>2, <2>3
<1>10. PICK path : Below(d, c, path) \subseteq level[last]
  BY <1>9 DEF R, Covered
<1>11. PICK p \in Below(d, c, path) : p.dir = c /\ p.slot = i
  BY ListedBelow
<1> QED BY <1>1, <1>7, <1>10, <1>11 DEF Levels

\* Different files have different entries and different paths.
LEMMA PlacesDiffer ==
  ASSUME NEW d, NEW D, IsTree(d, D), NEW p, p \in Placed(d, D), NEW q, q \in Placed(d, D), p # q
  PROVE  p.path # q.path /\ (p.dir # q.dir \/ p.slot # q.slot)
<1>1. PICK pp : pp = p.path
  OBVIOUS
<1>2. PICK pd : pd = p.dir
  OBVIOUS
<1>3. PICK ps : ps = p.slot
  OBVIOUS
<1>4. PICK qp : qp = q.path
  OBVIOUS
<1>5. PICK qd : qd = q.dir
  OBVIOUS
<1>6. PICK qs : qs = q.slot
  OBVIOUS
<1>7. p = [path |-> pp, dir |-> pd, slot |-> ps] /\ q = [path |-> qp, dir |-> qd, slot |-> qs]
  BY <1>1, <1>2, <1>3, <1>4, <1>5, <1>6 DEF Placed
<1>8. IsPath(pp) /\ Step(d, pp, Len(pp), pd, ps) /\ IsPath(qp) /\ Step(d, qp, Len(qp), qd, qs)
  BY <1>1, <1>2, <1>3, <1>4, <1>5, <1>6 DEF Placed
<1>9. Len(pp) \in 1 .. Len(pp) /\ Len(qp) \in 1 .. Len(qp)
  BY <1>8, PathNames
<1>10. pp = qp => pd = qd /\ ps = qs
  <2>1. ASSUME pp = qp PROVE pd = qd /\ ps = qs
    <3>1. Step(d, pp, Len(pp), qd, qs)
      BY <1>8, <2>1
    <3> QED BY <1>8, <1>9, <3>1, OneStep
  <2> QED BY <2>1
<1>11. pd = qd /\ ps = qs => pp = qp
  <2>1. ASSUME pd = qd, ps = qs PROVE pp = qp
    <3>1. Step(d, qp, Len(qp), pd, ps)
      BY <1>8, <2>1
    <3>2. Len(pp) = Len(qp) /\ \A k \in 1 .. Len(pp) : pp[k] = qp[k]
      BY <1>8, <1>9, <3>1, PathUnique
    <3> QED BY <1>8, <3>2 DEF IsPath
  <2> QED BY <2>1
<1>12. ~(pp = qp /\ pd = qd /\ ps = qs)
  BY <1>7
<1> QED BY <1>1, <1>2, <1>3, <1>4, <1>5, <1>6, <1>10, <1>11, <1>12

\* The entry of a file or directory.
LEMMA PlacedEntry ==
  ASSUME NEW d, NEW D, IsTree(d, D), NEW p, p \in Placed(d, D)
  PROVE  /\ p.dir \in D /\ p.slot \in Nat /\ Listed(d, p.dir, p.slot)
         /\ EntryAt(d, p) = ReadSlot(d, p.dir, p.slot) /\ Proper(d, D, EntryAt(d, p))
<1>1. PICK c : c = p.dir
  OBVIOUS
<1>2. PICK i : i = p.slot
  OBVIOUS
<1>3. PICK path : path = p.path
  OBVIOUS
<1>4. IsPath(path) /\ Step(d, path, Len(path), c, i)
  BY <1>1, <1>2, <1>3 DEF Placed
<1>5. Len(path) \in 1 .. Len(path)
  BY <1>4, PathNames
<1>6. c \in D /\ i \in Nat /\ Listed(d, c, i)
  BY <1>4, <1>5, OneStep
<1>7. Proper(d, D, ReadSlot(d, c, i))
  BY <1>6 DEF IsTree, AllProper
<1>8. EntryAt(d, p) = ReadSlot(d, c, i)
  BY <1>1, <1>2 DEF EntryAt
<1> QED BY <1>1, <1>2, <1>6, <1>7, <1>8

\* No cluster belongs to two of them.
LEMMA InvApart ==
  ASSUME FilesInv PROVE ChainsApart
<1>1. PICK D : IsTree(disk, D)
  BY DEF FilesInv, Consistent
<1>2. SUFFICES ASSUME NEW p \in Files, NEW q \in Files, p # q PROVE ChainOf(p) \cap ChainOf(q) = {}
  BY DEF ChainsApart
<1>3. p \in Placed(disk, D) /\ q \in Placed(disk, D)
  BY <1>1, <1>2, PlacesPlaced DEF Files
<1>4. PICK b : b = p.dir
  OBVIOUS
<1>5. PICK i : i = p.slot
  OBVIOUS
<1>6. PICK c : c = q.dir
  OBVIOUS
<1>7. PICK j : j = q.slot
  OBVIOUS
<1>8. PICK e : e = EntryAt(disk, p)
  OBVIOUS
<1>9. PICK f : f = EntryAt(disk, q)
  OBVIOUS
<1>10. b \in D /\ i \in Nat /\ Listed(disk, b, i) /\ e = ReadSlot(disk, b, i) /\ Proper(disk, D, e)
  BY <1>1, <1>3, <1>4, <1>5, <1>8, PlacedEntry
<1>11. c \in D /\ j \in Nat /\ Listed(disk, c, j) /\ f = ReadSlot(disk, c, j) /\ Proper(disk, D, f)
  BY <1>1, <1>3, <1>6, <1>7, <1>9, PlacedEntry
<1>12. b # c \/ i # j
  BY <1>1, <1>2, <1>3, <1>4, <1>5, <1>6, <1>7, PlacesDiffer
<1>13. Apart(disk, b, i, c, j)
  BY <1>1, <1>10, <1>11, <1>12 DEF IsTree, AllApart
<1>14. e.first = f.first => e.first = Free
  BY <1>10, <1>11, <1>13, Zenon DEF Apart
<1>15. PICK x : x = e.first
  OBVIOUS
<1>16. PICK y : y = f.first
  OBVIOUS
<1>17. SoundFat(disk.fat) /\ \A h \in D : h = 0 \/ IsHead(disk.fat, h)
  BY <1>1 DEF IsTree, Directories, SoundDisk, Dir
<1>18. (x = Free \/ IsHead(disk.fat, x)) /\ (y = Free \/ IsHead(disk.fat, y))
  BY <1>10, <1>11, <1>15, <1>16, <1>17 DEF Proper
<1>19. disk.fat \in [Cluster -> FatValue] /\ Free \in FatValue /\ Free \notin Cluster
  BY <1>17, Numbers DEF SoundFat, FatValue
<1>20. Chain(disk.fat, Free) = {}
  BY <1>19, NoChain
<1>21. Chain(disk.fat, x) \cap Chain(disk.fat, y) = {}
  <2>1. CASE x = Free \/ y = Free
    BY <1>20, <2>1
  <2>2. CASE x # Free /\ y # Free
    <3>1. IsHead(disk.fat, x) /\ IsHead(disk.fat, y) /\ x # y
      BY <1>14, <1>15, <1>16, <1>18, <2>2
    <3> QED BY <1>17, <3>1, ChainsDisjoint
  <2> QED BY <2>1, <2>2
<1>22. ChainOf(p) = Chain(disk.fat, x) /\ ChainOf(q) = Chain(disk.fat, y)
  BY <1>8, <1>9, <1>15, <1>16 DEF ChainOf, At
<1> QED BY <1>21, <1>22

\* Every cluster in use is some file's or directory's.
LEMMA InvNothingLost ==
  ASSUME FilesInv PROVE NothingLost
<1>1. PICK D : IsTree(disk, D) /\ Whole(disk, D)
  BY DEF FilesInv, Consistent
<1>2. PICK fat : fat = disk.fat
  OBVIOUS
<1>3. SoundFat(fat) /\ fat \in [Cluster -> FatValue] /\ \A h \in D : h = 0 \/ IsHead(fat, h)
  BY <1>1, <1>2 DEF IsTree, Directories, SoundDisk, SoundFat, Dir
<1>4. ASSUME NEW c \in Cluster, fat[c] # Free PROVE \E p \in Files : c \in ChainOf(p)
  <2>1. PICK h : IsHead(fat, h) /\ \E k \in Nat : Nth(fat, h, k) = c
    BY <1>3, <1>4 DEF SoundFat, AllInChains, InChain
  <2>2. PICK k \in Nat : Nth(fat, h, k) = c
    BY <2>1
  <2>3. PICK n \in 1 .. LastCluster - 1 :
          /\ \A j \in Nat : Nth(fat, h, j) \in Cluster <=> j < n
          /\ Chain(fat, h) = {Nth(fat, h, j) : j \in 0 .. n - 1}
    BY <1>3, <2>1, ChainLength
  <2>4. k \in 0 .. n - 1
    BY <2>2, <2>3, Numbers
  <2>5. c \in Chain(fat, h)
    BY <2>2, <2>3, <2>4
  <2>6. PICK b \in D : Leads(disk, b, h)
    BY <1>1, <1>2, <2>1 DEF Whole, Owned
  <2>7. PICK i \in Nat : Listed(disk, b, i) /\ ReadSlot(disk, b, i).first = h
    BY <2>6 DEF Leads
  <2>8. PICK p \in Places(disk) : p.dir = b /\ p.slot = i
    BY <1>1, <2>7, AllInPlaces
  <2>9. ChainOf(p) = Chain(fat, h)
    BY <1>2, <2>7, <2>8 DEF ChainOf, At, EntryAt
  <2> QED BY <2>5, <2>8, <2>9 DEF Files
<1>5. ASSUME NEW p \in Files, NEW c \in ChainOf(p) PROVE c \in Cluster /\ fat[c] # Free
  <2>1. p \in Placed(disk, D)
    BY <1>1, PlacesPlaced DEF Files
  <2>2. PICK x : x = At(p).first
    OBVIOUS
  <2>3. Proper(disk, D, EntryAt(disk, p))
    BY <1>1, <2>1, PlacedEntry
  <2>4. x = Free \/ IsHead(fat, x)
    BY <1>2, <1>3, <2>2, <2>3 DEF Proper, At
  <2>5. c \in Chain(fat, x)
    BY <1>2, <2>2 DEF ChainOf
  <2>6. Free \in FatValue /\ Free \notin Cluster
    BY Numbers DEF FatValue
  <2>7. IsHead(fat, x)
    BY <1>3, <2>4, <2>5, <2>6, NoChain
  <2>8. x \in Cluster /\ fat[x] # Free
    BY <2>7 DEF IsHead
  <2>9. PICK k \in 0 .. LastCluster : c = Nth(fat, x, k) /\ c \in Cluster
    BY <2>5 DEF Chain
  <2>10. k \in Nat /\ k \in 0 .. k
    BY <2>9, Numbers
  <2> QED BY <1>3, <2>8, <2>9, <2>10, NthBefore
<1> QED BY <1>2, <1>4, <1>5 DEF NothingLost

\* Directories form a tree.
LEMMA InvTree ==
  ASSUME FilesInv PROVE TreeWellFormed
<1>1. PICK D : IsTree(disk, D)
  BY DEF FilesInv, Consistent
<1>2. ASSUME NEW p \in Files, NEW q \in Files, p # q PROVE p.path # q.path
  <2>1. p \in Placed(disk, D) /\ q \in Placed(disk, D)
    BY <1>1, PlacesPlaced DEF Files
  <2> QED BY <1>1, <1>2, <2>1, PlacesDiffer
<1>3. ASSUME NEW p \in Files, At(p).dir
      PROVE  /\ At(p).first # Free
             /\ OnDisk(At(p).first) => /\ ReadSlot(disk, At(p).first, 0).first = At(p).first
                                       /\ ReadSlot(disk, At(p).first, 1).first = p.dir
  <2>1. p \in Placed(disk, D)
    BY <1>1, PlacesPlaced DEF Files
  <2>2. PICK c : c = p.dir
    OBVIOUS
  <2>3. PICK i : i = p.slot
    OBVIOUS
  <2>4. PICK e : e = At(p)
    OBVIOUS
  <2>5. c \in D /\ i \in Nat /\ Listed(disk, c, i) /\ e = ReadSlot(disk, c, i) /\ Proper(disk, D, e)
    BY <1>1, <2>1, <2>2, <2>3, <2>4, PlacedEntry DEF At
  <2>6. PICK x : x = e.first
    OBVIOUS
  <2>7. x \in D /\ x # 0
    BY <1>3, <2>4, <2>5, <2>6 DEF Proper
  <2>8. ASSUME OnDisk(x) PROVE ReadSlot(disk, x, 0).first = x /\ ReadSlot(disk, x, 1).first = c
    <3>1. Dots(disk, x)
      BY <1>1, <2>7, <2>8 DEF IsTree, Dotted
    <3>2. LeadsBack(disk, c, i)
      BY <1>1, <2>5 DEF IsTree, AllLeadBack
    <3>3. e.dir /\ ReadSlot(disk, c, i).dir /\ ReadSlot(disk, c, i).first = x
      BY <1>3, <2>4, <2>5, <2>6
    <3>4. ReadSlot(disk, x, 1).first = c
      BY <2>8, <3>2, <3>3 DEF LeadsBack
    <3> QED BY <3>1, <3>4 DEF Dots
  <2> QED BY <2>2, <2>4, <2>6, <2>7, <2>8 DEF Free
<1> QED BY <1>2, <1>3 DEF TreeWellFormed

\* No cluster belongs to two files or directories, whatever was created, grown, moved and
\* removed before (fat12_allocate_cluster, fat12_free_cluster_chain and all that use them).
THEOREM NoClusterShared == NoLiberties => (CrashSpec => []NoneShared)
<1>1. CrashInv => NoneShared
  BY InvApart DEF CrashInv, NoneShared
<1> QED BY <1>1, ConsistentWhileOn, PTL

\* Every cluster in use belongs to a file or directory that a path leads to: what a call took
\* and could not use it gave back, removing gives everything back, and no rename puts a part
\* of the tree where nothing leads (fat12_makedir, fat12_write, fat12_rename, fat12_free_cluster_chain).
THEOREM NothingIsLost == NoLiberties => (CrashSpec => []NoneLost)
<1>1. CrashInv => NoneLost
  BY InvNothingLost DEF CrashInv, NoneLost
<1> QED BY <1>1, ConsistentWhileOn, PTL

\* The directories form a tree: no two files of one path, and the "." and ".." of every
\* directory lead to itself and back to its parent (fat12_makedir, fat12_rename, fat12_create_entry).
THEOREM TreeKeepsStanding == NoLiberties => (CrashSpec => []TreeStands)
<1>1. CrashInv => TreeStands
  BY InvTree DEF CrashInv, TreeStands
<1> QED BY <1>1, ConsistentWhileOn, PTL

=============================================================================
