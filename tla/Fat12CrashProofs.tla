-------------------------- MODULE Fat12CrashProofs --------------------------
(***************************************************************************)
(* Proofs about power losses between the disk writes of a call of          *)
(* kernel/fat12.c, for disks of every size: what the call does not name is *)
(* where it was, and what it renames is under one of the two names.  From  *)
(* what one write keeps to each call write by write.                       *)
(***************************************************************************)
EXTENDS Fat12Proofs

-----------------------------------------------------------------------------
(***************************************************************************)
(* What a change leaves as it was: the data of files.                      *)
(***************************************************************************)
\* From d to d2 the chain of x stays, with the bytes in it.
Spares(d, d2, x) ==
  /\ IsHead(d2.fat, x) /\ SameChain(d.fat, d2.fat, x)
  /\ \A k \in Nat : Nth(d.fat, x, k) \in Cluster =>
       d2.bytes[Nth(d.fat, x, k)] = d.bytes[Nth(d.fat, x, k)]

\* All chains do but those of C.
Aside(d, d2, C) == \A x : IsHead(d.fat, x) /\ x \notin C => Spares(d, d2, x)

\* One change after the other.
LEMMA AsideTwice ==
  ASSUME NEW d, NEW d1, NEW d2, NEW C, Aside(d, d1, C), Aside(d1, d2, C)
  PROVE  Aside(d, d2, C)
<1> SUFFICES ASSUME NEW x, IsHead(d.fat, x), x \notin C PROVE Spares(d, d2, x)
  BY DEF Aside
<1>1. Spares(d, d1, x)
  BY DEF Aside
<1>2. Spares(d1, d2, x)
  BY <1>1 DEF Aside, Spares
<1> QED BY <1>1, <1>2 DEF Spares, SameChain

\* A change of free clusters and those of one directory.
LEMMA OnlyThere ==
  ASSUME NEW d, SoundDisk(d), NEW d2, d2 \in Disk, NEW c, Dir(d, c),
         \A x : IsHead(d.fat, x) => IsHead(d2.fat, x),
         \A y \in Cluster : d.fat[y] # Free /\ (\A k \in Nat : Nth(d.fat, c, k) # y) =>
                              d2.fat[y] = d.fat[y] /\ d2.bytes[y] = d.bytes[y]
  PROVE  Aside(d, d2, {c})
<1> SUFFICES ASSUME NEW x, IsHead(d.fat, x), x # c PROVE Spares(d, d2, x)
  BY DEF Aside
<1>1. SoundFat(d.fat) /\ d.fat \in [Cluster -> FatValue] /\ d2.fat \in [Cluster -> FatValue]
      /\ x \in FatValue /\ x \in Cluster /\ d.fat[x] # Free
  BY DiskParts DEF SoundDisk, IsHead, FatValue
<1>2. ASSUME NEW k \in Nat, NEW y, y = Nth(d.fat, x, k), y \in Cluster
      PROVE  d2.fat[y] = d.fat[y] /\ d2.bytes[y] = d.bytes[y]
  <2>1. d.fat[y] # Free
    <3>1. k \in 0 .. k
      OBVIOUS
    <3> QED BY <1>1, <1>2, <3>1, NthBefore
  <2>2. ASSUME NEW j \in Nat, Nth(d.fat, c, j) = y PROVE FALSE
    <3>1. CASE c = 0
      <4>1. 0 \in FatValue /\ 0 \notin Cluster
        BY Numbers DEF FatValue, Free
      <4>2. Nth(d.fat, 0, j) \notin Cluster
        BY <1>1, <4>1, NoChain
      <4> QED BY <1>2, <2>2, <3>1, <4>2
    <3>2. CASE IsHead(d.fat, c)
      <4>1. Nth(d.fat, x, k) = Nth(d.fat, c, j) /\ Nth(d.fat, x, k) \in Cluster
        BY <1>2, <2>2
      <4> QED BY <1>1, <3>2, <4>1, OnePlace
    <3> QED BY <3>1, <3>2 DEF Dir
  <2> QED BY <1>2, <2>1, <2>2
<1>3. SameChain(d.fat, d2.fat, x)
  BY <1>1, <1>2, Agreeing
<1>4. IsHead(d2.fat, x)
  OBVIOUS
<1> QED BY <1>2, <1>3, <1>4 DEF Spares

\* A file has the same content if its chain stays.
LEMMA ContentKept ==
  ASSUME NEW d, d \in Disk, NEW d2, d2 \in Disk, NEW e, e \in Entry,
         e.first = Free \/ Spares(d, d2, e.first)
  PROVE  Content(d2, e) = Content(d, e)
<1>1. ASSUME NEW k \in Nat
      PROVE  /\ Nth(d2.fat, e.first, k) \in Cluster <=> Nth(d.fat, e.first, k) \in Cluster
             /\ Nth(d.fat, e.first, k) \in Cluster =>
                  d2.bytes[Nth(d2.fat, e.first, k)] = d.bytes[Nth(d.fat, e.first, k)]
  <2>1. CASE e.first = Free
    <3>1. d.fat \in [Cluster -> FatValue] /\ d2.fat \in [Cluster -> FatValue]
          /\ Free \in FatValue /\ Free \notin Cluster
      BY DiskParts, Numbers DEF FatValue
    <3>2. Nth(d.fat, Free, k) \notin Cluster /\ Nth(d2.fat, Free, k) \notin Cluster
      BY <3>1, NoChain
    <3> QED BY <2>1, <3>2
  <2>2. CASE Spares(d, d2, e.first)
    BY <2>2 DEF Spares, SameChain
  <2> QED BY <2>1, <2>2
<1>2. PICK s : s = e.size
  OBVIOUS
<1>3. s \in Nat
  BY <1>2 DEF Entry
<1>4. ASSUME NEW i \in 1 .. s
      PROVE  (LET c == Nth(d2.fat, e.first, (i - 1) \div ClusterBytes)
              IN  IF c \in Cluster THEN d2.bytes[c][(i - 1) % ClusterBytes] ELSE JunkByte) =
             (LET c == Nth(d.fat, e.first, (i - 1) \div ClusterBytes)
              IN  IF c \in Cluster THEN d.bytes[c][(i - 1) % ClusterBytes] ELSE JunkByte)
  <2>1. PICK k \in Nat : k = (i - 1) \div ClusterBytes
    <3>1. i - 1 \in Nat
      BY <1>3
    <3> QED BY <3>1, Numbers
  <2> QED BY <1>1, <2>1
<1> QED BY <1>2, <1>4 DEF Content

-----------------------------------------------------------------------------
(***************************************************************************)
(* What a change leaves as it was: the entries, and what paths lead to.    *)
(***************************************************************************)
\* No entry in use before this one has its name.
FirstOfName(d, c, i) ==
  \A j \in Nat : j < i /\ InUse(d, c, j) => ReadSlot(d, c, j).name # ReadSlot(d, c, i).name

\* The entries of D stay where they are and are found, but perhaps those of X.
SlotsKept(d, d2, D, X) ==
  \A c \in D : \A i \in Nat : InUse(d, c, i) /\ <<c, i>> \notin X =>
    /\ Dir(d2, c) /\ InUse(d2, c, i) /\ ReadSlot(d2, c, i) = ReadSlot(d, c, i)
    /\ Listed(d, c, i) => FirstOfName(d2, c, i)

\* A disk on which they are found, and the data of files but those of C.
Kept(d, d2, D, X, C) == SoundDisk(d2) /\ SlotsKept(d, d2, D, X) /\ Aside(d, d2, C)

\* One change after the other.
LEMMA KeptTwice ==
  ASSUME NEW d, NEW d1, NEW d2, NEW D, NEW X, NEW C, Kept(d, d1, D, X, C), Kept(d1, d2, D, X, C)
  PROVE  Kept(d, d2, D, X, C)
<1>1. SlotsKept(d, d2, D, X)
  <2> SUFFICES ASSUME NEW c \in D, NEW i \in Nat, InUse(d, c, i), <<c, i>> \notin X
               PROVE  /\ Dir(d2, c) /\ InUse(d2, c, i) /\ ReadSlot(d2, c, i) = ReadSlot(d, c, i)
                      /\ Listed(d, c, i) => FirstOfName(d2, c, i)
    BY DEF SlotsKept
  <2>1. InUse(d1, c, i) /\ ReadSlot(d1, c, i) = ReadSlot(d, c, i)
        /\ (Listed(d, c, i) <=> Listed(d1, c, i))
    BY DEF Kept, SlotsKept, Listed
  <2> QED BY <2>1 DEF Kept, SlotsKept
<1> QED BY <1>1, AsideTwice DEF Kept

\* fat12_find_entry finds an entry that is kept in its directory.
LEMMA LooksKept ==
  ASSUME NEW d, NEW d2, SoundDisk(d2), NEW D, NEW X, SlotsKept(d, d2, D, X), NEW c, c \in D, NEW i,
         NEW name, name \in Name, Holds(d, c, i, name), <<c, i>> \notin X
  PROVE  Lookup(d2, c, name) = i /\ ReadSlot(d2, c, i) = ReadSlot(d, c, i)
<1>0. i \in Nat /\ InUse(d, c, i) /\ Listed(d, c, i) /\ ReadSlot(d, c, i).name = name
  BY DEF Holds, Listed
<1>1. Dir(d2, c) /\ InUse(d2, c, i) /\ FirstOfName(d2, c, i) /\ ReadSlot(d2, c, i) = ReadSlot(d, c, i)
  BY <1>0 DEF SlotsKept
<1>2. name \notin {End, Missing, Deleted, ".", ".."}
  BY FatAssumption DEF Special
<1>3. ASSUME NEW j \in Nat, j < i PROVE ReadSlot(d2, c, j).name \notin {name, End, Missing}
  <2>1. j \in 0 .. i /\ \A k \in 0 .. j : k \in 0 .. i
    BY <1>0, <1>3
  <2>2. Seen(d2, c, j)
    BY <1>1, <2>1 DEF InUse, Seen
  <2>3. ReadSlot(d2, c, j).name \notin {End, Missing}
    BY <1>1, <2>1 DEF InUse, Seen
  <2>4. ReadSlot(d2, c, j).name = name => InUse(d2, c, j)
    BY <1>2, <2>2 DEF InUse
  <2> QED BY <1>0, <1>1, <1>3, <2>3, <2>4 DEF FirstOfName
<1>4. FirstWith(d2, c, {name, End}, i)
  BY <1>0, <1>1, <1>3 DEF FirstWith
<1>5. i = FirstSlot(d2, c, {name, End})
  BY <1>1, <1>4, FirstSlotIs
<1> QED BY <1>0, <1>1, <1>5 DEF Lookup

\* No entry that the path goes by is in X.
Avoids(d, path, X) ==
  \A n \in 1 .. Len(path) : \A c, i : Step(d, path, n, c, i) => <<c, i>> \notin X

\* A path that goes by entries that are kept leads where it led: fat12_find_entry finds the
\* same there.
LEMMA FindKept ==
  ASSUME NEW d, NEW D, IsTree(d, D), NEW d2, SoundDisk(d2), NEW X, SlotsKept(d, d2, D, X),
         NEW path, IsPath(path), Avoids(d, path, X), NEW c, NEW i, Step(d, path, Len(path), c, i)
  PROVE  Find(d2, path) = [dir |-> c, slot |-> i, entry |-> ReadSlot(d, c, i)]
<1> DEFINE m == Len(path) - 1
           Eq(v) == v = [k \in 0 .. Len(path) - 1 |-> IF k = 0 THEN 0 ELSE Enter(d2, v[k - 1], path[k])]
           at == CHOOSE v : Eq(v)
           old == [k \in 0 .. m |-> DirAt(d, path, k)]
<1>0. Len(path) \in Nat /\ m \in Nat /\ Len(path) \in 1 .. Len(path) /\ \A k \in 1 .. Len(path) : path[k] \in Name
  BY PathNames
<1>1. c \in D /\ i \in Nat /\ Holds(d, c, i, path[Len(path)]) /\ DirAt(d, path, m) = c /\ c # None
      /\ <<c, i>> \notin X
  BY <1>0, OneStep DEF Step, Avoids
<1>2. ASSUME NEW k \in 1 .. m PROVE DirAt(d, path, k) = Enter(d2, DirAt(d, path, k - 1), path[k])
  <2>0. k \in 1 .. Len(path) - 1 /\ k \in 1 .. Len(path)
    BY <1>0
  <2>1. PICK b \in D, j \in Nat : /\ Step(d, path, k, b, j) /\ ReadSlot(d, b, j).dir
                                  /\ ReadSlot(d, b, j).first = DirAt(d, path, k)
                                  /\ DirAt(d, path, k) # None
    BY <2>0, Ancestors
  <2>2. DirAt(d, path, k - 1) = b /\ b # None /\ Holds(d, b, j, path[k]) /\ <<b, j>> \notin X
    BY <2>0, <2>1 DEF Step, Avoids
  <2>3. Lookup(d2, b, path[k]) = j /\ ReadSlot(d2, b, j) = ReadSlot(d, b, j)
    BY <1>0, <2>0, <2>2, LooksKept
  <2>4. j # None
    BY DEF None
  <2>5. Enter(d2, b, path[k]) = ReadSlot(d, b, j).first
    BY <2>1, <2>2, <2>3, <2>4 DEF Enter, FindIn, Found
  <2> QED BY <2>1, <2>2, <2>5
<1>3. Eq(old)
  <2>1. DirAt(d, path, 0) = 0
    BY DirAtIs DEF IsPath
  <2>2. \A k \in 0 .. m : k # 0 => k \in 1 .. m /\ k - 1 \in 0 .. m /\ old[k - 1] = DirAt(d, path, k - 1)
    BY <1>0
  <2>3. old = [k \in 0 .. m |-> IF k = 0 THEN 0 ELSE Enter(d2, old[k - 1], path[k])]
    BY <1>2, <2>1, <2>2
  <2> QED BY <2>3
<1>4. Eq(at)
  <2> HIDE DEF Eq, old
  <2> QED BY <1>3
<1>5. Parent(d2, path) = at[m]
  BY DEF Parent
<1> HIDE DEF at
<1>6. at[0] = 0 /\ \A k \in 1 .. m : at[k] = Enter(d2, at[k - 1], path[k])
  BY <1>0, <1>4
<1>7. \A k \in Nat : k <= m => at[k] = DirAt(d, path, k)
  <2> DEFINE Y == {k \in Nat : k <= m => at[k] = DirAt(d, path, k)}
  <2>1. 0 \in Y
    <3>1. DirAt(d, path, 0) = 0
      BY DirAtIs DEF IsPath
    <3> QED BY <1>6, <3>1
  <2>2. ASSUME NEW k \in Nat, k \in Y PROVE k + 1 \in Y
    <3>1. CASE k + 1 <= m
      <4>1. k + 1 \in 1 .. m /\ (k + 1) - 1 = k /\ k <= m
        BY <1>0, <3>1
      <4>2. at[k + 1] = Enter(d2, at[k], path[k + 1])
        BY <1>6, <4>1
      <4>3. DirAt(d, path, k + 1) = Enter(d2, DirAt(d, path, k), path[k + 1])
        BY <1>2, <4>1
      <4>4. at[k] = DirAt(d, path, k)
        BY <2>2, <4>1
      <4>5. at[k + 1] = DirAt(d, path, k + 1)
        BY <4>2, <4>3, <4>4
      <4> QED BY <4>5
    <3>2. CASE ~(k + 1 <= m)
      BY <3>2
    <3> QED BY <3>1, <3>2
  <2> HIDE DEF Y
  <2>3. \A k \in Nat : k \in Y
    BY <2>1, <2>2, AllNumbers
  <2> QED BY <2>3 DEF Y
<1>8. Parent(d2, path) = c
  <2>1. m <= m
    BY <1>0
  <2> QED BY <1>0, <1>1, <1>5, <1>7, <2>1
<1>9. Last(path) = path[Len(path)]
  BY DEF Last
<1>10. Lookup(d2, c, path[Len(path)]) = i /\ ReadSlot(d2, c, i) = ReadSlot(d, c, i)
  BY <1>0, <1>1, LooksKept
<1>11. i # None
  BY <1>1 DEF None
<1> QED BY <1>1, <1>8, <1>9, <1>10, <1>11 DEF Find, FindIn, Found

\* What clients see of an entry.
Node(d, e) == [dir |-> e.dir, bytes |-> IF e.dir THEN <<>> ELSE Content(d, e)]

\* The tree that a disk stands for has the entries that paths lead to.
LEMMA TreeIs ==
  ASSUME NEW d, NEW D, IsTree(d, D), NEW path, path \in DOMAIN Tree(d)
  PROVE  /\ IsPath(path)
         /\ \E c \in D, i \in Nat :
              /\ Step(d, path, Len(path), c, i) /\ Listed(d, c, i) /\ Proper(d, D, ReadSlot(d, c, i))
              /\ Tree(d)[path] = Node(d, ReadSlot(d, c, i))
<1> DEFINE places == Places(d)
<1>1. /\ DOMAIN Tree(d) = {p.path : p \in places}
      /\ Tree(d)[path] = Node(d, EntryAt(d, CHOOSE p \in places : p.path = path))
  BY DEF Tree, Node
<1>2. PICK q : q = CHOOSE p \in places : p.path = path
  OBVIOUS
<1>3. q \in places /\ q.path = path
  BY <1>1, <1>2
<1>4. q \in Placed(d, D)
  BY <1>3, PlacesPlaced
<1>5. PICK c : c = q.dir
  OBVIOUS
<1>6. PICK i : i = q.slot
  OBVIOUS
<1>7. IsPath(path) /\ Step(d, path, Len(path), c, i)
  BY <1>3, <1>4, <1>5, <1>6 DEF Placed
<1>8. /\ c \in D /\ i \in Nat /\ Listed(d, c, i) /\ EntryAt(d, q) = ReadSlot(d, c, i)
      /\ Proper(d, D, ReadSlot(d, c, i))
  BY <1>4, <1>5, <1>6, PlacedEntry
<1> QED BY <1>1, <1>2, <1>7, <1>8

\* The file that a path leads to, if it is one, is none of C.
NoneOf(d, path, C) ==
  \A c, i : Step(d, path, Len(path), c, i) /\ ~ReadSlot(d, c, i).dir =>
    ReadSlot(d, c, i).first \notin C \/ ReadSlot(d, c, i).first = Free

\* A file or directory that is kept is found where it was, with what was in it.
LEMMA NodeKept ==
  ASSUME NEW d, NEW D, IsTree(d, D), NEW d2, NEW X, NEW C, Kept(d, d2, D, X, C),
         NEW path, path \in DOMAIN Tree(d), Avoids(d, path, X), NoneOf(d, path, C),
         NEW r, r = Find(d2, path)
  PROVE  r.slot # None /\ Node(d2, r.entry) = Tree(d)[path]
<1>1. IsPath(path)
  BY TreeIs
<1>2. PICK c \in D, i \in Nat :
        /\ Step(d, path, Len(path), c, i) /\ Listed(d, c, i) /\ Proper(d, D, ReadSlot(d, c, i))
        /\ Tree(d)[path] = Node(d, ReadSlot(d, c, i))
  BY TreeIs
<1>3. PICK e : e = ReadSlot(d, c, i)
  OBVIOUS
<1>4. SoundDisk(d2) /\ SlotsKept(d, d2, D, X) /\ Aside(d, d2, C)
  BY DEF Kept
<1>5. r = [dir |-> c, slot |-> i, entry |-> e]
  BY <1>1, <1>2, <1>3, <1>4, FindKept
<1>6. d \in Disk /\ d2 \in Disk /\ e \in Entry
  <2>1. d \in Disk /\ c \in DirCluster
    BY DirIs
  <2>2. InUse(d, c, i)
    BY <1>2 DEF Listed
  <2> QED BY <1>3, <1>4, <2>1, <2>2, InUseIs DEF SoundDisk
<1>7. ASSUME ~e.dir PROVE Content(d2, e) = Content(d, e)
  <2>1. e.first = Free \/ Spares(d, d2, e.first)
    BY <1>2, <1>3, <1>4, <1>7 DEF Proper, NoneOf, Aside
  <2> QED BY <1>6, <2>1, ContentKept
<1>8. Node(d2, e) = Node(d, e)
  BY <1>7 DEF Node
<1> QED BY <1>2, <1>3, <1>5, <1>8 DEF None

-----------------------------------------------------------------------------
(***************************************************************************)
(* Writes of directory entries leave the data of files alone.              *)
(***************************************************************************)
\* Zeroing a cluster touches no other one.
LEMMA BytesZeroed ==
  ASSUME NEW d, d \in Disk, NEW c, c \in Cluster, NEW zero, NEW d2, d2 = Zeroed(d, c, zero),
         NEW y, y \in Cluster, y # c
  PROVE  d2.bytes[y] = d.bytes[y]
<1>0. d = [fat |-> d.fat, slots |-> d.slots, bytes |-> d.bytes] /\ d.bytes \in ByteTable
  BY DiskParts
<1>1. CASE ~(zero /\ OnDisk(c))
  BY <1>1 DEF Zeroed
<1>2. CASE zero /\ OnDisk(c)
  <2>1. PICK blank : blank = [i \in Slots(c) |-> EndEntry]
    OBVIOUS
  <2>2. PICK zeros : zeros = [i \in 0 .. ClusterBytes - 1 |-> 0]
    OBVIOUS
  <2>3. d2 = [d EXCEPT !.slots[c] = blank, !.bytes[c] = zeros]
    BY <1>2, <2>1, <2>2 DEF Zeroed
  <2>4. d2.bytes = [d.bytes EXCEPT ![c] = zeros]
    BY <1>0, <2>3
  <2> QED BY <1>0, <2>4 DEF ByteTable
<1> QED BY <1>1, <1>2

\* Writing an entry to a cluster touches no other one.
LEMMA BytesWritten ==
  ASSUME NEW w, w \in Walk, NEW i, NEW e, NEW v, v = Written(w, i, e)
  PROVE  /\ v.disk.fat = w.disk.fat
         /\ \A y \in Cluster : y # w.at => v.disk.bytes[y] = w.disk.bytes[y]
         /\ ~(w.ok /\ OnDisk(w.at)) => ~v.ok /\ v.disk = w.disk
<1>1. CASE ~(w.ok /\ OnDisk(w.at))
  BY <1>1 DEF Written
<1>2. CASE w.ok /\ OnDisk(w.at)
  <2>0. PICK d : d = w.disk
    OBVIOUS
  <2>1. PICK at : at = w.at
    OBVIOUS
  <2>2. PICK n : n = i % ClusterSlots
    OBVIOUS
  <2>3. d = [fat |-> d.fat, slots |-> d.slots, bytes |-> d.bytes] /\ d.bytes \in ByteTable
    BY <2>0, DiskParts DEF Walk
  <2>4. v.disk = [d EXCEPT !.slots[at][n] = e, !.bytes[at] = [k \in DOMAIN @ |-> JunkByte]]
    BY <1>2, <2>0, <2>1, <2>2 DEF Written
  <2>5. PICK junk : junk = [k \in DOMAIN d.bytes[at] |-> JunkByte]
    OBVIOUS
  <2>6. v.disk.fat = d.fat /\ v.disk.bytes = [d.bytes EXCEPT ![at] = junk]
    BY <2>3, <2>4, <2>5
  <2> QED BY <1>2, <2>0, <2>1, <2>3, <2>6 DEF ByteTable
<1> QED BY <1>1, <1>2

\* A chain that gets longer leaves the other chains and the bytes of other clusters alone.
Grew(d, d2, h, j, new) ==
  /\ Longer(d, d2, h, j, new) /\ Aside(d, d2, {h})
  /\ \A y \in Cluster : y # new => d2.bytes[y] = d.bytes[y]

\* One cluster more, zeroed or not.
LEMMA GrownAside ==
  ASSUME NEW d, SoundDisk(d), NEW h, IsHead(d.fat, h), NEW j, j \in Nat, NEW at, at = Nth(d.fat, h, j),
         at \in Cluster, d.fat[at] \notin Cluster, NEW new, new = FreeCluster(d), new # None,
         NEW zero, zero \in BOOLEAN, NEW d2, d2 = Zeroed(Allocated(d, at), new, zero)
  PROVE  Grew(d, d2, h, j, new)
<1>0. d \in Disk
  BY DEF SoundDisk
<1>1. PICK d1 : d1 = Allocated(d, at)
  OBVIOUS
<1>2. /\ new \in Cluster /\ d.fat[new] = Free
      /\ d1 \in Disk /\ d1.bytes = d.bytes
      /\ \A c \in Cluster : c # new /\ c # at => d1.fat[c] = d.fat[c]
  BY <1>0, <1>1, AllocatedIs
<1>3. d2 = Zeroed(d1, new, zero)
  BY <1>1
<1>4. d2 \in Disk /\ d2.fat = d1.fat
  BY <1>2, <1>3, ZeroedIs
<1>5. \A y \in Cluster : y # new => d2.bytes[y] = d.bytes[y]
  BY <1>2, <1>3, BytesZeroed
<1>9. Longer(d, d2, h, j, new)
  BY Grown
<1>6. \A x : IsHead(d.fat, x) => IsHead(d2.fat, x)
  BY <1>9 DEF Longer, SameHeads
<1>7. \A y \in Cluster : d.fat[y] # Free /\ (\A k \in Nat : Nth(d.fat, h, k) # y) =>
                           d2.fat[y] = d.fat[y] /\ d2.bytes[y] = d.bytes[y]
  BY <1>2, <1>4, <1>5
<1>8. Dir(d, h)
  BY DEF Dir
<1>10. Aside(d, d2, {h})
  BY <1>4, <1>6, <1>7, <1>8, OnlyThere
<1> QED BY <1>5, <1>9, <1>10 DEF Grew

\* Writing an entry of a directory, which may make it longer.
LEMMA WriteAside ==
  ASSUME NEW d, SoundDisk(d), NEW c, Dir(d, c), NEW i, i \in Nat, NEW e, e \in Entry,
         i # 0 => ReadSlot(d, c, i - 1).name # Missing, NEW v, v = WriteSlot(d, c, i, e)
  PROVE  Aside(d, v.disk, {c})
<1> PICK d2 : d2 = v.disk
  OBVIOUS
<1>0. SoundDisk(d2) /\ d2 \in Disk /\ d \in Disk /\ \A x : IsHead(d.fat, x) => IsHead(d2.fat, x)
  <2>1. Wrote(d, d2, c, i, e, v.ok)
    BY WriteSlotIs
  <2> QED BY <2>1 DEF Wrote, Elsewhere, SameHeads, SoundDisk
<1>1. CASE c = 0
  <2>1. CASE i < RootEntries
    <3>1. d2 = [d EXCEPT !.slots = Put(d.slots, 0, Put(d.slots[0], i, e))]
      BY <1>1, <2>1 DEF WriteSlot, Put
    <3>2. d = [fat |-> d.fat, slots |-> d.slots, bytes |-> d.bytes]
      BY <1>0, DiskParts
    <3>3. d2.fat = d.fat /\ d2.bytes = d.bytes
      BY <3>1, <3>2
    <3> QED BY <1>0, <3>3, OnlyThere
  <2>2. CASE ~(i < RootEntries)
    <3>1. d2 = d
      BY <1>1, <2>2 DEF WriteSlot
    <3> QED BY <3>1 DEF Aside, Spares, SameChain
  <2> QED BY <2>1, <2>2
<1>2. CASE c # 0
  <2>0. IsHead(d.fat, c) /\ SoundFat(d.fat) /\ d.fat \in [Cluster -> FatValue] /\ c \in FatValue /\ c \in Cluster
        /\ c \in DirCluster
    BY <1>0, <1>2 DEF SoundDisk, Dir, IsHead, SoundFat, FatValue, DirCluster
  <2>k. PICK k \in Nat : k = i \div ClusterSlots
    BY SlotNumbers
  <2>w. PICK w : w = Reach(d, c, k, TRUE)
    OBVIOUS
  <2>v. v = Written(w, i, e)
    BY <1>2, <2>k, <2>w DEF WriteSlot
  <2>t. w \in Walk
    BY <1>0, <2>0, <2>w, ReachSteps
  <2>f. d2.fat = w.disk.fat
    BY <2>t, <2>v, BytesWritten
  <2>1. CASE Nth(d.fat, c, k) \in Cluster
    <3>1. w.disk = d /\ w.at = Nth(d.fat, c, k)
      <4>1. w = [disk |-> d, at |-> Nth(d.fat, c, k), ok |-> TRUE]
        BY <2>0, <2>1, <2>w, ReachWithin
      <4> QED BY <4>1
    <3>2. \A y \in Cluster : y # Nth(d.fat, c, k) => d2.bytes[y] = d.bytes[y]
      BY <2>t, <2>v, <3>1, BytesWritten
    <3> QED BY <1>0, <2>f, <3>1, <3>2, OnlyThere
  <2>2. CASE Nth(d.fat, c, k) \notin Cluster
    <3>1. k # 0
      BY <2>0, <2>2, NthSteps
    <3>2. i # 0
      BY <2>k, <3>1, Numbers
    <3>3. PICK p \in Nat : p = i - 1
      BY <3>2
    <3>4. PICK j \in Nat : j = p \div ClusterSlots
      BY SlotNumbers
    <3>5. OnDisk(Nth(d.fat, c, j))
      <4>1. ReadSlot(d, c, p) = IF OnDisk(Nth(d.fat, c, j))
                                THEN d.slots[Nth(d.fat, c, j)][p % ClusterSlots] ELSE Blank(Missing)
        BY <1>0, <1>2, <2>0, <3>4, Reading
      <4>2. ReadSlot(d, c, p).name # Missing
        BY <3>2, <3>3
      <4> QED BY <4>1, <4>2, Entries
    <3>6. j # k
      BY <2>2, <3>5 DEF OnDisk
    <3>7. k = j + 1 /\ i = ClusterSlots * (j + 1)
      BY <2>k, <3>2, <3>3, <3>4, <3>6, NextSlot
    <3>8. PICK at : at = Nth(d.fat, c, j)
      OBVIOUS
    <3>9. at \in Cluster
      BY <3>5, <3>8 DEF OnDisk
    <3>10. WentOn(d, at, w, TRUE)
      BY <2>0, <2>2, <2>w, <3>7, <3>8, <3>9, ReachOneMore
    <3>11. CASE FreeCluster(d) = None
      <4>1. ~w.ok /\ w.disk = d
        BY <3>10, <3>11 DEF WentOn
      <4>2. d2 = d
        <5>1. ~(w.ok /\ OnDisk(w.at))
          BY <4>1
        <5>2. v.disk = w.disk
          BY <2>t, <2>v, <5>1, BytesWritten
        <5> QED BY <4>1, <5>2
      <4> QED BY <4>2 DEF Aside, Spares, SameChain
    <3>12. CASE FreeCluster(d) # None
      <4>1. PICK new : new = FreeCluster(d)
        OBVIOUS
      <4>d. PICK d1 : d1 = w.disk
        OBVIOUS
      <4>z. PICK zero \in BOOLEAN : zero = TRUE
        OBVIOUS
      <4>2. w.at = new /\ d1 = Zeroed(Allocated(d, at), new, zero) /\ d.fat[at] \notin Cluster
        BY <3>10, <3>12, <4>1, <4>d, <4>z DEF WentOn
      <4>3. new \in Cluster /\ d.fat[new] = Free /\ new # None
        BY <3>12, <4>1, FreeClusterIs, Zenon
      <4>4. \A y \in Cluster : y # new => d1.bytes[y] = d.bytes[y]
        <5>1. IsHead(d.fat, c) /\ at \in Cluster /\ d.fat[at] \notin Cluster
          BY <2>0, <3>9, <4>2
        <5>2. Grew(d, d1, c, j, new)
          BY <3>8, <4>1, <4>2, <4>3, <5>1, GrownAside
        <5> QED BY <5>2 DEF Grew
      <4>5. \A y \in Cluster : y # new => d2.bytes[y] = d.bytes[y]
        <5>1. \A y \in Cluster : y # w.at => v.disk.bytes[y] = w.disk.bytes[y]
          BY <2>t, <2>v, BytesWritten
        <5> QED BY <4>d, <4>2, <4>4, <5>1
      <4>6. PICK d0 : d0 = Allocated(d, at)
        OBVIOUS
      <4>7. d0 \in Disk /\ \A y \in Cluster : y # new /\ y # at => d0.fat[y] = d.fat[y]
        BY <1>0, <3>9, <3>12, <4>1, <4>6, AllocatedIs
      <4>8. d1.fat = d0.fat
        <5>1. d1 = Zeroed(d0, new, zero)
          BY <4>2, <4>6
        <5>2. d0 \in Disk /\ new \in Cluster
          BY <4>3, <4>7
        <5>3. d1 \in Disk /\ d1.fat = d0.fat
          BY <5>1, <5>2, ZeroedIs
        <5> QED BY <5>3
      <4> QED BY <1>0, <2>f, <3>8, <4>d, <4>3, <4>5, <4>7, <4>8, OnlyThere
    <3> QED BY <3>11, <3>12
  <2> QED BY <2>1, <2>2
<1> QED BY <1>1, <1>2

-----------------------------------------------------------------------------
(***************************************************************************)
(* The writes of an entry, one by one.                                     *)
(***************************************************************************)
\* A disk between writes to directory c, whose entries before number i stay, as do those of
\* the others; files keep their data.
Behind(d, w, c, i) ==
  /\ SoundDisk(w) /\ \A h : Dir(d, h) => Dir(w, h)
  /\ \A h : Dir(d, h) /\ h # c => SameDir(d, w, h)
  /\ \A j \in Nat : j < i => ReadSlot(w, c, j) = ReadSlot(d, c, j)
  /\ Aside(d, w, {c})

Behinds(d, c, i) == {w \in Disk : Behind(d, w, c, i)}

\* One write after the other.
LEMMA BehindTwice ==
  ASSUME NEW d, NEW c, NEW i, i \in Nat, NEW d1, Behind(d, d1, c, i),
         NEW k, k \in Nat, i <= k, NEW d2, Behind(d1, d2, c, k)
  PROVE  Behind(d, d2, c, i)
<1>1. Aside(d, d2, {c})
  BY AsideTwice DEF Behind
<1>2. \A h : Dir(d, h) /\ h # c => SameDir(d, d2, h)
  BY DEF Behind, SameDir
<1>3. \A j \in Nat : j < i => j < k
  BY SMT
<1>4. \A j \in Nat : j < i => ReadSlot(d2, c, j) = ReadSlot(d, c, j)
  BY <1>3 DEF Behind
<1> QED BY <1>1, <1>2, <1>4 DEF Behind

\* The entry itself.
LEMMA WroteBehind ==
  ASSUME NEW d, SoundDisk(d), NEW c, Dir(d, c), NEW i, i \in Nat, NEW e, e \in Entry,
         i # 0 => ReadSlot(d, c, i - 1).name # Missing, NEW v, v = WriteSlot(d, c, i, e)
  PROVE  v.disk \in Behinds(d, c, i)
<1> PICK d2 : d2 = v.disk
  OBVIOUS
<1>1. Aside(d, d2, {c})
  BY WriteAside
<1>2. Wrote(d, d2, c, i, e, v.ok)
  BY WriteSlotIs
<1>3. SoundDisk(d2) /\ (\A h : Dir(d, h) => Dir(d2, h)) /\ \A h : Dir(d, h) /\ h # c => SameDir(d, d2, h)
  BY <1>2 DEF Wrote, Elsewhere, SameHeads, Dir
<1>4. ASSUME NEW j \in Nat, j < i PROVE ReadSlot(d2, c, j) = ReadSlot(d, c, j)
  <2>1. j # i
    BY <1>4
  <2> QED BY <1>2, <1>4, <2>1 DEF Wrote, SameDir
<1> QED BY <1>1, <1>3, <1>4 DEF Behinds, Behind, SoundDisk

\* The new cluster is marked.
LEMMA MarkedBehind ==
  ASSUME NEW d, SoundDisk(d), NEW c, Dir(d, c), NEW i, i \in Nat, FreeCluster(d) # None
  PROVE  Allocated(d, Free) \in Behinds(d, c, i)
<1>1. PICK new : new = FreeCluster(d)
  OBVIOUS
<1>2. PICK d2 : d2 = Allocated(d, Free)
  OBVIOUS
<1>3. Marks(d, d2, new)
  BY <1>1, <1>2, NewChain
<1>4. d \in Disk /\ new \in Cluster /\ new # None /\ Free \notin Cluster
  BY <1>1, <1>3, Numbers DEF Marks, SoundDisk
<1>5. d2 \in Disk /\ d2.bytes = d.bytes /\ d.fat[new] = Free
      /\ \A y \in Cluster : y # new => d2.fat[y] = d.fat[y]
  BY <1>1, <1>2, <1>4, AllocatedIs
<1>6. Aside(d, d2, {c})
  BY <1>3, <1>5, OnlyThere DEF Marks
<1>7. SoundDisk(d2) /\ (\A h : Dir(d, h) => Dir(d2, h)) /\ \A h : Dir(d, h) => SameDir(d, d2, h)
  BY <1>3 DEF Marks, Dir
<1>8. \A j \in Nat : ReadSlot(d2, c, j) = ReadSlot(d, c, j)
  BY <1>7 DEF SameDir
<1> QED BY <1>2, <1>5, <1>6, <1>7, <1>8 DEF Behinds, Behind

\* The new cluster is linked, and zeroed.
LEMMA LongerBehind ==
  ASSUME NEW d, SoundDisk(d), NEW c, IsHead(d.fat, c), NEW j, j \in Nat, NEW i, i = ClusterSlots * (j + 1),
         NEW new, NEW d2, Grew(d, d2, c, j, new)
  PROVE  d2 \in Behinds(d, c, i)
<1>0. Longer(d, d2, c, j, new) /\ Aside(d, d2, {c}) /\ c \in Cluster /\ c \in DirCluster /\ c # 0
      /\ SoundFat(d.fat) /\ d \in Disk
  BY Numbers DEF Grew, IsHead, DirCluster, SoundDisk
<1>1. Elsewhere(d, d2, c)
  BY <1>0, LongerIs
<1>2. /\ \A k \in 0 .. j : Nth(d2.fat, c, k) = Nth(d.fat, c, k)
      /\ d.fat[new] = Free
      /\ \A h \in DirCluster : h # new => d2.slots[h] = d.slots[h]
  BY <1>0 DEF Longer
<1>3. SoundDisk(d2) /\ d2 \in Disk /\ (\A h : Dir(d, h) => Dir(d2, h))
      /\ \A h : Dir(d, h) /\ h # c => SameDir(d, d2, h)
  BY <1>1 DEF Elsewhere, SameHeads, Dir, SoundDisk
<1>4. ASSUME NEW k \in Nat, k < i PROVE ReadSlot(d2, c, k) = ReadSlot(d, c, k)
  <2>l. PICK l \in Nat : l = k \div ClusterSlots
    BY SlotNumbers
  <2>m. PICK m \in 0 .. ClusterSlots - 1 : m = k % ClusterSlots
    BY SlotNumbers
  <2>b. PICK b : b = Nth(d.fat, c, l)
    OBVIOUS
  <2>1. l \in 0 .. j
    <3>1. PICK n \in Nat : n = ClusterSlots
      BY Numbers
    <3>2. k = n * l + m /\ n > 0 /\ m \in 0 .. n - 1
      BY <2>l, <2>m, <3>1, Numbers, SlotNumbers
    <3>3. k < n * (j + 1)
      BY <1>4, <3>1
    <3>4. SUFFICES ASSUME l >= j + 1 PROVE FALSE
      OBVIOUS
    <3>5. n * l >= n * (j + 1)
      BY <3>2, <3>4
    <3> QED BY <3>2, <3>3, <3>5
  <2>2. Nth(d2.fat, c, l) = b
    BY <1>2, <2>b, <2>1
  <2>3. /\ ReadSlot(d, c, k) = IF OnDisk(b) THEN d.slots[b][m] ELSE Blank(Missing)
        /\ ReadSlot(d2, c, k) = IF OnDisk(b) THEN d2.slots[b][m] ELSE Blank(Missing)
    BY <1>0, <1>3, <2>2, <2>l, <2>m, <2>b, Reading
  <2>4. OnDisk(b) => b # new
    <3>1. d.fat[c] # Free /\ l \in 0 .. l
      BY DEF IsHead
    <3>2. b \in Cluster => d.fat[Nth(d.fat, c, l)] # Free
      BY <1>0, <2>b, <3>1, NthBefore
    <3> QED BY <1>2, <2>b, <3>2 DEF OnDisk
  <2>5. OnDisk(b) => d2.slots[b] = d.slots[b]
    BY <1>2, <2>4 DEF OnDisk, DirCluster
  <2> QED BY <2>3, <2>5
<1> QED BY <1>0, <1>3, <1>4 DEF Behinds, Behind

-----------------------------------------------------------------------------
(***************************************************************************)
(* Sequences of writes.                                                    *)
(***************************************************************************)
\* The last disk, or the one before the writes.
LEMMA AfterIs ==
  ASSUME NEW S, NEW s, s \in Seq(S), NEW d
  PROVE  /\ s = <<>> => After(d, s) = d
         /\ s # <<>> => After(d, s) = Last(s) /\ Last(s) \in S /\ Len(s) >= 1
<1>1. s # <<>> => Len(s) \in Nat /\ Len(s) >= 1 /\ s[Len(s)] \in S
  OBVIOUS
<1> QED BY <1>1 DEF After, Last

\* The disk after one write.
LEMMA AfterOne ==
  ASSUME NEW S, NEW w, w \in S, NEW d
  PROVE  <<w>> \in Seq(S) /\ <<w>> # <<>> /\ After(d, <<w>>) = w
<1>1. <<w>> \in Seq(S) /\ <<w>> # <<>> /\ Len(<<w>>) = 1 /\ <<w>>[1] = w
  OBVIOUS
<1> QED BY <1>1 DEF After, Last

\* Some writes after others.
LEMMA AfterJoin ==
  ASSUME NEW S, NEW s, s \in Seq(S), NEW t, t \in Seq(S), NEW d
  PROVE  /\ s \o t \in Seq(S) /\ After(d, s \o t) = After(After(d, s), t)
         /\ s # <<>> \/ t # <<>> => s \o t # <<>>
<1>1. s \o t \in Seq(S) /\ Len(s \o t) = Len(s) + Len(t) /\ Len(s) \in Nat /\ Len(t) \in Nat
  OBVIOUS
<1>2. /\ s = <<>> <=> Len(s) = 0
      /\ t = <<>> <=> Len(t) = 0
      /\ s \o t = <<>> <=> Len(s \o t) = 0
  BY <1>1
<1>3. CASE t = <<>>
  <2>1. s \o t = s
    BY <1>3
  <2> QED BY <1>1, <1>2, <1>3, <2>1 DEF After
<1>4. CASE t # <<>>
  <2>1. Last(s \o t) = Last(t)
    BY <1>1, <1>2, <1>4 DEF Last
  <2>2. s \o t # <<>>
    BY <1>1, <1>2, <1>4
  <2> QED BY <1>1, <1>4, <2>1, <2>2 DEF After
<1> QED BY <1>3, <1>4

\* What a power loss may find: a disk between the writes, but for the last one.
LEMMA Between ==
  ASSUME NEW S, NEW s, s \in Seq(S), NEW d, d \in S
  PROVE  Range(Front(<<d>> \o s)) \subseteq S
<1>1. PICK t : t = <<d>> \o s
  OBVIOUS
<1>2. t \in Seq(S) /\ Len(t) = Len(s) + 1 /\ Len(s) \in Nat
  BY <1>1
<1>3. PICK u : u = Front(t)
  OBVIOUS
<1>4. u = SubSeq(t, 1, Len(s))
  BY <1>2, <1>3 DEF Front
<1>5. u \in Seq(S)
  BY <1>2, <1>4
<1>6. \A x \in DOMAIN u : u[x] \in S
  BY <1>5
<1> QED BY <1>1, <1>3, <1>6 DEF Range

\* The last write leaves what the power loss does not find.
LEMMA BetweenButLast ==
  ASSUME NEW S, NEW s, s \in Seq(S), NEW d, d \in S, NEW w
  PROVE  Range(Front(<<d>> \o Append(s, w))) \subseteq S
<1>1. PICK T : T = S \cup {w}
  OBVIOUS
<1>2. s \in Seq(T) /\ Append(s, w) \in Seq(T) /\ d \in T /\ w \in T
  BY <1>1
<1>3. PICK t : t = <<d>> \o Append(s, w)
  OBVIOUS
<1>4. /\ t \in Seq(T) /\ Len(t) = Len(s) + 2 /\ Len(s) \in Nat
      /\ \A x \in 1 .. Len(s) + 1 : t[x] = IF x = 1 THEN d ELSE s[x - 1]
  BY <1>2, <1>3
<1>5. PICK u : u = Front(t)
  OBVIOUS
<1>6. u = SubSeq(t, 1, Len(s) + 1)
  BY <1>4, <1>5 DEF Front
<1>7. DOMAIN u = 1 .. Len(s) + 1 /\ \A x \in 1 .. Len(s) + 1 : u[x] = t[x]
  BY <1>4, <1>6
<1>8. \A x \in 1 .. Len(s) + 1 : x # 1 => x - 1 \in 1 .. Len(s) /\ s[x - 1] \in S
  BY <1>4
<1>9. \A x \in DOMAIN u : u[x] \in S
  BY <1>4, <1>7, <1>8
<1> QED BY <1>3, <1>5, <1>9 DEF Range

\* A larger set of disks.
LEMMA SeqLarger ==
  ASSUME NEW S, NEW T, S \subseteq T, NEW s, s \in Seq(S)
  PROVE  s \in Seq(T)
OBVIOUS

-----------------------------------------------------------------------------
(***************************************************************************)
(* fat12_write_dir_entry and fat12_create_entry, write by write.           *)
(***************************************************************************)
\* The writes end on the disk that the whole call makes, and stay behind slot i until then.
Makes(d, c, i, s, d2) == s \in Seq(Behinds(d, c, i)) /\ After(d, s) = d2

\* Writes to a directory that does not get longer.
LEMMA SlotInPlace ==
  ASSUME NEW d, SoundDisk(d), NEW c, Dir(d, c), NEW i, i \in Nat, NEW e, e \in Entry,
         i # 0 => ReadSlot(d, c, i - 1).name # Missing, NEW v, v = WriteSlot(d, c, i, e),
         c = 0 \/ Nth(d.fat, c, i \div ClusterSlots) \in Cluster
  PROVE  /\ Makes(d, c, i, SlotWrites(d, c, i, e), v.disk)
         /\ SlotWrites(d, c, i, e) = IF v.ok THEN <<v.disk>> ELSE <<>>
<1>1. SlotWrites(d, c, i, e) = <<>> \o IF v.ok THEN <<v.disk>> ELSE <<>>
  BY DEF SlotWrites, SlotSteps
<1>2. v.disk \in Behinds(d, c, i)
  BY WroteBehind
<1>3. CASE v.ok
  <2>1. SlotWrites(d, c, i, e) = <<v.disk>>
    BY <1>1, <1>3
  <2> QED BY <1>2, <1>3, <2>1, AfterOne DEF Makes
<1>4. CASE ~v.ok
  <2>1. SlotWrites(d, c, i, e) = <<>>
    BY <1>1, <1>4
  <2>2. v.disk = d
    <3>0. d \in Disk /\ SoundFat(d.fat)
      BY DEF SoundDisk
    <3>1. CASE c = 0
      <4>1. v = IF i < RootEntries THEN [ok |-> TRUE, disk |-> [d EXCEPT !.slots[0][i] = e]]
                ELSE [ok |-> FALSE, disk |-> d]
        BY <3>1 DEF WriteSlot
      <4>2. ~(i < RootEntries)
        BY <1>4, <4>1
      <4>3. v = [ok |-> FALSE, disk |-> d]
        BY <4>1, <4>2
      <4> QED BY <4>3
    <3>2. CASE c # 0
      <4>1. IsHead(d.fat, c) /\ c \in Cluster
        BY <3>2 DEF Dir, IsHead
      <4>2. PICK k \in Nat : k = i \div ClusterSlots
        BY SlotNumbers
      <4>3. PICK w : w = Reach(d, c, k, TRUE)
        OBVIOUS
      <4>4. w = [disk |-> d, at |-> Nth(d.fat, c, k), ok |-> TRUE] /\ Nth(d.fat, c, k) \in Cluster
        BY <3>2, <4>1, <4>2, <4>3, ReachWithin
      <4>5. w \in Walk /\ w.disk = d
        BY <3>0, <4>4 DEF Walk
      <4>6. v = Written(w, i, e)
        BY <3>2, <4>2, <4>3 DEF WriteSlot
      <4>7. ~(w.ok /\ OnDisk(w.at)) => v.disk = w.disk
        BY <4>6 DEF Written
      <4>8. w.ok /\ OnDisk(w.at) => v.ok
        BY <4>6 DEF Written
      <4> QED BY <1>4, <4>5, <4>7, <4>8
    <3> QED BY <3>1, <3>2
  <2>3. <<>> \in Seq(Behinds(d, c, i)) /\ After(d, <<>>) = d
    BY DEF After
  <2> QED BY <1>4, <2>1, <2>2, <2>3 DEF Makes
<1> QED BY <1>3, <1>4

\* Writes that make the directory longer.
LEMMA SlotBehind ==
  ASSUME NEW d, SoundDisk(d), NEW c, IsHead(d.fat, c), NEW j, j \in Nat, NEW i, i = ClusterSlots * (j + 1),
         NEW at, at = Nth(d.fat, c, j), at \in Cluster, Nth(d.fat, c, j + 1) \notin Cluster,
         i \in Nat, i \div ClusterSlots = j + 1, i # 0 => ReadSlot(d, c, i - 1).name # Missing,
         NEW e, e \in Entry, NEW v, v = WriteSlot(d, c, i, e)
  PROVE  Makes(d, c, i, SlotWrites(d, c, i, e), v.disk)
<1>0. d \in Disk /\ SoundFat(d.fat) /\ c \in Cluster /\ c # 0 /\ Dir(d, c)
  BY Numbers DEF SoundDisk, IsHead, Dir
<1>1. PICK w : w = Reach(d, c, j + 1, TRUE)
  OBVIOUS
<1>2. v = Written(w, i, e) /\ w \in Walk
  <2>1. j + 1 \in Nat
    OBVIOUS
  <2> QED BY <1>0, <1>1, <2>1, ReachSteps DEF WriteSlot
<1>3. WentOn(d, at, w, TRUE)
  BY <1>1, ReachOneMore
<1>4. PICK grown : grown = AllocateWrites(d, at) \o <<w.disk>>
  OBVIOUS
<1>5. SlotWrites(d, c, i, e) = grown \o IF v.ok THEN <<v.disk>> ELSE <<>>
  <2>1. (j + 1) - 1 = j
    OBVIOUS
  <2> QED BY <1>0, <1>1, <1>4, <2>1 DEF SlotWrites, SlotSteps
<1>6. v.disk \in Behinds(d, c, i)
  BY <1>0, WroteBehind
<1> DEFINE S == Behinds(d, c, i)
<1> HIDE DEF S
<1>7. grown \in Seq(S) /\ After(d, grown) = w.disk /\ grown # <<>>
  <2>1. CASE FreeCluster(d) = None
    <3>1. ~w.ok /\ w.disk = d
      BY <1>3, <2>1 DEF WentOn
    <3>2. v.disk = d
      BY <1>2, <3>1 DEF Written
    <3>3. \A y \in Cluster : d.fat[y] # Free
      BY <2>1, FreeClusterIs, Numbers
    <3>4. AllocateWrites(d, at) = <<>>
      BY <3>3 DEF AllocateWrites
    <3>5. grown = <<d>>
      BY <1>4, <3>1, <3>4
    <3> QED BY <1>6, <3>1, <3>2, <3>5, AfterOne DEF S
  <2>2. CASE FreeCluster(d) # None
    <3>1. PICK new : new = FreeCluster(d)
      OBVIOUS
    <3>2. PICK d0 : d0 = Allocated(d, Free)
      OBVIOUS
    <3>3. PICK d1 : d1 = Allocated(d, at)
      OBVIOUS
    <3>4. PICK d2 : d2 = w.disk
      OBVIOUS
    <3>5. new \in Cluster /\ d.fat[new] = Free /\ new # None
      BY <2>2, <3>1, FreeClusterIs, Zenon
    <3>6. AllocateWrites(d, at) = <<d0, d1>>
      BY <3>2, <3>3, <3>5 DEF AllocateWrites
    <3>7. d0 \in S
      BY <1>0, <2>2, <3>2, MarkedBehind DEF S
    <3>8. d.fat[at] \notin Cluster /\ d2 = Zeroed(d1, new, TRUE)
      BY <1>3, <2>2, <3>1, <3>3, <3>4 DEF WentOn
    <3>9. d1 \in S
      <4>1. PICK zero \in BOOLEAN : zero = FALSE
        OBVIOUS
      <4>2. d1 = Zeroed(Allocated(d, at), new, zero)
        BY <3>3, <4>1 DEF Zeroed
      <4>3. Grew(d, d1, c, j, new)
        BY <3>1, <3>5, <3>8, <4>2, GrownAside
      <4> QED BY <4>3, LongerBehind DEF S
    <3>10. d2 \in S
      <4>1. PICK zero \in BOOLEAN : zero = TRUE
        OBVIOUS
      <4>2. d2 = Zeroed(Allocated(d, at), new, zero)
        BY <3>3, <3>8, <4>1
      <4>3. Grew(d, d2, c, j, new)
        BY <3>1, <3>5, <3>8, <4>2, GrownAside
      <4> QED BY <4>3, LongerBehind DEF S
    <3>11. grown = <<d0, d1>> \o <<d2>> /\ <<d0, d1>> \in Seq(S)
      BY <1>4, <3>4, <3>6, <3>7, <3>9
    <3>12. <<d2>> \in Seq(S) /\ <<d2>> # <<>> /\ \A x : After(x, <<d2>>) = d2
      BY <3>10, AfterOne
    <3>13. PICK s : s = <<d0, d1>>
      OBVIOUS
    <3>14. PICK t : t = <<d2>>
      OBVIOUS
    <3>15. grown = s \o t /\ s \in Seq(S) /\ t \in Seq(S) /\ t # <<>> /\ \A x : After(x, t) = d2
      BY <3>11, <3>12, <3>13, <3>14
    <3>16. grown \in Seq(S) /\ After(d, grown) = After(After(d, s), t) /\ grown # <<>>
      BY <3>15, AfterJoin
    <3> QED BY <3>4, <3>15, <3>16
  <2> QED BY <2>1, <2>2
<1>8. CASE v.ok
  <2>1. SlotWrites(d, c, i, e) = grown \o <<v.disk>>
    BY <1>5, <1>8
  <2>2. <<v.disk>> \in Seq(S) /\ \A x : After(x, <<v.disk>>) = v.disk
    BY <1>6, AfterOne DEF S
  <2>3. PICK t : t = <<v.disk>>
    OBVIOUS
  <2>4. t \in Seq(S) /\ \A x : After(x, t) = v.disk
    BY <2>2, <2>3
  <2>5. grown \o t \in Seq(S) /\ After(d, grown \o t) = After(After(d, grown), t)
    BY <1>7, <2>4, AfterJoin
  <2> QED BY <2>1, <2>3, <2>4, <2>5 DEF Makes, S
<1>9. CASE ~v.ok
  <2>1. SlotWrites(d, c, i, e) = grown
    BY <1>5, <1>7, <1>9
  <2>2. v.disk = w.disk
    BY <1>2, <1>9 DEF Written
  <2> QED BY <1>7, <2>1, <2>2 DEF Makes, S
<1> QED BY <1>8, <1>9

\* The writes of an entry.
LEMMA SlotWritesIs ==
  ASSUME NEW d, SoundDisk(d), NEW c, Dir(d, c), NEW i, i \in Nat, NEW e, e \in Entry,
         i # 0 => ReadSlot(d, c, i - 1).name # Missing, NEW v, v = WriteSlot(d, c, i, e)
  PROVE  /\ Makes(d, c, i, SlotWrites(d, c, i, e), v.disk)
         /\ ReadSlot(d, c, i).name # Missing => SlotWrites(d, c, i, e) = <<v.disk>> /\ v.ok
<1>k. PICK k \in Nat : k = i \div ClusterSlots
  BY SlotNumbers
<1>0. d \in Disk /\ c \in DirCluster /\ (c # 0 => IsHead(d.fat, c) /\ c \in Cluster)
      /\ SoundFat(d.fat) /\ d.fat \in [Cluster -> FatValue]
  BY DEF SoundDisk, Dir, IsHead, DirCluster, SoundFat
<1>1. CASE c = 0 \/ Nth(d.fat, c, k) \in Cluster
  <2>1. /\ Makes(d, c, i, SlotWrites(d, c, i, e), v.disk)
        /\ SlotWrites(d, c, i, e) = IF v.ok THEN <<v.disk>> ELSE <<>>
    BY <1>k, <1>1, SlotInPlace
  <2>2. ReadSlot(d, c, i).name # Missing => v.ok
    BY WriteSlotIs DEF Wrote
  <2> QED BY <2>1, <2>2
<1>2. CASE c # 0 /\ Nth(d.fat, c, k) \notin Cluster
  <2>1. k # 0
    <3>1. c \in FatValue
      BY <1>0, <1>2 DEF FatValue
    <3> QED BY <1>0, <1>2, <3>1, NthSteps
  <2>2. i # 0
    BY <1>k, <2>1, Numbers
  <2>3. PICK p \in Nat : p = i - 1
    BY <2>2
  <2>4. PICK j \in Nat : j = p \div ClusterSlots
    BY SlotNumbers
  <2>5. OnDisk(Nth(d.fat, c, j))
    <3>1. ReadSlot(d, c, p) = IF OnDisk(Nth(d.fat, c, j))
                              THEN d.slots[Nth(d.fat, c, j)][p % ClusterSlots] ELSE Blank(Missing)
      BY <1>0, <1>2, <2>4, Reading
    <3>2. ReadSlot(d, c, p).name # Missing
      BY <2>2, <2>3
    <3> QED BY <3>1, <3>2, Entries
  <2>6. j # k
    BY <1>2, <2>5 DEF OnDisk
  <2>7. k = j + 1 /\ i = ClusterSlots * (j + 1)
    BY <1>k, <2>2, <2>3, <2>4, <2>6, NextSlot
  <2>8. PICK at : at = Nth(d.fat, c, j)
    OBVIOUS
  <2>9. at \in Cluster /\ Nth(d.fat, c, j + 1) \notin Cluster
    BY <1>2, <2>5, <2>7, <2>8 DEF OnDisk
  <2>10. Makes(d, c, i, SlotWrites(d, c, i, e), v.disk)
    BY <1>k, <1>0, <1>2, <2>7, <2>8, <2>9, SlotBehind
  <2>11. ReadSlot(d, c, i).name = Missing
    <3>1. ~OnDisk(Nth(d.fat, c, k))
      BY <1>2 DEF OnDisk
    <3> QED BY <1>0, <1>2, <1>k, <3>1, Reading, Entries
  <2> QED BY <2>10, <2>11
<1> QED BY <1>1, <1>2

\* The writes of a new entry end on the disk that fat12_create_entry makes.
LEMMA CreateMakes ==
  ASSUME NEW d, SoundDisk(d), NEW c, Dir(d, c), NEW e, e \in Entry, e.name \notin {End, Deleted},
         NEW i, i = FirstSlot(d, c, {End, Deleted})
  PROVE  /\ i \in Nat /\ ReadSlot(d, c, i).name \in {End, Deleted, Missing}
         /\ \A j \in Nat : j < i => ReadSlot(d, c, j).name \notin {End, Deleted, Missing}
         /\ Makes(d, c, i, CreateWrites(d, c, e), Create(d, c, e).disk)
         /\ ReadSlot(d, c, i).name = Deleted =>
              CreateWrites(d, c, e) = <<WriteSlot(d, c, i, e).disk>>
         /\ Create(d, c, e).ok = WriteSlot(d, c, i, e).ok
<1>1. /\ i \in Nat /\ ReadSlot(d, c, i).name \in {End, Deleted, Missing}
      /\ \A j \in Nat : j < i => ReadSlot(d, c, j).name \notin {End, Deleted, Missing}
  <2>1. FirstWith(d, c, {End, Deleted}, i)
    BY FirstSlotIs
  <2> QED BY <2>1 DEF FirstWith
<1>2. i # 0 => ReadSlot(d, c, i - 1).name # Missing
  <2>1. i # 0 => i - 1 \in Nat /\ i - 1 < i
    BY <1>1
  <2> QED BY <1>1, <2>1
<1>3. PICK v : v = WriteSlot(d, c, i, e)
  OBVIOUS
<1>4. PICK s : s = SlotWrites(d, c, i, e)
  OBVIOUS
<1>5. Makes(d, c, i, s, v.disk) /\ (ReadSlot(d, c, i).name # Missing => s = <<v.disk>> /\ v.ok)
  BY <1>1, <1>2, <1>3, <1>4, SlotWritesIs
<1>6. PICK d1 : d1 = v.disk
  OBVIOUS
<1>7. PICK x : x = WriteSlot(d1, c, i + 1, EndEntry)
  OBVIOUS
<1>8. PICK t : t = SlotWrites(d1, c, i + 1, EndEntry)
  OBVIOUS
<1>9. /\ Create(d, c, e).ok = v.ok
      /\ Create(d, c, e).disk = IF v.ok /\ ReadSlot(d, c, i).name = End THEN x.disk ELSE d1
  BY <1>3, <1>6, <1>7 DEF Create
<1>10. CreateWrites(d, c, e) =
         IF ReadSlot(d, c, i).name = End /\ ReadSlot(d1, c, i) = e THEN s \o t ELSE s
  BY <1>4, <1>5, <1>6, <1>8 DEF CreateWrites, CreateSteps, Makes
<1>11. CASE ReadSlot(d, c, i).name # End
  <2>1. CreateWrites(d, c, e) = s /\ Create(d, c, e).disk = d1
    BY <1>9, <1>10, <1>11
  <2> QED BY <1>1, <1>3, <1>5, <1>6, <1>9, <2>1 DEF Deleted, Missing
<1>12. CASE ReadSlot(d, c, i).name = End
  <2>1. v.ok /\ End # Missing /\ End # Deleted
    BY <1>5, <1>12 DEF End, Missing, Deleted
  <2>2. Wrote(d, d1, c, i, e, v.ok)
    BY <1>1, <1>2, <1>3, <1>6, WriteSlotIs
  <2>3. ReadSlot(d1, c, i) = e /\ SoundDisk(d1) /\ Dir(d1, c)
    BY <2>1, <2>2 DEF Wrote, Elsewhere, Dir, SameHeads
  <2>4. Makes(d1, c, i + 1, t, x.disk)
    <3>1. i + 1 \in Nat /\ (i + 1) - 1 = i /\ ReadSlot(d1, c, (i + 1) - 1).name # Missing
      BY <1>1, <2>3, Entries
    <3>2. EndEntry \in Entry
      BY Entries
    <3> QED BY <1>7, <1>8, <2>3, <3>1, <3>2, SlotWritesIs
  <2>5. d1 \in Behinds(d, c, i)
    BY <1>1, <1>2, <1>3, <1>6, WroteBehind
  <2>6. Behinds(d1, c, i + 1) \subseteq Behinds(d, c, i)
    <3>1. i + 1 \in Nat /\ i <= i + 1
      BY <1>1
    <3> QED BY <1>1, <2>5, <3>1, BehindTwice DEF Behinds
  <2>7. s \in Seq(Behinds(d, c, i)) /\ t \in Seq(Behinds(d, c, i)) /\ After(d, s) = d1 /\ After(d1, t) = x.disk
    <3>1. s \in Seq(Behinds(d, c, i)) /\ After(d, s) = d1
      BY <1>5, <1>6 DEF Makes
    <3>2. t \in Seq(Behinds(d1, c, i + 1)) /\ After(d1, t) = x.disk
      BY <2>4 DEF Makes
    <3> QED BY <2>6, <3>1, <3>2, SeqLarger
  <2>8. s \o t \in Seq(Behinds(d, c, i)) /\ After(d, s \o t) = x.disk
    BY <2>7, AfterJoin
  <2>9. CreateWrites(d, c, e) = s \o t /\ Create(d, c, e).disk = x.disk
    BY <1>9, <1>10, <1>12, <2>1, <2>3
  <2>10. Makes(d, c, i, CreateWrites(d, c, e), Create(d, c, e).disk)
    BY <2>8, <2>9 DEF Makes
  <2>11. ReadSlot(d, c, i).name # Deleted /\ Create(d, c, e).ok = WriteSlot(d, c, i, e).ok
    BY <1>3, <1>9, <1>12, <2>1
  <2> QED BY <1>1, <2>10, <2>11
<1> QED BY <1>11, <1>12

-----------------------------------------------------------------------------
(***************************************************************************)
(* The tree between the writes of a call.                                  *)
(***************************************************************************)
\* The disks that keep entries and data.
Keeping(d, D, X, C) == {w \in Disk : Kept(d, w, D, X, C)}

\* Fewer directories, or more exceptions.
LEMMA KeptWider ==
  ASSUME NEW d, NEW w, NEW D, NEW X, NEW C, Kept(d, w, D, X, C),
         NEW D2, D2 \subseteq D, NEW X2, X \subseteq X2, NEW C2, C \subseteq C2
  PROVE  Kept(d, w, D2, X2, C2)
<1>1. SlotsKept(d, w, D2, X2)
  BY DEF Kept, SlotsKept
<1>2. Aside(d, w, C2)
  BY DEF Kept, Aside
<1> QED BY <1>1, <1>2 DEF Kept

\* In a tree, every name is found where it is.
LEMMA NamesFirst ==
  ASSUME NEW d, NEW D, IsTree(d, D), NEW c, c \in D, NEW i, i \in Nat, Listed(d, c, i)
  PROVE  FirstOfName(d, c, i)
<1> SUFFICES ASSUME NEW j \in Nat, j < i, InUse(d, c, j) PROVE ReadSlot(d, c, j).name # ReadSlot(d, c, i).name
  BY DEF FirstOfName
<1>1. CASE Listed(d, c, j)
  <2>1. j # i
    OBVIOUS
  <2> QED BY <1>1, <2>1 DEF IsTree, AllApart, Apart
<1>2. CASE ~Listed(d, c, j)
  BY <1>2 DEF Listed
<1> QED BY <1>1, <1>2

\* Doing nothing keeps everything.
LEMMA KeptSelf ==
  ASSUME NEW d, NEW D, IsTree(d, D)
  PROVE  Kept(d, d, D, {}, {})
<1>1. SoundDisk(d) /\ \A c \in D : Dir(d, c)
  BY DEF IsTree, Directories
<1>2. SlotsKept(d, d, D, {})
  BY <1>1, NamesFirst DEF SlotsKept
<1>3. Aside(d, d, {})
  BY DEF Aside, Spares, SameChain
<1> QED BY <1>1, <1>2, <1>3 DEF Kept

\* The same slot is in use for all that the slots up to it say.
LEMMA InUseSame ==
  ASSUME NEW d, NEW w, NEW c, NEW i, i \in Nat, InUse(d, c, i),
         \A j \in Nat : j <= i => ReadSlot(w, c, j) = ReadSlot(d, c, j)
  PROVE  InUse(w, c, i)
<1>1. \A j \in 0 .. i : j \in Nat /\ j <= i
  OBVIOUS
<1>2. i \in Nat /\ i <= i
  OBVIOUS
<1> QED BY <1>1, <1>2 DEF InUse, Seen

\* If slots stay, so does the order of names.
LEMMA OrderKept ==
  ASSUME NEW d, NEW w, NEW c, NEW i, i \in Nat, FirstOfName(d, c, i),
         \A j \in Nat : j <= i => ReadSlot(w, c, j) = ReadSlot(d, c, j)
  PROVE  FirstOfName(w, c, i)
<1>1. ASSUME NEW j \in Nat, j < i, InUse(w, c, j) PROVE ReadSlot(w, c, j).name # ReadSlot(w, c, i).name
  <2>1. j <= i /\ i <= i
    BY <1>1
  <2>2. \A k \in Nat : k <= j => ReadSlot(d, c, k) = ReadSlot(w, c, k)
    BY <1>1
  <2>3. InUse(d, c, j)
    BY <1>1, <2>2, InUseSame
  <2> QED BY <1>1, <2>1, <2>3 DEF FirstOfName
<1> QED BY <1>1 DEF FirstOfName

\* What is behind the entries of a directory may change.
LEMMA BehindKept ==
  ASSUME NEW d, NEW D, IsTree(d, D), NEW c, c \in D, NEW i, i \in Nat,
         ReadSlot(d, c, i).name \in {End, Missing}, NEW w, Behind(d, w, c, i)
  PROVE  Kept(d, w, D, {}, {c})
<1>1. ASSUME NEW j \in Nat, InUse(d, c, j) PROVE j < i
  <2>1. SUFFICES ASSUME i <= j PROVE FALSE
    BY <1>1
  <2>2. i \in 0 .. j
    BY <1>1, <2>1
  <2> QED BY <1>1, <2>2 DEF InUse, Seen
<1>2. SlotsKept(d, w, D, {})
  <2> SUFFICES ASSUME NEW h \in D, NEW k \in Nat, InUse(d, h, k)
               PROVE  /\ Dir(w, h) /\ InUse(w, h, k) /\ ReadSlot(w, h, k) = ReadSlot(d, h, k)
                      /\ Listed(d, h, k) => FirstOfName(w, h, k)
    BY DEF SlotsKept
  <2>1. Dir(d, h) /\ Dir(w, h)
    BY DirIs DEF Behind
  <2>2. \A j \in Nat : j <= k => ReadSlot(w, h, j) = ReadSlot(d, h, j)
    <3>1. CASE h = c
      <4>1. k < i
        BY <1>1, <3>1
      <4>2. \A j \in Nat : j <= k => j < i
        BY <4>1
      <4> QED BY <3>1, <4>2 DEF Behind
    <3>2. CASE h # c
      BY <2>1, <3>2 DEF Behind, SameDir
    <3> QED BY <3>1, <3>2
  <2>3. InUse(w, h, k)
    BY <2>2, InUseSame
  <2>4. Listed(d, h, k) => FirstOfName(w, h, k)
    BY <2>2, NamesFirst, OrderKept
  <2>5. k <= k
    OBVIOUS
  <2> QED BY <2>1, <2>2, <2>3, <2>4, <2>5
<1> QED BY <1>2 DEF Kept, Behind

\* A slot may be edited that is not to be kept, unless it gets a name that is found elsewhere.
LEMMA EditKept ==
  ASSUME NEW d, NEW w, NEW D, NEW X, NEW C, Kept(d, w, D, X, C),
         NEW x, NEW k, k \in Nat, <<x, k>> \in X \/ ~InUse(d, x, k),
         NEW d2, Edited(w, d2, x, k), Aside(w, d2, C),
         InUse(d2, x, k) =>
           \/ InUse(w, x, k) /\ ReadSlot(d2, x, k).name = ReadSlot(w, x, k).name
           \/ \A i \in Nat : Listed(d, x, i) => ReadSlot(d, x, i).name # ReadSlot(d2, x, k).name
  PROVE  Kept(d, d2, D, X, C)
<1>1. SlotsKept(d, d2, D, X)
  <2> SUFFICES ASSUME NEW c \in D, NEW i \in Nat, InUse(d, c, i), <<c, i>> \notin X
               PROVE  /\ Dir(d2, c) /\ InUse(d2, c, i) /\ ReadSlot(d2, c, i) = ReadSlot(d, c, i)
                      /\ Listed(d, c, i) => FirstOfName(d2, c, i)
    BY DEF SlotsKept
  <2>1. /\ Dir(w, c) /\ InUse(w, c, i) /\ ReadSlot(w, c, i) = ReadSlot(d, c, i)
        /\ Listed(d, c, i) => FirstOfName(w, c, i)
    BY DEF Kept, SlotsKept
  <2>2. c # x \/ i # k
    OBVIOUS
  <2>3. Dir(d2, c) /\ InUse(d2, c, i) /\ ReadSlot(d2, c, i) = ReadSlot(d, c, i)
    BY <2>1, <2>2 DEF Edited, SameSlot, SameHeads, Dir
  <2>4. ASSUME Listed(d, c, i), NEW j \in Nat, j < i, InUse(d2, c, j)
        PROVE  ReadSlot(d2, c, j).name # ReadSlot(d2, c, i).name
    <3>1. CASE c # x \/ j # k
      <4>1. InUse(w, c, j) /\ ReadSlot(d2, c, j) = ReadSlot(w, c, j)
        BY <2>1, <2>4, <3>1 DEF Edited, SameSlot
      <4> QED BY <2>1, <2>3, <2>4, <4>1 DEF FirstOfName
    <3>2. CASE c = x /\ j = k
      BY <2>1, <2>3, <2>4, <3>2 DEF FirstOfName
    <3> QED BY <3>1, <3>2
  <2> QED BY <2>3, <2>4 DEF FirstOfName
<1>2. Aside(d, d2, C)
  BY AsideTwice DEF Kept
<1> QED BY <1>1, <1>2 DEF Kept, Edited

\* While a new entry is written, everything stays.
LEMMA CreateKept ==
  ASSUME NEW d, NEW D, IsTree(d, D), NEW c, c \in D, NEW e, e \in Entry, e.name \in Name,
         \A i : ~Holds(d, c, i, e.name)
  PROVE  /\ CreateWrites(d, c, e) \in Seq(Keeping(d, D, {}, {c}))
         /\ After(d, CreateWrites(d, c, e)) = Create(d, c, e).disk
<1>0. SoundDisk(d) /\ Dir(d, c) /\ d \in Disk
  BY DirIs
<1>n. e.name \notin {End, Deleted, Missing, ".", ".."}
  BY FatAssumption DEF Special
<1>1. PICK i : i = FirstSlot(d, c, {End, Deleted})
  OBVIOUS
<1>2. PICK s : s = CreateWrites(d, c, e)
  OBVIOUS
<1>3. /\ i \in Nat /\ ReadSlot(d, c, i).name \in {End, Deleted, Missing}
      /\ \A j \in Nat : j < i => ReadSlot(d, c, j).name \notin {End, Deleted, Missing}
      /\ Makes(d, c, i, s, Create(d, c, e).disk)
      /\ ReadSlot(d, c, i).name = Deleted => s = <<WriteSlot(d, c, i, e).disk>>
  BY <1>0, <1>n, <1>1, <1>2, CreateMakes
<1>4. s \in Seq(Behinds(d, c, i)) /\ After(d, s) = Create(d, c, e).disk
  BY <1>3 DEF Makes
<1>5. CASE ReadSlot(d, c, i).name # Deleted
  <2>1. Behinds(d, c, i) \subseteq Keeping(d, D, {}, {c})
    BY <1>3, <1>5, BehindKept DEF Behinds, Keeping
  <2> QED BY <1>2, <1>4, <2>1, SeqLarger
<1>6. CASE ReadSlot(d, c, i).name = Deleted
  <2>1. PICK v : v = WriteSlot(d, c, i, e)
    OBVIOUS
  <2>2. PICK d2 : d2 = v.disk
    OBVIOUS
  <2>3. Seen(d, c, i)
    <3>1. \A j \in 0 .. i : j \in Nat /\ (j < i \/ j = i)
      BY <1>3
    <3> QED BY <1>3, <1>6, <3>1 DEF Seen, End, Deleted, Missing
  <2>4. Edited(d, d2, c, i) /\ ReadSlot(d2, c, i) = e
    BY <1>0, <1>n, <1>3, <2>1, <2>2, <2>3, EditSlot
  <2>5. Aside(d, d2, {c})
    <3>1. i # 0 => ReadSlot(d, c, i - 1).name # Missing
      <4>1. i # 0 => i - 1 \in Nat /\ i - 1 < i
        BY <1>3
      <4> QED BY <1>3, <4>1
    <3> QED BY <1>0, <1>3, <2>1, <2>2, <3>1, WriteAside
  <2>6. Kept(d, d, D, {}, {c})
    BY KeptSelf, KeptWider
  <2>7. ~InUse(d, c, i)
    BY <1>6 DEF InUse
  <2>8. \A j \in Nat : Listed(d, c, j) => ReadSlot(d, c, j).name # ReadSlot(d2, c, i).name
    BY <2>4 DEF Holds
  <2>9. Kept(d, d2, D, {}, {c})
    BY <1>3, <2>4, <2>5, <2>6, <2>7, <2>8, EditKept
  <2>10. d2 \in Keeping(d, D, {}, {c})
    BY <2>4, <2>9 DEF Keeping, Edited, SoundDisk
  <2>11. s = <<d2>>
    BY <1>3, <1>6, <2>1, <2>2
  <2> QED BY <1>2, <1>4, <2>10, <2>11, AfterOne
<1> QED BY <1>5, <1>6

\* What a power loss finds of the tree in the middle of a call, when no path leads over X
\* and no file's chain is in C.
LEMMA AllFound ==
  ASSUME NEW d, NEW D, IsTree(d, D), NEW X, NEW C, NEW w, w \in Keeping(d, D, X, C),
         NEW path, path \in DOMAIN Tree(d), Avoids(d, path, X), NoneOf(d, path, C)
  PROVE  Find(w, path).slot # None /\ Node(w, Find(w, path).entry) = Tree(d)[path]
<1>1. Kept(d, w, D, X, C)
  BY DEF Keeping
<1> QED BY <1>1, NodeKept

\* No file has the chain of a directory.
LEMMA NoneDirs ==
  ASSUME NEW d, NEW D, IsTree(d, D), NEW path, path \in DOMAIN Tree(d)
  PROVE  NoneOf(d, path, D)
<1> SUFFICES ASSUME NEW c, NEW i, Step(d, path, Len(path), c, i), ~ReadSlot(d, c, i).dir
             PROVE  ReadSlot(d, c, i).first \notin D \/ ReadSlot(d, c, i).first = Free
  BY DEF NoneOf
<1>1. PICK b \in D, j \in Nat : Step(d, path, Len(path), b, j) /\ Proper(d, D, ReadSlot(d, b, j))
  BY TreeIs
<1>2. IsPath(path) /\ Len(path) \in 1 .. Len(path)
  BY TreeIs, PathNames
<1>3. b = c /\ j = i
  BY <1>1, <1>2, OneStep
<1> QED BY <1>1, <1>3 DEF Proper

\* No path goes over slots that are no files or directories.
LEMMA NoStep ==
  ASSUME NEW d, NEW X, \A c, i : <<c, i>> \in X => ~Listed(d, c, i), NEW path
  PROVE  Avoids(d, path, X)
BY DEF Avoids, Step, Holds

-----------------------------------------------------------------------------
(***************************************************************************)
(* fat12_rename, write by write.                                           *)
(***************************************************************************)
\* The parent of a directory is written over: the directory itself, and what is in it, stay.
LEMMA ReparentKept ==
  ASSUME NEW d, NEW D, IsTree(d, D), NEW x, x \in D, x # 0, OnDisk(x), NEW parent, parent \in D,
         NEW w, w \in Keeping(d, D, {}, D)
  PROVE  Reparented(w, x, parent) \in Keeping(d, D, {<<x, 1>>}, D)
<1>1. Dir(d, x) /\ InUse(d, x, 1) /\ ReadSlot(d, x, 1).name = ".."
  BY DirIs DEF IsTree, Dotted, Dots
<1>2. Kept(d, w, D, {}, D) /\ SoundDisk(w)
  BY DEF Keeping, Kept
<1>3. Dir(w, x) /\ InUse(w, x, 1) /\ ReadSlot(w, x, 1) = ReadSlot(d, x, 1)
  BY <1>1, <1>2 DEF Kept, SlotsKept
<1>4. parent \in DirCluster
  BY DEF IsTree, Directories
<1>5. PICK d2 : d2 = Reparented(w, x, parent)
  OBVIOUS
<1>6. ReadSlot(w, x, 1).name # Missing
  BY <1>3 DEF InUse, Seen
<1>7. Edited(w, d2, x, 1) /\ ReadSlot(d2, x, 1).name = ReadSlot(w, x, 1).name
  BY <1>2, <1>3, <1>4, <1>5, <1>6, ReparentedIs
<1>8. Aside(w, d2, {x})
  <2>1. PICK f : f = [ReadSlot(w, x, 1) EXCEPT !.first = parent]
    OBVIOUS
  <2>2. d2 = WriteSlot(w, x, 1, f).disk
    BY <1>5, <1>6, <2>1 DEF Reparented
  <2>3. f \in Entry
    <3>1. ReadSlot(w, x, 1) \in Entry
      <4>1. w \in Disk /\ x \in DirCluster
        BY <1>2, <1>3 DEF SoundDisk, Dir, DirCluster, IsHead
      <4> QED BY <1>3, <4>1, InUseIs
    <3> QED BY <1>4, <2>1, <3>1, OtherFirst
  <2>4. ReadSlot(w, x, 1 - 1).name # Missing
    <3>1. ReadSlot(w, x, 0).name # Missing
      BY <1>3 DEF InUse, Seen
    <3>2. 1 - 1 = 0
      OBVIOUS
    <3> QED BY <3>1, <3>2
  <2> QED BY <1>2, <1>3, <2>2, <2>3, <2>4, WriteAside
<1>9. Aside(w, d2, D)
  BY <1>8 DEF Aside
<1>10. Kept(d, w, D, {<<x, 1>>}, D)
  BY <1>2, KeptWider
<1>11. Kept(d, d2, D, {<<x, 1>>}, D)
  BY <1>3, <1>7, <1>9, <1>10, EditKept
<1> QED BY <1>5, <1>7, <1>11 DEF Keeping, Edited, SoundDisk

\* Whether an entry can be written does not depend on what is written.
LEMMA AnyEntry ==
  ASSUME NEW d, NEW c, NEW i, NEW e, NEW f
  PROVE  WriteSlot(d, c, i, e).ok = WriteSlot(d, c, i, f).ok
BY DEF WriteSlot, Written

\* fat12_rename keeps all entries and all data, but the parent in a directory that moves,
\* until its last write, which erases the old entry.
LEMMA RenameKept ==
  ASSUME NEW D, IsTree(disk, D), NEW p, IsPath(p), NEW q, IsPath(q),
         NEW r, Finds(disk, D, p, r), NEW t, Finds(disk, D, q, t)
  PROVE  \E X : /\ \A c, i : <<c, i>> \in X => ~Listed(disk, c, i)
                /\ Range(Front(<<disk>> \o RenameWrites(q, r, t))) \subseteq Keeping(disk, D, X, D)
<1>1. PICK made : made = CreateWrites(disk, t.dir, [r.entry EXCEPT !.name = Last(q)])
  OBVIOUS
<1>2. disk \in Keeping(disk, D, {}, D)
  <2>1. Kept(disk, disk, D, {}, {})
    BY KeptSelf
  <2>2. Kept(disk, disk, D, {}, D)
    BY <2>1, KeptWider
  <2>3. disk \in Disk
    BY DirIs DEF IsTree, Directories
  <2> QED BY <2>2, <2>3 DEF Keeping
<1>3. CASE r.slot = None \/ t.slot # None \/ t.dir = None
  <2>1. RenameWrites(q, r, t) = <<>> /\ <<>> \in Seq(Keeping(disk, D, {}, D))
    BY <1>3 DEF RenameWrites
  <2> QED BY <1>2, <2>1, Between
<1>4. CASE r.slot # None /\ t.slot = None /\ t.dir # None
  <2>1. PICK b : b = r.dir
    OBVIOUS
  <2>2. PICK j : j = r.slot
    OBVIOUS
  <2>3. PICK c : c = t.dir
    OBVIOUS
  <2>4. PICK e : e = ReadSlot(disk, b, j)
    OBVIOUS
  <2>5. Step(disk, p, Len(p), b, j) /\ r.entry = e
    BY <1>4, <2>1, <2>2, <2>4 DEF Finds
  <2>6. b \in D /\ j \in Nat /\ Listed(disk, b, j)
    <3>1. Len(p) \in 1 .. Len(p)
      BY PathNames
    <3> QED BY <2>5, <3>1, OneStep
  <2>7. c \in D /\ \A i : ~Holds(disk, c, i, q[Len(q)])
    BY <1>4, <2>3 DEF Finds, None
  <2>8. SoundDisk(disk) /\ disk \in Disk /\ Dir(disk, b) /\ b \in DirCluster
    BY <2>6, DirIs
  <2>9. e \in Entry /\ Proper(disk, D, e)
    <3>1. Proper(disk, D, e)
      BY <2>4, <2>6 DEF IsTree, AllProper
    <3>2. InUse(disk, b, j)
      BY <2>6 DEF Listed
    <3> QED BY <2>4, <2>6, <2>8, <3>1, <3>2, InUseIs
  <2>10. q[Len(q)] \in Name /\ Last(q) = q[Len(q)]
    BY PathNames DEF Last
  <2>11. PICK g : g = [e EXCEPT !.name = q[Len(q)]]
    OBVIOUS
  <2>12. g \in Entry /\ g.name = q[Len(q)]
    BY <2>9, <2>10, <2>11, OtherName
  <2>13. made = CreateWrites(disk, c, g)
    BY <1>1, <2>3, <2>5, <2>10, <2>11
  <2>14. made \in Seq(Keeping(disk, D, {}, D))
    <3>1. made \in Seq(Keeping(disk, D, {}, {c}))
      BY <2>7, <2>10, <2>12, <2>13, CreateKept
    <3>2. Keeping(disk, D, {}, {c}) \subseteq Keeping(disk, D, {}, D)
      <4> SUFFICES ASSUME NEW w, Kept(disk, w, D, {}, {c}) PROVE Kept(disk, w, D, {}, D)
        BY DEF Keeping
      <4> QED BY <2>7, KeptWider
    <3> QED BY <3>1, <3>2, SeqLarger
  <2>15. CASE ~Room(disk, c)
    <3>1. RenameWrites(q, r, t) = made
      BY <1>1, <1>4, <2>3, <2>15 DEF RenameWrites
    <3> QED BY <1>2, <2>14, <3>1, Between
  <2>16. CASE Room(disk, c)
    <3>1. RenameWrites(q, r, t) = ErasedAfter(disk, Reparent(made, r, c), r)
      BY <1>1, <1>4, <2>3, <2>16 DEF RenameWrites
    <3>2. PICK s : s = Reparent(made, r, c)
      OBVIOUS
    <3>3. RenameWrites(q, r, t) = Append(s, Erased(After(disk, s), r))
      BY <3>1, <3>2 DEF ErasedAfter
    <3>4. CASE ~(e.dir /\ OnDisk(e.first))
      <4>1. s = made
        BY <2>5, <3>2, <3>4 DEF Reparent
      <4> QED BY <1>2, <2>14, <3>3, <4>1, BetweenButLast
    <3>5. CASE e.dir /\ OnDisk(e.first)
      <4>1. PICK x : x = e.first
        OBVIOUS
      <4>2. x \in D /\ x # 0 /\ OnDisk(x)
        BY <2>9, <3>5, <4>1 DEF Proper
      <4>3. PICK X : X = {<<x, 1>>}
        OBVIOUS
      <4>4. made # <<>>
        <5>1. PICK v : v = Create(disk, c, g)
          OBVIOUS
        <5>2. g.name \notin {End, Deleted}
          BY <2>10, <2>12, FatAssumption DEF Special
        <5>3. v.ok
          <6>1. v.ok = WriteSlot(disk, c, FirstSlot(disk, c, {End, Deleted}), g).ok
            BY <2>7, <2>12, <5>1, <5>2, CreateMakes, DirIs
          <6> QED BY <2>16, <6>1, AnyEntry DEF Room
        <5>4. Created(disk, v, c, g)
          BY <2>7, <2>8, <2>12, <5>1, <5>2, CreateIs, DirIs
        <5>5. v.disk # disk
          BY <5>3, <5>4 DEF Created
        <5>6. After(disk, made) = v.disk
          <6>1. After(disk, CreateWrites(disk, c, g)) = Create(disk, c, g).disk
            BY <2>7, <2>10, <2>12, CreateKept
          <6>2. made = CreateWrites(disk, c, g)
            BY <2>13
          <6> QED BY <5>1, <6>1, <6>2, Zenon
        <5> QED BY <5>5, <5>6 DEF After
      <4>5. Last(made) \in Keeping(disk, D, {}, D)
        BY <2>14, <4>4, AfterIs
      <4>6. s = Append(made, Reparented(Last(made), x, c))
        BY <2>5, <3>2, <3>5, <4>1 DEF Reparent
      <4>7. Reparented(Last(made), x, c) \in Keeping(disk, D, X, D)
        BY <2>7, <4>2, <4>3, <4>5, ReparentKept
      <4>8. Keeping(disk, D, {}, D) \subseteq Keeping(disk, D, X, D)
        <5> SUFFICES ASSUME NEW w, Kept(disk, w, D, {}, D) PROVE Kept(disk, w, D, X, D)
          BY DEF Keeping
        <5> QED BY KeptWider
      <4>9. s \in Seq(Keeping(disk, D, X, D))
        <5>1. made \in Seq(Keeping(disk, D, X, D))
          BY <2>14, <4>8, SeqLarger
        <5> QED BY <4>6, <4>7, <5>1
      <4>10. disk \in Keeping(disk, D, X, D)
        BY <1>2, <4>8
      <4>11. Range(Front(<<disk>> \o RenameWrites(q, r, t))) \subseteq Keeping(disk, D, X, D)
        BY <3>3, <4>9, <4>10, BetweenButLast
      <4>12. \A h, i : <<h, i>> \in X => ~Listed(disk, h, i)
        <5>1. ~Listed(disk, x, 1)
          BY <4>2 DEF IsTree, Dotted, Dots, Listed
        <5> QED BY <4>3, <5>1
      <4> QED BY <4>11, <4>12
    <3> QED BY <3>4, <3>5
  <2> QED BY <2>15, <2>16
<1> QED BY <1>3, <1>4

\* A path whose entries are kept leads where it led.
LEMMA RenameFinds ==
  ASSUME NEW D, IsTree(disk, D), NEW p, IsPath(p), NEW q, IsPath(q), NEW w,
         w \in Range(Front(<<disk>> \o RenameWrites(q, Find(disk, p), Find(disk, q)))),
         NEW path, path \in DOMAIN Tree(disk)
  PROVE  Find(w, path).slot # None /\ Node(w, Find(w, path).entry) = Tree(disk)[path]
<1>1. PICK r : r = Find(disk, p)
  OBVIOUS
<1>2. PICK t : t = Find(disk, q)
  OBVIOUS
<1>3. Finds(disk, D, p, r) /\ Finds(disk, D, q, t)
  BY <1>1, <1>2, FindIs
<1>4. PICK X : /\ \A c, i : <<c, i>> \in X => ~Listed(disk, c, i)
               /\ Range(Front(<<disk>> \o RenameWrites(q, r, t))) \subseteq Keeping(disk, D, X, D)
  BY <1>3, RenameKept
<1>5. w \in Keeping(disk, D, X, D)
  BY <1>1, <1>2, <1>4
<1>6. Avoids(disk, path, X)
  BY <1>4, NoStep
<1>7. NoneOf(disk, path, D)
  BY NoneDirs
<1> QED BY <1>5, <1>6, <1>7, AllFound

-----------------------------------------------------------------------------
(***************************************************************************)
(* What a power loss leaves.                                               *)
(***************************************************************************)
\* What tree has at a path is there.
Survives(path) == Present(path) /\ NodeAt(path) = tree[path]

\* With the power on, tree mirrors the disk; when it went in the middle of a renaming,
\* everything is where it was.
RenameInv ==
  /\ on => FilesInv /\ tree = Tree(disk)
  /\ ~on /\ before.call = "rename" => \A path \in DOMAIN tree : Survives(path)

\* The power goes in the middle of a renaming.
LEMMA LostRename ==
  ASSUME FilesInv, tree = Tree(disk), NEW p, IsPath(p), NEW q, IsPath(q),
         disk' \in Range(Front(<<disk>> \o RenameWrites(q, Find(disk, p), Find(disk, q)))),
         tree' = tree
  PROVE  \A path \in DOMAIN tree' : Survives(path)'
<1>1. PICK D : IsTree(disk, D)
  BY DEF FilesInv, Consistent
<1> SUFFICES ASSUME NEW path \in DOMAIN Tree(disk) PROVE Survives(path)'
  OBVIOUS
<1>2. Find(disk', path).slot # None /\ Node(disk', Find(disk', path).entry) = Tree(disk)[path]
  BY <1>1, RenameFinds
<1> QED BY <1>2 DEF Survives, Present, NodeAt, Node

\* The calls that a power loss may meet, and what they are about.
LEMMA CallsAre ==
  ASSUME NEW call, call \in Calls
  PROVE  \/ /\ call[1] \in {"open", "makedir", "removefile", "removedir"} /\ call[2] \in Path
            /\ call[1] # "rename" /\ call[1] # "write"
         \/ call[1] = "rename" /\ \E old, new \in Path : call[2] = <<old, new>> /\ ~OpenBelow(<<old, 1>>)
         \/ call[1] = "write" /\ \E f \in Used, buf \in Buffer : call[2] = <<f, buf>>
<1>1. CASE call \in {<<c, path>> : c \in {"open", "makedir", "removefile", "removedir"}, path \in Path}
  <2>1. PICK c \in {"open", "makedir", "removefile", "removedir"}, path \in Path : call = <<c, path>>
    BY <1>1
  <2>2. call[1] = c /\ call[2] = path
    BY <2>1
  <2> QED BY <2>1, <2>2
<1>2. CASE call \in {<<"rename", <<old, new>>>> : old \in {p \in Path : ~OpenBelow(<<p, 1>>)}, new \in Path}
  <2>1. PICK old \in {p \in Path : ~OpenBelow(<<p, 1>>)}, new \in Path : call = <<"rename", <<old, new>>>>
    BY <1>2
  <2>2. call[1] = "rename" /\ call[2] = <<old, new>>
    BY <2>1
  <2> QED BY <2>1, <2>2
<1>3. CASE call \in {<<"write", <<f, buf>>>> : f \in Used, buf \in Buffer}
  <2>1. PICK f \in Used, buf \in Buffer : call = <<"write", <<f, buf>>>>
    BY <1>3
  <2>2. call[1] = "write" /\ call[2] = <<f, buf>>
    BY <2>1
  <2> QED BY <2>1, <2>2
<1> QED BY <1>1, <1>2, <1>3 DEF Calls

\* A call goes on to its end or not.
LEMMA RenameInvNext ==
  ASSUME NoLiberties, RenameInv, [CrashNext]_crashVars PROVE RenameInv'
<1>1. CASE Work
  <2>1. on /\ on' = on /\ Next /\ tree' = Tree(disk')
    BY <1>1 DEF Work, FilesNext
  <2>2. FilesInv'
    BY <2>1, InvNext DEF RenameInv
  <2> QED BY <2>1, <2>2 DEF RenameInv
<1>2. CASE PowerLoss
  <2>1. on /\ FilesInv /\ tree = Tree(disk) /\ on' = FALSE /\ tree' = tree
    BY <1>2 DEF PowerLoss, RenameInv
  <2>2. PICK call \in Calls :
          /\ disk' \in Range(Front(<<disk>> \o WritesOf(call[1], call[2])))
          /\ before'.call = call[1]
    BY <1>2 DEF PowerLoss
  <2>3. ASSUME call[1] = "rename" PROVE \A path \in DOMAIN tree' : Survives(path)'
    <3>1. PICK old \in Path, new \in Path : call[2] = <<old, new>>
      BY <2>3, CallsAre
    <3>2. IsPath(old) /\ IsPath(new)
      BY ClientAssumption DEF IsPath
    <3>3. WritesOf(call[1], call[2]) = RenameWrites(new, Find(disk, old), Find(disk, new))
      BY <2>3, <3>1 DEF WritesOf
    <3> QED BY <2>1, <2>2, <3>2, <3>3, LostRename
  <2> QED BY <2>1, <2>2, <2>3 DEF RenameInv
<1>3. CASE UNCHANGED crashVars
  <2>1. /\ UNCHANGED vars /\ on' = on /\ tree' = tree /\ before' = before
        /\ disk' = disk
    BY <1>3 DEF crashVars, filesVars, vars
  <2>2. FilesInv => FilesInv'
    BY <2>1, InvNext
  <2>3. \A path : Survives(path)' <=> Survives(path)
    BY <2>1 DEF Survives, Present, NodeAt
  <2> QED BY <2>1, <2>2, <2>3 DEF RenameInv
<1> QED BY <1>1, <1>2, <1>3 DEF CrashNext

\* When the power goes in the middle of fat12_rename, what was to be renamed is under its old
\* name or under its new one, a directory with everything below it.
THEOREM RenamingLosesNothing == NoLiberties => (CrashSpec => []RenamedSurvives)
<1> SUFFICES ASSUME NoLiberties PROVE CrashSpec => []RenamedSurvives
  OBVIOUS
<1>1. CrashInit => RenameInv
  BY InvInit DEF CrashInit, FilesInit, RenameInv
<1>2. RenameInv /\ [CrashNext]_crashVars => RenameInv'
  BY RenameInvNext
<1>3. RenameInv => RenamedSurvives
  BY DEF RenameInv, RenamedSurvives, Survives
<1> QED BY <1>1, <1>2, <1>3, PTL DEF CrashSpec

-----------------------------------------------------------------------------
(***************************************************************************)
(* fat12_free_cluster_chain, cluster by cluster.                           *)
(***************************************************************************)
\* The first cluster of a chain is freed: the next one, if there is one, begins the rest.
Beheaded(fat, fat2, h) ==
  /\ SoundFat(fat2)
  /\ \A g : IsHead(fat, g) /\ g # h => IsHead(fat2, g) /\ SameChain(fat, fat2, g)
  /\ fat[h] \in Cluster => /\ IsHead(fat2, fat[h])
                           /\ \A k \in Nat : Nth(fat2, fat[h], k) = Nth(fat, h, k + 1)

\* The other chains stay, and what followed it begins one.
LEMMA HeadCut ==
  ASSUME NEW fat, SoundFat(fat), NEW h, IsHead(fat, h),
         NEW fat2, fat2 \in [Cluster -> FatValue], fat2[h] = Free,
         \A c \in Cluster : c # h => fat2[c] = fat[c]
  PROVE  Beheaded(fat, fat2, h)
<1>0. /\ fat \in [Cluster -> FatValue] /\ Free \notin Cluster /\ Cluster \subseteq FatValue
      /\ h \in Cluster /\ fat[h] # Free /\ \A c \in Cluster : fat[c] # h
  BY Numbers DEF SoundFat, IsHead, FatValue
<1>1. Nth(fat, h, 0) = h /\ Nth(fat, h, 1) = fat[h]
  <2>1. Nth(fat, h, 0) = h
    BY <1>0, NthSteps
  <2>2. Nth(fat, h, 0 + 1) = fat[h]
    BY <1>0, <2>1, NthNext
  <2> QED BY <2>1, <2>2
<1>2. ASSUME NEW g, IsHead(fat, g), g # h PROVE IsHead(fat2, g) /\ SameChain(fat, fat2, g)
  <2>1. g \in Cluster /\ fat[g] # Free /\ \A c \in Cluster : fat[c] # g
    BY <1>2 DEF IsHead
  <2>2. IsHead(fat2, g)
    BY <1>0, <1>2, <2>1 DEF IsHead
  <2>3. ASSUME NEW k \in Nat, Nth(fat, g, k) \in Cluster PROVE fat2[Nth(fat, g, k)] = fat[Nth(fat, g, k)]
    <3>1. Nth(fat, g, k) # h
      <4>1. 0 \in Nat
        OBVIOUS
      <4> QED BY <1>1, <1>2, <2>3, <4>1, OnePlace
    <3> QED BY <2>3, <3>1
  <2>4. SameChain(fat, fat2, g)
    BY <1>0, <2>1, <2>3, Agreeing
  <2> QED BY <2>2, <2>4
<1>3. ASSUME NEW y, y = fat[h], y \in Cluster
      PROVE  IsHead(fat2, y) /\ \A k \in Nat : Nth(fat2, y, k) = Nth(fat, h, k + 1)
  <2>1. y # h /\ fat[y] # Free
    BY <1>0, <1>3 DEF SoundFat
  <2>2. \A c \in Cluster : fat2[c] # y
    BY <1>0, <1>3 DEF SoundFat
  <2>3. IsHead(fat2, y)
    BY <1>3, <2>1, <2>2 DEF IsHead
  <2> DEFINE X == {k \in Nat : Nth(fat2, y, k) = Nth(fat, h, k + 1)}
  <2>4. 0 \in X
    <3>1. Nth(fat2, y, 0) = y
      BY <1>0, <1>3, NthSteps
    <3>2. 0 + 1 = 1
      OBVIOUS
    <3> QED BY <1>1, <1>3, <3>1, <3>2
  <2>5. ASSUME NEW k \in Nat, k \in X PROVE k + 1 \in X
    <3>1. PICK at : at = Nth(fat, h, k + 1)
      OBVIOUS
    <3>2. Nth(fat2, y, k) = at /\ k + 1 \in Nat
      BY <2>5, <3>1
    <3>3. Nth(fat2, y, k + 1) = IF at \in Cluster THEN fat2[at] ELSE EndOfChain
      BY <1>0, <1>3, <3>2, NthNext
    <3>4. Nth(fat, h, (k + 1) + 1) = IF at \in Cluster THEN fat[at] ELSE EndOfChain
      BY <1>0, <3>1, <3>2, NthNext
    <3>5. at \in Cluster => at # h
      <4>1. 0 \in Nat /\ k + 1 # 0
        OBVIOUS
      <4> QED BY <1>1, <3>1, <3>2, <4>1, OnePlace
    <3>6. at \in Cluster => fat2[at] = fat[at]
      BY <3>5
    <3> QED BY <3>2, <3>3, <3>4, <3>6
  <2> HIDE DEF X
  <2>6. \A k \in Nat : k \in X
    BY <2>4, <2>5, AllNumbers
  <2> QED BY <2>3, <2>6 DEF X
<1>4. SoundFat(fat2)
  <2>1. ASSUME NEW c \in Cluster, fat2[c] \in Cluster PROVE fat2[fat2[c]] # Free
    <3>1. c # h /\ fat2[c] = fat[c]
      BY <1>0, <2>1
    <3>2. fat[c] # h /\ fat[fat[c]] # Free
      BY <1>0, <2>1, <3>1 DEF SoundFat
    <3> QED BY <2>1, <3>1, <3>2
  <2>2. ASSUME NEW b \in Cluster, NEW c \in Cluster, fat2[b] = fat2[c], fat2[b] \in Cluster PROVE b = c
    <3>1. b # h /\ c # h
      BY <1>0, <2>2
    <3> QED BY <2>2, <3>1 DEF SoundFat
  <2>3. ASSUME NEW c \in Cluster, fat2[c] # Free PROVE InChain(fat2, c)
    <3>1. c # h /\ fat[c] # Free
      BY <2>3
    <3>2. PICK g \in Cluster, k \in Nat : IsHead(fat, g) /\ Nth(fat, g, k) = c
      BY <3>1 DEF SoundFat, AllInChains, InChain
    <3>3. CASE g # h
      <4>1. IsHead(fat2, g) /\ Nth(fat2, g, k) = c
        BY <1>2, <3>2, <3>3 DEF SameChain
      <4> QED BY <4>1 DEF InChain
    <3>4. CASE g = h
      <4>1. k # 0
        BY <1>1, <3>1, <3>2, <3>4
      <4>2. PICK m \in Nat : k = m + 1
        <5>1. k - 1 \in Nat /\ k = (k - 1) + 1
          BY <4>1
        <5> QED BY <5>1
      <4>3. 1 \in 0 .. k
        BY <4>2
      <4>4. fat[h] \in Cluster
        BY <1>0, <1>1, <3>2, <3>4, <4>3, NthBefore
      <4>5. IsHead(fat2, fat[h]) /\ Nth(fat2, fat[h], m) = c
        BY <1>3, <3>2, <3>4, <4>2, <4>4
      <4> QED BY <4>4, <4>5 DEF InChain
    <3> QED BY <3>3, <3>4
  <2> QED BY <2>1, <2>2, <2>3 DEF SoundFat, AllInChains
<1> QED BY <1>2, <1>3, <1>4 DEF Beheaded

\* The FAT when the first i clusters of a chain are free, and what is left of the chain.
FreedTo(fat, x, i) ==
  [c \in Cluster |-> IF \E k \in 0 .. i - 1 : c = Nth(fat, x, k) THEN Free ELSE fat[c]]

ChainLeft(fat, fat2, x, i, n) ==
  /\ SoundFat(fat2)
  /\ \A g : IsHead(fat, g) /\ g # x => IsHead(fat2, g) /\ SameChain(fat, fat2, g)
  /\ i < n => /\ IsHead(fat2, Nth(fat, x, i))
              /\ \A k \in Nat : Nth(fat2, Nth(fat, x, i), k) = Nth(fat, x, i + k)

\* After any number of its clusters, what is left of the chain is a chain, and the others stay.
LEMMA LeftIs ==
  ASSUME NEW fat, SoundFat(fat), NEW x, IsHead(fat, x), NEW n \in Nat,
         \A k \in Nat : Nth(fat, x, k) \in Cluster <=> k < n, NEW m, m \in Nat, m <= n
  PROVE  ChainLeft(fat, FreedTo(fat, x, m), x, m, n)
<1>0. /\ fat \in [Cluster -> FatValue] /\ Free \notin Cluster /\ Cluster \subseteq FatValue /\ Free \in FatValue
      /\ x \in Cluster /\ Nth(fat, x, 0) = x
  BY NthSteps, Numbers DEF SoundFat, IsHead, FatValue
<1>1. \A i : FreedTo(fat, x, i) \in [Cluster -> FatValue]
  BY <1>0 DEF FreedTo
<1> DEFINE X == {i \in Nat : i <= n => ChainLeft(fat, FreedTo(fat, x, i), x, i, n)}
<1>2. 0 \in X
  <2>1. 0 .. 0 - 1 = {}
    OBVIOUS
  <2>2. FreedTo(fat, x, 0) = fat
    BY <1>0, <2>1 DEF FreedTo
  <2>3. Nth(fat, x, 0) = x /\ \A k \in Nat : 0 + k = k
    BY <1>0
  <2> QED BY <2>2, <2>3 DEF ChainLeft, SameChain
<1>3. ASSUME NEW i \in Nat, i \in X PROVE i + 1 \in X
  <2> SUFFICES ASSUME i + 1 <= n PROVE ChainLeft(fat, FreedTo(fat, x, i + 1), x, i + 1, n)
    OBVIOUS
  <2>1. PICK f : f = FreedTo(fat, x, i)
    OBVIOUS
  <2>2. PICK f2 : f2 = FreedTo(fat, x, i + 1)
    OBVIOUS
  <2>3. PICK h : h = Nth(fat, x, i)
    OBVIOUS
  <2>4. ChainLeft(fat, f, x, i, n) /\ i < n
    BY <1>3, <2>1
  <2>5. SoundFat(f) /\ IsHead(f, h) /\ \A k \in Nat : Nth(f, h, k) = Nth(fat, x, i + k)
    BY <2>3, <2>4 DEF ChainLeft
  <2>6. f \in [Cluster -> FatValue] /\ f2 \in [Cluster -> FatValue] /\ h \in Cluster
    BY <1>1, <2>1, <2>2, <2>5 DEF IsHead
  <2>7. f2[h] = Free /\ \A c \in Cluster : c # h => f2[c] = f[c]
    <3>1. i \in 0 .. (i + 1) - 1
      OBVIOUS
    <3>2. f2[h] = Free
      BY <2>2, <2>3, <2>6, <3>1 DEF FreedTo
    <3>3. ASSUME NEW c \in Cluster, c # h PROVE f2[c] = f[c]
      <4>1. ASSUME NEW k \in 0 .. (i + 1) - 1, c = Nth(fat, x, k) PROVE k \in 0 .. i - 1
        <5>1. k # i
          BY <2>3, <3>3, <4>1
        <5> QED BY <5>1
      <4>2. \A k \in 0 .. i - 1 : k \in 0 .. (i + 1) - 1
        OBVIOUS
      <4>3. (\E k \in 0 .. (i + 1) - 1 : c = Nth(fat, x, k)) <=> \E k \in 0 .. i - 1 : c = Nth(fat, x, k)
        BY <4>1, <4>2
      <4> QED BY <2>1, <2>2, <4>3 DEF FreedTo
    <3> QED BY <3>2, <3>3
  <2>8. Beheaded(f, f2, h)
    BY <2>5, <2>6, <2>7, HeadCut
  <2>9. ASSUME NEW g, IsHead(fat, g), g # x PROVE IsHead(f2, g) /\ SameChain(fat, f2, g)
    <3>1. IsHead(f, g) /\ SameChain(fat, f, g)
      BY <2>4, <2>9 DEF ChainLeft
    <3>2. g # h
      <4>1. h \in Cluster /\ Nth(fat, g, 0) = g /\ 0 \in Nat /\ g \in Cluster
        BY <1>0, <2>6, <2>9, NthSteps DEF IsHead
      <4> QED BY <2>3, <2>9, <4>1, OnePlace
    <3>3. IsHead(f2, g) /\ SameChain(f, f2, g)
      BY <2>8, <3>1, <3>2 DEF Beheaded
    <3> QED BY <3>1, <3>3 DEF SameChain
  <2>10. ASSUME i + 1 < n
         PROVE  /\ IsHead(f2, Nth(fat, x, i + 1))
                /\ \A k \in Nat : Nth(f2, Nth(fat, x, i + 1), k) = Nth(fat, x, (i + 1) + k)
    <3>1. Nth(fat, x, i + 1) \in Cluster
      BY <2>10
    <3>2. f[h] = Nth(fat, x, i + 1)
      <4>1. Nth(f, h, 0) = h
        BY <1>0, <2>6, NthSteps
      <4>2. Nth(f, h, 0 + 1) = f[h]
        BY <1>0, <2>6, <4>1, NthNext
      <4>3. 0 + 1 \in Nat /\ i + (0 + 1) = i + 1
        OBVIOUS
      <4> QED BY <2>5, <4>2, <4>3
    <3>3. IsHead(f2, f[h]) /\ \A k \in Nat : Nth(f2, f[h], k) = Nth(f, h, k + 1)
      BY <2>8, <3>1, <3>2 DEF Beheaded
    <3>4. ASSUME NEW k \in Nat PROVE Nth(f, h, k + 1) = Nth(fat, x, (i + 1) + k)
      <4>1. k + 1 \in Nat /\ i + (k + 1) = (i + 1) + k
        OBVIOUS
      <4> QED BY <2>5, <4>1
    <3> QED BY <3>2, <3>3, <3>4
  <2>11. SoundFat(f2)
    BY <2>8 DEF Beheaded
  <2> QED BY <2>2, <2>9, <2>10, <2>11 DEF ChainLeft
<1> HIDE DEF X
<1>4. \A i \in Nat : i \in X
  BY <1>2, <1>3, AllNumbers
<1> QED BY <1>4 DEF X

\* A disk on which nothing differs but the file or directory at x.
Besides(d, w, x) ==
  /\ SoundDisk(w) /\ Aside(d, w, {x})
  /\ \A h : Dir(d, h) /\ h # x => Dir(w, h) /\ SameDir(d, w, h)

AllBesides(d, x) == {w \in Disk : Besides(d, w, x)}

\* The writes of fat12_free_cluster_chain.
LEMMA FreeWritesIs ==
  ASSUME NEW d, SoundDisk(d), NEW x, x = Free \/ IsHead(d.fat, x)
  PROVE  /\ FreeWrites(d, x) \in Seq(AllBesides(d, x))
         /\ x = Free => FreeWrites(d, x) = <<>>
<1>0. d \in Disk /\ SoundFat(d.fat) /\ d.fat \in [Cluster -> FatValue]
  BY DEF SoundDisk, SoundFat
<1>1. CASE x = Free
  <2>1. Free \in FatValue /\ Free \notin Cluster
    BY Numbers DEF FatValue
  <2>2. Chain(d.fat, x) = {}
    BY <1>0, <1>1, <2>1, NoChain
  <2>3. Cardinality(Chain(d.fat, x)) = 0
    BY <2>2, FS_EmptySet
  <2>4. 1 .. Cardinality(Chain(d.fat, x)) = {}
    BY <2>3
  <2>5. FreeWrites(d, x) = <<>>
    BY <2>4 DEF FreeWrites
  <2> QED BY <2>5
<1>2. CASE IsHead(d.fat, x)
  <2>1. PICK n \in Nat : /\ n = Cardinality(Chain(d.fat, x))
                         /\ \A k \in Nat : Nth(d.fat, x, k) \in Cluster <=> k < n
    BY <1>0, <1>2, ChainLength
  <2>2. x # 0 /\ x \in Cluster
    BY <1>2, Numbers DEF IsHead
  <2>3. ASSUME NEW i \in 1 .. n, NEW w, w = [d EXCEPT !.fat = FreedTo(d.fat, x, i)]
        PROVE  w \in AllBesides(d, x)
    <3>1. PICK fat : fat = FreedTo(d.fat, x, i)
      OBVIOUS
    <3>2. i \in Nat /\ i <= n
      OBVIOUS
    <3>3. ChainLeft(d.fat, fat, x, i, n)
      BY <1>0, <1>2, <2>1, <3>1, <3>2, LeftIs
    <3>4. w = [fat |-> fat, slots |-> d.slots, bytes |-> d.bytes] /\ d.slots \in SlotTable /\ d.bytes \in ByteTable
      <4>1. d = [fat |-> d.fat, slots |-> d.slots, bytes |-> d.bytes] /\ d.slots \in SlotTable /\ d.bytes \in ByteTable
        BY <1>0, DiskParts
      <4> QED BY <2>3, <3>1, <4>1
    <3>5. w \in Disk /\ w.fat = fat /\ w.slots = d.slots /\ w.bytes = d.bytes
      <4>1. fat \in [Cluster -> FatValue]
        BY <3>3 DEF ChainLeft, SoundFat
      <4>2. [fat |-> fat, slots |-> d.slots, bytes |-> d.bytes] \in Disk
        BY <3>4, <4>1, DiskOf
      <4> QED BY <3>4, <4>2
    <3>6. SoundDisk(w)
      BY <3>3, <3>5 DEF SoundDisk, ChainLeft
    <3>7. \A g : IsHead(d.fat, g) /\ g # x => IsHead(w.fat, g) /\ SameChain(d.fat, w.fat, g)
      BY <3>3, <3>5 DEF ChainLeft
    <3>8. Aside(d, w, {x})
      BY <3>5, <3>7 DEF Aside, Spares
    <3>9. ASSUME NEW h, Dir(d, h), h # x PROVE Dir(w, h) /\ SameDir(d, w, h)
      <4>1. Dir(w, h) /\ (h # 0 => SameChain(d.fat, w.fat, h))
        BY <3>7, <3>9 DEF Dir
      <4>2. w.slots = d.slots
        BY <3>5
      <4> QED BY <3>6, <3>9, <4>1, <4>2, DirKept
    <3> QED BY <3>5, <3>6, <3>8, <3>9 DEF AllBesides, Besides
  <2>4. PICK s : s = FreeWrites(d, x)
    OBVIOUS
  <2>5. s = [i \in 1 .. n |-> [d EXCEPT !.fat = FreedTo(d.fat, x, i)]]
    BY <2>1, <2>4 DEF FreeWrites, FreedTo
  <2>6. \A i \in 1 .. n : [d EXCEPT !.fat = FreedTo(d.fat, x, i)] \in AllBesides(d, x)
    BY <2>3
  <2>7. s \in [1 .. n -> AllBesides(d, x)]
    BY <2>5, <2>6
  <2>8. x # Free
    BY <1>2, Numbers DEF IsHead
  <2> QED BY <2>1, <2>4, <2>7, <2>8
<1> QED BY <1>1, <1>2

-----------------------------------------------------------------------------
(***************************************************************************)
(* fat12_open and fat12_makedir, write by write.                           *)
(***************************************************************************)
\* What is kept stays when something else changes.
LEMMA BesidesKept ==
  ASSUME NEW d0, NEW D, NEW X, NEW C, NEW d, Kept(d0, d, D, X, C), NEW x, NEW w, Besides(d, w, x),
         x \in C \/ ~IsHead(d0.fat, x),
         x \in D => \A i \in Nat : InUse(d0, x, i) => <<x, i>> \in X
  PROVE  Kept(d0, w, D, X, C)
<1>1. SlotsKept(d0, w, D, X)
  <2> SUFFICES ASSUME NEW c \in D, NEW i \in Nat, InUse(d0, c, i), <<c, i>> \notin X
               PROVE  /\ Dir(w, c) /\ InUse(w, c, i) /\ ReadSlot(w, c, i) = ReadSlot(d0, c, i)
                      /\ Listed(d0, c, i) => FirstOfName(w, c, i)
    BY DEF SlotsKept
  <2>1. c # x
    OBVIOUS
  <2>2. /\ Dir(d, c) /\ InUse(d, c, i) /\ ReadSlot(d, c, i) = ReadSlot(d0, c, i)
        /\ Listed(d0, c, i) => FirstOfName(d, c, i)
    BY DEF Kept, SlotsKept
  <2>3. Dir(w, c) /\ SameDir(d, w, c)
    BY <2>1, <2>2 DEF Besides
  <2>4. \A j \in Nat : ReadSlot(w, c, j) = ReadSlot(d, c, j)
    BY <2>3 DEF SameDir
  <2>5. InUse(w, c, i)
    BY <2>2, <2>4, InUseSame
  <2>6. FirstOfName(d, c, i) => FirstOfName(w, c, i)
    BY <2>4, OrderKept
  <2> QED BY <2>2, <2>3, <2>4, <2>5, <2>6
<1>2. Aside(d0, w, C)
  <2> SUFFICES ASSUME NEW y, IsHead(d0.fat, y), y \notin C PROVE Spares(d0, w, y)
    BY DEF Aside
  <2>1. y # x
    OBVIOUS
  <2>2. Spares(d0, d, y)
    BY DEF Kept, Aside
  <2>3. Spares(d, w, y)
    BY <2>1, <2>2 DEF Besides, Aside, Spares
  <2> QED BY <2>2, <2>3 DEF Spares, SameChain
<1> QED BY <1>1, <1>2 DEF Kept, Besides

\* Allocating a cluster, and writing to one directory.
LEMMA BesidesNew ==
  ASSUME NEW d, SoundDisk(d), NEW new, new = FreeCluster(d), new # None,
         NEW d2, d2 = Allocated(d, Free)
  PROVE  Besides(d, d2, new) /\ IsHead(d2.fat, new) /\ ~IsHead(d.fat, new) /\ d2 \in Disk
<1>1. Dir(d, 0) /\ 0 \in Nat
  BY DEF Dir
<1>2. d2 \in Behinds(d, 0, 0)
  BY <1>1, MarkedBehind
<1>3. Marks(d, d2, new)
  BY NewChain
<1>4. SoundDisk(d2) /\ Aside(d, d2, {0})
  BY <1>2 DEF Behinds, Behind
<1>5. Aside(d, d2, {new})
  BY <1>4, Numbers DEF Aside, IsHead
<1>6. \A h : Dir(d, h) => Dir(d2, h) /\ SameDir(d, d2, h)
  BY <1>3 DEF Marks, Dir
<1>7. IsHead(d2.fat, new) /\ ~IsHead(d.fat, new)
  BY <1>3 DEF Marks
<1> QED BY <1>4, <1>5, <1>6, <1>7 DEF Besides, SoundDisk

\* Writing an entry to a directory changes no other one.
LEMMA BesidesWritten ==
  ASSUME NEW d, SoundDisk(d), NEW c, Dir(d, c), NEW i, i \in Nat, NEW e, e \in Entry,
         i # 0 => ReadSlot(d, c, i - 1).name # Missing, NEW v, v = WriteSlot(d, c, i, e)
  PROVE  Besides(d, v.disk, c) /\ SameHeads(d, v.disk)
<1>1. Wrote(d, v.disk, c, i, e, v.ok)
  BY WriteSlotIs
<1>2. Aside(d, v.disk, {c})
  BY WriteAside
<1>3. SoundDisk(v.disk) /\ SameHeads(d, v.disk) /\ \A h : Dir(d, h) /\ h # c => SameDir(d, v.disk, h)
  BY <1>1 DEF Wrote, Elsewhere
<1>4. \A h : Dir(d, h) => Dir(v.disk, h)
  BY <1>3 DEF Dir, SameHeads
<1> QED BY <1>2, <1>3, <1>4 DEF Besides

\* Some writes keep what one sequence of them after another keeps.
LEMMA KeepingTwice ==
  ASSUME NEW d, NEW d1, NEW D, NEW D2, D \subseteq D2, NEW C, NEW C2, C2 \subseteq C,
         Kept(d, d1, D, {}, C)
  PROVE  Keeping(d1, D2, {}, C2) \subseteq Keeping(d, D, {}, C)
<1> SUFFICES ASSUME NEW w \in Disk, Kept(d1, w, D2, {}, C2) PROVE Kept(d, w, D, {}, C)
  BY DEF Keeping
<1>1. Kept(d1, w, D, {}, C)
  BY KeptWider
<1> QED BY <1>1, KeptTwice

\* fat12_open of a new file
LEMMA OpenKeeps ==
  ASSUME NEW D, IsTree(disk, D), NEW p, IsPath(p), NEW r, Finds(disk, D, p, r)
  PROVE  OpenWrites(p, r) \in Seq(Keeping(disk, D, {}, D))
<1>1. CASE r.slot # None \/ r.dir = None
  BY <1>1 DEF OpenWrites
<1>2. CASE r.slot = None /\ r.dir # None
  <2>1. PICK c : c = r.dir
    OBVIOUS
  <2>2. c \in D /\ \A i : ~Holds(disk, c, i, p[Len(p)])
    BY <1>2, <2>1 DEF Finds, None
  <2>3. PICK e : e = Blank(Last(p))
    OBVIOUS
  <2>4. e \in Entry /\ e.name = p[Len(p)] /\ e.name \in Name
    <3>1. Last(p) = p[Len(p)] /\ p[Len(p)] \in Name
      BY PathNames DEF Last
    <3> QED BY <2>3, <3>1 DEF Blank, Entry, Live
  <2>5. OpenWrites(p, r) = CreateWrites(disk, c, e)
    BY <1>2, <2>1, <2>3 DEF OpenWrites
  <2>6. CreateWrites(disk, c, e) \in Seq(Keeping(disk, D, {}, {c}))
    BY <2>2, <2>4, CreateKept
  <2>7. Keeping(disk, D, {}, {c}) \subseteq Keeping(disk, D, {}, D)
    <3> SUFFICES ASSUME NEW w, Kept(disk, w, D, {}, {c}) PROVE Kept(disk, w, D, {}, D)
      BY DEF Keeping
    <3> QED BY <2>2, KeptWider
  <2> QED BY <2>5, <2>6, <2>7, SeqLarger
<1> QED BY <1>1, <1>2

\* An entry of the new directory is written, if the directory is on the disk.
LEMMA InitStep ==
  ASSUME NEW d0, NEW D, NEW d, Kept(d0, d, D, {}, D), NEW c, c \notin D, ~IsHead(d0.fat, c),
         IsHead(d.fat, c), OnDisk(c), NEW i \in {0, 1, 2}, i # 0 => ReadSlot(d, c, i - 1).name # Missing,
         NEW e, e \in Entry, NEW d2, d2 = WriteSlot(d, c, i, e).disk
  PROVE  Kept(d0, d2, D, {}, D) /\ IsHead(d2.fat, c) /\ ReadSlot(d2, c, i).name # Missing
<1>1. SoundDisk(d) /\ Dir(d, c) /\ i \in Nat
  BY DEF Kept, Dir
<1>2. PICK v : v = WriteSlot(d, c, i, e)
  OBVIOUS
<1>3. Besides(d, d2, c) /\ SameHeads(d, d2)
  BY <1>1, <1>2, BesidesWritten
<1>4. Kept(d0, d2, D, {}, D)
  BY <1>3, BesidesKept
<1>5. ReadSlot(d2, c, i) = e
  BY <1>1, <1>2, WriteFirst
<1>6. e.name # Missing
  BY Entries
<1> QED BY <1>3, <1>4, <1>5, <1>6 DEF SameHeads

\* A new directory beyond the disk stays as it is.
LEMMA NotInited ==
  ASSUME NEW d, d \in Disk, NEW c, c \in Cluster, ~OnDisk(c), NEW i \in {0, 1, 2}, NEW e
  PROVE  WriteSlot(d, c, i, e).disk = d
<1>1. c # 0
  BY Numbers
<1>2. i \div ClusterSlots = 0
  <2>1. PICK m \in Nat : m = ClusterSlots
    BY Numbers
  <2>2. m >= 3
    BY <2>1, Numbers
  <2> QED BY <2>1, <2>2
<1>3. PICK zero \in BOOLEAN : zero = TRUE
  OBVIOUS
<1>4. Reach(d, c, 0, zero) = [disk |-> d, at |-> c, ok |-> TRUE]
  BY ReachSteps
<1>5. PICK w : w = Reach(d, c, 0, zero)
  OBVIOUS
<1>6. w.disk = d /\ w.at = c
  BY <1>4, <1>5
<1>7. WriteSlot(d, c, i, e) = Written(w, i, e)
  BY <1>1, <1>2, <1>3, <1>5 DEF WriteSlot
<1> QED BY <1>6, <1>7 DEF Written

\* fat12_init_dir_cluster
LEMMA InitKept ==
  ASSUME NEW d0, NEW D, NEW d, Kept(d0, d, D, {}, D), NEW c, c \notin D, ~IsHead(d0.fat, c),
         IsHead(d.fat, c), NEW parent, parent \in DirCluster
  PROVE  /\ InitWrites(d, c, parent) \in Seq(Keeping(d0, D, {}, D))
         /\ After(d, InitWrites(d, c, parent)) = InitDir(d, c, parent)
         /\ Kept(d0, InitDir(d, c, parent), D, {}, D)
<1>0. c \in Cluster /\ c # 0 /\ c \in DirCluster /\ d \in Disk
  BY Numbers DEF IsHead, DirCluster, Kept, SoundDisk
<1> DEFINE dot(name, first) == [name |-> name, dir |-> TRUE, first |-> first, size |-> 0]
<1>d. PICK e1 : e1 = dot(".", c)
  OBVIOUS
<1>e. PICK e2 : e2 = dot("..", parent)
  OBVIOUS
<1>f. e1 \in Entry /\ e2 \in Entry /\ EndEntry \in Entry
  BY <1>0, <1>d, <1>e, Entries DEF Entry, Live, Special, DirCluster, Free
<1>1. PICK d1 : d1 = WriteSlot(d, c, 0, e1).disk
  OBVIOUS
<1>2. PICK d2 : d2 = WriteSlot(d1, c, 1, e2).disk
  OBVIOUS
<1>3. PICK d3 : d3 = WriteSlot(d2, c, 2, EndEntry).disk
  OBVIOUS
<1>4. PICK s : s = InitWrites(d, c, parent)
  OBVIOUS
<1>5. s = IF OnDisk(c) THEN <<d1, d2, d3>> ELSE <<>>
  BY <1>d, <1>e, <1>1, <1>2, <1>3, <1>4 DEF InitWrites
<1>6. InitDir(d, c, parent) = d3
  BY <1>d, <1>e, <1>1, <1>2, <1>3 DEF InitDir
<1> HIDE DEF dot
<1>7. CASE OnDisk(c)
  <2>1. Kept(d0, d1, D, {}, D) /\ IsHead(d1.fat, c) /\ ReadSlot(d1, c, 0).name # Missing
    BY <1>f, <1>1, <1>7, InitStep
  <2>2. 1 - 1 = 0 /\ 2 - 1 = 1
    OBVIOUS
  <2>3. Kept(d0, d2, D, {}, D) /\ IsHead(d2.fat, c) /\ ReadSlot(d2, c, 1).name # Missing
    BY <1>f, <1>2, <1>7, <2>1, <2>2, InitStep
  <2>4. Kept(d0, d3, D, {}, D)
    BY <1>f, <1>3, <1>7, <2>2, <2>3, InitStep
  <2>5. d1 \in Keeping(d0, D, {}, D) /\ d2 \in Keeping(d0, D, {}, D) /\ d3 \in Keeping(d0, D, {}, D)
    BY <2>1, <2>3, <2>4 DEF Keeping, Kept, SoundDisk
  <2>6. s = <<d1, d2, d3>>
    BY <1>5, <1>7
  <2>7. s \in Seq(Keeping(d0, D, {}, D)) /\ s # <<>> /\ Len(s) = 3 /\ s[3] = d3
    BY <2>5, <2>6
  <2>8. After(d, s) = d3
    BY <2>7 DEF After, Last
  <2> QED BY <1>4, <1>6, <2>4, <2>7, <2>8
<1>8. CASE ~OnDisk(c)
  <2>1. d1 = d
    BY <1>0, <1>1, <1>8, NotInited
  <2>2. d2 = d
    BY <1>0, <1>2, <1>8, <2>1, NotInited
  <2>3. d3 = d
    BY <1>0, <1>3, <1>8, <2>2, NotInited
  <2>4. s = <<>>
    BY <1>5, <1>8
  <2>5. s \in Seq(Keeping(d0, D, {}, D)) /\ After(d, s) = d
    BY <2>4 DEF After
  <2> QED BY <1>4, <1>6, <2>3, <2>5
<1> QED BY <1>7, <1>8

\* fat12_makedir has the new directory; its entry is made, or the cluster is freed.
LEMMA EntryOrFreed ==
  ASSUME NEW d, NEW D, IsTree(d, D), NEW new, new \notin D, ~IsHead(d.fat, new),
         NEW parent, parent \in D, NEW d2, NEW D2, NewDir(d, D, d2, D2, new, parent),
         Kept(d, d2, D, {}, D), NEW e, DirEntry(e, new), \A i : ~Holds(d, parent, i, e.name),
         NEW made, made \in Seq(Keeping(d, D, {}, D)), After(d, made) = d2
  PROVE  MadeAndFreed(d, new, made \o CreateWrites(d2, parent, e), Room(d2, parent))
           \in Seq(Keeping(d, D, {}, D))
<1>1. /\ IsTree(d2, D2) /\ D2 = D \cup {new} /\ new \in Cluster /\ IsHead(d2.fat, new)
      /\ Changes(d, d2, D, {})
  BY DEF NewDir
<1>2. e \in Entry /\ e.name \in Name /\ e.name \notin {End, Deleted}
  BY FatAssumption DEF DirEntry, Special
<1>3. \A i : ~Holds(d2, parent, i, e.name)
  <2> SUFFICES ASSUME NEW i, Holds(d2, parent, i, e.name) PROVE FALSE
    OBVIOUS
  <2>0. i \in Nat
    BY DEF Holds
  <2>1. SameSlot(d, d2, parent, i)
    BY <1>1, <2>0 DEF Changes
  <2>2. /\ Listed(d2, parent, i) <=> Listed(d, parent, i)
        /\ Listed(d, parent, i) => ReadSlot(d2, parent, i) = ReadSlot(d, parent, i)
    BY <2>1, SameListed
  <2>3. Listed(d2, parent, i) /\ ReadSlot(d2, parent, i).name = e.name
    BY DEF Holds
  <2>4. Holds(d, parent, i, e.name)
    BY <2>0, <2>2, <2>3 DEF Holds
  <2> QED BY <2>4
<1>4. PICK s : s = CreateWrites(d2, parent, e)
  OBVIOUS
<1>5. PICK v : v = Create(d2, parent, e)
  OBVIOUS
<1>6. s \in Seq(Keeping(d2, D2, {}, {parent})) /\ After(d2, s) = v.disk
  <2>1. parent \in D2
    BY <1>1
  <2>2. IsTree(d2, D2)
    BY <1>1
  <2>3. /\ CreateWrites(d2, parent, e) \in Seq(Keeping(d2, D2, {}, {parent}))
        /\ After(d2, CreateWrites(d2, parent, e)) = Create(d2, parent, e).disk
    BY <1>2, <1>3, <2>1, <2>2, CreateKept
  <2> QED BY <1>4, <1>5, <2>3
<1>7. Keeping(d2, D2, {}, {parent}) \subseteq Keeping(d, D, {}, D)
  <2>1. D \subseteq D2 /\ {parent} \subseteq D
    BY <1>1
  <2> QED BY <2>1, KeepingTwice
<1>8. /\ s \in Seq(Keeping(d, D, {}, D)) /\ made \o s \in Seq(Keeping(d, D, {}, D))
      /\ After(d, made \o s) = v.disk
  <2>1. s \in Seq(Keeping(d, D, {}, D))
    BY <1>6, <1>7, SeqLarger
  <2> QED BY <1>6, <2>1, AfterJoin
<1>9. SoundDisk(d2) /\ Dir(d2, parent)
  BY <1>1, DirIs
<1>10. v.ok = Room(d2, parent)
  <2>1. v.ok = WriteSlot(d2, parent, FirstSlot(d2, parent, {End, Deleted}), e).ok
    BY <1>2, <1>5, <1>9, CreateMakes
  <2> QED BY <2>1, AnyEntry DEF Room
<1>11. CASE Room(d2, parent)
  BY <1>4, <1>8, <1>11 DEF MadeAndFreed
<1>12. CASE ~Room(d2, parent)
  <2>1. PICK w : w = v.disk /\ w = After(d2, s)
    BY <1>6
  <2>2. MadeAndFreed(d, new, made \o s, Room(d2, parent)) = (made \o s) \o FreeWrites(w, new)
    BY <1>8, <1>12, <2>1 DEF MadeAndFreed
  <2>3. Untouched(d2, w)
    <3>1. Created(d2, v, parent, e)
      BY <1>2, <1>5, <1>9, CreateIs
    <3> QED BY <1>10, <1>12, <2>1, <3>1 DEF Created
  <2>4. SoundDisk(w) /\ IsHead(w.fat, new)
    BY <1>1, <2>3 DEF Untouched, SameHeads
  <2>5. FreeWrites(w, new) \in Seq(AllBesides(w, new))
    BY <2>4, FreeWritesIs
  <2>6. Kept(d, w, D, {}, D)
    <3>1. CASE s = <<>>
      <4>1. w = d2
        BY <2>1, <3>1 DEF After
      <4> QED BY <4>1
    <3>2. CASE s # <<>>
      <4>1. w \in Keeping(d, D, {}, D)
        BY <1>8, <2>1, <3>2, AfterIs
      <4> QED BY <4>1 DEF Keeping
    <3> QED BY <3>1, <3>2
  <2>7. AllBesides(w, new) \subseteq Keeping(d, D, {}, D)
    <3> SUFFICES ASSUME NEW u \in Disk, Besides(w, u, new) PROVE Kept(d, u, D, {}, D)
      BY DEF AllBesides, Keeping
    <3> QED BY <2>6, BesidesKept
  <2>8. FreeWrites(w, new) \in Seq(Keeping(d, D, {}, D))
    BY <2>5, <2>7, SeqLarger
  <2>9. (made \o s) \o FreeWrites(w, new) \in Seq(Keeping(d, D, {}, D))
    BY <1>8, <2>8, AfterJoin
  <2> QED BY <1>4, <2>2, <2>9
<1> QED BY <1>11, <1>12

\* fat12_makedir
LEMMA MakeDirKeeps ==
  ASSUME NEW D, IsTree(disk, D), NEW p, IsPath(p), NEW r, Finds(disk, D, p, r),
         NEW new, new = FreeCluster(disk)
  PROVE  MakeDirWrites(p, r, new) \in Seq(Keeping(disk, D, {}, D))
<1>1. CASE r.slot # None \/ r.dir = None \/ new = None
  BY <1>1 DEF MakeDirWrites
<1>2. CASE r.slot = None /\ r.dir # None /\ new # None
  <2>1. PICK c : c = r.dir
    OBVIOUS
  <2>2. c \in D /\ \A i : ~Holds(disk, c, i, p[Len(p)])
    BY <1>2, <2>1 DEF Finds, None
  <2>3. SoundDisk(disk) /\ c \in DirCluster
    BY <2>2, DirIs
  <2>4. PICK e : e = [name |-> Last(p), dir |-> TRUE, first |-> new, size |-> 0]
    OBVIOUS
  <2>5. PICK d1 : d1 = Allocated(disk, Free)
    OBVIOUS
  <2>6. PICK d2 : d2 = InitDir(d1, new, c)
    OBVIOUS
  <2>7. PICK D2 : D2 = D \cup {new}
    OBVIOUS
  <2>8. NewDir(disk, D, d2, D2, new, c)
    BY <1>2, <2>2, <2>5, <2>6, <2>7, NewDirIs
  <2>9. new \notin D /\ new \in Cluster
    BY <2>8 DEF NewDir
  <2>10. Besides(disk, d1, new) /\ IsHead(d1.fat, new) /\ ~IsHead(disk.fat, new) /\ d1 \in Disk
    BY <1>2, <2>3, <2>5, BesidesNew
  <2>11. Kept(disk, disk, D, {}, D)
    <3>1. Kept(disk, disk, D, {}, {})
      BY KeptSelf
    <3> QED BY <3>1, KeptWider
  <2>12. Kept(disk, d1, D, {}, D)
    BY <2>9, <2>10, <2>11, BesidesKept
  <2>13. /\ InitWrites(d1, new, c) \in Seq(Keeping(disk, D, {}, D))
         /\ After(d1, InitWrites(d1, new, c)) = d2 /\ Kept(disk, d2, D, {}, D)
    BY <2>3, <2>6, <2>9, <2>10, <2>12, InitKept
  <2>14. AllocateWrites(disk, Free) = <<d1>>
    <3>1. disk.fat[new] = Free
      BY <1>2, <2>9, FreeClusterIs
    <3>2. Free \notin Cluster
      BY Numbers
    <3> QED BY <2>5, <2>9, <3>1, <3>2 DEF AllocateWrites
  <2>15. PICK made : made = <<d1>> \o InitWrites(d1, new, c)
    OBVIOUS
  <2>16. made \in Seq(Keeping(disk, D, {}, D)) /\ After(disk, made) = d2
    <3>1. d1 \in Keeping(disk, D, {}, D)
      BY <2>10, <2>12 DEF Keeping
    <3>2. <<d1>> \in Seq(Keeping(disk, D, {}, D)) /\ After(disk, <<d1>>) = d1
      BY <3>1, AfterOne
    <3>3. PICK t : t = <<d1>>
      OBVIOUS
    <3>4. PICK u : u = InitWrites(d1, new, c)
      OBVIOUS
    <3>5. t \in Seq(Keeping(disk, D, {}, D)) /\ u \in Seq(Keeping(disk, D, {}, D))
          /\ After(disk, t) = d1 /\ After(d1, u) = d2
      BY <2>13, <3>2, <3>3, <3>4
    <3>6. made = t \o u
      BY <2>15, <3>3, <3>4
    <3>7. t \o u \in Seq(Keeping(disk, D, {}, D)) /\ After(disk, t \o u) = After(After(disk, t), u)
      BY <3>5, AfterJoin
    <3> QED BY <3>5, <3>6, <3>7
  <2>17. DirEntry(e, new) /\ \A i : ~Holds(disk, c, i, e.name)
    <3>1. Last(p) = p[Len(p)] /\ p[Len(p)] \in Name
      BY PathNames DEF Last
    <3> QED BY <2>2, <2>4, <2>9, <3>1 DEF DirEntry, Entry, Live
  <2>18. PICK s : s = CreateWrites(d2, c, e)
    OBVIOUS
  <2>19. PICK ok : ok = Room(d2, c)
    OBVIOUS
  <2>20. MakeDirWrites(p, r, new) = MadeAndFreed(disk, new, made \o s, ok)
    <3>1. MakeDirWrites(p, r, new) = MakeDirSteps(p, c, new, made)
      BY <1>2, <2>1, <2>5, <2>14, <2>15 DEF MakeDirWrites
    <3> QED BY <2>4, <2>16, <2>18, <2>19, <3>1 DEF MakeDirSteps
  <2> QED BY <2>2, <2>8, <2>9, <2>10, <2>13, <2>16, <2>17, <2>18, <2>19, <2>20, EntryOrFreed
<1> QED BY <1>1, <1>2

-----------------------------------------------------------------------------
(***************************************************************************)
(* fat12_removefile and fat12_removedir, write by write.                   *)
(***************************************************************************)
\* A path goes by the entry of another one only if it goes on below it.
LEMMA NotBelow ==
  ASSUME NEW d, NEW D, IsTree(d, D), NEW p, IsPath(p), NEW b, NEW j, Step(d, p, Len(p), b, j),
         NEW path, IsPath(path), ~IsPrefix(p, path)
  PROVE  \A n \in 1 .. Len(path) : ~Step(d, path, n, b, j)
<1> SUFFICES ASSUME NEW n \in 1 .. Len(path), Step(d, path, n, b, j) PROVE FALSE
  OBVIOUS
<1>1. Len(p) \in 1 .. Len(p)
  BY PathNames
<1>2. Len(p) = n /\ \A k \in 1 .. Len(p) : p[k] = path[k]
  BY <1>1, PathUnique
<1>3. p \in Seq(Name) /\ path \in Seq(Name) /\ Len(p) \in Nat /\ Len(path) \in Nat /\ Len(p) <= Len(path)
  BY <1>2 DEF IsPath
<1>4. SubSeq(p, 1, Len(p)) = SubSeq(path, 1, Len(p))
  BY <1>2, <1>3
<1> QED BY <1>3, <1>4 DEF IsPrefix

\* Freeing the chain of what p leads to, which is empty if it is a directory, keeps the rest.
LEMMA RemoveKeeps ==
  ASSUME NEW D, IsTree(disk, D), NEW p, IsPath(p), NEW r, r.slot # None, Finds(disk, D, p, r),
         r.entry.dir => IsEmpty(disk, r.entry.first),
         NEW path, path \in DOMAIN Tree(disk), ~IsPrefix(p, path)
  PROVE  \E X, C : /\ Avoids(disk, path, X) /\ NoneOf(disk, path, C)
                   /\ Range(Front(<<disk>> \o RemoveWrites(r))) \subseteq Keeping(disk, D, X, C)
<1>1. PICK c : c = r.dir
  OBVIOUS
<1>2. PICK i : i = r.slot
  OBVIOUS
<1>3. PICK e : e = ReadSlot(disk, c, i)
  OBVIOUS
<1>4. Step(disk, p, Len(p), c, i) /\ r.entry = e
  BY <1>1, <1>2, <1>3 DEF Finds
<1>5. c \in D /\ i \in Nat /\ Listed(disk, c, i)
  <2>1. Len(p) \in 1 .. Len(p)
    BY PathNames
  <2> QED BY <1>4, <2>1, OneStep
<1>6. PICK x : x = e.first
  OBVIOUS
<1>7. Proper(disk, D, e)
  BY <1>3, <1>5 DEF IsTree, AllProper
<1>8. SoundDisk(disk) /\ disk \in Disk
  BY DEF IsTree, Directories, SoundDisk
<1>9. x = Free \/ IsHead(disk.fat, x)
  <2>1. CASE e.dir
    <3>1. x \in D /\ x # 0
      BY <1>6, <1>7, <2>1 DEF Proper
    <3>2. Dir(disk, x)
      BY <3>1, DirIs
    <3> QED BY <3>1, <3>2 DEF Dir
  <2>2. CASE ~e.dir
    BY <1>6, <1>7, <2>2 DEF Proper
  <2> QED BY <2>1, <2>2
<1>10. PICK s : s = FreeWrites(disk, x)
  OBVIOUS
<1>11. s \in Seq(AllBesides(disk, x)) /\ (x = Free => s = <<>>)
  BY <1>8, <1>9, <1>10, FreeWritesIs
<1>12. RemoveWrites(r) = Append(s, Erased(After(disk, s), r))
  BY <1>4, <1>6, <1>10 DEF RemoveWrites, ErasedAfter
<1>13. PICK X : X = {y \in {x} \X Nat : x # Free /\ x \in D}
  OBVIOUS
<1>14. PICK C : C = {x}
  OBVIOUS
<1>15. Kept(disk, disk, D, X, C)
  <2>1. Kept(disk, disk, D, {}, {})
    BY KeptSelf
  <2> QED BY <2>1, KeptWider
<1>16. s \in Seq(Keeping(disk, D, X, C))
  <2>1. CASE x = Free
    BY <1>11, <2>1
  <2>2. CASE x # Free
    <3> SUFFICES AllBesides(disk, x) \subseteq Keeping(disk, D, X, C)
      BY <1>11, SeqLarger
    <3> SUFFICES ASSUME NEW w \in Disk, Besides(disk, w, x) PROVE Kept(disk, w, D, X, C)
      BY DEF AllBesides, Keeping
    <3>1. x \in C
      BY <1>14
    <3>2. x \in D => \A k \in Nat : InUse(disk, x, k) => <<x, k>> \in X
      BY <1>13, <2>2
    <3> QED BY <1>15, <3>1, <3>2, BesidesKept
  <2> QED BY <2>1, <2>2
<1>17. Range(Front(<<disk>> \o RemoveWrites(r))) \subseteq Keeping(disk, D, X, C)
  <2>1. disk \in Keeping(disk, D, X, C)
    BY <1>8, <1>15 DEF Keeping
  <2> QED BY <1>12, <1>16, <2>1, BetweenButLast
<1>18. Avoids(disk, path, X)
  <2> SUFFICES ASSUME NEW b, NEW j, <<b, j>> \in X PROVE ~Listed(disk, b, j)
    BY NoStep
  <2>1. b = x /\ j \in Nat /\ x # Free /\ x \in D
    BY <1>13
  <2>2. e.dir
    BY <1>6, <1>7, <2>1 DEF Proper
  <2>3. IsEmpty(disk, x)
    BY <1>4, <1>6, <2>2
  <2>4. Empty(disk, x)
    BY <2>1, <2>3, EmptyIs
  <2> QED BY <2>1, <2>4 DEF Empty
<1>19. NoneOf(disk, path, C)
  <2> SUFFICES ASSUME NEW b, NEW j, Step(disk, path, Len(path), b, j), ReadSlot(disk, b, j).first = x,
                      x # Free
               PROVE  FALSE
    BY <1>14 DEF NoneOf
  <2>1. IsPath(path)
    BY TreeIs
  <2>2. Len(path) \in 1 .. Len(path)
    BY <2>1, PathNames
  <2>3. b \in D /\ j \in Nat /\ Listed(disk, b, j)
    BY <2>1, <2>2, OneStep
  <2>4. b # c \/ j # i
    BY <1>4, <2>1, <2>2, NotBelow
  <2>5. Apart(disk, b, j, c, i)
    BY <1>5, <2>3, <2>4 DEF IsTree, AllApart
  <2> QED BY <1>3, <1>6, <2>5 DEF Apart
<1> QED BY <1>17, <1>18, <1>19

-----------------------------------------------------------------------------
(***************************************************************************)
(* fat12_write, write by write: what it changes on the disk.               *)
(***************************************************************************)
\* fat12_write's walk to the cluster at the cursor leaves the other chains alone.
LEMMA ReachAside ==
  ASSUME NEW d, SoundDisk(d), NEW h, IsHead(d.fat, h)
  PROVE  \A m \in Nat : Aside(d, Reach(d, h, m, FALSE).disk, {h})
<1>0. d \in Disk /\ h \in Cluster
  BY DEF SoundDisk, IsHead
<1> DEFINE W(k) == Reach(d, h, k, FALSE)
           P(k) == Aside(d, W(k).disk, {h})
           X == {k \in Nat : P(k)}
<1>1. 0 \in X
  <2>1. W(0) = [disk |-> d, at |-> h, ok |-> TRUE]
    BY <1>0, ReachSteps
  <2>2. W(0).disk = d
    <3>1. PICK w : w = W(0)
      OBVIOUS
    <3>2. w = [disk |-> d, at |-> h, ok |-> TRUE]
      BY <2>1, <3>1
    <3>3. w.disk = d
      BY <3>2
    <3> QED BY <3>1, <3>3
  <2>3. Aside(d, d, {h})
    BY DEF Aside, Spares, SameChain
  <2>4. P(0)
    BY <2>2, <2>3
  <2> HIDE DEF P
  <2> QED BY <2>4
<1>2. ASSUME NEW k \in Nat, k \in X PROVE k + 1 \in X
  <2>1. PICK w : w = W(k)
    OBVIOUS
  <2>2. PICK v : v = W(k + 1)
    OBVIOUS
  <2>3. v = Hop(w, FALSE) /\ w \in Walk
    BY <1>0, <2>1, <2>2, ReachSteps
  <2>4. Reached(d, w, h) /\ Aside(d, w.disk, {h})
    BY <1>2, <2>1, ReachFile
  <2>5. PICK j \in Nat : w.at = Nth(w.disk.fat, h, j)
    BY <2>4 DEF Reached
  <2>6. PICK e : e = w.disk
    OBVIOUS
  <2>7. SoundDisk(e) /\ IsHead(e.fat, h) /\ w.at \in Cluster
    BY <2>3, <2>4, <2>6 DEF Reached, Elsewhere, SameHeads, Walk
  <2>h. Hopped(w, v, FALSE)
    BY <2>3, HopIs
  <2>y. Aside(d, v.disk, {h}) => P(k + 1)
    BY <2>2
  <2>x. Aside(d, v.disk, {h}) => k + 1 \in X
    <3> HIDE DEF P
    <3> QED BY <2>y
  <2> HIDE DEF X, W
  <2>8. CASE v.disk = w.disk
    BY <2>x, <2>4, <2>8
  <2>9. CASE v.disk # w.disk
    <3>1. PICK at : at = w.at
      OBVIOUS
    <3>2. PICK new : new = FreeCluster(e)
      OBVIOUS
    <3>3. PICK e2 : e2 = v.disk
      OBVIOUS
    <3>4. at \in Cluster /\ e.fat[at] \notin Cluster /\ new # None /\ e2 = Zeroed(Allocated(e, at), new, FALSE)
      BY <2>h, <2>6, <2>7, <2>9, <3>1, <3>2, <3>3 DEF Hopped
    <3>5. at = Nth(e.fat, h, j)
      BY <2>5, <2>6, <3>1
    <3>6. Grew(e, e2, h, j, new)
      BY <2>7, <3>2, <3>4, <3>5, GrownAside
    <3>7. Aside(d, e, {h}) /\ Aside(e, e2, {h})
      BY <2>4, <2>6, <3>6 DEF Grew
    <3>8. Aside(d, e2, {h})
      BY <3>7, AsideTwice
    <3> QED BY <2>x, <3>3, <3>8
  <2> QED BY <2>8, <2>9
<1> HIDE DEF X
<1>3. \A k \in Nat : k \in X
  BY <1>1, <1>2, AllNumbers
<1> QED BY <1>3 DEF X

\* Only what is at h changes, and its chain begins there still.
Only(d, d2, h) == Besides(d, d2, h) /\ d2 \in Disk /\ SameHeads(d, d2)

\* The walk changes the file's chain at most, and stops in it.
LEMMA ReachOnly ==
  ASSUME NEW d, SoundDisk(d), NEW h, IsHead(d.fat, h), NEW m, m \in Nat, NEW zero, zero \in BOOLEAN, ~zero,
         NEW u, u = Reach(d, h, m, zero)
  PROVE  Only(d, u.disk, h) /\ u.at \in Cluster /\ \E j \in Nat : u.at = Nth(u.disk.fat, h, j)
<1>1. zero = FALSE
  OBVIOUS
<1>2. u = Reach(d, h, m, FALSE)
  BY <1>1, Zenon
<1>3. Aside(d, u.disk, {h})
  BY <1>2, ReachAside
<1>4. Reached(d, u, h)
  BY <1>2, ReachFile
<1>5. \A g : Dir(d, g) => Dir(u.disk, g)
  BY <1>4 DEF Reached, Elsewhere, SameHeads, Dir
<1> QED BY <1>3, <1>4, <1>5 DEF Reached, Elsewhere, Walk, Only, Besides

\* The cluster is marked, and linked when the walk has gone on to it.
LEMMA GrowthOnly ==
  ASSUME NEW d, SoundDisk(d), NEW h, IsHead(d.fat, h), NEW m, m \in Nat,
         NEW zero, zero \in BOOLEAN, ~zero, NEW u, u = Reach(d, h, m, zero),
         u.disk # d, NEW new, new = FreeCluster(d), new # None, NEW at, at = Nth(d.fat, h, m - 1), at \in Cluster,
         NEW d2, d2 = Allocated(d, at)
  PROVE  Only(d, d2, h)
<1>0. d \in Disk /\ SoundFat(d.fat) /\ d.fat \in [Cluster -> FatValue] /\ h \in Cluster /\ h \in FatValue
  BY DEF SoundDisk, SoundFat, IsHead, FatValue
<1>2. Nth(d.fat, h, m) \notin Cluster
  <2> SUFFICES ASSUME Nth(d.fat, h, m) \in Cluster PROVE FALSE
    OBVIOUS
  <2>1. Reach(d, h, m, zero) = [disk |-> d, at |-> Nth(d.fat, h, m), ok |-> TRUE]
    BY ReachWithin
  <2> QED BY <2>1
<1>3. m # 0
  BY <1>0, <1>2, NthSteps
<1>4. PICK j \in Nat : j = m - 1
  BY <1>3
<1>5. at = Nth(d.fat, h, j) /\ Nth(d.fat, h, j + 1) \notin Cluster
  BY <1>2, <1>4
<1>6. d.fat[at] \notin Cluster
  BY <1>0, <1>5, NthNext
<1>7. d2 = Zeroed(Allocated(d, at), new, zero)
  BY DEF Zeroed
<1>8. Grew(d, d2, h, j, new)
  BY <1>5, <1>6, <1>7, GrownAside
<1>9. Elsewhere(d, d2, h) /\ Aside(d, d2, {h})
  BY <1>8, LongerIs DEF Grew
<1>10. \A g : Dir(d, g) => Dir(d2, g)
  BY <1>9 DEF Elsewhere, SameHeads, Dir
<1> QED BY <1>9, <1>10 DEF Elsewhere, SoundDisk, Only, Besides

\* Bytes are written to a cluster of the file.
WithData(d, at, b, s) == [d EXCEPT !.bytes[at] = b, !.slots[at] = s]

\* Bytes in a cluster of the file are the file's only.
LEMMA BytesOnly ==
  ASSUME NEW d, SoundDisk(d), NEW h, IsHead(d.fat, h), NEW j, j \in Nat, NEW at, at = Nth(d.fat, h, j),
         at \in Cluster, NEW b, b \in [0 .. ClusterBytes - 1 -> Byte \cup {JunkByte}],
         NEW s, s \in [Slots(at) -> Entry], NEW d2, d2 = WithData(d, at, b, s)
  PROVE  Only(d, d2, h)
<1>0. d \in Disk /\ at \in DirCluster
  BY DEF SoundDisk, DirCluster
<1>1. PICK fat : fat = d.fat
  OBVIOUS
<1>2. PICK slots : slots = d.slots
  OBVIOUS
<1>3. PICK bytes : bytes = d.bytes
  OBVIOUS
<1>4. /\ d = [fat |-> fat, slots |-> slots, bytes |-> bytes]
      /\ fat \in [Cluster -> FatValue] /\ slots \in SlotTable /\ bytes \in ByteTable
  BY <1>0, <1>1, <1>2, <1>3, DiskParts
<1>5. PICK slots2 : slots2 = Put(slots, at, s)
  OBVIOUS
<1>6. PICK bytes2 : bytes2 = Put(bytes, at, b)
  OBVIOUS
<1>7. slots2 \in SlotTable /\ \A e \in DirCluster : e # at => slots2[e] = slots[e]
  BY <1>0, <1>4, <1>5, PutSlots
<1>8. bytes2 \in ByteTable
  BY <1>4, <1>6, PutBytes
<1>9. \A y \in Cluster : y # at => bytes2[y] = bytes[y]
  BY <1>4, <1>6 DEF Put, ByteTable
<1>10. d2 = [fat |-> fat, slots |-> slots2, bytes |-> bytes2]
  BY <1>4, <1>5, <1>6 DEF Put, WithData
<1>11. [fat |-> fat, slots |-> slots2, bytes |-> bytes2] \in Disk
  BY <1>4, <1>7, <1>8, DiskOf
<1>12. d2 \in Disk /\ d2.fat = fat /\ d2.slots = slots2 /\ d2.bytes = bytes2
  BY <1>10, <1>11
<1>13. Elsewhere(d, d2, h)
  BY <1>1, <1>2, <1>7, <1>12, DataElsewhere
<1>14. Aside(d, d2, {h})
  <2>1. Dir(d, h)
    BY DEF Dir
  <2>2. \A x : IsHead(d.fat, x) => IsHead(d2.fat, x)
    BY <1>1, <1>12
  <2>3. \A y \in Cluster : d.fat[y] # Free /\ (\A k \in Nat : Nth(d.fat, h, k) # y) =>
                             d2.fat[y] = d.fat[y] /\ d2.bytes[y] = d.bytes[y]
    BY <1>1, <1>3, <1>9, <1>12
  <2> QED BY <1>12, <2>1, <2>2, <2>3, OnlyThere
<1>15. \A g : Dir(d, g) => Dir(d2, g)
  BY <1>13 DEF Elsewhere, SameHeads, Dir
<1> QED BY <1>12, <1>13, <1>14, <1>15 DEF Elsewhere, Only, Besides

-----------------------------------------------------------------------------
(***************************************************************************)
(* fat12_write, write by write: what it keeps.                             *)
(***************************************************************************)
\* What is at x need not be kept.
Loose(d, D, X, C, x) ==
  /\ x \in C \/ ~IsHead(d.fat, x)
  /\ x \in D => \A i \in Nat : InUse(d, x, i) => <<x, i>> \in X

\* What changes there keeps everything.
LEMMA LooseKept ==
  ASSUME NEW d0, NEW D, NEW X, NEW C, NEW d, Kept(d0, d, D, X, C), NEW x, Loose(d0, D, X, C, x),
         NEW w, Besides(d, w, x)
  PROVE  Kept(d0, w, D, X, C)
<1>1. x \in C \/ ~IsHead(d0.fat, x)
  BY DEF Loose
<1>2. x \in D => \A i \in Nat : InUse(d0, x, i) => <<x, i>> \in X
  BY DEF Loose
<1> QED BY <1>1, <1>2, BesidesKept

\* A cluster that begins no chain has nothing to keep.
LEMMA NewLoose ==
  ASSUME NEW d0, NEW D, NEW X, NEW C, NEW d, Kept(d0, d, D, X, C), NEW x, x # 0, ~IsHead(d.fat, x)
  PROVE  Loose(d0, D, X, C, x)
<1>1. x \in C \/ ~IsHead(d0.fat, x)
  BY DEF Kept, Aside, Spares
<1>2. ASSUME x \in D, NEW i \in Nat, InUse(d0, x, i), <<x, i>> \notin X PROVE FALSE
  <2>1. Dir(d, x)
    BY <1>2 DEF Kept, SlotsKept
  <2> QED BY <2>1 DEF Dir
<1> QED BY <1>1, <1>2 DEF Loose

\* The entry of the file gets its first cluster or its size; it need not be kept.
LEMMA PatchedKept ==
  ASSUME NEW d0, NEW D, NEW X, NEW C, NEW d, Kept(d0, d, D, X, C), NEW file,
         NEW c, c = file.parent_cluster, c \in C, Dir(d, c), NEW i, i = file.entry_idx, i \in Nat,
         <<c, i>> \in X, InUse(d, c, i), NEW field, NEW x,
         (field = "first" /\ x \in Cluster) \/ (field = "size" /\ x \in Nat),
         NEW d2, d2 = Patched(d, file, field, x)
  PROVE  Kept(d0, d2, D, X, C) /\ d2 \in Disk
<1>0. d \in Disk /\ c \in DirCluster /\ SoundDisk(d)
  BY DEF Kept, SoundDisk, Dir, DirCluster, IsHead
<1>1. PICK e : e = ReadSlot(d, c, i)
  OBVIOUS
<1>2. e \in Entry /\ e.name \notin {End, Missing, Deleted}
  BY <1>0, <1>1, InUseIs
<1>3. PICK g : g = Changed(e, field, x)
  OBVIOUS
<1>4. g \in Entry
  <2>1. CASE field = "first" /\ x \in Cluster
    <3>1. g = [e EXCEPT !.first = x]
      BY <1>3, <2>1 DEF Changed
    <3> QED BY <1>2, <2>1, <3>1 DEF Entry
  <2>2. CASE field = "size" /\ x \in Nat
    <3>1. g = [e EXCEPT !.size = x]
      BY <1>3, <2>2 DEF Changed
    <3> QED BY <1>2, <2>2, <3>1 DEF Entry
  <2> QED BY <2>1, <2>2
<1>5. PICK v : v = WriteSlot(d, c, i, g)
  OBVIOUS
<1>6. d2 = v.disk
  BY <1>1, <1>2, <1>3, <1>5 DEF Patched
<1>7. i # 0 => ReadSlot(d, c, i - 1).name # Missing
  <2> SUFFICES ASSUME i # 0 PROVE ReadSlot(d, c, i - 1).name # Missing
    OBVIOUS
  <2>1. i - 1 \in 0 .. i
    OBVIOUS
  <2> QED BY <2>1 DEF InUse, Seen
<1>8. Aside(d, d2, {c})
  BY <1>0, <1>4, <1>5, <1>6, <1>7, WriteAside
<1>9. Aside(d, d2, C)
  BY <1>8 DEF Aside
<1>10. Edited(d, d2, c, i) /\ ReadSlot(d2, c, i).name = ReadSlot(d, c, i).name
  <2>1. CASE field = "first" /\ x \in Cluster
    <3>1. d2 = Patched(d, file, "first", x)
      BY <2>1
    <3>2. Patches(d, d2, c, i, x, ReadSlot(d, c, i).size)
      BY <1>0, <2>1, <3>1, PatchFirst
    <3> QED BY <3>2 DEF Patches
  <2>2. CASE field = "size" /\ x \in Nat
    <3>1. d2 = Patched(d, file, "size", x)
      BY <2>2
    <3>2. Patches(d, d2, c, i, ReadSlot(d, c, i).first, x)
      BY <1>0, <2>2, <3>1, PatchSize
    <3> QED BY <3>2 DEF Patches
  <2> QED BY <2>1, <2>2
<1>11. Kept(d0, d2, D, X, C)
  BY <1>9, <1>10, EditKept
<1> QED BY <1>10, <1>11 DEF Edited, SoundDisk

\* The entry of an open file, and what its directories and its data take.
Own(F) == {<<F.parent_cluster, F.entry_idx>>}
Its(D, F) == D \cup {F.first_cluster}

\* fat12_write's loop is on its way: what is not the file's is kept.
OnWay(d, D, of, f, w) ==
  /\ Writing(of, f, w) /\ Kept(d, w.disk, D, Own(of[f]), Its(D, of[f]))
  /\ w.file.parent_cluster = of[f].parent_cluster /\ w.file.entry_idx = of[f].entry_idx
  /\ of[f].parent_cluster \in D
  /\ w.file.first_cluster # Free => Loose(d, D, Own(of[f]), Its(D, of[f]), w.file.first_cluster)

\* The disks on which it is.
Wayside(d, D, F) == Keeping(d, D, Own(F), Its(D, F))

\* What OnWay says of the handle.
LEMMA OnWayIs ==
  ASSUME NEW of, of \in [Handle -> File \cup {Closed}], NEW f, f \in Handle, NEW d0, NEW D, NEW w,
         OnWay(d0, D, of, f, w), NEW c, c = w.file.parent_cluster, NEW i, i = w.file.entry_idx,
         NEW h, h = w.file.first_cluster
  PROVE  /\ w.file \in File /\ w.disk \in Disk /\ SoundDisk(w.disk)
         /\ Dir(w.disk, c) /\ i \in Nat /\ InUse(w.disk, c, i) /\ <<c, i>> \in Own(of[f]) /\ c \in Its(D, of[f])
         /\ h # Free => IsHead(w.disk.fat, h) /\ h # c
<1>1. Writing(of, f, w)
  BY DEF OnWay
<1>2. w.file \in File /\ w.disk \in Disk /\ \E E : Entered(w.disk, E, of, f, w.file)
  BY <1>1, WritingIs
<1>3. PICK E : Entered(w.disk, E, of, f, w.file)
  BY <1>2
<1>4. /\ c \in E /\ IsTree(w.disk, E) /\ i \in Nat /\ InUse(w.disk, c, i)
      /\ h # Free => IsHead(w.disk.fat, h) /\ h \notin E
  BY <1>3 DEF Entered, Listed
<1>5. Dir(w.disk, c) /\ SoundDisk(w.disk)
  BY <1>4, DirIs
<1>6. <<c, i>> \in Own(of[f]) /\ c \in Its(D, of[f])
  BY DEF OnWay, Own, Its
<1> QED BY <1>2, <1>4, <1>5, <1>6

\* A file gets its first cluster.
LEMMA StartKept ==
  ASSUME NEW of, of \in [Handle -> File \cup {Closed}], NEW f, f \in Handle, NEW d0, NEW D, NEW w,
         OnWay(d0, D, of, f, w), NEW s, s = Started(w)
  PROVE  /\ OnWay(d0, D, of, f, s) /\ (s.go => s.file.first_cluster # Free)
         /\ (IF s.disk = w.disk THEN <<>> ELSE Append(AllocateWrites(w.disk, Free), s.disk))
              \in Seq(Wayside(d0, D, of[f]))
<1>1. Writing(of, f, w)
  BY DEF OnWay
<1>2. Writing(of, f, s) /\ (s.go => s.file.first_cluster # Free)
  BY <1>1, StartedIs
<1>3. PICK d : d = w.disk
  OBVIOUS
<1>4. PICK file : file = w.file
  OBVIOUS
<1>5. PICK new : new = FreeCluster(d)
  OBVIOUS
<1>6. PICK d1 : d1 = Allocated(d, Free)
  OBVIOUS
<1>7. PICK d2 : d2 = Patched(d1, file, "first", new)
  OBVIOUS
<1>8. s = IF file.first_cluster # Free THEN w
          ELSE IF new = None THEN [w EXCEPT !.go = FALSE, !.failed = TRUE]
          ELSE [w EXCEPT !.file.first_cluster = new, !.disk = d2]
  BY <1>3, <1>4, <1>5, <1>6, <1>7 DEF Started
<1>9. CASE file.first_cluster # Free \/ new = None
  <2>1. s.disk = w.disk /\ s.file = w.file
    <3>1. CASE file.first_cluster # Free
      BY <1>8, <3>1, Zenon
    <3>2. CASE file.first_cluster = Free /\ new = None
      <4>1. s = [w EXCEPT !.go = FALSE, !.failed = TRUE]
        BY <1>8, <3>2, Zenon
      <4> QED BY <1>1, <4>1 DEF Writing, WriteStates
    <3> QED BY <1>9, <3>1, <3>2
  <2>2. OnWay(d0, D, of, f, s)
    BY <1>2, <2>1 DEF OnWay
  <2> QED BY <1>2, <2>1, <2>2
<1>10. CASE file.first_cluster = Free /\ new # None
  <2>1. s = [w EXCEPT !.file.first_cluster = new, !.disk = d2]
    BY <1>8, <1>10, Zenon
  <2>2. s.disk = d2 /\ s.file = [file EXCEPT !.first_cluster = new]
    <3>1. PICK G : G = [file EXCEPT !.first_cluster = new]
      OBVIOUS
    <3>2. s = [w EXCEPT !.file = G, !.disk = d2]
      BY <1>4, <2>1, <3>1
    <3> QED BY <1>1, <3>1, <3>2 DEF Writing, WriteStates
  <2>3. PICK c : c = file.parent_cluster
    OBVIOUS
  <2>4. PICK i : i = file.entry_idx
    OBVIOUS
  <2>5. /\ file \in File /\ d \in Disk /\ SoundDisk(d)
        /\ Dir(d, c) /\ i \in Nat /\ InUse(d, c, i) /\ <<c, i>> \in Own(of[f]) /\ c \in Its(D, of[f])
    BY <1>3, <1>4, <2>3, <2>4, OnWayIs
  <2>6. s.file.parent_cluster = c /\ s.file.entry_idx = i /\ s.file.first_cluster = new
    BY <2>2, <2>3, <2>4, <2>5 DEF File
  <2>7. PICK X : X = Own(of[f])
    OBVIOUS
  <2>8. PICK C : C = Its(D, of[f])
    OBVIOUS
  <2>9. Kept(d0, d, D, X, C)
    BY <1>3, <2>7, <2>8 DEF OnWay
  <2>10. Besides(d, d1, new) /\ IsHead(d1.fat, new) /\ ~IsHead(d.fat, new) /\ d1 \in Disk
    BY <1>5, <1>6, <1>10, <2>5, BesidesNew
  <2>11. new \in Cluster /\ new # 0
    BY <2>10, Numbers DEF IsHead
  <2>12. Loose(d0, D, X, C, new)
    BY <2>9, <2>10, <2>11, NewLoose
  <2>13. Kept(d0, d1, D, X, C)
    BY <2>9, <2>10, <2>12, LooseKept
  <2>14. Dir(d1, c) /\ InUse(d1, c, i)
    <3>1. c # new
      BY <2>5, <2>10, <2>11 DEF Dir
    <3>2. Dir(d1, c) /\ SameDir(d, d1, c)
      BY <2>5, <2>10, <3>1 DEF Besides
    <3> QED BY <2>5, <3>2, InUseSame DEF SameDir
  <2>15. Kept(d0, d2, D, X, C) /\ d2 \in Disk
    <3>1. PICK field : field = "first"
      OBVIOUS
    <3>2. d2 = Patched(d1, file, field, new)
      BY <1>7, <3>1
    <3>3. (field = "first" /\ new \in Cluster) \/ (field = "size" /\ new \in Nat)
      BY <2>11, <3>1
    <3> QED BY <2>3, <2>4, <2>5, <2>7, <2>8, <2>13, <2>14, <3>2, <3>3, PatchedKept
  <2>16. OnWay(d0, D, of, f, s)
    <3>1. of[f].parent_cluster = c /\ of[f].entry_idx = i /\ of[f].parent_cluster \in D
      BY <1>4, <2>3, <2>4 DEF OnWay
    <3> QED BY <1>2, <2>2, <2>6, <2>7, <2>8, <2>12, <2>15, <3>1 DEF OnWay
  <2>17. AllocateWrites(d, Free) \in {<<>>, <<d1>>}
    <3>1. Free \notin Cluster
      BY Numbers
    <3> QED BY <1>6, <3>1 DEF AllocateWrites
  <2>18. d1 \in Wayside(d0, D, of[f]) /\ d2 \in Wayside(d0, D, of[f])
    BY <2>7, <2>8, <2>10, <2>13, <2>15 DEF Wayside, Keeping
  <2>19. Append(AllocateWrites(d, Free), d2) \in Seq(Wayside(d0, D, of[f]))
    <3>1. PICK t : t = AllocateWrites(d, Free)
      OBVIOUS
    <3>2. PICK S : S = Wayside(d0, D, of[f])
      OBVIOUS
    <3>3. t \in Seq(S) /\ d2 \in S
      <4>1. d1 \in S /\ d2 \in S
        BY <2>18, <3>2
      <4>2. <<>> \in Seq(S) /\ <<d1>> \in Seq(S)
        BY <4>1, AfterOne
      <4> QED BY <2>17, <3>1, <4>1, <4>2
    <3>4. Append(t, d2) \in Seq(S)
      BY <3>3
    <3> QED BY <3>1, <3>2, <3>4
  <2> QED BY <1>2, <1>3, <2>2, <2>16, <2>19
<1> QED BY <1>9, <1>10

\* What a turn stores: bytes of the buffer in a cluster, and perhaps a new size.
LEMMA StoredParts ==
  ASSUME NEW w, w \in WriteStates, NEW c, c \in Cluster, NEW v, v = Stored(w, c)
  PROVE  \E b \in [0 .. ClusterBytes - 1 -> Byte \cup {JunkByte}], end \in Nat :
           /\ \/ v.disk = DataAt(w.disk, c, b)
              \/ v.disk = Sized(DataAt(w.disk, c, b), w.file, end)
           /\ v.file.parent_cluster = w.file.parent_cluster /\ v.file.entry_idx = w.file.entry_idx
           /\ v.file.first_cluster = w.file.first_cluster
<1>1. PICK d : d = w.disk
  OBVIOUS
<1>2. PICK file : file = w.file
  OBVIOUS
<1>3. PICK buf : buf = w.buf
  OBVIOUS
<1>8. d \in Disk /\ file \in File /\ buf \in Seq(Byte)
  BY <1>1, <1>2, <1>3 DEF WriteStates
<1>10. file.cursor \in Nat /\ file.file_size \in Nat
  BY <1>8 DEF File
<1>11. PICK skip : skip = file.cursor % ClusterBytes
  OBVIOUS
<1>12. skip \in 0 .. ClusterBytes - 1
  BY <1>10, <1>11, Numbers
<1>13. PICK n : n = Min({Len(buf), ClusterBytes - skip})
  OBVIOUS
<1>14. n \in Nat /\ n <= Len(buf)
  <2>1. PICK m1 : m1 = Len(buf)
    OBVIOUS
  <2>2. PICK m2 : m2 = ClusterBytes - skip
    OBVIOUS
  <2>3. m1 \in Nat /\ m2 \in Nat
    BY <1>8, <1>12, <2>1, <2>2, Numbers
  <2>4. n = Min({m1, m2}) /\ {m1, m2} \in SUBSET Nat /\ m1 \in {m1, m2}
    BY <1>13, <2>1, <2>2, <2>3
  <2>5. Min({m1, m2}) \in {m1, m2} /\ \A y \in {m1, m2} : Min({m1, m2}) <= y
    BY <2>4, MinOf
  <2> QED BY <2>1, <2>3, <2>4, <2>5
<1>15. PICK end : end = file.cursor + n
  OBVIOUS
<1>16. end \in Nat
  BY <1>10, <1>14, <1>15
<1>17. PICK old : old = d.bytes[c]
  OBVIOUS
<1>18. PICK bytes : bytes = Overlay(old, buf, skip, n)
  OBVIOUS
<1>19. bytes \in [0 .. ClusterBytes - 1 -> Byte \cup {JunkByte}]
  <2>1. old \in [0 .. ClusterBytes - 1 -> Byte \cup {JunkByte}]
    BY <1>8, <1>17, DiskParts DEF ByteTable
  <2>2. skip \in Nat
    BY <1>12, Numbers
  <2> QED BY <1>8, <1>14, <1>18, <2>1, <2>2, OverlayIs
<1>20. PICK d1 : d1 = DataAt(d, c, bytes)
  OBVIOUS
<1>27. PICK d2 : d2 = Sized(d1, file, end)
  OBVIOUS
<1>28. PICK rest : rest = SubSeq(buf, n + 1, Len(buf))
  OBVIOUS
<1>30. PICK more : more = (n < Len(buf))
  OBVIOUS
<1>29. PICK done2 : done2 = w.done + n
  OBVIOUS
<1>31. PICK larger : larger = (end > file.file_size)
  OBVIOUS
<1>32. v = [w EXCEPT !.disk = IF larger THEN d2 ELSE d1,
                     !.file.cursor = end,
                     !.file.file_size = IF larger THEN end ELSE @,
                     !.buf = rest, !.done = done2, !.go = more]
  <2> DEFINE skips == w.file.cursor % ClusterBytes
             fits == Min({Len(w.buf), ClusterBytes - skips})
             ends == w.file.cursor + fits
             data == DataAt(w.disk, c, Overlay(w.disk.bytes[c], w.buf, skips, fits))
  <2>1. v = [w EXCEPT !.disk = IF ends > w.file.file_size THEN Sized(data, w.file, ends) ELSE data,
                      !.file.cursor = ends,
                      !.file.file_size = IF ends > w.file.file_size THEN ends ELSE @,
                      !.buf = SubSeq(@, fits + 1, Len(@)), !.done = @ + fits, !.go = fits < Len(w.buf)]
    BY Zenon DEF Stored, Overlay, DataAt, Sized
  <2>2. skips = skip
    BY <1>2, <1>11
  <2> HIDE DEF skips
  <2>3. fits = n
    BY <1>3, <1>13, <2>2
  <2> HIDE DEF fits
  <2>4. ends = end
    BY <1>2, <1>15, <2>3
  <2> HIDE DEF ends
  <2>5. data = d1
    BY <1>1, <1>3, <1>17, <1>18, <1>20, <2>2, <2>3
  <2> HIDE DEF data
  <2>6. Sized(data, w.file, ends) = d2
    BY <1>2, <1>27, <2>4, <2>5
  <2>7. v = [w EXCEPT !.disk = IF end > w.file.file_size THEN d2 ELSE d1,
                      !.file.cursor = end,
                      !.file.file_size = IF end > w.file.file_size THEN end ELSE @,
                      !.buf = SubSeq(@, n + 1, Len(@)), !.done = @ + n, !.go = n < Len(w.buf)]
    BY <2>1, <2>3, <2>4, <2>5, <2>6, Zenon
  <2> QED BY <1>2, <1>3, <1>28, <1>29, <1>30, <1>31, <2>7
<1>33. PICK size : size = IF larger THEN end ELSE file.file_size
  OBVIOUS
<1>34. PICK G : G = [file EXCEPT !.cursor = end, !.file_size = size]
  OBVIOUS
<1>35. PICK dd : dd = IF larger THEN d2 ELSE d1
  OBVIOUS
<1>36. v = [w EXCEPT !.disk = dd, !.file = G, !.buf = rest, !.done = done2, !.go = more]
  BY <1>2, <1>8, <1>32, <1>33, <1>34, <1>35 DEF WriteStates, File
<1>37. v.disk = dd /\ v.file = G
  BY <1>36 DEF WriteStates
<1>38. G.parent_cluster = file.parent_cluster /\ G.entry_idx = file.entry_idx /\ G.first_cluster = file.first_cluster
  BY <1>8, <1>34 DEF File
<1>39. dd = d1 \/ dd = d2
  BY <1>35
<1> QED BY <1>1, <1>2, <1>16, <1>19, <1>20, <1>27, <1>37, <1>38, <1>39

\* The walk to the cluster at the cursor, which may allocate it.
LEMMA WalkKept ==
  ASSUME NEW of, of \in [Handle -> File \cup {Closed}], NEW f, f \in Handle, NEW d0, NEW D, NEW w,
         OnWay(d0, D, of, f, w), w.file.first_cluster # Free,
         NEW walk, Only(w.disk, walk.disk, w.file.first_cluster),
         NEW t, t = [w EXCEPT !.disk = walk.disk]
  PROVE  OnWay(d0, D, of, f, t) /\ t.disk = walk.disk /\ t.file = w.file
<1>1. PICK d : d = w.disk
  OBVIOUS
<1>2. PICK file : file = w.file
  OBVIOUS
<1>3. PICK h : h = file.first_cluster
  OBVIOUS
<1>4. PICK d2 : d2 = walk.disk
  OBVIOUS
<1>5. Writing(of, f, w) /\ w \in WriteStates
  BY DEF OnWay, Writing
<1>6. PICK D1 : Entered(d, D1, of, f, file)
  BY <1>1, <1>2, <1>5, WritingIs
<1>7. PICK ofw : ofw = With(of, f, file)
  OBVIOUS
<1>8. /\ IsTree(d, D1) /\ Whole(d, D1) /\ Handles(d, ofw) /\ SoundDisk(d)
      /\ IsHead(d.fat, h) /\ h \notin D1
  BY <1>2, <1>3, <1>6, <1>7 DEF Entered, IsTree, Directories
<1>9. Only(d, d2, h)
  BY <1>1, <1>2, <1>3, <1>4
<1>10. Elsewhere(d, d2, h)
  BY <1>9 DEF Only, Besides, Elsewhere
<1>11. IsTree(d2, D1) /\ Whole(d2, D1) /\ Handles(d2, ofw)
  BY <1>8, <1>10, HandleElsewhere
<1>12. PICK buf \in Seq(Byte), done \in Nat, go \in BOOLEAN, failed \in BOOLEAN :
         t = [disk |-> d2, file |-> file, buf |-> buf, done |-> done, go |-> go, failed |-> failed]
  BY <1>2, <1>4, <1>5 DEF WriteStates
<1>13. Writing(of, f, t)
  <2>1. d2 \in Disk
    BY <1>9 DEF Only
  <2>2. file \in File
    BY <1>2, <1>5 DEF WriteStates
  <2>3. IsTree(d2, D1) /\ Whole(d2, D1) /\ Handles(d2, With(of, f, file))
    BY <1>7, <1>11
  <2>4. t \in WriteStates /\ t.disk = d2 /\ t.file = file
    BY <1>5, <1>2, <1>4, <2>1 DEF WriteStates
  <2>5. Consistent(d2, With(of, f, file))
    BY <2>3 DEF Consistent
  <2> QED BY <2>4, <2>5 DEF Writing
<1>14. t.disk = d2 /\ t.file = file
  BY <1>12
<1>15. Kept(d0, d2, D, Own(of[f]), Its(D, of[f]))
  <2>1. Kept(d0, d, D, Own(of[f]), Its(D, of[f]))
    BY <1>1 DEF OnWay
  <2>2. Loose(d0, D, Own(of[f]), Its(D, of[f]), h)
    BY <1>2, <1>3 DEF OnWay
  <2>3. Besides(d, d2, h)
    BY <1>9 DEF Only
  <2> QED BY <2>1, <2>2, <2>3, LooseKept
<1>16. OnWay(d0, D, of, f, t)
  BY <1>2, <1>13, <1>14, <1>15 DEF OnWay
<1> QED BY <1>2, <1>4, <1>14, <1>16

\* The data, and then the size.
LEMMA DataKept ==
  ASSUME NEW of, of \in [Handle -> File \cup {Closed}], NEW f, f \in Handle, NEW d0, NEW D, NEW w,
         OnWay(d0, D, of, f, w), w.file.first_cluster # Free, NEW j, j \in Nat, NEW at, at \in Cluster,
         at = Nth(w.disk.fat, w.file.first_cluster, j), NEW walk, walk.disk = w.disk, walk.at = at,
         NEW v, v = Stored(w, at)
  PROVE  OnWay(d0, D, of, f, v) /\ DataWrites(w.file, walk, v) \in Seq(Wayside(d0, D, of[f]))
<1>1. PICK d : d = w.disk
  OBVIOUS
<1>2. PICK file : file = w.file
  OBVIOUS
<1>3. PICK h : h = file.first_cluster
  OBVIOUS
<1>4. PICK c : c = file.parent_cluster
  OBVIOUS
<1>5. PICK i : i = file.entry_idx
  OBVIOUS
<1>6. PICK X : X = Own(of[f])
  OBVIOUS
<1>7. PICK C : C = Its(D, of[f])
  OBVIOUS
<1>8. Writing(of, f, w) /\ w \in WriteStates
  BY DEF OnWay, Writing
<1>9. Writing(of, f, v)
  BY <1>8, StoredIs
<1>10. /\ SoundDisk(d) /\ d \in Disk /\ Dir(d, c) /\ i \in Nat /\ InUse(d, c, i) /\ <<c, i>> \in X /\ c \in C
       /\ IsHead(d.fat, h) /\ h # c
  BY <1>1, <1>2, <1>3, <1>4, <1>5, <1>6, <1>7, OnWayIs
<1>11. Kept(d0, d, D, X, C) /\ Loose(d0, D, X, C, h)
  BY <1>1, <1>2, <1>3, <1>6, <1>7 DEF OnWay
<1>12. ASSUME NEW b, b \in [0 .. ClusterBytes - 1 -> Byte \cup {JunkByte}], NEW s, s \in [Slots(at) -> Entry],
              NEW u, u = WithData(d, at, b, s)
       PROVE  Kept(d0, u, D, X, C) /\ u \in Disk /\ Dir(u, c) /\ InUse(u, c, i)
  <2>1. at = Nth(d.fat, h, j)
    BY <1>1, <1>2, <1>3
  <2>2. Only(d, u, h)
    BY <1>10, <1>12, <2>1, BytesOnly
  <2>3. Kept(d0, u, D, X, C)
    BY <1>11, <2>2, LooseKept DEF Only
  <2>4. Dir(u, c) /\ SameDir(d, u, c)
    BY <1>10, <2>2 DEF Only, Besides
  <2>5. InUse(u, c, i)
    BY <1>10, <2>4, InUseSame DEF SameDir
  <2> QED BY <2>2, <2>3, <2>4, <2>5 DEF Only
<1>13. PICK b \in [0 .. ClusterBytes - 1 -> Byte \cup {JunkByte}], end \in Nat :
         /\ v.disk = DataAt(d, at, b) \/ v.disk = Sized(DataAt(d, at, b), file, end)
         /\ v.file.parent_cluster = c /\ v.file.entry_idx = i /\ v.file.first_cluster = h
  BY <1>1, <1>2, <1>3, <1>4, <1>5, <1>8, StoredParts
<1>14. PICK s : s = [k \in Slots(at) |-> Blank(Junk)]
  OBVIOUS
<1>15. PICK d1 : d1 = WithData(d, at, b, s)
  OBVIOUS
<1>16. s \in [Slots(at) -> Entry] /\ DataAt(d, at, b) = d1
  BY <1>14, <1>15, Entries DEF DataAt, WithData
<1>17. Kept(d0, d1, D, X, C) /\ d1 \in Disk /\ Dir(d1, c) /\ InUse(d1, c, i)
  BY <1>12, <1>15, <1>16
<1>18. PICK d2 : d2 = v.disk
  OBVIOUS
<1>19. Kept(d0, d2, D, X, C) /\ d2 \in Disk
  <2>1. CASE d2 = d1
    BY <1>17, <2>1
  <2>2. CASE d2 = Sized(d1, file, end)
    <3>1. PICK field : field = "size"
      OBVIOUS
    <3>2. d2 = Patched(d1, file, field, end)
      BY <2>2, <3>1 DEF Sized
    <3>3. (field = "first" /\ end \in Cluster) \/ (field = "size" /\ end \in Nat)
      BY <3>1
    <3> QED BY <1>4, <1>5, <1>10, <1>17, <3>2, <3>3, PatchedKept
  <2> QED BY <1>13, <1>16, <1>18, <2>1, <2>2
<1>20. OnWay(d0, D, of, f, v)
  BY <1>2, <1>3, <1>4, <1>5, <1>6, <1>7, <1>9, <1>11, <1>13, <1>18, <1>19 DEF OnWay
<1>21. PICK u : u = WithData(d, at, d2.bytes[at], d2.slots[at])
  OBVIOUS
<1>22. Kept(d0, u, D, X, C) /\ u \in Disk
  <2>1. d2.bytes[at] \in [0 .. ClusterBytes - 1 -> Byte \cup {JunkByte}]
    BY <1>19, DiskParts DEF ByteTable
  <2>2. d2.slots[at] \in [Slots(at) -> Entry]
    BY <1>19, DiskParts DEF SlotTable, DirCluster
  <2> QED BY <1>12, <1>21, <2>1, <2>2
<1>23. PICK S : S = Wayside(d0, D, of[f])
  OBVIOUS
<1>24. u \in S /\ d2 \in S
  <2>1. S = Keeping(d0, D, X, C)
    BY <1>6, <1>7, <1>23 DEF Wayside
  <2>2. u \in Keeping(d0, D, X, C)
    BY <1>22 DEF Keeping
  <2>3. d2 \in Keeping(d0, D, X, C)
    BY <1>19 DEF Keeping
  <2> QED BY <2>1, <2>2, <2>3
<1>25. PICK more : more = (v.file.file_size > w.file.file_size)
  OBVIOUS
<1>26. DataWrites(w.file, walk, v) = <<u>> \o IF more THEN <<d2>> ELSE <<>>
  BY <1>1, <1>18, <1>21, <1>25 DEF DataWrites, WithData
<1>27. <<u>> \in Seq(S) /\ <<d2>> \in Seq(S) /\ <<>> \in Seq(S)
  BY <1>24
<1>28. PICK rest : rest = IF more THEN <<d2>> ELSE <<>>
  OBVIOUS
<1>29. PICK data : data = <<u>>
  OBVIOUS
<1>30. data \in Seq(S) /\ rest \in Seq(S) /\ DataWrites(w.file, walk, v) = data \o rest
  BY <1>26, <1>27, <1>28, <1>29
<1>31. data \o rest \in Seq(S)
  BY <1>30, AfterJoin
<1> QED BY <1>20, <1>23, <1>30, <1>31

\* A further cluster: it is marked, and then linked.
LEMMA AllocateKept ==
  ASSUME NEW d0, NEW D, NEW X, NEW C, NEW d, Kept(d0, d, D, X, C), NEW h, IsHead(d.fat, h), Loose(d0, D, X, C, h),
         NEW at, at \in Cluster /\ FreeCluster(d) # None => Only(d, Allocated(d, at), h)
  PROVE  AllocateWrites(d, at) \in Seq(Keeping(d0, D, X, C))
<1>0. SoundDisk(d) /\ d \in Disk
  BY DEF Kept, SoundDisk
<1>2. PICK S : S = Keeping(d0, D, X, C)
  OBVIOUS
<1>3. PICK s : s = AllocateWrites(d, at)
  OBVIOUS
<1>4. CASE \A c \in Cluster : d.fat[c] # Free
  <2>1. s = <<>>
    BY <1>3, <1>4 DEF AllocateWrites
  <2> QED BY <1>3, <2>1
<1>5. CASE \E c \in Cluster : d.fat[c] = Free
  <2>1. PICK new : new = FreeCluster(d)
    OBVIOUS
  <2>2. new # None
    BY <1>0, <1>5, <2>1, FreeClusterIs, Numbers DEF None
  <2>3. PICK d1 : d1 = Allocated(d, Free)
    OBVIOUS
  <2>4. PICK d2 : d2 = Allocated(d, at)
    OBVIOUS
  <2>5. Besides(d, d1, new) /\ IsHead(d1.fat, new) /\ ~IsHead(d.fat, new) /\ d1 \in Disk
    BY <1>0, <2>1, <2>2, <2>3, BesidesNew
  <2>6. new # 0
    BY <2>5, Numbers DEF IsHead
  <2>7. Loose(d0, D, X, C, new)
    BY <2>5, <2>6, NewLoose
  <2>8. d1 \in S
    BY <1>2, <2>5, <2>7, LooseKept DEF Keeping
  <2>9. CASE at \in Cluster
    <3>1. Only(d, d2, h)
      BY <2>1, <2>2, <2>4, <2>9
    <3>2. d2 \in S
      BY <1>2, <3>1, LooseKept DEF Only, Keeping
    <3>3. s = <<d1, d2>>
      BY <1>3, <1>5, <2>3, <2>4, <2>9 DEF AllocateWrites
    <3>4. <<d1, d2>> \in Seq(S)
      BY <2>8, <3>2
    <3> QED BY <1>2, <1>3, <3>3, <3>4
  <2>10. CASE at \notin Cluster
    <3>1. s = <<d1>>
      BY <1>3, <1>5, <2>3, <2>10 DEF AllocateWrites
    <3>2. <<d1>> \in Seq(S)
      BY <2>8
    <3> QED BY <1>2, <1>3, <3>1, <3>2
  <2> QED BY <2>9, <2>10
<1> QED BY <1>4, <1>5

\* The chain of the file.
LEMMA HeadOf ==
  ASSUME NEW of, of \in [Handle -> File \cup {Closed}], NEW f, f \in Handle, NEW d0, NEW D, NEW w,
         OnWay(d0, D, of, f, w), w.file.first_cluster # Free
  PROVE  w.file \in File /\ SoundDisk(w.disk) /\ IsHead(w.disk.fat, w.file.first_cluster)
<1>1. Writing(of, f, w)
  BY DEF OnWay
<1>2. w.file \in File /\ \E E : Entered(w.disk, E, of, f, w.file)
  BY <1>1, WritingIs
<1> QED BY <1>2 DEF Entered, IsTree, Directories

\* The cluster at the cursor, and the data in it.
LEMMA GrowParts ==
  ASSUME NEW of, of \in [Handle -> File \cup {Closed}], NEW f, f \in Handle, NEW d0, NEW D, NEW s,
         OnWay(d0, D, of, f, s), s.file.first_cluster # Free,
         NEW walk, Only(s.disk, walk.disk, s.file.first_cluster), walk.at \in Cluster,
         NEW j, j \in Nat, walk.at = Nth(walk.disk.fat, s.file.first_cluster, j),
         NEW last, last = Nth(s.disk.fat, s.file.first_cluster, (s.file.cursor \div ClusterBytes) - 1),
         walk.disk # s.disk /\ last \in Cluster /\ FreeCluster(s.disk) # None =>
           Only(s.disk, Allocated(s.disk, last), s.file.first_cluster),
         NEW t, t = [s EXCEPT !.disk = walk.disk]
  PROVE  /\ GrowWrites(s, walk) \in Seq(Wayside(d0, D, of[f])) /\ OnWay(d0, D, of, f, t)
         /\ walk.ok /\ OnDisk(walk.at) => OnWay(d0, D, of, f, Stored(t, walk.at))
<1>2. PICK d : d = s.disk
  OBVIOUS
<1>3. PICK h : h = s.file.first_cluster
  OBVIOUS
<1>5. PICK S : S = Wayside(d0, D, of[f])
  OBVIOUS
<1>7. s.file \in File /\ SoundDisk(d) /\ IsHead(d.fat, h)
  <2>1. s.file \in File /\ SoundDisk(s.disk) /\ IsHead(s.disk.fat, s.file.first_cluster)
    BY HeadOf
  <2> QED BY <1>2, <1>3, <2>1
<1>10. PICK at : at = walk.at
  OBVIOUS
<1>13. OnWay(d0, D, of, f, t) /\ t.disk = walk.disk /\ t.file = s.file
  BY WalkKept
<1>15. PICK v : v = Stored(t, at)
  OBVIOUS
<1>16. OnWay(d0, D, of, f, v) /\ DataWrites(t.file, walk, v) \in Seq(S)
  <2>1. at = Nth(t.disk.fat, t.file.first_cluster, j) /\ t.file.first_cluster # Free /\ at \in Cluster
    BY <1>10, <1>13
  <2>2. walk.disk = t.disk /\ walk.at = at
    BY <1>10, <1>13
  <2> QED BY <1>5, <1>13, <1>15, <2>1, <2>2, DataKept
<1>17. PICK grow : grow = IF walk.disk = d THEN <<>> ELSE AllocateWrites(d, last)
  OBVIOUS
<1>18. PICK data : data = IF walk.ok /\ OnDisk(at) THEN DataWrites(s.file, walk, v) ELSE <<>>
  OBVIOUS
<1>19. GrowWrites(s, walk) = grow \o data
  <2>1. v = Stored([s EXCEPT !.disk = walk.disk], walk.at)
    BY <1>10, <1>15
  <2> QED BY <1>2, <1>10, <1>17, <1>18, <2>1, Zenon DEF GrowWrites
<1>20. grow \in Seq(S)
  <2>1. CASE walk.disk = d
    BY <1>17, <2>1
  <2>2. CASE walk.disk # d
    <3>1. grow = AllocateWrites(d, last)
      BY <1>17, <2>2
    <3>2. Kept(d0, d, D, Own(of[f]), Its(D, of[f])) /\ Loose(d0, D, Own(of[f]), Its(D, of[f]), h)
      BY <1>2, <1>3 DEF OnWay
    <3>3. last \in Cluster /\ FreeCluster(d) # None => Only(d, Allocated(d, last), h)
      BY <1>2, <1>3, <2>2
    <3>4. AllocateWrites(d, last) \in Seq(Keeping(d0, D, Own(of[f]), Its(D, of[f])))
      BY <1>7, <3>2, <3>3, AllocateKept
    <3> QED BY <1>5, <3>1, <3>4 DEF Wayside
  <2> QED BY <2>1, <2>2
<1>21. data \in Seq(S)
  BY <1>13, <1>16, <1>18
<1>22. grow \o data \in Seq(S)
  BY <1>20, <1>21, AfterJoin
<1>23. GrowWrites(s, walk) \in Seq(Wayside(d0, D, of[f]))
  BY <1>5, <1>19, <1>22
<1>24. OnWay(d0, D, of, f, Stored(t, walk.at))
  BY <1>10, <1>15, <1>16
<1> QED BY <1>13, <1>23, <1>24

\* fat12_write's walk makes of the disk what GrowParts asks for.
LEMMA GrowKept ==
  ASSUME NEW of, of \in [Handle -> File \cup {Closed}], NEW f, f \in Handle, NEW d0, NEW D, NEW s,
         OnWay(d0, D, of, f, s), s.file.first_cluster # Free, NEW zero, zero \in BOOLEAN, ~zero,
         NEW walk, walk = Reach(s.disk, s.file.first_cluster, s.file.cursor \div ClusterBytes, zero),
         NEW t, t = [s EXCEPT !.disk = walk.disk]
  PROVE  /\ GrowWrites(s, walk) \in Seq(Wayside(d0, D, of[f])) /\ OnWay(d0, D, of, f, t)
         /\ walk.ok /\ OnDisk(walk.at) => OnWay(d0, D, of, f, Stored(t, walk.at))
<1>1. PICK d : d = s.disk
  OBVIOUS
<1>2. PICK h : h = s.file.first_cluster
  OBVIOUS
<1>3. PICK m : m = s.file.cursor \div ClusterBytes
  OBVIOUS
<1>4. walk = Reach(d, h, m, zero)
  BY <1>1, <1>2, <1>3
<1>5. s.file \in File /\ SoundDisk(d) /\ IsHead(d.fat, h)
  <2>1. s.file \in File /\ SoundDisk(s.disk) /\ IsHead(s.disk.fat, s.file.first_cluster)
    BY HeadOf
  <2> QED BY <1>1, <1>2, <2>1
<1>6. m \in Nat
  <2>1. s.file.cursor \in Nat
    BY <1>5 DEF File
  <2> QED BY <1>3, <2>1, Numbers
<1>8. Only(d, walk.disk, h) /\ walk.at \in Cluster /\ \E j \in Nat : walk.at = Nth(walk.disk.fat, h, j)
  BY <1>4, <1>5, <1>6, ReachOnly
<1>9. PICK j \in Nat : walk.at = Nth(walk.disk.fat, h, j)
  BY <1>8
<1>10. PICK last : last = Nth(d.fat, h, m - 1)
  OBVIOUS
<1>11. walk.disk # d /\ last \in Cluster /\ FreeCluster(d) # None => Only(d, Allocated(d, last), h)
  BY <1>4, <1>5, <1>6, <1>10, GrowthOnly
<1>12. last = Nth(s.disk.fat, s.file.first_cluster, (s.file.cursor \div ClusterBytes) - 1)
  BY <1>1, <1>2, <1>3, <1>10
<1>13. /\ Only(s.disk, walk.disk, s.file.first_cluster) /\ walk.at \in Cluster
       /\ walk.at = Nth(walk.disk.fat, s.file.first_cluster, j)
       /\ walk.disk # s.disk /\ last \in Cluster /\ FreeCluster(s.disk) # None =>
            Only(s.disk, Allocated(s.disk, last), s.file.first_cluster)
  BY <1>1, <1>2, <1>8, <1>9, <1>11
<1> QED BY <1>12, <1>13, GrowParts

\* The loop ends.
LEMMA Stopped ==
  ASSUME NEW of, NEW f, NEW d0, NEW D, NEW t, OnWay(d0, D, of, f, t), NEW u,
         u = [t EXCEPT !.go = FALSE] \/ u = [t EXCEPT !.go = FALSE, !.failed = TRUE]
  PROVE  OnWay(d0, D, of, f, u)
<1>1. u \in WriteStates /\ u.disk = t.disk /\ u.file = t.file
  <2>1. t \in WriteStates
    BY DEF OnWay, Writing
  <2> QED BY <2>1 DEF WriteStates
<1> QED BY <1>1 DEF OnWay, Writing

\* A turn of fat12_write's loop keeps what is not the file's, write by write.
LEMMA TurnKept ==
  ASSUME NEW of, of \in [Handle -> File \cup {Closed}], NEW f, f \in Handle, NEW d0, NEW D, NEW w,
         OnWay(d0, D, of, f, w), NEW u, u = WriteTurn(w)
  PROVE  OnWay(d0, D, of, f, u) /\ StartWrites(w, Started(w)) \in Seq(Wayside(d0, D, of[f]))
<1>1. PICK s : s = Started(w)
  OBVIOUS
<1>2. PICK zero \in BOOLEAN : ~zero /\ zero = FALSE
  OBVIOUS
<1>3. PICK walk : walk = Reach(s.disk, s.file.first_cluster, s.file.cursor \div ClusterBytes, zero)
  OBVIOUS
<1>4. PICK t : t = [s EXCEPT !.disk = walk.disk]
  OBVIOUS
<1>5. PICK S : S = Wayside(d0, D, of[f])
  OBVIOUS
<1>6. PICK first : first = IF s.disk = w.disk THEN <<>> ELSE Append(AllocateWrites(w.disk, Free), s.disk)
  OBVIOUS
<1>7. /\ OnWay(d0, D, of, f, s) /\ (s.go => s.file.first_cluster # Free)
      /\ first \in Seq(S)
  <2>1. /\ OnWay(d0, D, of, f, s) /\ (s.go => s.file.first_cluster # Free)
        /\ (IF s.disk = w.disk THEN <<>> ELSE Append(AllocateWrites(w.disk, Free), s.disk))
              \in Seq(Wayside(d0, D, of[f]))
    BY <1>1, StartKept
  <2> QED BY <1>5, <1>6, <2>1, Zenon
<1>8. u = IF ~s.go THEN s
          ELSE IF ~walk.ok THEN [t EXCEPT !.go = FALSE]
          ELSE IF ~OnDisk(walk.at) THEN [t EXCEPT !.go = FALSE, !.failed = TRUE]
          ELSE Stored(t, walk.at)
  <2>1. walk = Reach(s.disk, s.file.first_cluster, s.file.cursor \div ClusterBytes, FALSE)
    BY <1>2, <1>3, Zenon
  <2>2. u = IF ~s.go THEN s
            ELSE IF ~walk.ok THEN [[s EXCEPT !.disk = walk.disk] EXCEPT !.go = FALSE]
            ELSE IF ~OnDisk(walk.at) THEN [[s EXCEPT !.disk = walk.disk] EXCEPT !.go = FALSE, !.failed = TRUE]
            ELSE Stored([s EXCEPT !.disk = walk.disk], walk.at)
    BY <1>1, <2>1, Zenon DEF WriteTurn
  <2> QED BY <1>4, <2>2, Zenon
<1>9. PICK grow : grow = IF s.go THEN GrowWrites(s, walk) ELSE <<>>
  OBVIOUS
<1>10. StartWrites(w, s) = first \o grow
  <2>1. walk = Reach(s.disk, s.file.first_cluster, s.file.cursor \div ClusterBytes, FALSE)
    BY <1>2, <1>3, Zenon
  <2> QED BY <1>6, <1>9, <2>1, Zenon DEF StartWrites
<1>11. CASE ~s.go
  <2>1. u = s /\ grow = <<>>
    BY <1>8, <1>9, <1>11, Zenon
  <2>2. first \o <<>> = first
    BY <1>7
  <2> QED BY <1>1, <1>5, <1>7, <1>10, <2>1, <2>2
<1>12. CASE s.go
  <2>1. s.file.first_cluster # Free /\ OnWay(d0, D, of, f, s)
    BY <1>7, <1>12
  <2>2. /\ GrowWrites(s, walk) \in Seq(S) /\ OnWay(d0, D, of, f, t)
        /\ walk.ok /\ OnDisk(walk.at) => OnWay(d0, D, of, f, Stored(t, walk.at))
    BY <1>2, <1>3, <1>4, <1>5, <2>1, GrowKept
  <2>3. first \o grow \in Seq(S)
    <3>1. grow \in Seq(S)
      BY <1>9, <1>12, <2>2
    <3> QED BY <1>7, <3>1, AfterJoin
  <2>4. OnWay(d0, D, of, f, u)
    <3>1. CASE ~walk.ok
      <4>1. u = [t EXCEPT !.go = FALSE]
        BY <1>8, <1>12, <3>1, Zenon
      <4> QED BY <2>2, <4>1, Stopped
    <3>2. CASE walk.ok /\ ~OnDisk(walk.at)
      <4>1. u = [t EXCEPT !.go = FALSE, !.failed = TRUE]
        BY <1>8, <1>12, <3>2, Zenon
      <4> QED BY <2>2, <4>1, Stopped
    <3>3. CASE walk.ok /\ OnDisk(walk.at)
      <4>1. u = Stored(t, walk.at)
        BY <1>8, <1>12, <3>3, Zenon
      <4> QED BY <2>2, <3>3, <4>1
    <3> QED BY <3>1, <3>2, <3>3
  <2> QED BY <1>1, <1>5, <1>10, <2>3, <2>4
<1> QED BY <1>11, <1>12

\* fat12_write before its first turn.
LEMMA WriteBegins ==
  ASSUME NEW D, IsTree(disk, D), Whole(disk, D), NEW of, of = open_files, Handles(disk, of),
         NEW f, f \in Handle, of[f].used, NEW buf, buf \in Seq(Byte), NEW w, w = WriteLoop(of[f], buf)
  PROVE  OnWay(disk, D, of, f, w)
<1>1. PICK F : F = of[f]
  OBVIOUS
<1>2. F \in File /\ of \in [Handle -> File \cup {Closed}]
  BY <1>1, UsedIs DEF Handles
<1>3. disk \in Disk
  BY DEF IsTree, Directories, SoundDisk
<1>4. w = [disk |-> disk, file |-> F, buf |-> buf, done |-> 0, go |-> TRUE, failed |-> FALSE]
  BY <1>1 DEF WriteLoop
<1>5. Writing(of, f, w)
  <2>1. With(of, f, F) = of
    BY <1>1, <1>2 DEF With
  <2> QED BY <1>2, <1>3, <1>4, <2>1, WritingOn
<1>6. w.disk = disk /\ w.file = F
  BY <1>4
<1>7. PICK E : Entered(disk, E, of, f, F)
  BY <1>2, <1>5, <1>6, WritingIs
<1>8. PICK c : c = F.parent_cluster
  OBVIOUS
<1>9. PICK i : i = F.entry_idx
  OBVIOUS
<1>10. PICK h : h = F.first_cluster
  OBVIOUS
<1>11. PICK p : p = F.path[1]
  OBVIOUS
<1>12. IsPath(p) /\ Step(disk, p, Len(p), c, i) /\ ~ReadSlot(disk, c, i).dir /\ ReadSlot(disk, c, i).first = h
  BY <1>1, <1>8, <1>9, <1>10, <1>11 DEF Handles, OpenAt
<1>13. c \in D /\ i \in Nat /\ Listed(disk, c, i)
  <2>1. Len(p) \in 1 .. Len(p)
    BY <1>12, PathNames
  <2> QED BY <1>12, <2>1, OneStep
<1>14. Proper(disk, D, ReadSlot(disk, c, i))
  BY <1>13 DEF IsTree, AllProper
<1>15. h # Free => Loose(disk, D, Own(F), Its(D, F), h)
  <2> SUFFICES ASSUME h # Free PROVE Loose(disk, D, Own(F), Its(D, F), h)
    OBVIOUS
  <2>1. h \notin D
    BY <1>12, <1>14 DEF Proper
  <2> QED BY <1>10, <2>1 DEF Loose, Its
<1>16. Kept(disk, disk, D, Own(F), Its(D, F))
  <2>1. Kept(disk, disk, D, {}, {})
    BY KeptSelf
  <2> QED BY <2>1, KeptWider
<1> QED BY <1>1, <1>5, <1>6, <1>8, <1>10, <1>13, <1>15, <1>16 DEF OnWay

\* fat12_write of an open file keeps all entries but the file's own, and the data of the others.
LEMMA WriteKeeps ==
  ASSUME NEW D, IsTree(disk, D), Whole(disk, D), Handles(disk, open_files),
         NEW f \in Used, NEW buf \in Buffer
  PROVE  WriteWrites(f, buf) \in Seq(Wayside(disk, D, open_files[f]))
<1>1. PICK of : of = open_files
  OBVIOUS
<1>2. f \in Handle /\ of[f].used /\ of \in [Handle -> File \cup {Closed}]
  BY <1>1 DEF Used, Handles
<1>3. buf \in Seq(Byte) /\ Len(buf) \in Nat
  <2>1. buf \in Seq(Byte)
    BY ClientAssumption
  <2> QED BY <2>1
<1>4. PICK T : T = Seq(Wayside(disk, D, of[f]))
  OBVIOUS
<1>5. PICK S : S = {w \in [loop : WriteStates, disks : T] : OnWay(disk, D, of, f, w.loop)}
  OBVIOUS
<1> DEFINE start == [loop |-> WriteLoop(open_files[f], buf), disks |-> <<>>]
           turn(w) == IF ~w.loop.go THEN w
                      ELSE [loop |-> WriteTurn(w.loop),
                            disks |-> w.disks \o StartWrites(w.loop, Started(w.loop))]
           g == [i \in Nat |-> [w \in S |-> turn(w)]]
           Eq(v) == v = [i \in Nat |-> IF i = 0 THEN start ELSE turn(v[i - 1])]
           loop == CHOOSE v : Eq(v)
<1>6. start \in S
  <2>1. PICK w : w = WriteLoop(open_files[f], buf)
    OBVIOUS
  <2>2. OnWay(disk, D, of, f, w)
    <3>1. w = WriteLoop(of[f], buf)
      BY <1>1, <2>1
    <3> QED BY <1>1, <1>2, <1>3, <3>1, WriteBegins
  <2>3. w \in WriteStates
    BY <2>2 DEF OnWay, Writing
  <2>4. PICK v : v = [loop |-> w, disks |-> <<>>]
    OBVIOUS
  <2>5. <<>> \in T
    BY <1>4
  <2>6. v \in [loop : WriteStates, disks : T] /\ v.loop = w
    BY <2>3, <2>4, <2>5
  <2>7. v \in S
    BY <1>5, <2>2, <2>6
  <2> QED BY <2>1, <2>4, <2>7
<1>7. \A w \in S : turn(w) \in S
  <2> SUFFICES ASSUME NEW w \in S PROVE turn(w) \in S
    OBVIOUS
  <2>1. PICK v : v = w.loop
    OBVIOUS
  <2>2. PICK u : u = WriteTurn(v)
    OBVIOUS
  <2>3. PICK s : s = StartWrites(v, Started(v))
    OBVIOUS
  <2>4. PICK r : r = w.disks
    OBVIOUS
  <2>5. OnWay(disk, D, of, f, v) /\ r \in T
    BY <1>5, <2>1, <2>4
  <2>6. OnWay(disk, D, of, f, u) /\ s \in T
    BY <1>2, <1>4, <2>2, <2>3, <2>5, TurnKept
  <2>7. u \in WriteStates
    BY <2>6 DEF OnWay, Writing
  <2>8. r \o s \in T
    BY <1>4, <2>5, <2>6, AfterJoin
  <2>9. PICK x : x = [loop |-> u, disks |-> r \o s]
    OBVIOUS
  <2>10. x \in [loop : WriteStates, disks : T] /\ x.loop = u
    BY <2>7, <2>8, <2>9
  <2>11. x \in S
    BY <1>5, <2>6, <2>10
  <2>12. turn(w) = w \/ turn(w) = x
    BY <2>1, <2>2, <2>3, <2>4, <2>9
  <2> QED BY <2>11, <2>12
<1> HIDE DEF turn, start
<1>8. g \in [Nat -> [S -> S]]
  BY <1>7
<1>9. PICK w : Runs(w, S, g, start)
  <2> HIDE DEF g
  <2> QED BY <1>6, <1>8, Iterates
<1>10. \A i \in Nat : w[i] \in S /\ w[i + 1] = turn(w[i])
  <2> SUFFICES ASSUME NEW i \in Nat PROVE w[i] \in S /\ w[i + 1] = turn(w[i])
    OBVIOUS
  <2>1. w[i] \in S /\ w[i + 1] = g[i][w[i]]
    <3> HIDE DEF g
    <3> QED BY <1>9 DEF Runs
  <2> QED BY <2>1
<1>11. Eq(w)
  <2>1. \A i \in Nat : i # 0 => i - 1 \in Nat /\ (i - 1) + 1 = i
    OBVIOUS
  <2>2. w[0] = start /\ w \in [Nat -> S]
    <3> HIDE DEF g
    <3> QED BY <1>9 DEF Runs
  <2>3. \A i \in Nat : i # 0 => w[i] = turn(w[i - 1])
    BY <1>10, <2>1
  <2> QED BY <2>2, <2>3
<1>12. Eq(loop)
  <2> HIDE DEF Eq
  <2> QED BY <1>11
<1>13. WriteWrites(f, buf) = loop[Len(buf)].disks
  BY Zenon DEF WriteWrites, turn, start
<1> HIDE DEF loop
<1>14. loop[0] = start /\ \A i \in Nat : loop[i + 1] = turn(loop[i])
  <2>1. loop[0] = start
    BY <1>12
  <2>2. \A i \in Nat : i + 1 \in Nat /\ i + 1 # 0 /\ (i + 1) - 1 = i
    OBVIOUS
  <2>3. \A i \in Nat : loop[i + 1] = turn(loop[i])
    BY <1>12, <2>2
  <2> QED BY <2>1, <2>3
<1>15. \A i \in Nat : loop[i] \in S
  <2> DEFINE X == {i \in Nat : loop[i] \in S}
  <2>1. 0 \in X
    BY <1>6, <1>14
  <2>2. ASSUME NEW i \in Nat, i \in X PROVE i + 1 \in X
    BY <1>7, <1>14, <2>2
  <2> HIDE DEF X
  <2>3. \A i \in Nat : i \in X
    BY <2>1, <2>2, AllNumbers
  <2> QED BY <2>3 DEF X
<1>16. loop[Len(buf)].disks \in T
  BY <1>3, <1>5, <1>15
<1> QED BY <1>1, <1>4, <1>13, <1>16

\* Nothing changes without a write.
LEMMA SelfKeeps ==
  ASSUME NEW D, IsTree(disk, D), NEW X, NEW C
  PROVE  disk \in Keeping(disk, D, X, C)
<1>1. Kept(disk, disk, D, {}, {})
  BY KeptSelf
<1>2. Kept(disk, disk, D, X, C)
  BY <1>1, KeptWider
<1>3. disk \in Disk
  BY DEF IsTree, Directories, SoundDisk
<1> QED BY <1>2, <1>3 DEF Keeping

\* A path that is not the file's neither goes by its entry nor leads to its chain.
LEMMA NotOwn ==
  ASSUME NEW D, IsTree(disk, D), NEW F, OpenAt(disk, F),
         NEW path, path \in DOMAIN Tree(disk), ~IsPrefix(F.path[1], path)
  PROVE  Avoids(disk, path, Own(F)) /\ NoneOf(disk, path, Its(D, F))
<1>1. PICK p : p = F.path[1]
  OBVIOUS
<1>2. PICK c : c = F.parent_cluster
  OBVIOUS
<1>3. PICK i : i = F.entry_idx
  OBVIOUS
<1>4. PICK h : h = F.first_cluster
  OBVIOUS
<1>5. IsPath(p) /\ Step(disk, p, Len(p), c, i) /\ ReadSlot(disk, c, i).first = h /\ ~IsPrefix(p, path)
  BY <1>1, <1>2, <1>3, <1>4 DEF OpenAt
<1>6. c \in D /\ i \in Nat /\ Listed(disk, c, i)
  <2>1. Len(p) \in 1 .. Len(p)
    BY <1>5, PathNames
  <2> QED BY <1>5, <2>1, OneStep
<1>7. IsPath(path)
  BY TreeIs
<1>8. \A n \in 1 .. Len(path) : ~Step(disk, path, n, c, i)
  BY <1>5, <1>7, NotBelow
<1>9. Avoids(disk, path, Own(F))
  BY <1>2, <1>3, <1>8 DEF Avoids, Own
<1>10. NoneOf(disk, path, D)
  BY NoneDirs
<1>11. NoneOf(disk, path, {h})
  <2> SUFFICES ASSUME NEW b, NEW j, Step(disk, path, Len(path), b, j), ReadSlot(disk, b, j).first = h, h # Free
               PROVE  FALSE
    BY DEF NoneOf
  <2>1. Len(path) \in 1 .. Len(path)
    BY <1>7, PathNames
  <2>2. b \in D /\ j \in Nat /\ Listed(disk, b, j)
    BY <1>7, <2>1, OneStep
  <2>3. b # c \/ j # i
    BY <1>8, <2>1
  <2>4. Apart(disk, b, j, c, i)
    BY <1>6, <2>2, <2>3 DEF IsTree, AllApart
  <2> QED BY <1>5, <2>4 DEF Apart
<1>12. NoneOf(disk, path, Its(D, F))
  BY <1>4, <1>10, <1>11 DEF NoneOf, Its
<1> QED BY <1>9, <1>12

\* The writes of a call that stop short of its end leave everything that it does not name.
LEMMA CallKeeps ==
  ASSUME FilesInv, NEW call, call \in Calls, NEW w,
         w \in Range(Front(<<disk>> \o WritesOf(call[1], call[2]))),
         NEW path, path \in DOMAIN Tree(disk),
         call[1] \in {"removefile", "removedir"} => ~IsPrefix(call[2], path),
         call[1] = "write" => ~IsPrefix(open_files[call[2][1]].path[1], path)
  PROVE  Find(w, path).slot # None /\ Node(w, Find(w, path).entry) = Tree(disk)[path]
<1>1. PICK D : IsTree(disk, D) /\ Whole(disk, D) /\ Handles(disk, open_files)
  BY DEF FilesInv, Consistent
<1>2. PICK s : s = WritesOf(call[1], call[2])
  OBVIOUS
<1>3. SUFFICES \E X, C : /\ Avoids(disk, path, X) /\ NoneOf(disk, path, C)
                         /\ w \in Keeping(disk, D, X, C)
  BY <1>1, AllFound
<1>4. ASSUME NEW X, NEW C, Avoids(disk, path, X), NoneOf(disk, path, C), s \in Seq(Keeping(disk, D, X, C))
      PROVE  \E Y, E : Avoids(disk, path, Y) /\ NoneOf(disk, path, E) /\ w \in Keeping(disk, D, Y, E)
  <2>1. disk \in Keeping(disk, D, X, C)
    BY <1>1, SelfKeeps
  <2>2. Range(Front(<<disk>> \o s)) \subseteq Keeping(disk, D, X, C)
    BY <1>4, <2>1, Between
  <2>3. w \in Keeping(disk, D, X, C)
    BY <1>2, <2>2
  <2> QED BY <1>4, <2>3
<1>5. Avoids(disk, path, {}) /\ NoneOf(disk, path, D)
  <2>1. Avoids(disk, path, {})
    BY NoStep
  <2> QED BY <1>1, <2>1, NoneDirs
<1>6. s = <<>> => s \in Seq(Keeping(disk, D, {}, D))
  OBVIOUS
<1>7. CASE call[1] \in {"open", "makedir", "removefile", "removedir"} /\ call[2] \in Path
  <2>1. PICK p : p = call[2]
    OBVIOUS
  <2>2. IsPath(p)
    BY <1>7, <2>1, ClientAssumption DEF IsPath
  <2>3. PICK r : r = Find(disk, p)
    OBVIOUS
  <2>4. Finds(disk, D, p, r)
    BY <1>1, <2>2, <2>3, FindIs
  <2>5. CASE call[1] = "open"
    <3>1. s = OpenWrites(p, r)
      BY <1>2, <2>1, <2>3, <2>5 DEF WritesOf
    <3>2. s \in Seq(Keeping(disk, D, {}, D))
      BY <1>1, <2>2, <2>4, <3>1, OpenKeeps
    <3> QED BY <1>4, <1>5, <3>2
  <2>6. CASE call[1] = "makedir"
    <3>1. PICK new : new = FreeCluster(disk)
      OBVIOUS
    <3>2. s = MakeDirWrites(p, r, new)
      BY <1>2, <2>1, <2>3, <2>6, <3>1 DEF WritesOf
    <3>3. s \in Seq(Keeping(disk, D, {}, D))
      BY <1>1, <2>2, <2>4, <3>1, <3>2, MakeDirKeeps
    <3> QED BY <1>4, <1>5, <3>3
  <2>7. CASE call[1] = "removefile" \/ call[1] = "removedir"
    <3>1. s = <<>> \/ (s = RemoveWrites(r) /\ r.slot # None /\ (r.entry.dir => IsEmpty(disk, r.entry.first)))
      <4>1. CASE call[1] = "removefile"
        <5>1. s = RemoveFileWrites(<<p, 1>>, r)
          BY <1>2, <2>1, <2>3, <4>1 DEF WritesOf
        <5> QED BY <5>1 DEF RemoveFileWrites
      <4>2. CASE call[1] = "removedir"
        <5>1. s = RemoveDirWrites(r)
          BY <1>2, <2>1, <2>3, <4>2 DEF WritesOf
        <5> QED BY <5>1 DEF RemoveDirWrites
      <4> QED BY <2>7, <4>1, <4>2
    <3>2. CASE s = <<>>
      BY <1>4, <1>5, <1>6, <3>2
    <3>3. CASE s = RemoveWrites(r) /\ r.slot # None /\ (r.entry.dir => IsEmpty(disk, r.entry.first))
      <4>1. ~IsPrefix(p, path)
        BY <2>1, <2>7
      <4>2. PICK X, C : /\ Avoids(disk, path, X) /\ NoneOf(disk, path, C)
                        /\ Range(Front(<<disk>> \o RemoveWrites(r))) \subseteq Keeping(disk, D, X, C)
        BY <1>1, <2>2, <2>4, <3>3, <4>1, RemoveKeeps
      <4>3. w \in Keeping(disk, D, X, C)
        BY <1>2, <3>3, <4>2
      <4> QED BY <4>2, <4>3
    <3> QED BY <3>1, <3>2, <3>3
  <2> QED BY <1>7, <2>5, <2>6, <2>7
<1>8. CASE call[1] = "rename" /\ \E old, new \in Path : call[2] = <<old, new>> /\ ~OpenBelow(<<old, 1>>)
  <2>1. PICK old \in Path, new \in Path : call[2] = <<old, new>>
    BY <1>8
  <2>2. IsPath(old) /\ IsPath(new)
    BY ClientAssumption DEF IsPath
  <2>3. PICK r : r = Find(disk, old)
    OBVIOUS
  <2>4. PICK t : t = Find(disk, new)
    OBVIOUS
  <2>5. Finds(disk, D, old, r) /\ Finds(disk, D, new, t)
    BY <1>1, <2>2, <2>3, <2>4, FindIs
  <2>6. PICK X : /\ \A c, i : <<c, i>> \in X => ~Listed(disk, c, i)
                 /\ Range(Front(<<disk>> \o RenameWrites(new, r, t))) \subseteq Keeping(disk, D, X, D)
    BY <1>1, <2>2, <2>5, RenameKept
  <2>7. s = RenameWrites(new, r, t)
    BY <1>2, <1>8, <2>1, <2>3, <2>4 DEF WritesOf
  <2>8. w \in Keeping(disk, D, X, D)
    BY <1>2, <2>6, <2>7
  <2>9. Avoids(disk, path, X)
    BY <2>6, NoStep
  <2> QED BY <1>5, <2>8, <2>9
<1>9. CASE call[1] = "write" /\ \E f \in Used, buf \in Buffer : call[2] = <<f, buf>>
  <2>1. PICK f \in Used, buf \in Buffer : call[2] = <<f, buf>>
    BY <1>9
  <2>2. s = WriteWrites(f, buf)
    BY <1>2, <1>9, <2>1 DEF WritesOf
  <2>3. PICK F : F = open_files[f]
    OBVIOUS
  <2>4. s \in Seq(Keeping(disk, D, Own(F), Its(D, F)))
    BY <1>1, <2>2, <2>3, WriteKeeps DEF Wayside
  <2>5. OpenAt(disk, F)
    BY <1>1, <2>3 DEF Used, Handles
  <2>6. ~IsPrefix(F.path[1], path)
    BY <1>9, <2>1, <2>3
  <2>7. Avoids(disk, path, Own(F)) /\ NoneOf(disk, path, Its(D, F))
    BY <1>1, <2>5, <2>6, NotOwn
  <2> QED BY <1>4, <2>4, <2>7
<1> QED BY <1>7, <1>8, <1>9, CallsAre

\* With the power on, tree mirrors the disk; when it went, what the interrupted call does
\* not name is where it was.
OthersInv == (on => FilesInv /\ tree = Tree(disk)) /\ OthersSurvive

\* A call goes on to its end or not.
LEMMA OthersInvNext ==
  ASSUME NoLiberties, OthersInv, [CrashNext]_crashVars PROVE OthersInv'
<1>1. CASE Work
  <2>1. on /\ on' = on /\ Next /\ tree' = Tree(disk')
    BY <1>1 DEF Work, FilesNext
  <2>2. FilesInv'
    BY <2>1, InvNext DEF OthersInv
  <2> QED BY <2>1, <2>2 DEF OthersInv, OthersSurvive
<1>2. CASE PowerLoss
  <2>1. on /\ FilesInv /\ tree = Tree(disk) /\ on' = FALSE /\ tree' = tree
    BY <1>2 DEF PowerLoss, OthersInv
  <2>2. PICK call \in Calls :
          /\ disk' \in Range(Front(<<disk>> \o WritesOf(call[1], call[2])))
          /\ before' = [call |-> call[1], arg |-> call[2], files |-> open_files]
    BY <1>2 DEF PowerLoss
  <2>3. before'.call = call[1] /\ before'.arg = call[2] /\ before'.files = open_files
    BY <2>2
  <2>4. ASSUME NEW path \in DOMAIN Tree(disk), \A n \in Named' : ~IsPrefix(n, path)
        PROVE  Find(disk', path).slot # None /\ Node(disk', Find(disk', path).entry) = Tree(disk)[path]
    <3>1. call[1] \in {"removefile", "removedir"} => ~IsPrefix(call[2], path)
      <4>1. call[1] \in {"removefile", "removedir"} => Named' = {call[2]}
        BY <2>3 DEF Named
      <4> QED BY <2>4, <4>1
    <3>2. call[1] = "write" => ~IsPrefix(open_files[call[2][1]].path[1], path)
      <4>1. call[1] = "write" => Named' = {open_files[call[2][1]].path[1]}
        BY <2>3 DEF Named
      <4> QED BY <2>4, <4>1
    <3> QED BY <2>1, <2>2, <3>1, <3>2, CallKeeps
  <2>5. OthersSurvive'
    BY <2>1, <2>4 DEF OthersSurvive, Present, NodeAt, Node
  <2> QED BY <2>1, <2>5 DEF OthersInv
<1>3. CASE UNCHANGED crashVars
  <2>1. /\ UNCHANGED vars /\ on' = on /\ tree' = tree /\ before' = before
        /\ disk' = disk
    BY <1>3 DEF crashVars, filesVars, vars
  <2>2. FilesInv => FilesInv'
    BY <2>1, InvNext
  <2>3. OthersSurvive' <=> OthersSurvive
    BY <2>1 DEF OthersSurvive, Present, NodeAt, Named
  <2> QED BY <2>1, <2>2, <2>3 DEF OthersInv
<1> QED BY <1>1, <1>2, <1>3 DEF CrashNext

\* Whichever call a power loss interrupts, and between whichever of its writes, every file and
\* directory that the call does not name is where it was, a file with the bytes it had.
THEOREM OthersStayInPlace == NoLiberties => (CrashSpec => []OthersSurvive)
<1> SUFFICES ASSUME NoLiberties PROVE CrashSpec => []OthersSurvive
  OBVIOUS
<1>1. CrashInit => OthersInv
  BY InvInit DEF CrashInit, FilesInit, OthersInv, OthersSurvive
<1>2. OthersInv /\ [CrashNext]_crashVars => OthersInv'
  BY OthersInvNext
<1>3. OthersInv => OthersSurvive
  BY DEF OthersInv
<1> QED BY <1>1, <1>2, <1>3, PTL DEF CrashSpec

=============================================================================
