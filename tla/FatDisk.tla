------------------------------ MODULE FatDisk ------------------------------
(***************************************************************************)
(* A FAT12 volume as kernel/fat12.c sees it, and the routines of that file *)
(* that its operations are made of.  They are functions from disks to      *)
(* disks; Fat12 makes them the steps of a state machine.                   *)
(*                                                                         *)
(* A cluster is one sector, as on a 1.44 MB floppy.  Its content is kept   *)
(* as directory slots and as file bytes, and what is written as one reads  *)
(* as junk as the other.  A cluster keeps its content when it is freed.    *)
(* FAT entries are atomic here.                                            *)
(***************************************************************************)
EXTENDS Integers, FiniteSets, SequencesExt

CONSTANTS
  LastCluster,   \* clusters 2 .. LastCluster have a FAT entry (at most 4079)
  LastSector,    \* the clusters above it are beyond the end of the disk
  RootEntries,   \* root_dir_entries
  ClusterSlots,  \* directory entries per cluster
  ClusterBytes,  \* file bytes per cluster
  Name,          \* 8.3 names
  Byte           \* values of a byte, 0 among them

Cluster == 2 .. LastCluster
Free == 0
EndOfChain == LastCluster + 1   \* any FAT value from 0xFF8 on
None == -1
OnDisk(c) == c \in Cluster /\ c <= LastSector

\* The first byte of a name that is not a file's or a directory's.
End == "end"        \* 0x00
Deleted == "deleted" \* 0xE5
Special == {End, Deleted, ".", ".."}
Missing == "missing" \* no entry: the slot cannot be read
Junk == "junk"  \* file bytes, which may look like the entry of some file
JunkByte == -1
Live == Name \cup {Junk}

\* struct fat12_dir_entry; dir is the attribute bit 0x10.
Entry == [name : Live \cup Special, dir : BOOLEAN, first : {Free} \cup Cluster, size : Nat]
Blank(name) == [name |-> name, dir |-> FALSE, first |-> Free, size |-> 0]
EndEntry == Blank(End)

DirCluster == {0} \cup Cluster   \* 0 is the root directory
Slots(dir) == IF dir = 0 THEN 0 .. RootEntries - 1 ELSE 0 .. ClusterSlots - 1

ASSUME FatAssumption ==
  /\ LastCluster \in Nat /\ LastCluster >= 2
  /\ LastSector \in Nat
  /\ RootEntries \in Nat \ {0}
  /\ ClusterSlots \in Nat /\ ClusterSlots >= 3
  /\ ClusterBytes \in Nat \ {0}
  /\ (Special \cup {Missing, Junk}) \cap Name = {}
  /\ 0 \in Byte /\ JunkByte \notin Byte

\* A freshly formatted disk.
Formatted ==
  [fat   |-> [c \in Cluster |-> Free],
   slots |-> [dir \in DirCluster |-> [i \in Slots(dir) |-> EndEntry]],
   bytes |-> [c \in Cluster |-> [i \in 0 .. ClusterBytes - 1 |-> 0]]]

-----------------------------------------------------------------------------
(***************************************************************************)
(* The FAT.                                                                *)
(***************************************************************************)

\* Number k of the chain that starts at c: a cluster, or what ends the chain.
Nth(fat, c, k) ==
  LET walk[i \in Nat] ==
        IF i = 0 THEN c
        ELSE LET at == walk[i - 1] IN IF at \in Cluster THEN fat[at] ELSE EndOfChain
  IN  walk[k]

\* The clusters of that chain; a cycle is walked once.
Chain(fat, c) == {Nth(fat, c, k) : k \in 0 .. LastCluster} \cap Cluster

\* Mutants, here and below: a definition as a plausible slip would have it.  This
\* one looks one cluster too far.
FreeCluster_OneMore(disk) ==
  Min({c \in Cluster : disk.fat[c] = Free} \cup {LastCluster + 1})

\* The cluster fat12_allocate_cluster picks, or None.
FreeCluster(disk) ==
  LET free == {c \in Cluster : disk.fat[c] = Free} IN IF free = {} THEN None ELSE Min(free)

\* A mutant: the new cluster is linked, but not marked as the end of its chain.
Allocated_NotMarked(disk, current) ==
  [disk EXCEPT !.fat = IF current \in Cluster THEN [@ EXCEPT ![current] = FreeCluster(disk)] ELSE @]

\* Its effect: the new cluster ends a chain, current's if it is a cluster.
Allocated(disk, current) ==
  LET new == FreeCluster(disk)
      fat == [disk.fat EXCEPT ![new] = EndOfChain]
  IN  [disk EXCEPT !.fat = IF current \in Cluster THEN [fat EXCEPT ![current] = new] ELSE fat]

\* fat12_free_cluster_chain
Freed(disk, start) ==
  [disk EXCEPT !.fat = [c \in Cluster |-> IF c \in Chain(disk.fat, start) THEN Free ELSE @[c]]]

\* A mutant: a new directory cluster is left as it is.
Zeroed_Never(disk, c, zero) == disk

\* A new directory cluster (zero) is filled with zeros; beyond the disk the write
\* fails and the failure goes unnoticed.
Zeroed(disk, c, zero) ==
  IF zero /\ OnDisk(c)
  THEN [disk EXCEPT !.slots[c] = [i \in Slots(c) |-> EndEntry],
                    !.bytes[c] = [i \in 0 .. ClusterBytes - 1 |-> 0]]
  ELSE disk

\* From a cluster of a chain to the next one, which is allocated if there is none;
\* when the FAT is full, the walk w stops with ok = FALSE.
Hop(w, zero) ==
  LET next == w.disk.fat[w.at]
      new  == FreeCluster(w.disk)
  IN  IF ~w.ok THEN w
      ELSE IF next \in Cluster THEN [w EXCEPT !.at = next]
      ELSE IF new = None THEN [w EXCEPT !.ok = FALSE]
      ELSE [ok |-> TRUE, at |-> new, disk |-> Zeroed(Allocated(w.disk, w.at), new, zero)]

\* Walk to cluster number k of the chain at first, allocating what is missing.
Reach(disk, first, k, zero) ==
  LET walk[i \in Nat] ==
        IF i = 0 THEN [disk |-> disk, at |-> first, ok |-> TRUE] ELSE Hop(walk[i - 1], zero)
  IN  walk[k]

-----------------------------------------------------------------------------
(***************************************************************************)
(* Directories.                                                            *)
(***************************************************************************)

\* fat12_read_dir_entry: the entry, Missing past the last slot or off the disk.
ReadSlot(disk, dir, i) ==
  LET c == IF dir = 0 THEN 0 ELSE Nth(disk.fat, dir, i \div ClusterSlots)
  IN  IF dir = 0 /\ i < RootEntries THEN disk.slots[0][i]
      ELSE IF OnDisk(c) THEN disk.slots[c][i % ClusterSlots]
      ELSE Blank(Missing)

\* The entry is written to the cluster that the walk w has reached.
Written(w, i, entry) ==
  IF w.ok /\ OnDisk(w.at)
  THEN [ok   |-> TRUE,
        disk |-> [w.disk EXCEPT !.slots[w.at][i % ClusterSlots] = entry,
                                !.bytes[w.at] = [n \in DOMAIN @ |-> JunkByte]]]
  ELSE [ok |-> FALSE, disk |-> w.disk]

\* fat12_write_dir_entry, which makes a directory that is no root longer.
WriteSlot(disk, dir, i, entry) ==
  IF dir = 0
  THEN IF i < RootEntries
       THEN [ok |-> TRUE, disk |-> [disk EXCEPT !.slots[0][i] = entry]]
       ELSE [ok |-> FALSE, disk |-> disk]
  ELSE Written(Reach(disk, dir, i \div ClusterSlots, TRUE), i, entry)

\* The first slot that has one of the names or cannot be read.
FirstSlot(disk, dir, names) ==
  LET last == IF dir = 0 THEN RootEntries ELSE ClusterSlots * Cardinality(Chain(disk.fat, dir))
      hit  == {i \in 0 .. last : ReadSlot(disk, dir, i).name \in names \cup {Missing}}
  IN  Min(hit)

\* The inner loop of fat12_find_entry: the slot that holds the name, or None.
Lookup(disk, dir, name) ==
  LET i == FirstSlot(disk, dir, {name, End})
  IN  IF ReadSlot(disk, dir, i).name = name THEN i ELSE None

\* What a search found: the directory, slot and entry.  slot is None if there is
\* no such entry, dir too if the path to it does not exist.
Found(disk, dir, slot) ==
  [dir |-> dir, slot |-> slot,
   entry |-> IF slot = None THEN EndEntry ELSE ReadSlot(disk, dir, slot)]

FindIn(disk, dir, name) ==
  Found(disk, dir, IF dir = None THEN None ELSE Lookup(disk, dir, name))

\* The directory of that name, or None.
Enter(disk, dir, name) ==
  LET found == FindIn(disk, dir, name)
  IN  IF found.slot # None /\ found.entry.dir THEN found.entry.first ELSE None

\* fat12_resolve_parent: the directory that the path's last name belongs in, or None.
Parent(disk, path) ==
  LET at[n \in 0 .. Len(path) - 1] == IF n = 0 THEN 0 ELSE Enter(disk, at[n - 1], path[n])
  IN  at[Len(path) - 1]

\* fat12_find_entry
Find(disk, path) == FindIn(disk, Parent(disk, path), Last(path))

\* fat12_create_entry: write the entry to the first slot that is not in use; if
\* that was the end of the directory, the end moves on by one slot.
Create(disk, dir, entry) ==
  LET i == FirstSlot(disk, dir, {End, Deleted})
      wasEnd == ReadSlot(disk, dir, i).name = End
      created(w) ==
        [ok   |-> w.ok,
         slot |-> i,
         disk |-> IF w.ok /\ wasEnd THEN WriteSlot(w.disk, dir, i + 1, EndEntry).disk ELSE w.disk]
  IN  created(WriteSlot(disk, dir, i, entry))

\* fat12_init_dir_cluster
InitDir(disk, c, parent) ==
  LET dot(name, first) == [name |-> name, dir |-> TRUE, first |-> first, size |-> 0]
      d1 == WriteSlot(disk, c, 0, dot(".", c)).disk
      d2 == WriteSlot(d1, c, 1, dot("..", parent)).disk
  IN  WriteSlot(d2, c, 2, EndEntry).disk

\* A mutant: the scan takes a deleted entry for the end of the directory.
IsEmpty_StopsAtDeleted(disk, dir) ==
  ReadSlot(disk, dir, FirstSlot(disk, dir, Live \cup {End, Deleted})).name \notin Live

\* fat12_is_dir_empty
IsEmpty(disk, dir) ==
  ReadSlot(disk, dir, FirstSlot(disk, dir, Live \cup {End})).name \notin Live

-----------------------------------------------------------------------------
(***************************************************************************)
(* What a disk stands for.                                                 *)
(***************************************************************************)

\* The slots of a directory that hold a file or a directory.
LiveSlots(disk, dir) ==
  {i \in 0 .. FirstSlot(disk, dir, {End}) - 1 : ReadSlot(disk, dir, i).name \in Live}

Below(disk, dir, path) ==
  {[path |-> Append(path, ReadSlot(disk, dir, i).name), dir |-> dir, slot |-> i] :
     i \in LiveSlots(disk, dir)}

EntryAt(disk, p) == ReadSlot(disk, p.dir, p.slot)

\* The files and directories: their paths and where their entries are.
Places(disk) ==
  LET level[n \in Nat] ==
        IF n = 0 THEN Below(disk, 0, <<>>)
        ELSE LET upper == level[n - 1]
                 dirs  == {p \in upper : EntryAt(disk, p).dir}
             IN  upper \cup UNION {Below(disk, EntryAt(disk, p).first, p.path) : p \in dirs}
  IN  level[LastCluster - 1]

\* The bytes of a file: its chain's, up to its size.
Content(disk, entry) ==
  LET byte(n) == LET c == Nth(disk.fat, entry.first, n \div ClusterBytes)
                 IN  IF c \in Cluster THEN disk.bytes[c][n % ClusterBytes] ELSE JunkByte
  IN  [i \in 1 .. entry.size |-> byte(i - 1)]

Tree(disk) ==
  LET places == Places(disk)
      entry(path) == EntryAt(disk, CHOOSE p \in places : p.path = path)
      node(e) == [dir |-> e.dir, bytes |-> IF e.dir THEN <<>> ELSE Content(disk, e)]
  IN  [path \in {p.path : p \in places} |-> node(entry(path))]
=============================================================================
