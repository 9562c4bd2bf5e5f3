----------------------------- MODULE Fat12Crash -----------------------------
(***************************************************************************)
(* Power losses between the disk writes of a file system call.  Fat12      *)
(* takes a call as one step; here the call is the sequence of disks that   *)
(* its writes make, in the order of kernel/fat12.c, and when the power     *)
(* goes, the disk is one from the middle of it.  A FAT entry is written at *)
(* once, in both copies (FatPacking says what tearing one does), and so is *)
(* a sector.                                                               *)
(***************************************************************************)
EXTENDS Fat12Files

VARIABLES
  on,      \* the power is on
  before   \* the call that was under way when it went, and the handles it began with

crashVars == <<filesVars, on, before>>

\* The disk after some writes.
After(d, writes) == IF writes = <<>> THEN d ELSE Last(writes)

\* Mutant: the first cluster is taken, without a look at its FAT entry.
AllocateWrites_First(d, current) ==
  LET marked == [d EXCEPT !.fat[2] = EndOfChain]
  IN  IF current \in Cluster THEN <<marked, [marked EXCEPT !.fat[current] = 2]>> ELSE <<marked>>

\* fat12_allocate_cluster marks the new cluster, and then links it.
AllocateWrites(d, current) ==
  IF \A c \in Cluster : d.fat[c] # Free THEN <<>>
  ELSE IF current \in Cluster THEN <<Allocated(d, Free), Allocated(d, current)>>
  ELSE <<Allocated(d, Free)>>

\* fat12_free_cluster_chain, cluster by cluster.
FreeWrites(d, start) ==
  [i \in 1 .. Cardinality(Chain(d.fat, start)) |->
     [d EXCEPT !.fat = [c \in Cluster |->
        IF \E k \in 0 .. i - 1 : c = Nth(d.fat, start, k) THEN Free ELSE @[c]]]]

\* fat12_write_dir_entry: when the directory grows, its new cluster is allocated and
\* filled with zeros before the entry is written.
SlotSteps(d, grows, last, walk, slot) ==
  (IF grows THEN AllocateWrites(d, last) \o <<walk.disk>> ELSE <<>>)
    \o IF slot.ok THEN <<slot.disk>> ELSE <<>>

SlotWrites(d, dir, i, entry) ==
  SlotSteps(d, dir # 0 /\ Nth(d.fat, dir, i \div ClusterSlots) \notin Cluster,
            Nth(d.fat, dir, i \div ClusterSlots - 1),
            Reach(d, dir, i \div ClusterSlots, TRUE), WriteSlot(d, dir, i, entry))

\* fat12_create_entry has found slot i, at the directory's end or not; made are the
\* writes of the entry.
CreateSteps(d, dir, i, atEnd, entry, made) ==
  IF atEnd /\ ReadSlot(After(d, made), dir, i) = entry
  THEN made \o SlotWrites(After(d, made), dir, i + 1, EndEntry) ELSE made

CreateWrites(d, dir, entry) ==
  LET i == FirstSlot(d, dir, {End, Deleted})
  IN  CreateSteps(d, dir, i, ReadSlot(d, dir, i).name = End, entry, SlotWrites(d, dir, i, entry))

\* There is a slot for a new entry.
Room(d, dir) == WriteSlot(d, dir, FirstSlot(d, dir, {End, Deleted}), EndEntry).ok

\* fat12_init_dir_cluster, when the cluster is on the disk.
InitWrites(d, c, parent) ==
  LET dot(name, first) == [name |-> name, dir |-> TRUE, first |-> first, size |-> 0]
      d1 == WriteSlot(d, c, 0, dot(".", c)).disk
      d2 == WriteSlot(d1, c, 1, dot("..", parent)).disk
  IN  IF OnDisk(c) THEN <<d1, d2, WriteSlot(d2, c, 2, EndEntry).disk>> ELSE <<>>

\* fat12_open of a file that does not exist
OpenWrites(path, found) ==
  IF found.slot # None \/ found.dir = None THEN <<>>
  ELSE CreateWrites(disk, found.dir, Blank(Last(path)))

\* fat12_makedir
MadeAndFreed(d, new, writes, ok) == IF ok THEN writes ELSE writes \o FreeWrites(After(d, writes), new)

MakeDirSteps(path, parent, new, made) ==
  MadeAndFreed(disk, new,
    made \o CreateWrites(After(disk, made), parent,
                         [name |-> Last(path), dir |-> TRUE, first |-> new, size |-> 0]),
    Room(After(disk, made), parent))

MakeDirWrites(path, found, new) ==
  IF found.slot # None \/ found.dir = None \/ new = None THEN <<>>
  ELSE MakeDirSteps(path, found.dir, new,
         AllocateWrites(disk, Free) \o InitWrites(Allocated(disk, Free), new, found.dir))

\* fat12_rename: the new entry, the ".." of a directory, the old entry.
ErasedAfter(d, writes, found) == Append(writes, Erased(After(d, writes), found))

Reparent(writes, found, parent) ==
  IF found.entry.dir /\ OnDisk(found.entry.first)
  THEN Append(writes, Reparented(Last(writes), found.entry.first, parent)) ELSE writes

\* Mutant: the old entry is erased before the new one is made.
RenameWrites_EraseFirst(new, found, target) ==
  IF found.slot = None \/ target.slot # None \/ target.dir = None THEN <<>>
  ELSE <<Erased(disk, found)>> \o
       CreateWrites(Erased(disk, found), target.dir, [found.entry EXCEPT !.name = Last(new)])

RenameWrites(new, found, target) ==
  LET made == CreateWrites(disk, target.dir, [found.entry EXCEPT !.name = Last(new)])
  IN  IF found.slot = None \/ target.slot # None \/ target.dir = None THEN <<>>
      ELSE IF Room(disk, target.dir) THEN ErasedAfter(disk, Reparent(made, found, target.dir), found)
      ELSE made

\* fat12_removefile and fat12_removedir: the chain goes first, the entry last.
RemoveWrites(found) == ErasedAfter(disk, FreeWrites(disk, found.entry.first), found)

RemoveFileWrites(path, found) ==
  IF found.slot = None \/ found.entry.dir \/ BeingUsed(found.entry, path) THEN <<>>
  ELSE RemoveWrites(found)

RemoveDirWrites(found) ==
  IF found.slot = None \/ ~found.entry.dir THEN <<>>
  ELSE IF IsEmpty(disk, found.entry.first) THEN RemoveWrites(found) ELSE <<>>

\* Mutant: the size is entered before the data is written.
DataWrites_SizeFirst(file, walk, stored) ==
  IF stored.file.file_size > file.file_size
  THEN <<Patched(walk.disk, file, "size", stored.file.file_size), stored.disk>>
  ELSE <<stored.disk>>

\* The data of a turn of fat12_write's loop, and the size if the file got longer.
DataWrites(file, walk, stored) ==
  <<[walk.disk EXCEPT !.bytes[walk.at] = stored.disk.bytes[walk.at],
                      !.slots[walk.at] = stored.disk.slots[walk.at]]>>
    \o IF stored.file.file_size > file.file_size THEN <<stored.disk>> ELSE <<>>

\* Before them, a further cluster.
GrowWrites(s, walk) ==
  (IF walk.disk = s.disk THEN <<>>
   ELSE AllocateWrites(s.disk, Nth(s.disk.fat, s.file.first_cluster,
                                   (s.file.cursor \div ClusterBytes) - 1)))
    \o IF walk.ok /\ OnDisk(walk.at)
       THEN DataWrites(s.file, walk, Stored([s EXCEPT !.disk = walk.disk], walk.at)) ELSE <<>>

\* And before that the first cluster, and its entry in the directory.
StartWrites(w, s) ==
  (IF s.disk = w.disk THEN <<>> ELSE Append(AllocateWrites(w.disk, Free), s.disk))
    \o IF s.go THEN GrowWrites(s, Reach(s.disk, s.file.first_cluster,
                                        s.file.cursor \div ClusterBytes, FALSE)) ELSE <<>>

WriteWrites(f, buf) ==
  LET loop[i \in Nat] ==
        IF i = 0 THEN [loop |-> WriteLoop(open_files[f], buf), disks |-> <<>>]
        ELSE LET w == loop[i - 1]
             IN  IF ~w.loop.go THEN w
                 ELSE [loop |-> WriteTurn(w.loop),
                       disks |-> w.disks \o StartWrites(w.loop, Started(w.loop))]
  IN  IF f \in Used THEN loop[Len(buf)].disks ELSE <<>>

\* The writes of a call, named as Reply does.
WritesOf(call, arg) ==
  CASE call = "open"       -> OpenWrites(arg, Find(disk, arg))
    [] call = "makedir"    -> MakeDirWrites(arg, Find(disk, arg), FreeCluster(disk))
    [] call = "removefile" -> RemoveFileWrites(<<arg, 1>>, Find(disk, arg))
    [] call = "removedir"  -> RemoveDirWrites(Find(disk, arg))
    [] call = "rename"     -> RenameWrites(arg[2], Find(disk, arg[1]), Find(disk, arg[2]))
    [] call = "write"      -> WriteWrites(arg[1], arg[2])
    [] OTHER               -> <<>>

\* The calls that clients may make, as in Next.
Calls ==
  {<<call, path>> : call \in {"open", "makedir", "removefile", "removedir"}, path \in Path}
    \cup {<<"rename", <<old, new>>>> : old \in {p \in Path : ~OpenBelow(<<p, 1>>)}, new \in Path}
    \cup {<<"write", <<f, buf>>>> : f \in Used, buf \in Buffer}

Allowed(call, arg) ==
  /\ call = "rename" => ~IntoItself(<<arg[1], 1>>, <<arg[2], 1>>)
  /\ call = "write" => open_files[arg[1]].cursor + Len(arg[2]) <= MaxFile

CrashInit == FilesInit /\ on = TRUE /\ before = <<>>

\* The power goes in the middle of a call: between two of its writes.  tree remains
\* what the disk stood for as the call began.
PowerLoss ==
  /\ on
  /\ \E call \in Calls :
       /\ Allowed(call[1], call[2])
       /\ disk' \in Range(Front(<<disk>> \o WritesOf(call[1], call[2]))) \ {disk}
       /\ before' = [call |-> call[1], arg |-> call[2], files |-> open_files]
  /\ on' = FALSE
  /\ open_files' = [f \in Handle |-> Closed]
  /\ reply' = <<>> /\ UNCHANGED tree

Work == on /\ FilesNext /\ UNCHANGED <<on, before>>

CrashNext == Work \/ PowerLoss

CrashSpec == CrashInit /\ [][CrashNext]_crashVars

-----------------------------------------------------------------------------
(***************************************************************************)
(* Properties: while the power is on.                                      *)
(***************************************************************************)
\* Reads return what was written last, wherever the file was moved since; a call
\* changes nothing but what it is about, fails only for the reasons its error
\* code stands for, and when it fails it changes nothing that clients can see
\* (a failing write may have written a part).  About all of fat12.c.
ImplementsFileStore == Promise!Init /\ [][on' => Promise!Next(Path)]_filesVars

\* The directories form a tree whose ".." entries lead back (fat12_rename,
\* fat12_makedir), and no name is twice in a directory.
TreeStands == on => TreeWellFormed

\* Every allocated cluster belongs to a file or a directory: failed and partial
\* calls give back what they took, and removing gives back everything.
NoneLost == on => NothingLost

\* No cluster belongs to two files or directories: what is written to one never
\* shows in another, whatever was created, grown, moved and removed before.
NoneShared == on => ChainsApart

-----------------------------------------------------------------------------
(***************************************************************************)
(* Properties: what a restart finds.                                       *)
(***************************************************************************)
\* The paths that the interrupted call works on.
Named ==
  CASE before.call = "rename" -> {before.arg[1], before.arg[2]}
    [] before.call = "write"  -> {before.files[before.arg[1]].path[1]}
    [] OTHER                  -> {before.arg}

\* What is found at a path.
NodeAt(path) ==
  LET e == Find(disk, path).entry
  IN  [dir |-> e.dir, bytes |-> IF e.dir THEN <<>> ELSE Content(disk, e)]

Present(path) == Find(disk, path).slot # None

\* Whatever call the power loss interrupts, every file and directory that the call
\* does not name is where it was, with the content it had.
OthersSurvive ==
  ~on => \A path \in DOMAIN tree :
           (\A n \in Named : ~IsPrefix(n, path)) =>
              Present(path) /\ NodeAt(path) = tree[path]

\* What is being renamed is there under the old name or under the new one, as a
\* directory with all that is below it (fat12_rename makes the new entry first).
RenamedSurvives ==
  ~on /\ before.call = "rename" =>
    LET old == before.arg[1]
        moved(path) == before.arg[2] \o SubSeq(path, Len(old) + 1, Len(path))
        kept(at(_)) == \A path \in {p \in DOMAIN tree : IsPrefix(old, p)} :
                          Present(at(path)) /\ NodeAt(at(path)) = tree[path]
    IN  kept(LAMBDA path : path) \/ kept(moved)

\* A file that is being written keeps its length or has got longer; each of its bytes
\* is the old one or the one being written, never what the cluster held before
\* (fat12_write enters the size after the data).
WrittenOrOld ==
  ~on /\ before.call = "write" =>
    LET file == before.files[before.arg[1]]
        buf  == before.arg[2]
        old  == tree[file.path[1]].bytes
        now  == NodeAt(file.path[1]).bytes
    IN  /\ Present(file.path[1]) /\ Len(now) >= Len(old)
        /\ \A i \in DOMAIN now :
             \/ i \in DOMAIN old /\ now[i] = old[i]
             \/ i - file.cursor \in DOMAIN buf /\ now[i] = buf[i - file.cursor]
=============================================================================
