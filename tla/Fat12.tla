------------------------------- MODULE Fat12 -------------------------------
(***************************************************************************)
(* The FAT12 driver, kernel/fat12.c: the operations behind the file system *)
(* calls, on the disk of FatDisk and the table of open files (fileno.c).   *)
(*                                                                         *)
(* The kernel runs one call at a time and no interrupt handler touches the *)
(* file system, so a call is one step.  Calls come in any order, with any  *)
(* arguments, except for the Liberties that clients may not take: see Next. *)
(***************************************************************************)
EXTENDS FatDisk

CONSTANTS
  MaxOpenFiles,
  Path,       \* paths that clients use: sequences of names, root first
  Spelling,   \* ways to write a path: case, slashes, long names cut to 8.3
  Buffer,     \* what clients write: sequences of bytes
  MaxRead,    \* how many bytes they read at most
  MaxFile,    \* they write no further than this
  Liberties   \* see Next

VARIABLES
  disk,
  open_files,
  reply       \* the last call: what was called, with what, its return value, data

vars == <<disk, open_files, reply>>

Handle == 1 .. MaxOpenFiles

\* struct open_file.  path is the string given to open, cut to 255 characters
\* (none is that long); current_cluster is never read.
Closed == [used |-> FALSE]
File == [used : {TRUE}, path : Path \X Spelling, first_cluster : {Free} \cup Cluster,
         cursor : Nat, file_size : Nat, parent_cluster : DirCluster, entry_idx : Nat]

ASSUME ClientAssumption ==
  /\ MaxOpenFiles \in Nat \ {0}
  /\ Path \subseteq Seq(Name) \ {<<>>}
  /\ Spelling # {}
  /\ Buffer \subseteq Seq(Byte)
  /\ MaxRead \in Nat /\ MaxFile \in Nat
  /\ Liberties \subseteq {"reopen", "rename open"}

Used == {f \in Handle : open_files[f].used}

Init ==
  /\ disk = Formatted
  /\ open_files = [f \in Handle |-> Closed]
  /\ reply = <<>>

Reply(call, argument, code) == reply' = <<call, argument, code, <<>>>>

\* A call that returns without having changed anything.
Refuse(call, argument, code) == Reply(call, argument, code) /\ UNCHANGED <<disk, open_files>>

-----------------------------------------------------------------------------
(***************************************************************************)
(* fat12_open, fat12_close                                                 *)
(***************************************************************************)

\* The entry of the handle: where fat12_open found or made it.
Opened(path, dir, slot, entry) ==
  [used |-> TRUE, path |-> path, first_cluster |-> entry.first, cursor |-> 0,
   file_size |-> entry.size, parent_cluster |-> dir, entry_idx |-> slot]

Open(path) ==
  LET unused == Handle \ Used
      fd     == Min(unused)
      new    == Blank(Last(path[1]))
      fails(code) == Refuse("open", path[1], code)
      enter(dir, slot, entry) ==
        /\ open_files' = [open_files EXCEPT ![fd] = Opened(path, dir, slot, entry)]
        /\ Reply("open", path[1], fd)
      old(found) ==
        IF found.entry.dir THEN fails(-1)
        ELSE enter(found.dir, found.slot, found.entry) /\ UNCHANGED disk
      create(dir, made) ==
        /\ disk' = made.disk
        /\ IF made.ok THEN enter(dir, made.slot, new)
           ELSE Reply("open", path[1], -1) /\ UNCHANGED open_files
      open(found) ==
        IF found.slot # None THEN old(found)
        ELSE IF found.dir = None THEN fails(-9)
        ELSE create(found.dir, Create(disk, found.dir, new))
  IN  IF unused = {} THEN fails(-1) ELSE open(Find(disk, path[1]))

Close(f) ==
  IF f \in Used
  THEN /\ open_files' = [open_files EXCEPT ![f] = Closed]
       /\ Reply("close", f, 0)
       /\ UNCHANGED disk
  ELSE Refuse("close", f, -5)

-----------------------------------------------------------------------------
(***************************************************************************)
(* fat12_write, fat12_read, fat12_get_size                                 *)
(***************************************************************************)

\* An entry with its first cluster or its size set.
Changed(e, field, value) ==
  IF field = "first" THEN [e EXCEPT !.first = value] ELSE [e EXCEPT !.size = value]

\* The handle's directory entry with a field set, if it can be read.
Patched(d, file, field, value) ==
  LET e == ReadSlot(d, file.parent_cluster, file.entry_idx)
  IN  IF e.name = Missing THEN d
      ELSE WriteSlot(d, file.parent_cluster, file.entry_idx, Changed(e, field, value)).disk

\* fat12_write's loop works on the disk, the handle and the bytes left in the
\* buffer; go and failed say how it goes on, and done how much it wrote.
WriteLoop(file, buf) ==
  [disk |-> disk, file |-> file, buf |-> buf, done |-> 0, go |-> TRUE, failed |-> FALSE]

\* A file that has no cluster gets its first one.
Started(w) ==
  LET new == FreeCluster(w.disk)
  IN  IF w.file.first_cluster # Free THEN w
      ELSE IF new = None THEN [w EXCEPT !.go = FALSE, !.failed = TRUE]
      ELSE [w EXCEPT !.file.first_cluster = new,
                     !.disk = Patched(Allocated(w.disk, Free), w.file, "first", new)]

\* The bytes of the buffer that fit behind the cursor into the sector at c.
Stored(w, c) ==
  LET skip  == w.file.cursor % ClusterBytes
      n     == Min({Len(w.buf), ClusterBytes - skip})
      end   == w.file.cursor + n
      grown == end > w.file.file_size
      bytes == [i \in 0 .. ClusterBytes - 1 |->
                  IF i \in skip .. skip + n - 1 THEN w.buf[i - skip + 1]
                  ELSE w.disk.bytes[c][i]]
      d     == [w.disk EXCEPT !.bytes[c] = bytes,
                               !.slots[c] = [i \in Slots(c) |-> Blank(Junk)]]
  IN  [w EXCEPT !.disk = IF grown THEN Patched(d, w.file, "size", end)
                         ELSE d,
                !.file.cursor = end,
                !.file.file_size = IF grown THEN end ELSE @,
                !.buf = SubSeq(@, n + 1, Len(@)),
                !.done = @ + n,
                !.go = n < Len(w.buf)]

\* One turn of the loop; it ends early when the FAT is full or the sector is
\* beyond the end of the disk.
WriteTurn(w) ==
  LET at(s, walk) ==
        LET t == [s EXCEPT !.disk = walk.disk]
        IN  IF ~walk.ok THEN [t EXCEPT !.go = FALSE]
            ELSE IF ~OnDisk(walk.at) THEN [t EXCEPT !.go = FALSE, !.failed = TRUE]
            ELSE Stored(t, walk.at)
      from(s) ==
        IF ~s.go THEN s
        ELSE at(s, Reach(s.disk, s.file.first_cluster, s.file.cursor \div ClusterBytes, FALSE))
  IN  from(Started(w))

Write(f, buf) ==
  LET loop[i \in Nat] ==
        IF i = 0 THEN WriteLoop(open_files[f], buf)
        ELSE LET w == loop[i - 1] IN IF w.go THEN WriteTurn(w) ELSE w
      ends(w) ==
        /\ disk' = w.disk
        /\ open_files' = [open_files EXCEPT ![f] = w.file]
        /\ Reply("write", <<f, buf>>, IF w.failed THEN -1 ELSE w.done)
  IN  IF f \in Used THEN ends(loop[Len(buf)])
      ELSE Refuse("write", <<f, buf>>, -5)

\* A mutant: the end of the file does not limit a read.
ToRead_PastEnd(file, left) == Min({left, ClusterBytes - (file.cursor % ClusterBytes)})

\* How many bytes a turn of fat12_read's loop reads.
ToRead(file, left) ==
  Min({left, ClusterBytes - (file.cursor % ClusterBytes), file.file_size - file.cursor})

\* The loop works like that of fat12_write; out collects the bytes read.
ReadTurn(r, count) ==
  LET file  == r.file
      skip  == file.cursor % ClusterBytes
      c     == Nth(disk.fat, file.first_cluster, file.cursor \div ClusterBytes)
      n     == ToRead(file, count - Len(r.out))
  IN  IF file.cursor >= file.file_size \/ c \notin Cluster THEN [r EXCEPT !.go = FALSE]
      ELSE IF ~OnDisk(c) THEN [r EXCEPT !.go = FALSE, !.failed = TRUE]
      ELSE [r EXCEPT !.out = @ \o [i \in 1 .. n |-> disk.bytes[c][skip + i - 1]],
                     !.file.cursor = @ + n,
                     !.go = Len(r.out) + n < count]

Read(f, count) ==
  LET loop[i \in Nat] ==
        IF i = 0 THEN [file |-> open_files[f], out |-> <<>>, go |-> TRUE, failed |-> FALSE]
        ELSE LET r == loop[i - 1] IN IF r.go THEN ReadTurn(r, count) ELSE r
      r == loop[count]
  IN  IF f \in Used
      THEN /\ open_files' = [open_files EXCEPT ![f] = r.file]
           /\ reply' = <<"read", <<f, count>>, IF r.failed THEN -1 ELSE Len(r.out), r.out>>
           /\ UNCHANGED disk
      ELSE Refuse("read", <<f, count>>, -5)

GetSize(f) == Refuse("get_size", f, IF f \in Used THEN open_files[f].file_size ELSE 0)

-----------------------------------------------------------------------------
(***************************************************************************)
(* fat12_rename, fat12_makedir, fat12_removedir, fat12_removefile,         *)
(* fat12_listcontent.  A path here is <<names, spelling>>.                 *)
(***************************************************************************)

\* The slot's entry is marked deleted.  (Its other fields stay in the code; they
\* are nothing to anybody.)
Erased(d, found) == WriteSlot(d, found.dir, found.slot, Blank(Deleted)).disk

\* The ".." of the directory that starts at cluster c names its new parent.
Reparented(d, c, parent) ==
  LET dotdot == ReadSlot(d, c, 1)
  IN  IF dotdot.name = Missing THEN d
      ELSE WriteSlot(d, c, 1, [dotdot EXCEPT !.first = parent]).disk

Rename(old, new) ==
  LET paths == <<old[1], new[1]>>
      fails(code) == Refuse("rename", paths, code)
      moved(found, parent, d) ==
        IF found.entry.dir /\ found.entry.first # Free
        THEN Reparented(d, found.entry.first, parent) ELSE d
      move(found, parent, made) ==
        IF ~made.ok
        THEN disk' = made.disk /\ Reply("rename", paths, -1) /\ UNCHANGED open_files
        ELSE /\ disk' = Erased(moved(found, parent, made.disk), found)
             /\ open_files' = [f \in Handle |->
                  IF f \in Used /\ open_files[f].path = old
                  THEN [open_files[f] EXCEPT !.path = new] ELSE open_files[f]]
             /\ Reply("rename", paths, 0)
      rename(found, target) ==
        IF found.slot = None THEN fails(-9)
        ELSE IF target.slot # None THEN fails(-1)
        ELSE IF target.dir = None THEN fails(-9)
        ELSE move(found, target.dir,
                  Create(disk, target.dir, [found.entry EXCEPT !.name = Last(new[1])]))
  IN  rename(Find(disk, old[1]), Find(disk, new[1]))

MakeDir(path) ==
  LET new == FreeCluster(disk)
      entry == [name |-> Last(path[1]), dir |-> TRUE, first |-> new, size |-> 0]
      inited(parent) == InitDir(Allocated(disk, Free), new, parent)
      fails(code) == Refuse("makedir", path[1], code)
      make(made) ==
        /\ disk' = IF made.ok THEN made.disk ELSE Freed(made.disk, new)
        /\ Reply("makedir", path[1], IF made.ok THEN 0 ELSE -1)
        /\ UNCHANGED open_files
      under(target) ==
        IF target.dir = None THEN fails(-9)
        ELSE IF target.slot # None \/ new = None THEN fails(-1)
        ELSE make(Create(inited(target.dir), target.dir, entry))
  IN  under(Find(disk, path[1]))

\* A mutant: the chain is not freed.
Removed_NotFreed(found) == Erased(disk, found)

\* The chain is freed first, then the entry is marked.
Removed(found) == Erased(Freed(disk, found.entry.first), found)

RemoveDir(path) ==
  LET fails(code) == Refuse("removedir", path[1], code)
      remove(found) ==
        IF found.slot = None \/ ~found.entry.dir THEN fails(-9)
        ELSE IF ~IsEmpty(disk, found.entry.first) THEN fails(-11)
        ELSE disk' = Removed(found) /\ Reply("removedir", path[1], 0) /\ UNCHANGED open_files
  IN  remove(Find(disk, path[1]))

\* Some handle is taken to be open on the file; without a cluster to compare,
\* the paths are compared as strings.
BeingUsed(entry, path) ==
  \E f \in Used : /\ open_files[f].first_cluster = entry.first
                  /\ entry.first # Free \/ open_files[f].path = path

RemoveFile(path) ==
  LET fails(code) == Refuse("removefile", path[1], code)
      remove(found) ==
        IF found.slot = None \/ found.entry.dir THEN fails(-9)
        ELSE IF BeingUsed(found.entry, path) THEN fails(-11)
        ELSE disk' = Removed(found) /\ Reply("removefile", path[1], 0) /\ UNCHANGED open_files
  IN  remove(Find(disk, path[1]))

\* The files and directories of a directory, in the order of their slots.
Listing(dir) ==
  LET end  == FirstSlot(disk, dir, {End})
      all  == [i \in 1 .. end |-> ReadSlot(disk, dir, i - 1)]
      kept == SelectSeq(all, LAMBDA e : e.name \in Live)
  IN  [i \in DOMAIN kept |-> <<kept[i].name, kept[i].dir>>]

\* The empty path is the root directory.
ListContent(path) ==
  LET lists(listing) == reply' = <<"list", path, 0, listing>> /\ UNCHANGED <<disk, open_files>>
      list(found) ==
        IF found.slot = None THEN Refuse("list", path, -9)
        ELSE lists(IF found.entry.dir THEN Listing(found.entry.first)
                   ELSE <<<<found.entry.name, FALSE>>>>)
  IN  IF path = <<>> THEN lists(Listing(0)) ELSE list(Find(disk, path))

-----------------------------------------------------------------------------
(***************************************************************************)
(* Clients.  Unless they take the liberty, they open no file that is open  *)
(* and rename neither an open file nor a directory above one; and they     *)
(* move no directory into itself.  The driver forbids none of this.        *)
(***************************************************************************)
Takes(liberty) == liberty \in Liberties

OpenBelow(path) == \E f \in Used : IsPrefix(path[1], open_files[f].path[1])

IsOpen(path) == \E f \in Used : open_files[f].path[1] = path[1]

IntoItself(path, new) == IsStrictPrefix(path[1], new[1]) /\ Find(disk, path[1]).entry.dir

Next ==
  \/ \E path \in Path \X Spelling :
       \/ (Takes("reopen") \/ ~IsOpen(path)) /\ Open(path)
       \/ MakeDir(path)
       \/ RemoveDir(path)
       \/ RemoveFile(path)
       \/ \E new \in Path \X Spelling :
            /\ Takes("rename open") \/ ~OpenBelow(path)
            /\ ~IntoItself(path, new)
            /\ Rename(path, new)
  \/ \E path \in Path \cup {<<>>} : ListContent(path)
  \/ \E f \in Handle :
       \/ Close(f)
       \/ GetSize(f)
       \/ \E buf \in Buffer :
            /\ f \in Used => open_files[f].cursor + Len(buf) <= MaxFile
            /\ Write(f, buf)
       \/ \E count \in 1 .. MaxRead : Read(f, count)

Spec == Init /\ [][Next]_vars

-----------------------------------------------------------------------------
(***************************************************************************)
(* Properties                                                              *)
(***************************************************************************)

\* Types of the variables, FAT values among them.
TypeOK ==
  /\ disk.fat \in [Cluster -> {Free, EndOfChain} \cup Cluster]
  /\ \A dir \in DirCluster : disk.slots[dir] \in [Slots(dir) -> Entry]
  /\ disk.bytes \in [Cluster -> [0 .. ClusterBytes - 1 -> Byte \cup {JunkByte}]]
  /\ \A f \in Handle : open_files[f] \in File \cup {Closed}

Files == Places(disk)
At(p) == EntryAt(disk, p)
ChainOf(p) == Chain(disk.fat, At(p).first)

\* No cluster belongs to two files or directories: what is written to one never
\* shows in another, whatever was created, grown, moved and removed before.
ChainsApart ==
  \A p, q \in Files : p # q => ChainOf(p) \cap ChainOf(q) = {}

\* Every allocated cluster belongs to a file or a directory: failed and partial
\* calls give back what they took, and removing gives back everything.
NothingLost ==
  {c \in Cluster : disk.fat[c] # Free} = UNION {ChainOf(p) : p \in Files}

\* The directories form a tree whose ".." entries lead back (fat12_rename,
\* fat12_makedir), and no name is twice in a directory.
TreeWellFormed ==
  /\ \A p, q \in Files : p # q => p.path # q.path
  /\ \A p \in Files :
       At(p).dir =>
         /\ At(p).first # Free
         /\ OnDisk(At(p).first) =>
              /\ ReadSlot(disk, At(p).first, 0).first = At(p).first
              /\ ReadSlot(disk, At(p).first, 1).first = p.dir

\* "other Bytes written" (LineFilesystem.c, write_fileno): the bytes up to the
\* cursor of a handle, all of them written or read through it, are in the file
\* of that path.
WrittenIsThere ==
  \A f \in Used : Find(disk, open_files[f].path[1]).entry.size >= open_files[f].cursor
=============================================================================
