----------------------------- MODULE FileStore -----------------------------
(***************************************************************************)
(* What the file system calls of LineFilesystem.c promise: a tree of       *)
(* directories and files, the files being sequences of bytes, and handles  *)
(* that are at a place of an open file.  Fat12 implements it.              *)
(***************************************************************************)
EXTENDS Integers, FiniteSets, SequencesExt

CONSTANTS Handle, Name, Byte, Buffer, MaxRead

VARIABLES
  tree,     \* a function: the paths in use and what is there
  handles,  \* Closed, or the path and the cursor
  reply     \* the last call: what was called, with what, its return value, data

File(bytes) == [dir |-> FALSE, bytes |-> bytes]
Dir == [dir |-> TRUE, bytes |-> <<>>]
Closed == <<>>

IsFile(path) == path \in DOMAIN tree /\ ~tree[path].dir
IsDir(path) == path = <<>> \/ (path \in DOMAIN tree /\ tree[path].dir)
Fresh(path) == path # <<>> /\ path \notin DOMAIN tree /\ IsDir(Front(path))
Opened == {f \in Handle : handles[f] # Closed}

Init ==
  /\ tree = <<>>
  /\ handles = [f \in Handle |-> Closed]
  /\ reply = <<>>

With(path, node) == [p \in DOMAIN tree \cup {path} |-> IF p = path THEN node ELSE tree[p]]
Without(path) == [p \in DOMAIN tree \ {path} |-> tree[p]]

Reply(call, argument, code) == reply' = <<call, argument, code, <<>>>>

Open(f, path) ==
  /\ Reply("open", path, f)
  /\ f \notin Opened
  /\ \/ IsFile(path) /\ UNCHANGED tree
     \/ Fresh(path) /\ tree' = With(path, File(<<>>))
  /\ handles' = [handles EXCEPT ![f] = <<path, 0>>]

Close(f) ==
  /\ Reply("close", f, 0)
  /\ f \in Opened
  /\ handles' = [handles EXCEPT ![f] = Closed]
  /\ UNCHANGED tree

\* n bytes of the buffer get written.  All of them, unless the disk is full;
\* the answer is their number or an error.
Write(f, buf, n) ==
  LET path == handles[f][1]
      at   == handles[f][2]
      old  == tree[path].bytes
  IN  /\ Reply("write", <<f, buf>>, n) \/ Reply("write", <<f, buf>>, -1)
      /\ f \in Opened
      /\ tree' = [tree EXCEPT ![path].bytes =
                    SubSeq(old, 1, at) \o SubSeq(buf, 1, n) \o SubSeq(old, at + n + 1, Len(old))]
      /\ handles' = [handles EXCEPT ![f] = <<path, at + n>>]

\* A read returns what is there, up to the end of the file.
Read(f, count) ==
  LET path == handles[f][1]
      at   == handles[f][2]
      size == Len(tree[path].bytes)
      n    == IF count < size - at THEN count ELSE size - at
      got  == SubSeq(tree[path].bytes, at + 1, at + n)
  IN  /\ f \in Opened
      /\ reply' = <<"read", <<f, count>>, n, got>>
      /\ handles' = [handles EXCEPT ![f] = <<path, at + n>>]
      /\ UNCHANGED tree

GetSize(f) ==
  /\ Reply("get_size", f, IF f \in Opened THEN Len(tree[handles[f][1]].bytes) ELSE 0)
  /\ UNCHANGED <<tree, handles>>

MakeDir(path) ==
  /\ Reply("makedir", path, 0)
  /\ Fresh(path)
  /\ tree' = With(path, Dir)
  /\ UNCHANGED handles

\* Only an empty directory goes.
NothingBelow(path) == \A p \in DOMAIN tree : ~IsStrictPrefix(path, p)

RemoveDir(path) ==
  /\ Reply("removedir", path, 0)
  /\ IsDir(path) /\ NothingBelow(path)
  /\ tree' = Without(path)
  /\ UNCHANGED handles

\* Only a file goes that nobody has open.
BeingUsed(path) == \E f \in Opened : handles[f][1] = path

RemoveFile(path) ==
  /\ Reply("removefile", path, 0)
  /\ IsFile(path) /\ ~BeingUsed(path)
  /\ tree' = Without(path)
  /\ UNCHANGED handles

\* What is at old or below it moves to new, nothing else does.
Rename(old, new) ==
  LET tail(p, top) == SubSeq(p, Len(top) + 1, Len(p))
      moving == {p \in DOMAIN tree : IsPrefix(old, p)}
      there  == {new \o tail(p, old) : p \in moving}
      back(p) == IF p \in there THEN old \o tail(p, new) ELSE p
  IN  /\ Reply("rename", <<old, new>>, 0)
      /\ old \in DOMAIN tree /\ Fresh(new) /\ ~IsPrefix(old, new)
      /\ tree' = [p \in (DOMAIN tree \ moving) \cup there |-> tree[back(p)]]
      /\ UNCHANGED handles

\* The names in a directory, in any order, or the one name of a file.
ListContent(path) ==
  LET shown == {p \in DOMAIN tree : (p = path /\ IsFile(p)) \/ Front(p) = path}
      data  == reply'[4]
  IN  /\ reply' = <<"list", path, 0, data>>
      /\ path = <<>> \/ path \in DOMAIN tree
      /\ Len(data) = Cardinality(shown)
      /\ ToSet(data) = {<<Last(p), IsDir(p)>> : p \in shown}
      /\ UNCHANGED <<tree, handles>>

\* What the error codes mean.  Only -1 may have any reason, a full disk or a full
\* table of open files among them.
Fails(paths) ==
  /\ \/ \E path \in paths :
          \/ Reply("open", path, -1) \/ Reply("makedir", path, -1)
          \/ (Reply("open", path, -9) \/ Reply("makedir", path, -9)) /\ ~IsDir(Front(path))
          \/ Reply("removedir", path, -9) /\ ~IsDir(path)
          \/ Reply("removedir", path, -11) /\ ~NothingBelow(path)
          \/ Reply("removefile", path, -9) /\ ~IsFile(path)
          \/ Reply("removefile", path, -11) /\ BeingUsed(path)
          \/ Reply("list", path, -9) /\ path \notin DOMAIN tree
     \/ \E old, new \in paths :
          \/ Reply("rename", <<old, new>>, -1)
          \/ Reply("rename", <<old, new>>, -9) /\ (old \notin DOMAIN tree \/ ~IsDir(Front(new)))
     \/ \E f \in Handle \ Opened :
          \/ Reply("close", f, -5)
          \/ \E buf \in Buffer : Reply("write", <<f, buf>>, -5)
          \/ \E count \in 1 .. MaxRead : Reply("read", <<f, count>>, -5)
  /\ UNCHANGED <<tree, handles>>

Next(paths) ==
  \/ \E f \in Handle :
       \/ \E path \in paths : Open(f, path)
       \/ Close(f)
       \/ \E buf \in Buffer : \E n \in 0 .. Len(buf) : Write(f, buf, n)
       \/ \E count \in 1 .. MaxRead : Read(f, count)
       \/ GetSize(f)
  \/ \E path \in paths : MakeDir(path) \/ RemoveDir(path) \/ RemoveFile(path)
  \/ \E old, new \in paths : Rename(old, new)
  \/ \E path \in paths \cup {<<>>} : ListContent(path)
  \/ Fails(paths)
=============================================================================
