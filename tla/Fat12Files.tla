----------------------------- MODULE Fat12Files -----------------------------
(***************************************************************************)
(* The driver of Fat12 next to what FileStore promises.  The tree that the *)
(* disk stands for is kept in a variable of its own, which only mirrors    *)
(* the disk; the other variables of FileStore are read off open_files.     *)
(***************************************************************************)
EXTENDS Fat12

VARIABLE tree

filesVars == <<disk, open_files, reply, tree>>

FilesInit == Init /\ tree = Tree(disk)

FilesNext == Next /\ tree' = Tree(disk')

Place(file) == IF file.used THEN <<file.path[1], file.cursor>> ELSE <<>>

Promise == INSTANCE FileStore WITH handles <- [f \in Handle |-> Place(open_files[f])]
=============================================================================
