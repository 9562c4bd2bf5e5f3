----------------------------- MODULE Allocator -----------------------------
(***************************************************************************)
(* What a caller of kmalloc and kfree may rely on (the declarations in     *)
(* LineMemory.h), without headers, lists or splitting: a request is        *)
(* answered with a run of cells nobody else holds, the first of them kept  *)
(* by the allocator, or refused; a release returns the whole run.          *)
(***************************************************************************)
EXTENDS Integers

CONSTANTS
  Cells,      \* number of cells
  CellBytes,  \* bytes per cell
  Sizes       \* sizes that are asked for

VARIABLES
  held,   \* held[b]: the cells handed out with the block at b, {} if none
  asked   \* the size asked for and not answered yet, 0 if there is none

avars == <<held, asked>>

Init ==
  /\ held = [b \in 1 .. Cells |-> {}]
  /\ asked = 0

Ask(size) ==
  /\ asked = 0
  /\ size # 0
  /\ asked' = size
  /\ UNCHANGED held

\* Answer with the cells b .. e, of which all but b are for the caller.
Grant(b, e) ==
  /\ asked # 0
  /\ (e - b) * CellBytes >= asked
  /\ \A c \in 1 .. Cells : held[c] \cap (b .. e) = {}
  /\ held' = [held EXCEPT ![b] = b .. e]
  /\ asked' = 0

Refuse ==
  /\ asked # 0
  /\ asked' = 0
  /\ UNCHANGED held

Release(b) ==
  /\ asked = 0
  /\ held[b] # {}
  /\ held' = [held EXCEPT ![b] = {}]
  /\ UNCHANGED asked

Answer == (\E b, e \in 1 .. Cells : Grant(b, e)) \/ Refuse

Next ==
  \/ \E size \in Sizes : Ask(size)
  \/ Answer
  \/ \E b \in 1 .. Cells : Release(b)

Spec == Init /\ [][Next]_avars

\* Beside what Spec says, every request is answered.
Answered == (asked # 0) ~> (asked = 0)
=============================================================================
