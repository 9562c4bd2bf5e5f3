----------------------------- MODULE LineMemory -----------------------------
(***************************************************************************)
(* The kernel heap, kernel/LineMemory.c: a first-fit allocator over one    *)
(* contiguous region, with an explicit doubly linked free list, splitting  *)
(* on allocation and forward coalescing on release.                        *)
(*                                                                         *)
(* Memory is counted in cells of ALIGNMENT bytes.  On i386 a block header  *)
(* is exactly one cell (sizeof(block_header_t) = 16 = ALIGNMENT), and each *)
(* header is aligned, so size, is_free, next and prev hold for each cell   *)
(* the fields the code would read there.  A cell inside the payload of an  *)
(* allocated block belongs to the caller, who may leave anything in it     *)
(* (Scribble).                                                             *)
(*                                                                         *)
(* kmalloc walks the free list one node per step; kfree has no loop and is *)
(* one step.  The kernel is single threaded and no interrupt handler       *)
(* allocates, so no other call starts while kmalloc walks.                 *)
(***************************************************************************)
EXTENDS Integers, FiniteSets

CONSTANTS
  HeapCells,  \* cells between __free_ram and __free_ram_end
  Alignment,  \* bytes per cell
  WordMod,    \* size_t arithmetic is modulo WordMod
  Requests,   \* sizes, in bytes, that callers ask for
  Scribbles   \* what caller data, read as a header, may look like

NULL == 0
Cell == 1 .. HeapCells
HeapEnd == HeapCells + 1

Link == Cell \cup {NULL}
Byte == 0 .. 255

\* block_header_t; size counts cells.
Header == [size : Nat, is_free : Byte, next : Link, prev : Link]

ASSUME HeapAssumption ==
  /\ HeapCells \in Nat /\ HeapCells >= 2
  /\ Alignment \in Nat \ {0}
  /\ WordMod \in Nat \ {0}
  /\ Requests \subseteq Nat
  /\ Scribbles \subseteq Header

\* No caller asks for so much that rounding the size up wraps around.
NoWrap == \A r \in Requests : r + 2 * Alignment - 1 < WordMod

VARIABLES
  free_list_head,
  size, is_free, next, prev,  \* the fields of the header in each cell
  curr,     \* kmalloc's cursor on the free list
  request,  \* the size of the kmalloc call in progress, 0 if there is none
  live,     \* live[b] > 0: some caller holds block b, for which it asked live[b] bytes
  freed,    \* blocks released by callers, in no block allocated since
  blocks    \* history variable: the cells that hold the heap's block headers

memory == <<size, is_free, next, prev>>
vars == <<free_list_head, memory, curr, request, live, freed, blocks>>

-----------------------------------------------------------------------------
\* Mutants, here and below: a definition as a plausible slip would have it.  This
\* one forgets to round up.
TotalRequested_NoRounding(bytes) == ((bytes + Alignment) % WordMod) \div Alignment

\* ALIGN(size + sizeof(block_header_t)), in cells, with the word's wrap-around.
TotalRequested(bytes) ==
  LET padded == (bytes + Alignment + (Alignment - 1)) % WordMod
  IN  padded \div Alignment

\* Cells of the block b, header included.
Extent(b) == b .. (b + size[b] - 1)

\* remove_from_free_list: the head and the pointers when b leaves the list, given
\* the head and the pointers n and p before.
HeadWithout(head, n, p, b) == IF p[b] # NULL THEN head ELSE n[b]

NextWithout(n, p, b) ==
  [x \in Cell |-> IF x = b THEN NULL ELSE IF x = p[b] THEN n[b] ELSE n[x]]

\* Mutant: the successor keeps its old prev.
PrevWithout_Stale(n, p, b) == [p EXCEPT ![b] = NULL]

PrevWithout(n, p, b) ==
  [x \in Cell |-> IF x = b THEN NULL ELSE IF x = n[b] THEN p[b] ELSE p[x]]

\* add_to_free_list: the pointers when b is pushed in front of head.
NextWith(n, head, b) == [n EXCEPT ![b] = head]

\* Mutant: the old head is not linked back to b.
PrevWith_NoBackLink(p, head, b) == [p EXCEPT ![b] = NULL]

PrevWith(p, head, b) ==
  [x \in Cell |-> IF x = b THEN NULL ELSE IF x = head THEN b ELSE p[x]]

-----------------------------------------------------------------------------
\* heap_init: one free block; the rest of the RAM holds anything.
Init ==
  /\ free_list_head = 1
  /\ \E g \in Scribbles :
       /\ size = [x \in Cell |-> IF x = 1 THEN HeapCells ELSE g.size]
       /\ is_free = [x \in Cell |-> IF x = 1 THEN 1 ELSE g.is_free]
       /\ next = [x \in Cell |-> IF x = 1 THEN NULL ELSE g.next]
       /\ prev = [x \in Cell |-> IF x = 1 THEN NULL ELSE g.prev]
  /\ curr = NULL
  /\ request = 0
  /\ live = [x \in Cell |-> 0]
  /\ freed = {}
  /\ blocks = {1}

\* kmalloc(bytes), up to the loop; kmalloc(0) returns at once and changes nothing.
Kmalloc(bytes) ==
  /\ request = 0
  /\ bytes # 0
  /\ request' = bytes
  /\ curr' = free_list_head
  /\ UNCHANGED <<free_list_head, memory, live, freed, blocks>>

\* Mutant: a block of exactly the right size is passed.
KmallocNext_PassesExactFit ==
  /\ request # 0
  /\ curr # NULL
  /\ size[curr] <= TotalRequested(request)
  /\ curr' = next[curr]
  /\ UNCHANGED <<free_list_head, memory, request, live, freed, blocks>>

\* The loop passes a block that is too small.
KmallocNext ==
  /\ request # 0
  /\ curr # NULL
  /\ size[curr] < TotalRequested(request)
  /\ curr' = next[curr]
  /\ UNCHANGED <<free_list_head, memory, request, live, freed, blocks>>

\* The smallest rest worth a block of its own: a header and one cell.
MinSplit == 2

\* Mutant: the block that is split keeps its size.
SplitSizes_KeepsSize(b, total) == [size EXCEPT ![b + total] = size[b] - total]

\* The sizes after splitting the block b behind its first total cells.
SplitSizes(b, total) == [size EXCEPT ![b] = total, ![b + total] = size[b] - total]

\* The marks after that.
SplitMarks(b, rest) == [is_free EXCEPT ![b] = 0, ![rest] = 1]

\* The loop stops at the first block that fits, splits off the rest and returns it.
KmallocTake ==
  /\ request # 0
  /\ curr # NULL
  /\ LET total == TotalRequested(request)
         rest  == curr + total
         head1 == HeadWithout(free_list_head, next, prev, curr)
         next1 == NextWithout(next, prev, curr)
         prev1 == PrevWithout(next, prev, curr)
     IN /\ size[curr] >= total
        /\ IF size[curr] - total >= MinSplit
           THEN /\ size' = SplitSizes(curr, total)
                /\ is_free' = SplitMarks(curr, rest)
                /\ next' = NextWith(next1, head1, rest)
                /\ prev' = PrevWith(prev1, head1, rest)
                /\ free_list_head' = rest
                /\ blocks' = blocks \cup {rest}
                /\ freed' = {f \in freed : f < curr \/ f >= rest}
           ELSE /\ is_free' = [is_free EXCEPT ![curr] = 0]
                /\ next' = next1
                /\ prev' = prev1
                /\ free_list_head' = head1
                /\ freed' = freed \ Extent(curr)
                /\ UNCHANGED <<size, blocks>>
  /\ live' = [live EXCEPT ![curr] = request]
  /\ request' = 0
  /\ curr' = NULL

\* The list is exhausted: kmalloc returns NULL.
KmallocFail ==
  /\ request # 0
  /\ curr = NULL
  /\ request' = 0
  /\ UNCHANGED <<free_list_head, memory, curr, live, freed, blocks>>

\* Mutant: the free mark is not tested.
Releases_NoTest(b) == live[b] > 0 \/ b \in freed

\* kfree gets a pointer that kmalloc returned, b being its header, and does not
\* return early.  The caller may have released it before.
Releases(b) == (live[b] > 0 \/ b \in freed) /\ is_free[b] = 0

\* kfree(ptr), b being the header in front of ptr: add_to_free_list, coalesce.
Kfree(b) ==
  /\ request = 0
  /\ Releases(b)
  /\ LET behind == b + size[b]
         next1  == NextWith(next, free_list_head, b)
         prev1  == PrevWith(prev, free_list_head, b)
         marked == [is_free EXCEPT ![b] = 1]
     IN /\ is_free' = marked
        /\ IF behind < HeapEnd /\ marked[behind] = 1
           THEN /\ size' = [size EXCEPT ![b] = @ + size[behind]]
                /\ next' = NextWithout(next1, prev1, behind)
                /\ prev' = PrevWithout(next1, prev1, behind)
                /\ free_list_head' = HeadWithout(b, next1, prev1, behind)
                /\ blocks' = blocks \ {behind}
           ELSE /\ next' = next1
                /\ prev' = prev1
                /\ free_list_head' = b
                /\ UNCHANGED <<size, blocks>>
  /\ live' = [live EXCEPT ![b] = 0]
  /\ freed' = freed \cup {b}
  /\ UNCHANGED <<curr, request>>

\* A caller writes to the bytes it asked for.
Scribble(b) ==
  /\ request = 0
  /\ live[b] > 0
  /\ \E x \in (b + 1) .. (b + TotalRequested(live[b]) - 1), g \in Scribbles :
       /\ size' = [size EXCEPT ![x] = g.size]
       /\ is_free' = [is_free EXCEPT ![x] = g.is_free]
       /\ next' = [next EXCEPT ![x] = g.next]
       /\ prev' = [prev EXCEPT ![x] = g.prev]
  /\ UNCHANGED <<free_list_head, curr, request, live, freed, blocks>>

KmallocStep == KmallocNext \/ KmallocTake \/ KmallocFail

Next ==
  \/ \E bytes \in Requests : Kmalloc(bytes)
  \/ KmallocStep
  \/ \E b \in Cell : Kfree(b) \/ Scribble(b)

\* The processor keeps executing kmalloc's loop; callers need not call.
Fairness == WF_vars(KmallocStep)

Spec == Init /\ [][Next]_vars /\ Fairness

-----------------------------------------------------------------------------
(***************************************************************************)
(* Properties                                                              *)
(***************************************************************************)

\* Types of the variables.
TypeOK ==
  /\ free_list_head \in Link
  /\ size \in [Cell -> Nat]
  /\ is_free \in [Cell -> Byte]
  /\ next \in [Cell -> Link]
  /\ prev \in [Cell -> Link]
  /\ curr \in Link
  /\ request \in Requests \cup {0}
  /\ live \in [Cell -> Requests \cup {0}]
  /\ freed \subseteq Cell
  /\ blocks \subseteq Cell

FreeBlocks == {b \in blocks : is_free[b] = 1}

\* The blocks tile the heap: no cell is lost and none is in two blocks, however
\* often blocks were split and coalesced (kmalloc's split, coalesce).
Tiling ==
  /\ \A b \in blocks : size[b] >= MinSplit /\ b + size[b] <= HeapEnd
  /\ \A b, c \in blocks : b < c => b + size[b] <= c
  /\ \A x \in Cell : \E b \in blocks : x \in Extent(b)

\* A block is marked allocated exactly while a caller holds it, so kfree and
\* coalesce decide on a true mark and no block is leaked.
MarksAgree ==
  /\ \A b \in Cell : live[b] > 0 => b \in blocks
  /\ \A b \in blocks : is_free[b] = IF live[b] > 0 THEN 0 ELSE 1

\* From head, n leads through members of F only, and p undoes n.
Linked(n, p, head, F) ==
  /\ head \in F \cup {NULL}
  /\ \A b \in F :
       /\ n[b] \in F \cup {NULL}
       /\ n[b] # NULL => p[n[b]] = b
       /\ p[b] \in F \cup {NULL}
       /\ p[b] # NULL => n[p[b]] = b
       /\ p[b] = NULL <=> head = b

\* The free list is well linked and its nodes are free blocks
\* (remove_from_free_list, add_to_free_list).
WellLinked == Linked(next, prev, free_list_head, FreeBlocks)

\* Every caller got at least the bytes it asked for behind its header.
Room ==
  \A b \in Cell : live[b] > 0 => (size[b] - 1) * Alignment >= live[b]

\* No two callers share a cell, and no caller's cell is a header.
NoOverlap ==
  \A b, c \in Cell :
    live[b] > 0 /\ live[c] > 0 /\ b # c => Extent(b) \cap Extent(c) = {}

\* Releasing a pointer twice is noticed for as long as its cells were not
\* handed out again, whatever was split or coalesced around them.
DoubleFreeNoticed ==
  \A f \in freed :
    /\ is_free[f] = 1
    /\ \A b \in Cell : live[b] > 0 => f \notin Extent(b)

\* Every free block is on the list: going back along prev from any of them
\* reaches the head, so a set of free blocks that prev does not leave has it.
\* A block that fell off the list, or a cycle beside it, would break this.
BackwardClosed(S) == \A b \in S : prev[b] \in S \cup {NULL}

ListComplete ==
  \A S \in SUBSET FreeBlocks : S # {} /\ BackwardClosed(S) => free_list_head \in S

\* kmalloc says "No memory left" only when no free block is large enough
\* (LineMemory.c:98).
RefusedOnlyWhenFull ==
  [][KmallocFail => \A b \in FreeBlocks : size[b] < TotalRequested(request)]_vars

\* The caller's view: the cells of the blocks that are held.
Held == [b \in Cell |-> IF live[b] > 0 THEN Extent(b) ELSE {}]

Promise == INSTANCE Allocator
  WITH Cells <- HeapCells, CellBytes <- Alignment, Sizes <- Requests,
       held <- Held, asked <- request

\* Every step of the heap is one that its callers are promised, or none they see.
ImplementsAllocator == Promise!Spec

\* kmalloc returns, whatever callers left in the memory they hold.
KmallocReturns == Promise!Answered
=============================================================================
