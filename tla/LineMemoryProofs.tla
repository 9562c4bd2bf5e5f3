-------------------------- MODULE LineMemoryProofs --------------------------
(***************************************************************************)
(* The heap's invariants hold for every heap size, alignment and set of    *)
(* requests, as long as no request is so large that its rounding wraps:    *)
(* the blocks tile the heap, the free list is linked and complete, a       *)
(* refusal means that nothing fits, and the heap implements Allocator.     *)
(***************************************************************************)
EXTENDS LineMemory, TLAPS

Pointers == [Cell -> Link]

\* Zero is no cell, so NULL is never taken for a block.
LEMMA NullIsNoCell == NULL \notin Cell
BY DEF NULL, Cell

-----------------------------------------------------------------------------
(***************************************************************************)
(* The list operations.                                                    *)
(***************************************************************************)

\* remove_from_free_list keeps the pointers' types.
LEMMA WithoutType ==
  ASSUME NEW n \in Pointers, NEW p \in Pointers, NEW head \in Link, NEW b \in Cell
  PROVE  /\ NextWithout(n, p, b) \in Pointers
         /\ PrevWithout(n, p, b) \in Pointers
         /\ HeadWithout(head, n, p, b) \in Link
BY DEF NextWithout, PrevWithout, HeadWithout, Pointers, Link

\* remove_from_free_list takes exactly b off the list.
LEMMA WithoutLinked ==
  ASSUME NEW n \in Pointers, NEW p \in Pointers, NEW F \in SUBSET Cell, NEW head,
         NEW b \in F, Linked(n, p, head, F)
  PROVE  Linked(NextWithout(n, p, b), PrevWithout(n, p, b),
                HeadWithout(head, n, p, b), F \ {b})
BY NullIsNoCell DEF NextWithout, PrevWithout, HeadWithout, Linked, Pointers

\* add_to_free_list keeps the pointers' types.
LEMMA WithType ==
  ASSUME NEW n \in Pointers, NEW p \in Pointers, NEW head \in Link, NEW b \in Cell
  PROVE  NextWith(n, head, b) \in Pointers /\ PrevWith(p, head, b) \in Pointers
BY DEF NextWith, PrevWith, Pointers, Link

\* add_to_free_list puts b in front of the list.
LEMMA WithLinked ==
  ASSUME NEW n \in Pointers, NEW p \in Pointers, NEW F \in SUBSET Cell, NEW head,
         NEW b \in Cell \ F, Linked(n, p, head, F)
  PROVE  Linked(NextWith(n, head, b), PrevWith(p, head, b), b, F \cup {b})
BY NullIsNoCell DEF NextWith, PrevWith, Linked, Pointers

\* The list depends on the pointers of its nodes only.
LEMMA LinkedFrame ==
  ASSUME NEW n, NEW p, NEW n2, NEW p2, NEW F \in SUBSET Cell, NEW head,
         Linked(n, p, head, F),
         \A x \in F : n2[x] = n[x] /\ p2[x] = p[x]
  PROVE  Linked(n2, p2, head, F)
BY NullIsNoCell DEF Linked

\* Every block of F is reached: a set of them that p does not leave has the head.
Complete(p, head, F) ==
  \A S \in SUBSET F : S # {} /\ (\A b \in S : p[b] \in S \cup {NULL}) => head \in S

\* add_to_free_list: what is on the list is reached from b.
LEMMA WithComplete ==
  ASSUME NEW n \in Pointers, NEW p \in Pointers, NEW F \in SUBSET Cell, NEW head,
         NEW b \in Cell \ F, Linked(n, p, head, F), Complete(p, head, F)
  PROVE  Complete(PrevWith(p, head, b), b, F \cup {b})
<1> DEFINE P == PrevWith(p, head, b)
<1>1. ASSUME NEW S \in SUBSET (F \cup {b}), S # {}, \A x \in S : P[x] \in S \cup {NULL}, b \notin S
      PROVE  FALSE
  <2>1. S \in SUBSET F
    BY <1>1
  <2>2. ASSUME NEW x \in S PROVE x # head /\ p[x] \in S \cup {NULL}
    <3>1. x \in Cell /\ x # b
      BY <1>1, <2>1
    <3>2. P[x] = IF x = head THEN b ELSE p[x]
      BY <3>1 DEF PrevWith
    <3>3. b # NULL
      BY NullIsNoCell
    <3> QED BY <1>1, <3>2, <3>3
  <2>3. head \in S
    BY <1>1, <2>1, <2>2 DEF Complete
  <2> QED BY <2>2, <2>3
<1> QED BY <1>1 DEF Complete

\* remove_from_free_list: what is reached, b aside, is still reached without it.
LEMMA WithoutComplete ==
  ASSUME NEW n \in Pointers, NEW p \in Pointers, NEW F \in SUBSET Cell, NEW head,
         NEW b \in F, Linked(n, p, head, F), Complete(p, head, F)
  PROVE  Complete(PrevWithout(n, p, b), HeadWithout(head, n, p, b), F \ {b})
<1> DEFINE P == PrevWithout(n, p, b)
<1> SUFFICES ASSUME NEW S \in SUBSET (F \ {b}), S # {}, \A x \in S : P[x] \in S \cup {NULL}
             PROVE  HeadWithout(head, n, p, b) \in S
  BY DEF Complete
<1>1. PICK T \in SUBSET F : T = IF n[b] \in S THEN S \cup {b} ELSE S
  OBVIOUS
<1>2. ASSUME NEW x \in T PROVE p[x] \in T \cup {NULL}
  <2>1. CASE x = b
    <3>1. n[b] \in S /\ n[b] # b
      BY <1>1, <2>1
    <3>2. P[n[b]] = p[b]
      BY <3>1 DEF PrevWithout
    <3> QED BY <1>1, <2>1, <3>1, <3>2
  <2>2. CASE x # b /\ x = n[b]
    <3>1. x \in S /\ n[b] # NULL
      BY <1>1, <2>2, NullIsNoCell
    <3>2. p[x] = b /\ b \in T
      BY <1>1, <2>2, <3>1 DEF Linked
    <3> QED BY <3>2
  <2>3. CASE x # b /\ x # n[b]
    <3>1. x \in S /\ x \in Cell
      BY <1>1, <2>3
    <3>2. P[x] = p[x]
      BY <2>3, <3>1 DEF PrevWithout
    <3> QED BY <1>1, <3>1, <3>2
  <2> QED BY <2>1, <2>2, <2>3
<1>3. T # {}
  BY <1>1
<1>4. head \in T
  BY <1>2, <1>3 DEF Complete
<1>5. CASE p[b] # NULL
  BY <1>1, <1>4, <1>5 DEF HeadWithout, Linked
<1>6. CASE p[b] = NULL
  <2>1. head = b
    BY <1>6 DEF Linked
  <2>2. n[b] \in S
    BY <1>1, <1>4, <2>1
  <2> QED BY <1>6, <2>2 DEF HeadWithout
<1> QED BY <1>5, <1>6

-----------------------------------------------------------------------------
(***************************************************************************)
(* What kmalloc asks of the list: rounded up, the size leaves room for the *)
(* header and for every byte.                                              *)
(***************************************************************************)
LEMMA TotalRequestedRoom ==
  ASSUME NoWrap, NEW r \in Requests, r # 0
  PROVE  /\ TotalRequested(r) \in Nat
         /\ TotalRequested(r) >= MinSplit
         /\ (TotalRequested(r) - 1) * Alignment >= r
<1> DEFINE sum == r + Alignment + (Alignment - 1)
           t == sum \div Alignment
<1>1. r \in Nat /\ r > 0 /\ Alignment \in Nat /\ Alignment > 0 /\ WordMod \in Nat
  BY HeapAssumption
<1>2. sum \in Nat /\ sum < WordMod /\ sum = r + 2 * Alignment - 1
  BY <1>1 DEF NoWrap
<1>3. TotalRequested(r) = t
  BY <1>1, <1>2 DEF TotalRequested
<1>4. t \in Nat /\ sum = Alignment * t + (sum % Alignment) /\ sum % Alignment \in 0 .. Alignment - 1
  BY <1>1, <1>2
<1> HIDE DEF t
<1>5. Alignment * t >= r + Alignment
  BY <1>1, <1>2, <1>4
<1>6. (t - 1) * Alignment >= r
  BY <1>1, <1>4, <1>5
<1>7. t >= 2
  <2>1. t # 0
    BY <1>1, <1>4, <1>5
  <2>2. t # 1
    BY <1>1, <1>4, <1>5
  <2> QED BY <1>4, <2>1, <2>2
<1> QED BY <1>3, <1>4, <1>6, <1>7 DEF MinSplit

-----------------------------------------------------------------------------
(***************************************************************************)
(* The inductive invariant: what the runs check, with Room in the terms    *)
(* kmalloc computes with and the cursor tied to the free list.             *)
(***************************************************************************)
Enough == \A b \in Cell : live[b] > 0 => size[b] >= TotalRequested(live[b])

CursorFree == curr # NULL => request # 0 /\ curr \in FreeBlocks

\* The blocks that kmalloc's loop has passed: all were too small, and the list leads from
\* them to the cursor only.  At the end of the list they are all that are free.
Passed ==
  request # 0 =>
    \E P \in SUBSET FreeBlocks :
      /\ curr \notin P
      /\ \A b \in P : /\ size[b] < TotalRequested(request)
                     /\ prev[b] \in P \cup {NULL}
                     /\ next[b] \in P \cup {curr}
      /\ curr # NULL => prev[curr] \in P \cup {NULL}
      /\ curr = NULL => P = FreeBlocks

IInv ==
  /\ TypeOK
  /\ Tiling
  /\ MarksAgree
  /\ WellLinked
  /\ Enough
  /\ DoubleFreeNoticed
  /\ CursorFree
  /\ ListComplete
  /\ Passed

\* One free block is the heap.
LEMMA InitInvariant == Init => IInv
<1> SUFFICES ASSUME Init PROVE IInv
  OBVIOUS
<1> USE HeapAssumption
<1>1. PICK g \in Scribbles :
        /\ size = [x \in Cell |-> IF x = 1 THEN HeapCells ELSE g.size]
        /\ is_free = [x \in Cell |-> IF x = 1 THEN 1 ELSE g.is_free]
        /\ next = [x \in Cell |-> IF x = 1 THEN NULL ELSE g.next]
        /\ prev = [x \in Cell |-> IF x = 1 THEN NULL ELSE g.prev]
  BY DEF Init
<1>2. g.size \in Nat /\ g.is_free \in Byte /\ g.next \in Link /\ g.prev \in Link
  BY DEF Header
<1>3. 1 \in Cell /\ NULL \in Link /\ 1 \in Link /\ 1 \in Byte
  BY DEF Cell, Link, Byte
<1>4. /\ size[1] = HeapCells /\ is_free[1] = 1 /\ next[1] = NULL /\ prev[1] = NULL
      /\ blocks = {1} /\ curr = NULL /\ freed = {} /\ \A b \in Cell : live[b] = 0
  BY <1>1, <1>3 DEF Init
<1>5. TypeOK
  <2>1. size \in [Cell -> Nat] /\ is_free \in [Cell -> Byte]
    BY <1>1, <1>2, <1>3
  <2>2. next \in [Cell -> Link] /\ prev \in [Cell -> Link]
    BY <1>1, <1>2, <1>3
  <2> QED BY <1>3, <2>1, <2>2 DEF TypeOK, Init
<1>6. Tiling
  BY <1>4 DEF Tiling, Extent, Cell, HeapEnd, MinSplit
<1>7. FreeBlocks = {1}
  BY <1>4 DEF FreeBlocks
<1>8. WellLinked
  BY <1>4, <1>7, NullIsNoCell, <1>3 DEF WellLinked, Linked, Init
<1>9. MarksAgree
  BY <1>3, <1>4 DEF MarksAgree
<1>10. Enough /\ DoubleFreeNoticed /\ CursorFree
  BY <1>4 DEF Enough, DoubleFreeNoticed, CursorFree
<1>11. ListComplete /\ Passed
  <2>1. free_list_head = 1 /\ request = 0
    BY DEF Init
  <2> QED BY <1>7, <2>1 DEF ListComplete, Passed
<1> QED BY <1>5, <1>6, <1>8, <1>9, <1>10, <1>11 DEF IInv

-----------------------------------------------------------------------------
\* The loop passes one block after the other, and none twice: it ends with NULL when no
\* free block is left.
LEMMA WalkPassed ==
  ASSUME IInv, (\E bytes \in Requests : Kmalloc(bytes)) \/ KmallocNext \/ KmallocFail
  PROVE  Passed'
<1>1. size' = size /\ prev' = prev /\ next' = next /\ FreeBlocks' = FreeBlocks
  BY DEF Kmalloc, KmallocNext, KmallocFail, memory, FreeBlocks
<1>2. /\ FreeBlocks \subseteq Cell
      /\ \A S \in SUBSET FreeBlocks :
           S # {} /\ (\A b \in S : prev[b] \in S \cup {NULL}) => free_list_head \in S
      /\ free_list_head \in FreeBlocks \cup {NULL}
      /\ \A b \in FreeBlocks :
           /\ next[b] \in FreeBlocks \cup {NULL}
           /\ next[b] # NULL => prev[next[b]] = b
           /\ prev[b] \in FreeBlocks \cup {NULL}
           /\ prev[b] # NULL => next[prev[b]] = b
           /\ prev[b] = NULL <=> free_list_head = b
  BY DEF IInv, TypeOK, FreeBlocks, ListComplete, BackwardClosed, WellLinked, Linked
<1>3. NULL \notin FreeBlocks
  BY <1>2, NullIsNoCell
<1>4. CASE \E bytes \in Requests : Kmalloc(bytes)
  <2>1. curr' = free_list_head
    BY <1>4 DEF Kmalloc
  <2>2. free_list_head = NULL => FreeBlocks = {}
    BY <1>2, <1>3
  <2>3. free_list_head # NULL => prev[free_list_head] = NULL
    BY <1>2
  <2>4. PICK P \in SUBSET FreeBlocks : P = {}
    OBVIOUS
  <2>5. curr' \notin P /\ (curr' = NULL => P = FreeBlocks)
    BY <2>1, <2>2, <2>4
  <2>6. curr' # NULL => prev[curr'] \in P \cup {NULL}
    BY <2>1, <2>3
  <2> QED BY <1>1, <2>4, <2>5, <2>6 DEF Passed
<1>5. CASE KmallocNext
  <2>1. /\ request # 0 /\ curr # NULL /\ curr \in FreeBlocks
        /\ size[curr] < TotalRequested(request) /\ curr' = next[curr] /\ request' = request
    BY <1>5 DEF KmallocNext, IInv, CursorFree
  <2>2. PICK P \in SUBSET FreeBlocks :
          /\ curr \notin P
          /\ \A b \in P : /\ size[b] < TotalRequested(request)
                         /\ prev[b] \in P \cup {NULL}
                         /\ next[b] \in P \cup {curr}
          /\ prev[curr] \in P \cup {NULL}
    BY <2>1 DEF IInv, Passed
  <2>3. PICK Q \in SUBSET FreeBlocks : Q = P \cup {curr}
    BY <2>1
  <2>4. \A b \in Q : /\ size[b] < TotalRequested(request)
                   /\ prev[b] \in Q \cup {NULL}
                   /\ next[b] \in Q \cup {curr'}
    BY <2>1, <2>2, <2>3
  <2>5. curr' # NULL => prev[curr'] = curr
    BY <1>2, <2>1
  <2>6. curr' \notin Q
    <3>1. curr' \in Q => curr' # NULL /\ prev[curr'] = curr
      BY <1>3, <2>3, <2>5
    <3>2. curr' \notin P
      BY <1>3, <2>1, <2>2, <3>1, <2>3
    <3>3. curr' # curr
      BY <2>1, <2>2, <2>5
    <3> QED BY <2>3, <3>2, <3>3
  <2>7. curr' = NULL => Q = FreeBlocks
    <3> SUFFICES ASSUME curr' = NULL, Q # FreeBlocks PROVE FALSE
      OBVIOUS
    <3>1. free_list_head \in Q
      BY <1>2, <2>3, <2>4
    <3>2. PICK S \in SUBSET FreeBlocks : S = FreeBlocks \ Q
      OBVIOUS
    <3>3. ASSUME NEW x \in S PROVE prev[x] \in S \cup {NULL}
      <4>1. CASE prev[x] \in Q
        <5>1. next[prev[x]] = x /\ prev[x] # NULL
          BY <1>2, <1>3, <3>2, <4>1
        <5>2. x \in Q \cup {curr'}
          BY <2>4, <4>1, <5>1
        <5> QED BY <1>3, <3>2, <5>2
      <4> QED BY <1>2, <3>2, <4>1
    <3>4. S # {}
      BY <3>2
    <3>5. free_list_head \in S
      BY <1>2, <3>3, <3>4
    <3> QED BY <3>1, <3>2, <3>5
  <2>8. curr' # NULL => prev[curr'] \in Q \cup {NULL}
    BY <2>3, <2>5
  <2> QED BY <1>1, <2>1, <2>3, <2>4, <2>6, <2>7, <2>8 DEF Passed
<1>6. CASE KmallocFail
  BY <1>6 DEF KmallocFail, Passed
<1> QED BY <1>4, <1>5, <1>6

\* The steps that move no memory: the start of kmalloc, its loop, its failure.
LEMMA WalkInvariant ==
  ASSUME IInv, (\E bytes \in Requests : Kmalloc(bytes)) \/ KmallocNext \/ KmallocFail
  PROVE  IInv'
<1>1. UNCHANGED <<free_list_head, memory, live, freed, blocks>>
  BY DEF Kmalloc, KmallocNext, KmallocFail
<1>2. FreeBlocks' = FreeBlocks /\ curr' \in Link /\ request' \in Requests \cup {0} /\ CursorFree'
  <2> USE DEF IInv, CursorFree, TypeOK, WellLinked, Linked, FreeBlocks, memory
  <2>0. FreeBlocks' = FreeBlocks
    BY <1>1
  <2>1. CASE \E bytes \in Requests : Kmalloc(bytes)
    BY <1>1, <2>0, <2>1 DEF Kmalloc, Link
  <2>2. CASE KmallocNext
    BY <1>1, <2>0, <2>2 DEF KmallocNext, Link
  <2>3. CASE KmallocFail
    BY <1>1, <2>0, <2>3 DEF KmallocFail, Link
  <2> QED BY <2>1, <2>2, <2>3
<1>3. TypeOK'
  BY <1>1, <1>2 DEF IInv, TypeOK, memory
<1>4. Tiling' /\ MarksAgree' /\ WellLinked' /\ Enough' /\ DoubleFreeNoticed'
  BY <1>1, <1>2
     DEF IInv, memory, Tiling, MarksAgree, WellLinked, Enough, DoubleFreeNoticed, Extent
<1>5. ListComplete'
  BY <1>1, <1>2 DEF IInv, memory, ListComplete, BackwardClosed
<1>6. Passed'
  BY WalkPassed
<1> QED BY <1>2, <1>3, <1>4, <1>5, <1>6 DEF IInv

\* A caller's write stays inside its block and so meets no header.
LEMMA ScribbleOutside ==
  ASSUME NoWrap, IInv, NEW b \in Cell, Scribble(b)
  PROVE  \E x \in Int, g \in Scribbles :
           /\ size' = [size EXCEPT ![x] = g.size]
           /\ is_free' = [is_free EXCEPT ![x] = g.is_free]
           /\ next' = [next EXCEPT ![x] = g.next]
           /\ prev' = [prev EXCEPT ![x] = g.prev]
           /\ x \notin freed /\ x \notin blocks
<1>1. PICK x \in (b + 1) .. (b + TotalRequested(live[b]) - 1), g \in Scribbles :
        /\ size' = [size EXCEPT ![x] = g.size]
        /\ is_free' = [is_free EXCEPT ![x] = g.is_free]
        /\ next' = [next EXCEPT ![x] = g.next]
        /\ prev' = [prev EXCEPT ![x] = g.prev]
  BY DEF Scribble
<1>2. live[b] > 0 /\ live[b] \in Requests /\ live[b] # 0
  BY DEF Scribble, IInv, TypeOK
<1>3. TotalRequested(live[b]) \in Nat /\ size[b] >= TotalRequested(live[b])
  BY <1>2, TotalRequestedRoom DEF IInv, Enough
<1>4. b \in blocks /\ size[b] \in Nat /\ b \in Int /\ x \in Int
  BY <1>2 DEF IInv, MarksAgree, TypeOK, Cell
<1>5. x \in Extent(b)
  BY <1>1, <1>3, <1>4 DEF Extent
<1>6. x \notin freed
  BY <1>2, <1>5 DEF IInv, DoubleFreeNoticed
<1>7. x \notin blocks
  <2>1. /\ \A c \in blocks : c \in Nat
        /\ \A c, d \in blocks : c < d => c + size[c] <= d
    BY SMTT(30) DEF IInv, TypeOK, Tiling, Cell
  <2> QED BY <1>1, <1>3, <1>4, <1>5, <2>1 DEF Extent
<1> QED BY <1>1, <1>4, <1>6, <1>7

\* So nothing that the heap relies on changes.
LEMMA ScribbleInvariant ==
  ASSUME NoWrap, IInv, NEW b \in Cell, Scribble(b)
  PROVE  IInv'
<1>1. PICK x \in Int, g \in Scribbles :
        /\ size' = [size EXCEPT ![x] = g.size]
        /\ is_free' = [is_free EXCEPT ![x] = g.is_free]
        /\ next' = [next EXCEPT ![x] = g.next]
        /\ prev' = [prev EXCEPT ![x] = g.prev]
        /\ x \notin freed /\ x \notin blocks
  BY ScribbleOutside
<1>2. /\ live[b] > 0 /\ live[b] \in Requests /\ live[b] # 0
      /\ UNCHANGED <<free_list_head, curr, request, live, freed, blocks>>
  BY DEF Scribble, IInv, TypeOK
<1>3. g.size \in Nat /\ g.is_free \in Byte /\ g.next \in Link /\ g.prev \in Link
  BY HeapAssumption DEF Header
<1>9. \A c \in Cell \ {x} : /\ size'[c] = size[c] /\ is_free'[c] = is_free[c]
                            /\ next'[c] = next[c] /\ prev'[c] = prev[c]
  BY <1>1 DEF IInv, TypeOK
<1>10. blocks \subseteq Cell \ {x} /\ freed \subseteq Cell \ {x}
  BY <1>1 DEF IInv, TypeOK
<1>11. FreeBlocks' = FreeBlocks /\ FreeBlocks \subseteq Cell
  BY <1>2, <1>9, <1>10 DEF FreeBlocks
<1>12. TypeOK'
  BY <1>1, <1>2, <1>3 DEF IInv, TypeOK
<1>13. Tiling'
  BY <1>2, <1>9, <1>10 DEF IInv, Tiling, Extent
<1>14. MarksAgree'
  BY <1>2, <1>9, <1>10 DEF IInv, MarksAgree
<1>15. WellLinked'
  <2>1. \A c \in FreeBlocks : next'[c] = next[c] /\ prev'[c] = prev[c]
    BY <1>9, <1>10 DEF FreeBlocks
  <2>2. Linked(next', prev', free_list_head, FreeBlocks)
    BY <2>1, <1>11, LinkedFrame DEF IInv, WellLinked
  <2> QED BY <2>2, <1>2, <1>11, Zenon DEF WellLinked
<1>16. Enough'
  BY <1>2, <1>9, <1>10 DEF IInv, Enough, MarksAgree
<1>17. DoubleFreeNoticed'
  BY <1>2, <1>9, <1>10 DEF IInv, DoubleFreeNoticed, MarksAgree, Extent
<1>18. CursorFree'
  BY <1>2, <1>11 DEF IInv, CursorFree
<1>19. ListComplete'
  <2>1. \A c \in FreeBlocks : prev'[c] = prev[c]
    BY <1>9, <1>10 DEF FreeBlocks
  <2> QED BY <1>2, <1>11, <2>1 DEF IInv, ListComplete, BackwardClosed
<1>20. Passed'
  BY <1>2 DEF Scribble, Passed
<1> QED BY <1>12, <1>13, <1>14, <1>15, <1>16, <1>17, <1>18, <1>19, <1>20 DEF IInv

\* Taking a block keeps the heap tiled: the rest, if it is split off, starts
\* where the block taken now ends.
LEMMA TakeInvariant ==
  ASSUME NoWrap, IInv, KmallocTake
  PROVE  IInv'
<1> DEFINE total == TotalRequested(request)
           rest  == curr + total
           head1 == HeadWithout(free_list_head, next, prev, curr)
           next1 == NextWithout(next, prev, curr)
           prev1 == PrevWithout(next, prev, curr)
           F1    == FreeBlocks \ {curr}
<1>1. /\ request # 0 /\ curr # NULL /\ size[curr] >= total
      /\ live' = [live EXCEPT ![curr] = request] /\ request' = 0 /\ curr' = NULL
  BY DEF KmallocTake
<1>2. /\ free_list_head \in Link /\ curr \in Link
      /\ size \in [Cell -> Nat] /\ is_free \in [Cell -> Byte]
      /\ next \in Pointers /\ prev \in Pointers
      /\ request \in Requests \cup {0} /\ live \in [Cell -> Requests \cup {0}]
      /\ freed \subseteq Cell /\ blocks \subseteq Cell
  BY DEF IInv, TypeOK, Pointers
<1>3. curr \in FreeBlocks /\ curr \in blocks /\ curr \in Cell /\ is_free[curr] = 1
  BY <1>1, <1>2 DEF IInv, CursorFree, FreeBlocks
<1>4. request \in Requests /\ request > 0 /\ total \in Nat /\ total >= 2
  BY <1>1, <1>2, HeapAssumption, TotalRequestedRoom DEF MinSplit
<1>5. /\ next1 \in Pointers /\ prev1 \in Pointers /\ head1 \in Link
      /\ Linked(next1, prev1, head1, F1)
  BY <1>2, <1>3, WithoutType, WithoutLinked DEF IInv, WellLinked, FreeBlocks
<1>12. Complete(prev1, head1, F1)
  <2>1. Linked(next, prev, free_list_head, FreeBlocks) /\ Complete(prev, free_list_head, FreeBlocks)
    BY DEF IInv, WellLinked, ListComplete, BackwardClosed, Complete
  <2>2. FreeBlocks \in SUBSET Cell
    BY <1>2 DEF FreeBlocks
  <2> QED BY <1>2, <1>3, <2>1, <2>2, WithoutComplete
<1>6. CursorFree' /\ Passed'
  BY <1>1 DEF CursorFree, Passed
<1>7. /\ \A b \in Cell : live[b] \in Nat
      /\ \A b \in Cell : live[b] > 0 => b \in blocks /\ is_free[b] = 0
  <2>1. ASSUME NEW b \in Cell PROVE live[b] \in Nat
    <3>1. live[b] \in Requests \cup {0}
      BY <1>2
    <3>2. CASE live[b] \in Requests
      BY <3>2, HeapAssumption
    <3>3. CASE live[b] = 0
      BY <3>3
    <3> QED BY <3>1, <3>2, <3>3
  <2>2. \A b \in Cell : live[b] > 0 => b \in blocks /\ is_free[b] = 0
    BY DEF IInv, MarksAgree
  <2> QED BY <2>1, <2>2
<1>8. curr \in Nat /\ size[curr] \in Nat /\ HeapCells \in Nat
  BY <1>2, <1>3, HeapAssumption DEF Cell
<1>9. \A b \in Cell : /\ b # curr => live'[b] = live[b]
                      /\ b = curr => live'[b] = request
  BY <1>1, <1>2, <1>3
<1> HIDE DEF total, head1, next1, prev1
<1>10. CASE size[curr] - total >= MinSplit
  <2>1. /\ size' = SplitSizes(curr, total) /\ is_free' = SplitMarks(curr, rest)
        /\ next' = NextWith(next1, head1, rest) /\ prev' = PrevWith(prev1, head1, rest)
        /\ free_list_head' = rest /\ blocks' = blocks \cup {rest}
        /\ freed' = {f \in freed : f < curr \/ f >= rest}
    BY <1>10 DEF KmallocTake, total, head1, next1, prev1
  <2>2. curr + size[curr] <= HeapEnd
    BY <1>3 DEF IInv, Tiling
  <2>3. rest \in Cell /\ rest # curr /\ rest > curr /\ rest \in Link /\ rest \in Nat
    BY <1>4, <1>8, <1>10, <2>2 DEF Cell, HeapEnd, MinSplit, Link
  <2>4. rest \notin blocks
    BY <1>2, <1>3, <1>4, <1>8, <1>10, <2>3 DEF IInv, Tiling, MinSplit
  <2>5. \A c \in Cell : /\ c = curr => size'[c] = total /\ is_free'[c] = 0
                        /\ c = rest => size'[c] = size[curr] - total /\ is_free'[c] = 1
                        /\ c # curr /\ c # rest => size'[c] = size[c] /\ is_free'[c] = is_free[c]
    BY <1>2, <1>3, <2>1, <2>3 DEF SplitSizes, SplitMarks
  <2>6. size' \in [Cell -> Nat] /\ is_free' \in [Cell -> Byte]
    <3>1. size[curr] - total \in Nat
      BY <1>4, <1>8, <1>10 DEF MinSplit
    <3>2. size' \in [Cell -> Nat]
      BY <1>2, <1>4, <2>1, <3>1 DEF SplitSizes
    <3>3. 0 \in Byte /\ 1 \in Byte
      BY DEF Byte
    <3>4. is_free' \in [Cell -> Byte]
      BY <1>2, <2>1, <3>3 DEF SplitMarks
    <3> QED BY <3>2, <3>4
  <2>7. next' \in Pointers /\ prev' \in Pointers
    BY <1>5, <2>1, <2>3, WithType
  <2>8. TypeOK'
    BY <1>1, <1>2, <1>4, <2>1, <2>3, <2>6, <2>7 DEF TypeOK, Pointers, Link
  <2>9. FreeBlocks' = F1 \cup {rest}
    BY <1>2, <1>3, <2>1, <2>3, <2>4, <2>5 DEF FreeBlocks
  <2>10. WellLinked'
    <3>1. F1 \in SUBSET Cell /\ rest \in Cell \ F1
      BY <1>2, <2>3, <2>4 DEF FreeBlocks
    <3> HIDE DEF F1
    <3> QED BY <1>5, <2>1, <2>9, <3>1, WithLinked DEF WellLinked
  <2>15. ListComplete'
    <3>1. F1 \in SUBSET Cell /\ rest \in Cell \ F1
      BY <1>2, <2>3, <2>4 DEF FreeBlocks
    <3> HIDE DEF F1, rest
    <3>2. Complete(prev', free_list_head', FreeBlocks')
      BY <1>5, <1>12, <2>1, <2>9, <3>1, WithComplete
    <3> QED BY <3>2 DEF ListComplete, BackwardClosed, Complete
  <2>11. Tiling'
    <3>1. \A b \in blocks' : size'[b] >= MinSplit /\ b + size'[b] <= HeapEnd
      <4>1. \A b \in blocks : b \in Cell /\ size[b] >= 2 /\ b + size[b] <= HeapEnd
        BY <1>2 DEF IInv, Tiling, MinSplit
      <4>2. size'[rest] >= 2 /\ rest + size'[rest] <= HeapEnd
        BY <1>4, <1>8, <1>10, <2>2, <2>3, <2>5 DEF MinSplit, HeapEnd
      <4>3. size'[curr] >= 2 /\ curr + size'[curr] <= HeapEnd
        BY <1>3, <1>4, <1>8, <1>10, <2>2, <2>5 DEF MinSplit, HeapEnd
      <4>4. \A b \in blocks' : b # curr /\ b # rest => b \in blocks /\ size'[b] = size[b]
        BY <1>2, <2>1, <2>5
      <4> QED BY <4>1, <4>2, <4>3, <4>4 DEF MinSplit
    <3>2. \A b, c \in blocks : b < c => b + size[b] <= c
      BY DEF IInv, Tiling
    <3>3. ASSUME NEW b \in blocks', NEW c \in blocks', b < c PROVE b + size'[b] <= c
      <4>1. b \in Cell /\ c \in Cell /\ size[b] \in Nat /\ size[c] \in Nat /\ b \in Nat /\ c \in Nat
        BY <1>2, <2>1, <2>3 DEF Cell
      <4>2. CASE b = rest
        BY <1>3, <1>4, <1>8, <1>10, <2>1, <2>3, <2>5, <3>2, <3>3, <4>1, <4>2
      <4>3. CASE b = curr
        <5>1. size'[b] = total /\ b + size'[b] = rest
          BY <2>5, <4>1, <4>3
        <5>2. c = rest \/ (c \in blocks /\ curr + size[curr] <= c)
          BY <1>3, <2>1, <3>2, <3>3, <4>3
        <5> QED BY <1>4, <1>8, <1>10, <2>3, <4>1, <5>1, <5>2 DEF MinSplit
      <4>4. CASE b # rest /\ b # curr
        <5>1. b \in blocks /\ size'[b] = size[b]
          BY <2>1, <2>5, <4>1, <4>4
        <5>2. CASE c = rest
          <6>1. b < curr
            BY <1>3, <1>4, <1>8, <1>10, <2>3, <3>2, <3>3, <4>1, <4>4, <5>1, <5>2 DEF MinSplit
          <6> QED BY <1>3, <1>4, <1>8, <2>3, <3>2, <4>1, <5>1, <5>2, <6>1
        <5>3. CASE c # rest
          BY <2>1, <3>2, <3>3, <5>1, <5>3
        <5> QED BY <5>2, <5>3
      <4> QED BY <4>2, <4>3, <4>4
    <3>4. ASSUME NEW x \in Cell PROVE \E b \in blocks' : x \in b .. (b + size'[b] - 1)
      <4>1. PICK b \in blocks : x \in b .. (b + size[b] - 1)
        BY DEF IInv, Tiling, Extent
      <4>2. CASE b = curr
        <5>1. x \in curr .. (curr + total - 1) \/ x \in rest .. (rest + (size[curr] - total) - 1)
          BY <1>4, <1>8, <2>3, <4>1, <4>2 DEF Cell
        <5> QED BY <1>3, <2>1, <2>3, <2>5, <5>1
      <4>3. CASE b # curr
        BY <1>2, <2>1, <2>4, <2>5, <4>1, <4>3
      <4> QED BY <4>2, <4>3
    <3> QED BY <3>1, <3>3, <3>4 DEF Tiling, Extent
  <2>12. MarksAgree'
    <3>1. ~(live[rest] > 0) /\ live[rest] \in Nat
      BY <1>7, <2>3, <2>4
    <3> QED BY <1>2, <1>3, <1>4, <1>9, <2>1, <2>3, <2>5, <3>1 DEF IInv, MarksAgree
  <2>13. Enough'
    <3>1. ~(live[rest] > 0) /\ live[rest] \in Nat
      BY <1>7, <2>3, <2>4
    <3>2. total = TotalRequested(request)
      BY DEF total
    <3> QED BY <1>4, <1>9, <2>3, <2>5, <3>1, <3>2 DEF IInv, Enough
  <2>14. DoubleFreeNoticed'
    <3> SUFFICES ASSUME NEW f \in freed'
                 PROVE  is_free'[f] = 1 /\ \A b \in Cell : live'[b] > 0 => f \notin Extent(b)'
      BY DEF DoubleFreeNoticed
    <3>1. f \in freed /\ f \in Cell /\ f \in Nat /\ (f < curr \/ f >= rest)
      BY <1>2, <2>1 DEF Cell
    <3>2. is_free'[f] = 1
      BY <1>8, <2>3, <2>5, <3>1 DEF IInv, DoubleFreeNoticed
    <3>3. ASSUME NEW b \in Cell, live'[b] > 0 PROVE f \notin b .. (b + size'[b] - 1)
      <4>1. CASE b = curr
        BY <1>4, <1>8, <2>3, <2>5, <3>1, <4>1
      <4>2. CASE b # curr
        <5>1. live[b] > 0
          BY <1>9, <3>3, <4>2
        <5>2. b # rest
          BY <2>4, <5>1 DEF IInv, MarksAgree
        <5> QED BY <2>5, <3>1, <4>2, <5>1, <5>2 DEF IInv, DoubleFreeNoticed, Extent
      <4> QED BY <4>1, <4>2
    <3> QED BY <3>2, <3>3 DEF Extent
  <2> QED BY <1>6, <2>8, <2>10, <2>11, <2>12, <2>13, <2>14, <2>15 DEF IInv
<1>11. CASE ~(size[curr] - total >= MinSplit)
  <2>1. /\ is_free' = [is_free EXCEPT ![curr] = 0]
        /\ next' = next1 /\ prev' = prev1 /\ free_list_head' = head1
        /\ freed' = freed \ Extent(curr) /\ UNCHANGED <<size, blocks>>
    BY <1>11 DEF KmallocTake, total, head1, next1, prev1
  <2>2. \A c \in Cell : /\ c = curr => is_free'[c] = 0
                        /\ c # curr => is_free'[c] = is_free[c]
    BY <1>2, <1>3, <2>1
  <2>3. TypeOK'
    <3>1. is_free' \in [Cell -> Byte]
      BY <1>2, <1>3, <2>1 DEF Byte
    <3>2. live' \in [Cell -> Requests \cup {0}]
      BY <1>1, <1>2, <1>3
    <3> QED BY <1>1, <1>2, <1>5, <2>1, <3>1, <3>2 DEF TypeOK, Pointers, Link
  <2>4. FreeBlocks' = F1
    BY <1>2, <1>3, <2>1, <2>2 DEF FreeBlocks
  <2>5. WellLinked'
    BY <1>5, <2>1, <2>4 DEF WellLinked
  <2>10. ListComplete'
    BY <1>12, <2>1, <2>4 DEF ListComplete, BackwardClosed, Complete
  <2>6. Tiling'
    BY <2>1 DEF IInv, Tiling, Extent
  <2>7. MarksAgree'
    BY <1>2, <1>3, <1>4, <1>9, <2>1, <2>2 DEF IInv, MarksAgree
  <2>8. Enough'
    <3>1. total = TotalRequested(request)
      BY DEF total
    <3> QED BY <1>1, <1>9, <2>1, <3>1 DEF IInv, Enough
  <2>9. DoubleFreeNoticed'
    <3> SUFFICES ASSUME NEW f \in freed'
                 PROVE  is_free'[f] = 1 /\ \A b \in Cell : live'[b] > 0 => f \notin Extent(b)'
      BY DEF DoubleFreeNoticed
    <3>1. f \in freed /\ f \in Cell /\ f \notin Extent(curr)
      BY <1>2, <2>1
    <3>2. f # curr
      BY <1>3, <1>8, <3>1 DEF Extent, IInv, Tiling, MinSplit
    <3>3. is_free'[f] = 1
      BY <2>2, <3>1, <3>2 DEF IInv, DoubleFreeNoticed
    <3> QED BY <1>9, <2>1, <3>1, <3>3 DEF IInv, DoubleFreeNoticed, Extent
  <2> QED BY <1>6, <2>3, <2>5, <2>6, <2>7, <2>8, <2>9, <2>10 DEF IInv
<1> QED BY <1>10, <1>11

\* Releasing a block marks it free, and swallows the block behind it if that is
\* free: its header leaves both the free list and the tiling.
LEMMA FreeInvariant ==
  ASSUME NoWrap, IInv, NEW b \in Cell, Kfree(b)
  PROVE  IInv'
<1> DEFINE behind == b + size[b]
           next1  == NextWith(next, free_list_head, b)
           prev1  == PrevWith(prev, free_list_head, b)
           marked == [is_free EXCEPT ![b] = 1]
           F1     == FreeBlocks \cup {b}
<1>1. /\ is_free' = marked /\ is_free[b] = 0 /\ (live[b] > 0 \/ b \in freed)
      /\ live' = [live EXCEPT ![b] = 0] /\ freed' = freed \cup {b}
      /\ curr' = curr /\ request' = request /\ request = 0
  BY DEF Kfree, Releases
<1>2. /\ free_list_head \in Link /\ curr \in Link
      /\ size \in [Cell -> Nat] /\ is_free \in [Cell -> Byte]
      /\ next \in Pointers /\ prev \in Pointers
      /\ request \in Requests \cup {0} /\ live \in [Cell -> Requests \cup {0}]
      /\ freed \subseteq Cell /\ blocks \subseteq Cell
  BY DEF IInv, TypeOK, Pointers
<1>3. live[b] > 0 /\ b \in blocks /\ b \notin FreeBlocks /\ b \notin freed
  BY <1>1 DEF IInv, DoubleFreeNoticed, MarksAgree, FreeBlocks
<1>4. b \in Nat /\ size[b] \in Nat /\ size[b] >= 2 /\ behind <= HeapEnd /\ behind \in Nat /\ behind > b
  <2>1. b \in Nat /\ size[b] \in Nat
    BY <1>2 DEF Cell
  <2>2. size[b] >= 2 /\ behind <= HeapEnd
    BY <1>3 DEF IInv, Tiling, MinSplit
  <2> QED BY <2>1, <2>2
<1>5. /\ next1 \in Pointers /\ prev1 \in Pointers
      /\ Linked(next1, prev1, b, F1) /\ Complete(prev1, b, F1) /\ F1 \in SUBSET Cell
  <2>1. FreeBlocks \in SUBSET Cell /\ b \in Cell \ FreeBlocks
    BY <1>2, <1>3 DEF FreeBlocks
  <2>2. Linked(next, prev, free_list_head, FreeBlocks)
    BY DEF IInv, WellLinked
  <2>3. Complete(prev, free_list_head, FreeBlocks)
    BY DEF IInv, ListComplete, BackwardClosed, Complete
  <2>4. Complete(prev1, b, F1)
    BY <1>2, <2>1, <2>2, <2>3, WithComplete
  <2> QED BY <1>2, <2>1, <2>2, <2>4, WithType, WithLinked
<1>6. \A c \in Cell : /\ c # b => live'[c] = live[c] /\ is_free'[c] = is_free[c]
                      /\ c = b => live'[c] = 0 /\ is_free'[c] = 1
  BY <1>1, <1>2
<1>7. CursorFree' /\ Passed'
  BY <1>1 DEF IInv, CursorFree, Passed
<1>8. \A c, d \in blocks : c < d => c + size[c] <= d
  BY DEF IInv, Tiling
<1>9. ASSUME NEW c \in blocks
      PROVE  c \in Nat /\ size[c] \in Nat /\ size[c] >= 2 /\ c + size[c] <= HeapEnd
  <2>1. c \in Cell /\ size[c] \in Nat
    BY <1>2
  <2>2. size[c] >= 2 /\ c + size[c] <= HeapEnd
    BY DEF IInv, Tiling, MinSplit
  <2> QED BY <2>1, <2>2 DEF Cell
<1>10. live' \in [Cell -> Requests \cup {0}] /\ is_free' \in [Cell -> Byte] /\ freed' \subseteq Cell
  <2>1. 1 \in Byte
    BY DEF Byte
  <2> QED BY <1>1, <1>2, <2>1
<1> HIDE DEF next1, prev1, marked
<1>11. CASE behind < HeapEnd /\ is_free'[behind] = 1
  <2>1. /\ size' = [size EXCEPT ![b] = @ + size[behind]]
        /\ next' = NextWithout(next1, prev1, behind) /\ prev' = PrevWithout(next1, prev1, behind)
        /\ free_list_head' = HeadWithout(b, next1, prev1, behind)
        /\ blocks' = blocks \ {behind}
    BY <1>1, <1>11 DEF Kfree, next1, prev1, marked
  <2>2. behind \in Cell /\ behind # b
    BY <1>4, <1>11, HeapAssumption DEF Cell, HeapEnd
  <2>3. behind \in blocks
    <3>1. PICK c \in blocks : behind \in c .. (c + size[c] - 1)
      BY <2>2 DEF IInv, Tiling, Extent
    <3>2. c = behind
      BY <1>3, <1>4, <1>8, <1>9, <3>1
    <3> QED BY <3>2
  <2>4. behind \in FreeBlocks /\ behind \in F1
    BY <1>6, <1>11, <2>2, <2>3 DEF FreeBlocks
  <2>5. /\ size'[b] = size[b] + size[behind]
        /\ \A c \in Cell : c # b => size'[c] = size[c]
        /\ size' \in [Cell -> Nat]
    BY <1>2, <2>1, <2>2
  <2>6. FreeBlocks' = F1 \ {behind}
    BY <1>2, <1>3, <1>6, <2>1, <2>2 DEF FreeBlocks
  <2>7. WellLinked'
    <3> HIDE DEF F1, behind
    <3> QED BY <1>5, <2>1, <2>4, <2>6, WithoutLinked DEF WellLinked
  <2>14. ListComplete'
    <3> HIDE DEF F1, behind
    <3>1. Complete(prev', free_list_head', FreeBlocks')
      BY <1>5, <2>1, <2>4, <2>6, WithoutComplete
    <3> QED BY <3>1 DEF ListComplete, BackwardClosed, Complete
  <2>8. next' \in Pointers /\ prev' \in Pointers /\ free_list_head' \in Link
    <3>1. b \in Link
      BY DEF Link
    <3> QED BY <1>5, <2>1, <2>2, <3>1, WithoutType
  <2>9. TypeOK'
    BY <1>1, <1>2, <1>10, <2>1, <2>5, <2>8 DEF TypeOK, Pointers
  <2>10. Tiling'
    <3>1. \A c \in blocks' : c \in blocks /\ c # behind /\ c \in Cell
      BY <1>2, <2>1
    <3>2. b + size'[b] = behind + size[behind] /\ size'[b] \in Nat /\ size[behind] \in Nat
      BY <1>2, <1>4, <2>2, <2>5
    <3>3. \A c \in blocks' : size'[c] >= 2 /\ c + size'[c] <= HeapEnd
      BY <1>4, <1>9, <2>3, <2>5, <3>1, <3>2
    <3>4. ASSUME NEW c \in blocks', NEW d \in blocks', c < d PROVE c + size'[c] <= d
      <4>1. CASE c = b
        <5>1. behind <= d /\ d # behind
          BY <1>3, <1>8, <3>1, <3>4, <4>1
        <5>2. behind < d
          BY <1>4, <1>9, <3>1, <5>1
        <5> QED BY <1>8, <2>3, <3>1, <3>2, <4>1, <5>2
      <4>2. CASE c # b
        BY <1>8, <2>5, <3>1, <3>4, <4>2
      <4> QED BY <4>1, <4>2
    <3>5. ASSUME NEW x \in Cell PROVE \E c \in blocks' : x \in c .. (c + size'[c] - 1)
      <4>1. PICK c \in blocks : x \in c .. (c + size[c] - 1)
        BY DEF IInv, Tiling, Extent
      <4>2. CASE c = b \/ c = behind
        <5>1. x \in b .. (b + size'[b] - 1)
          <6>1. x \in Nat
            BY DEF Cell
          <6>2. b <= x /\ x < b + size'[b]
            BY <1>4, <2>5, <3>2, <4>1, <4>2, <6>1
          <6> QED BY <1>4, <3>2, <6>1, <6>2
        <5> QED BY <1>3, <2>1, <2>2, <5>1
      <4>3. CASE c # b /\ c # behind
        BY <1>2, <2>1, <2>5, <4>1, <4>3
      <4> QED BY <4>2, <4>3
    <3> QED BY <3>3, <3>4, <3>5 DEF Tiling, Extent, MinSplit
  <2>11. MarksAgree'
    <3>1. \A c \in Cell : live'[c] > 0 => c \in blocks'
      <4>1. ~(live[behind] > 0)
        BY <2>4 DEF IInv, MarksAgree, FreeBlocks
      <4> QED BY <1>6, <2>1, <2>2, <4>1 DEF IInv, MarksAgree
    <3>2. \A c \in blocks' : is_free'[c] = IF live'[c] > 0 THEN 0 ELSE 1
      BY <1>2, <1>6, <2>1 DEF IInv, MarksAgree
    <3> QED BY <3>1, <3>2 DEF MarksAgree
  <2>12. Enough'
    BY <1>6, <2>5 DEF IInv, Enough
  <2>13. DoubleFreeNoticed'
    <3>1. \A f \in freed' : is_free'[f] = 1
      BY <1>1, <1>2, <1>6 DEF IInv, DoubleFreeNoticed
    <3>2. ASSUME NEW f \in freed', NEW c \in Cell, live'[c] > 0 PROVE f \notin c .. (c + size'[c] - 1)
      <4>1. c # b /\ live[c] > 0 /\ size'[c] = size[c] /\ c \in blocks
        BY <1>6, <2>5, <3>2 DEF IInv, MarksAgree
      <4>2. CASE f = b
        BY <1>3, <1>4, <1>8, <1>9, <4>1, <4>2
      <4>3. CASE f # b
        BY <1>1, <4>1, <4>3 DEF IInv, DoubleFreeNoticed, Extent
      <4> QED BY <4>2, <4>3
    <3> QED BY <3>1, <3>2 DEF DoubleFreeNoticed, Extent
  <2> QED BY <1>7, <2>7, <2>9, <2>10, <2>11, <2>12, <2>13, <2>14 DEF IInv
<1>12. CASE ~(behind < HeapEnd /\ is_free'[behind] = 1)
  <2>1. /\ next' = next1 /\ prev' = prev1 /\ free_list_head' = b
        /\ UNCHANGED <<size, blocks>>
    BY <1>1, <1>12 DEF Kfree, next1, prev1, marked
  <2>2. FreeBlocks' = F1
    BY <1>2, <1>3, <1>6, <2>1 DEF FreeBlocks
  <2>3. WellLinked'
    BY <1>5, <2>1, <2>2 DEF WellLinked
  <2>9. ListComplete'
    BY <1>5, <2>1, <2>2 DEF ListComplete, BackwardClosed, Complete
  <2>4. TypeOK'
    BY <1>1, <1>2, <1>5, <1>10, <2>1 DEF TypeOK, Pointers, Link
  <2>5. Tiling'
    BY <2>1 DEF IInv, Tiling, Extent
  <2>6. MarksAgree'
    BY <1>2, <1>6, <2>1 DEF IInv, MarksAgree
  <2>7. Enough'
    BY <1>6, <2>1 DEF IInv, Enough
  <2>8. DoubleFreeNoticed'
    <3>1. \A f \in freed' : is_free'[f] = 1
      BY <1>1, <1>2, <1>6 DEF IInv, DoubleFreeNoticed
    <3>2. ASSUME NEW f \in freed', NEW c \in Cell, live'[c] > 0 PROVE f \notin c .. (c + size'[c] - 1)
      <4>1. c # b /\ live[c] > 0 /\ size'[c] = size[c] /\ c \in blocks
        BY <1>6, <2>1, <3>2 DEF IInv, MarksAgree
      <4>2. CASE f = b
        BY <1>3, <1>4, <1>8, <1>9, <4>1, <4>2
      <4>3. CASE f # b
        BY <1>1, <4>1, <4>3 DEF IInv, DoubleFreeNoticed, Extent
      <4> QED BY <4>2, <4>3
    <3> QED BY <3>1, <3>2 DEF DoubleFreeNoticed, Extent
  <2> QED BY <1>7, <2>3, <2>4, <2>5, <2>6, <2>7, <2>8, <2>9 DEF IInv
<1> QED BY <1>11, <1>12

\* Every step of the heap keeps the invariant.
LEMMA StepInvariant ==
  ASSUME NoWrap, IInv, [Next]_vars
  PROVE  IInv'
<1>1. CASE (\E bytes \in Requests : Kmalloc(bytes)) \/ KmallocNext \/ KmallocFail
  BY <1>1, WalkInvariant
<1>2. CASE KmallocTake
  BY <1>2, TakeInvariant
<1>3. CASE \E b \in Cell : Kfree(b)
  BY <1>3, FreeInvariant
<1>4. CASE \E b \in Cell : Scribble(b)
  BY <1>4, ScribbleInvariant
<1>5. CASE UNCHANGED vars
  BY <1>5, ZenonT(40) DEF vars, memory, IInv, TypeOK, Tiling, Extent, MarksAgree, WellLinked,
              FreeBlocks, Enough, DoubleFreeNoticed, CursorFree,
              ListComplete, BackwardClosed, Passed
<1> QED BY <1>1, <1>2, <1>3, <1>4, <1>5 DEF Next, KmallocStep

-----------------------------------------------------------------------------
(***************************************************************************)
(* The results.                                                            *)
(***************************************************************************)

\* The inductive invariant holds in every state of the heap.
THEOREM InvariantHolds ==
  ASSUME NoWrap
  PROVE  Spec => []IInv
<1>1. IInv /\ [Next]_vars => IInv'
  BY StepInvariant
<1> QED BY InitInvariant, <1>1, PTL DEF Spec

\* The variables keep their types.
THEOREM TypeCorrect ==
  ASSUME NoWrap
  PROVE  Spec => []TypeOK
<1>1. IInv => TypeOK
  BY DEF IInv
<1> QED BY InvariantHolds, <1>1, PTL

\* Splitting and coalescing never lose a cell or put one into two blocks.
THEOREM HeapTiled ==
  ASSUME NoWrap
  PROVE  Spec => []Tiling
<1>1. IInv => Tiling
  BY DEF IInv
<1> QED BY InvariantHolds, <1>1, PTL

\* is_free tells the truth about every block.
THEOREM MarksTrue ==
  ASSUME NoWrap
  PROVE  Spec => []MarksAgree
<1>1. IInv => MarksAgree
  BY DEF IInv
<1> QED BY InvariantHolds, <1>1, PTL

\* The free list stays well linked through every split and coalescence.
THEOREM FreeListLinked ==
  ASSUME NoWrap
  PROVE  Spec => []WellLinked
<1>1. IInv => WellLinked
  BY DEF IInv
<1> QED BY InvariantHolds, <1>1, PTL

\* kfree notices every second release of a block not handed out again.
THEOREM DoubleFreeSafe ==
  ASSUME NoWrap
  PROVE  Spec => []DoubleFreeNoticed
<1>1. IInv => DoubleFreeNoticed
  BY DEF IInv
<1> QED BY InvariantHolds, <1>1, PTL

\* Every caller gets the bytes it asked for.
THEOREM CallersHaveRoom ==
  ASSUME NoWrap
  PROVE  Spec => []Room
<1>1. IInv => Room
  <2> SUFFICES ASSUME IInv, NEW b \in Cell, live[b] > 0
               PROVE  (size[b] - 1) * Alignment >= live[b]
    BY DEF Room
  <2>1. live[b] \in Requests /\ live[b] # 0
    BY DEF IInv, TypeOK
  <2>2. /\ TotalRequested(live[b]) \in Nat
        /\ (TotalRequested(live[b]) - 1) * Alignment >= live[b]
    BY <2>1, TotalRequestedRoom
  <2>3. size[b] \in Nat /\ size[b] >= TotalRequested(live[b])
    BY DEF IInv, TypeOK, Enough
  <2>4. Alignment \in Nat /\ live[b] \in Nat
    BY <2>1, HeapAssumption
  <2>5. ASSUME NEW s \in Nat, NEW t \in Nat, s >= t
        PROVE  (s - 1) * Alignment >= (t - 1) * Alignment
    <3>1. (s - 1) * Alignment = (t - 1) * Alignment + (s - t) * Alignment
      BY <2>4
    <3>2. (s - t) * Alignment >= 0
      BY <2>4, <2>5
    <3> QED BY <2>4, <3>1, <3>2
  <2> HIDE DEF TotalRequested
  <2>6. (size[b] - 1) * Alignment >= (TotalRequested(live[b]) - 1) * Alignment
    BY <2>2, <2>3, <2>5
  <2> QED BY <2>2, <2>3, <2>4, <2>6
<1> QED BY InvariantHolds, <1>1, PTL

\* No two callers are handed the same cell.
THEOREM CallersDisjoint ==
  ASSUME NoWrap
  PROVE  Spec => []NoOverlap
<1>1. IInv => NoOverlap
  <2> SUFFICES ASSUME IInv, NEW b \in Cell, NEW c \in Cell,
                      live[b] > 0, live[c] > 0, b # c
               PROVE  Extent(b) \cap Extent(c) = {}
    BY DEF NoOverlap
  <2>1. b \in blocks /\ c \in blocks /\ size[b] \in Nat /\ size[c] \in Nat
    BY DEF IInv, MarksAgree, TypeOK
  <2>2. b \in Nat /\ c \in Nat
    BY DEF Cell
  <2>3. b + size[b] <= c \/ c + size[c] <= b
    BY <2>1, <2>2 DEF IInv, Tiling
  <2> QED BY <2>1, <2>2, <2>3 DEF Extent
<1> QED BY InvariantHolds, <1>1, PTL

\* Every free block is on the free list, through every split and coalescence.
THEOREM FreeListComplete ==
  ASSUME NoWrap
  PROVE  Spec => []ListComplete
<1>1. IInv => ListComplete
  BY DEF IInv
<1> QED BY InvariantHolds, <1>1, PTL

\* "No memory left" is said only when no free block is large enough.
THEOREM RefusalsRight ==
  ASSUME NoWrap
  PROVE  Spec => RefusedOnlyWhenFull
<1>1. IInv /\ [Next]_vars =>
        [KmallocFail => \A b \in FreeBlocks : size[b] < TotalRequested(request)]_vars
  <2> SUFFICES ASSUME IInv, KmallocFail, NEW b \in FreeBlocks
               PROVE  size[b] < TotalRequested(request)
    OBVIOUS
  <2>1. request # 0 /\ curr = NULL
    BY DEF KmallocFail
  <2> QED BY <2>1 DEF IInv, Passed
<1> QED BY InvariantHolds, <1>1, PTL DEF Spec, RefusedOnlyWhenFull

-----------------------------------------------------------------------------
(***************************************************************************)
(* The heap implements Allocator: kmalloc's start, success and failure are *)
(* Ask, Grant and Refuse, kfree is Release, and callers see no other step. *)
(***************************************************************************)
LEMMA HeldWhenInitialised == Init => Promise!Init
<1> SUFFICES ASSUME Init PROVE Promise!Init
  OBVIOUS
<1>1. request = 0 /\ \A b \in Cell : ~(live[b] > 0)
  BY DEF Init
<1> QED BY <1>1 DEF Promise!Init, Held, Cell

\* What callers hold depends on the sizes of live blocks only.
LEMMA SameHeld ==
  ASSUME \A b \in Cell : /\ live'[b] > 0 <=> live[b] > 0
                         /\ live[b] > 0 => size'[b] = size[b]
  PROVE  Held' = Held
BY DEF Held, Extent

\* The block that is taken is for this caller alone, and large enough.
LEMMA TakeGrants ==
  ASSUME NoWrap, IInv, KmallocTake
  PROVE  Promise!Answer
<1>1. /\ request # 0 /\ curr # NULL /\ size[curr] >= TotalRequested(request)
      /\ live' = [live EXCEPT ![curr] = request] /\ request' = 0
  BY DEF KmallocTake
<1>2. /\ curr \in Cell /\ curr \in blocks /\ curr \in Nat /\ is_free[curr] = 1
      /\ size \in [Cell -> Nat] /\ live \in [Cell -> Requests \cup {0}]
      /\ request \in Requests /\ request > 0 /\ request \in Nat
  <2>1. /\ curr \in Cell /\ curr \in blocks /\ is_free[curr] = 1
        /\ size \in [Cell -> Nat] /\ live \in [Cell -> Requests \cup {0}]
        /\ request \in Requests
    BY <1>1 DEF IInv, TypeOK, CursorFree, FreeBlocks
  <2>2. curr \in Nat
    BY <2>1 DEF Cell
  <2>3. request \in Nat /\ request > 0
    BY <1>1, <2>1, HeapAssumption
  <2> QED BY <2>1, <2>2, <2>3
<1>3. PICK total \in Nat :
        /\ total = TotalRequested(request) /\ total >= 2 /\ (total - 1) * Alignment >= request
  BY <1>1, <1>2, TotalRequestedRoom DEF MinSplit
<1>4. /\ size' = [size EXCEPT ![curr] = total, ![curr + total] = size[curr] - total]
         /\ size[curr] - total >= 2
      \/ size' = size
  BY <1>3 DEF KmallocTake, SplitSizes, MinSplit
<1>5. /\ size'[curr] \in Nat /\ size'[curr] >= total /\ size'[curr] <= size[curr]
      /\ size[curr] \in Nat
  BY <1>1, <1>2, <1>3, <1>4
<1>6. ASSUME NEW c \in Cell, live[c] > 0
      PROVE  /\ c # curr /\ c \in blocks /\ c \in Nat /\ size[c] \in Nat /\ size'[c] = size[c]
             /\ c + size[c] <= curr \/ curr + size[curr] <= c
  <2>1. c # curr /\ c \in blocks /\ c \in Nat /\ size[c] \in Nat
    BY <1>2, <1>6 DEF IInv, MarksAgree, Cell
  <2>2. c + size[c] <= curr \/ curr + size[curr] <= c
    BY <1>2, <2>1 DEF IInv, Tiling
  <2>3. size[c] >= 2
    BY <2>1 DEF IInv, Tiling, MinSplit
  <2>4. size[curr] - total >= 2 => c # curr + total
    BY <1>2, <1>3, <2>1, <2>2, <2>3
  <2>5. size'[c] = size[c]
    BY <1>2, <1>4, <2>1, <2>4
  <2> QED BY <2>1, <2>2, <2>5
<1>7. PICK e \in Int : e = curr + size'[curr] - 1
  BY <1>2, <1>5
<1>8. e \in Cell /\ e \in Nat /\ e - curr = size'[curr] - 1
  <2>1. curr + size[curr] <= HeapCells + 1 /\ HeapCells \in Nat
    BY <1>2, HeapAssumption DEF IInv, Tiling, HeapEnd
  <2>2. curr >= 1
    BY <1>2 DEF Cell
  <2>3. e >= curr /\ e <= HeapCells
    BY <1>2, <1>3, <1>5, <1>7, <2>1
  <2> QED BY <1>2, <1>5, <1>7, <2>1, <2>2, <2>3, SMTT(30) DEF Cell
<1>9. (e - curr) * Alignment >= request
  <2>1. Alignment \in Nat
    BY HeapAssumption
  <2>2. PICK d \in Nat : size'[curr] = total + d
    <3>1. size'[curr] - total \in Nat /\ size'[curr] = total + (size'[curr] - total)
      BY <1>3, <1>5
    <3> QED BY <3>1
  <2>3. d * Alignment \in Nat
    BY <2>1, <2>2
  <2>4. (total - 1 + d) * Alignment = (total - 1) * Alignment + d * Alignment
    BY <1>3, <2>1, <2>2
  <2>5. e - curr = total - 1 + d
    BY <1>3, <1>8, <2>2
  <2>6. (total - 1) * Alignment \in Int
    BY <1>3, <2>1
  <2> QED BY <1>2, <1>3, <2>3, <2>4, <2>5, <2>6
<1>10. \A c \in Cell : Held[c] \cap (curr .. e) = {}
  <2> TAKE c \in Cell
  <2>1. CASE live[c] > 0
    <3>1. Held[c] = c .. (c + size[c] - 1)
      BY <2>1 DEF Held, Extent
    <3>2. c + size[c] - 1 < curr \/ e < c
      BY <1>2, <1>5, <1>6, <1>7, <2>1
    <3> QED BY <1>2, <1>6, <1>8, <2>1, <3>1, <3>2
  <2>2. CASE ~(live[c] > 0)
    BY <2>2 DEF Held
  <2> QED BY <2>1, <2>2
<1>11. Held' = [Held EXCEPT ![curr] = curr .. e]
  <2>1. Held' = [b \in Cell |-> IF live'[b] > 0 THEN b .. (b + size'[b] - 1) ELSE {}]
    BY DEF Held, Extent
  <2>2. live'[curr] > 0 /\ \A b \in Cell : b # curr => live'[b] = live[b]
    BY <1>1, <1>2
  <2>3. ASSUME NEW b \in Cell
        PROVE  (IF live'[b] > 0 THEN b .. (b + size'[b] - 1) ELSE {})
                 = IF b = curr THEN curr .. e ELSE Held[b]
    BY <1>6, <1>7, <2>2 DEF Held, Extent
  <2>4. Held = [b \in Cell |-> Held[b]]
    BY DEF Held
  <2> QED BY <1>2, <2>1, <2>3, <2>4
<1>12. Promise!Grant(curr, e)
  BY <1>1, <1>9, <1>10, <1>11 DEF Promise!Grant, Cell
<1> QED BY <1>2, <1>8, <1>12 DEF Promise!Answer, Cell

\* What is released was held, and nobody else holds more or less for it.
LEMMA FreeReleases ==
  ASSUME NoWrap, IInv, NEW b \in Cell, Kfree(b)
  PROVE  Promise!Release(b)
<1>1. /\ is_free[b] = 0 /\ (live[b] > 0 \/ b \in freed) /\ request = 0 /\ request' = request
      /\ live' = [live EXCEPT ![b] = 0]
      /\ size' = size \/ size' = [size EXCEPT ![b] = @ + size[b + size[b]]]
  BY DEF Kfree, Releases
<1>2. /\ live[b] > 0 /\ b \in blocks /\ size \in [Cell -> Nat]
      /\ live \in [Cell -> Requests \cup {0}]
  BY <1>1 DEF IInv, DoubleFreeNoticed, MarksAgree, TypeOK
<1>3. size[b] \in Nat /\ size[b] >= 2 /\ b \in Nat
  BY <1>2 DEF IInv, Tiling, MinSplit, Cell
<1>4. b \in Held[b]
  BY <1>2, <1>3 DEF Held, Extent
<1>5. Held' = [Held EXCEPT ![b] = {}]
  <2>1. Held' = [c \in Cell |-> IF live'[c] > 0 THEN c .. (c + size'[c] - 1) ELSE {}]
    BY DEF Held, Extent
  <2>2. /\ ~(live'[b] > 0)
        /\ \A c \in Cell : c # b => live'[c] = live[c] /\ size'[c] = size[c]
    BY <1>1, <1>2
  <2>3. ASSUME NEW c \in Cell
        PROVE  (IF live'[c] > 0 THEN c .. (c + size'[c] - 1) ELSE {})
                 = IF c = b THEN {} ELSE Held[c]
    BY <2>2 DEF Held, Extent
  <2>4. Held = [c \in Cell |-> Held[c]]
    BY DEF Held
  <2> QED BY <2>1, <2>3, <2>4
<1> QED BY <1>1, <1>4, <1>5 DEF Promise!Release

\* Every step is one of Allocator, or none to the callers.
LEMMA StepPromised ==
  ASSUME NoWrap, IInv, [Next]_vars
  PROVE  [Promise!Next]_(Promise!avars)
<1>1. ASSUME NEW bytes \in Requests, Kmalloc(bytes) PROVE Promise!Next
  <2>1. Held' = Held
    BY <1>1 DEF Kmalloc, memory, Held, Extent
  <2>2. Promise!Ask(bytes)
    BY <1>1, <2>1 DEF Kmalloc, Promise!Ask
  <2> QED BY <2>2 DEF Promise!Next
<1>2. CASE KmallocNext
  BY <1>2 DEF KmallocNext, memory, Held, Extent, Promise!avars
<1>3. CASE KmallocTake
  BY <1>3, TakeGrants DEF Promise!Next
<1>4. CASE KmallocFail
  <2>1. Held' = Held
    BY <1>4 DEF KmallocFail, memory, Held, Extent
  <2>2. Promise!Refuse
    BY <1>4, <2>1 DEF KmallocFail, Promise!Refuse
  <2> QED BY <2>2 DEF Promise!Next, Promise!Answer
<1>5. ASSUME NEW b \in Cell, Kfree(b) PROVE Promise!Next
  BY <1>5, FreeReleases DEF Promise!Next, Cell
<1>6. ASSUME NEW b \in Cell, Scribble(b) PROVE UNCHANGED Promise!avars
  <2>1. ASSUME NEW c \in Cell, live[c] > 0 PROVE size'[c] = size[c]
    <3>1. PICK x \in Int, g \in Scribbles :
            size' = [size EXCEPT ![x] = g.size] /\ x \notin blocks
      BY <1>6, ScribbleOutside
    <3>2. c \in blocks
      BY <2>1 DEF IInv, MarksAgree
    <3> QED BY <3>1, <3>2 DEF IInv, TypeOK
  <2>2. live' = live /\ request' = request
    BY <1>6 DEF Scribble
  <2>3. Held' = Held
    BY <2>1, <2>2, SameHeld
  <2> QED BY <2>2, <2>3 DEF Promise!avars
<1>7. CASE UNCHANGED vars
  BY <1>7 DEF vars, memory, Held, Extent, Promise!avars
<1> QED BY <1>1, <1>2, <1>3, <1>4, <1>5, <1>6, <1>7 DEF Next, KmallocStep

\* The heap implements Allocator.
THEOREM AllocatorImplemented ==
  ASSUME NoWrap
  PROVE  Spec => ImplementsAllocator
<1>1. IInv /\ [Next]_vars => [Promise!Next]_(Promise!avars)
  BY StepPromised
<1> QED BY HeldWhenInitialised, InvariantHolds, <1>1, PTL
        DEF Spec, ImplementsAllocator, Promise!Spec
=============================================================================
