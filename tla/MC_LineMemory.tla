---------------------------- MODULE MC_LineMemory ----------------------------
(***************************************************************************)
(* A heap of seven cells: room for three blocks, so that a block can be    *)
(* freed between two others, behind one, or in front of one.               *)
(***************************************************************************)
EXTENDS LineMemory

\* One byte and one whole cell take the smallest block; one byte more does not.
MCRequests == {1, 4, 5, 13}

\* Caller data that looks like an allocated header, and like a free one that is
\* linked into the list.
MCScribbles ==
  {[size |-> 0, is_free |-> 0, next |-> NULL, prev |-> NULL],
   [size |-> 2, is_free |-> 1, next |-> 1, prev |-> 3]}

ASSUME NoWrap
=============================================================================
