--------------------------- MODULE MC_FatPacking ---------------------------
(* A FAT of three sectors of four bytes: eight entries, two of which cross a *)
(* sector, in two copies.  The scan looks at four entries of the second.     *)
EXTENDS FatPacking

\* Two of the six clusters are bad.
WithBadClusters ==
  [e \in 0 .. 7 |-> CASE e = 0 -> 4080 [] e = 1 -> 4095 [] e \in {4, 7} -> BadCluster [] OTHER -> 0]
=============================================================================
