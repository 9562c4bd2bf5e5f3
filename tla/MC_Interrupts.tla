--------------------------- MODULE MC_Interrupts ---------------------------
(* Timer and floppy, and the last line of the second controller: it has no   *)
(* handler, and spurious interrupts come on it.  The counter wraps.          *)
EXTENDS Interrupts
=============================================================================
