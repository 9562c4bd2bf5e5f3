----------------------------- MODULE MC_Floppy -----------------------------
(***************************************************************************)
(* Every sector is on a cylinder of its own.                               *)
(***************************************************************************)
EXTENDS Floppy

MCCylinderOf == [lba \in Lba |-> lba]
=============================================================================
