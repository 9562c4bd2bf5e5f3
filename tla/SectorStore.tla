---------------------------- MODULE SectorStore ----------------------------
(***************************************************************************)
(* What floppy.h promises about sectors: a call succeeds and is done, or   *)
(* fails; only a write changes anything, and nothing but its sector.       *)
(***************************************************************************)
EXTENDS Integers

CONSTANTS
  Reads, Writes,  \* the calls
  Torn            \* what a failed write may leave

VARIABLES
  call,    \* the call at work; its op is "none" between calls
  result,  \* what the last call returned
  disk     \* the sectors

Begin(c) ==
  /\ call.op = "none"
  /\ call' = c
  /\ UNCHANGED <<result, disk>>

\* A write at work has reached the disk, in whole or in part.
Touch ==
  /\ call \in Writes
  /\ \E left \in {call.data, Torn} : disk' = [disk EXCEPT ![call.lba] = left]
  /\ UNCHANGED <<call, result>>

Succeed ==
  /\ call.op # "none"
  /\ call \in Writes => disk[call.lba] = call.data
  /\ result'.op = call.op /\ result'.code = 0
  /\ call \in Reads => result'.data = disk[call.lba]
  /\ call' = [op |-> "none"]
  /\ UNCHANGED disk

Fail ==
  /\ call.op # "none"
  /\ result' = [op |-> call.op, code |-> -1]
  /\ call' = [op |-> "none"]
  /\ UNCHANGED disk

Next == (\E c \in Reads \cup Writes : Begin(c)) \/ Touch \/ Succeed \/ Fail

\* Any call may be at work at the start, and the disk may hold anything.
Spec == [][Next]_<<call, result, disk>>
=============================================================================
