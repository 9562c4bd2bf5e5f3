----------------------------- MODULE FatPacking -----------------------------
(***************************************************************************)
(* How kernel/fat12.c keeps the FAT on the disk: entries of 12 bits that   *)
(* share bytes and cross sectors, in Copies copies, written one byte and   *)
(* one sector at a time.  The power may fail between two sector writes.    *)
(*                                                                         *)
(* fat is the table as its callers mean it: a history variable.  Only the  *)
(* choice of what they call next reads it.                                 *)
(***************************************************************************)
EXTENDS Integers

CONSTANTS
  SectorBytes,     \* 512
  SectorsPerFat,   \* sectors_per_fat, 9 on a 1.44 MB floppy
  Copies,          \* num_fats
  ScanLimit,       \* fat12_allocate_cluster looks below it (4080)
  LastSector,      \* sectors are counted from fat_start_sector
  Table            \* the FAT at mount: media descriptor, free and bad clusters, chains

FatBytes == SectorBytes * SectorsPerFat
Entries == (FatBytes \div 3) * 2   \* in one copy

Sector == 0 .. LastSector
Offset == 0 .. SectorBytes - 1
Byte == 0 .. 255
Value == 0 .. 4095
Entry == 0 .. Entries - 1
Copy == 0 .. Copies - 1
EndMark == 4088      \* 0xFF8: what ends a chain
EndOfChain == 4095
BadCluster == 4087   \* 0xFF7

\* The clusters that files have.
Cluster == Entry \ {0, 1}

\* What a sound FAT says of its clusters: free, bad, last of a chain or followed by
\* another one that is not bad.
Linked(table) ==
  \A c \in Cluster :
    \/ table[c] \in {0, BadCluster} \/ table[c] >= EndMark
    \/ table[c] \in Cluster /\ table[table[c]] # BadCluster

\* FatBytes % 3 = 0 holds of a 1.44 MB floppy: the entries fill a copy
\* to its last byte, so what the scan reads behind the first copy is the second.
ASSUME PackingAssumption ==
  /\ SectorBytes \in Nat \ {0} /\ SectorsPerFat \in Nat \ {0}
  /\ Copies \in Nat /\ Copies >= 2
  /\ ScanLimit \in Nat /\ LastSector \in Nat
  /\ Entries \in 4 .. 4080
  /\ FatBytes % 3 = 0
  /\ ScanLimit <= 2 * Entries /\ Copies * SectorsPerFat <= LastSector
  /\ Table \in [Entry -> Value] /\ Table[0] # 0 /\ Table[1] # 0 /\ Linked(Table)

VARIABLES
  disk,      \* the sectors from fat_start_sector on
  pc,        \* "idle", "write" (write_fat12_fat_bytes), "written", "down" (no power)
  op,        \* whose write it is: "allocate", "link", "free"
  entry,     \* the entry being written
  bytes,     \* its two bytes
  i, f,      \* the loops of write_fat12_fat_bytes: the byte, the copy
  sec_buf,
  next,      \* the entry to write next, if it is a cluster
  fat

write == <<op, entry, bytes, next>>
vars == <<disk, pc, write, i, f, sec_buf, fat>>

-----------------------------------------------------------------------------
(***************************************************************************)
(* Reading.                                                                *)
(***************************************************************************)
ByteAt(d, a) == d[a \div SectorBytes][a % SectorBytes]

\* (cluster * 3) / 2
At(c) == (c * 3) \div 2

Unpacked(c, b0, b1) ==
  IF c % 2 = 1 THEN (b0 + 256 * b1) \div 16 ELSE (b0 + 256 * b1) % 4096

\* fat12_read_fat_entry
ReadEntry(d, c) == Unpacked(c, ByteAt(d, At(c)), ByteAt(d, At(c) + 1))

\* The entry as copy k of the FAT has it.
EntryOf(d, k, c) ==
  Unpacked(c, ByteAt(d, k * FatBytes + At(c)), ByteAt(d, k * FatBytes + At(c) + 1))

\* Mutant: the neighbour's four bits are lost.
Packed_Neighbour(c, b0, b1, value) ==
  IF c % 2 = 1 THEN value * 16 ELSE value

\* fat12_write_fat_entry: the two bytes as a number, the neighbour's bits kept.
Packed(c, b0, b1, value) ==
  IF c % 2 = 1 THEN ((b0 + 256 * b1) % 16) + 16 * value
               ELSE ((b0 + 256 * b1) \div 4096) * 4096 + value

\* What fat12_allocate_cluster looks for.
FreeEntries(d) == {c \in 2 .. ScanLimit - 1 : ReadEntry(d, c) = 0}

-----------------------------------------------------------------------------
(***************************************************************************)
(* Writing.                                                                *)
(***************************************************************************)

\* Byte a of a copy of the FAT.
TableByte(a) ==
  LET even == Table[2 * (a \div 3)]
      odd  == Table[2 * (a \div 3) + 1]
  IN  CASE a % 3 = 0 -> even % 256
        [] a % 3 = 1 -> (even \div 256) + 16 * (odd % 16)
        [] a % 3 = 2 -> odd \div 16

Init ==
  /\ disk = [s \in Sector |->
               [o \in Offset |-> IF s < Copies * SectorsPerFat
                                 THEN TableByte((s % SectorsPerFat) * SectorBytes + o)
                                 ELSE 0]]
  /\ fat = Table
  /\ pc = "idle" /\ op = "free" /\ entry = 2 /\ bytes = <<0, 0>> /\ next = 0
  /\ i = 0 /\ f = 0 /\ sec_buf = [o \in Offset |-> 0]

\* fat12_write_fat_entry up to the call of write_fat12_fat_bytes.
Start(o, c, value, then) ==
  LET word == Packed(c, ByteAt(disk, At(c)), ByteAt(disk, At(c) + 1), value)
  IN  /\ op' = o /\ entry' = c /\ next' = then
      /\ bytes' = <<word % 256, word \div 256>>
      /\ fat' = [fat EXCEPT ![c] = value]
      /\ pc' = "write" /\ i' = 0 /\ f' = 0
      /\ UNCHANGED <<disk, sec_buf>>

\* fat12_allocate_cluster; current is a chain's last cluster, or 0.  With no free
\* entry it returns -1 and changes nothing.
Allocate(current) ==
  /\ pc = "idle"
  /\ \E c \in FreeEntries(disk) :
       /\ \A d \in FreeEntries(disk) : c <= d
       /\ Start("allocate", c, EndOfChain, current)

\* fat12_free_cluster_chain: its loop begins.
FreeChain(start) ==
  /\ pc = "idle"
  /\ Start("free", start, 0, ReadEntry(disk, start))

\* Mutant: the buffer for the copies is taken before the byte is changed.
WriteByte_StaleBuffer ==
  LET a == At(entry) + i
  IN  /\ pc = "write" /\ f = 0
      /\ sec_buf' = disk[a \div SectorBytes]
      /\ disk' = [disk EXCEPT ![a \div SectorBytes][a % SectorBytes] = bytes[i + 1]]
      /\ f' = 1
      /\ UNCHANGED <<pc, write, i, fat>>

\* One sector write: of the first copy, the byte changed ...
WriteByte ==
  LET a == At(entry) + i
  IN  /\ pc = "write" /\ f = 0
      /\ sec_buf' = [disk[a \div SectorBytes] EXCEPT ![a % SectorBytes] = bytes[i + 1]]
      /\ disk' = [disk EXCEPT ![a \div SectorBytes] = sec_buf']
      /\ f' = 1
      /\ UNCHANGED <<pc, write, i, fat>>

\* ... or of another copy.
Duplicate ==
  LET a == At(entry) + i
  IN  /\ pc = "write" /\ f \in 1 .. Copies - 1
      /\ disk' = [disk EXCEPT ![a \div SectorBytes + f * SectorsPerFat] = sec_buf]
      /\ f' = f + 1
      /\ UNCHANGED <<pc, write, i, sec_buf, fat>>

NextByte ==
  /\ pc = "write" /\ f = Copies
  /\ f' = 0
  /\ IF i = 0 THEN i' = 1 /\ UNCHANGED pc ELSE pc' = "written" /\ UNCHANGED i
  /\ UNCHANGED <<disk, write, sec_buf, fat>>

\* The entry is written: the chain's former end is linked to the new cluster, the
\* rest of the chain is freed, or the call returns and its locals are gone.
Link ==
  /\ pc = "written" /\ op = "allocate" /\ next >= 2
  /\ Start("link", next, entry, 0)

\* Mutant: the loop does not move on.
FreeNext_Stays ==
  /\ pc = "written" /\ op = "free" /\ next \in 2 .. EndMark - 1
  /\ Start("free", next, 0, next)

FreeNext ==
  /\ pc = "written" /\ op = "free" /\ next \in 2 .. EndMark - 1
  /\ Start("free", next, 0, ReadEntry(disk, next))

Return ==
  /\ pc = "written"
  /\ CASE op = "allocate" -> next < 2
       [] op = "free" -> next \notin 2 .. EndMark - 1
       [] OTHER -> TRUE
  /\ pc' = "idle" /\ op' = "free" /\ entry' = 2 /\ bytes' = <<0, 0>> /\ next' = 0
  /\ i' = 0 /\ f' = 0 /\ sec_buf' = [o \in Offset |-> 0]
  /\ UNCHANGED <<disk, fat>>

\* The disk is what the next boot finds.
PowerFails ==
  /\ pc \in {"write", "written"}
  /\ pc' = "down"
  /\ UNCHANGED <<disk, write, i, f, sec_buf, fat>>

\* The callers hand in clusters of their files: the end of a chain to extend, and
\* chains to free.
Next ==
  \/ \E c \in Cluster : fat[c] >= EndMark /\ Allocate(c)
  \/ Allocate(0)
  \/ \E c \in Cluster :
       fat[c] \notin {0, BadCluster} /\ (\A e \in Entry : fat[e] # c) /\ FreeChain(c)
  \/ WriteByte \/ Duplicate \/ NextByte
  \/ Link \/ FreeNext \/ Return
  \/ PowerFails

\* The routines run on once they are called, as long as there is power.
Going == WriteByte \/ Duplicate \/ NextByte \/ Link \/ FreeNext \/ Return

Spec == Init /\ [][Next]_vars /\ WF_vars(Going)

-----------------------------------------------------------------------------
(***************************************************************************)
(* Properties.                                                             *)
(***************************************************************************)

TypeOK ==
  /\ disk \in [Sector -> [Offset -> Byte]] /\ sec_buf \in [Offset -> Byte]
  /\ pc \in {"idle", "write", "written", "down"} /\ op \in {"allocate", "link", "free"}
  /\ entry \in Cluster /\ bytes \in Byte \X Byte /\ next \in Value
  /\ i \in 0 .. 1 /\ f \in 0 .. Copies
  /\ fat \in [Entry -> Value]

Writing == pc \in {"write", "down"}

\* Writing an entry leaves its neighbours alone, which share a byte with it, in
\* every copy and also while it is half written or when the power fails: all
\* other entries read as the callers mean them (write_fat12_fat_bytes).
EntriesKept ==
  \A k \in Copy, e \in Entry : (Writing /\ e = entry) \/ EntryOf(disk, k, e) = fat[e]

\* The copies of the FAT differ at most in the one byte that is being written,
\* also when the power fails.
CopiesAgree ==
  \A k \in Copy, a \in 0 .. FatBytes - 1 :
     (Writing /\ a = At(entry) + i) \/ ByteAt(disk, k * FatBytes + a) = ByteAt(disk, a)

\* fat12_allocate_cluster looks further than the first copy of the FAT goes, but
\* what it finds there is never free: no write reaches the sectors behind the
\* copies, where the root directory is.
RootUntouched ==
  [][\A s \in Sector : s >= Copies * SectorsPerFat => disk'[s] = disk[s]]_vars

\* Every call returns, fat12_free_cluster_chain too, unless the power fails.
CallsReturn == (pc = "write") ~> (pc \in {"idle", "down"})
=============================================================================
