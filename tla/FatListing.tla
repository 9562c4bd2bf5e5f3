----------------------------- MODULE FatListing -----------------------------
(***************************************************************************)
(* What fat12_listcontent of kernel/fat12.c hands out: pointers into the   *)
(* ring contents_filenames, which all callers share and which the next     *)
(* names go round in.  Files are opened and removed between listings.      *)
(*                                                                         *)
(* Only the root directory, and of an entry only the name; Fat12 models    *)
(* the tree.                                                               *)
(***************************************************************************)
EXTENDS FatNames

CONSTANTS
  Slots,     \* root_dir_entries
  Ring,      \* 64
  Caller,    \* who keeps the array of its last listing
  Letter,    \* the characters of strings, without the 0 at their end
  Path,      \* what files are called by: "/" and one component
  Count,     \* how many names callers ask for
  Deleted    \* the character 0xE5

Slot == 1 .. Slots
Zero == "zero"    \* the byte 0
End0 == [name |-> [i \in 1 .. NameLength |-> Zero], ext |-> [i \in 1 .. ExtLength |-> Zero]]
None == 0

ASSUME ListingAssumption ==
  /\ Slots \in Nat \ {0} /\ Ring \in Nat \ {0} /\ Count \subseteq Nat
  /\ NameLength + 1 + ExtLength <= MaxComponent
  /\ {".", "/", Blank, Deleted} \subseteq Letter /\ Zero \notin Letter
  /\ Path \subseteq Seq(Letter) /\ Capital \in [DOMAIN Capital -> Letter]
  /\ \A path \in Path : HasNext(path, 1) /\ ~HasNext(path, End(path, 1))

VARIABLES
  dir,                     \* the root directory, End0 where nothing was yet
  contents_filenames,      \* the ring
  contents_filename_idx,
  held,                    \* per caller: pointers, NULL behind them when there was room
  listed,                  \* history: the slots and entries that they show
  since                    \* history: names handed out behind them, counted up to Ring

ring == <<contents_filenames, contents_filename_idx>>
listingVars == <<dir, ring, held, listed, since>>

\* A freshly formatted disk.
ListingInit ==
  /\ dir = [s \in Slot |-> End0]
  /\ contents_filenames = [i \in 0 .. Ring - 1 |-> <<>>] /\ contents_filename_idx = 0
  /\ held = [c \in Caller |-> [names |-> <<>>, ended |-> FALSE]]
  /\ listed = [c \in Caller |-> <<>>] /\ since = [c \in Caller |-> 0]

-----------------------------------------------------------------------------
(***************************************************************************)
(* The directory.                                                          *)
(***************************************************************************)
Ended(d, s) == \E t \in 1 .. s : d[t] = End0
Gone(entry) == entry.name[1] = Deleted

\* Mutant: a search ends at what was removed.
Seen_ToGone(d) == {s \in Slot : ~Ended(d, s) /\ \A t \in 1 .. s : ~Gone(d[t])}

\* The slots that searches and listings see: before the end, and not removed.
Seen(d) == {s \in Slot : ~Ended(d, s) /\ ~Gone(d[s])}

\* fat12_find_entry: the slot, or None.
Find(d, path) ==
  LET entry == ToFat12Name(Component(path, 1))
  IN  Min({s \in Seen(d) : d[s] = entry} \cup {Slots + 1}) % (Slots + 1)

\* fat12_create_entry: the first slot that is free, and the end behind it.
Place(d, entry) ==
  {[d EXCEPT ![s] = entry] : s \in {s \in Slot : (d[s] = End0 \/ Gone(d[s]))
                                     /\ \A t \in 1 .. s - 1 : d[t] # End0 /\ ~Gone(d[t])}}

\* fat12_open of a file that need not exist; -1 when the directory is full.
Open(path) ==
  /\ Find(dir, path) = None
  /\ dir' \in Place(dir, ToFat12Name(Component(path, 1)))
  /\ UNCHANGED <<ring, held, listed, since>>

\* fat12_removefile
RemoveFile(path) ==
  /\ Find(dir, path) # None
  /\ dir' = [dir EXCEPT ![Find(dir, path)].name[1] = Deleted]
  /\ UNCHANGED <<ring, held, listed, since>>

-----------------------------------------------------------------------------
(***************************************************************************)
(* Listing.                                                                *)
(***************************************************************************)
\* Mutant: the index is advanced once for a listing.
HandOut_Once(c, slots, count) ==
  LET place(k) == (contents_filename_idx + k - 1) % Ring
      last(i) == Max({k \in DOMAIN slots : place(k) = i} \cup {0})
  IN  /\ contents_filenames' = [i \in 0 .. Ring - 1 |->
                                  IF last(i) = 0 THEN contents_filenames[i]
                                  ELSE FromFat12Name(dir[slots[last(i)]])]
      /\ contents_filename_idx' = (contents_filename_idx + 1) % Ring
      /\ held' = [held EXCEPT ![c] = [names |-> [k \in DOMAIN slots |-> place(k)],
                                      ended |-> Len(slots) < count]]
      /\ listed' = [listed EXCEPT ![c] = [k \in DOMAIN slots |-> <<slots[k], dir[slots[k]]>>]]
      /\ since' = [d \in Caller |-> IF d = c THEN 0 ELSE Min({since[d] + Len(slots), Ring})]
      /\ UNCHANGED dir

\* The names of the slots, one after the other, into the next places of the ring, for an
\* array with room for count.
HandOut(c, slots, count) ==
  LET place(k) == (contents_filename_idx + k - 1) % Ring
      last(i) == Max({k \in DOMAIN slots : place(k) = i} \cup {0})
  IN  /\ contents_filenames' = [i \in 0 .. Ring - 1 |->
                                  IF last(i) = 0 THEN contents_filenames[i]
                                  ELSE FromFat12Name(dir[slots[last(i)]])]
      /\ contents_filename_idx' = (contents_filename_idx + Len(slots)) % Ring
      /\ held' = [held EXCEPT ![c] = [names |-> [k \in DOMAIN slots |-> place(k)],
                                      ended |-> Len(slots) < count]]
      /\ listed' = [listed EXCEPT ![c] = [k \in DOMAIN slots |-> <<slots[k], dir[slots[k]]>>]]
      /\ since' = [d \in Caller |-> IF d = c THEN 0 ELSE Min({since[d] + Len(slots), Ring})]
      /\ UNCHANGED dir

\* The slots that a listing of the directory shows: the first of those that are seen.
Shown(count) ==
  {slots \in [1 .. Min({count, Cardinality(Seen(dir))}) -> Seen(dir)] :
     /\ \A j, k \in DOMAIN slots : j < k => slots[j] < slots[k]
     /\ \A k \in DOMAIN slots, s \in Seen(dir) : s < slots[k] => \E j \in DOMAIN slots : slots[j] = s}

\* fat12_listcontent of "/" and of a file
ListRoot(c, count) == \E slots \in Shown(count) : HandOut(c, slots, count)
ListFile(c, path, count) ==
  /\ Find(dir, path) # None
  /\ HandOut(c, IF count > 0 THEN <<Find(dir, path)>> ELSE <<>>, count)

ListingNext ==
  \/ \E path \in Path : Open(path) \/ RemoveFile(path)
  \/ \E c \in Caller, count \in Count :
       ListRoot(c, count) \/ \E path \in Path : ListFile(c, path, count)

ListingSpec == ListingInit /\ [][ListingNext]_listingVars

-----------------------------------------------------------------------------
(***************************************************************************)
(* Properties.                                                             *)
(***************************************************************************)
\* The k-th name of a listing is one of the last Ring that were handed out.
Recent(c, k) == Len(listed[c]) - k + 1 + since[c] <= Ring

\* What a caller reads through a pointer.
Name(c, k) == contents_filenames[held[c].names[k]]

\* A name can be read until Ring more have been handed out, to whomever, and leads back to
\* the entry it was listed from as long as that stands; but to none when it is empty.
\* About the ring of fat12_listcontent, with to_fat12_name and from_fat12_name.
ListedOpens ==
  \A c \in Caller : \A k \in DOMAIN listed[c] :
    LET slot == listed[c][k][1]
    IN  Recent(c, k) /\ dir[slot] = listed[c][k][2] =>
          Name(c, k) = <<>> \/ Find(dir, <<"/">> \o Name(c, k)) = slot

\* No two files of a directory have the same name on the disk, whatever they were called
\* and in which order they came and went.  About fat12_find_entry before every
\* fat12_create_entry.
NamesApart == \A s, t \in Seen(dir) : s # t => dir[s] # dir[t]
=============================================================================
