--------------------------- MODULE MC_FatListing ---------------------------
(***************************************************************************)
(* Names that are equal on the disk, cut, empty, and never found again;    *)
(* and what holds of the names in all paths of up to seven characters.     *)
(***************************************************************************)
EXTENDS FatListing, SequencesExt

MCCapital == [c \in {"a"} |-> "A"]
MCLetter == {"a", "A", "b", "c", "x", ".", " ", "/"}
MCPath == {<<"/", "a", ".", "b">>, <<"A", ".", "b", "c">>, <<".">>, <<"x">>}
Callers == Permutations(Caller)

Paths == BoundedSeq({"a", "A", ".", " ", "/"}, 7)

\* What lies between slashes in s from i to j.
IsPart(s, i, j) ==
  /\ \A k \in i .. j : s[k] # "/"
  /\ i > 1 => s[i - 1] = "/"
  /\ j < Len(s) => s[j + 1] = "/"

\* What lies between the slashes, each once and in order, cut to the buffer.
Parts(s) ==
  LET ends == {p \in (DOMAIN s) \X (DOMAIN s) : p[1] <= p[2] /\ IsPart(s, p[1], p[2])}
      sorted == SetToSortSeq(ends, LAMBDA p, q : p[1] < q[1])
  IN  [n \in DOMAIN sorted |->
         SubSeq(s, sorted[n][1], Min({sorted[n][2], sorted[n][1] + MaxComponent - 1}))]

\* A name that fits, in capitals and without blanks.
Fits(s) ==
  /\ \A i \in DOMAIN s : s[i] # " " /\ s[i] \notin DOMAIN Capital
  /\ DotAt(s) - 1 \in 1 .. NameLength
  /\ DotAt(s) <= Len(s) => Len(s) - DotAt(s) \in 1 .. ExtLength

\* A path is taken apart at its slashes, however many there are.
ASSUME TakenApart == \A path \in Paths : Components(path) = Parts(path)

\* The name that a listing shows leads to the entry it was made from, whatever that was
\* created with: cut, with several dots, with blanks.
ASSUME ShownOpens ==
  \A path \in Paths : \A i \in DOMAIN Components(path) :
    LET entry == ToFat12Name(Components(path)[i])
    IN  ToFat12Name(FromFat12Name(entry)) = entry

\* And one that fits is shown as it was given.
ASSUME ShownAsGiven ==
  \A path \in Paths : \A i \in DOMAIN Components(path) :
    LET name == Components(path)[i]
    IN  Fits(name) => FromFat12Name(ToFat12Name(name)) = name
=============================================================================
