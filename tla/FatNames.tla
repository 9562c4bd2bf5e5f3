------------------------------ MODULE FatNames ------------------------------
(***************************************************************************)
(* Names on the disk and in paths: to_fat12_name, from_fat12_name and      *)
(* get_next_path_component of kernel/fat12.c.  A string is a sequence of   *)
(* characters without the 0 at its end.                                    *)
(***************************************************************************)
EXTENDS Integers, Sequences, FiniteSetsExt

CONSTANTS
  NameLength, ExtLength,   \* 8 and 3
  MaxComponent,            \* 255
  Capital                  \* small letters to capital ones

Blank == " "

ASSUME NamesAssumption ==
  /\ NameLength \in Nat \ {0} /\ ExtLength \in Nat \ {0} /\ MaxComponent \in Nat \ {0}
  /\ DOMAIN Capital \cap ({".", Blank, "/"} \cup {Capital[c] : c \in DOMAIN Capital}) = {}
  /\ \A c \in DOMAIN Capital : Capital[c] \notin {".", Blank, "/"}

\* The first n characters in capitals, blanks behind them.
Field(src, n) ==
  [i \in 1 .. n |-> IF i > Len(src) THEN Blank
                    ELSE IF src[i] \in DOMAIN Capital THEN Capital[src[i]] ELSE src[i]]

\* What lies before the first dot, and behind it.
DotAt(src) == Min({i \in DOMAIN src : src[i] = "."} \cup {Len(src) + 1})

\* to_fat12_name
ToFat12Name(src) ==
  [name |-> Field(SubSeq(src, 1, DotAt(src) - 1), NameLength),
   ext |-> Field(SubSeq(src, DotAt(src) + 1, Len(src)), ExtLength)]

\* Without the blanks behind it.
Trimmed(field) == SubSeq(field, 1, Max({i \in DOMAIN field : field[i] # Blank} \cup {0}))

\* from_fat12_name
FromFat12Name(entry) ==
  Trimmed(entry.name) \o
  (IF Trimmed(entry.ext) = <<>> THEN <<>> ELSE <<".">> \o Trimmed(entry.ext))

\* get_next_path_component from offset on: where the component begins and ends, and what
\* it is.  There is none when it would begin behind the path.
Begin(path, offset) == Min({i \in offset .. Len(path) : path[i] # "/"} \cup {Len(path) + 1})

End(path, offset) ==
  Min({i \in Begin(path, offset) .. Len(path) : path[i] = "/"} \cup {Len(path) + 1})

HasNext(path, offset) == Begin(path, offset) <= Len(path)
Component(path, offset) ==
  SubSeq(path, Begin(path, offset),
         Min({End(path, offset) - 1, Begin(path, offset) + MaxComponent - 1}))

\* All of them, in the loop of fat12_find_entry.
Components(path) ==
  LET from[offset \in 1 .. Len(path) + 1] ==
        IF HasNext(path, offset)
        THEN <<Component(path, offset)>> \o from[End(path, offset)] ELSE <<>>
  IN  from[1]
=============================================================================
