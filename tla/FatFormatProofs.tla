-------------------------- MODULE FatFormatProofs --------------------------
(***************************************************************************)
(* Theorems about how FAT12 keeps things on the disk: names and listings   *)
(* (FatNames, FatListing), and the FAT itself (FatPacking).                *)
(*                                                                         *)
(* Names and listings, for names and directories of any length and any     *)
(* ring: a name that a listing shows leads back to its entry, and no two   *)
(* files have the same name.                                               *)
(*                                                                         *)
(* The packed FAT, for every size of a sector, number of sectors and       *)
(* copies, and every sound table found at mount.  The disk is looked at    *)
(* byte by byte: FatByte(d, k, a) is byte a of copy k.  Every sector write *)
(* changes one such byte (Stored), and the entries that the byte does not  *)
(* belong to, or only with four bits that stay, keep their value           *)
(* (OthersKept).                                                           *)
(***************************************************************************)
EXTENDS FatListing, FatPacking, FiniteSetTheorems, TLAPS

-----------------------------------------------------------------------------
(***************************************************************************)
(* The smallest and the largest.                                           *)
(***************************************************************************)
\* A set of numbers has a smallest one.
LEMMA MinOf ==
  ASSUME NEW S \in SUBSET Nat, NEW a \in S
  PROVE  Min(S) \in S /\ \A y \in S : Min(S) <= y
<1>1. PICK x \in S : \A y \in S : ~(<<y, x>> \in OpToRel(<, Nat))
  BY NatLessThanWellFounded, WFMin
<1>2. ASSUME NEW y \in S PROVE x <= y
  <2>1. ~(y < x)
    <3>1. ASSUME y < x PROVE <<y, x>> \in OpToRel(<, Nat)
      BY <3>1 DEF OpToRel
    <3> QED BY <1>1, <3>1
  <2> QED BY <2>1
<1>3. \E z \in S : \A y \in S : z <= y
  BY <1>2
<1> QED BY <1>3 DEF Min

\* One with a bound has a largest one.
LEMMA MaxOf ==
  ASSUME NEW n \in Nat, NEW S \in SUBSET (0 .. n), NEW a \in S
  PROVE  Max(S) \in S /\ \A y \in S : y <= Max(S)
<1> DEFINE T == {n - x : x \in S}
<1>1. T \in SUBSET Nat /\ n - a \in T
  OBVIOUS
<1>2. Min(T) \in T /\ \A t \in T : Min(T) <= t
  <2> HIDE DEF T
  <2> QED BY <1>1, MinOf
<1>3. PICK x \in S : Min(T) = n - x
  BY <1>2
<1>4. ASSUME NEW y \in S PROVE x >= y
  <2>1. n - y \in T
    OBVIOUS
  <2>2. n - x <= n - y
    BY <1>2, <1>3, <2>1
  <2> QED BY <2>2
<1>5. \E z \in S : \A y \in S : z >= y
  BY <1>4
<1>6. Max(S) \in S /\ \A y \in S : Max(S) >= y
  BY <1>5 DEF Max
<1> QED BY <1>6

\* What Min and Max find in a sequence, with the place behind or before it.
LEMMA FirstOf ==
  ASSUME NEW n \in Nat, NEW S, S \subseteq 1 .. n
  PROVE  LET m == Min(S \cup {n + 1})
         IN  /\ m \in 1 .. n + 1 /\ (m <= n => m \in S)
             /\ \A j \in 1 .. n : j < m => j \notin S
<1>1. S \cup {n + 1} \in SUBSET Nat /\ n + 1 \in S \cup {n + 1}
  OBVIOUS
<1>2. PICK T \in SUBSET Nat : T = S \cup {n + 1}
  BY <1>1
<1>3. n + 1 \in T
  BY <1>2
<1>4. Min(T) \in T /\ \A y \in T : Min(T) <= y
  BY <1>3, MinOf
<1>5. PICK m \in Nat : m = Min(T)
  BY <1>4
<1>6. m \in T /\ \A y \in T : m <= y
  BY <1>4, <1>5
<1>7. m \in 1 .. n + 1 /\ (m <= n => m \in S)
  BY <1>2, <1>6
<1>8. \A j \in 1 .. n : j < m => j \notin S
  BY <1>2, <1>6
<1> QED BY <1>2, <1>5, <1>7, <1>8

\* And the last, or 0.
LEMMA LastOf ==
  ASSUME NEW n \in Nat, NEW S, S \subseteq 1 .. n
  PROVE  LET m == Max(S \cup {0})
         IN  /\ m \in 0 .. n /\ (m # 0 => m \in S)
             /\ \A j \in 1 .. n : j > m => j \notin S
<1>1. PICK T \in SUBSET (0 .. n) : T = S \cup {0}
  <2>1. \A x \in S \cup {0} : x \in 0 .. n
    OBVIOUS
  <2>2. S \cup {0} \in SUBSET (0 .. n)
    BY <2>1
  <2> QED BY <2>2
<1>2. 0 \in T
  BY <1>1
<1>3. Max(T) \in T /\ \A y \in T : y <= Max(T)
  BY <1>2, MaxOf
<1>4. PICK m \in 0 .. n : m = Max(T)
  BY <1>3
<1>5. m \in T /\ \A y \in T : y <= m
  BY <1>3, <1>4
<1>6. m # 0 => m \in S
  BY <1>1, <1>5
<1>7. \A j \in 1 .. n : j > m => j \notin S
  BY <1>1, <1>5
<1> QED BY <1>1, <1>4, <1>6, <1>7

-----------------------------------------------------------------------------
(***************************************************************************)
(* Names.  A field holds capitals, with blanks behind them; a dot lies     *)
(* only in the extension.                                                  *)
(***************************************************************************)
StoredLetter == {c \in Letter : c # "/" /\ c \notin DOMAIN Capital}
Plain == {e \in [name : [1 .. NameLength -> StoredLetter], ext : [1 .. ExtLength -> StoredLetter]] :
            \A j \in 1 .. NameLength : e.name[j] # "."}

\* The characters of a component, without slashes.
Word == Seq(Letter \ {"/"})

\* A field of a name on the disk holds capitals and blanks.
LEMMA FieldStored ==
  ASSUME NEW src \in Word, NEW n \in Nat
  PROVE  /\ Field(src, n) \in [1 .. n -> StoredLetter]
         /\ (\A j \in 1 .. Len(src) : src[j] # ".") => \A j \in 1 .. n : Field(src, n)[j] # "."
<1>1. PICK h : h = Field(src, n)
  OBVIOUS
<1>2. h = [j \in 1 .. n |-> IF j > Len(src) THEN Blank
                            ELSE IF src[j] \in DOMAIN Capital THEN Capital[src[j]] ELSE src[j]]
  BY <1>1 DEF Field
<1>3. Len(src) \in Nat /\ \A j \in 1 .. Len(src) : src[j] \in Letter /\ src[j] # "/"
  BY DEF Word
<1>4. Blank \in StoredLetter /\ Blank # "." /\ \A c \in DOMAIN Capital : Capital[c] \in StoredLetter /\ Capital[c] # "."
  <2>1. Blank \in Letter /\ Blank # "/" /\ Blank \notin DOMAIN Capital
    <3>1. Blank \notin DOMAIN Capital
      BY NamesAssumption
    <3>2. Blank \in Letter
      BY ListingAssumption
    <3>3. Blank # "/"
      BY DEF Blank
    <3> QED BY <3>1, <3>2, <3>3
  <2>2. ASSUME NEW c \in DOMAIN Capital
        PROVE  Capital[c] \in Letter /\ Capital[c] # "/" /\ Capital[c] \notin DOMAIN Capital
               /\ Capital[c] # "."
    <3>1. Capital[c] \in Letter
      BY ListingAssumption
    <3>2. Capital[c] \notin {".", Blank, "/"} /\ Capital[c] \notin DOMAIN Capital
      BY NamesAssumption
    <3> QED BY <3>1, <3>2
  <2>3. Blank # "."
    BY DEF Blank
  <2> QED BY <2>1, <2>2, <2>3 DEF StoredLetter
<1>5. ASSUME NEW j \in 1 .. n
      PROVE  h[j] \in StoredLetter /\ ((\A k \in 1 .. Len(src) : src[k] # ".") => h[j] # ".")
  <2>1. CASE j > Len(src)
    BY <1>2, <1>4, <2>1
  <2>2. CASE ~(j > Len(src)) /\ src[j] \in DOMAIN Capital
    BY <1>2, <1>4, <2>2
  <2>3. CASE ~(j > Len(src)) /\ src[j] \notin DOMAIN Capital
    <3>1. h[j] = src[j]
      BY <1>2, <2>3
    <3>2. j \in 1 .. Len(src)
      BY <1>3, <2>3
    <3> QED BY <1>3, <2>3, <3>1, <3>2 DEF StoredLetter
  <2> QED BY <2>1, <2>2, <2>3
<1>6. h \in [1 .. n -> StoredLetter]
  BY <1>2, <1>5
<1> QED BY <1>1, <1>5, <1>6

\* The first dot, or the place behind the name when it has none.
LEMMA Dot ==
  ASSUME NEW src \in Seq(Letter)
  PROVE  /\ DotAt(src) \in 1 .. Len(src) + 1
         /\ DotAt(src) <= Len(src) => src[DotAt(src)] = "."
         /\ \A j \in 1 .. Len(src) : j < DotAt(src) => src[j] # "."
<1>1. Len(src) \in Nat /\ DOMAIN src = 1 .. Len(src)
  OBVIOUS
<1>2. PICK S : S = {j \in 1 .. Len(src) : src[j] = "."}
  OBVIOUS
<1>3. DotAt(src) = Min(S \cup {Len(src) + 1})
  BY <1>1, <1>2 DEF DotAt
<1>4. PICK m : m = DotAt(src)
  OBVIOUS
<1>5. /\ m \in 1 .. Len(src) + 1 /\ (m <= Len(src) => m \in S)
      /\ \A j \in 1 .. Len(src) : j < m => j \notin S
  <2>1. PICK n \in Nat : n = Len(src) /\ S \subseteq 1 .. n
    BY <1>1, <1>2
  <2>2. m = Min(S \cup {n + 1})
    BY <1>3, <1>4, <2>1
  <2> HIDE <1>2
  <2>3. /\ m \in 1 .. n + 1 /\ (m <= n => m \in S)
        /\ \A j \in 1 .. n : j < m => j \notin S
    BY <2>1, <2>2, FirstOf
  <2> QED BY <2>1, <2>3
<1> QED BY <1>2, <1>4, <1>5

\* A part of a name.
LEMMA Part ==
  ASSUME NEW C, NEW src \in Seq(C), NEW m \in Nat, NEW n \in Nat, m >= 1, n <= Len(src)
  PROVE  /\ SubSeq(src, m, n) \in Seq(C)
         /\ Len(SubSeq(src, m, n)) = IF m <= n THEN n - m + 1 ELSE 0
         /\ \A j \in 1 .. n - m + 1 : SubSeq(src, m, n)[j] = src[m + j - 1]
OBVIOUS

\* Two names, one behind the other.
LEMMA Both ==
  ASSUME NEW C, NEW s \in Seq(C), NEW t \in Seq(C)
  PROVE  /\ s \o t \in Seq(C) /\ Len(s \o t) = Len(s) + Len(t)
         /\ \A j \in 1 .. Len(s) : (s \o t)[j] = s[j]
         /\ \A j \in 1 .. Len(t) : (s \o t)[Len(s) + j] = t[j]
OBVIOUS

\* A function of numbers up to n is a sequence of that length.
LEMMA Listed ==
  ASSUME NEW C, NEW n \in Nat, NEW h \in [1 .. n -> C]
  PROVE  h \in Seq(C) /\ Len(h) = n
OBVIOUS

\* to_fat12_name gives an record.
LEMMA ToEntry ==
  ASSUME NEW src \in Word
  PROVE  ToFat12Name(src) \in Plain
<1>1. src \in Seq(Letter) /\ Len(src) \in Nat
  BY DEF Word
<1>2. PICK d \in 1 .. Len(src) + 1 :
        d = DotAt(src) /\ \A j \in 1 .. Len(src) : j < d => src[j] # "."
  BY <1>1, Dot
<1>3. PICK front \in Word : front = SubSeq(src, 1, d - 1) /\ \A j \in 1 .. Len(front) : front[j] # "."
  <2>1. PICK n \in Nat : n = d - 1 /\ n <= Len(src)
    BY <1>1, <1>2
  <2>2. /\ SubSeq(src, 1, n) \in Word /\ Len(SubSeq(src, 1, n)) = n
        /\ \A j \in 1 .. n : SubSeq(src, 1, n)[j] = src[j]
    BY <1>1, <2>1 DEF Word
  <2>3. PICK front : front = SubSeq(src, 1, n)
    OBVIOUS
  <2>4. front \in Word /\ \A j \in 1 .. Len(front) : front[j] # "."
    BY <1>1, <1>2, <2>1, <2>2, <2>3
  <2> QED BY <2>1, <2>3, <2>4
<1>4. PICK back \in Word : back = SubSeq(src, d + 1, Len(src))
  <2>1. PICK m \in Nat : m = d + 1 /\ m >= 1
    BY <1>1, <1>2
  <2>2. SubSeq(src, m, Len(src)) \in Word
    BY <1>1, <2>1, Part DEF Word
  <2> QED BY <2>1, <2>2
<1>5. ToFat12Name(src) = [name |-> Field(front, NameLength), ext |-> Field(back, ExtLength)]
  BY <1>2, <1>3, <1>4 DEF ToFat12Name
<1>6. /\ Field(front, NameLength) \in [1 .. NameLength -> StoredLetter]
      /\ \A j \in 1 .. NameLength : Field(front, NameLength)[j] # "."
  BY <1>3, FieldStored, NamesAssumption
<1>7. Field(back, ExtLength) \in [1 .. ExtLength -> StoredLetter]
  BY FieldStored, NamesAssumption
<1>8. PICK e : e = ToFat12Name(src)
  OBVIOUS
<1>9. e \in [name : [1 .. NameLength -> StoredLetter], ext : [1 .. ExtLength -> StoredLetter]]
  BY <1>5, <1>6, <1>7, <1>8
<1>10. \A j \in 1 .. NameLength : e.name[j] # "."
  BY <1>5, <1>6, <1>8
<1> QED BY <1>8, <1>9, <1>10 DEF Plain

\* Without its blanks, a field is its beginning.
LEMMA TrimmedIs ==
  ASSUME NEW n \in Nat, NEW h \in [1 .. n -> StoredLetter]
  PROVE  \E m \in 0 .. n :
           /\ Trimmed(h) \in Seq(StoredLetter) /\ Len(Trimmed(h)) = m
           /\ \A j \in 1 .. m : Trimmed(h)[j] = h[j]
           /\ \A j \in m + 1 .. n : h[j] = Blank
<1>1. PICK S : S = {j \in 1 .. n : h[j] # Blank}
  OBVIOUS
<1>2. PICK m \in 0 .. n : m = Max(S \cup {0}) /\ \A j \in 1 .. n : j > m => j \notin S
  <2>1. S \subseteq 1 .. n
    BY <1>1
  <2> QED BY <2>1, LastOf
<1>3. Trimmed(h) = SubSeq(h, 1, m)
  BY <1>1, <1>2 DEF Trimmed
<1>4. h \in Seq(StoredLetter) /\ Len(h) = n
  OBVIOUS
<1>5. /\ SubSeq(h, 1, m) \in Seq(StoredLetter) /\ Len(SubSeq(h, 1, m)) = m
      /\ \A j \in 1 .. m : SubSeq(h, 1, m)[j] = h[j]
  BY <1>4
<1>6. ASSUME NEW j \in m + 1 .. n PROVE h[j] = Blank
  <2>1. j \in 1 .. n /\ j > m
    OBVIOUS
  <2>2. j \notin S
    BY <1>2, <2>1
  <2> QED BY <1>1, <2>1, <2>2
<1> QED BY <1>3, <1>5, <1>6

\* Capitals are taken as they are, and the blanks come back.
LEMMA Padded ==
  ASSUME NEW n \in Nat, NEW h \in [1 .. n -> StoredLetter], NEW w \in Seq(StoredLetter), Len(w) <= n,
         \A j \in 1 .. Len(w) : w[j] = h[j], \A j \in Len(w) + 1 .. n : h[j] = Blank
  PROVE  Field(w, n) = h
<1>1. Len(w) \in Nat
  OBVIOUS
<1>2. PICK g : g = [j \in 1 .. n |-> IF j > Len(w) THEN Blank
                                     ELSE IF w[j] \in DOMAIN Capital THEN Capital[w[j]] ELSE w[j]]
  OBVIOUS
<1>3. ASSUME NEW j \in 1 .. n PROVE g[j] = h[j]
  <2>1. CASE j > Len(w)
    <3>1. j \in Len(w) + 1 .. n
      BY <1>1, <2>1
    <3> QED BY <1>2, <2>1, <3>1
  <2>2. CASE ~(j > Len(w))
    <3>1. j \in 1 .. Len(w)
      BY <1>1, <2>2
    <3>2. w[j] = h[j] /\ h[j] \in StoredLetter
      BY <3>1
    <3>3. w[j] \notin DOMAIN Capital
      BY <3>2 DEF StoredLetter
    <3> QED BY <1>2, <2>2, <3>2, <3>3
  <2> QED BY <2>1, <2>2
<1>4. g = h
  BY <1>2, <1>3
<1> QED BY <1>2, <1>4 DEF Field

\* The name of an record is short, and without slashes.
LEMMA NameOf ==
  ASSUME NEW e \in Plain
  PROVE  FromFat12Name(e) \in Word /\ Len(FromFat12Name(e)) <= MaxComponent
<1>1. /\ e.name \in [1 .. NameLength -> StoredLetter] /\ e.ext \in [1 .. ExtLength -> StoredLetter]
      /\ NameLength \in Nat /\ ExtLength \in Nat /\ MaxComponent \in Nat
  BY NamesAssumption DEF Plain
<1>2. PICK a \in Seq(StoredLetter) : a = Trimmed(e.name) /\ Len(a) <= NameLength
  <2>1. PICK m \in 0 .. NameLength :
          /\ Trimmed(e.name) \in Seq(StoredLetter) /\ Len(Trimmed(e.name)) = m
          /\ \A j \in 1 .. m : Trimmed(e.name)[j] = e.name[j]
          /\ \A j \in m + 1 .. NameLength : e.name[j] = Blank
    BY <1>1, TrimmedIs
  <2> QED BY <1>1, <2>1
<1>3. PICK b \in Seq(StoredLetter) : b = Trimmed(e.ext) /\ Len(b) <= ExtLength
  <2>1. PICK m \in 0 .. ExtLength :
          /\ Trimmed(e.ext) \in Seq(StoredLetter) /\ Len(Trimmed(e.ext)) = m
          /\ \A j \in 1 .. m : Trimmed(e.ext)[j] = e.ext[j]
          /\ \A j \in m + 1 .. ExtLength : e.ext[j] = Blank
    BY <1>1, TrimmedIs
  <2> QED BY <1>1, <2>1
<1>4. StoredLetter \subseteq Letter \ {"/"} /\ "." \in Letter \ {"/"}
  BY ListingAssumption DEF StoredLetter
<1>5. a \in Word /\ b \in Word
  BY <1>4 DEF Word
<1>6. PICK tail \in Word : /\ tail = IF b = <<>> THEN <<>> ELSE <<".">> \o b
                           /\ Len(tail) <= 1 + ExtLength
  <2>1. CASE b = <<>>
    <3>1. <<>> \in Word /\ Len(<<>>) = 0
      BY DEF Word
    <3> QED BY <1>1, <2>1, <3>1
  <2>2. CASE b # <<>>
    <3>1. <<".">> \in Word /\ Len(<<".">>) = 1
      BY <1>4 DEF Word
    <3>2. <<".">> \o b \in Word /\ Len(<<".">> \o b) = 1 + Len(b)
      BY <1>5, <3>1 DEF Word
    <3>3. Len(b) \in Nat
      OBVIOUS
    <3>4. PICK t : t = <<".">> \o b
      OBVIOUS
    <3>5. t \in Word /\ Len(t) <= 1 + ExtLength
      BY <1>1, <1>3, <3>2, <3>3, <3>4
    <3> QED BY <2>2, <3>4, <3>5
  <2> QED BY <2>1, <2>2
<1>7. FromFat12Name(e) = a \o tail
  BY <1>2, <1>3, <1>6 DEF FromFat12Name
<1>8. a \o tail \in Word /\ Len(a \o tail) = Len(a) + Len(tail) /\ Len(a) \in Nat /\ Len(tail) \in Nat
  BY <1>5 DEF Word
<1>9. Len(a) + Len(tail) <= MaxComponent
  <2>1. Len(a) <= NameLength /\ Len(tail) <= 1 + ExtLength /\ Len(a) \in Nat /\ Len(tail) \in Nat
    BY <1>2, <1>6, <1>8
  <2>2. PICK m \in Nat, n \in Nat : m = Len(a) /\ n = Len(tail)
    BY <2>1
  <2>3. m <= NameLength /\ n <= 1 + ExtLength
    BY <2>1, <2>2
  <2>4. NameLength + 1 + ExtLength <= MaxComponent
    BY ListingAssumption
  <2>5. m + n <= MaxComponent
    BY <1>1, <2>3, <2>4
  <2> QED BY <2>2, <2>5
<1> QED BY <1>7, <1>8, <1>9

\* A name that is a, and then nothing or a dot and b.
Joined(s, a, b) ==
  /\ b = <<>> => s = a
  /\ b # <<>> => /\ Len(s) = Len(a) + 1 + Len(b) /\ s[Len(a) + 1] = "."
                 /\ \A j \in 1 .. Len(a) : s[j] = a[j]
                 /\ \A j \in 1 .. Len(b) : s[Len(a) + 1 + j] = b[j]

\* What from_fat12_name makes of an record: its two halves without their blanks, and a dot
\* between them when there is an extension.
LEMMA NameJoined ==
  ASSUME NEW a \in Seq(StoredLetter), NEW b \in Seq(StoredLetter)
  PROVE  Joined(a \o (IF b = <<>> THEN <<>> ELSE <<".">> \o b), a, b)
<1>1. Len(a) \in Nat /\ Len(b) \in Nat /\ a \in Seq(Letter) /\ b \in Seq(Letter)
  BY DEF StoredLetter
<1>2. CASE b = <<>>
  <2>1. a \o <<>> = a
    OBVIOUS
  <2> QED BY <1>2, <2>1 DEF Joined
<1>3. CASE b # <<>>
  <2>1. <<".">> \in Seq(Letter)
    BY ListingAssumption
  <2>2. PICK u \in Seq(Letter) : u = <<".">> /\ Len(u) = 1 /\ u[1] = "."
    BY <2>1
  <2>3. PICK t : t = u \o b
    OBVIOUS
  <2>4. t \in Seq(Letter) /\ Len(t) = 1 + Len(b)
    BY <1>1, <2>2, <2>3
  <2>5. t[1] = "."
    BY <1>1, <2>2, <2>3
  <2>6. \A j \in 1 .. Len(b) : t[1 + j] = b[j]
    BY <1>1, <2>2, <2>3
  <2>7. PICK s : s = a \o t
    OBVIOUS
  <2>8. Len(s) = Len(a) + 1 + Len(b)
    <3>1. Len(s) = Len(a) + Len(t)
      BY <1>1, <2>4, <2>7, Both, Zenon
    <3>2. PICK n \in Nat : n = Len(s) /\ n = Len(a) + (1 + Len(b))
      BY <1>1, <2>4, <3>1
    <3> QED BY <1>1, <3>2
  <2>9. \A j \in 1 .. Len(a) : s[j] = a[j]
    BY <1>1, <2>4, <2>7
  <2>10. \A j \in 1 .. Len(t) : s[Len(a) + j] = t[j]
    BY <1>1, <2>4, <2>7
  <2>11. s[Len(a) + 1] = "."
    <3>1. 1 \in 1 .. Len(t)
      BY <1>1, <2>4
    <3> QED BY <2>5, <2>10, <3>1
  <2>12. \A j \in 1 .. Len(b) : s[Len(a) + 1 + j] = b[j]
    <3>1. TAKE j \in 1 .. Len(b)
    <3>2. PICK k \in 1 .. Len(t) : k = 1 + j
      BY <1>1, <2>4
    <3>3. s[Len(a) + k] = t[k] /\ Len(a) + k = Len(a) + 1 + j
      BY <1>1, <2>10, <3>2
    <3> QED BY <2>6, <3>2, <3>3
  <2>13. Joined(s, a, b)
    BY <1>3, <2>8, <2>9, <2>11, <2>12 DEF Joined
  <2> QED BY <1>3, <2>2, <2>3, <2>7, <2>13
<1> QED BY <1>2, <1>3

\* In such a name, a lies before the first dot, and b behind it.
LEMMA Halves ==
  ASSUME NEW a \in Seq(StoredLetter), NEW b \in Seq(StoredLetter), \A j \in 1 .. Len(a) : a[j] # ".",
         NEW s \in Seq(Letter), Joined(s, a, b)
  PROVE  /\ SubSeq(s, 1, DotAt(s) - 1) = a
         /\ SubSeq(s, DotAt(s) + 1, Len(s)) = b
<1>1. /\ Len(a) \in Nat /\ Len(b) \in Nat /\ Len(s) \in Nat
      /\ a \in Seq(Letter) /\ b \in Seq(Letter)
  BY DEF StoredLetter
<1>2. PICK d \in 1 .. Len(s) + 1 :
        /\ d = DotAt(s)
        /\ d <= Len(s) => s[d] = "."
        /\ \A j \in 1 .. Len(s) : j < d => s[j] # "."
  BY Dot
<1>3. CASE b = <<>>
  <2>1. s = a
    BY <1>3 DEF Joined
  <2>2. d = Len(a) + 1
    <3>1. ~(d <= Len(s))
      <4>1. ASSUME d <= Len(s) PROVE FALSE
        <5>1. d \in 1 .. Len(a) /\ a[d] = "."
          BY <1>1, <1>2, <2>1, <4>1
        <5> QED BY <5>1
      <4> QED BY <4>1
    <3> QED BY <1>1, <1>2, <2>1, <3>1
  <2>3. SubSeq(s, 1, d - 1) = a
    BY <1>1, <2>1, <2>2
  <2>4. SubSeq(s, d + 1, Len(s)) = <<>>
    BY <1>1, <2>1, <2>2
  <2> QED BY <1>2, <1>3, <2>3, <2>4
<1>4. CASE b # <<>>
  <2>1. Len(s) = Len(a) + 1 + Len(b) /\ s[Len(a) + 1] = "."
    BY <1>4 DEF Joined
  <2>2. \A j \in 1 .. Len(a) : s[j] = a[j]
    BY <1>4 DEF Joined
  <2>3. \A j \in 1 .. Len(b) : s[Len(a) + 1 + j] = b[j]
    BY <1>4 DEF Joined
  <2>4. d = Len(a) + 1
    <3>1. ASSUME d > Len(a) + 1 PROVE FALSE
      <4>1. Len(a) + 1 \in 1 .. Len(s) /\ Len(a) + 1 < d
        BY <1>1, <2>1, <3>1
      <4> QED BY <1>2, <2>1, <4>1
    <3>2. ASSUME d <= Len(a) PROVE FALSE
      <4>1. d \in 1 .. Len(a) /\ d <= Len(s)
        BY <1>1, <2>1, <3>2
      <4> QED BY <1>2, <2>2, <4>1
    <3> QED BY <1>1, <1>2, <3>1, <3>2
  <2>5. SubSeq(s, 1, d - 1) = a
    <3>1. PICK n \in Nat : n = d - 1 /\ n = Len(a) /\ n <= Len(s)
      BY <1>1, <2>1, <2>4
    <3>2. /\ SubSeq(s, 1, n) \in Seq(Letter) /\ Len(SubSeq(s, 1, n)) = n
          /\ \A j \in 1 .. n : SubSeq(s, 1, n)[j] = s[j]
      BY <1>1, <3>1
    <3>3. PICK v : v = SubSeq(s, 1, n)
      OBVIOUS
    <3>4. v \in Seq(Letter) /\ Len(v) = Len(a) /\ \A j \in 1 .. Len(a) : v[j] = a[j]
      BY <2>2, <3>1, <3>2, <3>3
    <3>5. v = a
      BY <1>1, <3>4
    <3> QED BY <3>1, <3>3, <3>5
  <2>6. SubSeq(s, d + 1, Len(s)) = b
    <3>1. PICK m \in Nat, n \in Nat : m = d + 1 /\ n = Len(s) /\ m >= 1 /\ m = Len(a) + 2
      BY <1>1, <2>4
    <3>2. n <= Len(s)
      BY <1>1, <3>1
    <3>3. /\ SubSeq(s, m, n) \in Seq(Letter)
          /\ Len(SubSeq(s, m, n)) = IF m <= n THEN n - m + 1 ELSE 0
          /\ \A j \in 1 .. n - m + 1 : SubSeq(s, m, n)[j] = s[m + j - 1]
      BY <3>1, <3>2, Part
    <3>4. PICK v : v = SubSeq(s, m, n)
      OBVIOUS
    <3>5. n - m + 1 = Len(b)
      <4>1. PICK p \in Nat, q \in Nat : p = Len(a) /\ q = Len(b)
        BY <1>1
      <4>2. n = p + 1 + q /\ m = p + 2
        BY <2>1, <3>1, <4>1
      <4>3. n - m + 1 = q
        BY <4>2
      <4> QED BY <4>1, <4>3
    <3>6. Len(v) = Len(b)
      <4>1. Len(v) = IF m <= n THEN n - m + 1 ELSE 0
        BY <3>3, <3>4
      <4>2. ~(m <= n) => n - m + 1 = 0
        <5>1. n - m + 1 >= 0
          BY <1>1, <3>5
        <5> QED BY <3>1, <5>1
      <4> QED BY <3>5, <4>1, <4>2
    <3>7. \A j \in 1 .. Len(b) : v[j] = b[j]
      <4>1. TAKE j \in 1 .. Len(b)
      <4>2. v[j] = s[m + j - 1]
        BY <3>3, <3>4, <3>5
      <4>3. m + j - 1 = Len(a) + 1 + j
        BY <1>1, <3>1, SMTT(30)
      <4> QED BY <2>3, <4>2, <4>3
    <3>8. v \in Seq(Letter)
      BY <3>3, <3>4
    <3>9. v = b
      BY <1>1, <3>6, <3>7, <3>8
    <3> QED BY <3>1, <3>4, <3>9
  <2> QED BY <1>2, <2>5, <2>6
<1> QED BY <1>3, <1>4

\* The name that a listing shows leads to the record it was made from.
LEMMA RoundTrip ==
  ASSUME NEW e \in Plain
  PROVE  ToFat12Name(FromFat12Name(e)) = e
<1>1. /\ e.name \in [1 .. NameLength -> StoredLetter] /\ e.ext \in [1 .. ExtLength -> StoredLetter]
      /\ e = [name |-> e.name, ext |-> e.ext]
      /\ \A j \in 1 .. NameLength : e.name[j] # "."
      /\ NameLength \in Nat /\ ExtLength \in Nat
  BY NamesAssumption DEF Plain
<1>2. PICK a \in Seq(StoredLetter) :
        /\ a = Trimmed(e.name) /\ Len(a) <= NameLength /\ \A j \in 1 .. Len(a) : a[j] = e.name[j]
        /\ \A j \in Len(a) + 1 .. NameLength : e.name[j] = Blank
  <2>1. PICK m \in 0 .. NameLength :
          /\ Trimmed(e.name) \in Seq(StoredLetter) /\ Len(Trimmed(e.name)) = m
          /\ \A j \in 1 .. m : Trimmed(e.name)[j] = e.name[j]
          /\ \A j \in m + 1 .. NameLength : e.name[j] = Blank
    BY <1>1, TrimmedIs
  <2>2. m <= NameLength
    BY <1>1
  <2> QED BY <2>1, <2>2
<1>3. PICK b \in Seq(StoredLetter) :
        /\ b = Trimmed(e.ext) /\ Len(b) <= ExtLength /\ \A j \in 1 .. Len(b) : b[j] = e.ext[j]
        /\ \A j \in Len(b) + 1 .. ExtLength : e.ext[j] = Blank
  <2>1. PICK m \in 0 .. ExtLength :
          /\ Trimmed(e.ext) \in Seq(StoredLetter) /\ Len(Trimmed(e.ext)) = m
          /\ \A j \in 1 .. m : Trimmed(e.ext)[j] = e.ext[j]
          /\ \A j \in m + 1 .. ExtLength : e.ext[j] = Blank
    BY <1>1, TrimmedIs
  <2>2. m <= ExtLength
    BY <1>1
  <2> QED BY <2>1, <2>2
<1>4. PICK s : s = FromFat12Name(e)
  OBVIOUS
<1>5. s \in Seq(Letter)
  BY <1>4, NameOf DEF Word
<1>6. s = a \o (IF b = <<>> THEN <<>> ELSE <<".">> \o b)
  BY <1>2, <1>3, <1>4 DEF FromFat12Name
<1>7. \A j \in 1 .. Len(a) : a[j] # "."
  <2>1. TAKE j \in 1 .. Len(a)
  <2>2. Len(a) \in Nat /\ j \in 1 .. NameLength
    BY <1>1, <1>2
  <2> QED BY <1>1, <1>2, <2>2
<1>8. SubSeq(s, 1, DotAt(s) - 1) = a /\ SubSeq(s, DotAt(s) + 1, Len(s)) = b
  <2>1. Joined(s, a, b)
    BY <1>6, NameJoined
  <2> QED BY <1>5, <1>7, <2>1, Halves
<1>9. Field(a, NameLength) = e.name
  BY <1>1, <1>2, Padded
<1>10. Field(b, ExtLength) = e.ext
  BY <1>1, <1>3, Padded
<1> QED BY <1>1, <1>4, <1>8, <1>9, <1>10 DEF ToFat12Name

-----------------------------------------------------------------------------
(***************************************************************************)
(* Paths.                                                                  *)
(***************************************************************************)
\* The smaller of two.
LEMMA MinOfTwo ==
  ASSUME NEW x \in Nat, NEW y \in Nat
  PROVE  Min({x, y}) = IF x <= y THEN x ELSE y
<1>1. PICK S \in SUBSET Nat : S = {x, y}
  OBVIOUS
<1>2. x \in S
  BY <1>1
<1>3. Min(S) \in S /\ \A z \in S : Min(S) <= z
  BY <1>2, MinOf
<1>4. PICK m : m = Min(S)
  OBVIOUS
<1>5. (m = x \/ m = y) /\ m <= x /\ m <= y
  BY <1>1, <1>3, <1>4
<1>6. m = IF x <= y THEN x ELSE y
  BY <1>5
<1> QED BY <1>1, <1>4, <1>6

\* Where the first component begins and ends.
LEMMA BeginEnd ==
  ASSUME NEW path \in Seq(Letter)
  PROVE  \E b \in 1 .. Len(path) + 1, e \in 1 .. Len(path) + 1 :
           /\ b = Begin(path, 1) /\ e = End(path, 1)
           /\ b <= Len(path) => path[b] # "/"
           /\ \A j \in 1 .. Len(path) : j < b => path[j] = "/"
           /\ e <= Len(path) => e >= b /\ path[e] = "/"
           /\ \A j \in 1 .. Len(path) : j >= b /\ j < e => path[j] # "/"
<1>1. PICK n \in Nat : n = Len(path)
  OBVIOUS
<1>2. PICK S : S = {j \in 1 .. n : path[j] # "/"}
  OBVIOUS
<1>3. PICK b : b = Min(S \cup {n + 1})
  OBVIOUS
<1>4. /\ b \in 1 .. n + 1 /\ (b <= n => b \in S)
      /\ \A j \in 1 .. n : j < b => j \notin S
  <2>1. S \subseteq 1 .. n
    BY <1>2
  <2> QED BY <1>3, <2>1, FirstOf
<1>5. b = Begin(path, 1)
  BY <1>1, <1>2, <1>3 DEF Begin
<1>6. PICK T : T = {j \in b .. n : path[j] = "/"}
  OBVIOUS
<1>7. PICK e : e = Min(T \cup {n + 1})
  OBVIOUS
<1>8. /\ e \in 1 .. n + 1 /\ (e <= n => e \in T)
      /\ \A j \in 1 .. n : j < e => j \notin T
  <2>1. T \subseteq 1 .. n
    BY <1>4, <1>6
  <2> QED BY <1>7, <2>1, FirstOf
<1>9. e = End(path, 1)
  BY <1>1, <1>5, <1>6, <1>7 DEF End
<1>10. /\ b <= n => path[b] # "/"
       /\ \A j \in 1 .. n : j < b => path[j] = "/"
  BY <1>2, <1>4
<1>11. e <= n => e >= b /\ path[e] = "/"
  BY <1>4, <1>6, <1>8
<1>12. ASSUME NEW j \in 1 .. n, j >= b, j < e PROVE path[j] # "/"
  <2>1. j \notin T /\ j \in b .. n
    BY <1>4, <1>8, <1>12
  <2> QED BY <1>6, <2>1
<1> QED BY <1>1, <1>4, <1>5, <1>8, <1>9, <1>10, <1>11, <1>12

\* A component has no slashes.
LEMMA ComponentWord ==
  ASSUME NEW path \in Seq(Letter)
  PROVE  Component(path, 1) \in Word
<1>1. PICK l \in Nat : l = Len(path)
  OBVIOUS
<1>2. PICK b \in 1 .. l + 1, e \in 1 .. l + 1 :
        /\ b = Begin(path, 1) /\ e = End(path, 1)
        /\ \A j \in 1 .. l : j >= b /\ j < e => path[j] # "/"
  BY <1>1, BeginEnd
<1>3. PICK n \in Nat : n = Min({e - 1, b + MaxComponent - 1}) /\ n <= e - 1
  <2>1. PICK x \in Nat, y \in Nat : x = e - 1 /\ y = b + MaxComponent - 1
    BY <1>2, NamesAssumption
  <2> QED BY <2>1, MinOfTwo
<1>4. Component(path, 1) = SubSeq(path, b, n)
  BY <1>2, <1>3 DEF Component
<1>5. PICK m \in Nat : m = b /\ m >= 1 /\ n <= l
  BY <1>2, <1>3
<1>6. PICK s : s = SubSeq(path, m, n)
  OBVIOUS
<1>7. /\ s \in Seq(Letter) /\ Len(s) = IF m <= n THEN n - m + 1 ELSE 0
      /\ \A j \in 1 .. n - m + 1 : s[j] = path[m + j - 1]
  BY <1>1, <1>5, <1>6, Part
<1>8. ASSUME NEW j \in 1 .. Len(s) PROVE s[j] \in Letter \ {"/"}
  <2>1. s[j] \in Letter
    BY <1>7
  <2>2. j \in 1 .. n - m + 1
    BY <1>5, <1>7
  <2>3. m + j - 1 \in 1 .. l /\ m + j - 1 >= b /\ m + j - 1 < e
    <3>1. PICK at \in Int : at = m + j - 1
      BY <1>5, <2>2
    <3>2. at >= m /\ at <= n /\ at >= 1
      BY <1>5, <2>2, <3>1
    <3>3. n <= e - 1 /\ e <= l + 1 /\ m = b
      BY <1>2, <1>3, <1>5
    <3>4. at \in 1 .. l /\ at >= b /\ at < e
      BY <1>1, <1>2, <1>3, <3>2, <3>3
    <3> QED BY <3>1, <3>4
  <2>4. s[j] # "/"
    BY <1>2, <1>7, <2>2, <2>3
  <2> QED BY <2>1, <2>4
<1>9. s \in Seq(Letter \ {"/"})
  <2>1. Len(s) \in Nat /\ s = [j \in 1 .. Len(s) |-> s[j]]
    BY <1>7
  <2> QED BY <1>8, <2>1
<1> QED BY <1>4, <1>5, <1>6, <1>9 DEF Word

\* A word that fits is the only component of the path that it is put into.
LEMMA ComponentOne ==
  ASSUME NEW w \in Word, Len(w) \in 1 .. MaxComponent
  PROVE  Component(<<"/">> \o w, 1) = w
<1>1. PICK n \in Nat : n = Len(w) /\ n >= 1 /\ n <= MaxComponent /\ MaxComponent \in Nat
  BY NamesAssumption
<1>2. PICK path \in Seq(Letter) :
        /\ path = <<"/">> \o w /\ Len(path) = n + 1 /\ path[1] = "/"
        /\ \A j \in 1 .. n : path[1 + j] = w[j]
  <2>1. w \in Seq(Letter)
    BY DEF Word
  <2>2. <<"/">> \in Seq(Letter)
    <3>1. "/" \in Letter
      BY ListingAssumption
    <3> QED BY <3>1
  <2>3. PICK u \in Seq(Letter) : u = <<"/">> /\ Len(u) = 1 /\ u[1] = "/"
    BY <2>2
  <2>4. PICK p : p = u \o w
    OBVIOUS
  <2>5. p \in Seq(Letter) /\ Len(p) = Len(u) + Len(w)
    BY <2>1, <2>4, Both
  <2>6. p[1] = "/"
    BY <2>1, <2>3, <2>4
  <2>7. \A j \in 1 .. Len(w) : p[Len(u) + j] = w[j]
    BY <2>1, <2>4, Both
  <2>8. Len(p) = n + 1
    BY <1>1, <2>3, <2>5
  <2>9. \A j \in 1 .. n : p[1 + j] = w[j]
    BY <1>1, <2>3, <2>7
  <2> QED BY <2>3, <2>4, <2>5, <2>6, <2>8, <2>9
<1>3. \A j \in 1 .. n : w[j] # "/"
  BY <1>1 DEF Word
<1>4. PICK b \in 1 .. n + 2, e \in 1 .. n + 2 :
        /\ b = Begin(path, 1) /\ e = End(path, 1)
        /\ b <= n + 1 => path[b] # "/"
        /\ \A j \in 1 .. n + 1 : j < b => path[j] = "/"
        /\ e <= n + 1 => e >= b /\ path[e] = "/"
  <2>1. Len(path) = n + 1 /\ Len(path) + 1 = n + 2
    BY <1>2
  <2> QED BY <2>1, BeginEnd
<1>5. b = 2
  <2>1. b # 1
    BY <1>1, <1>2, <1>4
  <2>2. path[2] # "/" /\ 2 \in 1 .. n + 1
    <3>1. 1 \in 1 .. n /\ path[1 + 1] = w[1] /\ 1 + 1 = 2
      BY <1>1, <1>2
    <3> QED BY <1>1, <1>3, <3>1
  <2>3. ~(2 < b)
    BY <1>4, <2>2
  <2> QED BY <1>4, <2>1, <2>3
<1>6. e = n + 2
  <2>1. ASSUME e <= n + 1 PROVE FALSE
    <3>1. PICK j \in 1 .. n : e = 1 + j
      <4>1. e - 1 \in 1 .. n /\ e = 1 + (e - 1)
        BY <1>4, <1>5, <2>1
      <4> QED BY <4>1
    <3> QED BY <1>2, <1>3, <1>4, <2>1, <3>1
  <2> QED BY <1>4, <2>1
<1>7. Min({e - 1, b + MaxComponent - 1}) = n + 1
  <2>1. PICK x \in Nat, y \in Nat : x = e - 1 /\ y = b + MaxComponent - 1 /\ x = n + 1 /\ x <= y
    BY <1>1, <1>5, <1>6
  <2> QED BY <2>1, MinOfTwo
<1>8. Component(path, 1) = SubSeq(path, 2, n + 1)
  BY <1>4, <1>5, <1>7 DEF Component
<1>9. PICK s : s = SubSeq(path, 2, n + 1)
  OBVIOUS
<1>10. /\ s \in Seq(Letter) /\ Len(s) = n
       /\ \A j \in 1 .. n : s[j] = path[1 + j]
  <2>1. PICK m \in Nat, k \in Nat : m = 2 /\ k = n + 1 /\ m >= 1 /\ k <= Len(path) /\ m <= k
    <3>1. 2 \in Nat /\ n + 1 \in Nat /\ 2 >= 1 /\ n + 1 <= Len(path) /\ 2 <= n + 1
      BY <1>1, <1>2
    <3> QED BY <3>1, Zenon
  <2>2. /\ s \in Seq(Letter) /\ Len(s) = k - m + 1
        /\ \A j \in 1 .. k - m + 1 : s[j] = path[m + j - 1]
    BY <1>9, <2>1, Part
  <2>3. k - m + 1 = n /\ \A j \in 1 .. n : m + j - 1 = 1 + j
    BY <2>1
  <2> QED BY <2>2, <2>3
<1>11. s = w
  <2>1. w \in Seq(Letter)
    BY DEF Word
  <2>2. \A j \in 1 .. n : s[j] = w[j]
    BY <1>2, <1>10
  <2> QED BY <1>1, <1>10, <2>1, <2>2
<1> QED BY <1>2, <1>8, <1>9, <1>11

-----------------------------------------------------------------------------
(***************************************************************************)
(* The remainder, which takes the ring round.                              *)
(***************************************************************************)
\* What a remainder is.
LEMMA DivMod ==
  ASSUME NEW R \in Nat, R > 0, NEW a \in Int
  PROVE  \E q \in Int, r \in 0 .. R - 1 : a = R * q + r /\ r = a % R
<1>1. a % R >= 0 /\ a % R < R /\ a % R \in Int
  OBVIOUS
<1>2. a \div R \in Int
  OBVIOUS
<1>3. a = R * (a \div R) + (a % R)
  OBVIOUS
<1>4. PICK q \in Int, r \in Int : q = a \div R /\ r = a % R
  BY <1>1, <1>2
<1>5. r \in 0 .. R - 1
  BY <1>1, <1>4
<1>6. a = R * q + r
  BY <1>3, <1>4
<1> QED BY <1>4, <1>5, <1>6

\* One time more is at least once more.
LEMMA Gap ==
  ASSUME NEW R \in Nat, R > 0, NEW p \in Int, NEW q \in Int, p < q
  PROVE  R * q >= R * p + R
<1>1. PICK x \in Nat : q = p + 1 + x
  <2>1. q - p - 1 \in Nat /\ q = p + 1 + (q - p - 1)
    OBVIOUS
  <2> QED BY <2>1, Zenon
<1>2. R * q = R * p + R + R * x
  BY <1>1
<1>3. R * x >= 0 /\ R * x \in Int /\ R * p \in Int
  OBVIOUS
<1> QED BY <1>2, <1>3

\* There is only one remainder.
LEMMA ModUnique ==
  ASSUME NEW R \in Nat, R > 0, NEW q \in Int, NEW r \in 0 .. R - 1
  PROVE  (R * q + r) % R = r
<1>1. PICK a \in Int : a = R * q + r
  OBVIOUS
<1>2. PICK p \in Int, s \in 0 .. R - 1 : a = R * p + s /\ s = a % R
  BY DivMod
<1>3. R * p \in Int /\ R * q \in Int /\ R * q + r = R * p + s
  BY <1>1, <1>2
<1>4. ~(p < q)
  <2>1. ASSUME p < q PROVE FALSE
    <3>1. R * q >= R * p + R
      BY <2>1, Gap
    <3> QED BY <1>3, <3>1
  <2> QED BY <2>1
<1>5. ~(q < p)
  <2>1. ASSUME q < p PROVE FALSE
    <3>1. R * p >= R * q + R
      BY <2>1, Gap
    <3> QED BY <1>3, <3>1
  <2> QED BY <2>1
<1>6. p = q
  BY <1>4, <1>5
<1>7. s = r
  BY <1>3, <1>6
<1> QED BY <1>1, <1>2, <1>7

\* A number below is its own remainder.
LEMMA ModSmall ==
  ASSUME NEW R \in Nat, R > 0, NEW r \in 0 .. R - 1
  PROVE  r % R = r
<1>1. (R * 0 + r) % R = r
  BY ModUnique
<1>2. R * 0 + r = r
  OBVIOUS
<1> QED BY <1>1, <1>2

\* Going a places round and then b more.
LEMMA ModShift ==
  ASSUME NEW R \in Nat, R > 0, NEW a \in Int, NEW b \in Int
  PROVE  ((a % R) + b) % R = (a + b) % R
<1>1. PICK p \in Int, r \in 0 .. R - 1 : a = R * p + r /\ r = a % R
  BY DivMod
<1>2. PICK q \in Int, s \in 0 .. R - 1 : r + b = R * q + s /\ s = (r + b) % R
  BY DivMod
<1>3. PICK z \in Int : z = p + q
  OBVIOUS
<1>4. R * z = R * p + R * q
  BY <1>3
<1>5. R * p \in Int /\ R * q \in Int /\ R * z \in Int
  OBVIOUS
<1>6. a + b = R * z + s
  BY <1>1, <1>2, <1>4, <1>5
<1>7. (R * z + s) % R = s
  BY ModUnique
<1> QED BY <1>1, <1>2, <1>6, <1>7

\* Coming back to the same place takes a whole round.
LEMMA ModGap ==
  ASSUME NEW R \in Nat, R > 0, NEW a \in Int, NEW b \in Int, a % R = b % R, a < b
  PROVE  b - a >= R
<1>1. PICK p \in Int, r \in 0 .. R - 1 : a = R * p + r /\ r = a % R
  BY DivMod
<1>2. PICK q \in Int, s \in 0 .. R - 1 : b = R * q + s /\ s = b % R
  BY DivMod
<1>3. r = s /\ R * p \in Int /\ R * q \in Int
  BY <1>1, <1>2
<1>4. p < q
  <2>1. ASSUME ~(p < q) PROVE FALSE
    <3>1. CASE p = q
      BY <1>1, <1>2, <1>3, <3>1
    <3>2. CASE q < p
      <4>1. R * p >= R * q + R
        BY <3>2, Gap
      <4> QED BY <1>1, <1>2, <1>3, <4>1
    <3> QED BY <2>1, <3>1, <3>2
  <2> QED BY <2>1
<1>5. R * q >= R * p + R
  BY <1>4, Gap
<1> QED BY <1>1, <1>2, <1>3, <1>5

-----------------------------------------------------------------------------
(***************************************************************************)
(* The invariant.  In the directory, nothing stands behind its end, and    *)
(* what is seen was made by to_fat12_name.  In the ring, a name that is    *)
(* recent lies as far behind contents_filename_idx as names were handed    *)
(* out since.                                                              *)
(***************************************************************************)
Record == [name : [1 .. NameLength -> Letter], ext : [1 .. ExtLength -> Letter]]

DirOK ==
  /\ dir \in [Slot -> Record \cup {End0}]
  /\ \A s \in Slot : dir[s] # End0 /\ ~Gone(dir[s]) => dir[s] \in Plain
  /\ \A s, t \in Slot : s < t /\ dir[s] = End0 => dir[t] = End0

Round == 0 .. Ring - 1

RingTypes ==
  /\ contents_filename_idx \in Round /\ DOMAIN contents_filenames = Round
  /\ held \in [Caller -> [names : Seq(Round), ended : BOOLEAN]]
  /\ listed \in [Caller -> Seq(Slot \X Plain)] /\ since \in [Caller -> 0 .. Ring]

\* How many names were handed out from the k-th name of c's listing on.
Age(c, k) == Len(listed[c]) - k + 1 + since[c]

RecentKept ==
  \A c \in Caller :
    /\ Len(held[c].names) = Len(listed[c])
    /\ \A k \in 1 .. Len(listed[c]) :
         /\ ~Gone(listed[c][k][2])
         /\ Recent(c, k) => /\ Name(c, k) = FromFat12Name(listed[c][k][2])
                            /\ contents_filename_idx = (held[c].names[k] + Age(c, k)) % Ring

ListingIInv == DirOK /\ NamesApart /\ RingTypes /\ RecentKept

-----------------------------------------------------------------------------
(***************************************************************************)
(* The directory.                                                          *)
(***************************************************************************)
\* What was a name is never taken for the end.
LEMMA RecordNotEnd ==
  ASSUME NEW e \in Record
  PROVE  e # End0
<1>1. 1 \in 1 .. NameLength
  BY NamesAssumption
<1>2. e.name[1] \in Letter
  BY <1>1 DEF Record
<1>3. End0.name[1] = Zero
  BY <1>1 DEF End0
<1> QED BY <1>2, <1>3, ListingAssumption

\* An record is a record.
LEMMA PlainRecord == Plain \subseteq Record
<1> SUFFICES ASSUME NEW e \in Plain PROVE e \in Record
  OBVIOUS
<1>1. StoredLetter \subseteq Letter
  BY DEF StoredLetter
<1>2. /\ e \in [name : [1 .. NameLength -> StoredLetter], ext : [1 .. ExtLength -> StoredLetter]]
  BY DEF Plain
<1>3. e.name \in [1 .. NameLength -> Letter] /\ e.ext \in [1 .. ExtLength -> Letter]
  BY <1>1, <1>2
<1>4. e = [name |-> e.name, ext |-> e.ext]
  BY <1>2
<1> QED BY <1>3, <1>4 DEF Record

\* What a file is opened with is an record.
LEMMA PathEntry ==
  ASSUME NEW path \in Path
  PROVE  ToFat12Name(Component(path, 1)) \in Plain
<1>1. path \in Seq(Letter)
  BY ListingAssumption
<1> QED BY <1>1, ComponentWord, ToEntry

\* What is seen, when nothing stands behind the end.
LEMMA SeenIs ==
  ASSUME NEW d, \A s, t \in Slot : s < t /\ d[s] = End0 => d[t] = End0, NEW s \in Slot
  PROVE  s \in Seen(d) <=> d[s] # End0 /\ ~Gone(d[s])
<1>1. Ended(d, s) <=> d[s] = End0
  <2>1. s \in 1 .. s /\ \A t \in 1 .. s : t \in Slot /\ (t = s \/ t < s)
    BY ListingAssumption DEF Slot
  <2> QED BY <2>1 DEF Ended
<1> QED BY <1>1 DEF Seen

\* fat12_find_entry finds what is there, and nothing else.
LEMMA FindIs ==
  ASSUME NEW d, NEW path
  PROVE  LET record == ToFat12Name(Component(path, 1))
         IN  /\ Find(d, path) = None => \A s \in Seen(d) : d[s] # record
             /\ Find(d, path) # None => Find(d, path) \in Seen(d) /\ d[Find(d, path)] = record
<1>1. PICK record : record = ToFat12Name(Component(path, 1))
  OBVIOUS
<1>2. PICK S : S = {s \in Seen(d) : d[s] = record}
  OBVIOUS
<1>3. Slots \in Nat /\ S \subseteq 1 .. Slots
  BY <1>2, ListingAssumption DEF Seen, Slot
<1>4. PICK m : m = Min(S \cup {Slots + 1})
  OBVIOUS
<1>5. /\ m \in 1 .. Slots + 1 /\ (m <= Slots => m \in S)
      /\ \A j \in 1 .. Slots : j < m => j \notin S
  BY <1>3, <1>4, FirstOf
<1>6. Find(d, path) = m % (Slots + 1)
  BY <1>1, <1>2, <1>4 DEF Find
<1>7. PICK n \in Nat : n = Slots + 1 /\ n > 0
  BY <1>3
<1>8. CASE m <= Slots
  <2>1. m % n = m
    BY <1>3, <1>5, <1>7, <1>8, ModSmall
  <2>2. m # None /\ m \in S
    BY <1>5, <1>8 DEF None
  <2> QED BY <1>1, <1>2, <1>6, <1>7, <2>1, <2>2
<1>9. CASE ~(m <= Slots)
  <2>1. m = n * 1 + 0
    BY <1>3, <1>5, <1>7, <1>9
  <2>2. (n * 1 + 0) % n = 0
    BY <1>7, ModUnique
  <2>3. \A j \in 1 .. Slots : j \notin S
    BY <1>3, <1>5, <1>9
  <2>4. \A s \in Seen(d) : d[s] # record
    BY <1>2, <1>3, <2>3
  <2> QED BY <1>1, <1>6, <1>7, <2>1, <2>2, <2>4 DEF None
<1> QED BY <1>3, <1>5, <1>8, <1>9

\* fat12_open adds a name that none of the others has.
LEMMA OpenKept ==
  ASSUME DirOK, NamesApart, NEW path \in Path, Open(path)
  PROVE  DirOK' /\ NamesApart'
<1>1. PICK record \in Plain : record = ToFat12Name(Component(path, 1))
  BY PathEntry
<1>2. \A s \in Seen(dir) : dir[s] # record
  BY <1>1, FindIs DEF Open
<1>3. PICK s \in Slot :
        /\ dir' = [dir EXCEPT ![s] = record] /\ (dir[s] = End0 \/ Gone(dir[s]))
        /\ \A t \in 1 .. s - 1 : dir[t] # End0
  BY <1>1 DEF Open, Place
<1>4. record \in Record /\ record # End0
  BY PlainRecord, RecordNotEnd
<1>5. /\ dir \in [Slot -> Record \cup {End0}]
      /\ dir'[s] = record /\ \A t \in Slot : t # s => dir'[t] = dir[t]
  BY <1>3 DEF DirOK
<1>6. dir' \in [Slot -> Record \cup {End0}]
  BY <1>3, <1>4, <1>5
<1>7. \A t \in Slot : dir'[t] # End0 /\ ~Gone(dir'[t]) => dir'[t] \in Plain
  BY <1>5 DEF DirOK
<1>8. ASSUME NEW t \in Slot, NEW u \in Slot, t < u, dir'[t] = End0 PROVE dir'[u] = End0
  <2>1. t # s /\ dir[t] = End0
    BY <1>4, <1>5, <1>8
  <2>2. u # s
    <3>1. u = s => t \in 1 .. s - 1
      BY <1>8 DEF Slot
    <3> QED BY <1>3, <2>1, <3>1
  <2>3. dir[u] = End0
    BY <1>8, <2>1 DEF DirOK
  <2> QED BY <1>5, <2>2, <2>3
<1>9. DirOK'
  BY <1>6, <1>7, <1>8 DEF DirOK
<1>10. ASSUME NEW t \in Seen(dir'), t # s PROVE t \in Seen(dir) /\ dir'[t] = dir[t] /\ dir[t] # record
  <2>1. t \in Slot
    BY DEF Seen
  <2>2. dir'[t] # End0 /\ ~Gone(dir'[t])
    BY <1>8, <2>1, SeenIs
  <2>3. dir'[t] = dir[t]
    BY <1>5, <1>10, <2>1
  <2>4. t \in Seen(dir)
    BY <2>1, <2>2, <2>3, SeenIs DEF DirOK
  <2> QED BY <1>2, <2>3, <2>4
<1>11. ASSUME NEW t \in Seen(dir'), NEW u \in Seen(dir'), t # u PROVE dir'[t] # dir'[u]
  <2>1. CASE t = s
    BY <1>5, <1>10, <1>11, <2>1
  <2>2. CASE u = s
    BY <1>5, <1>10, <1>11, <2>2
  <2>3. CASE t # s /\ u # s
    BY <1>10, <1>11, <2>3 DEF NamesApart
  <2> QED BY <2>1, <2>2, <2>3
<1> QED BY <1>9, <1>11 DEF NamesApart

\* fat12_removefile takes one away, and what stands behind it stays seen.
LEMMA RemoveKept ==
  ASSUME DirOK, NamesApart, NEW path \in Path, RemoveFile(path)
  PROVE  DirOK' /\ NamesApart'
<1>1. PICK h \in Seen(dir) : h = Find(dir, path)
  BY FindIs DEF RemoveFile
<1>2. h \in Slot /\ dir[h] # End0 /\ dir \in [Slot -> Record \cup {End0}]
  BY SeenIs DEF DirOK, Seen
<1>3. PICK r : r = [dir[h] EXCEPT !.name[1] = Deleted]
  OBVIOUS
<1>4. dir[h] \in Record /\ 1 \in 1 .. NameLength
  BY <1>2, NamesAssumption
<1>5. r.name = [dir[h].name EXCEPT ![1] = Deleted] /\ r.ext = dir[h].ext /\ r \in Record
  <2>1. r = [name |-> [dir[h].name EXCEPT ![1] = Deleted], ext |-> dir[h].ext]
    BY <1>3, <1>4 DEF Record
  <2>2. [dir[h].name EXCEPT ![1] = Deleted] \in [1 .. NameLength -> Letter]
    BY <1>4, ListingAssumption DEF Record
  <2>3. dir[h].ext \in [1 .. ExtLength -> Letter]
    BY <1>4 DEF Record
  <2> QED BY <2>1, <2>2, <2>3 DEF Record
<1>6. Gone(r)
  BY <1>4, <1>5 DEF Gone, Record
<1>7. r # End0
  BY <1>5, RecordNotEnd
<1>8. dir' = [dir EXCEPT ![h] = r]
  BY <1>1, <1>3 DEF RemoveFile
<1>9. dir'[h] = r /\ \A t \in Slot : t # h => dir'[t] = dir[t]
  BY <1>2, <1>8
<1>10. dir' \in [Slot -> Record \cup {End0}]
  BY <1>2, <1>5, <1>8
<1>11. \A t \in Slot : dir'[t] # End0 /\ ~Gone(dir'[t]) => dir'[t] \in Plain
  BY <1>6, <1>9 DEF DirOK
<1>12. ASSUME NEW t \in Slot, NEW u \in Slot, t < u, dir'[t] = End0 PROVE dir'[u] = End0
  <2>1. t # h /\ dir[t] = End0
    BY <1>7, <1>9, <1>12
  <2>2. dir[u] = End0
    BY <1>12, <2>1 DEF DirOK
  <2>3. u # h
    BY <1>2, <2>2
  <2> QED BY <1>9, <2>2, <2>3
<1>13. DirOK'
  BY <1>10, <1>11, <1>12 DEF DirOK
<1>14. ASSUME NEW t \in Seen(dir') PROVE t \in Seen(dir) /\ dir'[t] = dir[t]
  <2>1. t \in Slot
    BY DEF Seen
  <2>2. dir'[t] # End0 /\ ~Gone(dir'[t])
    BY <1>12, <2>1, SeenIs
  <2>3. t # h
    BY <1>6, <1>9, <2>2
  <2>4. dir'[t] = dir[t]
    BY <1>9, <2>1, <2>3
  <2> QED BY <2>1, <2>2, <2>4, SeenIs DEF DirOK
<1> QED BY <1>13, <1>14 DEF NamesApart

-----------------------------------------------------------------------------
(***************************************************************************)
(* The ring.                                                               *)
(***************************************************************************)
\* A remainder is a place of the ring.
LEMMA RingAssumed == Ring \in Nat /\ Ring > 0 /\ \A r \in Int : r % Ring \in Round
<1>1. Ring \in Nat /\ Ring > 0
  BY ListingAssumption
<1>2. ASSUME NEW r \in Int PROVE r % Ring \in Round
  <2>1. PICK q \in Int, p \in 0 .. Ring - 1 : r = Ring * q + p /\ p = r % Ring
    BY <1>1, DivMod
  <2> QED BY <2>1 DEF Round
<1> QED BY <1>1, <1>2

\* The place of the k-th of n names that are handed out, and the last name put into a place.
RingPlace(k) == (contents_filename_idx + k - 1) % Ring
LastPut(n, j) == Max({k \in 1 .. n : RingPlace(k) = j} \cup {0})

\* The last n names stand where their numbers say; a place that is not among the next n is
\* left alone.
LEMMA LastPutIs ==
  ASSUME contents_filename_idx \in Round, NEW n \in Nat
  PROVE  /\ \A k \in 1 .. n : RingPlace(k) \in Round
         /\ \A k \in 1 .. n : n - k + 1 <= Ring => LastPut(n, RingPlace(k)) = k
         /\ \A p \in Round, a \in Nat :
              a >= 1 /\ a + n <= Ring /\ contents_filename_idx = (p + a) % Ring => LastPut(n, p) = 0
<1>1. contents_filename_idx \in Int /\ Ring \in Nat /\ Ring > 0
  BY RingAssumed DEF Round
<1>2. ASSUME NEW k \in 1 .. n PROVE RingPlace(k) \in Round
  <2>1. PICK x \in Int : x = contents_filename_idx + k - 1
    BY <1>1
  <2> QED BY <2>1, RingAssumed DEF RingPlace
<1>3. ASSUME NEW j
      PROVE  /\ LastPut(n, j) \in 0 .. n /\ (LastPut(n, j) # 0 => RingPlace(LastPut(n, j)) = j)
             /\ \A k \in 1 .. n : k > LastPut(n, j) => RingPlace(k) # j
  <2>1. PICK S : S = {k \in 1 .. n : RingPlace(k) = j}
    OBVIOUS
  <2>2. PICK m : m = Max(S \cup {0})
    OBVIOUS
  <2>3. /\ m \in 0 .. n /\ (m # 0 => m \in S)
        /\ \A k \in 1 .. n : k > m => k \notin S
    <3>1. S \subseteq 1 .. n
      BY <2>1
    <3> QED BY <2>2, <3>1, LastOf
  <2>4. m = LastPut(n, j)
    BY <2>1, <2>2 DEF LastPut
  <2> QED BY <2>1, <2>3, <2>4
<1>4. ASSUME NEW k \in 1 .. n, n - k + 1 <= Ring PROVE LastPut(n, RingPlace(k)) = k
  <2>1. PICK m \in 0 .. n : m = LastPut(n, RingPlace(k))
    BY <1>3
  <2>2. m >= k
    BY <1>3, <2>1
  <2>3. RingPlace(m) = RingPlace(k)
    BY <1>3, <2>1, <2>2
  <2>4. ASSUME m > k PROVE FALSE
    <3>1. PICK x \in Int, y \in Int : x = contents_filename_idx + k - 1 /\ y = contents_filename_idx + m - 1
      BY <1>1
    <3>2. x % Ring = y % Ring
      BY <2>3, <3>1 DEF RingPlace
    <3>3. x < y /\ y - x = m - k
      BY <1>1, <2>4, <3>1
    <3>4. y - x >= Ring
      BY <1>1, <3>2, <3>3, ModGap
    <3> QED BY <1>1, <1>4, <3>3, <3>4
  <2> QED BY <2>1, <2>2, <2>4
<1>5. ASSUME NEW p \in Round, NEW a \in Nat, a >= 1, a + n <= Ring,
             contents_filename_idx = (p + a) % Ring
      PROVE  LastPut(n, p) = 0
  <2>1. PICK m \in 0 .. n : m = LastPut(n, p)
    BY <1>3
  <2>2. ASSUME m # 0 PROVE FALSE
    <3>1. RingPlace(m) = p
      BY <1>3, <2>1, <2>2
    <3>2. p \in Int /\ p % Ring = p
      BY <1>1, ModSmall DEF Round
    <3>3. PICK x \in Int, b \in Int : x = p + a /\ b = m - 1
      BY <3>2
    <3>4. contents_filename_idx + m - 1 = (x % Ring) + b
      BY <1>1, <1>5, <3>3
    <3>5. RingPlace(m) = (x + b) % Ring
      BY <1>1, <3>4, ModShift DEF RingPlace
    <3>6. p < x + b /\ (x + b) - p = a + m - 1
      BY <1>5, <2>2, <3>2, <3>3
    <3>7. PICK y \in Int : y = x + b
      BY <3>3
    <3>8. y - p >= Ring
      <4>1. p % Ring = y % Ring
        BY <3>1, <3>2, <3>5, <3>7
      <4> QED BY <1>1, <3>2, <3>6, <3>7, <4>1, ModGap
    <3> QED BY <1>1, <1>5, <3>6, <3>7, <3>8
  <2> QED BY <2>1, <2>2
<1> QED BY <1>2, <1>4, <1>5

\* What HandOut does, with its parts named.
HandsOut(c, n, slots, count) ==
  /\ contents_filenames' =
       [j \in Round |-> IF LastPut(n, j) = 0 THEN contents_filenames[j]
                        ELSE FromFat12Name(dir[slots[LastPut(n, j)]])]
  /\ contents_filename_idx' = (contents_filename_idx + n) % Ring
  /\ held' = [held EXCEPT ![c] = [names |-> [k \in 1 .. n |-> RingPlace(k)],
                                  ended |-> n < count]]
  /\ listed' = [listed EXCEPT ![c] = [k \in 1 .. n |-> <<slots[k], dir[slots[k]]>>]]
  /\ since' = [d \in Caller |-> IF d = c THEN 0 ELSE Min({since[d] + n, Ring})]
  /\ dir' = dir

\* What handing out n names does to the ring and to what callers hold, slot by slot.
LEMMA HandOutIs ==
  ASSUME NEW c, NEW n \in Nat, NEW slots, DOMAIN slots = 1 .. n, Len(slots) = n, NEW count,
         HandOut(c, slots, count)
  PROVE  HandsOut(c, n, slots, count)
BY DEF HandOut, HandsOut, LastPut, RingPlace, Round

\* A listing overwrites the names that are too old only, and its own can be read.
LEMMA HandOutKept ==
  ASSUME DirOK, RingTypes, RecentKept, NEW c \in Caller, NEW count,
         NEW n \in Nat, NEW slots \in [1 .. n -> Seen(dir)], HandOut(c, slots, count)
  PROVE  RingTypes' /\ RecentKept'
<1>1. DOMAIN slots = 1 .. n /\ Len(slots) = n
  OBVIOUS
<1>2. /\ contents_filenames' =
           [j \in Round |-> IF LastPut(n, j) = 0 THEN contents_filenames[j]
                            ELSE FromFat12Name(dir[slots[LastPut(n, j)]])]
      /\ contents_filename_idx' = (contents_filename_idx + n) % Ring
      /\ held' = [held EXCEPT ![c] = [names |-> [k \in 1 .. n |-> RingPlace(k)],
                                      ended |-> n < count]]
      /\ listed' = [listed EXCEPT ![c] = [k \in 1 .. n |-> <<slots[k], dir[slots[k]]>>]]
      /\ since' = [d \in Caller |-> IF d = c THEN 0 ELSE Min({since[d] + n, Ring})]
      /\ dir' = dir
  <2>1. HandsOut(c, n, slots, count)
    BY <1>1, HandOutIs
  <2> QED BY <2>1 DEF HandsOut
<1>3. /\ Ring \in Nat /\ Ring > 0 /\ contents_filename_idx \in Round
      /\ contents_filename_idx \in Int /\ \A r \in Int : r % Ring \in Round
  BY RingAssumed DEF RingTypes, Round
<1>4. /\ held \in [Caller -> [names : Seq(Round), ended : BOOLEAN]]
      /\ listed \in [Caller -> Seq(Slot \X Plain)] /\ since \in [Caller -> 0 .. Ring]
  BY DEF RingTypes
<1>5. \A k \in 1 .. n : slots[k] \in Slot /\ dir[slots[k]] \in Plain /\ ~Gone(dir[slots[k]])
  <2>1. TAKE k \in 1 .. n
  <2>2. slots[k] \in Slot /\ slots[k] \in Seen(dir)
    BY DEF Seen
  <2> QED BY <2>2, SeenIs DEF DirOK
<1>6. \A k \in 1 .. n : RingPlace(k) \in Round
  BY <1>3, LastPutIs
<1>7. PICK own \in Seq(Round) : own = [k \in 1 .. n |-> RingPlace(k)] /\ Len(own) = n
  <2>1. PICK h \in [1 .. n -> Round] : h = [k \in 1 .. n |-> RingPlace(k)]
    BY <1>6
  <2> QED BY <2>1, Listed
<1>8. PICK shown \in Seq(Slot \X Plain) :
        shown = [k \in 1 .. n |-> <<slots[k], dir[slots[k]]>>] /\ Len(shown) = n
  <2>1. PICK h \in [1 .. n -> Slot \X Plain] : h = [k \in 1 .. n |-> <<slots[k], dir[slots[k]]>>]
    BY <1>5
  <2> QED BY <2>1, Listed
<1>9. /\ held'[c].names = own /\ listed'[c] = shown
      /\ \A d \in Caller : d # c => held'[d] = held[d] /\ listed'[d] = listed[d]
  BY <1>2, <1>4, <1>7, <1>8
<1>10. \A d \in Caller :
         /\ since'[d] \in 0 .. Ring
         /\ d = c => since'[d] = 0
         /\ d # c /\ since'[d] < Ring => since'[d] = since[d] + n
  <2>1. TAKE d \in Caller
  <2>2. CASE d = c
    BY <1>2, <1>3, <2>2
  <2>3. CASE d # c
    <3>1. PICK x \in Nat : x = since[d] + n
      BY <1>4
    <3>2. since'[d] = IF x <= Ring THEN x ELSE Ring
      BY <1>2, <1>3, <2>3, <3>1, MinOfTwo
    <3> QED BY <1>3, <2>3, <3>1, <3>2
  <2> QED BY <2>2, <2>3
<1>11. RingTypes'
  <2>1. contents_filename_idx' \in Round
    <3>1. PICK r \in Int : r = contents_filename_idx + n
      BY <1>3
    <3> QED BY <1>2, <1>3, <3>1
  <2>2. DOMAIN contents_filenames' = Round
    BY <1>2
  <2>3. held' \in [Caller -> [names : Seq(Round), ended : BOOLEAN]]
    <3>1. PICK h : h = [names |-> own, ended |-> n < count]
      OBVIOUS
    <3>2. h \in [names : Seq(Round), ended : BOOLEAN]
      BY <3>1
    <3>3. held' = [held EXCEPT ![c] = h]
      BY <1>2, <1>7, <3>1
    <3> QED BY <1>4, <3>2, <3>3
  <2>4. listed' \in [Caller -> Seq(Slot \X Plain)]
    BY <1>2, <1>4, <1>8
  <2>5. since' \in [Caller -> 0 .. Ring]
    BY <1>2, <1>10
  <2> QED BY <2>1, <2>2, <2>3, <2>4, <2>5 DEF RingTypes
<1>12. ASSUME NEW k \in 1 .. n
       PROVE  /\ ~Gone(shown[k][2])
              /\ n - k + 1 <= Ring =>
                   /\ contents_filenames'[own[k]] = FromFat12Name(shown[k][2])
                   /\ contents_filename_idx' = (own[k] + (n - k + 1)) % Ring
  <2>1. shown[k][2] = dir[slots[k]] /\ own[k] = RingPlace(k)
    BY <1>7, <1>8
  <2>2. ASSUME n - k + 1 <= Ring
        PROVE  contents_filenames'[RingPlace(k)] = FromFat12Name(dir[slots[k]])
    <3>1. LastPut(n, RingPlace(k)) = k /\ k # 0
      BY <1>3, <2>2, LastPutIs
    <3> QED BY <1>2, <1>6, <3>1
  <2>3. contents_filename_idx' = (RingPlace(k) + (n - k + 1)) % Ring
    <3>1. PICK x \in Int, b \in Int : x = contents_filename_idx + k - 1 /\ b = n - k + 1
      BY <1>3
    <3>2. RingPlace(k) + (n - k + 1) = (x % Ring) + b
      BY <3>1 DEF RingPlace
    <3>3. ((x % Ring) + b) % Ring = (x + b) % Ring
      BY <1>3, ModShift
    <3>4. x + b = contents_filename_idx + n
      BY <1>3, <3>1
    <3> QED BY <1>2, <3>2, <3>3, <3>4
  <2> QED BY <1>5, <2>1, <2>2, <2>3
<1>13. ASSUME NEW d \in Caller, d # c, NEW k \in 1 .. Len(listed[d]),
              Len(listed[d]) - k + 1 + since'[d] <= Ring
       PROVE  /\ contents_filenames'[held[d].names[k]] = FromFat12Name(listed[d][k][2])
              /\ contents_filename_idx' =
                   (held[d].names[k] + (Len(listed[d]) - k + 1 + since'[d])) % Ring
  <2>1. PICK l \in Nat, s \in 0 .. Ring : l = Len(listed[d]) /\ s = since'[d]
    <3>1. Len(listed[d]) \in Nat
      BY <1>4
    <3> QED BY <1>10, <3>1
  <2>2. s < Ring /\ k \in 1 .. l /\ l - k + 1 + s <= Ring
    <3>1. k \in 1 .. l /\ l - k + 1 + s <= Ring
      BY <1>13, <2>1
    <3> QED BY <1>3, <2>1, <3>1
  <2>3. s = since[d] + n /\ since[d] \in Nat
    BY <1>4, <1>10, <1>13, <2>1, <2>2
  <2>4. PICK a \in Nat : a = l - k + 1 + since[d] /\ a >= 1
    BY <2>1, <2>2, <2>3, SMTT(30)
  <2>5. a + n <= Ring /\ a <= Ring /\ a + n = l - k + 1 + s
    BY <1>3, <2>1, <2>2, <2>3, <2>4, SMTT(30)
  <2>6. /\ contents_filenames[held[d].names[k]] = FromFat12Name(listed[d][k][2])
        /\ contents_filename_idx = (held[d].names[k] + a) % Ring
        /\ Len(held[d].names) = Len(listed[d])
    <3>1. Recent(d, k) /\ Age(d, k) = a
      BY <2>1, <2>4, <2>5 DEF Recent, Age
    <3> QED BY <3>1 DEF RecentKept, Name
  <2>7. PICK p \in Round : p = held[d].names[k]
    <3>1. held[d].names \in Seq(Round) /\ k \in 1 .. Len(held[d].names)
      BY <1>4, <2>6
    <3> QED BY <3>1
  <2>8. contents_filenames'[p] = contents_filenames[p]
    <3>1. LastPut(n, p) = 0
      BY <1>3, <2>4, <2>5, <2>6, <2>7, LastPutIs
    <3> QED BY <1>2, <3>1
  <2>9. contents_filename_idx' = (p + (a + n)) % Ring
    <3>1. PICK x \in Int : x = p + a
      <4>1. p \in Int
        BY <1>3 DEF Round
      <4>2. p + a \in Int
        BY <4>1
      <4> QED BY <4>2
    <3>2. ((x % Ring) + n) % Ring = (x + n) % Ring
      <4>1. PICK b \in Int : b = n
        OBVIOUS
      <4>2. ((x % Ring) + b) % Ring = (x + b) % Ring
        BY <1>3, ModShift
      <4> QED BY <4>1, <4>2
    <3>3. x + n = p + (a + n)
      BY <2>7, <3>1, SMTT(30) DEF Round
    <3> QED BY <1>2, <2>6, <2>7, <3>1, <3>2, <3>3
  <2>10. a + n = Len(listed[d]) - k + 1 + since'[d]
    BY <2>1, <2>5
  <2> QED BY <2>6, <2>7, <2>8, <2>9, <2>10
<1>14. ASSUME NEW d \in Caller
       PROVE  /\ Len(held'[d].names) = Len(listed'[d])
              /\ \A k \in 1 .. Len(listed'[d]) :
                   /\ ~Gone(listed'[d][k][2])
                   /\ Recent(d, k)' => /\ Name(d, k)' = FromFat12Name(listed'[d][k][2])
                                       /\ contents_filename_idx' = (held'[d].names[k] + Age(d, k)') % Ring
  <2>1. CASE d = c
    <3>1. since'[d] = 0 /\ held'[d].names = own /\ listed'[d] = shown
      <4>1. since'[d] = 0
        BY <1>10, <2>1
      <4> QED BY <1>9, <2>1, <4>1
    <3>2. Len(held'[d].names) = Len(listed'[d])
      BY <1>7, <1>8, <3>1
    <3>3. ASSUME NEW k \in 1 .. Len(listed'[d])
          PROVE  /\ ~Gone(listed'[d][k][2])
                 /\ Recent(d, k)' =>
                      /\ Name(d, k)' = FromFat12Name(listed'[d][k][2])
                      /\ contents_filename_idx' = (held'[d].names[k] + Age(d, k)') % Ring
      <4>1. k \in 1 .. n
        BY <1>8, <3>1
      <4>2. Age(d, k)' = n - k + 1 /\ (Recent(d, k)' <=> n - k + 1 <= Ring)
        <5>1. Len(listed'[d]) = n /\ since'[d] = 0
          BY <1>8, <3>1
        <5>2. n - k + 1 + 0 = n - k + 1
          BY <4>1
        <5> QED BY <5>1, <5>2 DEF Age, Recent
      <4>3. Name(d, k)' = contents_filenames'[own[k]]
        BY <3>1 DEF Name
      <4> QED BY <1>12, <3>1, <4>1, <4>2, <4>3
    <3> QED BY <3>2, <3>3
  <2>2. CASE d # c
    <3>1. held'[d] = held[d] /\ listed'[d] = listed[d]
      BY <1>9, <2>2
    <3>2. /\ Len(held[d].names) = Len(listed[d])
          /\ \A k \in 1 .. Len(listed[d]) : ~Gone(listed[d][k][2])
      BY DEF RecentKept
    <3> QED BY <1>13, <2>2, <3>1, <3>2 DEF Recent, Name, Age
  <2> QED BY <2>1, <2>2
<1>15. RecentKept'
  BY <1>14 DEF RecentKept
<1> QED BY <1>11, <1>15

-----------------------------------------------------------------------------
(***************************************************************************)
(* The theorems.                                                           *)
(***************************************************************************)
\* On a freshly formatted disk nothing is seen and nothing was listed.
LEMMA InitListing == ListingInit => ListingIInv
<1> SUFFICES ASSUME ListingInit PROVE ListingIInv
  OBVIOUS
<1>1. /\ dir = [s \in Slot |-> End0] /\ contents_filename_idx = 0
      /\ contents_filenames = [j \in 0 .. Ring - 1 |-> <<>>]
      /\ held = [c \in Caller |-> [names |-> <<>>, ended |-> FALSE]]
      /\ listed = [c \in Caller |-> <<>>] /\ since = [c \in Caller |-> 0]
  BY DEF ListingInit
<1>2. DirOK
  <2>1. dir \in [Slot -> Record \cup {End0}] /\ \A s \in Slot : dir[s] = End0
    BY <1>1
  <2> QED BY <2>1 DEF DirOK
<1>3. NamesApart
  <2>1. Seen(dir) = {}
    <3>1. ASSUME NEW s \in Seen(dir) PROVE FALSE
      <4>1. s \in Slot /\ dir[s] = End0
        BY <1>1 DEF Seen
      <4> QED BY <1>2, <4>1, SeenIs DEF DirOK
    <3> QED BY <3>1
  <2> QED BY <2>1 DEF NamesApart
<1>4. RingTypes
  <2>1. 0 \in Round
    BY ListingAssumption DEF Round
  <2>2. DOMAIN contents_filenames = Round
    BY <1>1 DEF Round
  <2>3. held \in [Caller -> [names : Seq(Round), ended : BOOLEAN]]
    <3>1. [names |-> <<>>, ended |-> FALSE] \in [names : Seq(Round), ended : BOOLEAN]
      OBVIOUS
    <3> QED BY <1>1, <3>1
  <2>4. listed \in [Caller -> Seq(Slot \X Plain)]
    <3>1. <<>> \in Seq(Slot \X Plain)
      OBVIOUS
    <3> QED BY <1>1, <3>1
  <2>5. since \in [Caller -> 0 .. Ring]
    BY <1>1, ListingAssumption
  <2> QED BY <1>1, <2>1, <2>2, <2>3, <2>4, <2>5 DEF RingTypes
<1>5. RecentKept
  <2>1. ASSUME NEW c \in Caller
        PROVE  Len(held[c].names) = Len(listed[c]) /\ 1 .. Len(listed[c]) = {}
    <3>1. held[c].names = <<>> /\ listed[c] = <<>>
      BY <1>1
    <3>2. Len(<<>>) = 0 /\ 1 .. 0 = {}
      OBVIOUS
    <3> QED BY <3>1, <3>2
  <2> QED BY <2>1 DEF RecentKept
<1> QED BY <1>2, <1>3, <1>4, <1>5 DEF ListingIInv

\* What is not touched stays right.
LEMMA RingSame ==
  ASSUME RingTypes, RecentKept, UNCHANGED <<ring, held, listed, since>>
  PROVE  RingTypes' /\ RecentKept'
<1>1. /\ contents_filenames' = contents_filenames
      /\ contents_filename_idx' = contents_filename_idx
      /\ held' = held /\ listed' = listed /\ since' = since
  BY DEF ring
<1>2. RingTypes'
  BY <1>1 DEF RingTypes
<1>3. RecentKept'
  BY <1>1 DEF RecentKept, Recent, Age, Name
<1> QED BY <1>2, <1>3

\* A listing leaves the directory alone.
LEMMA DirSame ==
  ASSUME DirOK, NamesApart, dir' = dir
  PROVE  DirOK' /\ NamesApart'
<1>1. DirOK'
  BY DEF DirOK
<1>2. Seen(dir)' = Seen(dir)
  BY DEF Seen, Ended
<1> QED BY <1>1, <1>2 DEF NamesApart

\* Every call keeps the invariant.
LEMMA StepListing == ListingIInv /\ [ListingNext]_listingVars => ListingIInv'
<1> SUFFICES ASSUME ListingIInv, [ListingNext]_listingVars PROVE ListingIInv'
  OBVIOUS
<1>0. DirOK /\ NamesApart /\ RingTypes /\ RecentKept
  BY DEF ListingIInv
<1>1. ASSUME NEW path \in Path, Open(path) PROVE ListingIInv'
  <2>1. UNCHANGED <<ring, held, listed, since>>
    BY <1>1 DEF Open
  <2>2. DirOK' /\ NamesApart'
    BY <1>0, <1>1, OpenKept
  <2>3. RingTypes' /\ RecentKept'
    BY <1>0, <2>1, RingSame
  <2> QED BY <2>2, <2>3 DEF ListingIInv
<1>2. ASSUME NEW path \in Path, RemoveFile(path) PROVE ListingIInv'
  <2>1. UNCHANGED <<ring, held, listed, since>>
    BY <1>2 DEF RemoveFile
  <2>2. DirOK' /\ NamesApart'
    BY <1>0, <1>2, RemoveKept
  <2>3. RingTypes' /\ RecentKept'
    BY <1>0, <2>1, RingSame
  <2> QED BY <2>2, <2>3 DEF ListingIInv
<1>3. ASSUME NEW c \in Caller, NEW count, NEW n \in Nat, NEW slots \in [1 .. n -> Seen(dir)],
             HandOut(c, slots, count)
      PROVE  ListingIInv'
  <2>1. dir' = dir
    BY <1>3 DEF HandOut
  <2>2. DirOK' /\ NamesApart'
    BY <1>0, <2>1, DirSame
  <2>3. RingTypes' /\ RecentKept'
    BY <1>0, <1>3, HandOutKept
  <2> QED BY <2>2, <2>3 DEF ListingIInv
<1>4. ASSUME NEW c \in Caller, NEW count \in Count, ListRoot(c, count) PROVE ListingIInv'
  <2>1. Cardinality(Seen(dir)) \in Nat
    <3>1. IsFiniteSet(Slot)
      BY ListingAssumption, FS_Interval DEF Slot
    <3>2. Seen(dir) \subseteq Slot
      BY DEF Seen
    <3>3. IsFiniteSet(Seen(dir))
      BY <3>1, <3>2, FS_Subset
    <3> QED BY <3>3, FS_CardinalityType
  <2>2. PICK n \in Nat : n = Min({count, Cardinality(Seen(dir))})
    <3>1. count \in Nat
      BY ListingAssumption
    <3> QED BY <2>1, <3>1, MinOfTwo
  <2>3. PICK slots \in [1 .. n -> Seen(dir)] : HandOut(c, slots, count)
    BY <1>4, <2>2 DEF ListRoot, Shown
  <2> QED BY <1>3, <2>3
<1>5. ASSUME NEW c \in Caller, NEW count \in Count, NEW path \in Path, ListFile(c, path, count)
      PROVE  ListingIInv'
  <2>1. PICK h \in Seen(dir) : h = Find(dir, path)
    BY <1>5, FindIs DEF ListFile
  <2>2. CASE count > 0
    <3>1. HandOut(c, <<h>>, count)
      BY <1>5, <2>1, <2>2 DEF ListFile
    <3>2. PICK n \in Nat : n = 1 /\ <<h>> \in [1 .. n -> Seen(dir)]
      <4>1. <<h>> \in [1 .. 1 -> Seen(dir)]
        OBVIOUS
      <4> QED BY <4>1
    <3> QED BY <1>3, <3>1, <3>2
  <2>3. CASE ~(count > 0)
    <3>1. HandOut(c, <<>>, count)
      BY <1>5, <2>3 DEF ListFile
    <3>2. PICK n \in Nat : n = 0 /\ <<>> \in [1 .. n -> Seen(dir)]
      <4>1. <<>> \in [1 .. 0 -> Seen(dir)]
        OBVIOUS
      <4> QED BY <4>1
    <3> QED BY <1>3, <3>1, <3>2
  <2> QED BY <2>2, <2>3
<1>6. CASE UNCHANGED listingVars
  <2>1. UNCHANGED <<ring, held, listed, since>> /\ dir' = dir
    BY <1>6 DEF listingVars
  <2> QED BY <1>0, <2>1, RingSame, DirSame DEF ListingIInv
<1> QED BY <1>1, <1>2, <1>4, <1>5, <1>6 DEF ListingNext

\* The invariant holds in every state.
THEOREM ListingInvariance == ListingSpec => []ListingIInv
<1> QED
  BY InitListing, StepListing, PTL DEF ListingSpec

\* No two files have the same name on the disk, in a directory of any size and for files
\* of any names.
THEOREM NoTwoAlike == ListingSpec => []NamesApart
<1>1. ListingIInv => NamesApart
  BY DEF ListingIInv
<1> QED
  BY <1>1, ListingInvariance, PTL

\* A name that is recent leads back to the record it was listed from.
THEOREM ListedFound == ListingSpec => []ListedOpens
<1>1. ListingIInv => ListedOpens
  <2> SUFFICES ASSUME ListingIInv, NEW c \in Caller, NEW k \in DOMAIN listed[c], Recent(c, k),
                      NEW slot, slot = listed[c][k][1], dir[slot] = listed[c][k][2],
                      Name(c, k) # <<>>
               PROVE  Find(dir, <<"/">> \o Name(c, k)) = slot
    BY DEF ListedOpens
  <2>1. DirOK /\ NamesApart /\ RecentKept /\ listed \in [Caller -> Seq(Slot \X Plain)]
    BY DEF ListingIInv, RingTypes
  <2>2. k \in 1 .. Len(listed[c]) /\ slot \in Slot /\ dir[slot] \in Plain
    <3>1. k \in 1 .. Len(listed[c]) /\ listed[c][k] \in Slot \X Plain
      BY <2>1
    <3> QED BY <3>1
  <2>3. PICK e \in Plain : e = dir[slot]
    BY <2>2
  <2>4. ~Gone(e) /\ Name(c, k) = FromFat12Name(e)
    BY <2>1, <2>2, <2>3 DEF RecentKept
  <2>5. PICK name \in Word : name = Name(c, k) /\ Len(name) \in 1 .. MaxComponent
    <3>1. PICK name \in Word : name = Name(c, k) /\ Len(name) <= MaxComponent
      BY <2>4, NameOf
    <3>2. name # <<>> /\ Len(name) \in Nat
      BY <3>1 DEF Word
    <3>3. Len(name) # 0
      BY <3>2 DEF Word
    <3>4. Len(name) \in 1 .. MaxComponent
      BY <3>1, <3>2, <3>3, NamesAssumption
    <3> QED BY <3>1, <3>4
  <2>6. ToFat12Name(Component(<<"/">> \o name, 1)) = e
    BY <2>4, <2>5, ComponentOne, RoundTrip
  <2>7. slot \in Seen(dir)
    <3>1. e # End0
      BY PlainRecord, RecordNotEnd
    <3> QED BY <2>1, <2>2, <2>3, <2>4, <3>1, SeenIs DEF DirOK
  <2>8. PICK h : h = Find(dir, <<"/">> \o name)
    OBVIOUS
  <2>9. h \in Seen(dir) /\ dir[h] = e
    BY <2>3, <2>6, <2>7, <2>8, FindIs
  <2>10. h = slot
    BY <2>1, <2>3, <2>7, <2>9 DEF NamesApart
  <2> QED BY <2>5, <2>8, <2>10
<1> QED
  BY <1>1, ListingInvariance, PTL

\* The name that a listing shows of a file, however that was opened, opens the file again.
THEOREM ShownNameOpens ==
  ASSUME NEW path \in Seq(Letter)
  PROVE  LET record == ToFat12Name(Component(path, 1))
         IN  ToFat12Name(FromFat12Name(record)) = record
<1>1. ToFat12Name(Component(path, 1)) \in Plain
  BY ComponentWord, ToEntry
<1> QED BY <1>1, RoundTrip

-----------------------------------------------------------------------------
(***************************************************************************)
(* The packed FAT.                                                         *)
(***************************************************************************)

FatByte(d, k, a) == ByteAt(d, k * FatBytes + a)

\* The disk after byte b of copy h has become v.
Store(d, h, b, v) ==
  [d EXCEPT ![b \div SectorBytes + h * SectorsPerFat] =
     [d[b \div SectorBytes + h * SectorsPerFat] EXCEPT ![b % SectorBytes] = v]]

Address == 0 .. FatBytes - 1
Disk == [Sector -> [Offset -> Byte]]

\* What is written so far, and what is still to be written.
Progress ==
  pc = "write" =>
    /\ Unpacked(entry, bytes[1], bytes[2]) = fat[entry]
    /\ \A k \in Copy :
         /\ entry % 2 = 1 => bytes[1] % 16 = FatByte(disk, k, At(entry)) % 16
         /\ entry % 2 # 1 => bytes[2] \div 16 = FatByte(disk, k, At(entry) + 1) \div 16
         /\ i = 1 => FatByte(disk, k, At(entry)) = bytes[1]
         /\ k < f => FatByte(disk, k, At(entry) + i) = bytes[i + 1]
    /\ f > 0 => sec_buf = disk[(At(entry) + i) \div SectorBytes]

\* The table stays sound, and so is what is to be written next.
Sound ==
  /\ fat[0] # 0 /\ fat[1] # 0 /\ Linked(fat)
  /\ pc \in {"write", "written"} =>
       /\ op = "allocate" => next \in {0} \cup Cluster /\ fat[entry] = EndOfChain
       /\ op = "free" => \/ next \in {0} \/ next >= EndMark
                         \/ next \in Cluster /\ fat[next] # BadCluster

IInv == TypeOK /\ EntriesKept /\ CopiesAgree /\ Progress /\ Sound

-----------------------------------------------------------------------------
\* Division by a positive number.
LEMMA DivModOf ==
  ASSUME NEW S \in Nat \ {0}, NEW a \in Nat
  PROVE  /\ a \div S \in Nat /\ a % S \in 0 .. S - 1
         /\ a = S * (a \div S) + (a % S)
OBVIOUS

\* Quotient and remainder are unique.
LEMMA Unique ==
  ASSUME NEW S \in Nat \ {0}, NEW q \in Nat, NEW r \in 0 .. S - 1,
         NEW p \in Nat, NEW t \in 0 .. S - 1, S * q + r = S * p + t
  PROVE  q = p /\ r = t
<1>1. ASSUME NEW x \in Nat, NEW y \in Nat, x < y PROVE S * y >= S * x + S
  <2>1. y - x - 1 \in Nat /\ y = x + 1 + (y - x - 1) BY <1>1
  <2>2. PICK d \in Nat : y = x + 1 + d BY <2>1
  <2>3. S * y = S * x + S + S * d BY <2>2
  <2>4. S * d \in Nat OBVIOUS
  <2> QED BY <2>3, <2>4
<1>2. S * q \in Nat /\ S * p \in Nat OBVIOUS
<1>3. ~ (q < p) /\ ~ (p < q) BY <1>1, <1>2
<1> QED BY <1>3, <1>2

\* A smaller factor and a remainder give a smaller number.
LEMMA Smaller ==
  ASSUME NEW S \in Nat \ {0}, NEW n \in Nat, NEW q \in 0 .. n - 1, NEW r \in 0 .. S - 1
  PROVE  S * q + r \in 0 .. S * n - 1
<1>1. PICK d \in Nat : n = q + 1 + d
  <2>1. n - q - 1 \in Nat /\ n = q + 1 + (n - q - 1) OBVIOUS
  <2> QED BY <2>1
<1>2. S * n = S * q + S + S * d BY <1>1
<1>3. S * d \in Nat /\ S * q \in Nat OBVIOUS
<1> QED BY <1>2, <1>3

\* Behind an even number below an even one there is one more.
LEMMA EvenBelow ==
  ASSUME NEW n \in Nat, n % 2 = 0, NEW x \in 0 .. n - 1, x % 2 = 0
  PROVE  x + 1 \in 0 .. n - 1
<1>1. x # n - 1
  <2>1. (n - 1) % 2 = 1 BY n >= 1
  <2> QED BY <2>1
<1> QED BY <1>1

\* The sizes, and the bytes of an entry.
LEMMA Sizes ==
  /\ FatBytes \in Nat \ {0} /\ FatBytes = SectorBytes * SectorsPerFat
  /\ Entries \in 4 .. 4080 /\ 2 * FatBytes = 3 * Entries /\ Entries % 2 = 0
  /\ Copies \in Nat /\ 0 \in Copy /\ 1 \in Copy
  /\ \A c \in Entry : At(c) \in Address /\ At(c) + 1 \in Address
<1>1. FatBytes \in Nat \ {0} BY PackingAssumption DEF FatBytes
<1>2. Entries \in 4 .. 4080 BY PackingAssumption
<1>3. 2 * FatBytes = 3 * Entries /\ Entries % 2 = 0
  <2>1. FatBytes % 3 = 0 BY PackingAssumption
  <2> QED BY <1>1, <2>1 DEF Entries
<1>4. \A c \in Entry : At(c) \in Address /\ At(c) + 1 \in Address
  BY <1>1, <1>2, <1>3 DEF Entry, At, Address
<1> QED BY <1>1, <1>2, <1>3, <1>4, PackingAssumption DEF FatBytes, Copy

\* Where byte a of copy k is on the disk.
LEMMA Located ==
  ASSUME NEW k \in Copy, NEW a \in Address
  PROVE  /\ (k * FatBytes + a) \div SectorBytes = a \div SectorBytes + k * SectorsPerFat
         /\ (k * FatBytes + a) % SectorBytes = a % SectorBytes
         /\ a \div SectorBytes \in 0 .. SectorsPerFat - 1 /\ a % SectorBytes \in Offset
         /\ a \div SectorBytes + k * SectorsPerFat \in Sector
         /\ a \div SectorBytes + k * SectorsPerFat < Copies * SectorsPerFat
<1> DEFINE S == SectorBytes
           n == SectorsPerFat
           q == a \div S
<1>1. S \in Nat \ {0} /\ n \in Nat \ {0} /\ k \in Nat /\ a \in Nat
  BY PackingAssumption, Sizes DEF Copy, Address
<1>2. q \in Nat /\ a % S \in 0 .. S - 1 /\ a = S * q + (a % S) BY <1>1, DivModOf
<1>3. q \in 0 .. n - 1
  <2>1. SUFFICES ASSUME q >= n PROVE FALSE BY <1>1, <1>2
  <2>2. q - n \in Nat /\ S * (q - n) \in Nat BY <1>1, <1>2, <2>1
  <2>3. S * q = S * n + S * (q - n) BY <1>1, <1>2
  <2>4. S * n \in Nat /\ a < S * n BY <1>1, Sizes DEF Address
  <2> QED BY <1>2, <2>2, <2>3, <2>4
<1>4. k * FatBytes = S * (k * n) BY <1>1, Sizes
<1>5. k * n \in Nat BY <1>1
<1>6. S * (k * n) \in Nat BY <1>1, <1>5
<1>7. k * FatBytes + a \in Nat BY <1>1, <1>4, <1>6
<1>8. S * (k * n) + S * q = S * (q + k * n) BY <1>1, <1>2, <1>5
<1>9. k * FatBytes + a = S * (q + k * n) + (a % S)
  <2>1. S * q \in Nat BY <1>1, <1>2
  <2> QED BY <1>2, <1>4, <1>6, <1>8, <2>1
<1>10. /\ (k * FatBytes + a) \div S = q + k * n
       /\ (k * FatBytes + a) % S = a % S
  <2> DEFINE m == k * FatBytes + a
  <2>1. q + k * n \in Nat /\ a % S \in 0 .. S - 1 BY <1>2, <1>5
  <2>2. m \div S \in Nat /\ m % S \in 0 .. S - 1 /\ m = S * (m \div S) + (m % S)
    BY <1>1, <1>7, DivModOf
  <2>3. S * (m \div S) + (m % S) = S * (q + k * n) + (a % S) BY <1>9, <2>2
  <2> HIDE DEF q, m, S, n
  <2>4. m \div S = q + k * n /\ m % S = a % S BY <1>1, <2>1, <2>2, <2>3, Unique
  <2> QED BY <2>4 DEF m
<1>11. q + k * n \in 0 .. n * Copies - 1
  <2>1. n * k + q \in 0 .. n * Copies - 1
    <3> HIDE DEF q
    <3> QED BY <1>1, <1>3, Smaller, PackingAssumption DEF Copy
  <2>2. n * k = k * n BY <1>1
  <2> QED BY <2>1, <2>2, <1>2, <1>5
<1>12. n * Copies = Copies * n /\ Copies * n <= LastSector /\ Copies * n \in Nat
  BY <1>1, PackingAssumption
<1> QED BY <1>2, <1>3, <1>10, <1>11, <1>12, PackingAssumption DEF Sector, Offset

\* A byte on the disk, sector and offset.
LEMMA ByteThere ==
  ASSUME NEW d, NEW k \in Copy, NEW a \in Address
  PROVE  FatByte(d, k, a) = d[a \div SectorBytes + k * SectorsPerFat][a % SectorBytes]
BY Located DEF FatByte, ByteAt

\* Different bytes are in different sectors or at different offsets.
LEMMA Apart ==
  ASSUME NEW k \in Copy, NEW a \in Address, NEW h \in Copy, NEW b \in Address,
         a \div SectorBytes + k * SectorsPerFat = b \div SectorBytes + h * SectorsPerFat
  PROVE  /\ k = h /\ a \div SectorBytes = b \div SectorBytes
         /\ a % SectorBytes = b % SectorBytes => a = b
<1> DEFINE S == SectorBytes
           n == SectorsPerFat
           q == a \div S
           p == b \div S
<1>1. S \in Nat \ {0} /\ n \in Nat \ {0} /\ k \in Nat /\ h \in Nat /\ a \in Nat /\ b \in Nat
  BY PackingAssumption, Sizes DEF Copy, Address
<1>2. q \in 0 .. n - 1 /\ p \in 0 .. n - 1 BY Located
<1>3. n * k + q = n * h + p
  <2>1. n * k = k * n /\ n * h = h * n /\ k * n \in Nat /\ h * n \in Nat BY <1>1
  <2>2. q + k * n = p + h * n OBVIOUS
  <2> HIDE DEF q, p
  <2> QED BY <2>1, <2>2, <1>2
<1>4. k = h /\ q = p
  <2> HIDE DEF q, p
  <2> QED BY <1>1, <1>2, <1>3, Unique
<1>5. a % S = b % S => a = b
  <2>1. a = S * q + (a % S) /\ b = S * p + (b % S) BY <1>1, DivModOf
  <2> QED BY <1>4, <2>1
<1> QED BY <1>4, <1>5

\* One sector write changes one byte of one copy.
LEMMA Stored ==
  ASSUME NEW d \in Disk, NEW h \in Copy, NEW b \in Address, NEW v \in Byte
  PROVE  /\ Store(d, h, b, v) \in Disk
         /\ \A s \in Sector : s >= Copies * SectorsPerFat => Store(d, h, b, v)[s] = d[s]
         /\ \A k \in Copy, a \in Address :
              FatByte(Store(d, h, b, v), k, a) = IF k = h /\ a = b THEN v ELSE FatByte(d, k, a)
<1> DEFINE e == Store(d, h, b, v)
           at == b \div SectorBytes + h * SectorsPerFat
<1>0. e = [d EXCEPT ![at] = [d[at] EXCEPT ![b % SectorBytes] = v]] BY DEF Store
<1> HIDE DEF e
<1>1. at \in Sector /\ at < Copies * SectorsPerFat /\ b % SectorBytes \in Offset BY Located
<1>2. d[at] \in [Offset -> Byte] BY <1>1 DEF Disk
<1>3. e \in Disk BY <1>0, <1>1, <1>2 DEF Disk
<1>4. \A s \in Sector : s >= Copies * SectorsPerFat => e[s] = d[s]
  <2>1. Copies * SectorsPerFat \in Nat BY PackingAssumption
  <2>2. ASSUME NEW s \in Sector, s >= Copies * SectorsPerFat PROVE s # at
    <3> HIDE DEF at
    <3> QED BY <1>1, <2>1, <2>2 DEF Sector
  <2> QED BY <1>0, <2>2 DEF Disk
<1>5. ASSUME NEW k \in Copy, NEW a \in Address
      PROVE  FatByte(e, k, a) = IF k = h /\ a = b THEN v ELSE FatByte(d, k, a)
  <2> DEFINE here == a \div SectorBytes + k * SectorsPerFat
  <2>1. here \in Sector /\ a % SectorBytes \in Offset BY Located
  <2>2. FatByte(e, k, a) = e[here][a % SectorBytes] BY ByteThere
  <2>3. FatByte(d, k, a) = d[here][a % SectorBytes] BY ByteThere
  <2>4. CASE here # at
    <3>1. ~ (k = h /\ a = b) BY <2>4
    <3>2. e[here] = d[here] BY <1>0, <2>1, <2>4, <1>1 DEF Disk
    <3> QED BY <2>2, <2>3, <3>1, <3>2
  <2>5. CASE here = at
    <3>1. k = h /\ (a % SectorBytes = b % SectorBytes => a = b) BY <2>5, Apart
    <3>2. e[here] = [d[at] EXCEPT ![b % SectorBytes] = v] BY <1>0, <2>5, <1>1 DEF Disk
    <3>3. e[here][a % SectorBytes] =
            IF a % SectorBytes = b % SectorBytes THEN v ELSE d[at][a % SectorBytes]
      BY <3>2, <1>2, <2>1
    <3> QED BY <2>2, <2>3, <2>5, <3>1, <3>3
  <2> QED BY <2>4, <2>5
<1> QED BY <1>3, <1>4, <1>5 DEF e

\* The bytes of a disk are bytes, its entries are values.
LEMMA Reading ==
  ASSUME NEW d \in Disk, NEW k \in Copy
  PROVE  /\ \A a \in Address : FatByte(d, k, a) \in Byte
         /\ \A c \in Entry : EntryOf(d, k, c) \in Value
         /\ \A c \in Entry : EntryOf(d, k, c) =
              Unpacked(c, FatByte(d, k, At(c)), FatByte(d, k, At(c) + 1))
<1>1. \A a \in Address : FatByte(d, k, a) \in Byte BY ByteThere, Located DEF Disk
<1>2. \A c \in Entry : EntryOf(d, k, c) =
              Unpacked(c, FatByte(d, k, At(c)), FatByte(d, k, At(c) + 1))
  <2> TAKE c \in Entry
  <2>1. k * FatBytes \in Nat /\ At(c) \in Nat BY Sizes DEF Copy, Address
  <2>2. k * FatBytes + At(c) + 1 = k * FatBytes + (At(c) + 1) BY <2>1
  <2> QED BY <2>2 DEF EntryOf, FatByte
<1>3. ASSUME NEW c \in Entry PROVE EntryOf(d, k, c) \in Value
  <2>1. At(c) \in Address /\ At(c) + 1 \in Address /\ c \in Nat BY Sizes DEF Entry
  <2>2. PICK x \in Byte, y \in Byte : EntryOf(d, k, c) = Unpacked(c, x, y)
    BY <2>1, <1>1, <1>2
  <2> QED BY <2>1, <2>2 DEF Unpacked, Byte, Value
<1> QED BY <1>1, <1>2, <1>3

\* fat12_read_fat_entry reads the first copy.
LEMMA ReadsFirst ==
  ASSUME NEW d \in Disk, NEW c \in Entry
  PROVE  /\ ReadEntry(d, c) = EntryOf(d, 0, c)
         /\ ByteAt(d, At(c)) = FatByte(d, 0, At(c))
         /\ ByteAt(d, At(c) + 1) = FatByte(d, 0, At(c) + 1)
<1>1. 0 * FatBytes = 0 /\ At(c) \in Nat BY Sizes DEF Address
<1>2. 0 * FatBytes + At(c) = At(c) /\ 0 * FatBytes + At(c) + 1 = At(c) + 1 
      /\ 0 * FatBytes + (At(c) + 1) = At(c) + 1 BY <1>1
<1> QED BY <1>2 DEF ReadEntry, EntryOf, FatByte

\* The two bytes that fat12_write_fat_entry makes hold the value and the bits that
\* are not this entry's.
LEMMA PackedWell ==
  ASSUME NEW c \in Entry, NEW x \in Byte, NEW y \in Byte, NEW v \in Value
  PROVE  LET word == Packed(c, x, y, v)
         IN  /\ word % 256 \in Byte /\ word \div 256 \in Byte
             /\ Unpacked(c, word % 256, word \div 256) = v
             /\ c % 2 = 1 => (word % 256) % 16 = x % 16
             /\ c % 2 # 1 => (word \div 256) \div 16 = y \div 16
<1>0. c \in Nat BY DEF Entry
<1>3. PICK word : word = Packed(c, x, y, v)
  OBVIOUS
<1> SUFFICES /\ word % 256 \in Byte /\ word \div 256 \in Byte
             /\ Unpacked(c, word % 256, word \div 256) = v
             /\ c % 2 = 1 => (word % 256) % 16 = x % 16
             /\ c % 2 # 1 => (word \div 256) \div 16 = y \div 16
  BY <1>3
<1>1. CASE c % 2 = 1
  <2>1. PICK p \in 0 .. 15 : p = (x + 256 * y) % 16 /\ p = x % 16
    BY DEF Byte
  <2>2. word = p + 16 * v
    BY <1>3, <1>1, <2>1 DEF Packed
  <2>3. v \in Nat /\ v < 4096 /\ p \in Nat /\ p < 16
    BY DEF Value
  <2>4. word \in Nat /\ word \div 16 = v /\ (word % 256) % 16 = p
    BY <2>2, <2>3
  <2>5. word \div 256 = v \div 16 /\ v \div 16 \in Nat /\ v \div 16 < 256
    BY <2>2, <2>3
  <2>6. (word % 256) + 256 * (word \div 256) = word /\ word % 256 \in Nat /\ word % 256 < 256
    BY <2>4
  <2>7. Unpacked(c, word % 256, word \div 256) = v
    BY <1>1, <2>4, <2>6 DEF Unpacked
  <2> QED BY <1>1, <2>1, <2>4, <2>5, <2>6, <2>7 DEF Byte
<1>2. CASE c % 2 # 1
  <2>1. PICK p \in 0 .. 15 : p = (x + 256 * y) \div 4096 /\ p = y \div 16
    BY DEF Byte
  <2>2. word = p * 4096 + v
    BY <1>3, <1>2, <2>1 DEF Packed
  <2>3. v \in Nat /\ v < 4096 /\ p \in Nat /\ p < 16
    BY DEF Value
  <2>4. word \in Nat /\ word % 4096 = v
    BY <2>2, <2>3
  <2>5. word \div 256 = 16 * p + (v \div 256) /\ v \div 256 \in 0 .. 15
    BY <2>2, <2>3
  <2>6. (word \div 256) \div 16 = p /\ word \div 256 \in Nat /\ word \div 256 < 256
    BY <2>3, <2>5
  <2>7. (word % 256) + 256 * (word \div 256) = word /\ word % 256 \in Nat /\ word % 256 < 256
    BY <2>4
  <2>8. Unpacked(c, word % 256, word \div 256) = v
    BY <1>2, <2>4, <2>7 DEF Unpacked
  <2> QED BY <1>2, <2>1, <2>4, <2>6, <2>7, <2>8 DEF Byte
<1> QED BY <1>1, <1>2

\* A byte of entry c changes and keeps the bits that are not c's: any other entry
\* keeps its value.
LEMMA OthersKept ==
  ASSUME NEW c \in Entry, NEW e \in Entry, e # c, NEW n \in 0 .. 1,
         NEW x \in Byte, NEW y \in Byte, NEW X \in Byte, NEW Y \in Byte,
         At(e) # At(c) + n => X = x, At(e) + 1 # At(c) + n => Y = y,
         At(e) = At(c) + n /\ n = 0 /\ c % 2 = 1 => X % 16 = x % 16,
         At(e) = At(c) + n /\ n = 1 /\ c % 2 # 1 => X \div 16 = x \div 16,
         At(e) + 1 = At(c) + n /\ n = 0 /\ c % 2 = 1 => Y % 16 = y % 16,
         At(e) + 1 = At(c) + n /\ n = 1 /\ c % 2 # 1 => Y \div 16 = y \div 16
  PROVE  Unpacked(e, X, Y) = Unpacked(e, x, y)
<1>1. c \in Nat /\ e \in Nat BY DEF Entry
<1>2. CASE At(e) = At(c) + n
  <2>1. e % 2 = 1 /\ c % 2 # 1 /\ n = 1 /\ Y = y BY <1>1, <1>2 DEF At
  <2>2. X \div 16 = x \div 16 BY <2>1, <1>2
  <2> QED BY <2>1, <2>2, <1>1 DEF Unpacked, Byte
<1>3. CASE At(e) + 1 = At(c) + n
  <2>1. e % 2 # 1 /\ c % 2 = 1 /\ n = 0 /\ X = x BY <1>1, <1>3 DEF At
  <2>2. Y % 16 = y % 16 BY <2>1, <1>3
  <2> QED BY <2>1, <2>2, <1>1 DEF Unpacked, Byte
<1> QED BY <1>2, <1>3

-----------------------------------------------------------------------------
\* The sectors of the disk at mount hold the table.
LEMMA Mounted ==
  Init => /\ disk \in Disk
          /\ \A k \in Copy, a \in Address : FatByte(disk, k, a) = TableByte(a)
          /\ \A k \in Copy, c \in Entry : EntryOf(disk, k, c) = Table[c]
<1> SUFFICES ASSUME Init
             PROVE  /\ disk \in Disk
                    /\ \A k \in Copy, a \in Address : FatByte(disk, k, a) = TableByte(a)
                    /\ \A k \in Copy, c \in Entry : EntryOf(disk, k, c) = Table[c]
  OBVIOUS
<1>1. \A a \in Address : TableByte(a) \in Byte
  <2> TAKE a \in Address
  <2>1. a \in Nat /\ 2 * (a \div 3) \in Entry /\ 2 * (a \div 3) + 1 \in Entry
    BY Sizes DEF Address, Entry
  <2>2. Table[2 * (a \div 3)] \in Value /\ Table[2 * (a \div 3) + 1] \in Value
    BY <2>1, PackingAssumption
  <2>3. a % 3 = 0 \/ a % 3 = 1 \/ a % 3 = 2 BY <2>1
  <2> HIDE DEF TableByte
  <2>4. ASSUME NEW x \in Value PROVE x % 256 \in Byte BY DEF Value, Byte
  <2>5. ASSUME NEW x \in Value PROVE x \div 16 \in Byte BY DEF Value, Byte
  <2>6. ASSUME NEW x \in Value, NEW y \in Value PROVE (x \div 256) + 16 * (y % 16) \in Byte
    BY DEF Value, Byte
  <2> QED BY <2>2, <2>3, <2>4, <2>5, <2>6 DEF TableByte
<1>2. ASSUME NEW s \in Sector, NEW o \in Offset, s < Copies * SectorsPerFat
      PROVE  (s % SectorsPerFat) * SectorBytes + o \in Address
  <2>1. s \in Nat /\ SectorsPerFat \in Nat \ {0} /\ SectorBytes \in Nat \ {0} /\ o \in 0 .. SectorBytes - 1
    BY PackingAssumption DEF Sector, Offset
  <2>2. s % SectorsPerFat \in 0 .. SectorsPerFat - 1 BY <2>1, DivModOf
  <2>3. SectorBytes * (s % SectorsPerFat) + o \in 0 .. SectorBytes * SectorsPerFat - 1
    BY <2>1, <2>2, Smaller
  <2>4. SectorBytes * (s % SectorsPerFat) = (s % SectorsPerFat) * SectorBytes BY <2>1, <2>2
  <2> QED BY <2>3, <2>4, Sizes DEF Address
<1>3. disk \in Disk
  <2> HIDE DEF TableByte
  <2>1. 0 \in Byte BY DEF Byte
  <2> QED BY <1>1, <1>2, <2>1 DEF Init, Disk
<1>4. ASSUME NEW k \in Copy, NEW a \in Address PROVE FatByte(disk, k, a) = TableByte(a)
  <2> DEFINE s == a \div SectorBytes + k * SectorsPerFat
             o == a % SectorBytes
  <2>1. s \in Sector /\ o \in Offset /\ s < Copies * SectorsPerFat
        /\ a \div SectorBytes \in 0 .. SectorsPerFat - 1 BY Located
  <2>2. a \in Nat /\ k \in Nat /\ s \in Nat /\ SectorsPerFat \in Nat \ {0} /\ SectorBytes \in Nat \ {0}
    BY <2>1, PackingAssumption, Sizes DEF Address, Copy, Sector
  <2>3. s % SectorsPerFat = a \div SectorBytes
    <3>1. SectorsPerFat * k = k * SectorsPerFat /\ k * SectorsPerFat \in Nat BY <2>2
    <3>2. s = SectorsPerFat * k + (a \div SectorBytes) BY <3>1, <2>1
    <3>3. /\ s \div SectorsPerFat \in Nat /\ s % SectorsPerFat \in 0 .. SectorsPerFat - 1
          /\ s = SectorsPerFat * (s \div SectorsPerFat) + (s % SectorsPerFat)
      BY <2>2, DivModOf
    <3> DEFINE q == a \div SectorBytes
    <3> DEFINE p == s \div SectorsPerFat
               r == s % SectorsPerFat
    <3>4. q \in 0 .. SectorsPerFat - 1 /\ r \in 0 .. SectorsPerFat - 1 /\ p \in Nat BY <2>1, <3>3
    <3>5. SectorsPerFat * k + q = SectorsPerFat * p + r BY <3>2, <3>3
    <3>6. SectorsPerFat \in Nat \ {0} /\ k \in Nat BY <2>2
    <3> HIDE DEF s, q, p, r
    <3>7. q = r BY <3>4, <3>5, <3>6, Unique
    <3> QED BY <3>7 DEF q, r
  <2>4. (s % SectorsPerFat) * SectorBytes + o = a
    <3>1. a = SectorBytes * (a \div SectorBytes) + o BY <2>2, DivModOf
    <3>2. SectorBytes * (a \div SectorBytes) = (a \div SectorBytes) * SectorBytes BY <2>1, <2>2
    <3> QED BY <2>3, <3>1, <3>2
  <2>5. FatByte(disk, k, a) = disk[s][o] BY ByteThere
  <2> HIDE DEF TableByte, s, o
  <2>6. disk[s][o] = TableByte((s % SectorsPerFat) * SectorBytes + o) BY <2>1 DEF Init
  <2> QED BY <2>4, <2>5, <2>6
<1>5. ASSUME NEW k \in Copy, NEW c \in Entry PROVE EntryOf(disk, k, c) = Table[c]
  <2>1. At(c) \in Address /\ At(c) + 1 \in Address /\ c \in Nat /\ Table[c] \in Value
    BY Sizes, PackingAssumption DEF Entry
  <2>2. EntryOf(disk, k, c) = Unpacked(c, TableByte(At(c)), TableByte(At(c) + 1))
    BY <1>3, <1>4, <2>1, Reading
  <2>3. CASE c % 2 = 0
    <3>1. At(c) % 3 = 0 /\ 2 * (At(c) \div 3) = c BY <2>1, <2>3 DEF At
    <3>2. (At(c) + 1) % 3 = 1 /\ 2 * ((At(c) + 1) \div 3) = c BY <2>1, <2>3 DEF At
    <3>3. c + 1 \in Entry
      <4>1. Entries \in Nat /\ Entries % 2 = 0 /\ c \in 0 .. Entries - 1 BY Sizes DEF Entry
      <4> QED BY <2>3, <4>1, EvenBelow DEF Entry
    <3>4. Table[c + 1] \in Value BY <3>3, PackingAssumption
    <3>5. TableByte(At(c)) = Table[c] % 256 BY <3>1 DEF TableByte
    <3>6. TableByte(At(c) + 1) = (Table[c] \div 256) + 16 * (Table[c + 1] % 16) BY <3>2 DEF TableByte
    <3>7. \A x \in Value, y \in Value :
            ((x % 256) + 256 * ((x \div 256) + 16 * (y % 16))) % 4096 = x BY SMTT(30) DEF Value
    <3> QED BY <2>1, <2>2, <2>3, <3>4, <3>5, <3>6, <3>7 DEF Unpacked
  <2>4. CASE c % 2 # 0
    <3>1. At(c) % 3 = 1 /\ 2 * (At(c) \div 3) + 1 = c BY <2>1, <2>4 DEF At
    <3>2. (At(c) + 1) % 3 = 2 /\ 2 * ((At(c) + 1) \div 3) + 1 = c BY <2>1, <2>4 DEF At
    <3>3. 2 * (At(c) \div 3) = c - 1 /\ c - 1 \in Entry
      <4>1. At(c) \in Nat /\ At(c) \div 3 \in Nat BY <2>1 DEF Address
      <4>2. c >= 1 BY <2>1, <2>4
      <4> QED BY <2>1, <3>1, <4>1, <4>2, Sizes DEF Entry
    <3>4. Table[c - 1] \in Value BY <3>3, PackingAssumption
    <3>5. TableByte(At(c)) = (Table[c - 1] \div 256) + 16 * (Table[c] % 16)
      BY <3>1, <3>3 DEF TableByte
    <3>6. TableByte(At(c) + 1) = Table[c] \div 16 BY <3>2 DEF TableByte
    <3>7. \A x \in Value, y \in Value :
            ((x \div 256) + 16 * (y % 16) + 256 * (y \div 16)) \div 16 = y BY DEF Value
    <3>8. c % 2 = 1 BY <2>1, <2>4
    <3> QED BY <2>1, <2>2, <3>4, <3>5, <3>6, <3>7, <3>8 DEF Unpacked
  <2> QED BY <2>1, <2>3, <2>4
<1> QED BY <1>3, <1>4, <1>5

\* The invariant holds after the mount.
LEMMA InitInv == Init => IInv
<1> SUFFICES ASSUME Init PROVE IInv OBVIOUS
<1>1. TypeOK
  <2>1. 2 \in Cluster /\ 0 \in Byte /\ 0 \in Value /\ 0 \in 0 .. Copies
    BY Sizes DEF Cluster, Entry, Byte, Value
  <2>2. disk \in [Sector -> [Offset -> Byte]] BY Mounted DEF Disk
  <2>3. sec_buf \in [Offset -> Byte] BY <2>1 DEF Init
  <2>4. fat \in [Entry -> Value] BY PackingAssumption DEF Init
  <2>5. bytes \in Byte \X Byte BY <2>1 DEF Init
  <2>6. pc = "idle" /\ op = "free" /\ entry = 2 /\ next = 0 /\ i = 0 /\ f = 0 BY DEF Init
  <2> QED BY <2>1, <2>2, <2>3, <2>4, <2>5, <2>6 DEF TypeOK
<1>2. EntriesKept BY Mounted DEF Init, EntriesKept
<1>3. CopiesAgree
  <2>1. \A a \in Address : ByteAt(disk, a) = FatByte(disk, 0, a)
    <3> TAKE a \in Address
    <3>1. 0 * FatBytes + a = a BY Sizes DEF Address
    <3> QED BY <3>1 DEF FatByte
  <2> HIDE DEF TableByte
  <2> QED BY <2>1, Mounted, Sizes DEF CopiesAgree, FatByte, Address
<1> QED BY <1>1, <1>2, <1>3, PackingAssumption DEF IInv, Init, Progress, Sound

-----------------------------------------------------------------------------
\* Between two entries, what is read is what the callers mean.
LEMMA ReadsFat ==
  ASSUME TypeOK, EntriesKept, pc \in {"idle", "written"}, NEW c \in Entry
  PROVE  ReadEntry(disk, c) = fat[c]
<1>1. disk \in Disk /\ ~Writing BY DEF TypeOK, Disk, Writing
<1> QED BY <1>1, ReadsFirst, Sizes DEF EntriesKept

\* The scan of fat12_allocate_cluster stays in the first copy: behind it, it sees
\* the second one, where nothing is free that was not free in the first.
LEMMA Scan ==
  ASSUME TypeOK, EntriesKept, pc = "idle", fat[0] # 0, fat[1] # 0,
         NEW c \in FreeEntries(disk), \A e \in FreeEntries(disk) : c <= e
  PROVE  c \in Cluster /\ fat[c] = 0
<1>1. /\ c \in 2 .. ScanLimit - 1 /\ ReadEntry(disk, c) = 0 /\ ScanLimit \in Nat
      /\ ScanLimit <= 2 * Entries
  BY PackingAssumption DEF FreeEntries
<1>2. disk \in Disk /\ ~Writing BY DEF TypeOK, Disk, Writing
<1>3. c < Entries
  <2>1. SUFFICES ASSUME c >= Entries PROVE FALSE BY <1>1, Sizes
  <2> DEFINE e == c - Entries
  <2>2. e \in Entry /\ e < c /\ c % 2 = e % 2 BY <1>1, <2>1, Sizes DEF Entry
  <2>3. At(c) = FatBytes + At(e) /\ At(e) \in Nat BY <1>1, <2>1, <2>2, Sizes DEF At, Address
  <2>4. 1 * FatBytes = FatBytes /\ FatBytes \in Nat BY Sizes
  <2>5. ReadEntry(disk, c) = EntryOf(disk, 1, e)
    <3>1. 1 * FatBytes + At(e) = At(c) /\ 1 * FatBytes + At(e) + 1 = At(c) + 1 BY <2>3, <2>4
    <3> QED BY <3>1, <2>2 DEF ReadEntry, EntryOf, Unpacked
  <2>6. fat[e] = 0 BY <1>1, <1>2, <2>2, <2>5, Sizes DEF EntriesKept
  <2>7. e \in 2 .. ScanLimit - 1 BY <1>1, <2>2, <2>6 DEF Entry
  <2>8. e \in FreeEntries(disk) BY <2>2, <2>6, <2>7, ReadsFat DEF FreeEntries
  <2> QED BY <2>2, <2>8, <1>1, Sizes
<1>4. c \in Cluster BY <1>1, <1>3, Sizes DEF Cluster, Entry
<1> QED BY <1>1, <1>4, ReadsFat DEF Cluster

\* A write begins.
LEMMA StartKeeps ==
  ASSUME IInv, pc \in {"idle", "written"},
         NEW o \in {"allocate", "link", "free"}, NEW c \in Cluster, NEW v \in Value, NEW n \in Value,
         Start(o, c, v, n),
         v \in {0, EndOfChain} \/ (v \in Cluster /\ fat[v] = EndOfChain),
         o = "allocate" => n \in {0} \cup Cluster /\ v = EndOfChain,
         o = "free" => \/ n \in {0} \/ n >= EndMark
                       \/ n \in Cluster /\ fat[n] # BadCluster
  PROVE  IInv'
<1> DEFINE x == FatByte(disk, 0, At(c))
           y == FatByte(disk, 0, At(c) + 1)
           word == Packed(c, x, y, v)
<1>1. /\ c \in Entry /\ c # 0 /\ c # 1 /\ c \in Nat
      /\ At(c) \in Address /\ At(c) + 1 \in Address
  BY Sizes DEF Cluster, Entry
<1>2. TypeOK /\ EntriesKept /\ CopiesAgree /\ Sound /\ ~Writing /\ disk \in Disk
  BY DEF IInv, TypeOK, Disk, Writing
<1>3. x \in Byte /\ y \in Byte BY <1>1, <1>2, Reading, Sizes
<1>4. /\ bytes' = <<word % 256, word \div 256>> /\ op' = o /\ entry' = c /\ next' = n
      /\ pc' = "write" /\ i' = 0 /\ f' = 0 /\ fat' = [fat EXCEPT ![c] = v]
      /\ UNCHANGED <<disk, sec_buf>>
  BY <1>1, <1>2, ReadsFirst DEF Start
<1>5. /\ word % 256 \in Byte /\ word \div 256 \in Byte
      /\ Unpacked(c, word % 256, word \div 256) = v
      /\ c % 2 = 1 => (word % 256) % 16 = x % 16
      /\ c % 2 # 1 => (word \div 256) \div 16 = y \div 16
  BY <1>1, <1>3, PackedWell
<1>6. TypeOK'
  <2>1. 0 \in 0 .. Copies BY Sizes
  <2>2. bytes' \in Byte \X Byte BY <1>4, <1>5
  <2>3. fat' \in [Entry -> Value] BY <1>1, <1>2, <1>4 DEF TypeOK
  <2> QED BY <1>1, <1>2, <1>4, <2>1, <2>2, <2>3 DEF TypeOK
<1>7. fat'[c] = v /\ \A e \in Entry : e # c => fat'[e] = fat[e] BY <1>1, <1>2, <1>4 DEF TypeOK
<1>8. EntriesKept' BY <1>2, <1>4, <1>7 DEF EntriesKept, Writing, EntryOf, ByteAt
<1>9. CopiesAgree' BY <1>2, <1>4 DEF CopiesAgree, Writing, ByteAt
<1>10. \A k \in Copy, a \in Address : FatByte(disk, k, a) = FatByte(disk, 0, a)
  <2> TAKE k \in Copy, a \in Address
  <2>1. 0 * FatBytes + a = a BY Sizes DEF Address
  <2> QED BY <1>2, <2>1 DEF CopiesAgree, FatByte, Address
<1>11. Progress'
  <2>1. bytes'[1] = word % 256 /\ bytes'[2] = word \div 256 BY <1>4
  <2>2. \A k \in Copy : FatByte(disk, k, At(c)) = x /\ FatByte(disk, k, At(c) + 1) = y
    BY <1>1, <1>10
  <2>3. \A k \in Copy : ~ (k < 0) BY DEF Copy
  <2> HIDE DEF word, x, y
  <2>4. Unpacked(entry, bytes[1], bytes[2])' = fat'[entry'] BY <1>4, <1>5, <1>7, <2>1 DEF Unpacked
  <2>5. \A k \in Copy : FatByte(disk, k, At(c))' = x /\ FatByte(disk, k, At(c) + 1)' = y
    BY <1>4, <2>2 DEF FatByte, ByteAt
  <2> QED BY <1>4, <1>5, <2>1, <2>3, <2>4, <2>5 DEF Progress, FatByte, ByteAt, At
<1>12. Sound'
  <2>1. 0 \in Entry /\ 1 \in Entry BY Sizes DEF Entry
  <2>2. fat'[0] # 0 /\ fat'[1] # 0 BY <1>1, <1>2, <1>7, <2>1 DEF Sound
  <2>3. Linked(fat)'
    <3> SUFFICES ASSUME NEW e \in Cluster
                 PROVE  \/ fat'[e] \in {0, BadCluster} \/ fat'[e] >= EndMark
                        \/ fat'[e] \in Cluster /\ fat'[fat'[e]] # BadCluster
      BY DEF Linked
    <3>1. v # BadCluster
      BY Sizes DEF BadCluster, EndOfChain, Cluster, Entry
    <3>2. ASSUME NEW g \in Cluster, fat[g] # BadCluster PROVE fat'[g] # BadCluster
      BY <1>7, <3>1, <3>2 DEF Cluster
    <3>3. CASE e = c
      <4>1. CASE v \in {0, EndOfChain} BY <4>1, <3>3, <1>7 DEF EndOfChain, EndMark
      <4>2. CASE v \in Cluster /\ fat[v] = EndOfChain
        <5>1. fat[v] # BadCluster BY <4>2 DEF EndOfChain, BadCluster
        <5> QED BY <4>2, <5>1, <3>2, <3>3, <1>7
      <4> QED BY <4>1, <4>2
    <3>4. CASE e # c
      <4>1. fat'[e] = fat[e] BY <3>4, <1>7 DEF Cluster
      <4>2. \/ fat[e] \in {0, BadCluster} \/ fat[e] >= EndMark
            \/ fat[e] \in Cluster /\ fat[fat[e]] # BadCluster
        BY <1>2 DEF Sound, Linked
      <4> QED BY <4>1, <4>2, <3>2
    <3> QED BY <3>3, <3>4
  <2>4. o = "allocate" => n \in {0} \cup Cluster /\ fat'[c] = EndOfChain BY <1>7
  <2>5. o = "free" => \/ n \in {0} \/ n >= EndMark
                      \/ n \in Cluster /\ fat'[n] # BadCluster
    <3>1. v # BadCluster
      BY Sizes DEF BadCluster, EndOfChain, Cluster, Entry
    <3> QED BY <1>7, <3>1 DEF Cluster
  <2> QED BY <1>4, <2>2, <2>3, <2>4, <2>5 DEF Sound
<1> QED BY <1>6, <1>8, <1>9, <1>11, <1>12 DEF IInv

\* A sector is written: byte i of the entry gets to copy h.
LEMMA StoreKeeps ==
  ASSUME IInv, pc = "write", NEW h \in Copy, h = f,
         disk' = [disk EXCEPT ![(At(entry) + i) \div SectorBytes + h * SectorsPerFat] =
                    [@ EXCEPT ![(At(entry) + i) % SectorBytes] = bytes[i + 1]]],
         pc' = pc, write' = write, i' = i, f' = f + 1, fat' = fat,
         sec_buf' = disk'[(At(entry) + i) \div SectorBytes]
  PROVE  /\ IInv'
         /\ \A s \in Sector : s >= Copies * SectorsPerFat => disk'[s] = disk[s]
<1> DEFINE b == At(entry) + i
           v == bytes[i + 1]
<1>1. TypeOK /\ EntriesKept /\ CopiesAgree /\ Progress /\ Sound /\ disk \in Disk
  BY DEF IInv, TypeOK, Disk
<1>2. /\ entry \in Entry /\ entry \in Nat /\ entry \in Cluster /\ i \in 0 .. 1 /\ f \in Nat
      /\ bytes[1] \in Byte /\ bytes[2] \in Byte
      /\ At(entry) \in Address /\ At(entry) + 1 \in Address /\ At(entry) \in Nat
  BY <1>1, Sizes DEF TypeOK, Cluster, Entry, Address
<1>3. b \in Address /\ v \in Byte
  <2>1. CASE i = 0
    <3>1. At(entry) + 0 = At(entry) BY <1>2
    <3> QED BY <1>2, <2>1, <3>1
  <2>2. CASE i = 1 BY <1>2, <2>2
  <2> QED BY <1>2, <2>1, <2>2
<1>4. /\ disk' \in Disk
      /\ \A s \in Sector : s >= Copies * SectorsPerFat => disk'[s] = disk[s]
      /\ \A k \in Copy, a \in Address :
           FatByte(disk', k, a) = IF k = h /\ a = b THEN v ELSE FatByte(disk, k, a)
  <2>1. disk' = Store(disk, h, b, v) BY DEF Store
  <2> HIDE DEF b, v
  <2>2. /\ Store(disk, h, b, v) \in Disk
        /\ \A s \in Sector : s >= Copies * SectorsPerFat => Store(disk, h, b, v)[s] = disk[s]
        /\ \A k \in Copy, a \in Address :
             FatByte(Store(disk, h, b, v), k, a) = IF k = h /\ a = b THEN v ELSE FatByte(disk, k, a)
    BY <1>1, <1>3, Stored
  <2> QED BY <2>1, <2>2
<1>5. TypeOK'
  <2>1. b \div SectorBytes \in Sector
    <3>1. b \div SectorBytes + 0 * SectorsPerFat \in Sector /\ b \div SectorBytes \in 0 .. SectorsPerFat - 1
      BY <1>3, Located, Sizes
    <3>2. 0 * SectorsPerFat = 0 BY PackingAssumption
    <3> HIDE DEF b
    <3> QED BY <3>1, <3>2, PackingAssumption
  <2>2. sec_buf' \in [Offset -> Byte] BY <1>4, <2>1 DEF Disk
  <2>3. f' \in 0 .. Copies BY <1>2, Sizes DEF Copy
  <2> QED BY <1>1, <1>4, <2>2, <2>3 DEF TypeOK, Disk, write
<1>6. EntriesKept'
  <2> SUFFICES ASSUME NEW k \in Copy, NEW e \in Entry, e # entry
               PROVE  EntryOf(disk', k, e) = fat[e]
    BY DEF EntriesKept, Writing, write
  <2> DEFINE x == FatByte(disk, k, At(e))
             y == FatByte(disk, k, At(e) + 1)
             X == FatByte(disk', k, At(e))
             Y == FatByte(disk', k, At(e) + 1)
  <2>1. EntryOf(disk, k, e) = fat[e] BY <1>1 DEF EntriesKept
  <2>2. At(e) \in Address /\ At(e) + 1 \in Address BY Sizes
  <2>3. x \in Byte /\ y \in Byte /\ X \in Byte /\ Y \in Byte BY <1>1, <1>4, <2>2, Reading
  <2>4. EntryOf(disk, k, e) = Unpacked(e, x, y) /\ EntryOf(disk', k, e) = Unpacked(e, X, Y)
    BY <1>1, <1>4, Reading
  <2>5. (At(e) # b => X = x) /\ (At(e) + 1 # b => Y = y) BY <1>4, <2>2
  <2>6. /\ b = At(entry) /\ i = 0 /\ entry % 2 = 1 => v % 16 = FatByte(disk, k, b) % 16
        /\ b = At(entry) + 1 /\ i = 1 /\ entry % 2 # 1 => v \div 16 = FatByte(disk, k, b) \div 16
    BY <1>1 DEF Progress
  <2>7. /\ At(e) = b /\ i = 0 /\ entry % 2 = 1 => X % 16 = x % 16
        /\ At(e) = b /\ i = 1 /\ entry % 2 # 1 => X \div 16 = x \div 16
        /\ At(e) + 1 = b /\ i = 0 /\ entry % 2 = 1 => Y % 16 = y % 16
        /\ At(e) + 1 = b /\ i = 1 /\ entry % 2 # 1 => Y \div 16 = y \div 16
    <3>1. i = 0 => b = At(entry) BY <1>2
    <3>2. i = 1 => b = At(entry) + 1 OBVIOUS
    <3>3. X = v \/ X = x BY <1>4, <2>2
    <3>4. Y = v \/ Y = y BY <1>4, <2>2
    <3> HIDE DEF v
    <3>5. At(e) = b => x = FatByte(disk, k, b) OBVIOUS
    <3>6. At(e) + 1 = b => y = FatByte(disk, k, b) OBVIOUS
    <3> HIDE DEF b, x, y, X, Y
    <3> QED BY <2>6, <3>1, <3>2, <3>3, <3>4, <3>5, <3>6
  <2> HIDE DEF x, y, X, Y
  <2>8. Unpacked(e, X, Y) = Unpacked(e, x, y) BY <1>2, <2>3, <2>5, <2>7, OthersKept
  <2> QED BY <2>1, <2>4, <2>8
<1>7. \A k \in Copy, a \in Address :
        (a = b \/ FatByte(disk, k, a) = FatByte(disk, 0, a))
  <2> TAKE k \in Copy, a \in Address
  <2>1. 0 * FatBytes + a = a BY Sizes DEF Address
  <2> QED BY <1>1, <2>1 DEF CopiesAgree, FatByte, Address
<1>8. CopiesAgree'
  <2> SUFFICES ASSUME NEW k \in Copy, NEW a \in Address, a # b
               PROVE  ByteAt(disk', k * FatBytes + a) = ByteAt(disk', a)
    BY ZenonT(40) DEF CopiesAgree, Writing, write, Address
  <2>1. 0 * FatBytes + a = a BY Sizes DEF Address
  <2>2. FatByte(disk', k, a) = FatByte(disk', 0, a)
    <3> HIDE DEF b, v
    <3>1. 0 \in Copy BY Sizes
    <3>2. FatByte(disk', k, a) = FatByte(disk, k, a) BY <1>4
    <3>3. FatByte(disk', 0, a) = FatByte(disk, 0, a) BY <1>4, <3>1
    <3> QED BY <1>7, <3>2, <3>3
  <2> QED BY <2>1, <2>2 DEF FatByte
<1>9. Progress'
  <2> SUFFICES
        /\ Unpacked(entry, bytes[1], bytes[2]) = fat[entry]
        /\ \A k \in Copy :
             /\ entry % 2 = 1 => bytes[1] % 16 = FatByte(disk', k, At(entry)) % 16
             /\ entry % 2 # 1 => bytes[2] \div 16 = FatByte(disk', k, At(entry) + 1) \div 16
             /\ i = 1 => FatByte(disk', k, At(entry)) = bytes[1]
             /\ k < f + 1 => FatByte(disk', k, At(entry) + i) = bytes[i + 1]
        /\ sec_buf' = disk'[(At(entry) + i) \div SectorBytes]
    BY ZenonT(40) DEF Progress, write
  <2>1. Unpacked(entry, bytes[1], bytes[2]) = fat[entry] BY <1>1 DEF Progress
  <2>2. ASSUME NEW k \in Copy
        PROVE  /\ entry % 2 = 1 => bytes[1] % 16 = FatByte(disk', k, At(entry)) % 16
               /\ entry % 2 # 1 => bytes[2] \div 16 = FatByte(disk', k, At(entry) + 1) \div 16
               /\ i = 1 => FatByte(disk', k, At(entry)) = bytes[1]
               /\ k < f + 1 => FatByte(disk', k, At(entry) + i) = bytes[i + 1]
    <3>1. /\ entry % 2 = 1 => bytes[1] % 16 = FatByte(disk, k, At(entry)) % 16
          /\ entry % 2 # 1 => bytes[2] \div 16 = FatByte(disk, k, At(entry) + 1) \div 16
          /\ i = 1 => FatByte(disk, k, At(entry)) = bytes[1]
          /\ k < f => FatByte(disk, k, At(entry) + i) = bytes[i + 1]
      BY <1>1 DEF Progress
    <3>2. FatByte(disk', k, At(entry)) =
            IF k = h /\ At(entry) = b THEN v ELSE FatByte(disk, k, At(entry)) BY <1>2, <1>4
    <3>3. FatByte(disk', k, At(entry) + 1) =
            IF k = h /\ At(entry) + 1 = b THEN v ELSE FatByte(disk, k, At(entry) + 1) BY <1>2, <1>4
    <3>4. FatByte(disk', k, b) = IF k = h THEN v ELSE FatByte(disk, k, b) BY <1>3, <1>4
    <3>5. (At(entry) = b => i = 0 /\ v = bytes[1]) /\ (At(entry) + 1 = b => i = 1 /\ v = bytes[2])
      BY <1>2
    <3>6. k < f + 1 => k < f \/ k = h BY <1>2 DEF Copy
    <3> HIDE DEF v
    <3>7. k < f + 1 => FatByte(disk', k, b) = v BY <3>1, <3>4, <3>6 DEF v
    <3>8. i = 1 => At(entry) # b BY <3>5
    <3> HIDE DEF b
    <3>9. /\ entry % 2 = 1 => bytes[1] % 16 = FatByte(disk', k, At(entry)) % 16
          /\ entry % 2 # 1 => bytes[2] \div 16 = FatByte(disk', k, At(entry) + 1) \div 16
          /\ i = 1 => FatByte(disk', k, At(entry)) = bytes[1]
      BY <3>1, <3>2, <3>3, <3>5, <3>8
    <3> QED BY <3>7, <3>9 DEF b, v
  <2> QED BY <2>1, <2>2
<1>10. Sound' BY <1>1 DEF Sound, write, Linked
<1> QED BY <1>4, <1>5, <1>6, <1>8, <1>9, <1>10 DEF IInv

\* The first copy's sector, which WriteByte has changed, is what another copy's
\* sector becomes: it differs from it in the one byte.
LEMMA Duplicates ==
  ASSUME IInv, Duplicate
  PROVE  disk' = [disk EXCEPT ![(At(entry) + i) \div SectorBytes + f * SectorsPerFat] =
                    [@ EXCEPT ![(At(entry) + i) % SectorBytes] = bytes[i + 1]]]
<1> DEFINE b == At(entry) + i
           q == b \div SectorBytes
           at == q + f * SectorsPerFat
<1>1. TypeOK /\ CopiesAgree /\ Progress /\ disk \in Disk /\ pc = "write" /\ f \in 1 .. Copies - 1
      /\ disk' = [disk EXCEPT ![at] = sec_buf]
  BY DEF IInv, TypeOK, Disk, Duplicate
<1>2. /\ entry \in Entry /\ i \in 0 .. 1 /\ f \in Copy /\ 0 < f /\ 0 \in Copy
      /\ At(entry) \in Address /\ At(entry) + 1 \in Address /\ At(entry) \in Nat
  BY <1>1, Sizes DEF TypeOK, Cluster, Copy, Address
<1>3. b \in Address BY <1>2
<1>4. sec_buf = disk[q] /\ FatByte(disk, 0, b) = bytes[i + 1] BY <1>1, <1>2 DEF Progress
<1>5. at \in Sector /\ q + 0 * SectorsPerFat \in Sector /\ q \in 0 .. SectorsPerFat - 1
  BY <1>2, <1>3, Located
<1>6. q + 0 * SectorsPerFat = q
  <2> HIDE DEF q
  <2> QED BY <1>5, PackingAssumption
<1>7. q \in Sector BY <1>5, <1>6
<1>8. sec_buf \in [Offset -> Byte] /\ disk[at] \in [Offset -> Byte] BY <1>1, <1>5 DEF TypeOK
<1>9. ASSUME NEW o \in Offset
      PROVE  sec_buf[o] = IF o = b % SectorBytes THEN bytes[i + 1] ELSE disk[at][o]
  <2> DEFINE a == SectorBytes * q + o
  <2>1. /\ SectorBytes \in Nat \ {0} /\ SectorsPerFat \in Nat /\ q \in 0 .. SectorsPerFat - 1
        /\ o \in 0 .. SectorBytes - 1
    BY <1>5, PackingAssumption DEF Offset
  <2>2. a \in Address
    <3> HIDE DEF q
    <3>1. a \in 0 .. SectorBytes * SectorsPerFat - 1 BY <2>1, Smaller
    <3> QED BY <3>1, Sizes DEF Address
  <2>3. a \div SectorBytes = q /\ a % SectorBytes = o
    <3>1. a \in Nat BY <2>2, Sizes DEF Address
    <3>2. /\ a \div SectorBytes \in Nat /\ a % SectorBytes \in 0 .. SectorBytes - 1
          /\ a = SectorBytes * (a \div SectorBytes) + (a % SectorBytes)
      BY <2>1, <3>1, DivModOf
    <3> DEFINE p == a \div SectorBytes
               r == a % SectorBytes
    <3>3. SectorBytes * p + r = SectorBytes * q + o BY <3>2
    <3>4. p \in Nat /\ r \in 0 .. SectorBytes - 1 /\ q \in Nat BY <2>1, <3>2
    <3> HIDE DEF p, r, q, a
    <3>5. p = q /\ r = o BY <2>1, <3>3, <3>4, Unique
    <3> QED BY <3>5 DEF p, r
  <2>4. FatByte(disk, 0, a) = disk[q][o] /\ FatByte(disk, f, a) = disk[at][o]
    BY <1>2, <1>6, <2>2, <2>3, ByteThere
  <2>5. o = b % SectorBytes => a = b
    <3>1. q + 0 * SectorsPerFat = a \div SectorBytes + 0 * SectorsPerFat BY <2>3
    <3> QED BY <1>2, <1>3, <2>2, <2>3, <3>1, Apart
  <2>6. o # b % SectorBytes => a # b BY <2>3
  <2>7. a # b => FatByte(disk, f, a) = FatByte(disk, 0, a)
    <3>1. 0 * FatBytes + a = a BY <2>2, Sizes DEF Address
    <3> QED BY <1>1, <1>2, <2>2, <3>1 DEF CopiesAgree, FatByte, Address
  <2> HIDE DEF a, b, q, at
  <2> QED BY <1>4, <2>4, <2>5, <2>6, <2>7
<1>10. sec_buf = [disk[at] EXCEPT ![b % SectorBytes] = bytes[i + 1]] BY <1>8, <1>9
<1> QED BY <1>1, <1>5, <1>10

\* No step breaks the invariant, and none but sector writes touches the disk.
LEMMA StepInv ==
  IInv /\ [Next]_vars =>
    /\ IInv'
    /\ \A s \in Sector : s >= Copies * SectorsPerFat => disk'[s] = disk[s]
<1> DEFINE Kept == \A s \in Sector : s >= Copies * SectorsPerFat => disk'[s] = disk[s]
<1> SUFFICES ASSUME IInv, [Next]_vars PROVE IInv' /\ Kept OBVIOUS
<1>0. TypeOK /\ EntriesKept /\ CopiesAgree /\ Progress /\ Sound BY DEF IInv
<1>s. \A c \in Cluster : c \in Entry /\ c \in Value /\ fat[c] \in Value
  <2> TAKE c \in Cluster
  <2>1. c \in Entry BY DEF Cluster
  <2>2. c \in Value BY <2>1, Sizes DEF Entry, Value
  <2>3. fat[c] \in Value BY <1>0, <2>1 DEF TypeOK
  <2> QED BY <2>1, <2>2, <2>3
<1>l. Linked(fat) BY <1>0 DEF Sound
<1>z. 0 \in Value /\ EndOfChain \in Value BY DEF Value, EndOfChain
<1>1. ASSUME NEW c \in Cluster \cup {0}, Allocate(c), c = 0 \/ fat[c] >= EndMark
      PROVE  IInv' /\ Kept
  <2>1. PICK a \in FreeEntries(disk) :
          (\A e \in FreeEntries(disk) : a <= e) /\ Start("allocate", a, EndOfChain, c)
    BY <1>1 DEF Allocate
  <2>2. pc = "idle" /\ a \in Cluster BY <1>0, <1>1, <2>1, Scan DEF Allocate, Sound
  <2>3. c \in Value BY <1>s, <1>z
  <2>4. IInv' BY <1>z, <2>1, <2>2, <2>3, StartKeeps DEF EndMark, EndOfChain, BadCluster
  <2> QED BY <2>1, <2>4 DEF Start
<1>2. ASSUME NEW c \in Cluster, FreeChain(c), fat[c] \notin {0, BadCluster} PROVE IInv' /\ Kept
  <2>1. pc = "idle" /\ ReadEntry(disk, c) = fat[c] /\ Start("free", c, 0, fat[c])
    BY <1>0, <1>2, <1>s, ReadsFat DEF FreeChain
  <2>2. fat[c] >= EndMark \/ (fat[c] \in Cluster /\ fat[fat[c]] # BadCluster)
    BY <1>l, <1>2 DEF Linked, EndMark, EndOfChain, BadCluster
  <2>3. fat[c] \in Value BY <1>s
  <2>4. IInv' BY <1>z, <2>1, <2>2, <2>3, StartKeeps DEF EndMark, EndOfChain, BadCluster
  <2> QED BY <2>1, <2>4 DEF Start
<1>3. ASSUME WriteByte PROVE IInv' /\ Kept
  <2> DEFINE q == (At(entry) + i) \div SectorBytes
  <2>1. pc = "write" /\ f = 0 /\ 0 \in Copy BY <1>3, Sizes DEF WriteByte
  <2>2. q + 0 * SectorsPerFat = q /\ q \in Sector
    <3>1. At(entry) + i \in Address BY <1>0, Sizes DEF TypeOK, Cluster, Address
    <3>2. q \in 0 .. SectorsPerFat - 1 /\ q + 0 * SectorsPerFat \in Sector BY <2>1, <3>1, Located
    <3> HIDE DEF q
    <3> QED BY <3>2, PackingAssumption
  <2>3. sec_buf' = disk'[q]
    <3> HIDE DEF q
    <3> QED BY <1>0, <1>3, <2>2 DEF WriteByte, TypeOK, q
  <2>4. disk' = [disk EXCEPT ![q + 0 * SectorsPerFat] =
                   [@ EXCEPT ![(At(entry) + i) % SectorBytes] = bytes[i + 1]]]
    BY <1>3, <2>2 DEF WriteByte
  <2>5. pc' = pc /\ write' = write /\ i' = i /\ f' = f + 1 /\ fat' = fat
    BY <1>3, <2>1 DEF WriteByte, write
  <2> QED BY <2>1, <2>3, <2>4, <2>5, StoreKeeps
<1>4. ASSUME Duplicate PROVE IInv' /\ Kept
  <2> DEFINE q == (At(entry) + i) \div SectorBytes
  <2>1. pc = "write" /\ f \in 1 .. Copies - 1 /\ f \in Copy BY <1>4, Sizes DEF Duplicate, Copy
  <2>2. disk' = [disk EXCEPT ![q + f * SectorsPerFat] =
                   [@ EXCEPT ![(At(entry) + i) % SectorBytes] = bytes[i + 1]]]
    BY <1>4, Duplicates
  <2>3. sec_buf' = disk'[q]
    <3>1. sec_buf' = sec_buf /\ sec_buf = disk[q] BY <1>0, <1>4, <2>1 DEF Progress, Duplicate
    <3>2. At(entry) + i \in Address BY <1>0, Sizes DEF TypeOK, Cluster, Address
    <3>3. 0 \in Copy /\ q \in 0 .. SectorsPerFat - 1 BY Sizes, <3>2, Located
    <3>4. q # q + f * SectorsPerFat
      <4>1. f * SectorsPerFat \in Nat \ {0}
        <5>1. f \in Nat \ {0} /\ SectorsPerFat \in Nat \ {0} BY <2>1, PackingAssumption
        <5> QED BY <5>1
      <4> HIDE DEF q
      <4> QED BY <3>3, <4>1
    <3> HIDE DEF q
    <3> QED BY <1>0, <2>2, <3>1, <3>4 DEF TypeOK
  <2>4. pc' = pc /\ write' = write /\ i' = i /\ f' = f + 1 /\ fat' = fat
    BY <1>4 DEF Duplicate, write
  <2> QED BY <2>1, <2>2, <2>3, <2>4, StoreKeeps
<1>5. ASSUME NextByte PROVE IInv' /\ Kept
  <2>1. /\ pc = "write" /\ f = Copies /\ f' = 0 /\ disk' = disk /\ sec_buf' = sec_buf
        /\ op' = op /\ entry' = entry /\ bytes' = bytes /\ next' = next /\ fat' = fat
    BY <1>5 DEF NextByte, write
  <2>2. /\ entry \in Entry /\ i \in 0 .. 1 /\ At(entry) \in Address /\ At(entry) + 1 \in Address
        /\ At(entry) \in Nat /\ disk \in Disk /\ 0 \in 0 .. Copies
    BY <1>0, Sizes DEF TypeOK, Cluster, Address, Disk
  <2>3. \A k \in Copy : k < f /\ ~ (k < 0) BY <2>1, Sizes DEF Copy
  <2>4. \A k \in Copy :
          /\ FatByte(disk, k, At(entry) + i) = bytes[i + 1]
          /\ i = 1 => FatByte(disk, k, At(entry)) = bytes[1]
    BY <1>0, <2>1, <2>3 DEF Progress
  <2>5. 0 \in Copy /\ \A k \in Copy, a \in Address :
          /\ ByteAt(disk, k * FatBytes + a) = FatByte(disk, k, a)
          /\ ByteAt(disk, a) = FatByte(disk, 0, a)
    <3>1. \A a \in Address : 0 * FatBytes + a = a BY Sizes DEF Address
    <3> QED BY <3>1, Sizes DEF FatByte
  <2>6. \A k \in Copy, a \in Address : FatByte(disk, k, a) = FatByte(disk, 0, a)
    <3> TAKE k \in Copy, a \in Address
    <3>1. CASE a # At(entry) + i BY <1>0, <2>5, <3>1 DEF CopiesAgree, Address
    <3>2. CASE a = At(entry) + i
      <4>1. FatByte(disk, k, a) = bytes[i + 1] /\ FatByte(disk, 0, a) = bytes[i + 1]
        BY <2>4, <2>5, <3>2
      <4> QED BY <4>1
    <3> QED BY <3>1, <3>2
  <2>7. CopiesAgree' BY <2>1, <2>5, <2>6 DEF CopiesAgree, Address, ByteAt
  <2>8. Kept BY <2>1
  <2>9. CASE i = 0
    <3>1. pc' = pc /\ i' = 1 BY <1>5, <2>9 DEF NextByte
    <3>2. TypeOK' BY <1>0, <2>1, <2>2, <3>1 DEF TypeOK
    <3>3. EntriesKept' BY <1>0, <2>1, <3>1 DEF EntriesKept, Writing, EntryOf, ByteAt
    <3>4. Progress'
      <4>1. At(entry) + 0 = At(entry) /\ 0 + 1 = 1 BY <2>2
      <4>2. \A k \in Copy : FatByte(disk, k, At(entry)) = bytes[1]
        <5> TAKE k \in Copy
        <5>1. FatByte(disk, k, At(entry) + i) = bytes[i + 1] BY <2>4
        <5>2. At(entry) + i = At(entry) /\ i + 1 = 1 BY <2>9, <4>1
        <5> QED BY <5>1, <5>2
      <4> QED BY <1>0, <2>1, <2>3, <3>1, <4>2 DEF Progress, FatByte, ByteAt
    <3>5. Sound' BY <1>0, <2>1, <3>1 DEF Sound, Linked
    <3> QED BY <2>7, <2>8, <3>2, <3>3, <3>4, <3>5 DEF IInv
  <2>10. CASE i = 1
    <3>1. pc' = "written" /\ i' = i BY <1>5, <2>10 DEF NextByte
    <3>2. TypeOK' BY <1>0, <2>1, <2>2, <3>1 DEF TypeOK
    <3>3. EntriesKept'
      <4>1. \A k \in Copy : EntryOf(disk, k, entry) = fat[entry]
        <5>1. Unpacked(entry, bytes[1], bytes[2]) = fat[entry] BY <1>0, <2>1 DEF Progress
        <5>2. \A k \in Copy : FatByte(disk, k, At(entry)) = bytes[1]
                               /\ FatByte(disk, k, At(entry) + 1) = bytes[2]
          <6> TAKE k \in Copy
          <6>1. FatByte(disk, k, At(entry) + i) = bytes[i + 1] /\ FatByte(disk, k, At(entry)) = bytes[1]
            BY <2>4, <2>10
          <6>2. At(entry) + i = At(entry) + 1 /\ i + 1 = 2 BY <2>10
          <6> QED BY <6>1, <6>2
        <5> QED BY <2>2, <5>1, <5>2, Reading
      <4>2. \A k \in Copy, e \in Entry : EntryOf(disk, k, e) = fat[e]
        BY <1>0, <4>1 DEF EntriesKept
      <4> QED BY <2>1, <4>2 DEF EntriesKept, EntryOf, ByteAt
    <3>4. Progress' BY <3>1 DEF Progress
    <3>5. Sound' BY <1>0, <2>1, <3>1 DEF Sound, Linked
    <3> QED BY <2>7, <2>8, <3>2, <3>3, <3>4, <3>5 DEF IInv
  <2> QED BY <2>2, <2>9, <2>10
<1>6. ASSUME Link PROVE IInv' /\ Kept
  <2>1. /\ pc = "written" /\ op = "allocate" /\ next >= 2 /\ Start("link", next, entry, 0)
        /\ next \in Cluster /\ fat[entry] = EndOfChain /\ entry \in Cluster
    BY <1>0, <1>6 DEF Link, Sound, TypeOK
  <2>2. IInv' BY <1>s, <1>z, <2>1, StartKeeps
  <2> QED BY <2>1, <2>2 DEF Start
<1>7. ASSUME FreeNext PROVE IInv' /\ Kept
  <2>1. /\ pc = "written" /\ next \in Cluster /\ fat[next] # BadCluster
        /\ Start("free", next, 0, ReadEntry(disk, next))
    <3>1. next \in 2 .. EndMark - 1 BY <1>7 DEF FreeNext
    <3>2. ~ (next \in {0} \/ next >= EndMark) BY <3>1 DEF EndMark
    <3> QED BY <1>0, <1>7, <3>2 DEF FreeNext, Sound
  <2>2. ReadEntry(disk, next) = fat[next] BY <1>0, <1>s, <2>1, ReadsFat
  <2>3. \/ fat[next] \in {0} \/ fat[next] >= EndMark
        \/ fat[next] \in Cluster /\ fat[fat[next]] # BadCluster
    BY <1>l, <2>1 DEF Linked
  <2>4. fat[next] \in Value BY <1>s, <2>1
  <2>5. IInv' BY <1>z, <2>1, <2>2, <2>3, <2>4, StartKeeps DEF EndMark, EndOfChain, BadCluster
  <2> QED BY <2>1, <2>5 DEF Start
<1>8. ASSUME Return PROVE IInv' /\ Kept
  <2>1. /\ pc = "written" /\ pc' = "idle" /\ disk' = disk /\ fat' = fat
        /\ op' = "free" /\ entry' = 2 /\ bytes' = <<0, 0>> /\ next' = 0 /\ i' = 0 /\ f' = 0
        /\ sec_buf' = [o \in Offset |-> 0]
    BY <1>8 DEF Return
  <2>2. TypeOK'
    <3>1. 2 \in Cluster /\ 0 \in Byte /\ 0 \in Value /\ 0 \in 0 .. Copies
      BY Sizes DEF Cluster, Entry, Byte, Value
    <3>2. sec_buf' \in [Offset -> Byte] BY <2>1, <3>1
    <3>3. bytes' \in Byte \X Byte BY <2>1, <3>1
    <3> QED BY <1>0, <2>1, <3>1, <3>2, <3>3 DEF TypeOK
  <2>3. EntriesKept' BY <1>0, <2>1 DEF EntriesKept, Writing, EntryOf, ByteAt
  <2>4. CopiesAgree' BY <1>0, <2>1 DEF CopiesAgree, Writing, ByteAt
  <2> QED BY <1>0, <2>1, <2>2, <2>3, <2>4 DEF IInv, Progress, Sound, Linked
<1>9. ASSUME PowerFails PROVE IInv' /\ Kept
  <2>1. /\ pc \in {"write", "written"} /\ pc' = "down" /\ disk' = disk /\ fat' = fat /\ i' = i
        /\ entry' = entry /\ f' = f /\ sec_buf' = sec_buf /\ op' = op /\ bytes' = bytes /\ next' = next
    BY <1>9 DEF PowerFails, write
  <2>2. TypeOK' BY <1>0, <2>1 DEF TypeOK
  <2>3. EntriesKept' BY <1>0, <2>1 DEF EntriesKept, Writing, EntryOf, ByteAt
  <2>4. CopiesAgree' BY <1>0, <2>1 DEF CopiesAgree, Writing, ByteAt, At
  <2> QED BY <1>0, <2>1, <2>2, <2>3, <2>4 DEF IInv, Progress, Sound, Linked
<1>10. CASE UNCHANGED vars
  <2>1. UNCHANGED <<disk, pc, op, entry, bytes, next, i, f, sec_buf, fat>> BY <1>10 DEF vars, write
  <2>2. TypeOK' BY <1>0, <2>1 DEF TypeOK
  <2>3. EntriesKept' BY <1>0, <2>1 DEF EntriesKept, Writing, EntryOf, ByteAt
  <2>4. CopiesAgree' BY <1>0, <2>1 DEF CopiesAgree, Writing, ByteAt, At
  <2>5. Progress' BY <1>0, <2>1 DEF Progress, FatByte, ByteAt, At
  <2> QED BY <1>0, <2>1, <2>2, <2>3, <2>4, <2>5 DEF IInv, Sound, Linked
<1> QED BY <1>1, <1>2, <1>3, <1>4, <1>5, <1>6, <1>7, <1>8, <1>9, <1>10 DEF Next

-----------------------------------------------------------------------------
\* The invariant holds in every state, whatever the cluster that is allocated or freed and
\* wherever the power fails.
THEOREM Invariance == Spec => []IInv
BY InitInv, StepInv, PTL DEF Spec

\* Every variable keeps its type; in particular fat12_allocate_cluster never picks
\* an entry behind the first copy.
THEOREM TypeCorrect == Spec => []TypeOK
BY Invariance, PTL DEF IInv

\* Writing an entry disturbs no other one, in no copy, also if the power fails.
THEOREM NeighboursKept == Spec => []EntriesKept
BY Invariance, PTL DEF IInv

\* The copies of the FAT differ at most in the byte that is being written.
THEOREM CopiesEqual == Spec => []CopiesAgree
BY Invariance, PTL DEF IInv

\* No write goes past the copies of the FAT.
THEOREM RootSafe == Spec => RootUntouched
<1>1. IInv /\ [Next]_vars =>
        [\A s \in Sector : s >= Copies * SectorsPerFat => disk'[s] = disk[s]]_vars
  BY StepInv
<1> QED BY <1>1, Invariance, PTL DEF Spec, RootUntouched
=============================================================================
