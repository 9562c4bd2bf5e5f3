---------------------------- MODULE ConsoleProofs ----------------------------
(***************************************************************************)
(* Theorems about the console.                                             *)
(*                                                                         *)
(* The screen, for every size of it: the next character always lies on the *)
(* screen, the cursor is where it will be, and the screen is the end of a  *)
(* roll of paper.                                                          *)
(*                                                                         *)
(* Typing, for any number of keys of each kind and any buffers: type       *)
(* correctness, that shift goes off when no shift key is held nor          *)
(* pretended and all was read, that characters come in the order in which  *)
(* they were typed, and that they are shifted as they were typed.          *)
(***************************************************************************)
EXTENDS VgaConsole, Keyboard, TLAPS

-----------------------------------------------------------------------------
\* What ScreenOK says of vga, of any screen.
Good(v) ==
  v \in [row : Row, column : Column, color : Color, buffer : [Index -> Cell],
         cursor : Word, gone : Nat, above : [0 .. v.gone - 1 -> Cell]]

\* The same, with a cursor that is right or on a cleared screen.
Fine(v) == Good(v) /\ (v.cursor = At(v) \/ At(v) = 0)

\* The paper that a screen is the end of.
Text(v) == [i \in 0 .. v.gone + Lines * Width - 1 |->
              IF i < v.gone THEN v.above[i] ELSE v.buffer[i - v.gone]]
Sheet(v) == [text |-> Text(v), top |-> v.gone, place |-> v.gone + At(v),
             column |-> v.column, color |-> v.color]

-----------------------------------------------------------------------------
(***************************************************************************)
(* Cells of the screen.                                                    *)
(***************************************************************************)
\* How large the cursor register is matters to no proof.
LEMMA WordSizeNat == WordSize \in Nat /\ WordSize > 0
  BY DEF WordSize

\* Rows above row r have less than r * Width cells.
LEMMA Sizes ==
  /\ Width \in Nat /\ Width > 0 /\ Lines \in Nat /\ Lines > 0
  /\ Lines * Width \in Nat /\ Lines * Width <= WordSize
  /\ (Lines - 1) * Width = Lines * Width - Width /\ Lines * Width >= Width
<1>1. Width \in Nat /\ Width > 0 /\ Lines \in Nat /\ Lines > 0 /\ Lines * Width <= WordSize
  BY VgaAssumption
<1>2. Lines * Width \in Nat
  BY <1>1
<1>3. PICK n \in Nat : Lines = n + 1
  <2>1. Lines - 1 \in Nat /\ Lines = (Lines - 1) + 1
    BY <1>1
  <2> QED BY <2>1
<1>4. (Lines - 1) * Width = n * Width /\ Lines * Width = n * Width + Width /\ n * Width \in Nat
  BY <1>1, <1>3
<1> QED BY <1>1, <1>2, <1>4

\* The cells of the screen, and where a row begins.
LEMMA Places ==
  ASSUME NEW r \in Row, NEW c \in Column
  PROVE  /\ r * Width + c \in Index /\ r * Width + c \in Word
         /\ r * Width \in Nat
         /\ r * Width + c = 0 <=> r = 0 /\ c = 0
         /\ (r + 1) * Width = r * Width + Width
         /\ r + 1 = Lines => r * Width + Width = Lines * Width
         /\ r + 1 # Lines => r * Width + Width + Width <= Lines * Width
<1>1. Width \in Nat /\ Width > 0 /\ Lines \in Nat /\ r \in Nat /\ c \in Nat /\ r + 1 <= Lines /\ c < Width
  BY Sizes DEF Row, Column
<1>2. PICK k \in Nat : Lines = r + 1 + k
  <2>1. Lines - (r + 1) \in Nat /\ Lines = r + 1 + (Lines - (r + 1))
    BY <1>1
  <2> QED BY <2>1
<1>3. r * Width \in Nat /\ k * Width \in Nat /\ (r + 1) * Width = r * Width + Width
      /\ Lines * Width = r * Width + Width + k * Width
  BY <1>1, <1>2
<1>4. r = 0 \/ r * Width >= Width
  <2>1. CASE r > 0
    <3>1. PICK j \in Nat : r = j + 1
      <4>1. r - 1 \in Nat /\ r = (r - 1) + 1
        BY <1>1, <2>1
      <4> QED BY <4>1
    <3>2. r * Width = j * Width + Width /\ j * Width >= 0
      BY <1>1, <3>1
    <3> QED BY <3>2, <1>1
  <2> QED BY <2>1, <1>1
<1>5. k = 0 \/ k * Width >= Width
  <2>1. CASE k > 0
    <3>1. PICK j \in Nat : k = j + 1
      <4>1. k - 1 \in Nat /\ k = (k - 1) + 1
        BY <1>1, <1>2, <2>1
      <4> QED BY <4>1
    <3>2. k * Width = j * Width + Width /\ j * Width >= 0
      BY <1>1, <3>1
    <3> QED BY <3>2, <1>1
  <2> QED BY <2>1, <1>2
<1>6. 0 * Width = 0
  BY <1>1
<1>7. r * Width + c < Lines * Width
  BY <1>1, <1>3
<1>8. r * Width + c = 0 <=> r = 0 /\ c = 0
  BY <1>1, <1>3, <1>4, <1>6
<1>9. r + 1 = Lines => r * Width + Width = Lines * Width
  BY <1>1, <1>2, <1>3, <1>6
<1>10. r + 1 # Lines => r * Width + Width + Width <= Lines * Width
  BY <1>1, <1>2, <1>3, <1>5
<1>11. r * Width + c \in Index /\ r * Width + c \in Word
  <2> DEFINE place == r * Width + c
  <2> DEFINE all == Lines * Width
  <2>1. place \in Nat /\ all \in Nat
    BY <1>1, <1>3
  <2>2. place < all
    BY <1>7
  <2>3. all <= WordSize
    BY Sizes
  <2> HIDE DEF place, all
  <2>4. place \in 0 .. all - 1 /\ place \in 0 .. WordSize - 1
    BY <2>1, <2>2, <2>3, WordSizeNat
  <2>5. place \in Index
    BY <2>4 DEF all, Index
  <2>6. place \in Word
    BY <2>4 DEF Word
  <2> QED BY <2>5, <2>6 DEF place
<1> QED BY <1>3, <1>8, <1>9, <1>10, <1>11

\* Moving the hardware's cursor to the next character makes a good screen a fine one.
LEMMA ShownFine ==
  ASSUME NEW v, Good(v)
  PROVE  /\ Fine(Shown(v)) /\ Shown(v) = [v EXCEPT !.cursor = At(v)]
<1>1. v.row \in Row /\ v.column \in Column
  BY DEF Good
<1>2. At(v) \in Word
  BY <1>1, Places, Sizes DEF At
<1>3. At(v) % WordSize = At(v)
  <2>1. \A x \in Int : x >= 0 /\ x < WordSize => x % WordSize = x
    BY WordSizeNat
  <2>2. At(v) \in Int /\ At(v) >= 0 /\ At(v) < WordSize
    <3>1. \A x \in Word : x \in Int /\ x >= 0 /\ x < WordSize
      BY WordSizeNat DEF Word
    <3> HIDE DEF At
    <3> QED BY <1>2, <3>1
  <2> HIDE DEF At
  <2> QED BY <2>1, <2>2
<1>4. Shown(v) = [v EXCEPT !.cursor = At(v)]
  BY <1>3 DEF Shown, UpdateCursor, At
<1> HIDE DEF At
<1>5. Good([v EXCEPT !.cursor = At(v)])
  BY <1>2 DEF Good
<1>6. [v EXCEPT !.cursor = At(v)].row = v.row /\ [v EXCEPT !.cursor = At(v)].column = v.column
      /\ [v EXCEPT !.cursor = At(v)].cursor = At(v)
  BY DEF Good
<1>7. At([v EXCEPT !.cursor = At(v)]) = At(v)
  BY <1>6 DEF At
<1> QED BY <1>4, <1>5, <1>6, <1>7 DEF Fine

\* What fills a cell that is cleared is a cell again.
LEMMA BlankCell == ASSUME NEW v, Good(v) PROVE Blank(v) \in Cell
BY CellAssumption DEF Good, Blank, Cell

\* Neither the cursor of the hardware nor the way to it changes what is on the paper.
LEMMA ShownSheet == ASSUME NEW v, Good(v) PROVE Sheet(Shown(v)) = Sheet(v)
<1>1. Shown(v) = [v EXCEPT !.cursor = At(v)]
  BY ShownFine
<1>2. /\ Shown(v).row = v.row /\ Shown(v).column = v.column /\ Shown(v).color = v.color
      /\ Shown(v).buffer = v.buffer /\ Shown(v).gone = v.gone /\ Shown(v).above = v.above
  BY <1>1 DEF Good
<1>3. At(Shown(v)) = At(v)
  BY <1>2 DEF At
<1> QED BY <1>2, <1>3 DEF Sheet, Text

\* The fields of a screen that has scrolled, its cursor in the last row.
LEMMA Scrolled ==
  ASSUME NEW v, Good(v), NEW w, w = [Scroll(v) EXCEPT !.row = Lines - 1]
  PROVE  /\ Good(w)
         /\ w.row = Lines - 1 /\ w.column = v.column /\ w.color = v.color
         /\ w.gone = v.gone + Width
         /\ w.above = [i \in 0 .. v.gone + Width - 1 |->
                         IF i < v.gone THEN v.above[i] ELSE v.buffer[i - v.gone]]
         /\ w.buffer = [i \in Index |-> IF i < (Lines - 1) * Width THEN v.buffer[i + Width]
                                        ELSE Blank(v)]
<1> DEFINE buffer == [i \in Index |-> IF i < (Lines - 1) * Width THEN v.buffer[i + Width] ELSE Blank(v)]
           above == [i \in 0 .. v.gone + Width - 1 |->
                       IF i < v.gone THEN v.above[i] ELSE v.buffer[i - v.gone]]
<1>1. v.gone \in Nat /\ v.buffer \in [Index -> Cell] /\ v.above \in [0 .. v.gone - 1 -> Cell]
      /\ v.column \in Column /\ v.color \in Color /\ v.cursor \in Word
  BY DEF Good
<1>2. buffer \in [Index -> Cell]
  <2>1. ASSUME NEW i \in Index, i < (Lines - 1) * Width PROVE v.buffer[i + Width] \in Cell
    <3>1. i + Width \in Index
      BY <2>1, Sizes DEF Index
    <3> QED BY <3>1, <1>1
  <2>2. Blank(v) \in Cell
    BY BlankCell
  <2> QED BY <2>1, <2>2
<1>3. above \in [0 .. v.gone + Width - 1 -> Cell]
  <2>1. ASSUME NEW i \in 0 .. v.gone + Width - 1, i < v.gone PROVE v.above[i] \in Cell
    <3>1. i \in 0 .. v.gone - 1
      BY <1>1, <2>1, Sizes
    <3> QED BY <3>1, <1>1
  <2>2. ASSUME NEW i \in 0 .. v.gone + Width - 1, ~(i < v.gone) PROVE v.buffer[i - v.gone] \in Cell
    <3>1. i - v.gone \in Index
      BY <1>1, <2>2, Sizes, SMTT(30) DEF Index
    <3> QED BY <3>1, <1>1
  <2> QED BY <2>1, <2>2
<1>4. Scroll(v) = [v EXCEPT !.buffer = buffer, !.above = above, !.gone = v.gone + Width]
  BY DEF Scroll
<1> HIDE DEF buffer, above
<1>5. w = [[v EXCEPT !.buffer = buffer, !.above = above, !.gone = v.gone + Width]
             EXCEPT !.row = Lines - 1]
  BY <1>4
<1>6. /\ w.row = Lines - 1 /\ w.column = v.column /\ w.color = v.color /\ w.cursor = v.cursor
      /\ w.gone = v.gone + Width /\ w.above = above /\ w.buffer = buffer
  BY <1>5 DEF Good
<1>7. w.gone \in Nat /\ w.row \in Row
  BY <1>1, <1>6, Sizes DEF Row
<1>8. above \in [0 .. w.gone - 1 -> Cell]
  <2>1. w.gone - 1 = v.gone + Width - 1
    BY <1>1, <1>6, Sizes
  <2> QED BY <1>3, <2>1
<1>9. Good(w)
  BY <1>1, <1>2, <1>5, <1>6, <1>7, <1>8 DEF Good
<1> QED BY <1>6, <1>9 DEF buffer, above

\* At the end of a row the paper moves up when the row was the last one.
LEMMA RowEnds ==
  ASSUME NEW v, Good(v), v.column = 0
  PROVE  /\ Good(NextRow(v))
         /\ Sheet(NextRow(v)) = OnPaper!Roll([Sheet(v) EXCEPT !.place = @ + Width])
<1>1. /\ v.gone \in Nat /\ v.buffer \in [Index -> Cell] /\ v.above \in [0 .. v.gone - 1 -> Cell]
      /\ v.row \in Row /\ v.column \in Column
  BY DEF Good
<1>2. At(v) = v.row * Width /\ v.row * Width \in Nat
  <2>1. v.row * Width \in Nat
    BY <1>1, Places
  <2> QED BY <1>1, <2>1 DEF At
<1>a. PICK g \in Nat, m \in Nat, n \in Nat : g = v.gone /\ m = v.row * Width /\ n = Lines * Width
  BY <1>1, <1>2, Sizes
<1>b. Width \in Nat /\ Width > 0 /\ n >= Width /\ (Lines - 1) * Width = n - Width
  BY <1>a, Sizes
<1> DEFINE s == [Sheet(v) EXCEPT !.place = @ + Width]
<1>3. s = [text |-> Text(v), top |-> v.gone, place |-> g + m + Width,
           column |-> v.column, color |-> v.color]
  <2>1. Sheet(v) = [text |-> Text(v), top |-> v.gone, place |-> g + m,
                    column |-> v.column, color |-> v.color]
    BY <1>2, <1>a DEF Sheet
  <2> QED BY <2>1
<1>4. CASE v.row + 1 # Lines
  <2> DEFINE w == [v EXCEPT !.row = v.row + 1]
  <2>1. NextRow(v) = w
    BY <1>4 DEF NextRow
  <2>2. v.row + 1 \in Row
    BY <1>1, <1>4, Sizes DEF Row
  <2>3. Good(w)
    BY <2>2 DEF Good
  <2>4. /\ w.row = v.row + 1 /\ w.column = v.column /\ w.color = v.color
        /\ w.buffer = v.buffer /\ w.gone = v.gone /\ w.above = v.above
    BY DEF Good
  <2> HIDE DEF w
  <2>5. (v.row + 1) * Width = v.row * Width + Width /\ v.row * Width + Width + Width <= Lines * Width
    BY <1>1, <1>4, Places
  <2>6. At(w) = m + Width
    <3>1. w.row * Width = m + Width /\ w.column = 0
      BY <2>4, <2>5, <1>a
    <3>2. At(w) = w.row * Width + w.column
      BY DEF At
    <3>3. m + Width + 0 = m + Width
      BY <1>b
    <3> QED BY <3>1, <3>2, <3>3
  <2>7. Text(w) = Text(v)
    BY <2>4 DEF Text
  <2>8. Sheet(w) = s
    <3>1. g + (m + Width) = g + m + Width
      BY <1>b
    <3> QED BY <1>3, <1>a, <2>4, <2>6, <2>7, <3>1 DEF Sheet
  <2>9. s.place < s.top + Lines * Width
    <3>1. s.place = g + m + Width /\ s.top = g
      BY <1>3, <1>a
    <3>2. m + Width + Width <= n
      BY <1>a, <2>5
    <3>3. g + m + Width < g + n
      BY <1>b, <3>2
    <3> QED BY <3>1, <3>3, <1>a
  <2>10. OnPaper!Roll(s) = s
    BY <2>9 DEF OnPaper!Roll
  <2> QED BY <2>1, <2>3, <2>8, <2>10
<1>5. CASE v.row + 1 = Lines
  <2> DEFINE w == [Scroll(v) EXCEPT !.row = Lines - 1]
  <2>1. NextRow(v) = w
    BY <1>5 DEF NextRow
  <2> HIDE DEF w
  <2>2. /\ Good(w)
        /\ w.row = Lines - 1 /\ w.column = v.column /\ w.color = v.color
        /\ w.gone = v.gone + Width
        /\ w.above = [i \in 0 .. v.gone + Width - 1 |->
                        IF i < v.gone THEN v.above[i] ELSE v.buffer[i - v.gone]]
        /\ w.buffer = [i \in Index |-> IF i < (Lines - 1) * Width THEN v.buffer[i + Width]
                                       ELSE Blank(v)]
    BY Scrolled DEF w
  <2>3. v.row * Width + Width = Lines * Width
    BY <1>1, <1>5, Places
  <2>4. At(w) = v.row * Width
    <3>1. w.row = v.row
      BY <1>1, <1>5, <2>2 DEF Row
    <3> QED BY <1>1, <1>2, <2>2, <3>1 DEF At
  <2>5. s.place = s.top + Lines * Width
    <3>1. m + Width = n
      BY <1>a, <2>3
    <3>2. g + m + Width = g + n
      BY <1>b, <3>1
    <3> QED BY <1>3, <1>a, <3>2
  <2> DEFINE text == [i \in 0 .. v.gone + Lines * Width + Width - 1 |->
                        IF i < v.gone + Lines * Width THEN Text(v)[i] ELSE Blank(v)]
  <2>6. Text(w) = text
    <3>1. DOMAIN Text(w) = 0 .. v.gone + Lines * Width + Width - 1
      <4>1. w.gone + Lines * Width - 1 = v.gone + Lines * Width + Width - 1
        <5>1. w.gone = g + Width
          BY <1>a, <2>2
        <5>2. (g + Width) + n - 1 = g + n + Width - 1
          BY <1>b
        <5> QED BY <5>1, <5>2, <1>a
      <4> QED BY <4>1 DEF Text
    <3>2. ASSUME NEW i \in 0 .. v.gone + Lines * Width + Width - 1 PROVE Text(w)[i] = text[i]
      <4>1. i \in Int /\ i >= 0 /\ i < v.gone + Lines * Width + Width
        BY <1>1, Sizes
      <4>2. Text(w)[i] = IF i < v.gone + Width THEN w.above[i] ELSE w.buffer[i - (v.gone + Width)]
        BY <2>2, <3>1 DEF Text
      <4>3. CASE i < v.gone + Width
        <5>1. w.above[i] = IF i < v.gone THEN v.above[i] ELSE v.buffer[i - v.gone]
          BY <1>1, <2>2, <4>1, <4>3, Sizes
        <5>2. i < v.gone + Lines * Width /\ i \in 0 .. v.gone + Lines * Width - 1
          <6>1. i < g + n /\ i \in 0 .. g + n - 1
            BY <1>a, <1>b, <4>1, <4>3
          <6> QED BY <6>1, <1>a
        <5>3. Text(v)[i] = IF i < v.gone THEN v.above[i] ELSE v.buffer[i - v.gone]
          BY <5>2 DEF Text
        <5> QED BY <4>2, <4>3, <5>1, <5>2, <5>3
      <4>4. CASE ~(i < v.gone + Width)
        <5> DEFINE k == i - (v.gone + Width)
        <5>1. k \in Index /\ k \in Int
          <6>1. k \in 0 .. n - 1 /\ k \in Int
            BY <1>a, <1>b, <4>1, <4>4
          <6> QED BY <6>1, <1>a DEF Index
        <5>2. w.buffer[k] = IF k < (Lines - 1) * Width THEN v.buffer[k + Width] ELSE Blank(v)
          BY <2>2, <5>1
        <5>3. k + Width = i - v.gone
          BY <1>1, <4>1, Sizes
        <5>4. k < (Lines - 1) * Width <=> i < v.gone + Lines * Width
          BY <1>1, <4>1, Sizes
        <5>5. CASE i < v.gone + Lines * Width
          <6>1. i \in 0 .. v.gone + Lines * Width - 1
            BY <1>1, <4>1, <5>5, Sizes, SMTT(30)
          <6>2. ~(i < v.gone)
            BY <1>1, <4>1, <4>4, Sizes, SMTT(30)
          <6>3. Text(v)[i] = v.buffer[i - v.gone]
            BY <6>1, <6>2 DEF Text
          <6> HIDE DEF k
          <6>4. w.buffer[k] = v.buffer[i - v.gone]
            BY <5>2, <5>3, <5>4, <5>5
          <6> QED BY <4>2, <4>4, <5>5, <6>3, <6>4 DEF k
        <5>6. CASE ~(i < v.gone + Lines * Width)
          <6>1. w.buffer[k] = Blank(v)
            BY <5>2, <5>4, <5>6
          <6> QED BY <4>2, <4>4, <5>6, <6>1
        <5> QED BY <5>5, <5>6
      <4> QED BY <4>3, <4>4
    <3>3. Text(w) = [i \in DOMAIN Text(w) |-> Text(w)[i]]
      BY DEF Text
    <3> QED BY <3>1, <3>2, <3>3
  <2>7. Sheet(w) = [text |-> text, top |-> v.gone + Width, place |-> v.gone + Width + v.row * Width,
                    column |-> v.column, color |-> v.color]
    BY <2>2, <2>4, <2>6 DEF Sheet
  <2>8. OnPaper!Roll(s) = [text |-> text, top |-> v.gone + Width,
                           place |-> g + m + Width,
                           column |-> v.column, color |-> v.color]
    <3>1. ~(s.place < s.top + Lines * Width)
      <4>1. ~(g + n < g + n)
        OBVIOUS
      <4>2. s.top = g /\ Lines * Width = n
        BY <1>3, <1>a
      <4> HIDE DEF s
      <4> QED BY <4>1, <4>2, <2>5
    <3>2. /\ s.text = Text(v) /\ s.top = v.gone /\ s.color = v.color
      BY <1>3
    <3>3. Blank(v) = <<" ", v.color>>
      BY DEF Blank
    <3>4. OnPaper!Roll(s) = [s EXCEPT !.top = v.gone + Width, !.text = text]
      BY <3>1, <3>2, <3>3 DEF OnPaper!Roll
    <3> HIDE DEF text
    <3> QED BY <1>3, <3>4
  <2>9. v.gone + Width + v.row * Width = g + m + Width
    <3>1. g + Width + m = g + m + Width
      BY <1>b
    <3> QED BY <3>1, <1>a
  <2> QED BY <2>1, <2>2, <2>7, <2>8, <2>9
<1> QED BY <1>4, <1>5

\* A character is stored in the cell that is on the paper at the same place.
LEMMA Stores ==
  ASSUME NEW v, Good(v), NEW e \in Cell, NEW w, w = [v EXCEPT !.buffer[At(v)] = e]
  PROVE  /\ Good(w)
         /\ w.row = v.row /\ w.column = v.column /\ w.color = v.color /\ w.gone = v.gone
         /\ Sheet(w) = [Sheet(v) EXCEPT !.text[v.gone + At(v)] = e]
<1>1. /\ v.gone \in Nat /\ v.buffer \in [Index -> Cell] /\ v.above \in [0 .. v.gone - 1 -> Cell]
      /\ v.row \in Row /\ v.column \in Column
  BY DEF Good
<1>2. At(v) \in Index
  BY <1>1, Places DEF At
<1> HIDE DEF At
<1>3. [v.buffer EXCEPT ![At(v)] = e] \in [Index -> Cell]
  BY <1>1
<1>4. w = [v EXCEPT !.buffer = [v.buffer EXCEPT ![At(v)] = e]]
  OBVIOUS
<1>5. Good(w)
  BY <1>3, <1>4 DEF Good
<1>6. /\ w.row = v.row /\ w.column = v.column /\ w.color = v.color /\ w.gone = v.gone
      /\ w.above = v.above /\ w.buffer = [v.buffer EXCEPT ![At(v)] = e]
  BY <1>4 DEF Good
<1>7. At(w) = At(v)
  BY <1>6 DEF At
<1> DEFINE p == v.gone + At(v)
<1>8. PICK g \in Nat, n \in Nat : g = v.gone /\ n = Lines * Width
  BY <1>1, Sizes
<1>9. At(v) \in Int /\ At(v) >= 0 /\ At(v) < n
  <2>1. \A i \in Index : i \in Int /\ i >= 0 /\ i < n
    BY <1>8 DEF Index
  <2> QED BY <1>2, <2>1
<1>10. Text(w) = [Text(v) EXCEPT ![p] = e]
  <2>1. DOMAIN Text(w) = 0 .. g + n - 1 /\ DOMAIN Text(v) = 0 .. g + n - 1
    BY <1>6, <1>8 DEF Text
  <2>2. ASSUME NEW i \in 0 .. g + n - 1
        PROVE  Text(w)[i] = [Text(v) EXCEPT ![p] = e][i]
    <3>1. /\ Text(w)[i] = IF i < g THEN v.above[i] ELSE w.buffer[i - g]
          /\ Text(v)[i] = IF i < g THEN v.above[i] ELSE v.buffer[i - g]
      BY <1>6, <1>8 DEF Text
    <3>2. [Text(v) EXCEPT ![p] = e][i] = IF i = p THEN e ELSE Text(v)[i]
      BY <2>1
    <3>3. p = g + At(v)
      BY <1>8
    <3>4. CASE i < g
      BY <1>9, <3>1, <3>2, <3>3, <3>4
    <3>5. CASE ~(i < g)
      <4>1. i - g \in Index
        <5>1. i - g \in 0 .. n - 1
          BY <3>5
        <5> QED BY <5>1, <1>8 DEF Index
      <4>2. i - g = At(v) <=> i = p
        BY <1>9, <3>3
      <4>3. w.buffer[i - g] = IF i - g = At(v) THEN e ELSE v.buffer[i - g]
        BY <1>1, <1>6, <4>1
      <4> HIDE DEF p
      <4> QED BY <3>1, <3>2, <3>5, <4>2, <4>3
    <3> QED BY <3>4, <3>5
  <2>3. Text(w) = [i \in DOMAIN Text(w) |-> Text(w)[i]]
    BY DEF Text
  <2>4. [Text(v) EXCEPT ![p] = e] = [i \in 0 .. g + n - 1 |-> [Text(v) EXCEPT ![p] = e][i]]
    BY <2>1
  <2> QED BY <2>1, <2>2, <2>3, <2>4
<1>11. Sheet(w) = [text |-> [Text(v) EXCEPT ![p] = e], top |-> v.gone, place |-> p,
                   column |-> v.column, color |-> v.color]
  BY <1>6, <1>7, <1>10 DEF Sheet
<1>12. [Sheet(v) EXCEPT !.text[p] = e]
         = [text |-> [Text(v) EXCEPT ![p] = e], top |-> v.gone, place |-> p,
            column |-> v.column, color |-> v.color]
  BY DEF Sheet
<1> QED BY <1>5, <1>6, <1>11, <1>12

\* Named, so that lemmas about them can be cited.
Moved(v, r, c) == [v EXCEPT !.row = r, !.column = c]
Page(text, top, place, column, color) ==
  [text |-> text, top |-> top, place |-> place, column |-> column, color |-> color]

Printed(text, place, cell) == [text EXCEPT ![place] = cell]
Right(column) == IF column + 1 = Width THEN 0 ELSE column + 1

\* Only the place of the next character changes.
LEMMA Moves ==
  ASSUME NEW v, Good(v), NEW r \in Row, NEW c \in Column
  PROVE  /\ Good(Moved(v, r, c))
         /\ Moved(v, r, c).row = r /\ Moved(v, r, c).column = c
         /\ Moved(v, r, c).cursor = v.cursor
         /\ Sheet(Moved(v, r, c)) = Page(Text(v), v.gone, v.gone + (r * Width + c), c, v.color)
<1>1. PICK w : w = Moved(v, r, c)
  OBVIOUS
<1>2. Good(w)
  BY <1>1 DEF Good, Moved
<1>3. /\ w.row = r /\ w.column = c /\ w.color = v.color /\ w.gone = v.gone
      /\ w.cursor = v.cursor /\ w.above = v.above /\ w.buffer = v.buffer
  BY <1>1 DEF Good, Moved
<1>4. At(w) = r * Width + c /\ Text(w) = Text(v)
  BY <1>3 DEF At, Text
<1>5. Sheet(w) = Page(Text(v), v.gone, v.gone + (r * Width + c), c, v.color)
  BY <1>3, <1>4 DEF Sheet, Page
<1> QED BY <1>1, <1>2, <1>3, <1>5

\* What Put and Roll do, field by field.
LEMMA PutFields ==
  ASSUME NEW text, NEW top, NEW place, NEW column, NEW color, NEW c
  PROVE  OnPaper!Put(Page(text, top, place, column, color), c) =
           OnPaper!Roll(Page(Printed(text, place, <<c, color>>), top, place + 1, Right(column),
                             color))
<1>1. PICK s : s = Page(text, top, place, column, color)
  OBVIOUS
<1>2. s.text = text /\ s.place = place /\ s.color = color /\ s.column = column /\ s.top = top
  BY <1>1 DEF Page
<1> DEFINE printed == Printed(text, place, <<c, color>>)
           next == Right(column)
<1>3. OnPaper!Put(s, c) = OnPaper!Roll([s EXCEPT !.text = printed, !.place = place + 1, !.column = next])
  BY <1>2 DEF OnPaper!Put, Printed, Right
<1> HIDE DEF printed, next
<1>4. PICK t : t = [s EXCEPT !.text = printed, !.place = place + 1, !.column = next]
  OBVIOUS
<1>5. t = Page(printed, top, place + 1, next, color)
  BY <1>1, <1>4 DEF Page
<1> QED BY <1>1, <1>3, <1>4, <1>5 DEF printed, next

\* A page whose place is within its rows does not roll.
LEMMA NoRoll ==
  ASSUME NEW text, NEW top, NEW place, NEW column, NEW color, place < top + Lines * Width
  PROVE  OnPaper!Roll(Page(text, top, place, column, color)) = Page(text, top, place, column, color)
<1>1. PICK s : s = Page(text, top, place, column, color)
  OBVIOUS
<1>2. s.place = place /\ s.top = top
  BY <1>1 DEF Page
<1>3. OnPaper!Roll(s) = s
  BY <1>2 DEF OnPaper!Roll
<1> QED BY <1>1, <1>3

\* A printed character, vga_terminal_putchar
LEMMA PutcharGood ==
  ASSUME NEW v, Good(v), NEW c \in Glyph
  PROVE  Fine(Putchar(v, c)) /\ Sheet(Putchar(v, c)) = OnPaper!Put(Sheet(v), c)
<1>1. v.gone \in Nat /\ v.row \in Row /\ v.column \in Column /\ v.color \in Color
  BY DEF Good
<1>2. <<c, v.color>> \in Cell
  BY <1>1 DEF Cell
<1>3. PICK e \in Cell : e = <<c, v.color>>
  BY <1>2
<1>4. PICK put : put = [v EXCEPT !.buffer[At(v)] = e]
  OBVIOUS
<1>5. /\ Good(put) /\ Sheet(put) = [Sheet(v) EXCEPT !.text[v.gone + At(v)] = e]
      /\ put.row = v.row /\ put.column = v.column /\ put.color = v.color /\ put.gone = v.gone
  BY <1>4, Stores
<1>6. PICK k \in Nat : k = v.column
  <2>1. \A x \in Column : x \in Nat
    BY Sizes DEF Column
  <2> QED BY <1>1, <2>1
<1>7. PICK m \in Nat : m = v.row * Width
  BY <1>1, Places
<1>8. PICK g \in Nat, n \in Nat : g = v.gone /\ n = Lines * Width
  BY <1>1, Sizes
<1>9. Width \in Nat /\ k < Width /\ m + Width <= n
  <2>1. \A x \in Column : x < Width
    BY Sizes DEF Column
  <2>2. \/ m + Width = n
        \/ m + Width + Width <= n
    BY <1>1, <1>7, <1>8, Places
  <2> QED BY <1>1, <1>6, <2>1, <2>2, Sizes
<1>10. At(v) = m + k
  BY <1>6, <1>7 DEF At
<1>11. Sheet(v) = Page(Text(v), g, g + (m + k), k, v.color)
  BY <1>6, <1>8, <1>10 DEF Sheet, Page
<1>12. Text(put) = [Text(v) EXCEPT ![g + (m + k)] = e]
  BY <1>5, <1>8, <1>10 DEF Sheet
<1> DEFINE t(column) == Page(Text(put), g, g + (m + k) + 1, column, v.color)
<1>13. Right(k) = IF k + 1 = Width THEN 0 ELSE k + 1
  BY DEF Right
<1>14. OnPaper!Put(Sheet(v), c) = OnPaper!Roll(t(Right(k)))
  <2>1. Text(put) = Printed(Text(v), g + (m + k), <<c, v.color>>)
    BY <1>3, <1>12 DEF Printed
  <2>2. OnPaper!Put(Page(Text(v), g, g + (m + k), k, v.color), c)
          = OnPaper!Roll(t(Right(k)))
    BY <2>1, PutFields
  <2> QED BY <1>11, <2>2
<1>15. CASE k + 1 = Width
  <2>1. 0 \in Column
    BY Sizes DEF Column
  <2>2. PICK end : end = Moved(put, v.row, 0)
    OBVIOUS
  <2>3. /\ Good(end) /\ end.column = 0
        /\ Sheet(end) = Page(Text(put), put.gone, put.gone + (v.row * Width + 0), 0, put.color)
    BY <1>1, <1>5, <2>1, <2>2, Moves
  <2>4. /\ Good(NextRow(end))
        /\ Sheet(NextRow(end)) = OnPaper!Roll([Sheet(end) EXCEPT !.place = @ + Width])
    BY <2>3, RowEnds
  <2>5. [Sheet(end) EXCEPT !.place = @ + Width] = t(0)
    <3>1. g + (m + 0) + Width = g + (m + k) + 1
      BY <1>9, <1>15
    <3>2. Sheet(end) = Page(Text(put), g, g + (m + 0), 0, v.color)
      BY <1>5, <1>7, <1>8, <2>3
    <3>3. PICK s : s = [Sheet(end) EXCEPT !.place = @ + Width]
      OBVIOUS
    <3>4. s = t(0)
      BY <3>1, <3>2, <3>3 DEF Page
    <3> QED BY <3>3, <3>4
  <2>6. Putchar(v, c) = Shown(NextRow(end))
    <3>1. end = [put EXCEPT !.column = 0]
      BY <1>5, <2>2 DEF Moved, Good
    <3> QED BY <1>3, <1>4, <1>6, <1>15, <3>1 DEF Putchar
  <2>7. Fine(Shown(NextRow(end))) /\ Sheet(Shown(NextRow(end))) = Sheet(NextRow(end))
    BY <2>4, ShownFine, ShownSheet
  <2> HIDE DEF t
  <2> QED BY <1>13, <1>14, <1>15, <2>4, <2>5, <2>6, <2>7
<1>16. CASE k + 1 # Width
  <2>1. k + 1 \in Column
    BY <1>9, <1>16 DEF Column
  <2>2. PICK right : right = Moved(put, v.row, k + 1)
    OBVIOUS
  <2>3. /\ Good(right)
        /\ Sheet(right) = Page(Text(put), put.gone, put.gone + (v.row * Width + (k + 1)), k + 1, put.color)
    BY <1>1, <1>5, <2>1, <2>2, Moves
  <2>4. Sheet(right) = t(k + 1)
    <3>1. g + (m + (k + 1)) = g + (m + k) + 1
      OBVIOUS
    <3> QED BY <1>5, <1>7, <1>8, <2>3, <3>1
  <2>5. OnPaper!Roll(t(k + 1)) = t(k + 1)
    <3>1. g + (m + k) + 1 < g + n
      BY <1>9, <1>16
    <3> QED BY <1>8, <3>1, NoRoll
  <2>6. Putchar(v, c) = Shown(right)
    <3>1. right = [put EXCEPT !.column = put.column + 1]
      BY <1>5, <1>6, <2>2 DEF Moved, Good
    <3> QED BY <1>3, <1>4, <1>6, <1>16, <3>1 DEF Putchar
  <2>7. Fine(Shown(right)) /\ Sheet(Shown(right)) = Sheet(right)
    BY <2>3, ShownFine, ShownSheet
  <2> HIDE DEF t
  <2> QED BY <1>13, <1>14, <1>16, <2>4, <2>5, <2>6, <2>7
<1> QED BY <1>15, <1>16

\* Numbers for the place of the next character.
LEMMA Numbers ==
  ASSUME NEW v, Good(v)
  PROVE  \E g \in Nat, m \in Nat, n \in Nat, k \in Nat :
           /\ g = v.gone /\ m = v.row * Width /\ n = Lines * Width /\ k = v.column
           /\ At(v) = m + k /\ k < Width /\ m + Width <= n
<1>1. v.gone \in Nat /\ v.row \in Row /\ v.column \in Column
  BY DEF Good
<1>2. PICK k \in Nat : k = v.column /\ k < Width
  <2>1. \A x \in Column : x \in Nat /\ x < Width
    BY Sizes DEF Column
  <2> QED BY <1>1, <2>1
<1>3. PICK m \in Nat : m = v.row * Width
  BY <1>1, Places
<1>4. PICK g \in Nat, n \in Nat : g = v.gone /\ n = Lines * Width
  BY <1>1, Sizes
<1>5. m + Width <= n
  <2>1. \/ m + Width = n
        \/ m + Width + Width <= n
    BY <1>1, <1>3, <1>4, Places
  <2> QED BY <2>1, Sizes
<1>6. At(v) = m + k
  BY <1>2, <1>3 DEF At
<1> QED BY <1>2, <1>3, <1>4, <1>5, <1>6

\* The sheet of a screen is the page with its text and its cursor.
LEMMA SheetPage == ASSUME NEW v PROVE Sheet(v) = Page(Text(v), v.gone, v.gone + At(v), v.column, v.color)
BY DEF Sheet, Page

\* A newline, vga_terminal_newline
LEMMA NewlineGood ==
  ASSUME NEW v, Good(v)
  PROVE  Fine(Newline(v)) /\ Sheet(Newline(v)) = OnPaper!Newline(Sheet(v))
<1>1. v.gone \in Nat /\ v.row \in Row /\ v.column \in Column /\ v.color \in Color
  BY DEF Good
<1>2. PICK g \in Nat, m \in Nat, n \in Nat, k \in Nat :
           /\ g = v.gone /\ m = v.row * Width /\ n = Lines * Width /\ k = v.column
           /\ At(v) = m + k /\ k < Width /\ m + Width <= n
  BY Numbers
<1>3. 0 \in Column
  BY Sizes DEF Column
<1>4. PICK end : end = Moved(v, v.row, 0)
  OBVIOUS
<1>5. /\ Good(end) /\ end.column = 0
      /\ Sheet(end) = Page(Text(v), v.gone, v.gone + (v.row * Width + 0), 0, v.color)
  BY <1>1, <1>3, <1>4, Moves
<1>6. /\ Good(NextRow(end))
      /\ Sheet(NextRow(end)) = OnPaper!Roll([Sheet(end) EXCEPT !.place = @ + Width])
  BY <1>5, RowEnds
<1>7. PICK t : t = Page(Text(v), g, g + m + Width, 0, v.color)
  OBVIOUS
<1>8. [Sheet(end) EXCEPT !.place = @ + Width] = t
  <2>1. g + (m + 0) + Width = g + m + Width
    BY Sizes
  <2>2. Sheet(end) = Page(Text(v), g, g + (m + 0), 0, v.color)
    BY <1>2, <1>5
  <2>3. PICK s : s = [Sheet(end) EXCEPT !.place = @ + Width]
    OBVIOUS
  <2>4. s = t
    BY <1>7, <2>1, <2>2, <2>3 DEF Page
  <2> QED BY <2>3, <2>4
<1>9. OnPaper!Newline(Sheet(v)) = OnPaper!Roll(t)
  <2>1. PICK s : s = Sheet(v)
    OBVIOUS
  <2>2. s = Page(Text(v), g, g + (m + k), k, v.color)
    BY <1>2, <2>1, SheetPage
  <2>3. s.place = g + (m + k) /\ s.column = k
    BY <2>2 DEF Page
  <2>4. s.place - s.column + Width = g + m + Width
    BY <2>3, Sizes
  <2>5. PICK place : place = g + m + Width
    OBVIOUS
  <2>6. PICK r : r = [s EXCEPT !.place = place, !.column = 0]
    OBVIOUS
  <2>7. r = Page(Text(v), g, place, 0, v.color)
    BY <2>2, <2>6 DEF Page
  <2>8. OnPaper!Newline(s) = OnPaper!Roll(r)
    BY <2>4, <2>5, <2>6 DEF OnPaper!Newline
  <2> QED BY <1>7, <2>1, <2>5, <2>7, <2>8
<1>10. Newline(v) = Shown(NextRow(end))
  <2>1. end = [v EXCEPT !.column = 0]
    BY <1>4 DEF Moved, Good
  <2> QED BY <2>1 DEF Newline
<1>11. Fine(Shown(NextRow(end))) /\ Sheet(Shown(NextRow(end))) = Sheet(NextRow(end))
  BY <1>6, ShownFine, ShownSheet
<1> QED BY <1>6, <1>8, <1>9, <1>10, <1>11

\* A backspace, vga_terminal_backspace
LEMMA BackspaceGood ==
  ASSUME NEW v, Fine(v)
  PROVE  Fine(Backspace(v)) /\ Sheet(Backspace(v)) = OnPaper!Back(Sheet(v))
<1>0. Good(v)
  BY DEF Fine
<1>1. v.gone \in Nat /\ v.row \in Row /\ v.column \in Column /\ v.color \in Color
  BY <1>0 DEF Good
<1>2. PICK g \in Nat, m \in Nat, n \in Nat, k \in Nat :
           /\ g = v.gone /\ m = v.row * Width /\ n = Lines * Width /\ k = v.column
           /\ At(v) = m + k /\ k < Width /\ m + Width <= n
  BY <1>0, Numbers
<1>3. v.row = 0 /\ v.column = 0 <=> m + k = 0
  BY <1>1, <1>2, Places
<1>4. PICK s : s = Sheet(v)
  OBVIOUS
<1>5. s = Page(Text(v), g, g + (m + k), k, v.color)
  BY <1>2, <1>4, SheetPage
<1>6. s.place = g + (m + k) /\ s.top = g /\ s.column = k /\ s.text = Text(v) /\ s.color = v.color
  BY <1>5 DEF Page
<1>7. CASE m + k = 0
  <2>1. Backspace(v) = v
    BY <1>3, <1>7 DEF Backspace
  <2>2. s.place = s.top
    BY <1>6, <1>7
  <2>3. OnPaper!Back(s) = s
    BY <2>2 DEF OnPaper!Back
  <2> QED BY <1>4, <2>1, <2>3
<1>8. CASE m + k # 0
  <2>1. PICK r \in Row, c \in Column :
           /\ r * Width + c = m + k - 1
           /\ c = IF k = 0 THEN Width - 1 ELSE k - 1
           /\ r = IF k = 0 THEN v.row - 1 ELSE v.row
    <3>1. CASE k = 0
      <4>1. v.row - 1 \in Row
        <5>1. v.row # 0
          BY <1>2, <1>3, <1>8, <3>1
        <5> QED BY <1>1, <5>1, Sizes DEF Row
      <4>2. (v.row - 1 + 1) * Width = (v.row - 1) * Width + Width /\ (v.row - 1) * Width \in Nat
        <5>1. 0 \in Column
          BY Sizes DEF Column
        <5> QED BY <4>1, <5>1, Places
      <4>3. v.row - 1 + 1 = v.row
        BY <1>1, Sizes DEF Row
      <4>4. Width - 1 \in Column
        BY Sizes DEF Column
      <4>5. m = (v.row - 1) * Width + Width
        BY <1>2, <4>2, <4>3
      <4>6. (v.row - 1) * Width + (Width - 1) = m + k - 1
        BY <3>1, <4>2, <4>5, Sizes
      <4> QED BY <3>1, <4>1, <4>4, <4>6
    <3>2. CASE k # 0
      <4>1. k - 1 \in Column
        BY <1>2, <3>2, Sizes DEF Column
      <4>2. v.row * Width + (k - 1) = m + k - 1
        BY <1>2
      <4> QED BY <1>1, <3>2, <4>1, <4>2
    <3> QED BY <3>1, <3>2
  <2>2. PICK back : back = Moved(v, r, c)
    OBVIOUS
  <2>3. /\ Good(back) /\ back.row = r /\ back.column = c
        /\ Sheet(back) = Page(Text(v), v.gone, v.gone + (r * Width + c), c, v.color)
    BY <1>0, <2>2, Moves
  <2>4. At(back) = m + k - 1 /\ back.gone = g
    <3>1. back.gone = g
      BY <1>2, <2>3 DEF Sheet, Page
    <3> QED BY <2>1, <2>3, <3>1 DEF At
  <2>5. PICK e \in Cell : e = Blank(v)
    BY <1>0, BlankCell
  <2>6. PICK w : w = [back EXCEPT !.buffer[At(back)] = e]
    OBVIOUS
  <2>7. Good(w) /\ Sheet(w) = [Sheet(back) EXCEPT !.text[back.gone + At(back)] = e]
    BY <2>3, <2>6, Stores
  <2>8. Sheet(w) = Page(Printed(Text(v), g + (m + k) - 1, e), g, g + (m + k) - 1, c, v.color)
    <3>1. g + (m + k - 1) = g + (m + k) - 1
      OBVIOUS
    <3>2. Sheet(back) = Page(Text(v), g, g + (m + k) - 1, c, v.color)
      BY <1>2, <2>1, <2>3, <3>1
    <3>3. Sheet(w) = [Sheet(back) EXCEPT !.text[g + (m + k) - 1] = e]
      BY <2>4, <2>7, <3>1
    <3>4. Sheet(w) = [Sheet(back) EXCEPT !.text = Printed(Sheet(back).text, g + (m + k) - 1, e)]
      BY <3>3 DEF Printed
    <3>5. Sheet(back).text = Text(v)
      BY <3>2 DEF Page
    <3>6. PICK x : x = Printed(Text(v), g + (m + k) - 1, e)
      OBVIOUS
    <3>7. PICK t : t = Sheet(w)
      OBVIOUS
    <3>8. t = [Sheet(back) EXCEPT !.text = x]
      BY <3>4, <3>5, <3>6, <3>7
    <3>9. t = Page(x, g, g + (m + k) - 1, c, v.color)
      BY <3>2, <3>8 DEF Page
    <3> QED BY <3>6, <3>7, <3>9
  <2>9. Backspace(v) = Shown(w)
    <3>1. CASE k = 0
      <4>1. back = [v EXCEPT !.row = v.row - 1, !.column = Width - 1]
        BY <2>1, <2>2, <3>1 DEF Moved
      <4>2. ~(v.column = 0 /\ v.row = 0)
        BY <1>3, <1>8
      <4>3. v.column = 0
        BY <1>2, <3>1
      <4> QED BY <2>5, <2>6, <4>1, <4>2, <4>3 DEF Backspace
    <3>2. CASE k # 0
      <4>1. back = [v EXCEPT !.column = v.column - 1]
        BY <1>0, <1>2, <2>1, <2>2, <3>2 DEF Moved, Good
      <4>2. v.column # 0
        BY <1>2, <3>2
      <4> QED BY <2>5, <2>6, <4>1, <4>2 DEF Backspace
    <3> QED BY <3>1, <3>2
  <2>10. OnPaper!Back(s) = Sheet(w)
    <3>1. s.place # s.top
      BY <1>6, <1>8
    <3>2. s.place - 1 = g + (m + k) - 1
      BY <1>6
    <3>3. <<" ", s.color>> = e
      BY <1>6, <2>5 DEF Blank
    <3>4. PICK x : x = Printed(Text(v), g + (m + k) - 1, e)
      OBVIOUS
    <3>5. [s.text EXCEPT ![s.place - 1] = <<" ", s.color>>] = x
      BY <1>6, <3>2, <3>3, <3>4 DEF Printed
    <3>6. PICK t : t = [s EXCEPT !.place = g + (m + k) - 1, !.column = c, !.text = x]
      OBVIOUS
    <3>7. OnPaper!Back(s) = t
      BY <1>6, <2>1, <3>1, <3>2, <3>5, <3>6 DEF OnPaper!Back
    <3>8. t = Page(x, g, g + (m + k) - 1, c, v.color)
      BY <1>5, <3>6 DEF Page
    <3> QED BY <2>8, <3>4, <3>7, <3>8
  <2>11. Fine(Shown(w)) /\ Sheet(Shown(w)) = Sheet(w)
    BY <2>7, ShownFine, ShownSheet
  <2> QED BY <1>4, <2>9, <2>10, <2>11
<1> QED BY <1>7, <1>8

\* A tabulator is four blanks, terminal_tab.
LEMMA TabGood ==
  ASSUME NEW v, Good(v)
  PROVE  /\ Fine(Tab(v))
         /\ Sheet(Tab(v)) = OnPaper!Put(OnPaper!Put(OnPaper!Put(OnPaper!Put(Sheet(v), " "), " "), " "), " ")
<1>1. " " \in Glyph
  BY CellAssumption
<1>2. \A s : Good(s) => Good(Putchar(s, " ")) /\ Fine(Putchar(s, " "))
                        /\ Sheet(Putchar(s, " ")) = OnPaper!Put(Sheet(s), " ")
  BY <1>1, PutcharGood DEF Fine
<1> HIDE DEF Good
<1>3. PICK a : a = Putchar(v, " ")
  OBVIOUS
<1>4. PICK b : b = Putchar(a, " ")
  OBVIOUS
<1>5. PICK c : c = Putchar(b, " ")
  OBVIOUS
<1>6. PICK d : d = Putchar(c, " ")
  OBVIOUS
<1>7. Good(a) /\ Sheet(a) = OnPaper!Put(Sheet(v), " ")
  BY <1>2, <1>3
<1>8. Good(b) /\ Sheet(b) = OnPaper!Put(Sheet(a), " ")
  BY <1>2, <1>4, <1>7
<1>9. Good(c) /\ Sheet(c) = OnPaper!Put(Sheet(b), " ")
  BY <1>2, <1>5, <1>8
<1>10. Fine(d) /\ Sheet(d) = OnPaper!Put(Sheet(c), " ")
  BY <1>2, <1>6, <1>9
<1>11. Tab(v) = d
  BY <1>3, <1>4, <1>5, <1>6 DEF Tab
<1> QED BY <1>7, <1>8, <1>9, <1>10, <1>11

\* Clearing the screen leaves what has scrolled off, vga_terminal_cls.
LEMMA ClsGood ==
  ASSUME NEW v, Good(v)
  PROVE  Fine(Cls(v)) /\ Sheet(Cls(v)) = OnPaper!Clear(Sheet(v))
<1>1. PICK g \in Nat, m \in Nat, n \in Nat, k \in Nat :
           /\ g = v.gone /\ m = v.row * Width /\ n = Lines * Width /\ k = v.column
           /\ At(v) = m + k /\ k < Width /\ m + Width <= n
  BY Numbers
<1>2. PICK e \in Cell : e = Blank(v)
  BY BlankCell
<1>3. PICK blank : blank = [i \in Index |-> e]
  OBVIOUS
<1>4. blank \in [Index -> Cell]
  BY <1>3
<1>5. PICK w : w = [v EXCEPT !.row = 0, !.column = 0, !.buffer = blank]
  OBVIOUS
<1>6. w = Cls(v)
  BY <1>2, <1>3, <1>5 DEF Cls
<1>7. 0 \in Row /\ 0 \in Column
  BY Sizes DEF Row, Column
<1>8. /\ w.row = 0 /\ w.column = 0 /\ w.color = v.color /\ w.gone = v.gone
      /\ w.above = v.above /\ w.buffer = blank
  BY <1>5 DEF Good
<1>9. Good(w)
  BY <1>4, <1>5, <1>7 DEF Good
<1>10. At(w) = 0
  BY <1>7, <1>8, Places DEF At
<1>11. PICK text : text = [i \in 0 .. g + n - 1 |-> IF i < g THEN Text(v)[i] ELSE e]
  OBVIOUS
<1>12. Text(w) = text
  <2>1. Text(w) = [i \in 0 .. g + n - 1 |-> IF i < g THEN v.above[i] ELSE blank[i - g]]
    BY <1>1, <1>8 DEF Text
  <2>2. ASSUME NEW i \in 0 .. g + n - 1
        PROVE  (IF i < g THEN v.above[i] ELSE blank[i - g]) = IF i < g THEN Text(v)[i] ELSE e
    <3>1. CASE i < g
      <4>1. Text(v) = [j \in 0 .. g + n - 1 |-> IF j < g THEN v.above[j] ELSE v.buffer[j - g]]
        BY <1>1 DEF Text
      <4> QED BY <3>1, <4>1
    <3>2. CASE ~(i < g)
      <4>1. i - g \in 0 .. n - 1
        BY <3>2
      <4>2. i - g \in Index
        BY <1>1, <4>1 DEF Index
      <4> QED BY <1>3, <3>2, <4>2
    <3> QED BY <3>1, <3>2
  <2> QED BY <1>11, <2>1, <2>2
<1>13. PICK s : s = Sheet(v)
  OBVIOUS
<1>14. s = Page(Text(v), g, g + (m + k), k, v.color)
  BY <1>1, <1>13, SheetPage
<1>15. s.text = Text(v) /\ s.top = g /\ s.color = v.color
  BY <1>14 DEF Page
<1>16. DOMAIN s.text = 0 .. g + n - 1
  BY <1>1, <1>15 DEF Text
<1>17. PICK t : t = [s EXCEPT !.place = g, !.column = 0, !.text = text]
  OBVIOUS
<1>18. OnPaper!Clear(s) = t
  <2>1. <<" ", s.color>> = e
    BY <1>2, <1>15 DEF Blank
  <2>2. [i \in DOMAIN s.text |-> IF i < s.top THEN s.text[i] ELSE <<" ", s.color>>] = text
    BY <1>11, <1>15, <1>16, <2>1
  <2> QED BY <1>15, <1>17, <2>2 DEF OnPaper!Clear
<1>19. t = Page(text, g, g, 0, v.color)
  BY <1>14, <1>17 DEF Page
<1>20. Sheet(w) = Page(text, g, g, 0, v.color)
  <2>1. g + 0 = g
    OBVIOUS
  <2>2. Sheet(w) = Page(Text(w), w.gone, w.gone + At(w), w.column, w.color)
    BY SheetPage
  <2> QED BY <1>1, <1>8, <1>10, <1>12, <2>1, <2>2
<1> QED BY <1>6, <1>9, <1>10, <1>13, <1>18, <1>19, <1>20 DEF Fine

\* A move to a position on the screen, terminal_update_cursor
LEMMA MoveGood ==
  ASSUME NEW v, Good(v), NEW p \in Position,
         NEW w, w = [UpdateCursor(v, p[1], p[2]) EXCEPT !.row = p[2], !.column = p[1]]
  PROVE  /\ Fine(w)
         /\ Sheet(w) = [Sheet(v) EXCEPT !.place = v.gone + (p[2] * Width + p[1]), !.column = p[1]]
<1>1. PICK c \in Column, r \in Row : p = <<c, r>>
  BY PositionAssumption
<1>2. p[1] = c /\ p[2] = r
  BY <1>1
<1>3. PICK x : x = Moved(v, r, c)
  OBVIOUS
<1>4. /\ Good(x) /\ x.row = r /\ x.column = c
      /\ Sheet(x) = Page(Text(v), v.gone, v.gone + (r * Width + c), c, v.color)
  BY <1>3, Moves
<1>5. w = Shown(x)
  <2>1. At(x) = r * Width + c
    BY <1>4 DEF At
  <2>2. PICK here : here = (r * Width + c) % WordSize
    OBVIOUS
  <2>3. w = [[v EXCEPT !.cursor = here] EXCEPT !.row = r, !.column = c]
    BY <1>2, <2>2 DEF UpdateCursor
  <2>4. Shown(x) = [x EXCEPT !.cursor = here]
    BY <1>4, <2>2 DEF Shown, UpdateCursor
  <2>5. x = [v EXCEPT !.row = r, !.column = c]
    BY <1>3 DEF Moved
  <2>6. PICK y : y = [x EXCEPT !.cursor = here]
    OBVIOUS
  <2>7. w = y
    BY <2>3, <2>5, <2>6 DEF Good
  <2> QED BY <2>4, <2>6, <2>7
<1>6. Fine(w) /\ Sheet(w) = Sheet(x)
  BY <1>4, <1>5, ShownFine, ShownSheet
<1>7. PICK place : place = v.gone + (r * Width + c)
  OBVIOUS
<1>8. PICK t : t = [Sheet(v) EXCEPT !.place = place, !.column = c]
  OBVIOUS
<1>9. t = Page(Text(v), v.gone, place, c, v.color)
  BY <1>8, SheetPage DEF Page
<1> QED BY <1>2, <1>4, <1>6, <1>7, <1>8, <1>9

\* Another colour, terminal_setcolor
LEMMA ColorGood ==
  ASSUME NEW v, Fine(v), NEW color \in Color
  PROVE  /\ Fine([v EXCEPT !.color = color])
         /\ Sheet([v EXCEPT !.color = color]) = [Sheet(v) EXCEPT !.color = color]
<1>1. PICK w : w = [v EXCEPT !.color = color]
  OBVIOUS
<1>2. Good(v)
  BY DEF Fine
<1>3. Good(w)
  BY <1>1, <1>2 DEF Good
<1>4. /\ w.row = v.row /\ w.column = v.column /\ w.color = color /\ w.gone = v.gone
      /\ w.above = v.above /\ w.buffer = v.buffer /\ w.cursor = v.cursor
  BY <1>1, <1>2 DEF Good
<1>5. At(w) = At(v) /\ Text(w) = Text(v)
  BY <1>4 DEF At, Text
<1>6. PICK t : t = [Sheet(v) EXCEPT !.color = color]
  OBVIOUS
<1>7. t = Sheet(w)
  <2>1. t = Page(Text(v), v.gone, v.gone + At(v), v.column, color)
    BY <1>6, SheetPage DEF Page
  <2>2. Sheet(w) = Page(Text(w), w.gone, w.gone + At(w), w.column, w.color)
    BY SheetPage
  <2> QED BY <1>4, <1>5, <2>1, <2>2
<1> QED BY <1>1, <1>3, <1>4, <1>5, <1>6, <1>7 DEF Fine

-----------------------------------------------------------------------------
(***************************************************************************)
(* The screen at the start.                                                *)
(***************************************************************************)
LEMMA InitGood == ScreenInit => Fine(vga) /\ OnPaper!Init
<1> SUFFICES ASSUME ScreenInit PROVE Fine(vga) /\ OnPaper!Init
  OBVIOUS
<1>1. PICK color \in Color, buffer \in Found, cursor \in FoundCursor :
        LET found(x, y) == [row |-> y, column |-> x, color |-> color, buffer |-> buffer,
                            cursor |-> cursor, gone |-> 0, above |-> [i \in 0 .. -1 |-> 0]]
        IN  \/ vga = Cls(found(0, 0))
            \/ \E x \in Column, y \in Row :
                 cursor = y * Width + x /\ vga = found(x, y)
  BY DEF ScreenInit
<1> DEFINE found(x, y) == [row |-> y, column |-> x, color |-> color, buffer |-> buffer,
                           cursor |-> cursor, gone |-> 0, above |-> [i \in 0 .. -1 |-> 0]]
<1>2. buffer \in [Index -> Cell] /\ cursor \in Word
  BY CellAssumption
<1>3. 0 \in Row /\ 0 \in Column
  BY Sizes DEF Row, Column
<1>4. PICK n \in Nat : n = Lines * Width
  BY Sizes
<1>5. Index = 0 .. n - 1
  BY <1>4 DEF Index
<1>6. ASSUME NEW x \in Column, NEW y \in Row
      PROVE  /\ Good(found(x, y)) /\ Text(found(x, y)) = buffer
             /\ found(x, y).row = y /\ found(x, y).column = x
             /\ found(x, y).gone = 0 /\ found(x, y).color = color /\ found(x, y).cursor = cursor
  <2>1. PICK none : none = [i \in 0 .. -1 |-> 0]
    OBVIOUS
  <2>2. none \in [0 .. 0 - 1 -> Cell]
    BY <2>1
  <2>3. PICK v : v = [row |-> y, column |-> x, color |-> color, buffer |-> buffer,
                      cursor |-> cursor, gone |-> 0, above |-> none]
    OBVIOUS
  <2>4. /\ v.row = y /\ v.column = x /\ v.gone = 0 /\ v.color = color /\ v.cursor = cursor
        /\ v.buffer = buffer /\ v.above = none
    BY <2>3
  <2>5. Good(v)
    BY <1>2, <2>2, <2>3, <2>4 DEF Good
  <2>6. Text(v) = buffer
    <3>1. Text(v) = [i \in 0 .. 0 + n - 1 |-> IF i < 0 THEN none[i] ELSE buffer[i - 0]]
      BY <1>4, <2>4 DEF Text
    <3>2. 0 + n - 1 = n - 1
      OBVIOUS
    <3>3. ASSUME NEW i \in 0 .. n - 1
          PROVE  (IF i < 0 THEN none[i] ELSE buffer[i - 0]) = buffer[i]
      <4>1. ~(i < 0) /\ i - 0 = i
        OBVIOUS
      <4> QED BY <4>1
    <3>4. buffer = [i \in 0 .. n - 1 |-> buffer[i]]
      BY <1>2, <1>5
    <3> QED BY <3>1, <3>2, <3>3, <3>4
  <2>7. v = found(x, y)
    BY <2>1, <2>3
  <2> HIDE DEF found
  <2> QED BY <2>4, <2>5, <2>6, <2>7
<1> HIDE DEF found
<1>7. ASSUME NEW v, Good(v), v.gone = 0,
             Text(v) \in Found \cup [0 .. Lines * Width - 1 -> {" "} \X Color]
      PROVE  Sheet(v) \in [text : Found \cup [0 .. Lines * Width - 1 -> {" "} \X Color],
                           top : {0}, place : 0 .. Lines * Width - 1, column : 0 .. Width - 1,
                           color : Color]
  <2>1. v.row \in Row /\ v.column \in Column /\ v.color \in Color
    BY <1>7 DEF Good
  <2>2. At(v) \in Index
    BY <2>1, Places DEF At
  <2>3. 0 + At(v) \in 0 .. Lines * Width - 1
    <3>1. PICK a : a = At(v)
      OBVIOUS
    <3>2. a \in 0 .. n - 1
      BY <1>5, <2>2, <3>1
    <3>3. 0 + a \in 0 .. n - 1
      BY <3>2
    <3> QED BY <1>4, <3>1, <3>3
  <2>4. v.column \in 0 .. Width - 1
    BY <2>1 DEF Column
  <2>5. PICK place : place = v.gone + At(v)
    OBVIOUS
  <2>6. place \in 0 .. Lines * Width - 1
    BY <1>7, <2>3, <2>5
  <2>7. v.gone \in {0}
    BY <1>7
  <2>8. Sheet(v) = [text |-> Text(v), top |-> v.gone, place |-> place,
                    column |-> v.column, color |-> v.color]
    BY <2>5 DEF Sheet
  <2>9. PICK texts, places : texts = Found \cup [0 .. Lines * Width - 1 -> {" "} \X Color]
                             /\ places = 0 .. Lines * Width - 1
    OBVIOUS
  <2>10. Text(v) \in texts /\ place \in places
    BY <1>7, <2>6, <2>9
  <2>11. Sheet(v) \in [text : texts, top : {0}, place : places, column : 0 .. Width - 1,
                       color : Color]
    BY <2>1, <2>4, <2>7, <2>8, <2>10
  <2> QED BY <2>9, <2>11
<1>8. OnPaper!Init <=> Sheet(vga) \in [text : Found \cup [0 .. Lines * Width - 1 -> {" "} \X Color],
                           top : {0}, place : 0 .. Lines * Width - 1, column : 0 .. Width - 1,
                           color : Color]
  BY DEF OnPaper!Init, Sheet, Cells, Text
<1>9. CASE vga = Cls(found(0, 0))
  <2>1. PICK v : v = found(0, 0)
    OBVIOUS
  <2>2. Good(v) /\ v.gone = 0 /\ v.color = color /\ Text(v) = buffer
    BY <1>3, <1>6, <2>1
  <2>3. Fine(vga) /\ Sheet(vga) = OnPaper!Clear(Sheet(v))
    BY <1>9, <2>1, <2>2, ClsGood
  <2>4. vga.gone = 0
    BY <1>9, <2>1, <2>2 DEF Cls, Good
  <2>5. vga.buffer = [i \in Index |-> <<" ", color>>]
    BY <1>9, <2>1, <2>2 DEF Cls, Good, Blank
  <2>6. Text(vga) \in [0 .. Lines * Width - 1 -> {" "} \X Color]
    <3>1. Text(vga) = [i \in 0 .. 0 + n - 1 |-> IF i < 0 THEN vga.above[i] ELSE vga.buffer[i - 0]]
      BY <1>4, <2>4 DEF Text
    <3>2. ASSUME NEW i \in 0 .. n - 1
          PROVE  (IF i < 0 THEN vga.above[i] ELSE vga.buffer[i - 0]) = <<" ", color>>
      <4>1. ~(i < 0) /\ i - 0 = i
        OBVIOUS
      <4> QED BY <1>5, <2>5, <4>1
    <3>3. 0 + n - 1 = n - 1
      OBVIOUS
    <3>4. Text(vga) = [i \in 0 .. n - 1 |-> <<" ", color>>]
      BY <3>1, <3>2, <3>3
    <3>5. PICK blank : blank = <<" ", color>>
      OBVIOUS
    <3>6. blank \in {" "} \X Color
      BY <3>5
    <3>7. Text(vga) = [i \in 0 .. n - 1 |-> blank]
      BY <3>4, <3>5
    <3> QED BY <1>4, <3>6, <3>7
  <2>7. Good(vga)
    BY <2>3 DEF Fine
  <2> HIDE DEF Good, Fine
  <2> QED BY <1>7, <1>8, <2>3, <2>4, <2>6, <2>7
<1>10. ASSUME NEW x \in Column, NEW y \in Row, cursor = y * Width + x, vga = found(x, y)
       PROVE  Fine(vga) /\ OnPaper!Init
  <2>1. Good(vga) /\ Text(vga) = buffer /\ vga.row = y /\ vga.column = x /\ vga.gone = 0
        /\ vga.cursor = cursor
    BY <1>6, <1>10
  <2>2. vga.cursor = At(vga)
    BY <1>10, <2>1 DEF At
  <2> HIDE DEF Good
  <2> QED BY <1>7, <1>8, <2>1, <2>2 DEF Fine
<1> QED BY <1>1, <1>9, <1>10 DEF found

-----------------------------------------------------------------------------
(***************************************************************************)
(* The theorems.                                                           *)
(***************************************************************************)
\* Every step leads from a fine screen to a fine screen, and is one on the paper.
LEMMA StepGood == Fine(vga) /\ [ScreenNext]_vga => Fine(vga)' /\ [OnPaper!Next]_(Sheet(vga))
<1> SUFFICES ASSUME Fine(vga), [ScreenNext]_vga PROVE Fine(vga') /\ [OnPaper!Next]_(Sheet(vga))
  BY DEF Fine, Good, At
<1>1. Good(vga)
  BY DEF Fine
<1>2. OnPaper!Next <=>
        \/ \E c \in Glyph : Sheet(vga)' = OnPaper!Put(Sheet(vga), c)
        \/ Sheet(vga)' = OnPaper!Newline(Sheet(vga))
        \/ Sheet(vga)' = OnPaper!Back(Sheet(vga))
        \/ Sheet(vga)' = OnPaper!Put(OnPaper!Put(OnPaper!Put(OnPaper!Put(Sheet(vga), " "), " "), " "), " ")
        \/ Sheet(vga)' = OnPaper!Clear(Sheet(vga))
        \/ \E p \in Position :
             Sheet(vga)' = [Sheet(vga) EXCEPT !.place = Sheet(vga).top + p[2] * Width + p[1], !.column = p[1]]
        \/ \E c \in Color : Sheet(vga)' = [Sheet(vga) EXCEPT !.color = c]
  BY DEF OnPaper!Next, Sheet, Cells, Text
<1>3. Sheet(vga)' = Sheet(vga')
  BY DEF Sheet, Text, At
<1> HIDE DEF Good, Fine
<1>4. CASE WriteGlyph
  BY <1>1, <1>2, <1>3, <1>4, PutcharGood DEF WriteGlyph, Step
<1>5. CASE WriteNewline
  BY <1>1, <1>2, <1>3, <1>5, NewlineGood DEF WriteNewline, Step
<1>6. CASE WriteBackspace
  BY <1>2, <1>3, <1>6, BackspaceGood DEF WriteBackspace, Step
<1>7. CASE WriteTab
  BY <1>1, <1>2, <1>3, <1>7, TabGood DEF WriteTab, Step
<1>8. CASE Clear
  BY <1>1, <1>2, <1>3, <1>8, ClsGood DEF Clear, Step
<1>9. CASE TerminalUpdateCursor
  <2>1. PICK p \in Position :
          vga' = [UpdateCursor(vga, p[1], p[2]) EXCEPT !.row = p[2], !.column = p[1]]
    BY <1>9 DEF TerminalUpdateCursor, Step
  <2>2. /\ Fine(vga')
        /\ Sheet(vga') = [Sheet(vga) EXCEPT !.place = vga.gone + (p[2] * Width + p[1]), !.column = p[1]]
    BY <1>1, <2>1, MoveGood, ZenonT(40)
  <2>3. Sheet(vga).top = vga.gone
    BY DEF Sheet
  <2>4. vga.gone + (p[2] * Width + p[1]) = vga.gone + p[2] * Width + p[1]
    <3>1. vga.gone \in Nat
      BY <1>1 DEF Good
    <3>2. PICK c \in Column, r \in Row : p = <<c, r>>
      BY PositionAssumption
    <3>3. PICK m \in Nat : m = r * Width
      BY <3>2, Places
    <3>4. PICK k \in Int : k = c
      BY Sizes DEF Column
    <3>5. PICK g \in Nat : g = vga.gone
      BY <3>1
    <3>6. g + (m + k) = g + m + k
      OBVIOUS
    <3>7. p[1] = c /\ p[2] = r
      BY <3>2
    <3> QED BY <3>3, <3>4, <3>5, <3>6, <3>7
  <2> QED BY <1>2, <1>3, <2>2, <2>3, <2>4
<1>10. CASE SetColor
  <2>1. PICK color \in Color : vga' = [vga EXCEPT !.color = color]
    BY <1>10 DEF SetColor, Step
  <2>2. Fine(vga') /\ Sheet(vga') = [Sheet(vga) EXCEPT !.color = color]
    BY <2>1, ColorGood
  <2> QED BY <1>2, <1>3, <2>2
<1>11. CASE UNCHANGED vga
  BY <1>3, <1>11
<1> QED BY <1>4, <1>5, <1>6, <1>7, <1>8, <1>9, <1>10, <1>11 DEF ScreenNext

\* The next character is on the screen, and the cursor is there or the screen is clear.
THEOREM AlwaysFine == ScreenSpec => []Fine(vga)
<1> QED
  BY InitGood, StepGood, PTL DEF ScreenSpec

\* Type correctness of the screen.
THEOREM ScreenTypeCorrect == ScreenSpec => []ScreenOK
<1>1. Fine(vga) => ScreenOK
  BY DEF Fine, Good, ScreenOK
<1> QED
  BY <1>1, AlwaysFine, PTL

\* The cursor that is seen is where the next character goes, or the screen is clear.
THEOREM CursorTrue == ScreenSpec => []CursorShown
<1>1. Fine(vga) => CursorShown
  BY DEF Fine, CursorShown
<1> QED
  BY <1>1, AlwaysFine, PTL

\* Every screen is the end of a roll of paper that is printed on in order.
THEOREM Implements == ScreenSpec => ImplementsPaper
<1>1. ScreenInit => OnPaper!Init
  BY InitGood
<1>2. Fine(vga) /\ [ScreenNext]_vga
        => [OnPaper!Next]_[text |-> Cells, top |-> vga.gone, place |-> vga.gone + At(vga),
                           column |-> vga.column, color |-> vga.color]
  BY StepGood DEF Sheet, Cells, Text
<1> QED
  BY <1>1, <1>2, AlwaysFine, PTL DEF ScreenSpec, ImplementsPaper, OnPaper!Spec

-----------------------------------------------------------------------------
\* No shift key in s.
NoShifts(s) == \A i \in 1 .. Len(s) : s[i].key \notin Shifts

\* Reading s up to the scancode before the i-th leaves shift at v: it is v and stays so, or
\* the last scancode of a shift key says v.
Leads(s, shift, i, v) ==
  \/ v = shift /\ \A k \in 1 .. i - 1 : s[k].key \notin Shifts
  \/ \E j \in 1 .. i - 1 :
       s[j].key \in Shifts /\ v = ~s[j].up /\ \A k \in 1 .. i - 1 : k > j => s[k].key \notin Shifts

\* Reading all of s leaves shift off.
Settles(s, shift) == Leads(s, shift, Len(s) + 1, FALSE)

Settling == ~lost /\ ~ShiftHeld /\ down \cap Raising = {} => Settles(queue, is_shift_pressed)

IInv == TypeOK /\ Settling

-----------------------------------------------------------------------------
(***************************************************************************)
(* Sequences of scancodes.                                                 *)
(***************************************************************************)
\* What comes behind a scancode does not matter for it.
LEMMA LeadsBefore ==
  ASSUME NEW s \in Seq(Scancode), NEW t \in Seq(Scancode), NEW shift, NEW v,
         NEW i \in 1 .. Len(s) + 1, Leads(s, shift, i, v)
  PROVE  Leads(s \o t, shift, i, v)
<1>1. Len(s) \in Nat /\ \A k \in 1 .. i - 1 : k \in 1 .. Len(s)
  OBVIOUS
<1>2. \A k \in 1 .. i - 1 : (s \o t)[k] = s[k]
  BY <1>1
<1> QED BY <1>2 DEF Leads

\* More scancodes that are not of shift keys change nothing.
LEMMA MoreLeads ==
  ASSUME NEW s \in Seq(Scancode), NEW t \in Seq(Scancode), NEW shift, NEW v,
         Leads(s, shift, Len(s) + 1, v), NoShifts(t)
  PROVE  Leads(s \o t, shift, Len(s \o t) + 1, v)
<1>1. Len(s \o t) = Len(s) + Len(t) /\ Len(s) \in Nat /\ Len(t) \in Nat
  OBVIOUS
<1>2. Len(s) + 1 - 1 = Len(s) /\ Len(s \o t) + 1 - 1 = Len(s \o t)
  BY <1>1
<1>3. \A k \in 1 .. Len(s) : (s \o t)[k] = s[k] /\ k \in 1 .. Len(s \o t)
  BY <1>1
<1>4. \A k \in 1 .. Len(s \o t) : k > Len(s) => (s \o t)[k].key \notin Shifts
  <2>1. TAKE k \in 1 .. Len(s \o t)
  <2>2. HAVE k > Len(s)
  <2>3. k - Len(s) \in 1 .. Len(t) /\ (s \o t)[k] = t[k - Len(s)]
    BY <1>1, <2>2
  <2> QED BY <2>3 DEF NoShifts
<1>5. \A k \in 1 .. Len(s \o t) : k \in 1 .. Len(s) \/ k > Len(s)
  BY <1>1
<1> QED BY <1>2, <1>3, <1>4, <1>5 DEF Leads

\* A scancode of a shift key settles it.
LEMMA ShiftLeads ==
  ASSUME NEW s \in Seq(Scancode), NEW code \in Scancode, code.key \in Shifts, NEW shift
  PROVE  Leads(s \o <<code>>, shift, Len(s \o <<code>>) + 1, ~code.up)
<1>1. PICK t : t = s \o <<code>>
  OBVIOUS
<1>2. Len(t) = Len(s) + 1 /\ Len(s) \in Nat /\ t[Len(s) + 1] = code
  BY <1>1
<1>3. /\ Len(t) + 1 - 1 = Len(t) /\ Len(t) \in 1 .. Len(t) /\ \A k \in 1 .. Len(t) : ~(k > Len(t))
      /\ t[Len(t)] = code
  BY <1>2
<1>4. Leads(t, shift, Len(t) + 1, ~code.up)
  BY <1>3 DEF Leads
<1> QED BY <1>1, <1>4

\* And so do scancodes that end with one of a shift key.
LEMMA EndsLeads ==
  ASSUME NEW s \in Seq(Scancode), NEW t \in Seq(Scancode), NEW code \in Scancode,
         code.key \in Shifts, NEW shift
  PROVE  Leads(s \o (t \o <<code>>), shift, Len(s \o (t \o <<code>>)) + 1, ~code.up)
<1>1. s \o t \in Seq(Scancode) /\ s \o (t \o <<code>>) = (s \o t) \o <<code>>
  OBVIOUS
<1> QED BY <1>1, ShiftLeads

\* Reading a scancode leads to what it would lead to.
LEMMA ReadLeads ==
  ASSUME NEW s \in Seq(Scancode), s # <<>>, NEW shift, NEW v, NEW i \in 2 .. Len(s) + 1,
         Leads(s, shift, i, v)
  PROVE  Leads(Tail(s), IF Head(s).key \in Shifts THEN ~Head(s).up ELSE shift, i - 1, v)
<1>1. Len(Tail(s)) = Len(s) - 1 /\ Len(s) \in Nat /\ Len(s) > 0 /\ i \in Nat /\ i >= 2
  OBVIOUS
<1>2. \A k \in 1 .. i - 1 - 1 : k + 1 \in 1 .. i - 1 /\ Tail(s)[k] = s[k + 1]
  BY <1>1
<1>3. Head(s) = s[1] /\ 1 \in 1 .. i - 1
  BY <1>1
<1>4. CASE v = shift /\ \A k \in 1 .. i - 1 : s[k].key \notin Shifts
  <2>1. Head(s).key \notin Shifts /\ \A k \in 1 .. i - 1 - 1 : Tail(s)[k].key \notin Shifts
    BY <1>2, <1>3, <1>4
  <2> QED BY <1>4, <2>1 DEF Leads
<1>5. ASSUME NEW j \in 1 .. i - 1, s[j].key \in Shifts, v = ~s[j].up,
             \A k \in 1 .. i - 1 : k > j => s[k].key \notin Shifts
      PROVE  Leads(Tail(s), IF Head(s).key \in Shifts THEN ~Head(s).up ELSE shift, i - 1, v)
  <2>1. CASE j = 1
    <3>1. \A k \in 1 .. i - 1 - 1 : Tail(s)[k].key \notin Shifts
      BY <1>1, <1>2, <1>5, <2>1
    <3>2. Head(s).key \in Shifts /\ v = ~Head(s).up
      BY <1>3, <1>5, <2>1
    <3> QED BY <3>1, <3>2 DEF Leads
  <2>2. CASE j # 1
    <3>1. PICK m \in 1 .. i - 1 - 1 : j = m + 1
      <4>1. j - 1 \in 1 .. i - 1 - 1 /\ j = (j - 1) + 1
        BY <1>1, <2>2
      <4> QED BY <4>1
    <3>2. Tail(s)[m] = s[j]
      BY <1>2, <3>1
    <3>3. \A k \in 1 .. i - 1 - 1 : k > m => Tail(s)[k].key \notin Shifts
      BY <1>1, <1>2, <1>5, <3>1
    <3> QED BY <1>5, <3>2, <3>3 DEF Leads
  <2> QED BY <2>1, <2>2
<1> QED BY <1>4, <1>5 DEF Leads

-----------------------------------------------------------------------------
(***************************************************************************)
(* What the keyboard sends.                                                *)
(***************************************************************************)
\* What comes in is the codes, or their beginning when there is no room.
LEMMA Sent ==
  ASSUME TypeOK, NEW codes \in Seq(Scancode), Send(codes)
  PROVE  \E t \in Seq(Scancode) :
           /\ queue' = queue \o t /\ Len(queue') <= Depth /\ lost' \in BOOLEAN
           /\ lost' = FALSE => lost = FALSE /\ t = codes
           /\ \A i \in 1 .. Len(t) : i \in 1 .. Len(codes) /\ t[i] = codes[i]
           /\ Len(queue) + Len(codes) <= Depth => t = codes
           /\ Len(queue) + Len(codes) > Depth => Len(t) < Len(codes)
<1>1. queue \in Seq(Scancode) /\ Len(queue) <= Depth /\ lost \in BOOLEAN
  BY DEF TypeOK
<1>2. Depth \in Nat /\ Len(queue) \in Nat /\ Len(codes) \in Nat
  BY <1>1, KeyboardAssumption
<1>3. PICK room \in Nat : room = Depth - Len(queue)
  <2>1. Depth - Len(queue) \in Nat
    BY <1>1, <1>2
  <2> QED BY <2>1
<1>4. PICK n \in Nat : n = IF Len(codes) < room THEN Len(codes) ELSE room
  BY <1>2
<1>5. n <= Len(codes) /\ n <= room
  BY <1>2, <1>4
<1>6. PICK t : t = SubSeq(codes, 1, n)
  OBVIOUS
<1>7. t \in Seq(Scancode) /\ Len(t) = n /\ \A i \in 1 .. n : t[i] = codes[i]
  BY <1>2, <1>5, <1>6
<1>8. queue' = queue \o t /\ lost' = (lost \/ Len(codes) > room)
  BY <1>3, <1>4, <1>6 DEF Send
<1>9. Len(queue \o t) = Len(queue) + n
  <2>1. Len(queue \o t) = Len(queue) + Len(t)
    BY <1>1, <1>7
  <2> QED BY <1>7, <2>1
<1>10. Len(queue') <= Depth
  BY <1>2, <1>3, <1>5, <1>8, <1>9
<1>11. lost' = FALSE => lost = FALSE /\ t = codes
  <2>1. lost' = FALSE => lost = FALSE /\ ~(Len(codes) > room)
    BY <1>1, <1>8
  <2>2. ~(Len(codes) > room) => n = Len(codes)
    BY <1>2, <1>4
  <2>3. n = Len(codes) => t = codes
    BY <1>6, <1>7
  <2> QED BY <2>1, <2>2, <2>3
<1>13. lost' \in BOOLEAN
  BY <1>8
<1>14. \A i \in 1 .. Len(t) : i \in 1 .. Len(codes) /\ t[i] = codes[i]
  <2>1. \A i \in 1 .. n : i \in 1 .. Len(codes)
    BY <1>2, <1>5
  <2> QED BY <1>7, <2>1
<1>15. Len(queue) + Len(codes) <= Depth => t = codes
  <2>1. Len(queue) + Len(codes) <= Depth => n = Len(codes)
    BY <1>2, <1>3, <1>4
  <2>2. n = Len(codes) => t = codes
    BY <1>6, <1>7
  <2> QED BY <2>1, <2>2
<1>16. Len(queue) + Len(codes) > Depth => Len(t) < Len(codes)
  BY <1>2, <1>3, <1>5, <1>7
<1> QED BY <1>7, <1>8, <1>10, <1>11, <1>13, <1>14, <1>15, <1>16

\* No press of a key with a character in s.
Silent(s) == \A i \in 1 .. Len(s) : s[i].key \notin Plain \/ s[i].up

\* Two silent sequences make one.
LEMMA SilentBoth ==
  ASSUME NEW s \in Seq(Scancode), NEW t \in Seq(Scancode), Silent(s), Silent(t)
  PROVE  Silent(s \o t)
<1>1. Len(s \o t) = Len(s) + Len(t) /\ Len(s) \in Nat /\ Len(t) \in Nat
  OBVIOUS
<1> SUFFICES ASSUME NEW i \in 1 .. Len(s \o t) PROVE (s \o t)[i].key \notin Plain \/ (s \o t)[i].up
  BY DEF Silent
<1>2. CASE i \in 1 .. Len(s)
  <2>1. (s \o t)[i] = s[i]
    BY <1>1, <1>2
  <2> QED BY <1>2, <2>1 DEF Silent
<1>3. CASE i \notin 1 .. Len(s)
  <2>1. i - Len(s) \in 1 .. Len(t) /\ (s \o t)[i] = t[i - Len(s)]
    BY <1>1, <1>3
  <2> QED BY <2>1 DEF Silent
<1> QED BY <1>2, <1>3

\* Two sequences with no shift key make one.
LEMMA NoShiftsBoth ==
  ASSUME NEW s \in Seq(Scancode), NEW t \in Seq(Scancode), NoShifts(s), NoShifts(t)
  PROVE  NoShifts(s \o t)
<1>1. Len(s \o t) = Len(s) + Len(t) /\ Len(s) \in Nat /\ Len(t) \in Nat
  OBVIOUS
<1> SUFFICES ASSUME NEW i \in 1 .. Len(s \o t) PROVE (s \o t)[i].key \notin Shifts
  BY DEF NoShifts
<1>2. CASE i \in 1 .. Len(s)
  <2>1. (s \o t)[i] = s[i]
    BY <1>1, <1>2
  <2> QED BY <1>2, <2>1 DEF NoShifts
<1>3. CASE i \notin 1 .. Len(s)
  <2>1. i - Len(s) \in 1 .. Len(t) /\ (s \o t)[i] = t[i - Len(s)]
    BY <1>1, <1>3
  <2> QED BY <2>1 DEF NoShifts
<1> QED BY <1>2, <1>3

\* The prefix, a press and a release are scancodes; the prefix is no key of any kind.
LEMMA Single ==
  /\ Release("prefix") \in Scancode /\ <<Release("prefix")>> \in Seq(Scancode)
  /\ Silent(<<Release("prefix")>>) /\ NoShifts(<<Release("prefix")>>)
  /\ \A key \in Keys : /\ Press(key) \in Scancode /\ Press(key).key = key /\ ~Press(key).up
                       /\ Release(key) \in Scancode /\ Release(key).key = key /\ Release(key).up
  /\ <<>> \in Seq(Scancode) /\ Silent(<<>>) /\ NoShifts(<<>>)
<1>1. PICK prefix : prefix = Release("prefix")
  OBVIOUS
<1>2. prefix \in Scancode /\ prefix.key \notin Shifts /\ prefix.key \notin Plain
  BY <1>1, KeyboardAssumption DEF Release, Scancode, Shifts
<1>3. <<prefix>> \in Seq(Scancode) /\ Len(<<prefix>>) = 1 /\ <<prefix>>[1] = prefix
  BY <1>2
<1>4. Silent(<<prefix>>) /\ NoShifts(<<prefix>>)
  BY <1>2, <1>3 DEF Silent, NoShifts
<1>5. \A key \in Keys : /\ Press(key) \in Scancode /\ Press(key).key = key /\ ~Press(key).up
                        /\ Release(key) \in Scancode /\ Release(key).key = key /\ Release(key).up
  BY DEF Press, Release, Scancode
<1>6. <<>> \in Seq(Scancode) /\ Silent(<<>>) /\ NoShifts(<<>>)
  BY DEF Silent, NoShifts
<1> QED BY <1>1, <1>2, <1>3, <1>4, <1>5, <1>6

\* No key is one of both kinds, and no shift key is of either.
LEMMA Kinds ==
  /\ Lifting \cap Raising = {} /\ Lifting \subseteq Faking /\ Raising \subseteq Faking
  /\ Shifts \cap (Lifting \cup Raising) = {} /\ Shifts \cap Plain = {} /\ Shifts \cap Extended = {}
  /\ Shifts \subseteq Keys /\ Plain \subseteq Keys
  /\ \A key \in Plain \ Alike : key \notin Raising /\ (key \in Lifting <=> key \in Divide)
<1>1. /\ Plain \cap Shifts = {} /\ Mute \cap Shifts = {} /\ Plain \cap Mute = {}
      /\ Extended \subseteq Plain \cup Mute /\ Alike \subseteq Plain
      /\ Navigation \subseteq Mute /\ PrintScreen \subseteq Alike /\ Divide \subseteq Plain \ Alike
  BY KeyboardAssumption
<1>2. Lifting \subseteq Divide \cup Navigation /\ Divide \subseteq Lifting
  BY DEF Lifting
<1>3. Raising \subseteq PrintScreen \cup Navigation
  BY DEF Raising
<1>4. num_lock => Lifting = Divide
  BY DEF Lifting
<1>5. ~num_lock => Raising = PrintScreen
  BY DEF Raising
<1>6. Lifting \cap Raising = {}
  <2>1. CASE num_lock
    BY <1>1, <1>3, <1>4, <2>1
  <2>2. CASE ~num_lock
    BY <1>1, <1>2, <1>5, <2>2
  <2> QED BY <2>1, <2>2
<1>7. Lifting \subseteq Faking /\ Raising \subseteq Faking
  BY <1>2, <1>3 DEF Faking
<1>8. Shifts \cap (Lifting \cup Raising) = {} /\ Shifts \cap Plain = {} /\ Shifts \cap Extended = {}
  BY <1>1, <1>2, <1>3
<1>9. \A key \in Plain \ Alike : key \notin Raising /\ (key \in Lifting <=> key \in Divide)
  BY <1>1, <1>2, <1>3
<1> QED BY <1>6, <1>7, <1>8, <1>9 DEF Keys

\* The fake scancodes of a key give no character, and say of shift that it is taken away or
\* pretended before the press, and the opposite after the release.
LEMMA FakesLead ==
  ASSUME down \subseteq Keys, NEW key \in Keys, NEW back \in BOOLEAN
  PROVE  /\ Fakes(key, back) \in Seq(Scancode) /\ Silent(Fakes(key, back))
         /\ ~(key \in Lifting /\ ShiftHeld) /\ ~(key \in Raising /\ ~ShiftHeld)
              => Fakes(key, back) = <<>>
         /\ key \in Lifting /\ ShiftHeld => \A s \in Seq(Scancode), shift \in BOOLEAN :
              Leads(s \o Fakes(key, back), shift, Len(s \o Fakes(key, back)) + 1, back)
         /\ key \in Raising /\ ~ShiftHeld => \A s \in Seq(Scancode), shift \in BOOLEAN :
              Leads(s \o Fakes(key, back), shift, Len(s \o Fakes(key, back)) + 1, ~back)
<1>1. PICK prefix : prefix = Release("prefix")
  OBVIOUS
<1>2. prefix \in Scancode /\ <<prefix>> \in Seq(Scancode) /\ Silent(<<prefix>>)
  BY <1>1, Single
<1>3. ASSUME NEW k \in Shifts, NEW up \in BOOLEAN
      PROVE  \E code \in Scancode :
               /\ code.key \in Shifts /\ code.up = up /\ Fake(k, up) = <<prefix>> \o <<code>>
               /\ Fake(k, up) \in Seq(Scancode) /\ Silent(Fake(k, up))
  <2>1. PICK code : code = [key |-> k, up |-> up]
    OBVIOUS
  <2>2. code \in Scancode /\ code.key = k /\ code.up = up
    BY <2>1 DEF Scancode, Keys
  <2>3. Fake(k, up) = <<prefix, code>>
    BY <1>1, <2>1 DEF Fake
  <2>4. <<prefix, code>> = <<prefix>> \o <<code>>
    BY <1>2, <2>2
  <2>5. code.key \notin Plain
    BY <2>2, Kinds
  <2>6. Silent(<<code>>) /\ <<code>> \in Seq(Scancode)
    BY <2>2, <2>5 DEF Silent
  <2>7. Silent(<<prefix>> \o <<code>>) /\ <<prefix>> \o <<code>> \in Seq(Scancode)
    BY <1>2, <2>6, SilentBoth
  <2> QED BY <2>2, <2>3, <2>4, <2>7
<1>4. PICK l, r : /\ l = IF "left" \in down THEN Fake("left", ~back) ELSE <<>>
                  /\ r = IF "right" \in down THEN Fake("right", ~back) ELSE <<>>
  OBVIOUS
<1>5. "left" \in Shifts /\ "right" \in Shifts /\ \A k \in Shifts : k = "left" \/ k = "right"
  BY DEF Shifts
<1>6. l \in Seq(Scancode) /\ r \in Seq(Scancode) /\ Silent(l) /\ Silent(r)
  BY <1>3, <1>4, <1>5, Single
<1>7. l \o r \in Seq(Scancode) /\ Silent(l \o r)
  BY <1>6, SilentBoth
<1>8. Fakes(key, back) = CASE key \in Lifting -> l \o r
                           [] key \in Raising /\ ~ShiftHeld -> Fake("left", back)
                           [] OTHER -> <<>>
  BY <1>4 DEF Fakes
<1>9. CASE key \in Lifting
  <2>1. Fakes(key, back) = l \o r /\ key \notin Raising
    BY <1>8, <1>9, Kinds
  <2>2. ~ShiftHeld => l \o r = <<>>
    <3> SUFFICES ASSUME ~ShiftHeld PROVE l \o r = <<>>
      OBVIOUS
    <3>1. l = <<>> /\ r = <<>>
      BY <1>4, <1>5 DEF ShiftHeld
    <3> QED BY <3>1
  <2>3. ASSUME ShiftHeld, NEW s \in Seq(Scancode), NEW shift \in BOOLEAN
        PROVE  Leads(s \o (l \o r), shift, Len(s \o (l \o r)) + 1, back)
    <3>1. PICK k \in Shifts : k \in down /\ (k = "left" => "right" \notin down)
      BY <1>5, <2>3 DEF ShiftHeld
    <3>2. PICK code \in Scancode :
            code.key \in Shifts /\ code.up = ~back /\ Fake(k, ~back) = <<prefix>> \o <<code>>
      BY <1>3
    <3>3. \E t \in Seq(Scancode) : l \o r = t \o <<code>>
      <4>1. CASE k = "right"
        <5>1. r = <<prefix>> \o <<code>>
          BY <1>4, <3>1, <3>2, <4>1
        <5>2. l \o <<prefix>> \in Seq(Scancode) /\ l \o r = (l \o <<prefix>>) \o <<code>>
          BY <1>2, <1>6, <5>1
        <5> QED BY <5>2
      <4>2. CASE k = "left"
        <5>1. l = <<prefix>> \o <<code>> /\ r = <<>>
          BY <1>4, <3>1, <3>2, <4>2
        <5>2. l \o r = <<prefix>> \o <<code>>
          BY <1>2, <5>1
        <5> QED BY <1>2, <5>2
      <4> QED BY <1>5, <4>1, <4>2
    <3>4. ~code.up = back
      BY <3>2
    <3> QED BY <3>2, <3>3, <3>4, EndsLeads
  <2> QED BY <1>7, <1>9, <2>1, <2>2, <2>3
<1>10. CASE key \notin Lifting /\ key \in Raising /\ ~ShiftHeld
  <2>1. Fakes(key, back) = Fake("left", back)
    BY <1>8, <1>10
  <2>2. PICK code \in Scancode :
          /\ code.key \in Shifts /\ code.up = back /\ Fake("left", back) = <<prefix>> \o <<code>>
          /\ Fake("left", back) \in Seq(Scancode) /\ Silent(Fake("left", back))
    BY <1>3, <1>5
  <2>3. \A s \in Seq(Scancode), shift \in BOOLEAN :
          Leads(s \o (<<prefix>> \o <<code>>), shift, Len(s \o (<<prefix>> \o <<code>>)) + 1, ~back)
    BY <1>2, <2>2, EndsLeads
  <2> QED BY <1>10, <2>1, <2>2, <2>3
<1>11. CASE key \notin Lifting /\ ~(key \in Raising /\ ~ShiftHeld)
  <2>1. Fakes(key, back) = <<>>
    BY <1>8, <1>11
  <2> QED BY <1>11, <2>1, Single
<1> QED BY <1>9, <1>10, <1>11

\* A press is the last scancode that its key sends.  No shift key comes before it, unless the
\* keyboard fakes one.
LEMMA PressLeads ==
  ASSUME down \subseteq Keys, NEW key \in Keys, NEW codes \in PressCodes(key)
  PROVE  \E front \in Seq(Scancode) :
           /\ codes = front \o <<Press(key)>> /\ codes \in Seq(Scancode)
           /\ Len(codes) = Len(front) + 1 /\ Silent(front)
           /\ \A i \in 1 .. Len(front) : codes[i] = front[i]
           /\ key \in Shifts => codes = <<Press(key)>>
           /\ ~(key \in Lifting /\ ShiftHeld) /\ ~(key \in Raising /\ ~ShiftHeld) => NoShifts(front)
           /\ key \in Lifting /\ ShiftHeld /\ key \notin down =>
                \A s \in Seq(Scancode), shift \in BOOLEAN :
                  Leads(s \o front, shift, Len(s \o front) + 1, FALSE)
<1>1. PICK code : code = Press(key)
  OBVIOUS
<1>2. code \in Scancode /\ code.key = key
  BY <1>1, Single
<1>3. PICK f : f = Fakes(key, FALSE)
  OBVIOUS
<1>4. /\ f \in Seq(Scancode) /\ Silent(f)
      /\ ~(key \in Lifting /\ ShiftHeld) /\ ~(key \in Raising /\ ~ShiftHeld) => f = <<>>
      /\ key \in Lifting /\ ShiftHeld => \A s \in Seq(Scancode), shift \in BOOLEAN :
           Leads(s \o f, shift, Len(s \o f) + 1, FALSE)
  BY <1>3, FakesLead
<1>5. PICK p : p = IF key \in Extended THEN <<Release("prefix")>> ELSE <<>>
  OBVIOUS
<1>6. p \in Seq(Scancode) /\ Silent(p) /\ NoShifts(p)
  BY <1>5, Single
<1>7. Prefixed(code) = p \o <<code>>
  <2>1. CASE key \in Extended
    <3>1. Prefixed(code) = <<Release("prefix"), code>> /\ p = <<Release("prefix")>>
      BY <1>2, <1>5, <2>1 DEF Prefixed
    <3> QED BY <1>2, <3>1, Single
  <2>2. CASE key \notin Extended
    <3>1. Prefixed(code) = <<code>> /\ p = <<>>
      BY <1>2, <1>5, <2>2 DEF Prefixed
    <3> QED BY <1>2, <3>1
  <2> QED BY <2>1, <2>2
<1>8. PICK g \in {<<>>, f} : codes = g \o (p \o <<code>>) /\ (key \notin down => g = f)
  <2>1. codes = f \o (p \o <<code>>) \/ (key \in down /\ codes = p \o <<code>>)
    BY <1>1, <1>3, <1>7 DEF PressCodes
  <2>2. <<>> \o (p \o <<code>>) = p \o <<code>>
    BY <1>2, <1>6
  <2> QED BY <2>1, <2>2
<1>9. g \in Seq(Scancode) /\ Silent(g)
  BY <1>4, <1>8, Single
<1>10. PICK front : front = g \o p
  OBVIOUS
<1>11. front \in Seq(Scancode) /\ Silent(front) /\ codes = front \o <<code>> /\ codes \in Seq(Scancode)
       /\ Len(codes) = Len(front) + 1
  <2>1. front \in Seq(Scancode)
    BY <1>6, <1>9, <1>10
  <2>2. codes = front \o <<code>>
    BY <1>2, <1>6, <1>8, <1>9, <1>10
  <2>3. codes \in Seq(Scancode) /\ Len(codes) = Len(front) + 1
    BY <1>2, <2>1, <2>2
  <2> QED BY <1>6, <1>9, <1>10, <2>1, <2>2, <2>3, SilentBoth
<1>12. \A i \in 1 .. Len(front) : codes[i] = front[i]
  BY <1>2, <1>11
<1>13. ASSUME ~(key \in Lifting /\ ShiftHeld), ~(key \in Raising /\ ~ShiftHeld)
       PROVE  NoShifts(front)
  <2>1. g = <<>>
    BY <1>4, <1>8, <1>13
  <2>2. front = p
    BY <1>6, <1>10, <2>1
  <2> QED BY <1>6, <2>2
<1>14. ASSUME key \in Shifts PROVE codes = <<code>>
  <2>1. f = <<>> /\ p = <<>> /\ g = <<>>
    BY <1>4, <1>5, <1>8, <1>14, Kinds
  <2>2. codes = <<>> \o (<<>> \o <<code>>)
    BY <1>8, <2>1
  <2> QED BY <1>2, <2>2
<1>15. ASSUME key \in Lifting, ShiftHeld, key \notin down, NEW s \in Seq(Scancode),
              NEW shift \in BOOLEAN
       PROVE  Leads(s \o front, shift, Len(s \o front) + 1, FALSE)
  <2>1. Leads(s \o f, shift, Len(s \o f) + 1, FALSE)
    BY <1>4, <1>15
  <2>2. s \o f \in Seq(Scancode) /\ s \o front = (s \o f) \o p
    BY <1>4, <1>6, <1>8, <1>10, <1>15
  <2> QED BY <1>6, <2>1, <2>2, MoreLeads
<1> QED BY <1>1, <1>11, <1>12, <1>13, <1>14, <1>15

\* A release gives no character, and the fake scancodes behind it take back those before the
\* press.
LEMMA ReleaseLeads ==
  ASSUME down \subseteq Keys, NEW key \in Keys
  PROVE  /\ ReleaseCodes(key) \in Seq(Scancode) /\ Silent(ReleaseCodes(key))
         /\ key \in Shifts => ReleaseCodes(key) = <<Release(key)>>
         /\ key \notin Shifts /\ ~(key \in Lifting /\ ShiftHeld) /\ ~(key \in Raising /\ ~ShiftHeld)
              => NoShifts(ReleaseCodes(key))
         /\ key \in Lifting /\ ShiftHeld => \A s \in Seq(Scancode), shift \in BOOLEAN :
              Leads(s \o ReleaseCodes(key), shift, Len(s \o ReleaseCodes(key)) + 1, TRUE)
         /\ key \in Raising /\ ~ShiftHeld => \A s \in Seq(Scancode), shift \in BOOLEAN :
              Leads(s \o ReleaseCodes(key), shift, Len(s \o ReleaseCodes(key)) + 1, FALSE)
<1>1. PICK code : code = Release(key)
  OBVIOUS
<1>2. code \in Scancode /\ code.key = key /\ code.up
  BY <1>1, Single
<1>3. PICK f : f = Fakes(key, TRUE)
  OBVIOUS
<1>4. /\ f \in Seq(Scancode) /\ Silent(f)
      /\ ~(key \in Lifting /\ ShiftHeld) /\ ~(key \in Raising /\ ~ShiftHeld) => f = <<>>
      /\ key \in Lifting /\ ShiftHeld => \A s \in Seq(Scancode), shift \in BOOLEAN :
           Leads(s \o f, shift, Len(s \o f) + 1, TRUE)
      /\ key \in Raising /\ ~ShiftHeld => \A s \in Seq(Scancode), shift \in BOOLEAN :
           Leads(s \o f, shift, Len(s \o f) + 1, FALSE)
  BY <1>3, FakesLead
<1>5. PICK p : p = Prefixed(code)
  OBVIOUS
<1>6. <<code>> \in Seq(Scancode) /\ Silent(<<code>>) /\ (key \notin Shifts => NoShifts(<<code>>))
  <2>1. <<code>> \in Seq(Scancode) /\ Len(<<code>>) = 1 /\ <<code>>[1] = code
    BY <1>2
  <2> QED BY <1>2, <2>1 DEF Silent, NoShifts
<1>7. p \in Seq(Scancode) /\ Silent(p) /\ (key \notin Shifts => NoShifts(p))
  <2>1. CASE key \in Extended
    <3>1. p = <<Release("prefix"), code>>
      BY <1>2, <1>5, <2>1 DEF Prefixed
    <3>2. p = <<Release("prefix")>> \o <<code>>
      BY <1>2, <3>1, Single
    <3>3. p \in Seq(Scancode)
      BY <1>6, <3>2, Single
    <3> QED BY <1>6, <3>2, <3>3, Single, SilentBoth, NoShiftsBoth
  <2>2. CASE key \notin Extended
    <3>1. p = <<code>>
      BY <1>2, <1>5, <2>2 DEF Prefixed
    <3> QED BY <1>6, <3>1
  <2> QED BY <2>1, <2>2
<1>8. PICK codes : codes = ReleaseCodes(key)
  OBVIOUS
<1>9. codes = p \o f
  BY <1>1, <1>3, <1>5, <1>8 DEF ReleaseCodes
<1>10. codes \in Seq(Scancode) /\ Silent(codes)
  BY <1>4, <1>7, <1>9, SilentBoth
<1>11. ASSUME NEW s \in Seq(Scancode)
       PROVE  s \o codes = (s \o p) \o f /\ s \o p \in Seq(Scancode)
  <2>1. p \in Seq(Scancode) /\ f \in Seq(Scancode)
    BY <1>4, <1>7
  <2>2. s \o (p \o f) = (s \o p) \o f
    BY <2>1
  <2>3. s \o p \in Seq(Scancode)
    BY <2>1
  <2> QED BY <1>9, <2>2, <2>3
<1>12. f = <<>> => codes = p
  BY <1>7, <1>9
<1>13. ASSUME key \in Shifts PROVE codes = <<code>>
  <2>1. f = <<>> /\ p = <<code>>
    BY <1>2, <1>4, <1>5, <1>13, Kinds DEF Prefixed
  <2> QED BY <1>12, <2>1
<1>14. key \in Lifting /\ ShiftHeld => \A s \in Seq(Scancode), shift \in BOOLEAN :
         Leads(s \o codes, shift, Len(s \o codes) + 1, TRUE)
  BY <1>4, <1>11
<1>15. key \in Raising /\ ~ShiftHeld => \A s \in Seq(Scancode), shift \in BOOLEAN :
         Leads(s \o codes, shift, Len(s \o codes) + 1, FALSE)
  BY <1>4, <1>11
<1>16. key \notin Shifts /\ ~(key \in Lifting /\ ShiftHeld) /\ ~(key \in Raising /\ ~ShiftHeld)
         => NoShifts(codes)
  BY <1>4, <1>7, <1>12
<1> QED BY <1>1, <1>8, <1>10, <1>13, <1>14, <1>15, <1>16

-----------------------------------------------------------------------------
(***************************************************************************)
(* The invariant.                                                          *)
(***************************************************************************)
\* The acknowledgement turns no shift on.
LEMMA InitIInv == Init => IInv
<1> SUFFICES ASSUME Init PROVE IInv
  OBVIOUS
<1>1. PICK ack : ack = Release("ack")
  OBVIOUS
<1>2. ack \in Scancode /\ ack.key \notin Shifts
  BY <1>1 DEF Release, Scancode, Shifts
<1>3. queue = <<ack>> /\ queue \in Seq(Scancode) /\ Len(queue) = 1 /\ queue[1] = ack
  BY <1>1, <1>2 DEF Init
<1>4. Len(queue) <= Depth
  BY <1>3, KeyboardAssumption
<1>5. line = <<>> /\ line \in Seq(Chars) /\ Len(line) = 0 /\ 0 <= LineDepth
  BY KeyboardAssumption DEF Init
<1>6. down \subseteq Keys
  BY DEF Init, Keys
<1>7. /\ typed \in Typed /\ got \in Typed
      /\ sent \in Seq(Chars) /\ read \in Seq(Chars \cup {"\n"}) /\ events \in 0 .. MaxKeys
  BY KeyboardAssumption DEF Init, Typed
<1>8. TypeOK
  BY <1>3, <1>4, <1>5, <1>6, <1>7 DEF TypeOK, Init
<1>9. NoShifts(queue)
  BY <1>2, <1>3 DEF NoShifts
<1>10. Settling
  BY <1>9 DEF Settling, Settles, Leads, NoShifts, Init
<1> QED BY <1>8, <1>10 DEF IInv

\* Every press, release and poll keeps what shift settles to.
LEMMA StepIInv == IInv /\ [Next]_vars => IInv'
<1> SUFFICES ASSUME IInv, [Next]_vars PROVE IInv'
  OBVIOUS
<1>0. TypeOK /\ Settling
  BY DEF IInv
<1>1. ASSUME NEW key \in Keys, PressKey(key) PROVE IInv'
  <2>1. PICK codes \in PressCodes(key) :
          /\ Send(codes)
          /\ typed' = IF key \in Plain /\ Len(queue) + Len(codes) <= Depth
                      THEN Append(typed, <<key, Wanted(key)>>) ELSE typed
    BY <1>1 DEF PressKey
  <2>2. PICK front \in Seq(Scancode) :
          /\ codes = front \o <<Press(key)>> /\ codes \in Seq(Scancode)
          /\ ~(key \in Lifting /\ ShiftHeld) /\ ~(key \in Raising /\ ~ShiftHeld) => NoShifts(front)
    BY <1>0, PressLeads DEF TypeOK
  <2>3. PICK t \in Seq(Scancode) :
          /\ queue' = queue \o t /\ Len(queue') <= Depth /\ lost' \in BOOLEAN
          /\ lost' = FALSE => lost = FALSE /\ t = codes
    BY <1>0, <2>1, <2>2, Sent
  <2>4. queue' \in Seq(Scancode)
    BY <1>0, <2>3 DEF TypeOK
  <2>5. typed' \in Typed
    <3>1. key \in Plain => <<key, Wanted(key)>> \in Plain \X BOOLEAN
      BY DEF Wanted, ShiftHeld
    <3>2. typed \in Seq(Plain \X BOOLEAN)
      BY <1>0 DEF TypeOK, Typed
    <3>3. PICK e : e = <<key, Wanted(key)>>
      OBVIOUS
    <3>4. key \in Plain => Append(typed, e) \in Seq(Plain \X BOOLEAN)
      BY <3>1, <3>2, <3>3
    <3>5. typed' = typed \/ (key \in Plain /\ typed' = Append(typed, e))
      BY <2>1, <3>3
    <3> QED BY <3>2, <3>4, <3>5 DEF Typed
  <2>6. down' \subseteq Keys /\ down' = down \cup {key}
    BY <1>0, <1>1 DEF PressKey, TypeOK
  <2>7. events' \in 0 .. MaxKeys
    BY <1>0, <1>1, KeyboardAssumption DEF PressKey, TypeOK
  <2>8. mixed' \in BOOLEAN
    BY <1>0, <1>1, <2>3 DEF PressKey, TypeOK
  <2>9. TypeOK'
    BY <1>0, <1>1, <2>3, <2>4, <2>5, <2>6, <2>7, <2>8 DEF PressKey, TypeOK, serial
  <2>10. Settling'
    <3>1. num_lock' = num_lock /\ Raising' = Raising
      BY <1>1 DEF PressKey, Raising
    <3>2. SUFFICES ASSUME ~lost', ~ShiftHeld', down' \cap Raising = {}
                   PROVE  Settles(queue', is_shift_pressed')
      BY <3>1 DEF Settling, Settles, Leads
    <3>3. key \notin Shifts /\ ~ShiftHeld /\ key \notin Raising /\ down \cap Raising = {}
      BY <2>6, <3>2 DEF ShiftHeld
    <3>4. ~lost /\ NoShifts(front) /\ t = codes
      BY <2>2, <2>3, <3>2, <3>3
    <3>5. Settles(queue, is_shift_pressed)
      BY <1>0, <3>3, <3>4 DEF Settling
    <3>6. queue \in Seq(Scancode) /\ is_shift_pressed' = is_shift_pressed
      BY <1>0, <1>1 DEF TypeOK, PressKey
    <3>7. NoShifts(<<Press(key)>>) /\ <<Press(key)>> \in Seq(Scancode)
      BY <3>3, Single DEF NoShifts
    <3>8. NoShifts(t)
      BY <2>2, <3>4, <3>7, NoShiftsBoth
    <3> QED BY <2>3, <3>5, <3>6, <3>8, MoreLeads DEF Settles
  <2> QED BY <2>9, <2>10 DEF IInv
<1>2. ASSUME NEW key \in Keys, ReleaseKey(key) PROVE IInv'
  <2>1. PICK codes \in Seq(Scancode) :
          /\ codes = ReleaseCodes(key)
          /\ key \in Shifts => codes = <<Release(key)>>
          /\ key \notin Shifts /\ ~(key \in Lifting /\ ShiftHeld) /\ ~(key \in Raising /\ ~ShiftHeld)
               => NoShifts(codes)
          /\ key \in Raising /\ ~ShiftHeld => \A s \in Seq(Scancode), shift \in BOOLEAN :
               Leads(s \o codes, shift, Len(s \o codes) + 1, FALSE)
    BY <1>0, ReleaseLeads DEF TypeOK
  <2>2. PICK t \in Seq(Scancode) :
          /\ queue' = queue \o t /\ Len(queue') <= Depth /\ lost' \in BOOLEAN
          /\ lost' = FALSE => lost = FALSE /\ t = codes
    BY <1>0, <1>2, <2>1, Sent DEF ReleaseKey
  <2>3. queue' \in Seq(Scancode)
    BY <1>0, <2>2 DEF TypeOK
  <2>4. down' \subseteq Keys /\ down' = down \ {key}
    BY <1>0, <1>2 DEF ReleaseKey, TypeOK
  <2>5. events' \in 0 .. MaxKeys
    BY <1>0, <1>2, KeyboardAssumption DEF ReleaseKey, TypeOK
  <2>6. mixed' \in BOOLEAN
    BY <1>0, <1>2, <2>2 DEF ReleaseKey, TypeOK
  <2>7. TypeOK'
    BY <1>0, <1>2, <2>2, <2>3, <2>4, <2>5, <2>6 DEF ReleaseKey, TypeOK, serial
  <2>8. Settling'
    <3>1. Raising' = Raising
      BY <1>2 DEF ReleaseKey, Raising
    <3>2. SUFFICES ASSUME ~lost', ~ShiftHeld', down' \cap Raising = {}
                   PROVE  Settles(queue', is_shift_pressed')
      BY <3>1 DEF Settling, Settles, Leads
    <3>3. queue \in Seq(Scancode) /\ is_shift_pressed' = is_shift_pressed /\ is_shift_pressed \in BOOLEAN
      BY <1>0, <1>2 DEF TypeOK, ReleaseKey
    <3>4. ~lost /\ t = codes
      BY <2>2, <3>2
    <3>5. CASE key \in Shifts
      <4>1. Release(key) \in Scancode /\ Release(key).key \in Shifts /\ (~Release(key).up) = FALSE
        BY <3>5, Single
      <4> QED BY <2>1, <2>2, <3>3, <3>4, <3>5, <4>1, ShiftLeads DEF Settles
    <3>6. CASE key \notin Shifts
      <4>1. ~ShiftHeld
        BY <2>4, <3>2, <3>6 DEF ShiftHeld
      <4>2. CASE key \in Raising
        BY <2>1, <2>2, <3>3, <3>4, <4>1, <4>2 DEF Settles
      <4>3. CASE key \notin Raising
        <5>1. down \cap Raising = {}
          BY <2>4, <3>2, <4>3
        <5>2. Settles(queue, is_shift_pressed)
          BY <1>0, <3>4, <4>1, <5>1 DEF Settling
        <5>3. NoShifts(t)
          BY <2>1, <3>4, <3>6, <4>1, <4>3
        <5> QED BY <2>2, <3>3, <5>2, <5>3, MoreLeads DEF Settles
      <4> QED BY <4>2, <4>3
    <3> QED BY <3>5, <3>6
  <2> QED BY <2>7, <2>8 DEF IInv
<1>3. ASSUME NEW c \in Chars, Arrive(c) PROVE IInv'
  <2>1. /\ line' \in Seq(Chars) /\ Len(line') <= LineDepth /\ sent' \in Seq(Chars)
    <3>1. line \in Seq(Chars) /\ sent \in Seq(Chars) /\ Len(line) < LineDepth
          /\ line' = Append(line, c) /\ sent' = Append(sent, c)
      BY <1>0, <1>3 DEF TypeOK, Arrive
    <3>2. Len(line') = Len(line) + 1 /\ Len(line) \in Nat
      BY <3>1
    <3> QED BY <3>1, <3>2, KeyboardAssumption
  <2>2. TypeOK'
    BY <1>0, <1>3, <2>1 DEF TypeOK, Arrive, keyboard
  <2>3. Settling'
    BY <1>0, <1>3 DEF Settling, Settles, Leads, ShiftHeld, Raising, Arrive, keyboard
  <2> QED BY <2>2, <2>3 DEF IInv
<1>4. CASE PollKeyboard /\ queue = <<>>
  BY <1>0, <1>4 DEF IInv, TypeOK, Settling, Settles, Leads, ShiftHeld, Raising, PollKeyboard, serial
<1>5. CASE PollKeyboard /\ queue # <<>>
  <2>1. queue \in Seq(Scancode) /\ Len(queue) <= Depth /\ is_shift_pressed \in BOOLEAN
    BY <1>0 DEF TypeOK
  <2>2. Head(queue) \in Scancode
    BY <1>5, <2>1
  <2>3. queue' = Tail(queue) /\ is_shift_pressed' = ShiftAfter(Head(queue))
    BY <1>5 DEF PollKeyboard
  <2>4. queue' \in Seq(Scancode) /\ Len(queue') <= Depth
    <3>1. Len(Tail(queue)) = Len(queue) - 1 /\ Len(queue) \in Nat /\ Tail(queue) \in Seq(Scancode)
      BY <1>5, <2>1
    <3> QED BY <2>1, <2>3, <3>1, KeyboardAssumption
  <2>5. is_shift_pressed' \in BOOLEAN
    BY <2>1, <2>2, <2>3 DEF ShiftAfter, Scancode
  <2>6. got' \in Typed
    <3>1. got \in Seq(Plain \X BOOLEAN)
      BY <1>0 DEF TypeOK, Typed
    <3>2. PICK e : e = <<Head(queue).key, is_shift_pressed>>
      OBVIOUS
    <3>3. IsCharacter(Head(queue)) => e \in Plain \X BOOLEAN
      BY <2>1, <3>2 DEF IsCharacter
    <3>4. IsCharacter(Head(queue)) => Append(got, e) \in Seq(Plain \X BOOLEAN)
      BY <3>1, <3>3
    <3>5. got' = got \/ (IsCharacter(Head(queue)) /\ got' = Append(got, e))
      BY <1>5, <3>2 DEF PollKeyboard
    <3> QED BY <3>1, <3>4, <3>5 DEF Typed
  <2>7. at' \in {"keyboard", "serial"}
    BY <1>5 DEF PollKeyboard
  <2>8. TypeOK'
    BY <1>0, <1>5, <2>4, <2>5, <2>6, <2>7 DEF TypeOK, PollKeyboard, serial
  <2>9. Settling'
    <3>1. SUFFICES ASSUME ~lost', ~ShiftHeld', (down \cap Raising = {})'
                   PROVE  Settles(queue', is_shift_pressed')
      BY DEF Settling, Settles, Leads
    <3>2. ~lost /\ ~ShiftHeld /\ down \cap Raising = {}
      BY <1>5, <3>1 DEF PollKeyboard, ShiftHeld, Raising
    <3>3. Settles(queue, is_shift_pressed)
      BY <1>0, <3>2 DEF Settling
    <3>4. Settles(Tail(queue), IF Head(queue).key \in Shifts THEN ~Head(queue).up ELSE is_shift_pressed)
      <4>1. PICK i \in 2 .. Len(queue) + 1 : i = Len(queue) + 1 /\ Len(Tail(queue)) + 1 = i - 1
        BY <1>5, <2>1
      <4>2. Leads(queue, is_shift_pressed, i, FALSE)
        BY <3>3, <4>1 DEF Settles
      <4>3. Leads(Tail(queue), IF Head(queue).key \in Shifts THEN ~Head(queue).up ELSE is_shift_pressed,
                  i - 1, FALSE)
        BY <1>5, <2>1, <4>2, ReadLeads
      <4> QED BY <4>1, <4>3, Zenon DEF Settles
    <3> QED BY <2>3, <3>4 DEF ShiftAfter
  <2> QED BY <2>8, <2>9 DEF IInv
<1>6. CASE PollSerial
  <2>1. line' \in Seq(Chars) /\ Len(line') <= LineDepth /\ read' \in Seq(Chars \cup {"\n"})
    <3>1. line \in Seq(Chars) /\ Len(line) <= LineDepth /\ read \in Seq(Chars \cup {"\n"})
      BY <1>0 DEF TypeOK
    <3>2. CASE line = <<>>
      BY <1>6, <3>1, <3>2 DEF PollSerial
    <3>3. CASE line # <<>>
      <4>1. Head(line) \in Chars /\ Tail(line) \in Seq(Chars) /\ Len(Tail(line)) = Len(line) - 1
            /\ Len(line) \in Nat
        BY <3>1, <3>3
      <4>2. Sane(Head(line)) \in Chars \cup {"\n"}
        BY <4>1 DEF Sane
      <4>3. PICK c \in Chars \cup {"\n"} : c = Sane(Head(line))
        BY <4>2
      <4>4. Append(read, c) \in Seq(Chars \cup {"\n"})
        BY <3>1
      <4>5. line' = Tail(line) /\ read' = Append(read, c)
        BY <1>6, <3>3, <4>3 DEF PollSerial
      <4> QED BY <3>1, <4>1, <4>4, <4>5, KeyboardAssumption
    <3> QED BY <3>2, <3>3
  <2>2. TypeOK'
    BY <1>0, <1>6, <2>1 DEF TypeOK, PollSerial, keyboard
  <2>3. Settling'
    BY <1>0, <1>6 DEF Settling, Settles, Leads, ShiftHeld, Raising, PollSerial, keyboard
  <2> QED BY <2>2, <2>3 DEF IInv
<1>7. CASE UNCHANGED vars
  BY <1>0, <1>7 DEF IInv, TypeOK, Settling, Settles, Leads, ShiftHeld, Raising, vars, keyboard, serial
<1> QED BY <1>1, <1>2, <1>3, <1>4, <1>5, <1>6, <1>7 DEF Next

-----------------------------------------------------------------------------
(***************************************************************************)
(* The order.  place says where in typed each press in the queue is: they  *)
(* are what follows there behind what was got, and, as long as shift is    *)
(* not mixed up, with the shift that reading the queue leads to, unless    *)
(* they mean the same with it and without.                                 *)
(***************************************************************************)
Follows(place, s, m, w) ==
  /\ \A i \in Coming(s) : place[i] \in m + 1 .. Len(w) /\ w[place[i]][1] = s[i].key
  /\ \A k \in m + 1 .. Len(w) : \E i \in Coming(s) : place[i] = k
  /\ \A i, j \in Coming(s) : i < j => place[i] < place[j]

Shifted(place, s, shift, w) ==
  \A i \in Coming(s) : s[i].key \in Alike \/ Leads(s, shift, i, w[place[i]][2])

\* What get_char returned was shifted as it was typed, unless that makes no difference.
Agrees(g, t) == g[2] = t[2] \/ g[1] \in Alike

Ordered ==
  /\ Len(got) <= Len(typed)
  /\ \A i \in 1 .. Len(got) : got[i][1] = typed[i][1] /\ (~mixed => Agrees(got[i], typed[i]))
  /\ \E place \in [Coming(queue) -> Len(got) + 1 .. Len(typed)] :
       /\ Follows(place, queue, Len(got), typed)
       /\ ~mixed => Shifted(place, queue, is_shift_pressed, typed)

\* As long as shift is not mixed up, at most one shift key is held, and, unless the keyboard
\* hides it, reading the queue leads to it.
OneShift ==
  ~mixed =>
    /\ ~lost /\ ~(Shifts \subseteq down)
    /\ ShiftHeld /\ down \cap Lifting = {} => Leads(queue, is_shift_pressed, Len(queue) + 1, TRUE)

LineOrdered ==
  /\ Len(sent) = Len(read) + Len(line)
  /\ \A i \in 1 .. Len(read) : read[i] = Sane(sent[i])
  /\ \A i \in 1 .. Len(line) : line[i] = sent[Len(read) + i]

\* Scancodes behind s leave its own where they are.
LEMMA ComingMore ==
  ASSUME NEW s \in Seq(Scancode), NEW t \in Seq(Scancode)
  PROVE  /\ \A i \in 1 .. Len(s) : (s \o t)[i] = s[i] /\ (i \in Coming(s \o t) <=> i \in Coming(s))
         /\ \A i \in Coming(s) : i \in 1 .. Len(s)
         /\ \A i \in Coming(s \o t) : i \in 1 .. Len(s) \/ i - Len(s) \in Coming(t)
<1>1. /\ Len(s \o t) = Len(s) + Len(t) /\ Len(s) \in Nat /\ Len(t) \in Nat
      /\ DOMAIN s = 1 .. Len(s) /\ DOMAIN t = 1 .. Len(t) /\ DOMAIN (s \o t) = 1 .. Len(s \o t)
  OBVIOUS
<1>2. ASSUME NEW i \in 1 .. Len(s)
      PROVE  (s \o t)[i] = s[i] /\ (i \in Coming(s \o t) <=> i \in Coming(s))
  <2>1. (s \o t)[i] = s[i] /\ i \in 1 .. Len(s \o t)
    BY <1>1
  <2> QED BY <1>1, <2>1 DEF Coming
<1>3. ASSUME NEW i \in Coming(s \o t), i \notin 1 .. Len(s) PROVE i - Len(s) \in Coming(t)
  <2>1. i \in 1 .. Len(s) + Len(t) /\ (s \o t)[i].key \in Plain /\ ~(s \o t)[i].up
    BY <1>1 DEF Coming
  <2>2. i - Len(s) \in 1 .. Len(t)
    BY <1>1, <1>3, <2>1
  <2>3. (s \o t)[i] = t[i - Len(s)]
    BY <1>1, <1>3, <2>1
  <2> QED BY <1>1, <2>1, <2>2, <2>3 DEF Coming
<1>4. \A i \in Coming(s) : i \in 1 .. Len(s)
  BY <1>1 DEF Coming
<1> QED BY <1>2, <1>3, <1>4

\* Reading a scancode moves the others one place up.
LEMMA ComingTail ==
  ASSUME NEW s \in Seq(Scancode), s # <<>>
  PROVE  /\ \A i \in Coming(Tail(s)) : i + 1 \in Coming(s) /\ Tail(s)[i] = s[i + 1] /\ i \in Nat
         /\ \A i \in Coming(s) : /\ i = 1 \/ i - 1 \in Coming(Tail(s))
                                 /\ i \in 1 .. Len(s)
         /\ 1 \in Coming(s) <=> IsCharacter(Head(s))
<1>1. /\ Len(Tail(s)) = Len(s) - 1 /\ Len(s) \in Nat /\ Len(s) > 0 /\ Tail(s) \in Seq(Scancode)
      /\ Head(s) = s[1] /\ DOMAIN s = 1 .. Len(s)
  OBVIOUS
<1>2. DOMAIN Tail(s) = 1 .. Len(Tail(s)) /\ \A i \in 1 .. Len(Tail(s)) : Tail(s)[i] = s[i + 1]
  BY <1>1
<1>3. ASSUME NEW i \in Coming(Tail(s)) PROVE i + 1 \in Coming(s) /\ Tail(s)[i] = s[i + 1] /\ i \in Nat
  <2>1. i \in 1 .. Len(Tail(s)) /\ Tail(s)[i].key \in Plain /\ ~Tail(s)[i].up
    BY <1>2 DEF Coming
  <2>2. i + 1 \in 1 .. Len(s) /\ i \in Nat
    BY <1>1, <2>1
  <2> QED BY <1>1, <1>2, <2>1, <2>2 DEF Coming
<1>4. ASSUME NEW i \in Coming(s) PROVE (i = 1 \/ i - 1 \in Coming(Tail(s))) /\ i \in 1 .. Len(s)
  <2>1. i \in 1 .. Len(s) /\ s[i].key \in Plain /\ ~s[i].up
    BY <1>1 DEF Coming
  <2>2. i # 1 => i - 1 \in 1 .. Len(Tail(s)) /\ i = (i - 1) + 1
    BY <1>1, <2>1
  <2>3. i # 1 => Tail(s)[i - 1] = s[i]
    BY <1>2, <2>2
  <2>4. i # 1 => i - 1 \in Coming(Tail(s))
    BY <1>2, <2>1, <2>2, <2>3 DEF Coming
  <2> QED BY <2>1, <2>4
<1>5. 1 \in Coming(s) <=> IsCharacter(Head(s))
  BY <1>1 DEF Coming, IsCharacter
<1> QED BY <1>3, <1>4, <1>5

\* What is no press of a key with a character changes nothing.
LEMMA NoiseFollows ==
  ASSUME NEW s \in Seq(Scancode), NEW t \in Seq(Scancode), Coming(t) = {},
         NEW place, NEW m, NEW w, NEW shift, Follows(place, s, m, w)
  PROVE  /\ Coming(s \o t) = Coming(s) /\ Follows(place, s \o t, m, w)
         /\ Shifted(place, s, shift, w) => Shifted(place, s \o t, shift, w)
<1>1. Coming(s \o t) = Coming(s) /\ \A i \in Coming(s) : (s \o t)[i] = s[i] /\ i \in 1 .. Len(s)
  <2>1. /\ \A i \in 1 .. Len(s) : (s \o t)[i] = s[i] /\ (i \in Coming(s \o t) <=> i \in Coming(s))
        /\ \A i \in Coming(s) : i \in 1 .. Len(s)
        /\ \A i \in Coming(s \o t) : i \in 1 .. Len(s) \/ i - Len(s) \in Coming(t)
    BY ComingMore
  <2>2. \A i \in Coming(s \o t) : i \in Coming(s)
    BY <2>1
  <2>3. \A i \in Coming(s) : i \in Coming(s \o t)
    BY <2>1
  <2> QED BY <2>1, <2>2, <2>3
<1>2. Follows(place, s \o t, m, w)
  BY <1>1 DEF Follows
<1>3. ASSUME Shifted(place, s, shift, w) PROVE Shifted(place, s \o t, shift, w)
  <2>1. ASSUME NEW i \in Coming(s), s[i].key \notin Alike
        PROVE  Leads(s \o t, shift, i, w[place[i]][2])
    <3>1. i \in 1 .. Len(s) + 1 /\ Leads(s, shift, i, w[place[i]][2])
      BY <1>1, <1>3, <2>1 DEF Shifted
    <3> QED BY <3>1, LeadsBefore
  <2> QED BY <1>1, <2>1 DEF Shifted
<1> QED BY <1>1, <1>2, <1>3

\* The next press comes behind all others, in the queue and in what was typed.
LEMMA PressFollows ==
  ASSUME NEW s \in Seq(Scancode), NEW code \in Scancode, IsCharacter(code),
         NEW w \in Typed, NEW e \in Plain \X BOOLEAN, e[1] = code.key,
         NEW m \in Nat, m <= Len(w), NEW shift, NEW place, Follows(place, s, m, w)
  PROVE  \E p \in [Coming(s \o <<code>>) -> m + 1 .. Len(Append(w, e))] :
           /\ Follows(p, s \o <<code>>, m, Append(w, e))
           /\ Shifted(place, s, shift, w) /\ (code.key \in Alike \/ Leads(s, shift, Len(s) + 1, e[2]))
                => Shifted(p, s \o <<code>>, shift, Append(w, e))
<1>1. PICK t \in Seq(Scancode) : t = <<code>>
  <2>1. <<code>> \in Seq(Scancode)
    OBVIOUS
  <2> QED BY <2>1
<1>2. PICK n \in Nat : n = Len(s) + 1
  OBVIOUS
<1>3. PICK l \in Nat : l = Len(w) + 1
  BY DEF Typed
<1>4. PICK x : x = Append(w, e)
  OBVIOUS
<1>5. Len(x) = l /\ x[l] = e /\ \A k \in 1 .. Len(w) : x[k] = w[k]
  BY <1>3, <1>4 DEF Typed
<1>6. /\ \A i \in Coming(s) : (s \o t)[i] = s[i] /\ i \in 1 .. Len(s) /\ i \in Coming(s \o t)
      /\ \A i \in Coming(s \o t) : i \in Coming(s) \/ i = n
      /\ n \in Coming(s \o t) /\ (s \o t)[n] = code /\ n \notin Coming(s)
  <2>1. Len(s \o t) = n /\ (s \o t)[n] = code /\ Len(t) = 1 /\ DOMAIN (s \o t) = 1 .. n
        /\ Len(s) \in Nat /\ DOMAIN t = 1 .. 1
    BY <1>1, <1>2
  <2>2. n \in Coming(s \o t)
    BY <1>2, <2>1 DEF Coming, IsCharacter
  <2>3. \A i \in Coming(t) : i = 1
    BY <2>1 DEF Coming
  <2>4. \A i \in Coming(s \o t) : i \in 1 .. Len(s) \/ i = n
    <3>1. TAKE i \in Coming(s \o t)
    <3>2. i \in 1 .. n
      BY <2>1 DEF Coming
    <3> QED BY <1>2, <2>1, <3>2
  <2>5. n \notin 1 .. Len(s)
    BY <1>2
  <2> QED BY <2>1, <2>2, <2>4, <2>5, ComingMore
<1>7. PICK p : p = [i \in Coming(s \o t) |-> IF i = n THEN l ELSE place[i]]
  OBVIOUS
<1>8. p[n] = l /\ \A i \in Coming(s) : p[i] = place[i]
  BY <1>6, <1>7
<1>9. \A i \in Coming(s) : place[i] \in m + 1 .. Len(w) /\ w[place[i]][1] = s[i].key
  BY DEF Follows
<1>10. \A i \in Coming(s) : place[i] \in 1 .. Len(w) /\ place[i] < l /\ x[place[i]] = w[place[i]]
  <2>1. TAKE i \in Coming(s)
  <2>2. Len(w) \in Nat /\ place[i] \in m + 1 .. Len(w)
    BY <1>9 DEF Typed
  <2> QED BY <1>3, <1>5, <2>2
<1>11. l \in m + 1 .. l /\ \A k \in m + 1 .. Len(w) : k \in m + 1 .. l
  BY <1>3 DEF Typed
<1>12. p \in [Coming(s \o t) -> m + 1 .. Len(x)]
  BY <1>5, <1>6, <1>7, <1>9, <1>11
<1>13. Follows(p, s \o t, m, x)
  <2>1. \A i \in Coming(s \o t) : p[i] \in m + 1 .. Len(x) /\ x[p[i]][1] = (s \o t)[i].key
    <3>1. TAKE i \in Coming(s \o t)
    <3>2. p[i] \in m + 1 .. Len(x)
      BY <1>12
    <3>3. CASE i = n
      BY <1>5, <1>6, <1>8, <3>2, <3>3
    <3>4. CASE i # n
      <4>1. i \in Coming(s) /\ p[i] = place[i]
        BY <1>6, <1>8, <3>4
      <4>2. x[p[i]] = w[place[i]] /\ w[place[i]][1] = s[i].key /\ (s \o t)[i] = s[i]
        <5>1. x[place[i]] = w[place[i]]
          BY <1>10, <4>1
        <5>2. w[place[i]][1] = s[i].key
          BY <1>9, <4>1
        <5>3. (s \o t)[i] = s[i]
          BY <1>6, <4>1
        <5> QED BY <4>1, <5>1, <5>2, <5>3
      <4> QED BY <3>2, <4>2
    <3> QED BY <3>3, <3>4
  <2>2. \A k \in m + 1 .. Len(x) : \E i \in Coming(s \o t) : p[i] = k
    <3>1. TAKE k \in m + 1 .. Len(x)
    <3>2. CASE k = l
      BY <1>6, <1>8, <3>2
    <3>3. CASE k # l
      <4>1. k \in m + 1 .. Len(w)
        BY <1>3, <1>5, <3>3 DEF Typed
      <4>2. PICK i \in Coming(s) : place[i] = k
        BY <4>1 DEF Follows
      <4> QED BY <1>6, <1>8, <4>2
    <3> QED BY <3>2, <3>3
  <2>3. ASSUME NEW i \in Coming(s \o t), NEW j \in Coming(s \o t), i < j PROVE p[i] < p[j]
    <3>1. i # n
      BY <1>2, <1>6, <2>3
    <3>2. CASE j = n
      BY <1>6, <1>8, <1>10, <3>1, <3>2
    <3>3. CASE j # n
      BY <1>6, <1>8, <2>3, <3>1, <3>3 DEF Follows
    <3> QED BY <3>2, <3>3
  <2> QED BY <2>1, <2>2, <2>3 DEF Follows
<1>14. ASSUME Shifted(place, s, shift, w), code.key \in Alike \/ Leads(s, shift, Len(s) + 1, e[2])
       PROVE  Shifted(p, s \o t, shift, x)
  <2>1. ASSUME NEW i \in Coming(s), s[i].key \notin Alike PROVE Leads(s \o t, shift, i, x[p[i]][2])
    <3>1. Leads(s, shift, i, w[place[i]][2])
      BY <1>14, <2>1 DEF Shifted
    <3>2. i \in 1 .. Len(s) + 1
      <4>1. Len(s) \in Nat
        OBVIOUS
      <4>2. i \in 1 .. Len(s)
        BY <1>6, Zenon
      <4> QED BY <4>1, <4>2
    <3>3. Leads(s \o t, shift, i, w[place[i]][2])
      BY <3>1, <3>2, LeadsBefore
    <3>4. x[p[i]] = w[place[i]]
      BY <1>8, <1>10
    <3> QED BY <3>3, <3>4
  <2>2. ASSUME code.key \notin Alike PROVE Leads(s \o t, shift, n, x[p[n]][2])
    <3>1. Leads(s, shift, n, e[2]) /\ n \in 1 .. Len(s) + 1
      BY <1>2, <1>14, <2>2
    <3> QED BY <1>5, <1>8, <3>1, LeadsBefore
  <2> QED BY <1>6, <2>1, <2>2 DEF Shifted
<1> QED BY <1>1, <1>4, <1>12, <1>13, <1>14

\* The first press in the queue is the one typed first; reading it, or a scancode in front
\* of it, keeps the places of the others.
LEMMA ReadFollows ==
  ASSUME NEW s \in Seq(Scancode), s # <<>>, NEW w \in Typed, NEW m \in Nat, m <= Len(w),
         NEW shift, NEW place, Follows(place, s, m, w),
         NEW d, d = IF IsCharacter(Head(s)) THEN m + 1 ELSE m
  PROVE  /\ d <= Len(w)
         /\ IsCharacter(Head(s)) => w[m + 1][1] = Head(s).key
         /\ IsCharacter(Head(s)) /\ Shifted(place, s, shift, w) =>
              Head(s).key \in Alike \/ w[m + 1][2] = shift
         /\ \E p \in [Coming(Tail(s)) -> d + 1 .. Len(w)] :
              /\ Follows(p, Tail(s), d, w)
              /\ Shifted(place, s, shift, w) =>
                   Shifted(p, Tail(s), IF Head(s).key \in Shifts THEN ~Head(s).up ELSE shift, w)
<1>1. PICK t \in Seq(Scancode) : t = Tail(s)
  <2>1. Tail(s) \in Seq(Scancode)
    OBVIOUS
  <2> QED BY <2>1
<1>2. /\ \A i \in Coming(t) : i + 1 \in Coming(s) /\ t[i] = s[i + 1] /\ i \in Nat
      /\ \A i \in Coming(s) : i = 1 \/ i - 1 \in Coming(t)
      /\ \A i \in Coming(s) : i \in 1 .. Len(s)
      /\ 1 \in Coming(s) <=> IsCharacter(Head(s))
  BY <1>1, ComingTail
<1>3. Len(w) \in Nat /\ Head(s) = s[1]
  BY DEF Typed
<1>4. /\ \A i \in Coming(s) : place[i] \in m + 1 .. Len(w) /\ w[place[i]][1] = s[i].key
      /\ \A k \in m + 1 .. Len(w) : \E i \in Coming(s) : place[i] = k
      /\ \A i, j \in Coming(s) : i < j => place[i] < place[j]
  BY DEF Follows
<1>5. ASSUME 1 \in Coming(s) PROVE place[1] = m + 1 /\ m + 1 <= Len(w)
  <2>1. place[1] \in m + 1 .. Len(w)
    BY <1>4, <1>5
  <2>2. m + 1 \in m + 1 .. Len(w)
    BY <1>3, <2>1
  <2>3. PICK i \in Coming(s) : place[i] = m + 1
    BY <1>4, <2>2
  <2>4. i # 1 => 1 < i
    BY <1>2
  <2>5. i # 1 => place[1] < place[i]
    BY <1>4, <1>5, <2>4
  <2>6. i = 1
    BY <2>1, <2>3, <2>5
  <2> QED BY <2>2, <2>3, <2>6
<1>6. d \in Nat /\ d <= Len(w) /\ \A i \in Coming(s) : i # 1 => place[i] \in d + 1 .. Len(w)
  <2>1. CASE 1 \in Coming(s)
    <3>1. d = m + 1
      BY <1>2, <2>1
    <3>2. ASSUME NEW i \in Coming(s), i # 1 PROVE place[i] \in d + 1 .. Len(w)
      <4>1. 1 < i
        BY <1>2, <3>2
      <4>2. place[1] < place[i] /\ place[i] \in m + 1 .. Len(w)
        BY <1>4, <2>1, <4>1
      <4> QED BY <1>3, <1>5, <2>1, <3>1, <4>2
    <3> QED BY <1>5, <2>1, <3>1, <3>2
  <2>2. CASE 1 \notin Coming(s)
    BY <1>2, <1>4, <2>2
  <2> QED BY <2>1, <2>2
<1>7. PICK p : p = [i \in Coming(t) |-> place[i + 1]]
  OBVIOUS
<1>8. \A i \in Coming(t) : /\ p[i] = place[i + 1] /\ i + 1 \in Coming(s) /\ i + 1 # 1
                           /\ p[i] \in d + 1 .. Len(w)
  <2>1. TAKE i \in Coming(t)
  <2>2. 1 \notin {i + 1}
    <3>1. i >= 1
      BY <1>1 DEF Coming
    <3> QED BY <1>2, <3>1
  <2> QED BY <1>2, <1>6, <1>7, <2>2
<1>9. p \in [Coming(t) -> d + 1 .. Len(w)]
  BY <1>7, <1>8
<1>10. Follows(p, t, d, w)
  <2>1. \A i \in Coming(t) : p[i] \in d + 1 .. Len(w) /\ w[p[i]][1] = t[i].key
    <3>1. TAKE i \in Coming(t)
    <3>2. i + 1 \in Coming(s) /\ p[i] = place[i + 1] /\ t[i] = s[i + 1]
      BY <1>2, <1>8
    <3>3. w[place[i + 1]][1] = s[i + 1].key
      BY <1>4, <3>2
    <3>4. p[i] \in d + 1 .. Len(w)
      BY <1>8
    <3> QED BY <3>2, <3>3, <3>4
  <2>2. \A k \in d + 1 .. Len(w) : \E i \in Coming(t) : p[i] = k
    <3>1. TAKE k \in d + 1 .. Len(w)
    <3>2. k \in m + 1 .. Len(w)
      BY <1>6
    <3>3. PICK i \in Coming(s) : place[i] = k
      BY <1>4, <3>2
    <3>4. i # 1
      <4>1. i = 1 => d = m + 1 /\ place[1] = m + 1
        BY <1>2, <1>5
      <4> QED BY <1>6, <3>3, <4>1
    <3>5. i - 1 \in Coming(t) /\ (i - 1) + 1 = i
      BY <1>2, <3>4
    <3> QED BY <1>8, <3>3, <3>5
  <2>3. ASSUME NEW i \in Coming(t), NEW j \in Coming(t), i < j PROVE p[i] < p[j]
    <3>1. i + 1 < j + 1
      BY <1>2, <2>3
    <3> QED BY <1>4, <1>8, <3>1
  <2> QED BY <2>1, <2>2, <2>3 DEF Follows
<1>11. ASSUME Shifted(place, s, shift, w)
       PROVE  Shifted(p, t, IF Head(s).key \in Shifts THEN ~Head(s).up ELSE shift, w)
  <2>1. ASSUME NEW i \in Coming(t), t[i].key \notin Alike
        PROVE  Leads(t, IF Head(s).key \in Shifts THEN ~Head(s).up ELSE shift, i, w[p[i]][2])
    <3>1. PICK j \in 2 .. Len(s) + 1 : j = i + 1 /\ i = j - 1
      <4>1. i + 1 \in 1 .. Len(s) /\ i + 1 # 1
        BY <1>2, <1>8
      <4> QED BY <1>2, <4>1
    <3>2. Leads(s, shift, j, w[place[j]][2])
      BY <1>2, <1>8, <1>11, <2>1, <3>1 DEF Shifted
    <3>3. Leads(t, IF Head(s).key \in Shifts THEN ~Head(s).up ELSE shift, j - 1, w[place[j]][2])
      BY <1>1, <3>2, ReadLeads
    <3> QED BY <1>8, <3>1, <3>3
  <2> QED BY <2>1 DEF Shifted
<1>12. ASSUME 1 \in Coming(s) PROVE w[m + 1][1] = Head(s).key
  BY <1>3, <1>4, <1>5, <1>12
<1>13. ASSUME 1 \in Coming(s), Shifted(place, s, shift, w), Head(s).key \notin Alike
       PROVE  w[m + 1][2] = shift
  <2>1. Leads(s, shift, 1, w[place[1]][2])
    BY <1>3, <1>13 DEF Shifted
  <2>2. Leads(s, shift, 1, w[m + 1][2])
    BY <1>5, <1>13, <2>1
  <2>3. ~(\E j \in 1 .. 1 - 1 : TRUE)
    OBVIOUS
  <2> QED BY <2>2, <2>3 DEF Leads
<1> QED BY <1>1, <1>2, <1>6, <1>9, <1>10, <1>11, <1>12, <1>13

JInv == Ordered /\ OneShift /\ LineOrdered

\* Nothing was typed.
LEMMA InitJInv == Init => JInv
<1> SUFFICES ASSUME Init PROVE JInv
  OBVIOUS
<1>1. PICK ack \in Scancode : ack = Release("ack")
  BY DEF Release, Scancode
<1>2. ack.key = "ack" /\ ack.up
  BY <1>1 DEF Release
<1>3. queue = <<ack>> /\ Len(queue) = 1 /\ queue[1] = ack /\ DOMAIN queue = 1 .. 1
  BY <1>1 DEF Init
<1>4. Coming(queue) = {}
  BY <1>2, <1>3 DEF Coming
<1>5. /\ Len(typed) = 0 /\ Len(got) = 0 /\ Len(sent) = 0 /\ Len(read) = 0 /\ Len(line) = 0
      /\ \A i \in 1 .. 0 : FALSE
  BY DEF Init
<1>6. PICK place : place \in [Coming(queue) -> Len(got) + 1 .. Len(typed)]
  <2>1. [i \in {} |-> 0] \in [{} -> Len(got) + 1 .. Len(typed)]
    OBVIOUS
  <2> QED BY <1>4, <2>1
<1>7. Follows(place, queue, Len(got), typed) /\ Shifted(place, queue, is_shift_pressed, typed)
  BY <1>4, <1>5 DEF Follows, Shifted
<1>8. Ordered
  BY <1>5, <1>6, <1>7 DEF Ordered
<1>9. OneShift
  <2> SUFFICES ASSUME ~mixed PROVE OneShift
    BY DEF OneShift
  <2>1. down = {} /\ ~lost /\ is_shift_pressed = FALSE /\ ShiftHeld = FALSE
    BY DEF Init, ShiftHeld
  <2>2. ~(Shifts \subseteq down)
    BY <2>1 DEF Shifts
  <2> QED BY <2>1, <2>2 DEF OneShift
<1>10. LineOrdered
  BY <1>5 DEF LineOrdered
<1> QED BY <1>8, <1>9, <1>10 DEF JInv

\* Scancodes come in that are silent, or the press of a key with a character behind such, and
\* reading up to it leads to the shift with which it is typed.
LEMMA SendOrdered ==
  ASSUME TypeOK, Ordered, NEW t \in Seq(Scancode), queue' = queue \o t,
         got' = got, is_shift_pressed' = is_shift_pressed, ~mixed' => ~mixed,
         \/ Silent(t) /\ typed' = typed
         \/ \E key \in Plain, front \in Seq(Scancode), e \in Plain \X BOOLEAN :
              /\ t = front \o <<Press(key)>> /\ Silent(front)
              /\ typed' = Append(typed, e) /\ e[1] = key
              /\ \/ mixed' \/ key \in Alike
                 \/ Leads(queue \o front, is_shift_pressed, Len(queue \o front) + 1, e[2])
  PROVE  Ordered'
<1>1. queue \in Seq(Scancode) /\ typed \in Typed /\ got \in Typed
  BY DEF TypeOK
<1>2. Len(got) \in Nat /\ Len(typed) \in Nat
  BY <1>1 DEF Typed
<1>3. PICK place \in [Coming(queue) -> Len(got) + 1 .. Len(typed)] :
        /\ Follows(place, queue, Len(got), typed)
        /\ ~mixed => Shifted(place, queue, is_shift_pressed, typed)
  BY DEF Ordered
<1>4. ASSUME NEW s \in Seq(Scancode), Silent(s)
      PROVE  /\ Coming(queue \o s) = Coming(queue) /\ Follows(place, queue \o s, Len(got), typed)
             /\ ~mixed => Shifted(place, queue \o s, is_shift_pressed, typed)
  <2>1. Coming(s) = {}
    <3>1. DOMAIN s = 1 .. Len(s)
      OBVIOUS
    <3> QED BY <1>4, <3>1 DEF Coming, Silent
  <2> QED BY <1>1, <1>3, <2>1, NoiseFollows
<1>5. CASE Silent(t) /\ typed' = typed
  BY <1>3, <1>4, <1>5 DEF Ordered
<1>6. ASSUME NEW key \in Plain, NEW front \in Seq(Scancode), NEW e \in Plain \X BOOLEAN,
             t = front \o <<Press(key)>>, Silent(front), typed' = Append(typed, e), e[1] = key,
             \/ mixed' \/ key \in Alike
             \/ Leads(queue \o front, is_shift_pressed, Len(queue \o front) + 1, e[2])
      PROVE  Ordered'
  <2>1. PICK code \in Scancode : code = Press(key) /\ IsCharacter(code) /\ code.key = key
    <3>1. Press(key) \in Scancode /\ Press(key).key = key /\ ~Press(key).up
      BY Single, Kinds
    <3> QED BY <3>1 DEF IsCharacter
  <2>2. PICK s \in Seq(Scancode) : s = queue \o front
    <3>1. queue \in Seq(Scancode) /\ front \in Seq(Scancode)
      BY <1>1
    <3>2. queue \o front \in Seq(Scancode)
      BY <3>1
    <3> QED BY <3>2, Zenon
  <2>3. Len(got) <= Len(typed)
    BY DEF Ordered
  <2>4. place \in [Coming(s) -> Len(got) + 1 .. Len(typed)] /\ Follows(place, s, Len(got), typed)
        /\ (~mixed => Shifted(place, s, is_shift_pressed, typed))
    BY <1>3, <1>4, <1>6, <2>2
  <2>5. PICK p \in [Coming(s \o <<code>>) -> Len(got) + 1 .. Len(Append(typed, e))] :
          /\ Follows(p, s \o <<code>>, Len(got), Append(typed, e))
          /\ Shifted(place, s, is_shift_pressed, typed)
             /\ (code.key \in Alike \/ Leads(s, is_shift_pressed, Len(s) + 1, e[2]))
               => Shifted(p, s \o <<code>>, is_shift_pressed, Append(typed, e))
    BY <1>1, <1>2, <1>6, <2>1, <2>3, <2>4, PressFollows
  <2>6. queue' = s \o <<code>>
    <3>1. queue \o (front \o <<code>>) = (queue \o front) \o <<code>>
      BY <1>1, <2>1
    <3> QED BY <1>6, <2>1, <2>2, <3>1
  <2>7. ~mixed' => Shifted(p, queue', is_shift_pressed, typed')
    BY <1>6, <2>1, <2>2, <2>4, <2>5, <2>6
  <2>8. Len(typed') = Len(typed) + 1 /\ \A i \in 1 .. Len(typed) : typed'[i] = typed[i]
    BY <1>1, <1>6 DEF Typed
  <2>9. \A i \in 1 .. Len(got) : got[i][1] = typed'[i][1] /\ (~mixed => Agrees(got[i], typed'[i]))
    <3>1. \A i \in 1 .. Len(got) : i \in 1 .. Len(typed)
      BY <1>2, <2>3
    <3>2. \A i \in 1 .. Len(got) : typed'[i] = typed[i]
      BY <2>8, <3>1
    <3>3. \A i \in 1 .. Len(got) : got[i][1] = typed[i][1] /\ (~mixed => Agrees(got[i], typed[i]))
      BY DEF Ordered
    <3> QED BY <3>2, <3>3
  <2>10. p \in [Coming(queue') -> Len(got) + 1 .. Len(typed')] /\ Follows(p, queue', Len(got), typed')
    BY <1>6, <2>5, <2>6
  <2>11. Len(got) <= Len(typed')
    BY <1>2, <2>3, <2>8
  <2> QED BY <2>7, <2>9, <2>10, <2>11 DEF Ordered
<1> QED BY <1>5, <1>6, Zenon

\* Reading the next scancode.
LEMMA ReadOrdered ==
  ASSUME TypeOK, Ordered, OneShift, PollKeyboard, queue # <<>>
  PROVE  Ordered' /\ OneShift'
<1>1. queue \in Seq(Scancode) /\ typed \in Typed /\ got \in Typed /\ Head(queue) \in Scancode
  <2>1. queue \in Seq(Scancode) /\ typed \in Typed /\ got \in Typed
    BY DEF TypeOK
  <2>2. Head(queue) \in Scancode
    BY <2>1
  <2> QED BY <2>1, <2>2
<1>2. Len(got) \in Nat /\ Len(typed) \in Nat /\ Len(queue) \in Nat
  BY <1>1 DEF Typed
<1>3. /\ queue' = Tail(queue) /\ is_shift_pressed' = ShiftAfter(Head(queue))
      /\ got' = IF IsCharacter(Head(queue)) THEN Append(got, <<Head(queue).key, is_shift_pressed>>)
                ELSE got
      /\ typed' = typed /\ mixed' = mixed /\ lost' = lost /\ down' = down /\ num_lock' = num_lock
  BY DEF PollKeyboard
<1>4. PICK place \in [Coming(queue) -> Len(got) + 1 .. Len(typed)] :
        /\ Follows(place, queue, Len(got), typed)
        /\ ~mixed => Shifted(place, queue, is_shift_pressed, typed)
  BY DEF Ordered
<1>5. Len(got) <= Len(typed)
  BY DEF Ordered
<1>6. PICK d : d = IF IsCharacter(Head(queue)) THEN Len(got) + 1 ELSE Len(got)
  OBVIOUS
<1>7. PICK after : after = IF Head(queue).key \in Shifts THEN ~Head(queue).up ELSE is_shift_pressed
  OBVIOUS
<1>8. is_shift_pressed' = after
  BY <1>3, <1>7 DEF ShiftAfter
<1>9. /\ d <= Len(typed)
      /\ IsCharacter(Head(queue)) => typed[Len(got) + 1][1] = Head(queue).key
      /\ IsCharacter(Head(queue)) /\ Shifted(place, queue, is_shift_pressed, typed) =>
           Head(queue).key \in Alike \/ typed[Len(got) + 1][2] = is_shift_pressed
      /\ \E p \in [Coming(Tail(queue)) -> d + 1 .. Len(typed)] :
           /\ Follows(p, Tail(queue), d, typed)
           /\ Shifted(place, queue, is_shift_pressed, typed) => Shifted(p, Tail(queue), after, typed)
  BY <1>1, <1>2, <1>4, <1>5, <1>6, <1>7, ReadFollows
<1>10. /\ Len(got') = d
       /\ \A i \in 1 .. Len(got) : got'[i] = got[i]
       /\ \A i \in 1 .. d : i \in 1 .. Len(got) \/ (IsCharacter(Head(queue)) /\ i = Len(got) + 1)
       /\ IsCharacter(Head(queue)) => /\ got'[Len(got) + 1][1] = Head(queue).key
                                      /\ got'[Len(got) + 1][2] = is_shift_pressed
  <2>1. PICK e : e = <<Head(queue).key, is_shift_pressed>>
    OBVIOUS
  <2>2. e[1] = Head(queue).key /\ e[2] = is_shift_pressed
    BY <2>1
  <2>3. CASE IsCharacter(Head(queue))
    <3>1. got' = Append(got, e) /\ d = Len(got) + 1
      BY <1>3, <1>6, <2>1, <2>3
    <3>2. /\ Len(got') = Len(got) + 1 /\ got'[Len(got) + 1] = e
          /\ \A i \in 1 .. Len(got) : got'[i] = got[i]
      BY <1>1, <3>1 DEF Typed
    <3>3. \A i \in 1 .. Len(got) + 1 : i \in 1 .. Len(got) \/ i = Len(got) + 1
      BY <1>2
    <3> QED BY <2>2, <2>3, <3>1, <3>2, <3>3
  <2>4. CASE ~IsCharacter(Head(queue))
    BY <1>3, <1>6, <2>4
  <2> QED BY <2>3, <2>4
<1>11. \A i \in 1 .. Len(got') :
         got'[i][1] = typed'[i][1] /\ (~mixed' => Agrees(got'[i], typed'[i]))
  <2>1. TAKE i \in 1 .. Len(got')
  <2>2. CASE i \in 1 .. Len(got)
    <3>1. got[i][1] = typed[i][1] /\ (~mixed => Agrees(got[i], typed[i]))
      BY <2>2 DEF Ordered
    <3> QED BY <1>3, <1>10, <2>2, <3>1
  <2>3. CASE IsCharacter(Head(queue)) /\ i = Len(got) + 1
    BY <1>3, <1>4, <1>9, <1>10, <2>3 DEF Agrees
  <2> QED BY <1>10, <2>2, <2>3
<1>12. \E p \in [Coming(queue') -> Len(got') + 1 .. Len(typed')] :
         /\ Follows(p, queue', Len(got'), typed')
         /\ ~mixed' => Shifted(p, queue', is_shift_pressed', typed')
  BY <1>3, <1>4, <1>8, <1>9, <1>10
<1>13. Ordered'
  BY <1>3, <1>9, <1>10, <1>11, <1>12 DEF Ordered
<1>14. OneShift'
  <2> SUFFICES ASSUME ~mixed' PROVE OneShift'
    BY DEF OneShift
  <2>1. ShiftHeld' = ShiftHeld /\ Lifting' = Lifting
    BY <1>3 DEF ShiftHeld, Lifting
  <2>2. ~lost /\ ~(Shifts \subseteq down)
    BY <1>3 DEF OneShift
  <2>3. ASSUME ShiftHeld, down \cap Lifting = {}
        PROVE  Leads(queue', is_shift_pressed', Len(queue') + 1, TRUE)
    <3>1. Leads(queue, is_shift_pressed, Len(queue) + 1, TRUE)
      BY <1>3, <2>3 DEF OneShift
    <3>2. PICK i \in 2 .. Len(queue) + 1 : i = Len(queue) + 1 /\ Len(Tail(queue)) + 1 = i - 1
      BY <1>1, <1>2
    <3>3. Leads(Tail(queue), after, i - 1, TRUE)
      BY <1>1, <1>7, <3>1, <3>2, ReadLeads
    <3> QED BY <1>3, <1>8, <3>2, <3>3, Zenon
  <2> QED BY <1>3, <2>1, <2>2, <2>3 DEF OneShift
<1> QED BY <1>13, <1>14

\* Every press, release and poll keeps the order.
LEMMA StepJInv == IInv /\ JInv /\ [Next]_vars => JInv'
<1> SUFFICES ASSUME IInv, JInv, [Next]_vars PROVE JInv'
  OBVIOUS
<1>0. /\ TypeOK /\ Settling /\ Ordered /\ OneShift /\ LineOrdered /\ queue \in Seq(Scancode)
      /\ down \subseteq Keys /\ is_shift_pressed \in BOOLEAN
      /\ Len(queue) <= Depth /\ Len(queue) \in Nat /\ Depth \in Nat
  BY KeyboardAssumption DEF IInv, JInv, TypeOK
<1>1. ASSUME NEW key \in Keys, PressKey(key) PROVE JInv'
  <2>1. PICK codes \in PressCodes(key) :
          /\ Send(codes)
          /\ typed' = IF key \in Plain /\ Len(queue) + Len(codes) <= Depth
                      THEN Append(typed, <<key, Wanted(key)>>) ELSE typed
    BY <1>1 DEF PressKey
  <2>2. /\ got' = got /\ is_shift_pressed' = is_shift_pressed /\ down' = down \cup {key}
        /\ line' = line /\ sent' = sent /\ read' = read /\ num_lock' = num_lock
        /\ mixed' = (mixed \/ lost' \/ Shifts \subseteq down'
                     \/ (key \in Plain \ Alike /\ down \cap Faking # {}))
    BY <1>1 DEF PressKey, serial
  <2>3. PICK front \in Seq(Scancode) :
          /\ codes = front \o <<Press(key)>> /\ codes \in Seq(Scancode)
          /\ Len(codes) = Len(front) + 1 /\ Silent(front)
          /\ \A i \in 1 .. Len(front) : codes[i] = front[i]
          /\ key \in Shifts => codes = <<Press(key)>>
          /\ ~(key \in Lifting /\ ShiftHeld) /\ ~(key \in Raising /\ ~ShiftHeld) => NoShifts(front)
          /\ key \in Lifting /\ ShiftHeld /\ key \notin down =>
               \A s \in Seq(Scancode), shift \in BOOLEAN :
                 Leads(s \o front, shift, Len(s \o front) + 1, FALSE)
    BY <1>0, PressLeads
  <2>4. PICK t \in Seq(Scancode) :
          /\ queue' = queue \o t /\ lost' \in BOOLEAN
          /\ lost' = FALSE => lost = FALSE /\ t = codes
          /\ \A i \in 1 .. Len(t) : i \in 1 .. Len(codes) /\ t[i] = codes[i]
          /\ Len(queue) + Len(codes) <= Depth => t = codes
          /\ Len(queue) + Len(codes) > Depth => Len(t) < Len(codes)
    BY <1>0, <2>1, <2>3, Sent
  <2>5. Press(key) \in Scancode /\ Press(key).key = key /\ ~Press(key).up
        /\ <<Press(key)>> \in Seq(Scancode)
    BY Single
  <2>6. ASSUME ~mixed' PROVE ~mixed /\ ~lost /\ ~lost' /\ t = codes
    <3>1. ~lost' /\ ~mixed
      BY <2>2, <2>6
    <3> QED BY <2>4, <3>1
  <2>7. ASSUME key \in Plain \ Alike, ~mixed'
        PROVE  Leads(queue \o front, is_shift_pressed, Len(queue \o front) + 1, Wanted(key))
    <3>1. down \cap Faking = {} /\ down \cap Lifting = {} /\ down \cap Raising = {}
          /\ key \notin Raising /\ (key \in Lifting <=> key \in Divide)
      BY <2>2, <2>7, Kinds
    <3>2. CASE ShiftHeld /\ key \in Divide
      <4>1. key \in Lifting /\ key \notin down /\ Wanted(key) = FALSE
        <5>1. key \in Lifting /\ key \in Faking
          BY <3>1, <3>2, Kinds
        <5> QED BY <3>1, <3>2, <5>1 DEF Wanted
      <4> QED BY <1>0, <2>3, <3>2, <4>1
    <3>3. CASE ShiftHeld /\ key \notin Divide
      <4>1. Leads(queue, is_shift_pressed, Len(queue) + 1, TRUE)
        BY <1>0, <2>6, <2>7, <3>1, <3>3 DEF OneShift
      <4>2. NoShifts(front) /\ Wanted(key) = TRUE
        BY <2>3, <3>1, <3>3 DEF Wanted, ShiftHeld
      <4> QED BY <1>0, <4>1, <4>2, MoreLeads
    <3>4. CASE ~ShiftHeld
      <4>1. Leads(queue, is_shift_pressed, Len(queue) + 1, FALSE)
        BY <1>0, <2>6, <2>7, <3>1, <3>4 DEF Settling, Settles
      <4>2. NoShifts(front) /\ Wanted(key) = FALSE
        BY <2>3, <3>1, <3>4 DEF Wanted
      <4> QED BY <1>0, <4>1, <4>2, MoreLeads
    <3> QED BY <3>2, <3>3, <3>4
  <2>8. \/ Silent(t) /\ typed' = typed
        \/ key \in Plain /\ t = front \o <<Press(key)>> /\ typed' = Append(typed, <<key, Wanted(key)>>)
    <3>1. CASE key \notin Plain
      <4>1. Silent(<<Press(key)>>)
        BY <2>5, <3>1 DEF Silent
      <4>2. Silent(codes)
        BY <2>3, <2>5, <4>1, SilentBoth
      <4>3. Silent(t)
        BY <2>4, <4>2 DEF Silent
      <4> QED BY <2>1, <3>1, <4>3
    <3>2. CASE key \in Plain /\ Len(queue) + Len(codes) <= Depth
      BY <2>1, <2>3, <2>4, <3>2
    <3>3. CASE ~(Len(queue) + Len(codes) <= Depth)
      <4>1. Len(t) < Len(codes) /\ Len(t) \in Nat /\ Len(front) \in Nat
        BY <1>0, <2>3, <2>4, <3>3
      <4>2. \A i \in 1 .. Len(t) : i \in 1 .. Len(front) /\ t[i] = front[i]
        BY <2>3, <2>4, <4>1
      <4>3. Silent(t)
        BY <2>3, <4>2 DEF Silent
      <4> QED BY <2>1, <3>3, <4>3
    <3> QED BY <3>1, <3>2, <3>3
  <2>9. Ordered'
    <3>1. CASE Silent(t) /\ typed' = typed
      BY <1>0, <2>2, <2>4, <3>1, SendOrdered
    <3>2. CASE key \in Plain /\ t = front \o <<Press(key)>> /\ typed' = Append(typed, <<key, Wanted(key)>>)
      <4>1. PICK e \in Plain \X BOOLEAN : e = <<key, Wanted(key)>> /\ e[1] = key /\ e[2] = Wanted(key)
        <5>1. <<key, Wanted(key)>> \in Plain \X BOOLEAN
          BY <3>2 DEF Wanted, ShiftHeld
        <5> QED BY <5>1
      <4>2. /\ t = front \o <<Press(key)>> /\ Silent(front) /\ typed' = Append(typed, e) /\ e[1] = key
            /\ \/ mixed' \/ key \in Alike
               \/ Leads(queue \o front, is_shift_pressed, Len(queue \o front) + 1, e[2])
        BY <2>3, <2>7, <3>2, <4>1
      <4>3. ~mixed' => ~mixed
        BY <2>2
      <4>4. TypeOK /\ Ordered /\ queue' = queue \o t /\ got' = got /\ is_shift_pressed' = is_shift_pressed
        BY <1>0, <2>2, <2>4
      <4> QED BY <3>2, <4>2, <4>3, <4>4, SendOrdered
    <3> QED BY <2>8, <3>1, <3>2
  <2>10. OneShift'
    <3>1. Lifting' = Lifting
      BY <2>2 DEF Lifting
    <3> SUFFICES ASSUME ~mixed' PROVE OneShift'
      BY DEF OneShift
    <3>2. ~lost' /\ ~(Shifts \subseteq down')
      BY <2>2
    <3>3. ASSUME ShiftHeld', down' \cap Lifting = {}
          PROVE  Leads(queue', is_shift_pressed, Len(queue') + 1, TRUE)
      <4>1. CASE key \in Shifts
        <5>1. codes = <<Press(key)>> /\ t = codes /\ (~Press(key).up) = TRUE
          BY <2>3, <2>5, <2>6, <4>1
        <5> QED BY <1>0, <2>4, <2>5, <4>1, <5>1, ShiftLeads
      <4>2. CASE key \notin Shifts
        <5>1. ShiftHeld /\ key \notin Lifting /\ down \cap Lifting = {}
          BY <2>2, <3>3, <4>2 DEF ShiftHeld
        <5>2. NoShifts(<<Press(key)>>)
          BY <2>5, <4>2 DEF NoShifts
        <5>3. NoShifts(codes)
          BY <2>3, <2>5, <5>1, <5>2, NoShiftsBoth
        <5>4. Leads(queue, is_shift_pressed, Len(queue) + 1, TRUE)
          BY <1>0, <2>6, <5>1 DEF OneShift
        <5> QED BY <1>0, <2>3, <2>4, <2>6, <5>3, <5>4, MoreLeads
      <4> QED BY <4>1, <4>2
    <3> QED BY <2>2, <3>1, <3>2, <3>3 DEF OneShift
  <2>11. LineOrdered'
    BY <1>0, <2>2 DEF LineOrdered
  <2> QED BY <2>9, <2>10, <2>11 DEF JInv
<1>2. ASSUME NEW key \in Keys, ReleaseKey(key) PROVE JInv'
  <2>1. /\ got' = got /\ is_shift_pressed' = is_shift_pressed /\ down' = down \ {key} /\ key \in down
        /\ line' = line /\ sent' = sent /\ read' = read /\ typed' = typed /\ num_lock' = num_lock
        /\ mixed' = (mixed \/ lost')
    BY <1>2 DEF ReleaseKey, serial
  <2>2. PICK codes \in Seq(Scancode) :
          /\ codes = ReleaseCodes(key) /\ Silent(codes)
          /\ key \notin Shifts /\ ~(key \in Lifting /\ ShiftHeld) /\ ~(key \in Raising /\ ~ShiftHeld)
               => NoShifts(codes)
          /\ key \in Lifting /\ ShiftHeld => \A s \in Seq(Scancode), shift \in BOOLEAN :
               Leads(s \o codes, shift, Len(s \o codes) + 1, TRUE)
    BY <1>0, ReleaseLeads
  <2>3. PICK t \in Seq(Scancode) :
          /\ queue' = queue \o t /\ lost' \in BOOLEAN
          /\ lost' = FALSE => lost = FALSE /\ t = codes
          /\ \A i \in 1 .. Len(t) : i \in 1 .. Len(codes) /\ t[i] = codes[i]
    BY <1>0, <1>2, <2>2, Sent DEF ReleaseKey
  <2>4. Silent(t)
    BY <2>2, <2>3 DEF Silent
  <2>5. Ordered'
    BY <1>0, <2>1, <2>3, <2>4, SendOrdered
  <2>6. OneShift'
    <3>1. Lifting' = Lifting
      BY <2>1 DEF Lifting
    <3> SUFFICES ASSUME ~mixed' PROVE OneShift'
      BY DEF OneShift
    <3>2. ~mixed /\ ~lost' /\ t = codes
      BY <2>1, <2>3
    <3>3. ~(Shifts \subseteq down)
      BY <1>0, <3>2 DEF OneShift
    <3>4. ASSUME ShiftHeld', down' \cap Lifting = {}
          PROVE  Leads(queue', is_shift_pressed, Len(queue') + 1, TRUE)
      <4>1. ShiftHeld /\ key \notin Shifts
        BY <2>1, <3>3, <3>4 DEF ShiftHeld, Shifts
      <4>2. CASE key \in Lifting
        BY <1>0, <2>2, <2>3, <3>2, <4>1, <4>2
      <4>3. CASE key \notin Lifting
        <5>1. down \cap Lifting = {} /\ NoShifts(codes)
          BY <2>1, <2>2, <3>4, <4>1, <4>3
        <5>2. Leads(queue, is_shift_pressed, Len(queue) + 1, TRUE)
          BY <1>0, <3>2, <4>1, <5>1 DEF OneShift
        <5> QED BY <1>0, <2>3, <3>2, <5>1, <5>2, MoreLeads
      <4> QED BY <4>2, <4>3
    <3> QED BY <2>1, <3>1, <3>2, <3>3, <3>4 DEF OneShift
  <2>7. LineOrdered'
    BY <1>0, <2>1 DEF LineOrdered
  <2> QED BY <2>5, <2>6, <2>7 DEF JInv
<1>3. ASSUME NEW c \in Chars, Arrive(c) PROVE JInv'
  <2>1. /\ UNCHANGED <<is_shift_pressed, at, keyboard, got>>
        /\ read' = read /\ line' = Append(line, c) /\ sent' = Append(sent, c)
    BY <1>3 DEF Arrive
  <2>2. Ordered' /\ OneShift'
    BY <1>0, <2>1 DEF Ordered, OneShift, keyboard, ShiftHeld, Lifting
  <2>3. LineOrdered'
    <3>1. line \in Seq(Chars) /\ sent \in Seq(Chars) /\ read \in Seq(Chars \cup {"\n"})
      BY <1>0 DEF TypeOK
    <3>2. /\ Len(line') = Len(line) + 1 /\ line'[Len(line) + 1] = c
          /\ Len(sent') = Len(sent) + 1 /\ sent'[Len(sent) + 1] = c
          /\ \A i \in 1 .. Len(line) : line'[i] = line[i]
          /\ \A i \in 1 .. Len(sent) : sent'[i] = sent[i]
      BY <2>1, <3>1
    <3>3. Len(line) \in Nat /\ Len(sent) \in Nat /\ Len(read) \in Nat
      BY <3>1
    <3>4. Len(sent) = Len(read) + Len(line)
      BY <1>0 DEF LineOrdered
    <3>5. Len(sent') = Len(read') + Len(line')
      BY <2>1, <3>2, <3>3, <3>4
    <3>6. \A i \in 1 .. Len(read') : read'[i] = Sane(sent'[i])
      <4>1. TAKE i \in 1 .. Len(read')
      <4>2. i \in 1 .. Len(read) /\ i \in 1 .. Len(sent)
        BY <2>1, <3>3, <3>4
      <4>3. read[i] = Sane(sent[i])
        BY <1>0, <4>2 DEF LineOrdered
      <4> QED BY <2>1, <3>2, <4>2, <4>3
    <3>7. \A i \in 1 .. Len(line') : line'[i] = sent'[Len(read') + i]
      <4>1. TAKE i \in 1 .. Len(line')
      <4>2. CASE i \in 1 .. Len(line)
        <5>1. line[i] = sent[Len(read) + i] /\ Len(read) + i \in 1 .. Len(sent)
          BY <1>0, <3>3, <3>4, <4>2 DEF LineOrdered
        <5> QED BY <2>1, <3>2, <4>2, <5>1
      <4>3. CASE i \notin 1 .. Len(line)
        <5>1. i = Len(line) + 1 /\ Len(read) + i = Len(sent) + 1
          BY <3>2, <3>3, <3>4, <4>3
        <5> QED BY <2>1, <3>2, <5>1
      <4> QED BY <4>2, <4>3
    <3> QED BY <3>5, <3>6, <3>7 DEF LineOrdered
  <2> QED BY <2>2, <2>3 DEF JInv
<1>4. CASE PollKeyboard /\ queue = <<>>
  <2>1. UNCHANGED <<is_shift_pressed, queue, got, down, num_lock, lost, mixed, typed, events, serial, read>>
    BY <1>4 DEF PollKeyboard
  <2> QED BY <1>0, <2>1 DEF JInv, Ordered, OneShift, LineOrdered, ShiftHeld, Lifting, serial
<1>5. CASE PollKeyboard /\ queue # <<>>
  <2>1. Ordered' /\ OneShift'
    BY <1>0, <1>5, ReadOrdered
  <2>2. line' = line /\ sent' = sent /\ read' = read
    BY <1>5 DEF PollKeyboard, serial
  <2> QED BY <1>0, <2>1, <2>2 DEF JInv, LineOrdered
<1>6. CASE PollSerial
  <2>1. /\ UNCHANGED <<is_shift_pressed, keyboard, sent, got>>
        /\ \/ line = <<>> /\ UNCHANGED <<line, read>>
           \/ line # <<>> /\ line' = Tail(line) /\ read' = Append(read, Sane(Head(line)))
    BY <1>6 DEF PollSerial
  <2>2. Ordered' /\ OneShift'
    BY <1>0, <2>1 DEF Ordered, OneShift, keyboard, ShiftHeld, Lifting
  <2>3. CASE UNCHANGED <<line, read>>
    BY <1>0, <2>1, <2>2, <2>3 DEF JInv, LineOrdered
  <2>4. CASE line # <<>> /\ line' = Tail(line) /\ read' = Append(read, Sane(Head(line)))
    <3>1. line \in Seq(Chars) /\ sent \in Seq(Chars) /\ read \in Seq(Chars \cup {"\n"}) /\ sent' = sent
      BY <1>0, <2>1 DEF TypeOK
    <3>2. PICK c : c = Sane(Head(line))
      OBVIOUS
    <3>3. read' = Append(read, c)
      BY <2>4, <3>2
    <3>4. /\ Len(line') = Len(line) - 1 /\ Head(line) = line[1] /\ Len(line) > 0
          /\ \A i \in 1 .. Len(line) - 1 : line'[i] = line[i + 1]
      BY <2>4, <3>1
    <3>5. /\ Len(read') = Len(read) + 1 /\ read'[Len(read) + 1] = c
          /\ \A i \in 1 .. Len(read) : read'[i] = read[i]
      BY <3>1, <3>3
    <3>6. Len(line) \in Nat /\ Len(sent) \in Nat /\ Len(read) \in Nat
      BY <3>1
    <3>7. /\ Len(sent) = Len(read) + Len(line)
          /\ \A i \in 1 .. Len(read) : read[i] = Sane(sent[i])
          /\ \A i \in 1 .. Len(line) : line[i] = sent[Len(read) + i]
      BY <1>0 DEF LineOrdered
    <3>8. Len(sent') = Len(read') + Len(line')
      BY <3>1, <3>4, <3>5, <3>6, <3>7
    <3>9. \A i \in 1 .. Len(read') : read'[i] = Sane(sent'[i])
      <4>1. TAKE i \in 1 .. Len(read')
      <4>2. CASE i \in 1 .. Len(read)
        BY <3>1, <3>5, <3>7, <4>2
      <4>3. CASE i \notin 1 .. Len(read)
        <5>1. i = Len(read) + 1
          BY <3>5, <3>6, <4>3
        <5>2. line[1] = sent[Len(read) + 1]
          BY <3>4, <3>6, <3>7
        <5> QED BY <3>1, <3>2, <3>4, <3>5, <5>1, <5>2
      <4> QED BY <4>2, <4>3
    <3>10. \A i \in 1 .. Len(line') : line'[i] = sent'[Len(read') + i]
      <4>1. TAKE i \in 1 .. Len(line')
      <4>2. i \in 1 .. Len(line) - 1 /\ i + 1 \in 1 .. Len(line)
        BY <3>4, <3>6
      <4>3. line[i + 1] = sent[Len(read) + (i + 1)] /\ Len(read) + (i + 1) = Len(read') + i
        BY <3>5, <3>6, <3>7, <4>2
      <4> QED BY <3>1, <3>4, <4>2, <4>3
    <3>11. LineOrdered'
      BY <3>8, <3>9, <3>10 DEF LineOrdered
    <3> QED BY <2>2, <3>11 DEF JInv
  <2> QED BY <2>1, <2>3, <2>4
<1>7. CASE UNCHANGED vars
  BY <1>0, <1>7 DEF JInv, Ordered, OneShift, LineOrdered, ShiftHeld, Lifting, vars, keyboard, serial
<1> QED BY <1>1, <1>2, <1>3, <1>4, <1>5, <1>6, <1>7 DEF Next

\* The types, and what shift settles to.
THEOREM Invariance == Spec => []IInv
<1> QED
  BY InitIInv, StepIInv, PTL DEF Spec

\* Type correctness; no device holds more than it has room for.
THEOREM TypeCorrect == Spec => []TypeOK
<1>1. IInv => TypeOK
  BY DEF IInv
<1> QED
  BY <1>1, Invariance, PTL

\* Shift goes off: when no shift key is held, nor a key with which the keyboard pretends one,
\* no scancode was lost and all were read, it is off.
THEOREM ShiftOff == Spec => []ShiftSettles
<1>1. IInv => ShiftSettles
  <2> SUFFICES ASSUME IInv, queue = <<>>, ~lost, ~ShiftHeld, down \cap Raising = {}
                  PROVE  ~is_shift_pressed
    BY DEF ShiftSettles
  <2>1. Settles(queue, is_shift_pressed)
    BY DEF IInv, Settling
  <2>2. \A i \in 1 .. Len(queue) : FALSE
    OBVIOUS
  <2> QED BY <2>1, <2>2 DEF Settles, Leads
<1> QED
  BY <1>1, Invariance, PTL

\* The order, and the shift that goes with every scancode in the queue.
THEOREM OrderInvariance == Spec => []JInv
<1> QED
  BY Invariance, InitJInv, StepJInv, PTL DEF Spec

\* Every key gives its character once and in the order of typing, and so does the line.
THEOREM TypedInOrder == Spec => []InOrder
<1>1. IInv /\ JInv => InOrder
  <2> SUFFICES ASSUME IInv, JInv PROVE InOrder
    OBVIOUS
  <2>1. /\ typed \in Typed /\ got \in Typed /\ sent \in Seq(Chars) /\ line \in Seq(Chars)
        /\ read \in Seq(Chars \cup {"\n"})
    BY DEF IInv, TypeOK
  <2>2. /\ DOMAIN typed = 1 .. Len(typed) /\ DOMAIN got = 1 .. Len(got)
        /\ Len(typed) \in Nat /\ Len(got) \in Nat
    BY <2>1 DEF Typed
  <2>3. Len(got) <= Len(typed) /\ \A i \in 1 .. Len(got) : got[i][1] = typed[i][1]
    BY DEF JInv, Ordered
  <2>4. \A i \in DOMAIN got : i \in DOMAIN typed /\ got[i][1] = typed[i][1]
    BY <2>2, <2>3
  <2>5. DOMAIN typed \ DOMAIN got = Len(got) + 1 .. Len(typed)
    BY <2>2, <2>3
  <2>6. PICK place \in [Coming(queue) -> Len(got) + 1 .. Len(typed)] :
          Follows(place, queue, Len(got), typed)
    BY DEF JInv, Ordered
  <2>7. \E p \in [Coming(queue) -> DOMAIN typed \ DOMAIN got] :
          /\ \A k \in DOMAIN typed \ DOMAIN got : \E i \in Coming(queue) : p[i] = k
          /\ \A i, j \in Coming(queue) : i < j => p[i] < p[j]
          /\ \A i \in Coming(queue) : typed[p[i]][1] = queue[i].key
    BY <2>5, <2>6 DEF Follows
  <2>8. [i \in DOMAIN sent |-> IF sent[i] = "\r" THEN "\n" ELSE sent[i]]
          = read \o [i \in DOMAIN line |-> IF line[i] = "\r" THEN "\n" ELSE line[i]]
    <3>1. PICK rest : rest = [i \in DOMAIN line |-> IF line[i] = "\r" THEN "\n" ELSE line[i]]
      OBVIOUS
    <3>2. PICK all : all = [i \in DOMAIN sent |-> IF sent[i] = "\r" THEN "\n" ELSE sent[i]]
      OBVIOUS
    <3>3. /\ DOMAIN line = 1 .. Len(line) /\ DOMAIN sent = 1 .. Len(sent)
          /\ Len(line) \in Nat /\ Len(sent) \in Nat /\ Len(read) \in Nat
      BY <2>1
    <3>4. rest \in Seq(Chars \cup {"\n"}) /\ Len(rest) = Len(line)
      BY <2>1, <3>1, <3>3
    <3>5. all \in Seq(Chars \cup {"\n"}) /\ Len(all) = Len(sent)
      BY <2>1, <3>2, <3>3
    <3>6. PICK both : both = read \o rest
      OBVIOUS
    <3>7. /\ both \in Seq(Chars \cup {"\n"}) /\ Len(both) = Len(read) + Len(line)
          /\ \A i \in 1 .. Len(read) : both[i] = read[i]
          /\ \A i \in 1 .. Len(line) : both[Len(read) + i] = rest[i]
      <4>1. read \in Seq(Chars \cup {"\n"}) /\ rest \in Seq(Chars \cup {"\n"})
        BY <2>1, <3>4
      <4>2. both \in Seq(Chars \cup {"\n"})
        BY <3>6, <4>1
      <4>3. Len(both) = Len(read) + Len(rest)
        BY <3>6, <4>1
      <4>4. \A i \in 1 .. Len(read) : both[i] = read[i]
        BY <3>6, <4>1
      <4>5. \A i \in 1 .. Len(rest) : both[Len(read) + i] = rest[i]
        BY <3>6, <4>1
      <4> QED BY <3>4, <4>2, <4>3, <4>4, <4>5
    <3>8. /\ Len(sent) = Len(read) + Len(line)
          /\ \A i \in 1 .. Len(read) : read[i] = Sane(sent[i])
          /\ \A i \in 1 .. Len(line) : line[i] = sent[Len(read) + i]
      BY DEF JInv, LineOrdered
    <3>9. ASSUME NEW i \in 1 .. Len(sent) PROVE all[i] = both[i]
      <4>1. all[i] = Sane(sent[i])
        BY <3>2, <3>3 DEF Sane
      <4>2. CASE i \in 1 .. Len(read)
        BY <3>7, <3>8, <4>1, <4>2
      <4>3. CASE i \notin 1 .. Len(read)
        <5>1. PICK k \in 1 .. Len(line) : i = Len(read) + k
          <6>1. i - Len(read) \in 1 .. Len(line) /\ i = Len(read) + (i - Len(read))
            BY <3>3, <3>8, <4>3
          <6> QED BY <6>1
        <5>2. rest[k] = Sane(line[k])
          BY <3>1, <3>3 DEF Sane
        <5> QED BY <3>7, <3>8, <4>1, <5>1, <5>2
      <4> QED BY <4>2, <4>3
    <3>10. all = both
      BY <3>5, <3>7, <3>8, <3>9
    <3> QED BY <3>1, <3>2, <3>6, <3>10
  <2> QED BY <2>4, <2>7, <2>8 DEF InOrder
<1> QED
  BY <1>1, Invariance, OrderInvariance, PTL

\* A character is shifted exactly when a shift key was held as it was typed, also when keys with
\* fake scancodes of shift keys were pressed before.
THEOREM TypedShifted == Spec => []ShiftedAsTyped
<1>1. IInv /\ JInv => ShiftedAsTyped
  <2> SUFFICES ASSUME IInv, JInv, ~mixed, NEW i \in DOMAIN got
                  PROVE  got[i] = typed[i] \/ got[i][1] \in Alike
    BY DEF ShiftedAsTyped
  <2>1. typed \in Seq(Plain \X BOOLEAN) /\ got \in Seq(Plain \X BOOLEAN)
    BY DEF IInv, TypeOK, Typed
  <2>2. i \in 1 .. Len(got) /\ Len(got) \in Nat /\ Len(typed) \in Nat
    BY <2>1
  <2>3. Len(got) <= Len(typed) /\ got[i][1] = typed[i][1] /\ (got[i][2] = typed[i][2] \/ got[i][1] \in Alike)
    BY <2>2 DEF JInv, Ordered, Agrees
  <2>4. i \in 1 .. Len(typed)
    BY <2>2, <2>3
  <2>5. got[i] \in Plain \X BOOLEAN /\ typed[i] \in Plain \X BOOLEAN
    BY <2>1, <2>2, <2>4
  <2> QED BY <2>3, <2>5
<1> QED
  BY <1>1, Invariance, OrderInvariance, PTL

=============================================================================
