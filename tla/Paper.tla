------------------------------- MODULE Paper -------------------------------
(***************************************************************************)
(* What a screen promises to those who print on it: a roll of paper, which *)
(* is printed on cell after cell and moves up by a row whenever its end is *)
(* reached.  Only the last Lines rows can be reached; nothing that was     *)
(* printed gets lost, swapped or printed twice.                            *)
(***************************************************************************)
EXTENDS Integers

CONSTANTS
  Width, Lines,
  Glyph,       \* characters that are seen; one is " "
  Color,
  Position,    \* where clients move to, as <<x, y>>
  Found        \* what is on the rows before the first use

VARIABLE sheet   \* [text, top, place, column, color]

\* The row below the last one comes up when place has passed the end.
Roll(s) ==
  IF s.place < s.top + Lines * Width THEN s
  ELSE [s EXCEPT !.top = @ + Width,
                 !.text = [i \in 0 .. s.top + Lines * Width + Width - 1 |->
                             IF i < s.top + Lines * Width THEN @[i] ELSE <<" ", s.color>>]]

Put(s, c) ==
  Roll([s EXCEPT !.text[s.place] = <<c, s.color>>, !.place = @ + 1,
                 !.column = IF @ + 1 = Width THEN 0 ELSE @ + 1])

Newline(s) == Roll([s EXCEPT !.place = @ - s.column + Width, !.column = 0])

\* Back over the last character, which is deleted, unless there is none in reach.
Back(s) ==
  IF s.place = s.top THEN s
  ELSE [s EXCEPT !.place = @ - 1, !.column = IF @ = 0 THEN Width - 1 ELSE @ - 1,
                 !.text[s.place - 1] = <<" ", s.color>>]

Clear(s) ==
  [s EXCEPT !.place = s.top, !.column = 0,
            !.text = [i \in DOMAIN @ |-> IF i < s.top THEN @[i] ELSE <<" ", s.color>>]]

Init ==
  sheet \in [text : Found \cup [0 .. Lines * Width - 1 -> {" "} \X Color], top : {0},
             place : 0 .. Lines * Width - 1, column : 0 .. Width - 1, color : Color]

Next ==
  \/ \E c \in Glyph : sheet' = Put(sheet, c)
  \/ sheet' = Newline(sheet)
  \/ sheet' = Back(sheet)
  \/ sheet' = Put(Put(Put(Put(sheet, " "), " "), " "), " ")
  \/ sheet' = Clear(sheet)
  \/ \E p \in Position :
       sheet' = [sheet EXCEPT !.place = sheet.top + p[2] * Width + p[1], !.column = p[1]]
  \/ \E c \in Color : sheet' = [sheet EXCEPT !.color = c]

Spec == Init /\ [][Next]_sheet
=============================================================================
