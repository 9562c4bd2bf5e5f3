----------------------------- MODULE VgaConsole -----------------------------
(***************************************************************************)
(* The text screen: i386/vga_console.c, as the terminal functions of       *)
(* kernel/LineRenderer.c and kernel/LineColor.c use it.  Cells lie in a    *)
(* row in video memory; Width and Lines are VGA_WIDTH and VGA_LINES.       *)
(***************************************************************************)
EXTENDS Integers

CONSTANTS
  Width, Lines,
  Glyph,       \* characters that are seen; one is " "
  Color,       \* foreground and background in one
  Position,    \* what callers move the cursor to, as <<x, y>>
  Found,       \* what the firmware may have left on the screen
  FoundCursor, \* where it may have left the cursor of the hardware
  MaxGone      \* bound: cells that may scroll off

Row == 0 .. Lines - 1
Column == 0 .. Width - 1
Index == 0 .. Lines * Width - 1
WordSize == 65536
Word == 0 .. WordSize - 1
Cell == Glyph \X Color

ASSUME VgaAssumption ==
  Width \in Nat /\ Lines \in Nat /\ Width > 0 /\ Lines > 0 /\ Lines * Width <= WordSize

\* terminal_update_cursor takes any position; callers stay on the screen.
ASSUME PositionAssumption == Position \subseteq Column \X Row

ASSUME CellAssumption ==
  " " \in Glyph /\ Found \subseteq [Index -> Cell] /\ FoundCursor \subseteq Word

ASSUME MaxGone \in Nat

VARIABLE vga   \* the fields below

\* row, column, color, buffer: the globals of vga_console.c
\* cursor: the cursor register of the hardware
\* above, gone: history, the cells that have scrolled off and their number

At(v) == v.row * Width + v.column

\* vga_entry of a blank
Blank(v) == <<" ", v.color>>

-----------------------------------------------------------------------------
(***************************************************************************)
(* What the functions do to the screen v.                                  *)
(***************************************************************************)
\* vga_terminal_update_cursor
UpdateCursor(v, x, y) == [v EXCEPT !.cursor = (y * Width + x) % WordSize]
Shown(v) == UpdateCursor(v, v.column, v.row)

\* vga_terminal_scroll
Scroll(v) ==
  [v EXCEPT !.buffer = [i \in Index |-> IF i < (Lines - 1) * Width THEN @[i + Width] ELSE Blank(v)],
            !.above = [i \in 0 .. v.gone + Width - 1 |->
                         IF i < v.gone THEN @[i] ELSE v.buffer[i - v.gone]],
            !.gone = @ + Width]

\* The end of a row, in vga_terminal_putchar and vga_terminal_newline.
NextRow(v) ==
  IF v.row + 1 = Lines THEN [Scroll(v) EXCEPT !.row = Lines - 1] ELSE [v EXCEPT !.row = @ + 1]

\* Mutant: the cursor is moved before the row is.
Putchar_EarlyCursor(v, c) ==
  LET put == [v EXCEPT !.buffer[At(v)] = <<c, v.color>>]
  IN  IF v.column + 1 = Width THEN NextRow(Shown([put EXCEPT !.column = 0]))
      ELSE Shown([put EXCEPT !.column = @ + 1])

\* vga_terminal_putchar
Putchar(v, c) ==
  LET put == [v EXCEPT !.buffer[At(v)] = <<c, v.color>>]
  IN  Shown(IF v.column + 1 = Width THEN NextRow([put EXCEPT !.column = 0])
            ELSE [put EXCEPT !.column = @ + 1])

\* vga_terminal_newline
Newline(v) == Shown(NextRow([v EXCEPT !.column = 0]))

\* Mutant: at the start of a row it goes to the start of the row above.
Backspace_RowStart(v) ==
  IF v.column = 0 /\ v.row = 0 THEN v
  ELSE LET back == IF v.column = 0 THEN [v EXCEPT !.row = @ - 1]
                   ELSE [v EXCEPT !.column = @ - 1]
       IN  Shown([back EXCEPT !.buffer[At(back)] = Blank(v)])

\* vga_terminal_backspace
Backspace(v) ==
  IF v.column = 0 /\ v.row = 0 THEN v
  ELSE LET back == IF v.column = 0 THEN [v EXCEPT !.row = @ - 1, !.column = Width - 1]
                   ELSE [v EXCEPT !.column = @ - 1]
       IN  Shown([back EXCEPT !.buffer[At(back)] = Blank(v)])

\* terminal_tab
Tab(v) == Putchar(Putchar(Putchar(Putchar(v, " "), " "), " "), " ")

\* vga_terminal_cls: the cursor of the hardware stays where it is.
Cls(v) == [v EXCEPT !.row = 0, !.column = 0, !.buffer = [i \in Index |-> Blank(v)]]

-----------------------------------------------------------------------------
\* vga_terminal_initialize: with CONFIG_RESET_CONSOLE the screen is cleared, without it
\* printing goes on at the cursor that is found, taken to be on the screen.
ScreenInit ==
  \E color \in Color, buffer \in Found, cursor \in FoundCursor :
    LET found(x, y) == [row |-> y, column |-> x, color |-> color, buffer |-> buffer,
                        cursor |-> cursor, gone |-> 0, above |-> [i \in 0 .. -1 |-> 0]]
    IN  \/ vga = Cls(found(0, 0))
        \/ \E x \in Column, y \in Row :
             cursor = y * Width + x /\ vga = found(x, y)

\* As long as the history has room.
Step(v) == v.gone <= MaxGone /\ vga' = v

\* terminal_write_for_char, for each character of a string, a number, or a key.
WriteGlyph == \E c \in Glyph : Step(Putchar(vga, c))
WriteNewline == Step(Newline(vga))
WriteBackspace == Step(Backspace(vga))
WriteTab == Step(Tab(vga))

\* terminal_cls
Clear == Step(Cls(vga))

\* terminal_update_cursor
TerminalUpdateCursor ==
  \E p \in Position : Step([UpdateCursor(vga, p[1], p[2]) EXCEPT !.row = p[2], !.column = p[1]])

\* terminal_setcolor, terminal_resetcolor
SetColor == \E color \in Color : Step([vga EXCEPT !.color = color])

ScreenNext ==
  \/ WriteGlyph \/ WriteNewline \/ WriteBackspace \/ WriteTab
  \/ Clear \/ TerminalUpdateCursor \/ SetColor

ScreenSpec == ScreenInit /\ [][ScreenNext]_vga

-----------------------------------------------------------------------------
(***************************************************************************)
(* Properties.                                                             *)
(***************************************************************************)
\* The next character lies on the screen, whatever was printed, scrolled and deleted.
ScreenOK ==
  vga \in [row : Row, column : Column, color : Color, buffer : [Index -> Cell],
           cursor : Word, gone : Nat, above : [0 .. vga.gone - 1 -> Cell]]

\* The cursor that is seen is where the next character goes, but on a screen that has
\* been cleared (vga_terminal_cls leaves it alone): there the next one goes to the top.
CursorShown == vga.cursor = At(vga) \/ At(vga) = 0

\* What has scrolled off and what is on the screen, as one roll of paper.
Cells == [i \in 0 .. vga.gone + Lines * Width - 1 |->
            IF i < vga.gone THEN vga.above[i] ELSE vga.buffer[i - vga.gone]]

OnPaper == INSTANCE Paper WITH
  sheet <- [text |-> Cells, top |-> vga.gone, place |-> vga.gone + At(vga),
            column |-> vga.column, color |-> vga.color]

\* The screen is the end of a roll of paper: what scrolls off is what was printed, in this
\* order; a row that comes up is blank and in the present colour; a character goes where
\* the one before it ended; and only backspaces, moves and clearing go back, never behind
\* the first row.  About vga_terminal_putchar, _newline, _backspace, _scroll and _cls.
ImplementsPaper == OnPaper!Spec
=============================================================================
