SPECIFICATION ScreenSpec
CONSTANTS
  Width = 2
  Lines = 3
  Glyph = {" ", "x"}
  Color = {1, 2}
  Position <- MCPosition
  Found <- MCFound
  FoundCursor = {0, 3, 6}
  MaxGone = 2
INVARIANTS
  CursorShown
PROPERTY
  ImplementsPaper
CHECK_DEADLOCK FALSE
