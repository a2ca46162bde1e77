SPECIFICATION Spec
CONSTANTS
  Top <- MCTop
  Start <- MCStart
  NameLens <- MCShort
  Pieces <- MCPieces
  Allots <- MCNone
  MaxWords = 2
  MaxBody = 1024
  LineBytes = 221
  Habits = {}
INVARIANTS
  XtIsCode
