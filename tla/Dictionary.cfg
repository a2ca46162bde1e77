SPECIFICATION Spec
CONSTANTS
  Top <- MCTop
  Start <- MCStart
  NameLens <- MCNames
  Pieces <- MCPieces
  Allots <- MCAllots
  MaxWords = 3
  MaxBody = 645
  LineBytes = 221
  Habits = {}
INVARIANTS
  TypeOK
  SearchOrder
  CodeInPlace
