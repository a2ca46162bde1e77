SPECIFICATION Spec
CONSTANTS
  Files = {f1, f2}
  NoFile = NoFile
  Handles = {h1, h2}
  Dirs = {d1}
  MaxDepth = 2
  MaxLines = 1
  Faults <- Handled
  Habits <- LastOnLine
SYMMETRY Sym
INVARIANTS
  TypeOK
  HandlesOwned
  IorTells
  LineIntact
PROPERTIES
  CardIsAsTold
