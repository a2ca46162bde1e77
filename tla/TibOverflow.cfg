SPECIFICATION Spec
CONSTANTS
  TibSize = 8
  Ceiling = 7
  ConsoleLimit = 1
  LineLens <- MCLineLens
  EvalLens <- MCEvalLens
  MaxDepth = 2
  MaxCatch = 0
  Handles <- MCTwoHandles
INVARIANTS
  LinesStayInTib
