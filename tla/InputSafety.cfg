SPECIFICATION FairSpec
CONSTANTS
  TibSize = 4
  Ceiling = 3
  ConsoleLimit = 1
  LineLens <- MCHalfLines
  EvalLens <- MCShortLines
  MaxDepth = 2
  MaxCatch = 2
  Handles <- MCTwoHandles
INVARIANTS
  TypeOK
  LiveLinesDisjoint
  HandlesBalance
  UnderflowMeansQuit
PROPERTIES
  SourceComesBack
  UnwindEnds
