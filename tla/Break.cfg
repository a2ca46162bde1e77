SPECIFICATION Spec
CONSTANTS
  MaxCatch = 2
  MaxDepth = 1
  MaxPresses = 2
  Windows <- InHandler
INVARIANTS
  TypeOK
  HandlersAreCatches
  OnePressOneAbort
  BreakReported
PROPERTIES
  BelowLiveData
  ParkedIsDelivered
