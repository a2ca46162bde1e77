SPECIFICATION BackgroundSpec
CONSTANTS
  Slots <- MCSlots
  MaxDepth = 4
  HandlerCells = 1
  Windows <- Elsewhere
  RingSize = 4
  Counters = 8
  RingBytes = {1, 2}
  RingWindows <- Elsewhere
  Voices = {1, 2}
  Shapes <- MCShapes
  EnvWindows <- Elsewhere
  Programs <- AllPrograms
INVARIANTS
  BackgroundTypeOK
  Transparent
  HandlersReached
  VoicesRight
PROPERTIES
  RingIsFifo
  VoicesEnd
