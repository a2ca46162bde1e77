SPECIFICATION Spec
CONSTANTS
  Bits = 3
  Power <- MCPower
  Garbage = {0, 5, 7}
  Bases = {2, 3, 7}
  PrefixBase <- MCPrefixBase
  Texts <- MCTexts
INVARIANTS
  TypeOK
  LoopsExact
  AnswersRight
  PrintedReadsBack
  ReadsNumerals
