SPECIFICATION FairSpec
CONSTANTS
  Formats <- MCFormats
  RawFormats <- MCFormats
  FileBytes <- MCFileBytes
  MaxBytes <- MCMaxBytes
  MaxBlocks = 1
INVARIANTS
  TypeOK
  LinesInStep
  PairsClosed
  LabelsAreAddresses
  ColumnsKept
PROPERTIES
  ConversionEnds
