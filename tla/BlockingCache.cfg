CONSTANTS
  Sets = 1
  Ways = 2
  Beats = 1
  Tag = {0, 1, 2}
  Lane = {0}
  MaxByte = 1
  Command = {0, 2, 3}
  None = none

SPECIFICATION LiveSpec
INVARIANT TypeOK
INVARIANT OneCopy
INVARIANT CleanMatchesMemory
INVARIANT WritebackCarriesLine
PROPERTY RefinesWriteBackMemory
PROPERTY EveryOperationEnds
