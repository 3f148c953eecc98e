CONSTANTS
  Line <- Lines
  Beats = 1
  Value = {0, 1}
  Access <- Accesses
  Id = {1}
  RspDepth = 2
  None = none

SPECIFICATION Spec
INVARIANT TypeOK
INVARIANT OneHome
INVARIANT VictimCanReturn
PROPERTY RefinesNonblockingMemory
