CONSTANTS
  Sets = 1
  Ways = 2
  Beats = 1
  Tag = {0, 1}
  Lane = {0}
  MaxByte = 1
  Command = {0, 1}
  None = none

SPECIFICATION Spec
INVARIANT WritebackCarriesLine
