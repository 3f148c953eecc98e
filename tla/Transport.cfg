CONSTANTS
  Word = {0}
  Value = {0, 1}
  Access <- Requested
  Image <- Cleared
  Fault <- Injected
  None = none
  Error = error

SPECIFICATION LiveSpec
INVARIANTS
  TypeOK
  ServesOneRequest
  OvertakenOnce
PROPERTIES
  RefinesPortMemory
  EveryRequestAnswered
