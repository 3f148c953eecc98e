SPECIFICATION LiveSpec
CONSTANTS
  Hart = {h0}
  Addr = {a, b}
  Value = {0, 1}
  Delay = 1
  None = None
  Error = Error
INVARIANTS TypeOK DrainsInOrder FaultNamesOldest LoadReplyIsCurrent
PROPERTIES RefinesTsoMemory EveryAccessCompletes
