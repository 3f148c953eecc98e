SPECIFICATION LSpec
CONSTANTS
  Hart = {1, 2}
  Addr = {"x", "y"}
  Location = {"x", "y"}
  Value = {0, 1, 2, 3}
  Delay = 1
  None = None
  Error = Error
INVARIANTS OutcomeAllowed
PROPERTIES EveryTestFinishes
