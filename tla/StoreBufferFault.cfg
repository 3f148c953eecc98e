SPECIFICATION LiveSpec
CONSTANTS
  Hart = {h0}
  Addr = {a}
  Value = {0}
  Delay = 1
  None = None
  Error = Error
PROPERTIES FaultedHartReachesItsNextAccess
