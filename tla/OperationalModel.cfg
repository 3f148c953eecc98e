CONSTANTS
  Location = {"x", "y", "z"}
  Value = {1, 2}
SPECIFICATION Spec
INVARIANTS OutcomeAllowed CachesCoherent NoFalseAlarm DetectorsDiscriminate
\* A simulation ends.
CHECK_DEADLOCK FALSE
