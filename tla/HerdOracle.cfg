SPECIFICATION Spec
CONSTANT Value = {0, 1}
INVARIANTS AllowedSetExact
\* The script ends.
CHECK_DEADLOCK FALSE
