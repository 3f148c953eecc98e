\* Two tags collide in one set: the reference evicts, intervenes and
\* invalidates.
SPECIFICATION Spec
CONSTANTS
  Set = {0}
  Tag = {0, 1}
  Word = {0}
  Value = {0, 1}
  Zero = 0
  MaxOpen = 2
INVARIANTS TypeOK ReferenceCoherent
PROPERTIES RefinesLoggedMemory
\* A replay ends.
CHECK_DEADLOCK FALSE
