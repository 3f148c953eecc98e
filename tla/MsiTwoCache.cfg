\* One set and two tags that collide in it: hits, misses, evictions of clean
\* and dirty victims, interventions and invalidations.
SPECIFICATION LiveSpec
CONSTANTS
  Index = {0}
  Tag   = {0, 1}
  Word  = {0}
  Value = {0, 1}
  None  = None
INVARIANTS TypeOK CachesCoherent OneTransaction
PROPERTIES DirtyDataSurvives RefinesSerialMemory EveryRequestAnswered
