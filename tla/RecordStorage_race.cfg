SPECIFICATION Spec
CONSTANTS
  Tasks = {t1, t2}
  Files = {f1, f2}
  Missing = Missing
  MaxOps = 1
  MaxShared = 1
  MaxOverlaps = 1
CHECK_DEADLOCK FALSE
INVARIANTS FinalReferencesKept
