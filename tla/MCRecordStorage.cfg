SPECIFICATION StorageSpec
CONSTANTS
  Tasks = {t1, t2}
  Files = {f1, f2}
  Missing = Missing
  Idle = Idle
  MaxOps = 2
  MaxShared = 1
  MaxOverlaps = 1
  MaxDirs = 2
  MaxFaults = 1
SYMMETRY Sym
CHECK_DEADLOCK FALSE
INVARIANTS  OrphansExcused  BackendIsSettled
PROPERTIES UndoSparesReferenced
