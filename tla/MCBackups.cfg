SPECIFICATION BackupsSpec
CONSTANTS
  Direct = {d1, d2}
  Sdk = {k1, k2}
  Nobody = Nobody
  Other = Other
  Hooks = Hooks
  Names = {n1}
  Clients = {r1, r2}
  Instances = {i1, i2}
  MaxKeep = 1
  MaxFiles = 2
  MaxMinute = 1
  MaxFaults = 1
  MaxSetFaults = 3
  Idle = Idle
  Collections = {1, 2}
  Definitions <- SmallDefinitions
SYMMETRY Sym
CHECK_DEADLOCK FALSE
INVARIANTS CutoverOwnsRestart SlotHasOwner FlagHasReason JournalFenced CommittedKeepsLease
  ArchivesKept  
PROPERTIES CatalogSpec
