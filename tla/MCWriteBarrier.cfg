CONSTANTS
    None = None
    Writers = {w1, w2}
    Borrowers = {r1}
    Backups = {b1}
    Cutovers = {c1, c2}
    Migrators = {m1}
    Remote = {w2}
    Sessions = {s1, s2, s3, s4}
    PoolSize = 3
    BackupPool = 2
SPECIFICATION CrewSpec
INVARIANTS PoolClean CommitsCovered SealedClean CutoverClean FenceBalanced
SYMMETRY Symmetry
CHECK_DEADLOCK FALSE
