CONSTANTS
    w1 = w1
    w2 = w2
    b1 = b1
    s1 = s1
    s2 = s2
    s3 = s3
    None = None
    Writers = {w1, w2}
    Borrowers = {}
    Backups = {b1}
    Cutovers = {}
    Migrators = {}
    Remote = {}
    Sessions = {s1, s2, s3}
    PoolSize = 3
    BackupPool = 3
SPECIFICATION CrewFairSpec
PROPERTIES ExclusiveServed
CHECK_DEADLOCK FALSE
