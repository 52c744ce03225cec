---------------------------- MODULE MCWriteBarrier ----------------------------
(***************************************************************************)
(* Small instances of WriteBarrier.  Not all tasks at once: the crew of a  *)
(* behaviour, chosen in the initial state, is either a backup with a       *)
(* writer, a borrower and a migration, or two cutovers with a writer of    *)
(* this process and one of another; the other tasks never start.           *)
(***************************************************************************)
EXTENDS WriteBarrier, TLC

CONSTANT BackupPool   \* bound: connections the crew of a backup has checked out

ASSUME BackupPoolAssumption == BackupPool \in 1..PoolSize

VARIABLE crew

BackupCrew == (Local \cap Mutators) \cup Backups \cup Migrators
CutoverCrew == Writers \cup Cutovers

CrewInit == Init /\ crew \in {BackupCrew, CutoverCrew}

CrewNext ==
    /\ \/ \E t \in crew : TaskNext(t)
       \/ \E s \in Sessions : ServerNext(s)
       \/ ProcessReplaced
    /\ crew = BackupCrew => Cardinality(CheckedOut') <= BackupPool
    /\ UNCHANGED crew

CrewSpec == CrewInit /\ [][CrewNext]_<<vars, crew>>

CrewFairSpec == CrewSpec /\ Fairness

Symmetry == Permutations(Sessions)
=============================================================================
