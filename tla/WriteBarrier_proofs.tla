------------------------ MODULE WriteBarrier_proofs ------------------------
(***************************************************************************)
(* Proofs about WriteBarrier, for every set of tasks, of sessions and      *)
(* every size of the pool.                                                 *)
(*                                                                         *)
(* The argument follows sessions rather than tasks.  A session has at most *)
(* one owner, a task or the pool (Ownership); locks and transactions die   *)
(* with their session (OnlyAlive); so what a task believes to hold is true *)
(* as long as the session its lease was granted on is alive (Holds), and   *)
(* a session with a lock that some task still talks to is where that task  *)
(* put it (LocksOwned).  A task whose lease session died may go on, on     *)
(* another session, but can neither commit nor seal (Covered, Copied).     *)
(***************************************************************************)
EXTENDS WriteBarrier, FiniteSetTheorems, TLAPS

(* The places a task of each kind can be at. *)
MutatorAt == {"idle", "connect", "ready", "try", "granted", "body", "release"}
BackupAt == {"idle", "connect", "try", "wait", "granted", "mtry", "mgranted",
             "body", "exit", "release"}
GuardAt == {"verify", "verified", "fenced", "reverified", "cut"}
MigratorAt == {"idle", "connect", "mtry", "mgranted", "body", "exit"}
Disconnected == {"idle", "connect"}

(* The places at which the shared mode, the exclusive mode and the         *)
(* migration lock are held, unless the session was lost.                   *)
SharedAt == {"granted", "body", "release"}
MigrationAt == GuardAt \cup {"mgranted", "body", "exit"}
ExclusiveAt == MigrationAt \cup {"granted", "mtry", "release"}

Placed ==
    /\ \A t \in Mutators : pc[t] \in MutatorAt
    /\ \A t \in Backups : pc[t] \in BackupAt
    /\ \A t \in Cutovers : pc[t] \in (BackupAt \ {"body"}) \cup GuardAt
    /\ \A t \in Migrators : pc[t] \in MigratorAt

OnlyAlive ==
    /\ pool \subseteq alive /\ shared \subseteq alive /\ excl \subseteq alive
    /\ waiting \subseteq alive /\ migr \subseteq alive
    /\ \A s \in Sessions : tx[s] # "none" => s \in alive

(* A session is in the pool or behind one task; only a body outlives the   *)
(* session of its lease.                                                   *)
Ownership ==
    /\ \A t \in Tasks : /\ conn[t] = None <=> pc[t] \in Disconnected
                        /\ pid[t] = None <=> pc[t] \in Disconnected
                        /\ conn[t] \notin pool
                        /\ conn[t] # pid[t] => /\ pid[t] \notin alive
                                               /\ pc[t] \in {"body", "exit",
                                                             "release"}
    /\ \A t, u \in Tasks : t # u /\ conn[t] = conn[u] => conn[t] = None

(* The exclusive mode excludes every other holder; one migration lock. *)
Exclusion ==
    /\ excl # {} => shared = {}
    /\ \A r, s \in excl : r = s
    /\ \A r, s \in migr : r = s

(* A lock on a session some task talks to was taken by that task. *)
LocksOwned ==
    \A t \in Tasks :
        /\ conn[t] \in shared => t \in Mutators /\ pc[t] \in SharedAt
        /\ conn[t] \in excl => t \in Exclusives /\ pc[t] \in ExclusiveAt
        /\ conn[t] \in waiting => t \in Exclusives /\ pc[t] = "wait"
        /\ conn[t] \in migr => t \notin Mutators /\ pc[t] \in MigrationAt

(* While the lease's session lives, the task holds what it acquired. *)
Holds ==
    \A t \in Tasks : pid[t] \in alive =>
        /\ t \in Mutators /\ pc[t] \in SharedAt => pid[t] \in shared
        /\ t \in Exclusives /\ pc[t] \in ExclusiveAt => pid[t] \in excl
        /\ t \notin Mutators /\ pc[t] \in MigrationAt => pid[t] \in migr

(* Exclusive tasks only read; a COMMIT runs under the lock of its kind. *)
Covered ==
    /\ \A t \in Exclusives : conn[t] # None => tx[conn[t]] = "none"
    /\ \A s \in Sessions : /\ tx[s] \in {"local", "remote"} => s \in shared
                           /\ tx[s] = "migration" => s \in migr

(* A backup copies a quiet system until its lease's session dies. *)
Copied ==
    \A b \in Backups :
        /\ pc[b] # "idle" => b \notin sealed
        /\ b \in torn /\ pc[b] # "idle"
             => pc[b] \in {"body", "exit", "release"} /\ pid[b] \notin alive

(* Once the guard was verified below the fence, no mutation of this        *)
(* process has a transaction it could still commit.                        *)
Quiesced ==
    /\ torn \cap Cutovers = {}
    /\ (\E c \in Cutovers : pc[c] \in {"reverified", "cut"})
         => /\ \A s \in Sessions : tx[s] # "local"
            /\ \A t \in Local \cap Mutators : pc[t] = "body" => pid[t] \notin alive

IInv ==
    /\ TypeOK /\ Placed /\ OnlyAlive /\ Ownership /\ Exclusion
    /\ LocksOwned /\ Holds /\ PoolClean /\ Covered /\ Copied /\ SealedClean
    /\ FenceBalanced /\ Quiesced

-----------------------------------------------------------------------------
(* The fence counts the guards that raised it, so it is up below any. *)
LEMMA FenceUp == ASSUME IInv, NEW c \in fenced PROVE fence > 0
<1>1. IsFiniteSet(fenced)
  BY FS_Subset, TasksAssumption DEF IInv, TypeOK
<1> QED
  BY <1>1, FS_EmptySet, FS_CardinalityType DEF IInv, FenceBalanced

(* Releasing a guard takes away what it raised, at most once. *)
LEMMA FenceLowered ==
    ASSUME IInv, NEW t \in Tasks, _release_process_cutover_fence(t)
    PROVE  fence' \in Nat /\ fenced' = fenced \ {t} /\ fence' = Cardinality(fenced')
<1>1. IsFiniteSet(fenced)
  BY FS_Subset, TasksAssumption DEF IInv, TypeOK
<1>2. Cardinality(fenced \ {t})
        = IF t \in fenced THEN Cardinality(fenced) - 1 ELSE Cardinality(fenced)
  BY <1>1, FS_RemoveElement
<1>3. t \in fenced => fence > 0
  BY FenceUp
<1> QED
  BY <1>2, <1>3
  DEF IInv, TypeOK, FenceBalanced, _release_process_cutover_fence

(* A guard raises the fence once: it has not raised it before. *)
LEMMA FenceRaised ==
    ASSUME IInv, NEW t \in Cutovers, _activate_process_cutover_fence(t)
    PROVE  fence' \in Nat /\ fence' = Cardinality(fenced')
<1>1. IsFiniteSet(fenced)
  BY FS_Subset, TasksAssumption DEF IInv, TypeOK
<1>2. t \notin fenced
  BY DEF IInv, FenceBalanced, _activate_process_cutover_fence
<1>3. Cardinality(fenced \cup {t}) = Cardinality(fenced) + 1
  BY <1>1, <1>2, FS_AddElement
<1> QED
  BY <1>3 DEF IInv, TypeOK, FenceBalanced, _activate_process_cutover_fence

-----------------------------------------------------------------------------
(* Nothing is connected, held or raised when the process starts. *)
LEMMA InitIInv == Init => IInv
<1> SUFFICES ASSUME Init PROVE IInv
  OBVIOUS
<1> USE TasksAssumption, SessionsAssumption
    DEF Init, Tasks, Mutators, Exclusives, Local, Committing
<1>1. TypeOK /\ Placed /\ OnlyAlive /\ Ownership
  BY DEF TypeOK, Placed, OnlyAlive, Ownership, MutatorAt, BackupAt, GuardAt,
         MigratorAt, Disconnected
<1>2. Exclusion /\ LocksOwned /\ Holds /\ PoolClean /\ Covered
  BY DEF Exclusion, LocksOwned, Holds, PoolClean, Covered
<1>3. Copied /\ SealedClean /\ Quiesced
  BY DEF Copied, SealedClean, Quiesced
<1>4. FenceBalanced
  BY FS_EmptySet DEF FenceBalanced
<1> QED
  BY <1>1, <1>2, <1>3, <1>4 DEF IInv

(* The steps of a task, in three groups. *)
Acquires(t) ==
    \/ Start(t) \/ ConnectTimeout(t) \/ (\E s \in Sessions : Connect(t, s))
    \/ Borrow(t) \/ CallerCloses(t) \/ CallerInvalidates(t) \/ TryShared(t)
    \/ TryExclusive(t) \/ JoinQueue(t) \/ EnterMutation(t)
    \/ ObserveExclusive(t) \/ TryMigration(t) \/ ObserveMigration(t)
    \/ CancelMigration(t) \/ AbandonAcquisition(t)

Runs(t) ==
    \/ BeginTx(t) \/ SendCommit(t) \/ EndBody(t)
    \/ (\E s \in Sessions : Reconnect(t, s)) \/ UnlockMigration(t)
    \/ EndMigration(t) \/ ReleaseOwned(t) \/ ReleaseBorrowed(t)
    \/ ReleaseFails(t)

Guards(t) ==
    \/ VerifyHeld(t) \/ _activate_process_cutover_fence(t) \/ VerifyGuard(t)
    \/ BeginCutover(t) \/ CloseRetained(t)

(* Connecting, asking for the locks, and giving up before the body. *)
LEMMA AcquisitionStep ==
    ASSUME IInv, NEW t \in Tasks, Acquires(t)
    PROVE  IInv'
<1> USE TasksAssumption, SessionsAssumption
    DEF IInv, TypeOK, Placed, OnlyAlive, Ownership, Exclusion, LocksOwned, Holds,
        PoolClean, Covered, Copied, SealedClean, FenceBalanced, Quiesced,
        Tasks, Mutators, Exclusives, Local, Committing, MutatorAt, BackupAt,
        GuardAt, MigratorAt, Disconnected, SharedAt, MigrationAt, ExclusiveAt,
        locks, server, client, fences, outcome,
        GoTo, Answers, Checkout, ReturnToPool, _cleanup_connection, Fresh, Owned,
        SharedFree, ExclusiveFree
<1>1. CASE Start(t)
  BY <1>1 DEF Start
<1>2. CASE ConnectTimeout(t)
  BY <1>2 DEF ConnectTimeout
<1>3. CASE \E s \in Sessions : Connect(t, s)
  <2>1. PICK s \in Sessions : Connect(t, s)
    BY <1>3
  <2> QED
    BY <2>1 DEF Connect
<1>4. CASE Borrow(t)
  BY <1>4 DEF Borrow
<1>5. CASE CallerCloses(t)
  BY <1>5 DEF CallerCloses
<1>6. CASE CallerInvalidates(t)
  BY <1>6 DEF CallerInvalidates
<1>7. CASE TryShared(t)
  BY <1>7 DEF TryShared
<1>8. CASE TryExclusive(t)
  BY <1>8 DEF TryExclusive
<1>9. CASE JoinQueue(t)
  BY <1>9 DEF JoinQueue
<1>10. CASE EnterMutation(t)
  <2>1. (\E c \in Cutovers : pc[c] \in {"reverified", "cut"}) => fence > 0
    BY FenceUp
  <2>2. Quiesced'
    BY <1>10, <2>1 DEF EnterMutation, _reject_process_cutover_mutation
  <2> QED
    BY <1>10, <2>2 DEF EnterMutation
<1>11. CASE ObserveExclusive(t)
  BY <1>11 DEF ObserveExclusive
<1>12. CASE TryMigration(t)
  BY <1>12 DEF TryMigration
<1>13. CASE ObserveMigration(t)
  BY <1>13 DEF ObserveMigration
<1>14. CASE CancelMigration(t)
  BY <1>14 DEF CancelMigration
<1>15. CASE AbandonAcquisition(t)
  BY <1>15 DEF AbandonAcquisition
<1> QED
  BY <1>1, <1>2, <1>3, <1>4, <1>5, <1>6, <1>7, <1>8, <1>9, <1>10, <1>11,
     <1>12, <1>13, <1>14, <1>15 DEF Acquires

(* The body and the release of what was acquired. *)
LEMMA BodyStep ==
    ASSUME IInv, NEW t \in Tasks, Runs(t)
    PROVE  IInv'
<1> USE TasksAssumption, SessionsAssumption
    DEF IInv, TypeOK, Placed, OnlyAlive, Ownership, Exclusion, LocksOwned, Holds,
        PoolClean, Covered, Copied, SealedClean, FenceBalanced, Quiesced,
        Tasks, Mutators, Exclusives, Local, Committing, MutatorAt, BackupAt,
        GuardAt, MigratorAt, Disconnected, SharedAt, MigrationAt, ExclusiveAt,
        locks, server, client, fences, outcome,
        GoTo, Answers, ReturnToPool, _cleanup_connection, Fresh, Owned, Origin,
        OwnsBarrier
<1>1. CASE BeginTx(t)
  BY <1>1 DEF BeginTx
<1>2. CASE SendCommit(t)
  BY <1>2 DEF SendCommit
<1>3. CASE EndBody(t)
  BY <1>3 DEF EndBody
<1>4. CASE \E s \in Sessions : Reconnect(t, s)
  <2>1. PICK s \in Sessions : Reconnect(t, s)
    BY <1>4
  <2> QED
    BY <2>1 DEF Reconnect
<1>5. CASE UnlockMigration(t)
  BY <1>5 DEF UnlockMigration
<1>6. CASE EndMigration(t)
  BY <1>6 DEF EndMigration
<1>7. CASE ReleaseOwned(t)
  <2>1. fence' \in Nat /\ fenced' = fenced \ {t} /\ fence' = Cardinality(fenced')
    BY <1>7, FenceLowered DEF ReleaseOwned
  <2>2. FenceBalanced' /\ TypeOK'
    BY <1>7, <2>1 DEF ReleaseOwned
  <2> QED
    BY <1>7, <2>1, <2>2 DEF ReleaseOwned
<1>8. CASE ReleaseBorrowed(t)
  BY <1>8 DEF ReleaseBorrowed
<1>9. CASE ReleaseFails(t)
  <2>1. fence' \in Nat /\ fenced' = fenced \ {t} /\ fence' = Cardinality(fenced')
    BY <1>9, FenceLowered DEF ReleaseFails
  <2>2. FenceBalanced' /\ TypeOK'
    BY <1>9, <2>1 DEF ReleaseFails
  <2> QED
    BY <1>9, <2>1, <2>2 DEF ReleaseFails
<1> QED
  BY <1>1, <1>2, <1>3, <1>4, <1>5, <1>6, <1>7, <1>8, <1>9 DEF Runs

(* The retained guard of a cutover. *)
LEMMA GuardStep ==
    ASSUME IInv, NEW t \in Tasks, Guards(t)
    PROVE  IInv'
<1> USE TasksAssumption, SessionsAssumption
    DEF IInv, TypeOK, Placed, OnlyAlive, Ownership, Exclusion, LocksOwned, Holds,
        PoolClean, Covered, Copied, SealedClean, FenceBalanced, Quiesced,
        Tasks, Mutators, Exclusives, Local, Committing, MutatorAt, BackupAt,
        GuardAt, MigratorAt, Disconnected, SharedAt, MigrationAt, ExclusiveAt,
        locks, server, client, fences, outcome,
        GoTo, Answers, assert_write_barrier_held
<1>1. CASE VerifyHeld(t)
  BY <1>1 DEF VerifyHeld
<1>2. CASE _activate_process_cutover_fence(t)
  <2>1. t \in Cutovers
    BY <1>2 DEF _activate_process_cutover_fence
  <2>2. fence' \in Nat /\ fence' = Cardinality(fenced')
    BY <1>2, <2>1, FenceRaised
  <2> QED
    BY <1>2, <2>1, <2>2 DEF _activate_process_cutover_fence
<1>3. CASE VerifyGuard(t)
  BY <1>3 DEF VerifyGuard
<1>4. CASE BeginCutover(t)
  BY <1>4 DEF BeginCutover
<1>5. CASE CloseRetained(t)
  BY <1>5 DEF CloseRetained
<1> QED
  BY <1>1, <1>2, <1>3, <1>4, <1>5 DEF Guards

(* The server: a session ends, a waiter is granted, a COMMIT lands. *)
LEMMA ServerStep ==
    ASSUME IInv, NEW s \in Sessions, ServerNext(s)
    PROVE  IInv'
<1> USE TasksAssumption, SessionsAssumption
    DEF IInv, TypeOK, Placed, OnlyAlive, Ownership, Exclusion, LocksOwned, Holds,
        PoolClean, Covered, Copied, SealedClean, FenceBalanced, Quiesced,
        Tasks, Mutators, Exclusives, Local, Committing, MutatorAt, BackupAt,
        GuardAt, MigratorAt, Disconnected, SharedAt, MigrationAt, ExclusiveAt,
        locks, server, client, fences, outcome
<1>1. CASE SessionLost(s)
  BY <1>1 DEF SessionLost, EndSession
<1>2. CASE OrphanExits(s)
  BY <1>2 DEF OrphanExits, EndSession
<1>3. CASE GrantWaiter(s)
  BY <1>3 DEF GrantWaiter, ExclusiveFree
<1>4. CASE CommitLands(s)
  BY <1>4 DEF CommitLands
<1> QED
  BY <1>1, <1>2, <1>3, <1>4  DEF ServerNext

(* exec or a crash of this process; its sessions linger on the server. *)
LEMMA ReplacedStep == ASSUME IInv, ProcessReplaced PROVE IInv'
<1> USE TasksAssumption, SessionsAssumption
    DEF IInv, TypeOK, Placed, OnlyAlive, Ownership, Exclusion, LocksOwned, Holds,
        PoolClean, Covered, Copied, SealedClean, Quiesced, Tasks, Mutators,
        Exclusives, Local, Committing, MutatorAt, BackupAt, GuardAt, MigratorAt,
        Disconnected, SharedAt, MigrationAt, ExclusiveAt, locks, outcome,
        ProcessReplaced
<1>1. FenceBalanced'
  BY FS_EmptySet DEF FenceBalanced
<1> QED
  BY <1>1

(* IInv is inductive. *)
THEOREM Inductive == Spec => []IInv
<1>1. Init => IInv
  BY InitIInv
<1>2. IInv /\ [Next]_vars => IInv'
  <2> SUFFICES ASSUME IInv, [Next]_vars PROVE IInv'
    OBVIOUS
  <2>1. ASSUME NEW t \in Tasks, TaskNext(t) PROVE IInv'
    <3>1. Acquires(t) \/ Runs(t) \/ Guards(t)
      BY <2>1 DEF TaskNext, Acquires, Runs, Guards
    <3> QED
      BY <2>1, <3>1, AcquisitionStep, BodyStep, GuardStep
  <2>2. ASSUME NEW s \in Sessions, ServerNext(s) PROVE IInv'
    BY <2>2, ServerStep
  <2>3. CASE ProcessReplaced
    BY <2>3, ReplacedStep
  <2>4. CASE UNCHANGED vars
    BY <2>4 DEF IInv, TypeOK, Placed, OnlyAlive, Ownership, Exclusion, LocksOwned,
                Holds, PoolClean, Covered, Copied, SealedClean, FenceBalanced,
                Quiesced, locks, server, client, fences, outcome, vars
  <2> QED
    BY <2>1, <2>2, <2>3, <2>4 DEF Next
<1> QED
  BY <1>1, <1>2, PTL DEF Spec

-----------------------------------------------------------------------------
(* Every variable stays in its type, for every crew of tasks. *)
THEOREM TypeCorrect == Spec => []TypeOK
<1>1. IInv => TypeOK
  BY DEF IInv
<1> QED
  BY <1>1, Inductive, PTL

(* A pooled connection is clean, whatever acquisition or release was cut   *)
(* short before (_cleanup_connection invalidates what is not proven).      *)
THEOREM PoolStaysClean == Spec => []PoolClean
<1>1. IInv => PoolClean
  BY DEF IInv
<1> QED
  BY <1>1, Inductive, PTL

(* A COMMIT on its way is covered by the barrier or the migration lock,    *)
(* also on a session its client gave up.                                   *)
THEOREM CommitsStayCovered == Spec => []CommitsCovered
<1>1. IInv => CommitsCovered
  BY DEF IInv, Covered, CommitsCovered, Committing
<1> QED
  BY <1>1, Inductive, PTL

(* backup_write_barrier: what is sealed was copied from a quiet system,    *)
(* even when the session that held the barrier died during the copy.       *)
THEOREM SealedStaysClean == Spec => []SealedClean
<1>1. IInv => SealedClean
  BY DEF IInv
<1> QED
  BY <1>1, Inductive, PTL

(* The retained guard and the process fence: no mutation of this process   *)
(* takes effect while a cutover replaces files and database.               *)
THEOREM CutoverStaysClean == Spec => []CutoverClean
<1>1. IInv => CutoverClean
  BY DEF IInv, Quiesced, CutoverClean
<1> QED
  BY <1>1, Inductive, PTL

(* The fence count is the number of guards that raised the fence. *)
THEOREM FenceStaysBalanced == Spec => []FenceBalanced
<1>1. IInv => FenceBalanced
  BY DEF IInv
<1> QED
  BY <1>1, Inductive, PTL
=============================================================================
