--------------------- MODULE DestructiveRestore_proofs ---------------------
(***************************************************************************)
(* Proofs about DestructiveRestore, for every number of restores and of    *)
(* faults.  The inductive invariant says that the server is, at every      *)
(* step, in one of three modes, and how far each step of a swap, rollback  *)
(* or recovery has come in it:                                             *)
(*   Clean        no journal; one generation; nothing left over            *)
(*   Uncommitted  journalled, the database is still the old one; what is   *)
(*                needed to go back is there                               *)
(*   Committed    journalled, everything is of the new generation, and the *)
(*                marker or the status "finalizing" says so                *)
(***************************************************************************)
EXTENDS DestructiveRestore, TLAPS

(* Only the last restore has rollback files; a journal is its journal. *)
Owned ==
    /\ \A r \in Ids : r # rid => prevStorage[r] = Absent /\ prevSecret[r] = Absent
    /\ journal # NoJournal => journal.id = rid
    /\ db <= rid
    /\ tx = "open" <=> pc = "rebuild"
    /\ tx = "commit" => pc \in {"committing", "down"}
    /\ pc \notin {"serving", "down"} => rid \in Ids

(* Storage, secret: as before the restore; or moved aside. *)
StorageKept == storage = base /\ prevStorage[rid] = Absent
SecretKept == secret = base /\ prevSecret[rid] = Absent
StorageAside == prevStorage[rid] = base /\ storage \in {Absent, rid}
SecretAside == prevSecret[rid] = base /\ secret \in {Absent, rid}
Swapped ==
    /\ storage = rid /\ prevStorage[rid] = base
    /\ secret = rid /\ prevSecret[rid] = base

Clean ==
    /\ journal = NoJournal /\ marker = NoMarker /\ tx = "none"
    /\ storage = db /\ secret = db
    /\ \A r \in Ids : prevStorage[r] = Absent /\ prevSecret[r] = Absent
    /\ pc \in {"serving", "prepared", "guarded", "stuck", "down",
               "undo_storage", "undo_secret", "undo_journal", "undo_work"}
    /\ pc \notin {"serving", "down", "stuck"} => base = db /\ db < rid

(* How far the swap, the rollback or the recovery has come. *)
UncommittedAt ==
    /\ pc = "swap1" => StorageKept /\ SecretKept
    /\ pc = "swap2" => StorageAside /\ storage = Absent /\ SecretKept
    /\ pc = "swap3" => StorageAside /\ storage = rid /\ SecretKept
    /\ pc = "swap4" => StorageAside /\ storage = rid
                       /\ SecretAside /\ secret = Absent
    /\ pc \in {"swap5", "swapped", "rebuild", "committing", "check"} => Swapped
    /\ tx = "commit" => Swapped
    /\ pc \in {"undo_storage2", "rec_undo_storage2"} => StorageAside
    /\ pc \in {"undo_secret", "rec_undo_secret"} => StorageKept
    /\ pc \in {"undo_secret2", "rec_undo_secret2"} => StorageKept /\ SecretAside
    /\ pc \in {"undo_journal", "rec_work", "rec_clear"}
         => StorageKept /\ SecretKept

Uncommitted ==
    /\ rid \in Ids
    /\ journal.id = rid /\ journal.status \in {"swap_started", "files_swapped"}
    /\ marker = NoMarker
    /\ db = base /\ base < rid
    /\ StorageKept \/ StorageAside
    /\ SecretKept \/ SecretAside
    /\ pc \in Swapping \cup (Undoing \ {"undo_work"})
              \cup {"swapped", "rebuild", "committing", "check", "stuck",
                    "down", "rec_undo_storage", "rec_undo_storage2",
                    "rec_undo_secret", "rec_undo_secret2", "rec_work",
                    "rec_clear"}
    /\ UncommittedAt

CommittedAt ==
    /\ pc \in {"committing", "check", "mark", "restart"} => marker = rid
    /\ pc = "rec_marker" => journal.status = "finalizing"
    /\ pc \in {"rec_storage", "rec_secret", "rec_work", "rec_clear"}
         => marker = NoMarker
    /\ pc \in {"rec_secret", "rec_work", "rec_clear"} => prevStorage[rid] = Absent
    /\ pc \in {"rec_work", "rec_clear"} => prevSecret[rid] = Absent

Committed ==
    /\ rid \in Ids
    /\ journal.id = rid
    /\ db = rid /\ storage = rid /\ secret = rid
    /\ tx = "none"
    /\ marker = rid \/ (marker = NoMarker /\ journal.status = "finalizing")
    /\ pc \in {"committing", "check", "mark", "restart", "stuck", "down",
               "rec_validate", "rec_journal", "rec_marker", "rec_storage",
               "rec_secret", "rec_work", "rec_clear"}
    /\ CommittedAt

IInv == TypeOK /\ Owned /\ (Clean \/ Uncommitted \/ Committed)

-----------------------------------------------------------------------------
(* The server starts clean. *)
LEMMA InitIInv == Init => IInv
<1> SUFFICES ASSUME Init PROVE IInv
  OBVIOUS
<1> USE BoundsAssumption DEF Init, Gens, Ids, Absent, NoMarker, NoJournal
<1>1. TypeOK
  <2>1. committed \in BOOLEAN /\ retry \in BOOLEAN
    BY Zenon
  <2> QED
    BY <2>1 DEF TypeOK
<1>2. Owned
  BY DEF Owned
<1>3. Clean
  BY DEF Clean
<1> QED
  BY <1>1, <1>2, <1>3 DEF IInv

(* The steps of a restore that goes as planned, and of its rollback. *)
LEMMA RestoreStep == IInv /\ Restore => IInv'
<1> SUFFICES ASSUME IInv, Restore PROVE IInv'
  OBVIOUS
<1> USE BoundsAssumption
    DEF IInv, TypeOK, Owned, Clean, Uncommitted, UncommittedAt, Committed,
        CommittedAt, StorageKept, SecretKept, StorageAside, SecretAside, Swapped,
        database, files, process, Step, Fault, Work, Gens, Ids, Absent,
        NoMarker, NoJournal, Statuses, Swapping, Undoing, Recovering
<1>1. CASE prepare_storage_restore
  BY <1>1 DEF prepare_storage_restore
<1>2. CASE AbandonRestore
  BY <1>2 DEF AbandonRestore
<1>3. CASE AcquireCutover
  BY <1>3 DEF AcquireCutover
<1>4. CASE JournalSwapStarted
  BY <1>4 DEF JournalSwapStarted, WriteJournal
<1>5. CASE MoveStorageAside
  BY <1>5 DEF MoveStorageAside
<1>6. CASE ActivateStorage
  BY <1>6 DEF ActivateStorage
<1>7. CASE MoveSecretAside
  BY <1>7 DEF MoveSecretAside
<1>8. CASE ActivateSecret
  BY <1>8 DEF ActivateSecret
<1>9. CASE JournalFilesSwapped
  BY <1>9 DEF JournalFilesSwapped, WriteJournal
<1>10. CASE SwapCancelled
  BY <1>10 DEF SwapCancelled
<1>11. CASE _rollback_with_fd
  <2>1. CASE RemoveStorage(rid, "undo_storage", "undo_storage2", "undo_secret")
    BY <2>1 DEF RemoveStorage
  <2>2. CASE RenameStorageBack(rid, "undo_storage2", "undo_secret")
    BY <2>2 DEF RenameStorageBack
  <2>3. CASE RemoveSecret(rid, "undo_secret", "undo_secret2", "undo_journal")
    BY <2>3 DEF RemoveSecret
  <2>4. CASE RenameSecretBack(rid, "undo_secret2", "undo_journal")
    BY <2>4 DEF RenameSecretBack
  <2> QED
    BY <1>11, <2>1, <2>2, <2>3, <2>4 DEF _rollback_with_fd
<1>12. CASE ClearJournalAfterRollback
  BY <1>12 DEF ClearJournalAfterRollback
<1>13. CASE FinishRollback
  BY <1>13 DEF FinishRollback
<1>14. CASE BeginRebuild
  BY <1>14 DEF BeginRebuild
<1>15. CASE SendCommit
  BY <1>15 DEF SendCommit
<1>16. CASE CommitEnds
  BY <1>16 DEF CommitEnds
<1>17. CASE ReadMarker
  BY <1>17 DEF ReadMarker, ValidCommitted
<1>18. CASE mark_database_committed
  BY <1>18 DEF mark_database_committed, WriteJournal
<1>19. CASE Restart
  BY <1>19 DEF Restart
<1> QED
  BY <1>1, <1>2, <1>3, <1>4, <1>5, <1>6, <1>7, <1>8, <1>9, <1>10, <1>11, <1>12, <1>13, <1>14, <1>15, <1>16, <1>17, <1>18, <1>19 DEF Restore

(* The steps of startup recovery. *)
LEMMA RecoveryStep == IInv /\ Recovery => IInv'
<1> SUFFICES ASSUME IInv, Recovery PROVE IInv'
  OBVIOUS
<1> USE BoundsAssumption
    DEF IInv, TypeOK, Owned, Clean, Uncommitted, UncommittedAt, Committed,
        CommittedAt, StorageKept, SecretKept, StorageAside, SecretAside, Swapped,
        database, files, process, Step, Fault, Work, Gens, Ids, Absent,
        NoMarker, NoJournal, Statuses, Swapping, Undoing, Recovering
<1>1. CASE StartRecovery
  <2>1. committed' \in BOOLEAN
    BY <1>1, Zenon DEF StartRecovery, RecoveryDecides
  <2>2. /\ pc = "down" /\ tx = "none"
        /\ UNCHANGED <<database, files, journal, rid, base, retry, faults>>
    BY <1>1 DEF StartRecovery, RecoveryDecides
  <2>3. CASE Clean
    BY <1>1, <2>3 DEF StartRecovery, RecoveryDecides
  <2>4. CASE Uncommitted
    <3>1. ~(marker = journal.id \/ journal.status = "finalizing")
      BY <2>4
    <3>2. journal # NoJournal /\ marker \in {NoMarker, journal.id}
      BY <2>4
    <3>3. pc' = "rec_undo_storage"
      BY <1>1, <3>1, <3>2, Zenon DEF StartRecovery, RecoveryDecides
    <3> QED
      BY <2>1, <2>2, <2>4, <3>3
  <2>5. CASE Committed
    <3>1. marker = journal.id \/ journal.status = "finalizing"
      BY <2>5
    <3>2. journal # NoJournal /\ marker \in {NoMarker, journal.id}
      BY <2>5
    <3>3. pc' = "rec_validate"
      BY <1>1, <3>1, <3>2, Zenon DEF StartRecovery, RecoveryDecides
    <3> QED
      BY <2>1, <2>2, <2>5, <3>3
  <2> QED
    BY <2>3, <2>4, <2>5
<1>2. CASE RecoverValidate
  BY <1>2 DEF RecoverValidate, ValidCommitted
<1>3. CASE RecoverFinalizing
  BY <1>3 DEF RecoverFinalizing, WriteJournal
<1>4. CASE clear_database_restore_marker
  BY <1>4 DEF clear_database_restore_marker
<1>5. CASE RecoverDropStorage
  BY <1>5 DEF RecoverDropStorage
<1>6. CASE RecoverDropSecret
  BY <1>6 DEF RecoverDropSecret
<1>7. CASE RecoverRollback
  <2>1. CASE RemoveStorage(journal.id, "rec_undo_storage", "rec_undo_storage2", "rec_undo_secret")
    BY <2>1 DEF RemoveStorage
  <2>2. CASE RenameStorageBack(journal.id, "rec_undo_storage2", "rec_undo_secret")
    BY <2>2 DEF RenameStorageBack
  <2>3. CASE RemoveSecret(journal.id, "rec_undo_secret", "rec_undo_secret2", "rec_work")
    BY <2>3 DEF RemoveSecret
  <2>4. CASE RenameSecretBack(journal.id, "rec_undo_secret2", "rec_work")
    BY <2>4 DEF RenameSecretBack
  <2> QED
    BY <1>7, <2>1, <2>2, <2>3, <2>4 DEF RecoverRollback
<1>8. CASE RecoverDropWork
  BY <1>8 DEF RecoverDropWork
<1>9. CASE RecoverClearJournal
  BY <1>9 DEF RecoverClearJournal
<1> QED
  BY <1>1, <1>2, <1>3, <1>4, <1>5, <1>6, <1>7, <1>8, <1>9 DEF Recovery

(* A failing call, a crash. *)
LEMMA FaultsStep == IInv /\ Faults => IInv'
<1> SUFFICES ASSUME IInv, Faults PROVE IInv'
  OBVIOUS
<1> USE BoundsAssumption
    DEF IInv, TypeOK, Owned, Clean, Uncommitted, UncommittedAt, Committed,
        CommittedAt, StorageKept, SecretKept, StorageAside, SecretAside, Swapped,
        database, files, process, Step, Fault, Work, Gens, Ids, Absent,
        NoMarker, NoJournal, Statuses, Swapping, Undoing, Recovering
<1>1. CASE SwapFails
  BY <1>1 DEF SwapFails
<1>2. CASE RollbackFails
  <2>1. pc' \in {"undo_storage", "stuck"}
    BY <1>2, Zenon DEF RollbackFails
  <2>2. /\ pc \in Undoing /\ Fault /\ retry' \in BOOLEAN
        /\ UNCHANGED <<database, files, journal, rid, base, committed>>
    BY <1>2, Zenon DEF RollbackFails
  <2>3. TypeOK'
    BY <2>1, <2>2
  <2>4. Owned'
    BY <2>1, <2>2
  <2>5. CASE Clean
    <3>1. Clean'
      BY <2>1, <2>2, <2>5
    <3> QED
      BY <2>3, <2>4, <3>1
  <2>6. CASE Uncommitted
    <3>1. Uncommitted'
      BY <2>1, <2>2, <2>6
    <3> QED
      BY <2>3, <2>4, <3>1
  <2>7. CASE Committed
    BY <2>2, <2>7
  <2> QED
    BY <2>5, <2>6, <2>7
<1>3. CASE RebuildFails
  BY <1>3 DEF RebuildFails
<1>4. CASE OutcomeUnknown
  BY <1>4 DEF OutcomeUnknown
<1>5. CASE Crash
  BY <1>5 DEF Crash
<1>6. CASE RecoveryFails
  BY <1>6 DEF RecoveryFails
<1> QED
  BY <1>1, <1>2, <1>3, <1>4, <1>5, <1>6 DEF Faults

(* PostgreSQL decides a COMMIT it was sent. *)
LEMMA ServerStep == IInv /\ (CommitLands \/ CommitAborts) => IInv'
<1> SUFFICES ASSUME IInv, CommitLands \/ CommitAborts PROVE IInv'
  OBVIOUS
<1> USE BoundsAssumption
    DEF IInv, TypeOK, Owned, Clean, Uncommitted, UncommittedAt, Committed,
        CommittedAt, StorageKept, SecretKept, StorageAside, SecretAside, Swapped,
        database, files, process, Step, Fault, Work, Gens, Ids, Absent,
        NoMarker, NoJournal, Statuses, Swapping, Undoing, Recovering
<1>1. CASE CommitLands
  BY <1>1 DEF CommitLands
<1>2. CASE CommitAborts
  BY <1>2 DEF CommitAborts
<1> QED
  BY <1>1, <1>2

(* IInv is inductive. *)
LEMMA Inductive == IInv /\ [Next]_vars => IInv'
<1> SUFFICES ASSUME IInv, [Next]_vars PROVE IInv'
  OBVIOUS
<1>1. CASE Next
  BY <1>1, RestoreStep, RecoveryStep, FaultsStep, ServerStep DEF Next
<1>2. CASE UNCHANGED vars
  <2> USE <1>2 DEF vars, database, files, process
  <2>1. TypeOK' /\ Owned'
    BY DEF IInv, TypeOK, Owned
  <2>2. Clean \/ Uncommitted \/ Committed
    BY DEF IInv
  <2>3. Clean => Clean'
    BY DEF Clean
  <2>4. Uncommitted => Uncommitted'
    BY DEF Uncommitted, UncommittedAt, StorageKept, SecretKept, StorageAside,
           SecretAside, Swapped
  <2>5. Committed => Committed'
    BY DEF Committed, CommittedAt
  <2> QED
    BY <2>1, <2>2, <2>3, <2>4, <2>5 DEF IInv
<1> QED
  BY <1>1, <1>2

(* The inductive invariant holds in every reachable state. *)
THEOREM Invariance == Spec => []IInv
BY InitIInv, Inductive, PTL DEF Spec

-----------------------------------------------------------------------------
(* Every variable of the restore keeps its type: no journal status that    *)
(* startup recovery does not know, no more faults than the bound.          *)
THEOREM TypeCorrect == Spec => []TypeOK
<1>1. IInv => TypeOK
  BY DEF IInv
<1> QED
  BY <1>1, Invariance, PTL

(* Mutations are only accepted with database, storage and secret of one    *)
(* generation, whatever crashes and failures came before.                  *)
THEOREM NoSplit == Spec => []NoGenerationSplit
<1>1. IInv => NoGenerationSplit
  BY DEF IInv, Clean, Uncommitted, Committed, NoGenerationSplit, Accepting,
         Swapping, Undoing
<1> QED
  BY <1>1, Invariance, PTL

(* The storage and the secret of the database are active or can be renamed *)
(* back at every step of the cutover, the rollback and the recovery.       *)
THEOREM FilesKept == Spec => []FilesOfDatabaseKept
<1>1. IInv => FilesOfDatabaseKept
  BY DEF IInv, Clean, Uncommitted, Committed, StorageKept, StorageAside,
         SecretKept, SecretAside, FilesOfDatabaseKept
<1> QED
  BY <1>1, Invariance, PTL

(* Startup recovery accepts everything an interrupted restore or recovery  *)
(* can leave behind.                                                       *)
THEOREM NeverRefuses == Spec => []RecoveryNeverRefuses
<1>1. IInv => RecoveryNeverRefuses
  BY DEF IInv, Clean, Uncommitted, Committed, RecoveryNeverRefuses, Swapping,
         Undoing
<1> QED
  BY <1>1, Invariance, PTL

(* Nothing of an earlier restore is left when mutations are accepted. *)
THEOREM LeavesNothing == Spec => []NothingLeftOver
<1>1. IInv => NothingLeftOver
  BY DEF IInv, Clean, Uncommitted, Committed, NothingLeftOver, Accepting,
         Swapping, Undoing
<1> QED
  BY <1>1, Invariance, PTL

(* A marker always belongs to the journalled restore. *)
THEOREM MarkerHasJournal == Spec => []MarkerJournalled
<1>1. IInv => MarkerJournalled
  BY DEF IInv, Clean, Uncommitted, Committed, MarkerJournalled
<1> QED
  BY <1>1, Invariance, PTL

(* The commit of the database is the point of no return: while its marker  *)
(* exists no step replaces the database, the storage or the secret.        *)
THEOREM CommitFinal == Spec => CommitIsFinal
<1>1. IInv /\ [Next]_vars
        => [marker # NoMarker
              => storage' = storage /\ secret' = secret /\ db' = db]_vars
  <2> SUFFICES ASSUME IInv, Next, marker # NoMarker
               PROVE storage' = storage /\ secret' = secret /\ db' = db
    OBVIOUS
  <2>1. Committed
    BY DEF IInv, Clean, Uncommitted
  <2> USE <2>1 DEF Committed, Step, database, files
  <2>2. CASE Restore
    BY <2>2
       DEF Restore, prepare_storage_restore, AbandonRestore, AcquireCutover,
           JournalSwapStarted, MoveStorageAside, ActivateStorage,
           MoveSecretAside, ActivateSecret, JournalFilesSwapped, SwapCancelled,
           _rollback_with_fd, RemoveStorage, RenameStorageBack, RemoveSecret,
           RenameSecretBack, ClearJournalAfterRollback, FinishRollback,
           BeginRebuild, SendCommit, CommitEnds, ReadMarker,
           mark_database_committed, Restart
  <2>3. CASE Recovery
    BY <2>3
       DEF Recovery, StartRecovery, RecoveryDecides, RecoverValidate,
           RecoverFinalizing, clear_database_restore_marker,
           RecoverDropStorage, RecoverDropSecret, RecoverRollback,
           RemoveStorage, RenameStorageBack, RemoveSecret, RenameSecretBack,
           RecoverDropWork, RecoverClearJournal
  <2>4. CASE Faults
    BY <2>4 DEF Faults, SwapFails, RollbackFails, RebuildFails, OutcomeUnknown,
                Crash, RecoveryFails
  <2>5. CASE CommitLands \/ CommitAborts
    BY <2>5 DEF CommitLands, CommitAborts
  <2> QED
    BY <2>2, <2>3, <2>4, <2>5 DEF Next
<1> QED
  BY <1>1, Invariance, PTL DEF Spec, CommitIsFinal
=============================================================================
