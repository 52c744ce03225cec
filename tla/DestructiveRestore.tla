------------------------ MODULE DestructiveRestore ------------------------
(***************************************************************************)
(* The destructive restore of ppbase/backup: a cutover that replaces the   *)
(* storage directory and the JWT secret by renames, replaces the database  *)
(* in one transaction that also inserts a commit marker, and is finished   *)
(* or undone by startup recovery from a journal file (destructive.py,      *)
(* service.py, rebuild.py, app.py).                                        *)
(*                                                                         *)
(* Every system call that a crash can separate from the next one is an     *)
(* action of its own.  Contents are abstracted to generations: restore r   *)
(* brings generation r of the database, the storage and the secret, and    *)
(* generation 0 is what the server was first started with.                 *)
(***************************************************************************)
EXTENDS Integers

CONSTANTS
    MaxRestores,    \* bound: restores attempted in a behaviour
    MaxFaults       \* bound: crashes and failing system calls in a behaviour

ASSUME BoundsAssumption == MaxRestores \in Nat /\ MaxFaults \in Nat

Gens == 0 .. MaxRestores
Ids == 1 .. MaxRestores
Absent == -1            \* no such directory entry
NoMarker == 0           \* no row in _ppbase_restore_control.commits

Statuses == {"swap_started", "files_swapped", "database_committed",
             "finalizing"}
NoJournal == [id |-> 0, status |-> "none"]

VARIABLES
    db,          \* generation of schema public
    marker,      \* committed restore id, or NoMarker
    tx,          \* the restore transaction: "none", "open" or "commit" (sent)
    storage,     \* generation of data_dir/storage, or Absent
    secret,      \* generation of data_dir/.jwt_secret, or Absent
    prevStorage, \* per restore: .ppbase-storage-before-<id>
    prevSecret,  \* per restore: .ppbase-secret-before-<id>
    staged,      \* files still in .ppbase-restore/<id>: <<id, "storage">> ...
    journal,     \* .ppbase-restore.json
    rid,         \* id of the last restore begun
    base,        \* history: the generation that restore started from
    pc,          \* where the server process stands
    committed,   \* recovery's decision
    retry,       \* a second rollback attempt is left
    faults       \* faults so far

database == <<db, marker, tx>>
files == <<storage, secret, prevStorage, prevSecret, staged>>
process == <<rid, base, committed, retry>>
vars == <<database, files, journal, process, pc, faults>>

(* Mutations are accepted; everywhere else the fence or the absence of a   *)
(* server keeps them out.                                                  *)
Accepting == pc \in {"serving", "prepared"}

Swapping == {"swap1", "swap2", "swap3", "swap4", "swap5"}
Undoing == {"undo_storage", "undo_storage2", "undo_secret", "undo_secret2",
            "undo_journal", "undo_work"}
Recovering == {"rec_validate", "rec_journal", "rec_marker", "rec_storage",
               "rec_secret", "rec_work", "rec_clear", "rec_undo_storage",
               "rec_undo_storage2", "rec_undo_secret", "rec_undo_secret2"}

TypeOK ==
    /\ db \in Gens
    /\ marker \in Gens
    /\ tx \in {"none", "open", "commit"}
    /\ storage \in Gens \cup {Absent}
    /\ secret \in Gens \cup {Absent}
    /\ prevStorage \in [Ids -> Gens \cup {Absent}]
    /\ prevSecret \in [Ids -> Gens \cup {Absent}]
    /\ staged \subseteq Ids \X {"storage", "secret"}
    /\ journal \in {NoJournal} \cup [id : Ids, status : Statuses]
    /\ rid \in Gens
    /\ base \in Gens
    /\ pc \in {"serving", "prepared", "guarded", "swapped", "rebuild",
               "committing", "check", "mark", "restart", "stuck", "down",
               "refused"} \cup Swapping \cup Undoing \cup Recovering
    /\ committed \in BOOLEAN
    /\ retry \in BOOLEAN
    /\ faults \in 0 .. MaxFaults

Init ==
    /\ db = 0 /\ marker = NoMarker /\ tx = "none"
    /\ storage = 0 /\ secret = 0
    /\ prevStorage = [r \in Ids |-> Absent]
    /\ prevSecret = [r \in Ids |-> Absent]
    /\ staged = {}
    /\ journal = NoJournal
    /\ rid = 0 /\ base = 0
    /\ pc = "serving"
    /\ committed = FALSE /\ retry = FALSE
    /\ faults = 0

Step(from, to) == pc = from /\ pc' = to

Fault == faults < MaxFaults /\ faults' = faults + 1

Work(r) == {r} \X {"storage", "secret"}

-----------------------------------------------------------------------------
(* Preparation: nothing active is touched. *)

(* Extraction, preflight and prepare_storage_restore; refused while an     *)
(* earlier restore is journalled.                                          *)
prepare_storage_restore ==
    /\ Step("serving", "prepared")
    /\ journal = NoJournal
    /\ rid < MaxRestores
    /\ rid' = rid + 1
    /\ base' = db
    /\ staged' = staged \cup Work(rid + 1)
    /\ UNCHANGED <<database, storage, secret, prevStorage, prevSecret, journal,
                   committed, retry, faults>>

(* Any refusal before the swap removes the work directory; with the guard  *)
(* held it also lowers the fence.                                          *)
AbandonRestore ==
    /\ pc \in {"prepared", "guarded"}
    /\ pc' = "serving"
    /\ staged' = staged \ Work(rid)
    /\ UNCHANGED <<database, storage, secret, prevStorage, prevSecret, journal,
                   process, faults>>

(* Retained write barrier, restart reservation, second verification of the *)
(* archive: from here on mutations are excluded.                           *)
AcquireCutover ==
    /\ Step("prepared", "guarded")
    /\ UNCHANGED <<database, files, journal, process, faults>>

-----------------------------------------------------------------------------
(* PreparedStorageRestore.swap_into_place. *)

WriteJournal(r, s) == journal' = [id |-> r, status |-> s]

JournalSwapStarted ==
    /\ Step("guarded", "swap1")
    /\ secret # Absent
    /\ WriteJournal(rid, "swap_started")
    /\ UNCHANGED <<database, files, process, faults>>

MoveStorageAside ==
    /\ Step("swap1", "swap2")
    /\ prevStorage' = [prevStorage EXCEPT ![rid] = storage]
    /\ storage' = Absent
    /\ UNCHANGED <<database, secret, prevSecret, staged, journal, process,
                   faults>>

ActivateStorage ==
    /\ Step("swap2", "swap3")
    /\ <<rid, "storage">> \in staged
    /\ storage' = rid
    /\ staged' = staged \ {<<rid, "storage">>}
    /\ UNCHANGED <<database, secret, prevStorage, prevSecret, journal, process,
                   faults>>

MoveSecretAside ==
    /\ Step("swap3", "swap4")
    /\ prevSecret' = [prevSecret EXCEPT ![rid] = secret]
    /\ secret' = Absent
    /\ UNCHANGED <<database, storage, prevStorage, staged, journal, process,
                   faults>>

ActivateSecret ==
    /\ Step("swap4", "swap5")
    /\ <<rid, "secret">> \in staged
    /\ secret' = rid
    /\ staged' = staged \ {<<rid, "secret">>}
    /\ UNCHANGED <<database, storage, prevStorage, prevSecret, journal, process,
                   faults>>

JournalFilesSwapped ==
    /\ Step("swap5", "swapped")
    /\ WriteJournal(rid, "files_swapped")
    /\ UNCHANGED <<database, files, process, faults>>

(* A failing call of the swap: it rolls back itself, and the caller rolls  *)
(* back once more if that fails.                                           *)
SwapFails ==
    /\ pc \in Swapping /\ Fault
    /\ pc' = "undo_storage"
    /\ retry' = TRUE
    /\ UNCHANGED <<database, files, journal, rid, base, committed>>

(* Cancellation that arrives after the worker has finished the swap. *)
SwapCancelled ==
    /\ Step("swapped", "undo_storage")
    /\ retry' = FALSE
    /\ UNCHANGED <<database, files, journal, rid, base, committed, faults>>

-----------------------------------------------------------------------------
(* Rolling back the files of restore r: for the storage and then for the   *)
(* secret, remove the active entry and rename the previous one back, if    *)
(* there is a previous one.                                                *)

RemoveStorage(r, from, again, next) ==
    /\ pc = from
    /\ \/ /\ prevStorage[r] # Absent
          /\ storage' = Absent /\ pc' = again
       \/ /\ prevStorage[r] = Absent
          /\ storage' = storage /\ pc' = next
    /\ UNCHANGED <<database, secret, prevStorage, prevSecret, staged, journal,
                   process, faults>>

RenameStorageBack(r, from, next) ==
    /\ Step(from, next)
    /\ prevStorage[r] # Absent
    /\ storage' = prevStorage[r]
    /\ prevStorage' = [prevStorage EXCEPT ![r] = Absent]
    /\ UNCHANGED <<database, secret, prevSecret, staged, journal, process,
                   faults>>

RemoveSecret(r, from, again, next) ==
    /\ pc = from
    /\ \/ /\ prevSecret[r] # Absent
          /\ secret' = Absent /\ pc' = again
       \/ /\ prevSecret[r] = Absent
          /\ secret' = secret /\ pc' = next
    /\ UNCHANGED <<database, storage, prevStorage, prevSecret, staged, journal,
                   process, faults>>

RenameSecretBack(r, from, next) ==
    /\ Step(from, next)
    /\ prevSecret[r] # Absent
    /\ secret' = prevSecret[r]
    /\ prevSecret' = [prevSecret EXCEPT ![r] = Absent]
    /\ UNCHANGED <<database, storage, prevStorage, staged, journal, process,
                   faults>>

(* Mutant: the rollback forgets the secret. *)
RollbackStorageOnly ==
    \/ RemoveStorage(rid, "undo_storage", "undo_storage2", "undo_journal")
    \/ RenameStorageBack(rid, "undo_storage2", "undo_journal")

_rollback_with_fd ==
    \/ RemoveStorage(rid, "undo_storage", "undo_storage2", "undo_secret")
    \/ RenameStorageBack(rid, "undo_storage2", "undo_secret")
    \/ RemoveSecret(rid, "undo_secret", "undo_secret2", "undo_journal")
    \/ RenameSecretBack(rid, "undo_secret2", "undo_journal")

(* journal.clear() after the files are back. *)
ClearJournalAfterRollback ==
    /\ Step("undo_journal", "undo_work")
    /\ journal' = NoJournal
    /\ UNCHANGED <<database, files, process, faults>>

(* cleanup_work_dir and cutover_guard.close(): the restore has failed and  *)
(* mutations are accepted again.                                           *)
FinishRollback ==
    /\ Step("undo_work", "serving")
    /\ staged' = staged \ Work(rid)
    /\ UNCHANGED <<database, storage, secret, prevStorage, prevSecret, journal,
                   process, faults>>

(* A rollback that fails is tried once more or leaves the process fenced. *)
RollbackFails ==
    /\ pc \in Undoing /\ Fault
    /\ pc' = IF retry THEN "undo_storage" ELSE "stuck"
    /\ retry' = FALSE
    /\ UNCHANGED <<database, files, journal, rid, base, committed>>

-----------------------------------------------------------------------------
(* run_native_destructive_restore: one transaction, marker included. *)

BeginRebuild ==
    /\ Step("swapped", "rebuild")
    /\ tx' = "open"
    /\ UNCHANGED <<db, marker, files, journal, process, faults>>

(* An error before COMMIT: PostgreSQL rolls the transaction back. *)
RebuildFails ==
    /\ Step("rebuild", "check") /\ Fault
    /\ tx' = "none"
    /\ UNCHANGED <<db, marker, files, journal, process>>

SendCommit ==
    /\ Step("rebuild", "committing")
    /\ tx' = "commit"
    /\ UNCHANGED <<db, marker, files, journal, process, faults>>

(* The server: the COMMIT takes effect, or fails. *)
CommitLands ==
    /\ tx = "commit" /\ tx' = "none"
    /\ db' = rid /\ marker' = rid
    /\ UNCHANGED <<files, journal, process, pc, faults>>

CommitAborts ==
    /\ tx = "commit" /\ tx' = "none"
    /\ Fault
    /\ UNCHANGED <<db, marker, files, journal, process, pc>>

(* The client is answered, with success or with an error it keeps for      *)
(* later, once the server has decided.                                     *)
CommitEnds ==
    /\ Step("committing", "check")
    /\ tx = "none"
    /\ UNCHANGED <<database, files, journal, process, faults>>

-----------------------------------------------------------------------------
(* The outcome, decided by the marker an independent connection reads. *)

(* validate_committed_destructive_restore: the references of the committed *)
(* database are those of the backup, their files are in the active storage *)
(* and a secret is present.                                                *)
ValidCommitted(r) == db = r /\ storage = r /\ secret # Absent

ReadMarker ==
    /\ pc = "check"
    /\ \/ marker = rid /\ ValidCommitted(rid) /\ pc' = "mark"
       \/ marker = rid /\ ~ValidCommitted(rid) /\ pc' = "stuck"
       \/ marker # rid /\ pc' = "undo_storage"
    /\ retry' = FALSE
    /\ UNCHANGED <<database, files, journal, rid, base, committed, faults>>

mark_database_committed ==
    /\ Step("mark", "restart")
    /\ WriteJournal(rid, "database_committed")
    /\ UNCHANGED <<database, files, process, faults>>

(* Reading the marker, validating or journalling fails: the guard is kept  *)
(* and the process stays fenced until it is restarted.                     *)
OutcomeUnknown ==
    /\ pc \in {"check", "mark"} /\ Fault
    /\ pc' = "stuck"
    /\ UNCHANGED <<database, files, journal, process>>

(* exec of the saved command, or the operator restarts a fenced process. *)
Restart ==
    /\ pc \in {"restart", "stuck"}
    /\ pc' = "down"
    /\ UNCHANGED <<database, files, journal, process, faults>>

(* The process dies.  An open transaction is rolled back with its session. *)
Crash ==
    /\ pc \notin {"down", "refused"} /\ Fault
    /\ pc' = "down"
    /\ tx' = IF tx = "open" THEN "none" ELSE tx
    /\ UNCHANGED <<db, marker, files, journal, process>>

-----------------------------------------------------------------------------
(* recover_interrupted_destructive_restore, at every startup. *)

(* Mutant: recovery trusts the journal and ignores the marker. *)
DecidesByJournal ==
    /\ pc = "down"
    /\ committed' = (journal.status \in {"database_committed", "finalizing"})
    /\ pc' = IF journal = NoJournal
             THEN IF marker = NoMarker THEN "serving" ELSE "refused"
             ELSE IF marker \notin {NoMarker, journal.id} THEN "refused"
             ELSE IF committed' THEN "rec_validate" ELSE "rec_undo_storage"
    /\ UNCHANGED <<database, files, journal, rid, base, retry, faults>>

RecoveryDecides ==
    /\ pc = "down"
    /\ committed' = (marker = journal.id \/ journal.status = "finalizing")
    /\ pc' = IF journal = NoJournal
             THEN IF marker = NoMarker THEN "serving" ELSE "refused"
             ELSE IF marker \notin {NoMarker, journal.id} THEN "refused"
             ELSE IF committed' THEN "rec_validate" ELSE "rec_undo_storage"
    /\ UNCHANGED <<database, files, journal, rid, base, retry, faults>>

StartRecovery == tx = "none" /\ RecoveryDecides

(* Mutant: a restore whose marker recovery has already dropped is refused. *)
RecoverValidateMarker ==
    /\ pc = "rec_validate"
    /\ pc' = IF marker = journal.id /\ ValidCommitted(journal.id)
             THEN "rec_journal" ELSE "refused"
    /\ UNCHANGED <<database, files, journal, process, faults>>

RecoverValidate ==
    /\ pc = "rec_validate"
    /\ pc' = IF ValidCommitted(journal.id) THEN "rec_journal" ELSE "refused"
    /\ UNCHANGED <<database, files, journal, process, faults>>

(* The durable decision comes before the marker is dropped ... *)
RecoverFinalizing ==
    /\ Step("rec_journal", "rec_marker")
    /\ WriteJournal(journal.id, "finalizing")
    /\ UNCHANGED <<database, files, process, faults>>

(* Mutant: the marker survives recovery. *)
KeepMarker ==
    /\ Step("rec_marker", "rec_storage")
    /\ UNCHANGED <<database, files, journal, process, faults>>

clear_database_restore_marker ==
    /\ Step("rec_marker", "rec_storage")
    /\ marker' = NoMarker
    /\ UNCHANGED <<db, tx, files, journal, process, faults>>

(* ... and the marker before the rollback files. *)
RecoverDropStorage ==
    /\ Step("rec_storage", "rec_secret")
    /\ prevStorage' = [prevStorage EXCEPT ![journal.id] = Absent]
    /\ UNCHANGED <<database, storage, secret, prevSecret, staged, journal,
                   process, faults>>

(* Mutant: the previous secret is left behind. *)
KeepPreviousSecret ==
    /\ Step("rec_secret", "rec_work")
    /\ UNCHANGED <<database, files, journal, process, faults>>

RecoverDropSecret ==
    /\ Step("rec_secret", "rec_work")
    /\ prevSecret' = [prevSecret EXCEPT ![journal.id] = Absent]
    /\ UNCHANGED <<database, storage, secret, prevStorage, staged, journal,
                   process, faults>>

RecoverRollback ==
    \/ RemoveStorage(journal.id, "rec_undo_storage", "rec_undo_storage2",
                     "rec_undo_secret")
    \/ RenameStorageBack(journal.id, "rec_undo_storage2", "rec_undo_secret")
    \/ RemoveSecret(journal.id, "rec_undo_secret", "rec_undo_secret2", "rec_work")
    \/ RenameSecretBack(journal.id, "rec_undo_secret2", "rec_work")

RecoverDropWork ==
    /\ Step("rec_work", "rec_clear")
    /\ staged' = staged \ Work(journal.id)
    /\ UNCHANGED <<database, storage, secret, prevStorage, prevSecret, journal,
                   process, faults>>

RecoverClearJournal ==
    /\ Step("rec_clear", "serving")
    /\ journal' = NoJournal
    /\ UNCHANGED <<database, files, process, faults>>

(* Any failing call ends the startup; the supervisor starts it again. *)
RecoveryFails ==
    /\ pc \in Recovering /\ Fault
    /\ pc' = "down"
    /\ UNCHANGED <<database, files, journal, process>>

-----------------------------------------------------------------------------
(* Two circumstances the restore does not exclude. *)

(* The client stops waiting (cancellation, a lost connection), or a new    *)
(* process starts, while the server is still committing.                   *)
CommitUnanswered ==
    /\ Step("committing", "check")
    /\ tx = "commit"
    /\ UNCHANGED <<database, files, journal, process, faults>>

RecoverEarly == tx = "commit" /\ RecoveryDecides

(* Another server starts on the same data directory and database and runs  *)
(* the same recovery, here in one step, while this one is up.  Calls of    *)
(* this process that then miss a file are not followed further.            *)
OtherInstanceRecovers ==
    /\ pc \notin {"down", "refused"} \cup Recovering
    /\ journal # NoJournal /\ marker = NoMarker
    /\ journal.status # "finalizing"
    /\ LET r == journal.id IN
         /\ storage' = IF prevStorage[r] # Absent THEN prevStorage[r] ELSE storage
         /\ secret' = IF prevSecret[r] # Absent THEN prevSecret[r] ELSE secret
         /\ prevStorage' = [prevStorage EXCEPT ![r] = Absent]
         /\ prevSecret' = [prevSecret EXCEPT ![r] = Absent]
         /\ staged' = staged \ Work(r)
    /\ journal' = NoJournal
    /\ UNCHANGED <<database, process, pc, faults>>

-----------------------------------------------------------------------------
Restore ==
    \/ prepare_storage_restore \/ AbandonRestore \/ AcquireCutover
    \/ JournalSwapStarted \/ MoveStorageAside \/ ActivateStorage
    \/ MoveSecretAside \/ ActivateSecret \/ JournalFilesSwapped
    \/ SwapCancelled
    \/ _rollback_with_fd \/ ClearJournalAfterRollback \/ FinishRollback
    \/ BeginRebuild \/ SendCommit \/ CommitEnds
    \/ ReadMarker \/ mark_database_committed \/ Restart

Recovery ==
    \/ StartRecovery \/ RecoverValidate \/ RecoverFinalizing
    \/ clear_database_restore_marker \/ RecoverDropStorage \/ RecoverDropSecret
    \/ RecoverRollback \/ RecoverDropWork \/ RecoverClearJournal

Faults ==
    \/ SwapFails \/ RollbackFails \/ RebuildFails \/ OutcomeUnknown
    \/ Crash \/ RecoveryFails

Next == Restore \/ Recovery \/ Faults \/ CommitLands \/ CommitAborts

Spec == Init /\ [][Next]_vars

LateCommitSpec == Init /\ [][Next \/ CommitUnanswered \/ RecoverEarly]_vars

SecondInstanceSpec == Init /\ [][Next \/ OtherInstanceRecovers]_vars

(* A process that runs goes on, a process that is down is started again    *)
(* and PostgreSQL finishes the COMMITs it was sent; nobody has to begin a  *)
(* restore.                                                                *)
Progress == (Restore /\ pc # "serving") \/ Recovery

FairSpec == Spec /\ WF_vars(Progress) /\ WF_vars(CommitLands \/ CommitAborts)

-----------------------------------------------------------------------------
(* Safety. *)

(* Whenever mutations are accepted, database, storage and secret are of    *)
(* one generation, whatever was interrupted before: no operator or hook    *)
(* ever sees a generation split.                                           *)
NoGenerationSplit == Accepting => storage = db /\ secret = db

(* The storage and the secret that belong to the database are never lost:  *)
(* at every point of the swap, the commit, the rollback and recovery they  *)
(* are active or still under the name from which they are recovered.       *)
FilesOfDatabaseKept ==
    /\ storage = db \/ \E r \in Ids : prevStorage[r] = db
    /\ secret = db \/ \E r \in Ids : prevSecret[r] = db

(* A committed database has its journal until recovery has dropped the     *)
(* marker: a startup can always tell which restore it has to finish.       *)
MarkerJournalled == marker # NoMarker => journal.id = marker

(* Startup recovery accepts what every crash, at every point of the        *)
(* restore or of an earlier recovery, can leave behind.                    *)
RecoveryNeverRefuses == pc # "refused"

(* When mutations are accepted again, nothing of an earlier restore is     *)
(* left that a later one could trip over: no marker, no journal, no        *)
(* rollback files.                                                         *)
NothingLeftOver ==
    Accepting => /\ marker = NoMarker /\ journal = NoJournal /\ tx = "none"
                 /\ \A r \in Ids : prevStorage[r] = Absent /\ prevSecret[r] = Absent

(* The commit of the database is the point of no return: from then on no   *)
(* step of the process or of any recovery replaces the active files.       *)
CommitIsFinal ==
    [][marker # NoMarker => storage' = storage /\ secret' = secret /\ db' = db]_vars

(* Liveness: whatever happens to a restore, the server accepts mutations   *)
(* again, in the old generation or in the new one.                         *)
EventuallyAccepting == []<>Accepting
=============================================================================
