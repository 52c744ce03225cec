--------------------------- MODULE RecordStorage ---------------------------
(***************************************************************************)
(* One record and its files under run_record_storage_transaction           *)
(* (services/record_storage_coordinator.py) with the create, update and    *)
(* delete operations of services/record_service.py and the capture and     *)
(* deferral of services/file_storage.py.                                   *)
(*                                                                         *)
(* A mutation writes new files at once and deletes old ones only after its *)
(* database transaction has committed.  It runs under the shared write     *)
(* barrier, which keeps backups out but not other mutations.  PostgreSQL   *)
(* is READ COMMITTED with row locks and no SELECT FOR UPDATE: the value a  *)
(* task writes is computed from the row it read earlier.                   *)
(*                                                                         *)
(* A row is abstracted to the set of files its file field references;      *)
(* stored names are random and never reused.                               *)
(***************************************************************************)
EXTENDS Integers, FiniteSets

CONSTANTS
    Tasks,      \* concurrent mutations of the record
    Files,      \* names of stored files
    Missing,    \* marks a row that does not exist
    MaxOps,     \* bound: operations in one transaction (a batch)
    MaxShared,  \* the same once transactions have overlapped
    MaxOverlaps \* bound: transactions from the first one that overlaps another

ASSUME MaxOpsAssumption == MaxOps \in Nat \ {0} /\ MaxShared \in 1 .. MaxOps /\ MaxOverlaps \in Nat

ASSUME MissingAssumption == Missing \notin Files

VARIABLES
    row,       \* committed row: referenced files, or NoRow
    files,     \* files in the record's storage directory
    used,      \* names ever generated
    pc,        \* where each task stands
    session,   \* the task's lease session is alive
    tx,        \* its transaction on the server
    pending,   \* the row as its transaction will commit it
    lock,      \* the task whose transaction holds the row lock
    seen,      \* raw_row as the operation read it
    fresh,     \* files saved by the current operation
    created,   \* created_file_targets
    deferred,  \* deferred_storage_deletes
    final,     \* final_file_references
    ops,       \* operations done in this transaction
    excused,   \* history: files deliberately preserved, or left by a crash
    overlaps   \* history: transactions begun since two of them overlapped

tables == <<row, pending, lock, tx, session>>
locals == <<seen, fresh, created, deferred, final, ops>>
vars == <<tables, files, used, pc, locals, excused, overlaps>>

Nobody == "nobody"

ASSUME TasksAssumption == Nobody \notin Tasks

NoRow == {Missing}
Rows == (SUBSET Files) \cup {NoRow}
Refs(r) == IF r = NoRow THEN {} ELSE r

TypeOK ==
    /\ row \in Rows
    /\ files \subseteq Files /\ used \subseteq Files /\ excused \subseteq Files
    /\ pc \in [Tasks -> {"idle", "read", "plan", "written", "finished",
                         "committing", "post", "flush", "failed",
                         "reconciled", "cancelled", "rolled_back"}]
    /\ session \in [Tasks -> BOOLEAN]
    /\ tx \in [Tasks -> {"none", "open", "commit", "done", "failed"}]
    /\ pending \in [Tasks -> Rows]
    /\ lock \in Tasks \cup {Nobody}
    /\ seen \in [Tasks -> Rows]
    /\ fresh \in [Tasks -> SUBSET Files]
    /\ created \in [Tasks -> SUBSET Files]
    /\ deferred \in [Tasks -> SUBSET Files]
    /\ final \in [Tasks -> SUBSET Files]
    /\ ops \in [Tasks -> 0 .. MaxOps]
    /\ overlaps \in 0 .. MaxOverlaps

Init ==
    /\ row = NoRow
    /\ files = {} /\ used = {} /\ excused = {}
    /\ pc = [t \in Tasks |-> "idle"]
    /\ session = [t \in Tasks |-> TRUE]
    /\ tx = [t \in Tasks |-> "none"]
    /\ pending = [t \in Tasks |-> NoRow]
    /\ lock = Nobody
    /\ seen = [t \in Tasks |-> NoRow]
    /\ fresh = [t \in Tasks |-> {}]
    /\ created = [t \in Tasks |-> {}]
    /\ deferred = [t \in Tasks |-> {}]
    /\ final = [t \in Tasks |-> {}]
    /\ ops = [t \in Tasks |-> 0]
    /\ overlaps = 0

Overlapped == overlaps > 0

GoTo(t, where) == pc' = [pc EXCEPT ![t] = where]

(* What the transaction of t sees: its own write, else the committed row. *)
View(t) == IF lock = t THEN pending[t] ELSE row

-----------------------------------------------------------------------------
(* The transaction body: a request, or a batch of them. *)

(* The barrier is entered, writes are captured, deletes deferred and the   *)
(* transaction begun.                                                      *)
Begin(t) ==
    /\ pc[t] = "idle" /\ tx[t] = "none"
    /\ GoTo(t, "read")
    /\ session' = [session EXCEPT ![t] = TRUE]     \* a session of its own
    /\ tx' = [tx EXCEPT ![t] = "open"]
    /\ IF Overlapped \/ \E u \in Tasks \ {t} : pc[u] # "idle" \/ tx[u] # "none"
       THEN overlaps < MaxOverlaps /\ overlaps' = overlaps + 1
       ELSE overlaps' = overlaps
    /\ UNCHANGED <<row, pending, lock, locals, files, used, excused>>

(* SELECT * ... LIMIT 1, without a lock. *)
ReadRow(t) ==
    /\ pc[t] = "read" /\ session[t]
    /\ seen' = [seen EXCEPT ![t] = View(t)]
    /\ GoTo(t, "plan")
    /\ UNCHANGED <<tables, files, used, fresh, created, deferred, final, ops, excused>>

(* save_files: a new, unique name, captured. *)
SaveFile(t, f) ==
    /\ pc[t] = "plan" /\ f \notin used
    /\ files' = files \cup {f}
    /\ used' = used \cup {f}
    /\ fresh' = [fresh EXCEPT ![t] = @ \cup {f}]
    /\ created' = [created EXCEPT ![t] = @ \cup {f}]
    /\ UNCHANGED <<tables, pc, seen, deferred, final, ops, excused>>

(* The statement gets the row lock, waiting for whoever holds it, and      *)
(* changes what is committed by then.                                      *)
Writes(t, value) ==
    /\ lock \in {t, Nobody}
    /\ lock' = t
    /\ pending' = [pending EXCEPT ![t] = value]

(* An UPDATE or DELETE whose row is gone locks and changes nothing, and    *)
(* still succeeds.                                                         *)
WritesIfThere(t, value) ==
    \/ View(t) # NoRow /\ Writes(t, value)
    \/ View(t) = NoRow /\ UNCHANGED <<lock, pending>>

(* One operation of the body ends; removed are the files it handed to      *)
(* delete_files, which defers them.                                        *)
EndOp(t, removed) ==
    /\ pc[t] = "plan" /\ session[t] /\ ops[t] < MaxOps
    /\ GoTo(t, "written")
    /\ ops' = [ops EXCEPT ![t] = @ + 1]
    /\ deferred' = [deferred EXCEPT ![t] = @ \cup removed]
    /\ seen' = [seen EXCEPT ![t] = NoRow]
    /\ fresh' = [fresh EXCEPT ![t] = {}]
    /\ UNCHANGED <<row, tx, session, created, final, used, excused>>

(* INSERT of a record that does not exist yet. *)
create_record(t) ==
    /\ View(t) = NoRow
    /\ Writes(t, fresh[t])
    /\ EndOp(t, {})
    /\ files' = files

(* The file field goes into the UPDATE only if its value differs from the  *)
(* one that was read.                                                      *)
Column(t, keep) == IF keep = seen[t] THEN View(t) ELSE keep

(* Mutant: an update removes the dropped files at once. *)
UpdateDeletesAtOnce(t, keep) ==
    /\ seen[t] # NoRow /\ keep \subseteq seen[t] \cup fresh[t]
    /\ WritesIfThere(t, Column(t, keep))
    /\ EndOp(t, {})
    /\ files' = files \ (seen[t] \ keep)

(* UPDATE: the final value is made of files of the row as it was read and  *)
(* of new ones; the files it drops from that row are removed.              *)
update_record(t, keep) ==
    /\ seen[t] # NoRow /\ keep \subseteq seen[t] \cup fresh[t]
    /\ WritesIfThere(t, Column(t, keep))
    /\ EndOp(t, seen[t] \ keep)
    /\ files' = files

(* An update that changes no column; the record is not found. *)
NothingToWrite(t) ==
    /\ UNCHANGED <<lock, pending, files>>
    /\ EndOp(t, fresh[t])

(* DELETE: the files of the row as it was read are removed. *)
delete_record(t) ==
    /\ seen[t] # NoRow /\ fresh[t] = {}
    /\ WritesIfThere(t, NoRow)
    /\ EndOp(t, seen[t])
    /\ files' = files

(* The next operation of a batch. *)
NextOp(t) ==
    /\ pc[t] = "written" /\ ops[t] < (IF Overlapped THEN MaxShared ELSE MaxOps)
    /\ GoTo(t, "read")
    /\ UNCHANGED <<tables, files, used, locals, excused>>

(* Whether the mutation touched any file; if not, nothing is looked up. *)
_affected_records(t) == created[t] \cup deferred[t] # {}

(* _final_file_references of the affected records, inside the transaction; *)
(* transaction_body_finished.                                              *)
FinishBody(t) ==
    /\ pc[t] = "written" /\ session[t]
    /\ final' = [final EXCEPT ![t] =
                    IF _affected_records(t) THEN Refs(View(t)) ELSE @]
    /\ GoTo(t, "finished")
    /\ UNCHANGED <<tables, files, used, seen, fresh, created, deferred, ops,
                   excused>>

(* A validation error, a hook that refuses, a failing statement. *)
BodyFails(t) ==
    /\ pc[t] \in {"read", "plan", "written"}
    /\ GoTo(t, "rolled_back")
    /\ UNCHANGED <<tables, files, used, locals, excused>>

-----------------------------------------------------------------------------
(* The server's side of the commit. *)

(* The end of a transaction drops its row lock and its own version. *)
Unlock(t) ==
    /\ lock' = IF lock = t THEN Nobody ELSE lock
    /\ pending' = [pending EXCEPT ![t] = NoRow]

(* What was not handed to the server as a COMMIT is rolled back. *)
RollbackOpen(t) ==
    /\ tx' = [tx EXCEPT ![t] = IF @ = "open" THEN "failed" ELSE @]
    /\ IF tx[t] = "open" THEN Unlock(t) ELSE UNCHANGED <<lock, pending>>

SendCommit(t) ==
    /\ pc[t] = "finished" /\ session[t]
    /\ GoTo(t, "committing")
    /\ tx' = [tx EXCEPT ![t] = "commit"]
    /\ UNCHANGED <<row, pending, lock, session, files, used, locals, excused>>

CommitLands(t) ==
    /\ tx[t] = "commit"
    /\ tx' = [tx EXCEPT ![t] = "done"]
    /\ row' = View(t)
    /\ Unlock(t)
    /\ UNCHANGED <<session, files, used, pc, locals, excused>>

CommitFails(t) ==
    /\ tx[t] = "commit"
    /\ tx' = [tx EXCEPT ![t] = "failed"]
    /\ Unlock(t)
    /\ UNCHANGED <<row, session, files, used, pc, locals, excused>>

(* The session dies; what it had not been asked to commit is rolled back. *)
SessionLost(t) ==
    /\ session[t] /\ tx[t] # "none"
    /\ session' = [session EXCEPT ![t] = FALSE]
    /\ RollbackOpen(t)
    /\ UNCHANGED <<row, files, used, pc, locals, excused>>

(* The client's view of the commit: acknowledged, an error, a cancellation. *)
CommitAcknowledged(t) ==
    /\ pc[t] = "committing" /\ tx[t] = "done"
    /\ GoTo(t, "post")
    /\ UNCHANGED <<tables, files, used, locals, excused>>

CommitErrors(t) ==
    /\ pc[t] \in {"finished", "committing"}
    /\ \/ GoTo(t, "failed")
       \/ GoTo(t, "cancelled")
    /\ UNCHANGED <<tables, files, used, locals, excused>>

-----------------------------------------------------------------------------
(* After the transaction. *)

(* The transaction ends, unless its COMMIT is still with the server. *)
Rollback(t) ==
    /\ tx' = [tx EXCEPT ![t] = IF @ = "commit" THEN @ ELSE "none"]
    /\ IF tx[t] = "open" THEN Unlock(t) ELSE UNCHANGED <<lock, pending>>
    /\ UNCHANGED <<row, session>>

Leave(t) ==
    /\ GoTo(t, "idle")
    /\ Rollback(t)
    /\ seen' = [seen EXCEPT ![t] = NoRow]
    /\ fresh' = [fresh EXCEPT ![t] = {}]
    /\ created' = [created EXCEPT ![t] = {}]
    /\ deferred' = [deferred EXCEPT ![t] = {}]
    /\ final' = [final EXCEPT ![t] = {}]
    /\ ops' = [ops EXCEPT ![t] = 0]
    /\ used' = used

(* delete_files on each target; one that fails is logged and skipped. *)
Removes(targets) ==
    \E skipped \in SUBSET (targets \cap files) :
        /\ files' = files \ (targets \ skipped)
        /\ excused' = excused \cup skipped

(* The session answers only after its COMMIT was resolved. *)
assert_write_barrier_held(t) == session[t] /\ tx[t] # "commit"

(* The lease is lost, or the request was cancelled while it committed, or  *)
(* the check that follows a commit fails or is cancelled: files are kept.  *)
PreserveFiles(t) ==
    /\ \/ pc[t] \in {"failed", "cancelled", "rolled_back"} /\ ~session[t]
       \/ pc[t] = "cancelled" /\ assert_write_barrier_held(t)
       \/ pc[t] = "post"
    /\ excused' = excused \cup created[t] \cup deferred[t]
    /\ files' = files
    /\ Leave(t)

(* The body did not finish: its new files go. *)
_cleanup_created_files(t) ==
    /\ pc[t] = "rolled_back" /\ assert_write_barrier_held(t)
    /\ Removes(created[t])
    /\ Leave(t)

(* Mutant: a failed commit is taken for a rollback. *)
AssumeRolledBack(t) ==
    /\ pc[t] = "failed" /\ assert_write_barrier_held(t)
    /\ final' = [final EXCEPT ![t] = {}]
    /\ excused' = excused \cup deferred[t]
    /\ GoTo(t, "reconciled")
    /\ RollbackOpen(t)
    /\ UNCHANGED <<row, session, files, used, seen, fresh, created, deferred, ops>>

(* The commit failed, or only its answer did.  The references the database *)
(* holds now decide which new files go; when they cannot be read (None)    *)
(* all are kept.  Deferred deletions are dropped.                          *)
_reconcile_durable_references(t) ==
    /\ pc[t] = "failed" /\ assert_write_barrier_held(t)
    /\ \/ /\ final' = [final EXCEPT ![t] =
                           IF _affected_records(t) THEN Refs(row) ELSE {}]
          /\ excused' = excused \cup deferred[t]
       \/ /\ final' = [final EXCEPT ![t] = created[t]]
          /\ excused' = excused \cup deferred[t] \cup created[t]
    /\ GoTo(t, "reconciled")
    /\ RollbackOpen(t)
    /\ UNCHANGED <<row, session, files, used, seen, fresh, created, deferred, ops>>

(* After a reconciliation: new files nobody references go. *)
CleanupReconciled(t) ==
    /\ pc[t] = "reconciled"
    /\ Removes(created[t] \ final[t])
    /\ Leave(t)

(* Mutant: new files that ended up unreferenced stay. *)
SkipUnreferenced(t) ==
    /\ pc[t] = "post" /\ session[t]
    /\ GoTo(t, "flush")
    /\ UNCHANGED <<tables, files, used, locals, excused>>

(* Committed, the lease is held: new files that ended up unreferenced go ... *)
_cleanup_unreferenced_created_files(t) ==
    /\ pc[t] = "post" /\ session[t]
    /\ Removes(created[t] \ final[t])
    /\ GoTo(t, "flush")
    /\ UNCHANGED <<tables, used, locals>>

(* ... and then the deferred deletes, sparing the final references. *)
flush_deferred_storage_deletes(t) ==
    /\ pc[t] = "flush"
    /\ Removes(deferred[t] \ final[t])
    /\ Leave(t)

(* The process dies, or a second cancellation ends the error handling: an  *)
(* open transaction is rolled back, a COMMIT that was sent may still take  *)
(* effect, and no file is touched.                                         *)
Crash(t) ==
    /\ pc[t] # "idle"
    /\ excused' = excused \cup created[t] \cup deferred[t]
    /\ files' = files
    /\ Leave(t)

(* A COMMIT whose client is gone has taken effect or failed. *)
ForgetTx(t) ==
    /\ pc[t] = "idle" /\ tx[t] \in {"done", "failed"}
    /\ tx' = [tx EXCEPT ![t] = "none"]
    /\ UNCHANGED <<row, pending, lock, session, files, used, pc, locals, excused>>

-----------------------------------------------------------------------------
Proceed(t) ==
    \/ ReadRow(t) \/ \E f \in Files : SaveFile(t, f)
    \/ create_record(t) \/ delete_record(t) \/ NothingToWrite(t)
    \/ \E keep \in SUBSET Files : update_record(t, keep)
    \/ NextOp(t) \/ FinishBody(t) \/ BodyFails(t)
    \/ SendCommit(t) \/ CommitLands(t) \/ CommitFails(t) \/ SessionLost(t)
    \/ CommitAcknowledged(t) \/ CommitErrors(t)
    \/ PreserveFiles(t) \/ _cleanup_created_files(t)
    \/ _reconcile_durable_references(t) \/ CleanupReconciled(t)
    \/ _cleanup_unreferenced_created_files(t)
    \/ flush_deferred_storage_deletes(t)
    \/ Crash(t) \/ ForgetTx(t)

Next == \E t \in Tasks : Begin(t) \/ (Proceed(t) /\ UNCHANGED overlaps)

Spec == Init /\ [][Next]_vars

-----------------------------------------------------------------------------
(* What flush_deferred_storage_deletes says of itself: deletions never     *)
(* remove a file that the committed row references.                        *)
FinalReferencesKept == Refs(row) \subseteq files

(* Every file the committed row references is in storage, whatever was     *)
(* interrupted: the guarantee a reader and a backup rely on.  It holds as  *)
(* long as the transactions of the record followed one another, also when  *)
(* a COMMIT of an earlier one landed late.                                 *)
NoDanglingReference == Overlapped \/ FinalReferencesKept

(* No file leaks silently: once mutations that followed one another are    *)
(* over, a file that the row does not reference was preserved on purpose,  *)
(* because the outcome was ambiguous, the lease was lost or the process    *)
(* died.  (Of two that overlap one may overwrite the reference of the      *)
(* other without knowing of its file.)                                     *)
OrphansExcused ==
    ~Overlapped /\ (\A t \in Tasks : pc[t] = "idle" /\ tx[t] = "none")
        => files \subseteq Refs(row) \cup excused

(* Undoing a failed mutation never removes a file of the committed row,    *)
(* also when other mutations of the record run at the same time.  Only one *)
(* whose COMMIT had taken effect after all may, and only if more than two  *)
(* transactions overlapped: another one dropped its file before the        *)
(* references were read, and a third, which had read the row before, wrote *)
(* the name back.                                                          *)
UndoSparesReferenced ==
    [][\A t \in Tasks :
         pc[t] \in {"reconciled", "cancelled", "rolled_back"}
            /\ pc'[t] = "idle" /\ (tx[t] = "done" => overlaps <= 1)
         => (files \ files') \cap Refs(row) = {}]_vars
=============================================================================
