----------------------------- MODULE BackupSets -----------------------------
(***************************************************************************)
(* One backup set of LocalBackupStore (backup/storage.py) from its partial *)
(* directory to its seal and to its deletion.  A worker thread builds and  *)
(* seals it while the request that asked may be cancelled; another one     *)
(* deletes it.  Any call of the operating system may fail, an operator may *)
(* move the sets directory away, the machine may stop at any time.         *)
(*                                                                         *)
(* fs is what the processes see; disk holds the states a power loss may    *)
(* leave: the directory changes since the last fsync reach the disk in     *)
(* order, any number of them.  "work" and "set" stand for the identities   *)
(* of the partial and of the published directory, "empty" for the          *)
(* placeholder of a tombstone.                                             *)
(***************************************************************************)
EXTENDS Integers

CONSTANT MaxFaults   \* bound: failing calls, moves of the directory, power losses

VARIABLES fs, disk, attached, faults,
          build,     \* the thread that builds: where it is, its BackupSealGate
          asked,     \* the request that waits for it
          del,       \* the thread that deletes: where it is
          told       \* history: what the last request of each kind was told

vars == <<fs, disk, attached, faults, build, asked, del, told>>

Entries == {"partial", "final", "pending", "deleting", "uncertain"}
Resources == {"database", "files", "secret"}
Whole == Resources \cup {"manifest"}

NoFiles == [name |-> [n \in Entries |-> "none"], work |-> {}, set |-> {}]

TypeOK ==
    /\ fs \in [name : [Entries -> {"none", "work", "set", "empty"}],
               work : SUBSET Whole, set : SUBSET (Whole \cup {"seal"})]
    /\ fs \in disk
    /\ faults \in 0..MaxFaults
    /\ del \in {"idle", "placed", "renamed", "failing", "undone", "committed", "promoted"}
    \* No two names for one directory.
    /\ \A f \in disk : \A m, n \in Entries : f.name[m] = f.name[n] /\ m # n => f.name[m] \in {"none", "empty"}

Init ==
    /\ fs = NoFiles /\ disk = {NoFiles} /\ attached = TRUE /\ faults = 0
    /\ build = [at |-> "idle", seen |-> {}, cancelled |-> FALSE, committed |-> FALSE]
    /\ asked = "idle"
    /\ del = "idle"
    /\ told = [create |-> "nothing", delete |-> "nothing"]

Change(f) == fs' = f /\ disk' = disk \cup {f}
ChangeAndSync(f) == fs' = f /\ disk' = {f}
Sync == ChangeAndSync(fs)
Fault == faults < MaxFaults /\ faults' = faults + 1
Rename(f, a, b) == [f EXCEPT !.name[a] = "none", !.name[b] = f.name[a]]
At(p) == build.at = p
GoTo(p) == build' = [build EXCEPT !.at = p]

----------------------------------------------------------------------------
\* Building.  Every file is written with fsync before its directory entry counts.

begin_set ==
    /\ At("idle") /\ asked = "idle"
    /\ fs = NoFiles /\ disk = {NoFiles}
    /\ ChangeAndSync([fs EXCEPT !.name["partial"] = "work"])
    /\ build' = [at |-> "building", seen |-> {}, cancelled |-> FALSE, committed |-> FALSE]
    /\ asked' = "waiting"
    /\ told' = [create |-> "nothing", delete |-> "nothing"]
    /\ UNCHANGED <<attached, faults, del>>

WriteResource(r) ==
    /\ At("building") /\ r \notin fs.work
    /\ ChangeAndSync([fs EXCEPT !.work = @ \cup {r}])
    /\ UNCHANGED <<attached, faults, build, asked, del, told>>

\* create_database_directory and the native export.
create_database_directory == WriteResource("database")
copy_storage == "database" \in fs.work /\ WriteResource("files")
\* copy_jwt_secret and write_jwt_secret.
copy_jwt_secret == "files" \in fs.work /\ WriteResource("secret")

prepare ==
    /\ At("building") /\ Resources \subseteq fs.work
    /\ Sync
    /\ build' = [build EXCEPT !.at = "prepared", !.seen = fs.work]
    /\ UNCHANGED <<attached, faults, asked, del, told>>

\* abort, for a failure or a cancellation before the set is handed to finalize_set.
abort ==
    /\ At("building") \/ At("prepared")
    /\ Fault
    /\ \/ ChangeAndSync([fs EXCEPT !.name["partial"] = "none", !.work = {}])
       \/ UNCHANGED <<fs, disk>>
    /\ GoTo("idle") /\ asked' = "idle" /\ told' = [told EXCEPT !.create = "failed"]
    /\ UNCHANGED <<attached, del>>

\* finalize_set and finalize_imported_set: the resources are hashed again,
\* then the manifest is written.
finalize_set ==
    /\ At("prepared") /\ fs.work = build.seen
    /\ ChangeAndSync([fs EXCEPT !.work = @ \cup {"manifest"}])
    /\ GoTo("manifest")
    /\ UNCHANGED <<attached, faults, asked, del, told>>

_publish_unsealed ==
    /\ \/ /\ At("manifest") /\ fs.name["final"] = "none"
          /\ ChangeAndSync([fs EXCEPT !.name["final"] = "set"])
          /\ GoTo("opened")
       \/ /\ At("opened") /\ "manifest" \in fs.work
          /\ Change([fs EXCEPT !.work = @ \ {"manifest"}, !.set = @ \cup {"manifest"}])
          /\ UNCHANGED build
       \/ /\ At("opened") /\ "manifest" \notin fs.work /\ fs.work # {}
          /\ Change([fs EXCEPT !.work = {}, !.set = @ \cup fs.work])
          /\ UNCHANGED build
       \/ /\ At("opened") /\ fs.work = {}
          /\ ChangeAndSync([fs EXCEPT !.name["partial"] = "none"])
          /\ GoTo("unsealed")
    /\ UNCHANGED <<attached, faults, asked, del, told>>

\* _inspect_set_path: the manifest and the hashes of everything it names.
_inspect_set_path(content) == Whole \subseteq content

\* Mutant: the seal is published without asking the gate.
SealUngated ==
    /\ \/ /\ At("unsealed") /\ _inspect_set_path(fs.set)
          /\ Change([fs EXCEPT !.set = @ \cup {"seal"}]) /\ GoTo("linked")
       \/ /\ At("linked")
          /\ Sync /\ build' = [build EXCEPT !.at = "sealed", !.committed = TRUE]
    /\ UNCHANGED <<attached, faults, asked, del, told>>

\* BackupSealGate.publish around _publish_seal; between the link and the end
\* of the callback the gate's lock is held.
_publish_seal ==
    /\ \/ /\ At("unsealed") /\ _inspect_set_path(fs.set) /\ ~build.cancelled
          /\ Change([fs EXCEPT !.set = @ \cup {"seal"}])
          /\ GoTo("linked")
       \/ /\ At("linked")
          /\ Sync
          /\ build' = [build EXCEPT !.at = "sealed", !.committed = TRUE]
    /\ UNCHANGED <<attached, faults, asked, del, told>>

\* finalize_set's handler: the gate was cancelled, the lease guard refused or a
\* call failed; both directories are removed, or one of them stays behind.
FinalizeFails ==
    /\ build.at \in {"prepared", "manifest", "opened", "unsealed", "linked"}
    /\ \/ /\ At("unsealed") /\ build.cancelled
          /\ ChangeAndSync(NoFiles) /\ GoTo("stopped") /\ UNCHANGED faults
       \/ /\ Fault /\ GoTo("failed")
          /\ \/ ChangeAndSync(NoFiles)
             \/ Change([fs EXCEPT !.name["partial"] = "none", !.work = {}])
             \/ UNCHANGED <<fs, disk>>
    /\ UNCHANGED <<attached, asked, del, told>>

\* _finalize_backup_atomically: the request is cancelled; the gate says
\* whether the seal can still be prevented (its lock is free, or it waits).
CancelFinalize ==
    /\ asked = "waiting" /\ build.at \notin {"idle", "building", "linked"}
    /\ IF build.committed THEN asked' = "late" /\ UNCHANGED build
                          ELSE asked' = "prevented" /\ build' = [build EXCEPT !.cancelled = TRUE]
    /\ UNCHANGED <<fs, disk, attached, faults, del, told>>

\* The request learns what the worker did.
_finalize_backup_atomically ==
    /\ asked # "idle" /\ build.at \in {"sealed", "stopped", "failed"}
    /\ told' = [told EXCEPT !.create = IF At("failed") THEN "failed"
                                       ELSE IF asked = "prevented" THEN "cancelled" ELSE "sealed"]
    /\ asked' = "idle" /\ GoTo("idle")
    /\ UNCHANGED <<fs, disk, attached, faults, del>>

----------------------------------------------------------------------------
\* Deleting.

Tombstones == {"pending", "deleting", "uncertain"}
Tombstone == CHOOSE n \in Tombstones : fs.name[n] = "set"
Detached == \E n \in Tombstones : fs.name[n] = "set"
Tell(d) == told' = [told EXCEPT !.delete = d]

\* _reconcile_deleting_sets runs before a deletion and a listing.
_reconcile_deleting_sets ==
    /\ attached /\ del = "idle" /\ fs.name["deleting"] = "set"
    /\ \/ ChangeAndSync([fs EXCEPT !.name["deleting"] = "none", !.set = {}])
       \/ fs.set # {} /\ Change([fs EXCEPT !.set = {}])
    /\ UNCHANGED <<attached, faults, build, asked, del, told>>

\* _has_seal and the checks of delete_set.
_has_seal == fs.name["final"] = "set" /\ "seal" \in fs.set

delete_set ==
    /\ del = "idle" /\ attached /\ _has_seal /\ At("idle")
    /\ fs.name["deleting"] = "none"
    /\ ChangeAndSync([fs EXCEPT !.name["pending"] = "empty"])
    /\ del' = "placed" /\ Tell("unknown")
    /\ UNCHANGED <<attached, faults, build, asked>>

\* BackupDeleteGate was cancelled, the guard refused, the directory was moved
\* or the rename failed; the placeholder is removed.
RefuseDelete ==
    /\ del = "placed"
    /\ \/ ~attached /\ UNCHANGED faults
       \/ Fault
    /\ \/ ChangeAndSync([fs EXCEPT !.name["pending"] = "none"])
       \/ faults' # faults /\ UNCHANGED <<fs, disk>>
    /\ del' = "idle" /\ Tell("refused")
    /\ UNCHANGED <<attached, build, asked>>

detach ==
    /\ del = "placed" /\ attached
    /\ Change(Rename(fs, "final", "pending"))
    /\ del' = "renamed"
    /\ UNCHANGED <<attached, faults, build, asked, told>>

\* A tombstone that nobody may reclaim.  The rename or its fsync may fail:
\* the history tells that answer ("unsecured") from the others.
preserve_uncertain_detach(from) ==
    \/ ChangeAndSync(Rename(fs, from, "uncertain")) /\ Tell("uncertain") /\ UNCHANGED faults
    \/ Fault /\ Change(Rename(fs, from, "uncertain")) /\ Tell("unsecured")
    \/ Fault /\ UNCHANGED <<fs, disk>> /\ Tell("unsecured")

DetachSynced ==
    /\ del = "renamed"
    /\ \/ /\ attached /\ Sync
          /\ del' = "committed" /\ UNCHANGED <<faults, told>>
       \/ /\ attached /\ Fault                     \* the fsync failed
          /\ del' = "failing" /\ UNCHANGED <<fs, disk, told>>
       \/ /\ ~attached /\ preserve_uncertain_detach(Tombstone)
          /\ del' = "idle"
    /\ UNCHANGED <<attached, build, asked>>

\* The rename back, which may fail as well.
RestoreDetached ==
    /\ del = "failing"
    /\ \/ Change(Rename(fs, "pending", "final")) /\ UNCHANGED faults
       \/ Fault /\ UNCHANGED <<fs, disk>>
    /\ del' = "undone"
    /\ UNCHANGED <<attached, build, asked, told>>

\* durable_state_after_failed_detach and what follows from it.
durable_state_after_failed_detach ==
    /\ del = "undone"
    /\ \/ /\ attached /\ Sync /\ UNCHANGED faults
          /\ IF fs.name["final"] = "set"
             THEN del' = "idle" /\ Tell("refused")
             ELSE del' = "committed" /\ UNCHANGED told
       \/ /\ ~attached                            \* quarantine_restored_detach
          /\ IF fs.name["final"] = "set"
             THEN preserve_uncertain_detach("final")
             ELSE Sync /\ Tell("unsecured") /\ UNCHANGED faults
          /\ del' = "idle"
       \/ /\ attached /\ Fault                    \* the fsync failed again
          /\ IF Detached THEN Change(Rename(fs, Tombstone, "uncertain"))
                         ELSE UNCHANGED <<fs, disk>>
          /\ del' = "idle" /\ Tell("unsecured")
    /\ UNCHANGED <<attached, build, asked>>

\* The rename to .deleting- and its fsync are best effort: the deletion is
\* already on disk.
promote_committed_tombstone ==
    /\ del = "committed"
    /\ \/ ChangeAndSync(Rename(fs, "pending", "deleting")) /\ UNCHANGED faults
       \/ Fault /\ Change(Rename(fs, "pending", "deleting"))
       \/ Fault /\ UNCHANGED <<fs, disk>>
    /\ del' = "promoted"
    /\ UNCHANGED <<attached, build, asked, told>>

\* require_committed_sets_attached.
LostAfterCommit ==
    /\ del = "promoted" /\ ~attached
    /\ preserve_uncertain_detach(Tombstone)
    /\ del' = "idle"
    /\ UNCHANGED <<attached, build, asked>>

\* The contents go before the directory; a failure leaves the rest to
\* _reconcile_deleting_sets and is not reported.
_remove_owned_directory_at ==
    /\ del = "promoted" /\ attached
    /\ \/ ChangeAndSync([fs EXCEPT !.name[Tombstone] = "none", !.set = {}]) /\ UNCHANGED faults
       \/ Fault /\ Change([fs EXCEPT !.set = {}])
       \/ Fault /\ UNCHANGED <<fs, disk>>
    /\ del' = "idle" /\ Tell("deleted")
    /\ UNCHANGED <<attached, build, asked>>

----------------------------------------------------------------------------
\* The operator moves the sets directory away and back.
MoveAway == Fault /\ attached /\ attached' = FALSE /\ UNCHANGED <<fs, disk, build, asked, del, told>>
MoveBack == ~attached /\ attached' = TRUE /\ UNCHANGED <<fs, disk, faults, build, asked, del, told>>

PowerLoss ==
    /\ Fault
    /\ \E f \in disk : fs' = f /\ disk' = {f}
    /\ build' = [build EXCEPT !.at = "idle", !.cancelled = FALSE, !.committed = FALSE]
    /\ asked' = "idle" /\ del' = "idle"
    /\ UNCHANGED <<attached, told>>

Next ==
    \/ begin_set \/ create_database_directory \/ copy_storage \/ copy_jwt_secret \/ prepare \/ abort
    \/ finalize_set \/ _publish_unsealed \/ _publish_seal \/ FinalizeFails
    \/ CancelFinalize \/ _finalize_backup_atomically
    \/ _reconcile_deleting_sets \/ delete_set \/ RefuseDelete \/ detach \/ DetachSynced
    \/ RestoreDetached \/ durable_state_after_failed_detach
    \/ promote_committed_tombstone \/ LostAfterCommit \/ _remove_owned_directory_at
    \/ MoveAway \/ MoveBack \/ PowerLoss

Spec == Init /\ [][Next]_vars

----------------------------------------------------------------------------
Visible(f) == f.name["final"] = "set" /\ "seal" \in f.set

\* What list_sets and inspect_set may find at any time, a power loss included:
\* a seal is in a directory that has its manifest and every resource.
SealedIsWhole == \A f \in disk : Visible(f) => Whole \subseteq f.set

\* The gate of _finalize_backup_atomically: a request that was told its backup
\* is sealed finds it after any power loss, until somebody deletes it; one
\* that was told it is cancelled finds nothing of it, now or later.
CancelledXorSealed ==
    /\ told.create = "sealed" /\ told.delete = "nothing" =>
          \A f \in disk : Visible(f)
    /\ told.create = "cancelled" => \A f \in disk : ~Visible(f)

\* The three answers of delete_set: gone for good, still there for good, or
\* kept for the operator with everything in it.
DeletionIsAsTold ==
    /\ told.delete = "deleted" => \A f \in disk : ~Visible(f)
    /\ told.delete = "refused" => \A f \in disk : Visible(f)
    /\ told.delete = "uncertain" => \A f \in disk : Whole \subseteq f.set
=============================================================================
