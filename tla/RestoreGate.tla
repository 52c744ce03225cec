---------------------------- MODULE RestoreGate ----------------------------
(***************************************************************************)
(* Who may run a destructive restore, and what keeps everyone else out     *)
(* while it runs: the maintenance flag and the two endpoints of            *)
(* api/backups.py, the directory lease of backup/operations.py, the        *)
(* cutover guard of backup/service.py and the single-flight restart slot   *)
(* of services/process_control.py.                                         *)
(*                                                                         *)
(* The handlers run on one event loop: what lies between two awaits is one *)
(* action.  The restart worker is a thread of its own; every access to the *)
(* slot is under its lock.  What the restore does to database and files is *)
(* the subject of DestructiveRestore; here a cutover is one phase with its *)
(* possible ends.                                                          *)
(***************************************************************************)
EXTENDS Integers

CONSTANTS
    Direct,     \* requests to /restore-destructive
    Sdk,        \* requests to /restore, run as an app-owned task
    Nobody,     \* no holder
    Other,      \* another process on the same data directory
    Hooks       \* the restart controls of the hooks dashboard and watcher

Requests == Direct \cup Sdk

ASSUME RequestsAssumption ==
    /\ Direct \cap Sdk = {}
    /\ {Nobody, Other, Hooks} \cap Requests = {}
    /\ Nobody # Other /\ Nobody # Hooks

VARIABLES
    pc,           \* where each restore request stands
    maintenance,  \* app.state.backup_maintenance
    lease,        \* holder of the flock on data_dir
    fenced,       \* requests whose retained barrier holds the process fence
    lost,         \* those whose PostgreSQL session died
    scheduled,    \* _restart_scheduled
    reservation,  \* _restart_reservation
    worker,       \* for whom the restart thread runs
    task,         \* _AppOwnedBackupRestoreCoordinator._task
    closing,      \* _AppOwnedBackupRestoreCoordinator._closing
    journal       \* the destructive restore journal exists

barrier == <<fenced, lost>>
slot == <<scheduled, reservation, worker>>
coordinator == <<task, closing>>
vars == <<pc, maintenance, lease, barrier, slot, coordinator, journal>>

(* The restore is running in the service; its outcome is not settled. *)
Running == {"running", "acquiring", "guarded", "cutover", "closing"}

(* The request is over, the guard stays: the restart was scheduled, could  *)
(* not be carried out, or the outcome of the cutover is unknown.           *)
Retained == {"scheduled", "stuck", "unknown"}

TypeOK ==
    /\ pc \in [Requests -> {"idle", "admitted", "resolving", "spawned"}
                               \cup Running \cup Retained]
    /\ maintenance \in BOOLEAN
    /\ lease \in Requests \cup {Nobody, Other}
    /\ fenced \subseteq Requests
    /\ lost \subseteq fenced
    /\ scheduled \in BOOLEAN
    /\ reservation \in Requests \cup {Nobody}
    /\ worker \in Requests \cup {Nobody, Hooks}
    /\ task \in Sdk \cup {Nobody}
    /\ closing \in BOOLEAN
    /\ journal \in BOOLEAN

Init ==
    /\ pc = [r \in Requests |-> "idle"]
    /\ maintenance = FALSE
    /\ lease = Nobody
    /\ fenced = {} /\ lost = {}
    /\ scheduled = FALSE /\ reservation = Nobody /\ worker = Nobody
    /\ task = Nobody /\ closing = FALSE
    /\ journal = FALSE

GoTo(r, where) == pc' = [pc EXCEPT ![r] = where]

-----------------------------------------------------------------------------
(* The endpoints. *)

(* The middleware lets a POST pass; the handler runs later, after the      *)
(* request's dependencies.                                                 *)
_backup_restore_maintenance(r) ==
    /\ pc[r] = "idle" /\ ~maintenance
    /\ GoTo(r, "admitted")
    /\ UNCHANGED <<maintenance, lease, barrier, slot, coordinator, journal>>

(* The direct handler raises the flag and then takes the lease ... *)
DirectStart(r) ==
    /\ r \in Direct /\ pc[r] = "admitted" /\ lease = Nobody
    /\ GoTo(r, "running")
    /\ maintenance' = TRUE
    /\ lease' = r
    /\ UNCHANGED <<barrier, slot, coordinator, journal>>

(* ... or the lease is busy or unsafe, and the handler lowers the flag it  *)
(* raised unless the process is fenced.                                    *)
DirectRefused(r) ==
    /\ r \in Direct /\ pc[r] = "admitted"
    /\ GoTo(r, "idle")
    /\ maintenance' = (fenced # {})
    /\ UNCHANGED <<lease, barrier, slot, coordinator, journal>>

(* Holding the coordinator's lock, start() resolves the backup's name. *)
Unlocked == \A r \in Requests : pc[r] # "resolving"

SdkStart(r) ==
    /\ r \in Sdk /\ pc[r] = "admitted" /\ Unlocked
    /\ ~closing /\ task = Nobody /\ lease = Nobody
    /\ GoTo(r, "resolving")
    /\ lease' = r
    /\ UNCHANGED <<maintenance, barrier, slot, coordinator, journal>>

(* Stopping, another task active, the lease busy or unsafe. *)
SdkRefused(r) ==
    /\ r \in Sdk /\ pc[r] = "admitted" /\ Unlocked
    /\ GoTo(r, "idle")
    /\ UNCHANGED <<maintenance, lease, barrier, slot, coordinator, journal>>

(* The lease of a request that does not start. *)
Unstarted(r) ==
    /\ GoTo(r, "idle")
    /\ lease' = Nobody
    /\ task' = IF task = r THEN Nobody ELSE task
    /\ UNCHANGED <<maintenance, barrier, slot, closing, journal>>

SdkUnresolved(r) == pc[r] = "resolving" /\ Unstarted(r)

(* The task is created; the request has been answered. *)
SdkSpawn(r) ==
    /\ pc[r] = "resolving"
    /\ GoTo(r, "spawned")
    /\ task' = r
    /\ UNCHANGED <<maintenance, lease, barrier, slot, closing, journal>>

SdkRun(r) ==
    /\ pc[r] = "spawned"
    /\ GoTo(r, "running")
    /\ maintenance' = TRUE
    /\ UNCHANGED <<lease, barrier, slot, coordinator, journal>>

(* The application stops: later starts are refused, the task is cancelled. *)
CoordinatorClose ==
    /\ Unlocked
    /\ closing' = TRUE
    /\ UNCHANGED <<pc, maintenance, lease, barrier, slot, task, journal>>

CancelUnstarted(r) == pc[r] = "spawned" /\ closing /\ Unstarted(r)

-----------------------------------------------------------------------------
(* The service, up to the cutover. *)

(* Mutant: the flag of a restore that failed stays up. *)
EndMaintained(r) ==
    /\ lease' = Nobody
    /\ task' = IF task = r THEN Nobody ELSE task
    /\ UNCHANGED <<maintenance, closing>>

(* The finally clause of a request whose lease was not handed over. *)
End(r) ==
    /\ lease' = Nobody
    /\ maintenance' = (maintenance /\ fenced' # {})
    /\ task' = IF task = r THEN Nobody ELSE task
    /\ UNCHANGED closing

(* A refusal or a cancellation before the barrier is held. *)
RestoreRefused(r) ==
    /\ pc[r] \in {"running", "acquiring"}
    /\ GoTo(r, "idle")
    /\ UNCHANGED <<barrier, slot, journal>>
    /\ End(r)

(* An interrupted restore must be recovered first; a pending restart wins. *)
CheckRestart(r) ==
    /\ pc[r] = "running"
    /\ ~journal /\ ~scheduled
    /\ GoTo(r, "acquiring")
    /\ UNCHANGED <<maintenance, lease, barrier, slot, coordinator, journal>>

(* Mutant: the reservation is not checked. *)
ReserveAlways(r) ==
    /\ scheduled' = TRUE
    /\ reservation' = r
    /\ GoTo(r, "guarded")
    /\ UNCHANGED worker

(* reserve_process_restart; without a slot the barrier is closed again. *)
reserve_process_restart(r) ==
    /\ \/ /\ ~scheduled
          /\ scheduled' = TRUE
          /\ reservation' = r
          /\ GoTo(r, "guarded")
       \/ /\ scheduled
          /\ GoTo(r, "closing")
          /\ UNCHANGED <<scheduled, reservation>>
    /\ UNCHANGED worker

(* The exclusive barrier is granted once no other guard's session holds it. *)
AcquireBarrier(r) ==
    /\ pc[r] = "acquiring" /\ fenced \subseteq lost
    /\ fenced' = fenced \cup {r}
    /\ reserve_process_restart(r)
    /\ UNCHANGED <<maintenance, lease, lost, coordinator, journal>>

(* The session of a retained barrier dies; nobody notices until the next   *)
(* verification.                                                           *)
BarrierLost(r) ==
    /\ r \in fenced
    /\ lost' = lost \cup {r}
    /\ UNCHANGED <<pc, maintenance, lease, fenced, slot, coordinator, journal>>

(* The guard is verified and the swap begins. *)
BeginCutover(r) ==
    /\ pc[r] = "guarded" /\ r \notin lost
    /\ GoTo(r, "cutover")
    /\ journal' = TRUE
    /\ UNCHANGED <<maintenance, lease, barrier, slot, coordinator>>

GuardedFails(r) ==
    /\ pc[r] = "guarded"
    /\ GoTo(r, "closing")
    /\ UNCHANGED <<maintenance, lease, barrier, slot, coordinator, journal>>

-----------------------------------------------------------------------------
(* The ends of a cutover. *)

(* Swap or commit failed and the files were rolled back. *)
RolledBack(r) ==
    /\ pc[r] = "cutover"
    /\ GoTo(r, "closing")
    /\ journal' = FALSE
    /\ UNCHANGED <<maintenance, lease, barrier, slot, coordinator>>

(* Mutant: the guard goes without its reservation. *)
ReleaseNothing(r) == UNCHANGED slot

(* ProcessRestartReservation.release: a slot that was not consumed. *)
ReleaseReservation(r) ==
    /\ scheduled' = IF reservation = r THEN FALSE ELSE scheduled
    /\ reservation' = IF reservation = r THEN Nobody ELSE reservation
    /\ UNCHANGED worker

(* BackupCutoverGuard.close and the end of the request. *)
CloseGuard(r) ==
    /\ pc[r] = "closing"
    /\ GoTo(r, "idle")
    /\ fenced' = fenced \ {r}
    /\ lost' = lost \ {r}
    /\ ReleaseReservation(r)
    /\ End(r)
    /\ UNCHANGED journal

(* Mutant: an unknown outcome is treated like a rollback. *)
UnknownClosed(r) ==
    /\ pc[r] = "cutover"
    /\ GoTo(r, "idle")
    /\ fenced' = fenced \ {r}
    /\ lost' = lost \ {r}
    /\ ReleaseReservation(r)
    /\ End(r)
    /\ UNCHANGED journal

(* The marker could not be read, the rollback failed or the committed      *)
(* restore did not validate: cutover_must_remain keeps guard and journal.  *)
OutcomeUnknown(r) ==
    /\ pc[r] = "cutover"
    /\ GoTo(r, "unknown")
    /\ UNCHANGED <<barrier, slot, journal>>
    /\ End(r)

(* Mutant: the lease is not handed over to the guard. *)
ScheduleUnleased(r) ==
    /\ pc[r] = "cutover" /\ reservation = r
    /\ GoTo(r, "scheduled")
    /\ worker' = r
    /\ reservation' = Nobody
    /\ UNCHANGED <<barrier, scheduled, journal>>
    /\ End(r)

(* Committed: the guard takes the lease over, the reservation is claimed   *)
(* and passes to the restart thread ...                                    *)
_schedule_destructive_restore(r) ==
    /\ pc[r] = "cutover" /\ reservation = r
    /\ GoTo(r, "scheduled")
    /\ worker' = r
    /\ reservation' = Nobody
    /\ task' = IF task = r THEN Nobody ELSE task
    /\ UNCHANGED <<maintenance, lease, barrier, scheduled, closing, journal>>

(* ... or no thread can be started, and an operator has to restart PPBase. *)
RestartRejected(r) ==
    /\ pc[r] = "cutover"
    /\ GoTo(r, "stuck")
    /\ task' = IF task = r THEN Nobody ELSE task
    /\ UNCHANGED <<maintenance, lease, barrier, slot, closing, journal>>

-----------------------------------------------------------------------------
(* Restarts. *)

(* Hooks dashboard, hook reload and file watcher. *)
schedule_process_restart ==
    /\ ~scheduled
    /\ scheduled' = TRUE
    /\ worker' = Hooks
    /\ UNCHANGED <<pc, maintenance, lease, barrier, reservation, coordinator,
                   journal>>

(* exec failed: the slot is free again. *)
_clear_restart_scheduled ==
    /\ worker = Hooks
    /\ worker' = Nobody
    /\ scheduled' = FALSE
    /\ reservation' = Nobody
    /\ UNCHANGED <<pc, maintenance, lease, barrier, coordinator, journal>>

(* The guard cannot be verified, or exec fails: the failure handler raises *)
(* and everything stays closed.                                            *)
RestartFailsClosed(r) ==
    /\ worker = r /\ r \in Requests
    /\ worker' = Nobody
    /\ GoTo(r, "stuck")
    /\ UNCHANGED <<maintenance, lease, barrier, scheduled, reservation,
                   coordinator, journal>>

(* A new process image; its startup recovery settles the journal. *)
Replaced ==
    /\ pc' = [r \in Requests |-> "idle"]
    /\ maintenance' = FALSE
    /\ lease' = IF lease \in Requests THEN Nobody ELSE lease
    /\ fenced' = {} /\ lost' = {}
    /\ scheduled' = FALSE /\ reservation' = Nobody /\ worker' = Nobody
    /\ task' = Nobody /\ closing' = FALSE
    /\ journal' = FALSE

_restart_worker == worker # Nobody /\ worker \notin lost /\ Replaced

(* The process ends: a crash, a shutdown or an operator. *)
ProcessEnds == Replaced

(* Another process runs backup operations under the same lease. *)
OtherAcquires ==
    /\ lease = Nobody /\ lease' = Other
    /\ UNCHANGED <<pc, maintenance, barrier, slot, coordinator, journal>>

OtherReleases ==
    /\ lease = Other /\ lease' = Nobody
    /\ UNCHANGED <<pc, maintenance, barrier, slot, coordinator, journal>>

-----------------------------------------------------------------------------
RequestNext(r) ==
    \/ _backup_restore_maintenance(r)
    \/ DirectStart(r) \/ DirectRefused(r)
    \/ SdkStart(r) \/ SdkRefused(r) \/ SdkUnresolved(r) \/ SdkSpawn(r)
    \/ SdkRun(r) \/ CancelUnstarted(r)
    \/ RestoreRefused(r) \/ CheckRestart(r) \/ AcquireBarrier(r)
    \/ BarrierLost(r) \/ BeginCutover(r) \/ GuardedFails(r)
    \/ RolledBack(r) \/ CloseGuard(r) \/ OutcomeUnknown(r)
    \/ _schedule_destructive_restore(r) \/ RestartRejected(r)
    \/ RestartFailsClosed(r)

Next ==
    \/ \E r \in Requests : RequestNext(r)
    \/ CoordinatorClose
    \/ schedule_process_restart \/ _clear_restart_scheduled \/ _restart_worker
    \/ ProcessEnds
    \/ OtherAcquires \/ OtherReleases

Spec == Init /\ [][Next]_vars

-----------------------------------------------------------------------------
(* No restart thread, of the hooks controls or of an earlier restore, can  *)
(* replace the process while files and database are being exchanged.       *)
CutoverOwnsRestart ==
    worker # Nobody => \A r \in Requests : pc[r] \notin {"guarded", "cutover"}

(* The restart slot never leaks: while it is taken, a thread is on its way *)
(* to exec or a guard that still exists holds it, whatever failed before.  *)
SlotHasOwner ==
    scheduled => \/ worker # Nobody
                 \/ \E r \in fenced : pc[r] \in Running \cup Retained

(* The maintenance flag never leaks: it is up only while a restore runs or *)
(* its guard remains.                                                      *)
FlagHasReason ==
    maintenance => fenced # {} \/ \E r \in Requests : pc[r] \in Running

(* As long as the process lives with an unresolved journal, mutations are  *)
(* fenced off and no other restart can be scheduled.                       *)
JournalFenced == journal => fenced # {} /\ scheduled

(* From the commit to the exec no other backup operation gets the lease.   *)
CommittedKeepsLease ==
    \A r \in Requests : pc[r] \in {"scheduled", "stuck"} => lease = r
=============================================================================
