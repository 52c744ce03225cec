--------------------------- MODULE BackupArchives ---------------------------
(***************************************************************************)
(* The ZIP archives of the backups directory and everything that adds,     *)
(* reads or removes one: the requests of NativeBackupService, the upload   *)
(* and download handlers, and the automatic backups of every instance      *)
(* (backup/service.py, operations.py, archive_store.py, automation.py,     *)
(* api/backups.py).  Leases are flocks, so they end with their process.    *)
(*                                                                         *)
(* A file is numbered in the order its content was written, which is the   *)
(* order of its modification time.  disk holds the directory states that a *)
(* power loss may leave, as in BackupSets.                                 *)
(***************************************************************************)
EXTENDS Integers, FiniteSets

CONSTANTS Names,       \* file names that people choose
          Requests,
          Instances,   \* servers that run the scheduler on one data directory
          MaxKeep,     \* cronMaxKeep
          MaxFiles,    \* bound: archives written
          MaxMinute,   \* bound: minutes that pass
          MaxFaults,   \* bound: failing calls, crashes, power losses
          Idle

VARIABLES dir,       \* the entries of the directory: archives and their .attrs
          disk, req, sched,
          clock,     \* the minute
          written,   \* files written so far
          listed,    \* history: files that were visible at some time
          told,      \* history: archives whose creation was acknowledged
          removed,   \* history: archives that a request deleted
          pruned,    \* history: archives that a scheduler deleted
          faults

vars == <<dir, disk, req, sched, clock, written, listed, told, removed, pruned, faults>>

Minutes == 0..MaxMinute
\* automatic_backup_filename: one name per minute.
automatic_backup_filename(m) == <<"@auto", m>>
AutomaticKeys == {automatic_backup_filename(m) : m \in Minutes}
Keys == {<<"name", n>> : n \in Names} \cup AutomaticKeys
Files == 1..MaxFiles
NoFile == 0
Actors == Requests \cup Instances

\* What a request or a scheduler is doing, with the lease it holds for it.
Job == [op : {"create", "delete", "read"},
        at : {"building", "staged", "linked", "attrs", "synced", "leased", "unlinked", "named", "pinned"},
        key : Keys, file : Files \cup {NoFile}]
Schedule == [last : Minutes \cup {-1}, minute : Minutes, at : {"idle", "creating", "pruning"},
             victims : SUBSET AutomaticKeys]
Directory == [zip : [Keys -> Files \cup {NoFile}], attrs : [Keys -> Files \cup {NoFile}]]

TypeOK ==
    /\ dir \in disk /\ disk \subseteq Directory
    /\ req \in [Actors -> Job \cup {Idle}] /\ sched \in [Instances -> Schedule]
    /\ clock \in Minutes /\ written \in Files \cup {NoFile} /\ faults \in 0..MaxFaults
    /\ listed \subseteq Keys \X (1..written)
    /\ told \subseteq listed /\ removed \subseteq listed /\ pruned \subseteq listed

Init ==
    /\ dir = [zip |-> [k \in Keys |-> NoFile], attrs |-> [k \in Keys |-> NoFile]]
    /\ disk = {dir}
    /\ req = [a \in Actors |-> Idle]
    /\ sched = [i \in Instances |-> [last |-> -1, minute |-> 0, at |-> "idle", victims |-> {}]]
    /\ clock = 0 /\ written = 0 /\ listed = {} /\ told = {} /\ removed = {} /\ pruned = {} /\ faults = 0

Change(d) == dir' = d /\ disk' = disk \cup {d}
Sync == dir' = dir /\ disk' = {dir}
Fault == faults < MaxFaults /\ faults' = faults + 1
Doing(a, op, at) == req[a] # Idle /\ req[a].op = op /\ req[a].at = at
GoTo(a, at) == req' = [req EXCEPT ![a].at = at]
End(a) == req' = [req EXCEPT ![a] = Idle]

\* The flock on the data directory, and the one on the backups directory that
\* the leases of all archives share.
global_exclusive == \A a \in Actors : req[a] # Idle => req[a].op = "read"
backup_shared == \A a \in Actors : ~\E at \in {"leased", "unlinked"} : Doing(a, "delete", at)
backup_exclusive == \A a \in Actors : ~\E at \in {"leased", "pinned"} : Doing(a, "read", at)

exists(k) == dir.zip[k] # NoFile

----------------------------------------------------------------------------
\* create_local_backup: lease and name check; the write barrier, the sealing
\* (BackupSets) and materialize_backup_zip follow before publish.
create_local_backup(a, k) ==
    /\ req[a] = Idle /\ global_exclusive /\ ~exists(k)
    /\ req' = [req EXCEPT ![a] = [op |-> "create", at |-> "building", key |-> k, file |-> NoFile]]

\* upload_local_backup: the handler takes the lease before it reads the body.
upload_local_backup ==
    /\ \E a \in Requests, n \in Names :
          LET k == <<"name", n>> IN
          /\ req[a] = Idle /\ global_exclusive
          /\ req' = [req EXCEPT ![a] = [op |-> "create", at |-> "building", key |-> k, file |-> NoFile]]
    /\ UNCHANGED <<dir, disk, sched, clock, written, listed, told, removed, pruned, faults>>

RequestBackup ==
    /\ \E a \in Requests, n \in Names : create_local_backup(a, <<"name", n>>)
    /\ UNCHANGED <<dir, disk, sched, clock, written, listed, told, removed, pruned, faults>>

\* Mutant: the archive is renamed over an existing name.
PublishReplaces ==
    /\ \E a \in Actors :
          LET k == req[a].key IN
          \/ /\ Doing(a, "create", "building") /\ written < MaxFiles
             /\ written' = written + 1
             /\ req' = [req EXCEPT ![a].at = "staged", ![a].file = written + 1]
             /\ UNCHANGED <<dir, disk, listed, told>>
          \/ /\ Doing(a, "create", "staged")
             /\ dir' = [dir EXCEPT !.zip[k] = req[a].file] /\ disk' = {dir'}
             /\ listed' = listed \cup {<<k, req[a].file>>}
             /\ End(a) /\ UNCHANGED <<told, written>>
    /\ UNCHANGED <<sched, clock, removed, pruned, faults>>

\* publish: check the name again, write a temporary file, link it to the name,
\* link its attributes, fsync, answer.  A link never replaces an entry.
publish ==
    /\ \E a \in Actors :
          LET k == req[a].key IN
          \/ /\ Doing(a, "create", "building") /\ ~exists(k) /\ written < MaxFiles
             /\ written' = written + 1
             /\ req' = [req EXCEPT ![a].at = "staged", ![a].file = written + 1]
             /\ UNCHANGED <<dir, disk, listed, told>>
          \/ /\ Doing(a, "create", "staged") /\ dir.zip[k] = NoFile
             /\ Change([dir EXCEPT !.zip[k] = req[a].file])
             /\ listed' = listed \cup {<<k, req[a].file>>}
             /\ GoTo(a, "linked") /\ UNCHANGED <<told, written>>
          \/ /\ Doing(a, "create", "linked") /\ dir.attrs[k] = NoFile
             /\ Change([dir EXCEPT !.attrs[k] = req[a].file])
             /\ GoTo(a, "attrs") /\ UNCHANGED <<listed, told, written>>
          \/ /\ Doing(a, "create", "attrs")
             /\ Sync
             /\ GoTo(a, "synced") /\ UNCHANGED <<listed, told, written>>
          \/ /\ Doing(a, "create", "synced")
             /\ told' = told \cup {<<k, req[a].file>>}
             /\ End(a) /\ UNCHANGED <<dir, disk, listed, written>>
    /\ UNCHANGED <<sched, clock, removed, pruned, faults>>

\* A failure of any step before the fsync: what this call linked is unlinked,
\* as far as the file system lets it.  Attributes that a crash left under the
\* same name are such a failure, every time.
PublishFails ==
    /\ \E a \in Actors :
          LET k == req[a].key IN
          /\ req[a] # Idle /\ req[a].op = "create" /\ req[a].at # "synced"
          /\ \/ Fault
             \/ /\ UNCHANGED faults
                /\ \/ req[a].at \in {"building", "staged"} /\ exists(k)
                   \/ req[a].at = "linked" /\ dir.attrs[k] # NoFile
          /\ \/ /\ req[a].at \in {"linked", "attrs"}
                /\ Change([zip |-> [dir.zip EXCEPT ![k] = NoFile],
                           attrs |-> IF req[a].at = "attrs" THEN [dir.attrs EXCEPT ![k] = NoFile] ELSE dir.attrs])
             \/ /\ req[a].at \in {"building", "staged"} \/ faults' # faults
                /\ UNCHANGED <<dir, disk>>
          /\ End(a)
    /\ UNCHANGED <<sched, clock, written, listed, told, removed, pruned>>

\* The lease guard after the publication refuses: the archive stays, nobody is told.
GuardRefuses ==
    /\ \E a \in Actors : Doing(a, "create", "synced") /\ End(a)
    /\ Fault
    /\ UNCHANGED <<dir, disk, sched, clock, written, listed, told, removed, pruned>>

----------------------------------------------------------------------------
\* Mutant: a deletion does not take the exclusive lease.
DeleteUnleased(a, k) ==
    /\ req[a] = Idle /\ global_exclusive /\ exists(k)
    /\ req' = [req EXCEPT ![a] = [op |-> "delete", at |-> "leased", key |-> k, file |-> dir.zip[k]]]

\* delete_local_backup: global lease, name, exclusive lease, two unlinks, fsync.
delete_local_backup(a, k) ==
    /\ req[a] = Idle /\ global_exclusive /\ exists(k)
    /\ backup_exclusive
    /\ req' = [req EXCEPT ![a] = [op |-> "delete", at |-> "leased", key |-> k, file |-> dir.zip[k]]]

RequestDelete ==
    /\ \E a \in Requests, k \in Keys : delete_local_backup(a, k)
    /\ UNCHANGED <<dir, disk, sched, clock, written, listed, told, removed, pruned, faults>>

\* BackupArchiveStore.delete.
delete ==
    /\ \E a \in Actors :
          LET k == req[a].key IN
          \/ /\ Doing(a, "delete", "leased") /\ dir.zip[k] = req[a].file
             /\ Change([dir EXCEPT !.zip[k] = NoFile])
             /\ IF a \in Requests
                THEN removed' = removed \cup {<<k, req[a].file>>} /\ UNCHANGED pruned
                ELSE pruned' = pruned \cup {<<k, req[a].file>>} /\ UNCHANGED removed
             /\ GoTo(a, "unlinked")
          \/ /\ Doing(a, "delete", "unlinked") /\ dir.attrs[k] # NoFile
             /\ Change([dir EXCEPT !.attrs[k] = NoFile])
             /\ UNCHANGED <<removed, pruned, req>>
          \/ /\ Doing(a, "delete", "unlinked") /\ dir.attrs[k] = NoFile
             /\ Sync /\ End(a) /\ UNCHANGED <<removed, pruned>>
    /\ UNCHANGED <<sched, clock, written, listed, told, faults>>

\* materialize_local_backup_zip: the name, the shared lease, the open file;
\* the lease goes with the response.
materialize_local_backup_zip ==
    /\ \E a \in Requests :
          \/ \E k \in Keys :
                /\ req[a] = Idle /\ exists(k)
                /\ req' = [req EXCEPT ![a] = [op |-> "read", at |-> "named", key |-> k, file |-> NoFile]]
          \/ Doing(a, "read", "named") /\ IF backup_shared THEN GoTo(a, "leased") ELSE End(a)
          \/ /\ Doing(a, "read", "leased")
             /\ IF exists(req[a].key)
                THEN req' = [req EXCEPT ![a].at = "pinned", ![a].file = dir.zip[req[a].key]]
                ELSE End(a)
          \/ Doing(a, "read", "pinned") /\ End(a)
    /\ UNCHANGED <<dir, disk, sched, clock, written, listed, told, removed, pruned, faults>>

----------------------------------------------------------------------------
\* Automatic backups.

Tick ==
    /\ clock < MaxMinute /\ clock' = clock + 1
    /\ UNCHANGED <<dir, disk, req, sched, written, listed, told, removed, pruned, faults>>

\* A due minute that this scheduler has not handled; a lease that is busy or a
\* name that is taken ends the attempt, and the minute counts as handled.
run_automatic_backup_scheduler ==
    /\ \E i \in Instances :
          /\ sched[i].at = "idle" /\ sched[i].last # clock
          /\ IF global_exclusive /\ ~exists(automatic_backup_filename(clock))
             THEN /\ create_local_backup(i, automatic_backup_filename(clock))
                  /\ sched' = [sched EXCEPT ![i].at = "creating", ![i].minute = clock]
             ELSE sched' = [sched EXCEPT ![i].last = clock] /\ UNCHANGED req
    /\ UNCHANGED <<dir, disk, clock, written, listed, told, removed, pruned, faults>>

Automatic == {k \in AutomaticKeys : exists(k)}

\* _prune_automatic_backups: all but the MaxKeep newest automatic archives of a
\* listing that no lease protects.
_prune_automatic_backups(i) ==
    IF MaxKeep = 0 THEN {}
    ELSE {k \in Automatic : Cardinality({l \in Automatic : dir.zip[l] > dir.zip[k]}) >= MaxKeep}

\* create_due_automatic_backup goes on when its own backup is done; a backup
\* that failed is not followed by pruning.
create_due_automatic_backup ==
    /\ \E i \in Instances :
          \/ /\ sched[i].at = "creating" /\ req[i] = Idle
             /\ \/ /\ \E f \in Files : <<automatic_backup_filename(sched[i].minute), f>> \in told
                   /\ sched' = [sched EXCEPT ![i].at = "pruning", ![i].victims = _prune_automatic_backups(i)]
                \/ sched' = [sched EXCEPT ![i].at = "idle", ![i].last = sched[i].minute]
             /\ UNCHANGED req
          \/ /\ sched[i].at = "pruning" /\ req[i] = Idle
             /\ \E k \in sched[i].victims :
                   /\ delete_local_backup(i, k) \/ UNCHANGED req
                   /\ sched' = [sched EXCEPT ![i].victims = @ \ {k}]
          \/ /\ sched[i].at = "pruning" /\ req[i] = Idle /\ sched[i].victims = {}
             /\ sched' = [sched EXCEPT ![i].at = "idle", ![i].last = sched[i].minute]
             /\ UNCHANGED req
    /\ UNCHANGED <<dir, disk, clock, written, listed, told, removed, pruned, faults>>

----------------------------------------------------------------------------
\* A process dies: its leases go, the directory stays as it is.
ProcessDies ==
    /\ \E a \in Actors :
          /\ req[a] # Idle /\ End(a)
          /\ sched' = [i \in Instances |-> IF i = a THEN [last |-> -1, minute |-> 0, at |-> "idle", victims |-> {}]
                                                    ELSE sched[i]]
    /\ Fault
    /\ UNCHANGED <<dir, disk, clock, written, listed, told, removed, pruned>>

PowerLoss ==
    /\ \E d \in disk : dir' = d /\ disk' = {d}
    /\ req' = [a \in Actors |-> Idle]
    /\ sched' = [i \in Instances |-> [last |-> -1, minute |-> 0, at |-> "idle", victims |-> {}]]
    /\ Fault
    /\ UNCHANGED <<clock, written, listed, told, removed, pruned>>

Next ==
    \/ RequestBackup \/ upload_local_backup \/ publish \/ PublishFails \/ GuardRefuses
    \/ RequestDelete \/ delete \/ materialize_local_backup_zip
    \/ Tick \/ run_automatic_backup_scheduler \/ create_due_automatic_backup
    \/ ProcessDies \/ PowerLoss

Spec == Init /\ [][Next]_vars

----------------------------------------------------------------------------
\* An archive whose creation was acknowledged survives every power loss until
\* a deletion unlinks it.
AcknowledgedIsKept ==
    \A x \in told \ (removed \cup pruned) : \A d \in disk : d.zip[x[1]] = x[2]

\* An acknowledged archive that is being downloaded keeps its name.
ReadersUndisturbed ==
    \A a \in Requests : Doing(a, "read", "pinned") /\ <<req[a].key, req[a].file>> \in told =>
        dir.zip[req[a].key] = req[a].file

\* The schedulers of all instances together never prune one of the MaxKeep
\* newest automatic archives, counting every one that was ever listed.
NewestAutomaticKept ==
    \A x \in pruned : Cardinality({y \in listed : y[1] \in AutomaticKeys /\ y[2] > x[2]}) >= MaxKeep

\* The archives that every power loss preserves.
Preserved ==
    [k \in Keys |-> IF \E f \in Files : \A d \in disk : d.zip[k] = f
                   THEN CHOOSE f \in Files : \A d \in disk : d.zip[k] = f
                   ELSE NoFile]

\* They behave as a catalog.
Catalog == INSTANCE BackupCatalog WITH catalog <- Preserved
CatalogSpec == Catalog!Spec
=============================================================================
