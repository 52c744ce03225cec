---------------------------- MODULE FileStorage ----------------------------
(* The files of one record: services/file_storage.py (local directories and
   S3 objects), api/files.py (serving, thumbnails made on demand) and the live
   switch between both backends by api/settings.py.

   Uploads and deletions run under the shared write barrier, so they overlap
   each other and the thumbnail writers; a switch takes it exclusively.  A task
   opens the record directory once and works through the descriptor, which may
   outlive the directory: fd is an inode number, dir.ino the one the name has. *)
EXTENDS Naturals, FiniteSets

CONSTANTS Tasks, Files, Idle,
          MaxDirs,   \* bound: directories made under the record's name
          MaxFaults  \* bound: failed calls, lost sessions, restarts

VARIABLES refs,       \* file names the committed row holds
          alive,      \* the row exists
          used,       \* names given out; a name is never given out twice
          dir,        \* the record directory, its files and thumbnail folders
          objects,    \* keys under the record's prefix in the bucket
          where,      \* history: the backend a file was written to
          durable,    \* the s3 section of the committed settings row
          overrides,  \* _runtime_storage_overrides
          held,       \* the barrier lease of a task
          task,
          stale,      \* history: files whose deletion a thumbnail may have survived
          unreconciled, \* history: a reconciliation failed
          faults

vars == <<refs, alive, used, dir, objects, where, durable, overrides, held, task,
          stale, unreconciled, faults>>
row == <<refs, alive>>
store == <<used, dir, objects, where>>
settings == <<durable, overrides, unreconciled>>

Payloads == [enabled : BOOLEAN, credentials : BOOLEAN]
Jobs == [op : {"upload", "remove", "wipe", "serve", "thumb", "switch"},
         at : {"open", "put", "write", "commit", "undo", "objects", "unlink",
               "variant", "rmdir", "opening", "cached", "restart", "make",
               "apply", "reconcile"},
         file : Files \cup {Idle}, fd : 0..MaxDirs, conf : {"local", "s3"},
         value : Payloads]
NoDir == [ino |-> 0, made |-> 0, files |-> {}, thumbs |-> {}]

TypeOK ==
    /\ refs \subseteq used /\ used \subseteq Files
    /\ dir \in [ino : 0..MaxDirs, made : 0..MaxDirs, files : SUBSET used,
               thumbs : SUBSET used]
    /\ dir.ino <= dir.made /\ (dir.ino = 0 => dir.files = {} /\ dir.thumbs = {})
    /\ objects \subseteq used
    /\ where \in [Files -> {"local", "s3"}]
    /\ durable \in Payloads /\ overrides \in Payloads
    /\ held \in [Tasks -> {"no", "shared", "exclusive"}]
    /\ task \in [Tasks -> Jobs \cup {Idle}]

----------------------------------------------------------------------------
\* Storage configuration.

_storage_overrides_from_settings_payload(p) == IF p.enabled THEN "s3" ELSE "local"

\* S3 without its credentials falls back to local files.
_storage_config_from_values(p) ==
    IF _storage_overrides_from_settings_payload(p) = "s3" /\ p.credentials
    THEN "s3" ELSE "local"

_resolve_storage_config == _storage_config_from_values(overrides)

----------------------------------------------------------------------------
\* Tasks.  What a task read first stays with it: file, config, descriptor.

Start(t, op, at, f, mode) ==
    /\ task[t] = Idle
    /\ mode = "shared" => \A u \in Tasks : held[u] # "exclusive"
    /\ mode = "exclusive" => \A u \in Tasks : held[u] = "no"
    /\ held' = [held EXCEPT ![t] = mode]
    /\ task' = [task EXCEPT ![t] = [op |-> op, at |-> at, file |-> f, fd |-> 0,
                                   conf |-> _resolve_storage_config, value |-> durable]]

Doing(t, op, at) == task[t] # Idle /\ task[t].op = op /\ task[t].at = at
GoTo(t, at) == task' = [task EXCEPT ![t].at = at] /\ UNCHANGED held
End(t) == task' = [task EXCEPT ![t] = Idle] /\ held' = [held EXCEPT ![t] = "no"]
Fault == faults < MaxFaults /\ faults' = faults + 1

\* pin_storage_config and capture_storage_writes below the mutation barrier.
pin_storage_config(t, op, at, f) == Start(t, op, at, f, "shared")

\* _open_record_directory: the descriptor of whatever has the name now.
_open_record_directory(t, ino, next) ==
    /\ task' = [task EXCEPT ![t].fd = ino, ![t].at = next]
    /\ UNCHANGED held

\* The directory of the descriptor still has its name.
Attached(t) == task[t].fd = dir.ino /\ dir.ino # 0

\* Mutant: the record directory is removed with what is in it.
RemoveAnyDirectory(t, d) ==
    IF task[t].fd = dir.ino
    THEN [d EXCEPT !.ino = 0, !.files = {}, !.thumbs = {}] ELSE d

\* rmdir refuses what is not empty; another directory of that name is left alone.
_remove_record_directory_if_empty_at(t, d) ==
    IF task[t].fd = dir.ino /\ d.files = {} /\ d.thumbs = {}
    THEN [d EXCEPT !.ino = 0] ELSE d

----------------------------------------------------------------------------
\* A record is saved with one new file.

save_files(t) ==
    /\ \E f \in Files \ used :
          /\ pin_storage_config(t, "upload",
                IF _resolve_storage_config = "local" THEN "open" ELSE "put", f)
          /\ used' = used \cup {f}
          /\ where' = [where EXCEPT ![f] = _resolve_storage_config]
    /\ UNCHANGED <<row, dir, objects, settings, stale, faults>>

\* create=True: an existing directory is opened, a missing one is made.
OpenForWriting(t) ==
    /\ Doing(t, "upload", "open")
    /\ IF dir.ino = 0
       THEN /\ dir.made < MaxDirs
            /\ dir' = [dir EXCEPT !.ino = dir.made + 1, !.made = @ + 1]
            /\ _open_record_directory(t, dir.made + 1, "write")
       ELSE UNCHANGED dir /\ _open_record_directory(t, dir.ino, "write")
    /\ UNCHANGED <<row, used, objects, where, settings, stale, faults>>

\* O_EXCL below the descriptor: a directory that lost its name takes no file.
_write_file_exclusive_at(t) ==
    /\ Doing(t, "upload", "write")
    /\ IF Attached(t)
       THEN dir' = [dir EXCEPT !.files = @ \cup {task[t].file}] /\ GoTo(t, "commit")
       ELSE UNCHANGED dir /\ GoTo(t, "undo")
    /\ UNCHANGED <<row, used, objects, where, settings, stale, faults>>

\* put_object with IfNoneMatch.  After a transport error the object may exist.
_save_s3_files(t) ==
    /\ Doing(t, "upload", "put")
    /\ \/ objects' = objects \cup {task[t].file} /\ GoTo(t, "commit") /\ UNCHANGED faults
       \/ Fault /\ End(t) /\ (UNCHANGED objects \/ objects' = objects \cup {task[t].file})
    /\ UNCHANGED <<row, used, dir, where, settings, stale>>

\* The row takes the name; a refused or failed statement undoes the write.
CommitUpload(t) ==
    /\ Doing(t, "upload", "commit")
    /\ \/ alive /\ refs' = refs \cup {task[t].file} /\ End(t) /\ UNCHANGED faults
       \/ ~alive /\ GoTo(t, "undo") /\ UNCHANGED <<refs, faults>>
       \/ Fault /\ GoTo(t, "undo") /\ UNCHANGED refs
    /\ UNCHANGED <<alive, store, settings, stale>>

\* _cleanup_new_storage_files: what this task wrote, then an empty directory.
_cleanup_new_storage_files(t) ==
    /\ Doing(t, "upload", "undo")
    /\ IF task[t].conf = "s3"
       THEN /\ UNCHANGED dir
            /\ \/ objects' = objects \ {task[t].file} /\ UNCHANGED faults
               \/ Fault /\ UNCHANGED objects
       ELSE /\ UNCHANGED <<objects, faults>>
            /\ dir' = _remove_record_directory_if_empty_at(t,
                        [dir EXCEPT !.files = @ \ {task[t].file}])
    /\ End(t)
    /\ UNCHANGED <<row, used, where, settings, stale>>

----------------------------------------------------------------------------
\* Deletions are deferred until the row has been committed without the name.

defer_storage_deletes(t) ==
    /\ alive
    /\ \/ \E f \in refs : pin_storage_config(t, "remove", "commit", f)
       \/ pin_storage_config(t, "wipe", "commit", Idle)
    /\ UNCHANGED <<row, store, settings, stale, faults>>

\* What the committed row still holds is preserved, the rest is deleted.
flush_deferred_storage_deletes(t) ==
    /\ task[t] # Idle /\ task[t].op \in {"remove", "wipe"} /\ task[t].at = "commit"
    /\ \/ /\ alive /\ (task[t].op = "remove" => task[t].file \in refs)
          /\ refs' = IF task[t].op = "wipe" THEN {} ELSE refs \ {task[t].file}
          /\ alive' = (task[t].op # "wipe")
          /\ GoTo(t, IF task[t].conf = "s3" THEN "objects" ELSE "open")
       \/ ~alive /\ End(t) /\ UNCHANGED row
       \/ task[t].op = "remove" /\ task[t].file \notin refs /\ End(t) /\ UNCHANGED row
    /\ UNCHANGED <<store, settings, stale, faults>>

\* Each object is deleted on its own; one may stay behind.
_delete_s3_files(t) ==
    /\ Doing(t, "remove", "objects")
    /\ \/ objects' = objects \ {task[t].file} /\ UNCHANGED faults
       \/ Fault /\ UNCHANGED objects
    /\ End(t)
    /\ UNCHANGED <<row, used, dir, where, settings, stale>>

_delete_all_s3_files(t) ==
    /\ Doing(t, "wipe", "objects")
    /\ \/ objects' = objects \cap refs /\ UNCHANGED faults
       \/ Fault /\ objects' \in SUBSET objects
    /\ End(t)
    /\ UNCHANGED <<row, used, dir, where, settings, stale>>

OpenForDeletion(t) ==
    /\ task[t] # Idle /\ task[t].op \in {"remove", "wipe"} /\ task[t].at = "open"
    /\ IF dir.ino = 0 THEN End(t) ELSE _open_record_directory(t, dir.ino, "unlink")
    /\ UNCHANGED <<dir, row, used, objects, where, settings, stale, faults>>

\* A thumbnail of the file is being made from a descriptor opened before.
Overtaken(gone) ==
    {f \in gone : \E u \in Tasks : Doing(u, "thumb", "make") /\ task[u].file = f}

_unlink_regular_file_at(t) ==
    /\ Doing(t, "remove", "unlink")
    /\ dir' = IF Attached(t) THEN [dir EXCEPT !.files = @ \ {task[t].file}] ELSE dir
    /\ GoTo(t, "variant")
    /\ UNCHANGED <<row, used, objects, where, settings, stale, faults>>

\* delete_files: the thumbnails of the file, then the directory if empty.  In
\* a directory that was made anew meanwhile nothing is removed.
_remove_variant_directory_at(t) ==
    /\ Doing(t, "remove", "variant")
    /\ dir' = IF Attached(t)
              THEN _remove_record_directory_if_empty_at(t,
                     [dir EXCEPT !.thumbs = @ \ {task[t].file}])
              ELSE dir
    /\ stale' = stale \cup Overtaken({task[t].file})
                       \cup (IF Attached(t) THEN {} ELSE {task[t].file})
    /\ End(t)
    /\ UNCHANGED <<row, used, objects, where, settings, faults>>

\* delete_all_files: the entries that are listed, one after another; what is
\* written meanwhile may stay and then the directory does too.
delete_all_files(t) ==
    /\ Doing(t, "wipe", "unlink")
    /\ LET gone == dir.files \ refs IN
          /\ dir' = IF Attached(t)
                    THEN [dir EXCEPT !.files = @ \cap refs, !.thumbs = {}]
                    ELSE dir
          /\ stale' = stale \cup Overtaken(gone)
    /\ GoTo(t, "rmdir")
    /\ UNCHANGED <<row, used, objects, where, settings, faults>>

delete_storage_dir_if_empty(t) ==
    /\ Doing(t, "wipe", "rmdir")
    /\ dir' = _remove_record_directory_if_empty_at(t, dir)
    /\ End(t)
    /\ UNCHANGED <<row, used, objects, where, settings, stale, faults>>

----------------------------------------------------------------------------
\* Serving.  The row decides whether a name is served, the file is opened with
\* the configuration pinned at the start.

serve_file(t) ==
    /\ alive
    /\ \E f \in refs : Start(t, "serve", "opening", f, "no")
    /\ UNCHANGED <<row, store, settings, stale, faults>>

Stored(f, conf) == IF conf = "local" THEN f \in dir.files ELSE f \in objects

\* The original is streamed from its descriptor, or a 404 is sent.  A thumbnail
\* is looked up next to a local original.
open_file_stream(t) ==
    /\ Doing(t, "serve", "opening")
    /\ \/ End(t)
       \/ /\ task[t].conf = "local" /\ Stored(task[t].file, "local")
          /\ GoTo(t, "cached")
    /\ UNCHANGED <<row, store, settings, stale, faults>>

read_local_storage_variant_bytes(t) ==
    /\ Doing(t, "serve", "cached")
    /\ IF task[t].file \in dir.thumbs THEN End(t) ELSE GoTo(t, "restart")
    /\ UNCHANGED <<row, store, settings, stale, faults>>

\* _ThumbnailGenerationRequiresBarrier: everything again, under the barrier.
_ThumbnailGenerationRequiresBarrier(t) ==
    /\ Doing(t, "serve", "restart")
    /\ \A u \in Tasks : held[u] # "exclusive"
    /\ IF task[t].file \in refs
       THEN /\ held' = [held EXCEPT ![t] = "shared"]
            /\ task' = [task EXCEPT ![t].op = "thumb", ![t].at = "open",
                                    ![t].conf = _resolve_storage_config]
       ELSE End(t)
    /\ UNCHANGED <<row, store, settings, stale, faults>>

OpenSource(t) ==
    /\ Doing(t, "thumb", "open")
    /\ IF task[t].conf = "local" /\ Stored(task[t].file, "local")
          /\ task[t].file \notin dir.thumbs
       THEN GoTo(t, "make")
       ELSE End(t)
    /\ UNCHANGED <<row, store, settings, stale, faults>>

\* The thumbnail is written and renamed into place; a directory that is gone
\* makes the write fail and the bytes are served all the same.
write_local_storage_variant_bytes(t) ==
    /\ Doing(t, "thumb", "make")
    /\ dir' = IF dir.ino # 0 THEN [dir EXCEPT !.thumbs = @ \cup {task[t].file}] ELSE dir
    /\ End(t)
    /\ UNCHANGED <<row, used, objects, where, settings, stale, faults>>

----------------------------------------------------------------------------
\* PATCH /api/settings.

update_settings(t) ==
    /\ Start(t, "switch", "commit", Idle, "exclusive")
    /\ UNCHANGED <<row, store, settings, stale, faults>>

\* _commit_settings_update: acknowledged, or raised with either outcome; then
\* the barrier is released before the reconciliation takes it again.
_commit_settings_update(t) ==
    /\ Doing(t, "switch", "commit")
    /\ \E p \in Payloads :
          \/ /\ durable' = p
             /\ task' = [task EXCEPT ![t].at = "apply", ![t].value = p]
             /\ UNCHANGED <<held, faults>>
          \/ /\ Fault /\ durable' \in {p, durable}
             /\ held' = [held EXCEPT ![t] = "no"]
             /\ task' = [task EXCEPT ![t].at = "reconcile", ![t].value = p]
    /\ UNCHANGED <<row, store, overrides, unreconciled, stale>>

\* assert_write_barrier_held passes and the runtime follows at once, or the
\* session is lost and the reconciliation is left to do it.
_apply_runtime_settings_under_barrier(t) ==
    /\ Doing(t, "switch", "apply")
    /\ \/ overrides' = task[t].value /\ End(t) /\ UNCHANGED faults
       \/ /\ Fault /\ UNCHANGED overrides
          /\ held' = [held EXCEPT ![t] = "no"]
          /\ task' = [task EXCEPT ![t].at = "reconcile"]
    /\ UNCHANGED <<row, store, durable, unreconciled, stale>>

\* Mutant: the runtime is set from the request instead of the row.
ReconcileFromPayload(t) ==
    /\ Doing(t, "switch", "reconcile")
    /\ \A u \in Tasks : held[u] = "no"
    /\ overrides' = task[t].value
    /\ End(t)
    /\ UNCHANGED <<row, store, durable, unreconciled, stale, faults>>

\* A fresh exclusive barrier and a new read of the row, whatever was attempted.
_reconcile_storage_runtime_from_durable_settings(t) ==
    /\ Doing(t, "switch", "reconcile")
    /\ \A u \in Tasks : held[u] = "no"
    /\ overrides' = durable
    /\ End(t)
    /\ UNCHANGED <<row, store, durable, unreconciled, stale, faults>>

\* The barrier times out or the database is away: the error is raised.
ReconcileFails(t) ==
    /\ Doing(t, "switch", "reconcile")
    /\ unreconciled' = TRUE
    /\ End(t)
    /\ UNCHANGED <<row, store, durable, overrides, stale, faults>>

\* The process ends and starts again: the runtime is read from the settings row.
Restart ==
    /\ Fault
    /\ task' = [t \in Tasks |-> Idle]
    /\ held' = [t \in Tasks |-> "no"]
    /\ overrides' = durable /\ unreconciled' = FALSE
    /\ stale' = stale \cup {task[t].file : t \in {u \in Tasks : task[u] # Idle}}
    /\ UNCHANGED <<row, store, durable>>

----------------------------------------------------------------------------
Init ==
    /\ refs = {} /\ alive = TRUE /\ used = {}
    /\ dir = NoDir /\ objects = {} /\ where = [f \in Files |-> "local"]
    /\ durable \in Payloads /\ overrides = durable
    /\ held = [t \in Tasks |-> "no"] /\ task = [t \in Tasks |-> Idle]
    /\ stale = {} /\ unreconciled = FALSE /\ faults = 0

Write(t) ==
    \/ save_files(t) \/ OpenForWriting(t) \/ _write_file_exclusive_at(t)
    \/ _save_s3_files(t) \/ CommitUpload(t) \/ _cleanup_new_storage_files(t)

Delete(t) ==
    \/ defer_storage_deletes(t) \/ flush_deferred_storage_deletes(t)
    \/ _delete_s3_files(t) \/ _delete_all_s3_files(t) \/ OpenForDeletion(t)
    \/ _unlink_regular_file_at(t) \/ _remove_variant_directory_at(t)
    \/ delete_all_files(t) \/ delete_storage_dir_if_empty(t)

Serve(t) ==
    \/ serve_file(t) \/ open_file_stream(t) \/ read_local_storage_variant_bytes(t)
    \/ _ThumbnailGenerationRequiresBarrier(t) \/ OpenSource(t)
    \/ write_local_storage_variant_bytes(t)

Switch(t) ==
    \/ update_settings(t) \/ _commit_settings_update(t)
    \/ _apply_runtime_settings_under_barrier(t)
    \/ _reconcile_storage_runtime_from_durable_settings(t) \/ ReconcileFails(t)

Next == (\E t \in Tasks : Write(t) \/ Delete(t) \/ Serve(t) \/ Switch(t)) \/ Restart

Spec == Init /\ [][Next]_vars

----------------------------------------------------------------------------
\* Every name a committed row holds has its bytes in the backend they were
\* written to, whatever deletions shared the directory and however often the
\* directory was removed and made again (save_files, delete_files).
ReferencedIsStored == \A f \in refs : Stored(f, where[f])

\* A thumbnail outlives its original only when its writer had opened the
\* original before the deletion (delete_files, _resolve_thumb_bytes).
NoStaleThumbnail ==
    (\A t \in Tasks : task[t] = Idle) => dir.thumbs \subseteq dir.files \cup stale

\* A mutation works on one backend to its end: the runtime never switches
\* below a task that holds the shared barrier (storage_runtime_switch_barrier).
OneBackendPerMutation ==
    \A t \in Tasks : held[t] = "shared" => task[t].conf = _resolve_storage_config

\* Once no switch is under way the process works on the backend the settings
\* row names, also after an ambiguous COMMIT, unless the reconciliation itself
\* was refused (update_settings).
RuntimeFollowsSettings ==
    \/ unreconciled
    \/ \E t \in Tasks : task[t] # Idle /\ task[t].op = "switch"
    \/ overrides = durable
============================================================================
