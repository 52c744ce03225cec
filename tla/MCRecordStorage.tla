--------------------------- MODULE MCRecordStorage ---------------------------
(***************************************************************************)
(* RecordStorage and, as a part of its own, FileStorage: RecordStorage     *)
(* takes the store for a set of names, FileStorage says what becomes of    *)
(* the names in a directory or a bucket.  The parts share no state, so a   *)
(* behaviour is about one of them: which one is chosen in the initial      *)
(* state, the other one stays in its own.                                  *)
(***************************************************************************)
EXTENDS RecordStorage, TLC

CONSTANTS Idle, MaxDirs, MaxFaults

VARIABLES part,
          refs, alive, given, dir, objects, where, durable, overrides, held, task,
          stale, unreconciled, faults

store == <<refs, alive, given, dir, objects, where, durable, overrides, held, task,
           stale, unreconciled, faults>>

F == INSTANCE FileStorage WITH used <- given

ASSUME StoreAssumption ==
    MaxDirs \in Nat \ {0} /\ MaxFaults \in Nat /\ Idle \notin F!Jobs \cup Files

StorageInit ==
    /\ part \in {"transaction", "store"}
    /\ Init /\ F!Init
    /\ part = "transaction" => ~durable.enabled /\ ~durable.credentials

StorageNext ==
    \/ part = "transaction" /\ Next /\ UNCHANGED <<part, store>>
    \/ part = "store" /\ F!Next /\ UNCHANGED <<part, vars>>

StorageSpec == StorageInit /\ [][StorageNext]_<<part, vars, store>>

\* Tasks and file names are interchangeable.
Sym == Permutations(Tasks) \cup Permutations(Files)

\* Every name a committed row holds has its bytes in the backend they were
\* written to, and a thumbnail outlives its original only when its writer had
\* opened the original before the deletion (save_files, delete_files,
\* _resolve_thumb_bytes).
FilesAreSound == F!ReferencedIsStored /\ F!NoStaleThumbnail

\* A mutation works on one backend to its end, and once no switch is under
\* way the process works on the backend the settings row names
\* (storage_runtime_switch_barrier, update_settings).
BackendIsSettled == F!OneBackendPerMutation /\ F!RuntimeFollowsSettings
=============================================================================
