----------------------------- MODULE Migrations -----------------------------
(***************************************************************************)
(* Collections, the migration files generated for them and the runners     *)
(* that apply them (services/collection_service.py, migration_runner.py,   *)
(* migration_snapshot.py, database_preparation.py, migration_generator.py).*)
(* A change of a collection and its row in _migrations are one PostgreSQL  *)
(* transaction; the generated file is published before the COMMIT and is   *)
(* not part of it.  All actors serialise on the migration advisory lock,   *)
(* held for a transaction (mutations) or for a session (runners).          *)
(***************************************************************************)
EXTENDS Integers, Sequences, FiniteSets, SequencesExt

CONSTANTS Actors,      \* requests and commands, in one or several processes
          Colls,       \* collection ids
          Vals,        \* values of one aspect of a definition
          MaxFiles,    \* bound: migration files ever generated
          MaxFaults,   \* bound: lost connections, failed commits and crashes
          Absent,      \* the collection does not exist
          NoOne        \* nobody holds the lock

ASSUME MigrationsAssumption ==
    /\ MaxFiles \in Nat \ {0} /\ MaxFaults \in Nat
    /\ NoOne \notin Actors
    /\ Vals # {}

VARIABLES disk,      \* migration files in the directory
          content,   \* what a generated file says
          hist,      \* rows of _migrations in the order they were applied
          schema,    \* committed collections (record and table)
          lock,      \* holder of the migration lock, as PostgreSQL sees it
          attached,  \* the holder's client still uses that session
          tx,        \* the open transaction of the holder
          pc, op,    \* where an actor is, and in which operation
          todo,      \* files an actor still has to apply or revert
          mine,      \* files an actor generated in its operation
          failed,    \* history: files of collection changes reported as failed
          linear,    \* history: no file was generated while another was
                     \* pending, none was reverted before its producer had
                     \* settled, none of a failed import was applied
          exposed,   \* history: files of a failed import, unlinked without the lock
          faults

vars == <<disk, content, hist, schema, lock, attached, tx, pc, op, todo, mine,
          failed, linear, exposed, faults>>
durable == <<disk, content, hist, schema, linear, exposed>>
session == <<lock, attached, tx>>

Files == 1..MaxFiles
Aspects == {"fields", "rules"}
Defs == [Aspects -> Vals]
Schemas == [Colls -> Defs \cup {Absent}]
Change == [kind : {"create", "update", "delete"}, coll : Colls,
           old : Defs \cup {Absent}, new : Defs \cup {Absent}]
Snapshots == [kind : {"snapshot"}, all : Schemas]
NoTx == [open |-> FALSE, committing |-> FALSE, schema |-> [c \in Colls |-> Absent],
         hist |-> <<>>]
\* Bound: collections are created with one definition, updates vary it.
Fresh == [k \in Aspects |-> CHOOSE v \in Vals : TRUE]
Blank == [kind |-> "blank"]

\* Absent is neither a definition nor a database.
ASSUME AbsentAssumption ==
    (\A d \in Defs : d # Absent) /\ (\A s \in Schemas : s # Absent)

----------------------------------------------------------------------------
\* What a file does when it is applied or reverted.

\* Mutant: a change of the rules is not written to the file.
DiffIgnoresRules(old, new) == {k \in {"fields"} : old[k] # new[k]}

\* The keys of the changes dictionary: only what differs is written.
_compute_collection_diff(old, new) == {k \in Aspects : old[k] # new[k]}

\* MigrationApp.update_collection: assigns the given keys, keeps the others.
update_collection(def, keys, new) ==
    [k \in Aspects |-> IF k \in keys THEN new[k] ELSE def[k]]

\* MigrationApp.save_collection: update what exists, create what does not.
save_collection(all, s) ==
    [c \in Colls |-> IF all[c] = Absent THEN s[c] ELSE all[c]]

CanUp(x, s) ==
    CASE x.kind = "create" -> s[x.coll] = Absent
      [] x.kind \in {"update", "delete"} -> s[x.coll] # Absent
      [] OTHER -> TRUE

up(x, s) ==
    CASE x.kind = "create" -> [s EXCEPT ![x.coll] = x.new]
      [] x.kind = "update" ->
            [s EXCEPT ![x.coll] =
                update_collection(@, _compute_collection_diff(x.old, x.new), x.new)]
      [] x.kind = "delete" -> [s EXCEPT ![x.coll] = Absent]
      [] x.kind = "snapshot" -> save_collection(x.all, s)
      [] OTHER -> s

CanDown(x, s) ==
    CASE x.kind \in {"create", "update"} -> s[x.coll] # Absent
      [] x.kind = "delete" -> s[x.coll] = Absent
      [] OTHER -> TRUE

down(x, s) ==
    CASE x.kind = "create" -> [s EXCEPT ![x.coll] = Absent]
      [] x.kind = "update" ->
            [s EXCEPT ![x.coll] =
                update_collection(@, _compute_collection_diff(x.old, x.new), x.old)]
      [] x.kind = "delete" -> [s EXCEPT ![x.coll] = x.old]
      [] OTHER -> s

\* The file that is written for a change of collection c in schema s.
generate_create_migration(c) == [kind |-> "create", coll |-> c, old |-> Absent, new |-> Fresh]
generate_update_migration(c, d, s) == [kind |-> "update", coll |-> c, old |-> s[c], new |-> d]
generate_delete_migration(c, s) == [kind |-> "delete", coll |-> c, old |-> s[c], new |-> Absent]
generate_snapshot_migration(s) == [kind |-> "snapshot", all |-> s]

\* Changes the service accepts: a name is created once, and only what exists
\* is updated or deleted.
Creations(s) == {generate_create_migration(c) : c \in {d \in Colls : s[d] = Absent}}
Updates(s) == {generate_update_migration(c, d, s) : c \in {b \in Colls : s[b] # Absent}, d \in Defs}
Deletions(s) == {generate_delete_migration(c, s) : c \in {d \in Colls : s[d] # Absent}}
Mutations(s) == Creations(s) \cup Updates(s) \cup Deletions(s)

\* What the service itself writes: the whole new definition.
Changed(m, s) == [s EXCEPT ![m.coll] = m.new]

----------------------------------------------------------------------------
Applied == Range(hist)
Generated == {f \in Files : content[f] # Blank}
NextFile == Cardinality(Generated) + 1

\* DELETE FROM _migrations WHERE file = f: a file has at most one row.
Without(h, f) ==
    IF f \in Range(h) THEN RemoveAt(h, CHOOSE i \in DOMAIN h : h[i] = f) ELSE h

\* The files fs in the order of their names: the one sequence of this set.
_list_migration_files(fs) ==
    {s \in Bijection(1..Cardinality(fs), fs) : \A i, j \in DOMAIN s : i < j => s[i] < s[j]}

get_pending_migrations == disk \ Applied

\* A directory may hold a hand-written file that nobody has applied yet.
Init ==
    /\ \E first \in {Blank} \cup {m \in Change : m.kind = "create" /\ m.old = Absent
                                                 /\ m.new = Fresh} :
          /\ content = [f \in Files |-> IF f = 1 THEN first ELSE Blank]
          /\ disk = IF first = Blank THEN {} ELSE {1}
    /\ hist = <<>> /\ linear = TRUE
    /\ schema = [c \in Colls |-> Absent]
    /\ lock = NoOne /\ attached = FALSE /\ tx = NoTx
    /\ pc = [a \in Actors |-> "idle"]
    /\ op = [a \in Actors |-> "none"]
    /\ todo = [a \in Actors |-> <<>>]
    /\ mine = [a \in Actors |-> {}]
    /\ failed = {} /\ exposed = {}
    /\ faults = 0

\* PostgreSQL frees the lock with the transaction or with the session.
FreeLock(a) ==
    IF lock = a /\ ~tx.committing
    THEN lock' = NoOne /\ attached' = FALSE /\ tx' = NoTx
    ELSE UNCHANGED session

\* The operation returns or raises; what a failed one generated is remembered.
Leave(a, what) ==
    /\ pc' = [pc EXCEPT ![a] = "idle"]
    /\ failed' = IF what = "failed" /\ op[a] \in {"mutate", "import"}
                 THEN failed \cup mine[a] ELSE failed
    /\ todo' = [todo EXCEPT ![a] = <<>>]
    /\ mine' = [mine EXCEPT ![a] = {}]
    /\ op' = [op EXCEPT ![a] = "none"]

Holds(a) == lock = a /\ attached

\* Requests: the lock is the first thing every one of them waits for.
Start(a, o) ==
    /\ pc[a] = "idle"
    /\ op' = [op EXCEPT ![a] = o]
    /\ pc' = [pc EXCEPT ![a] = "locking"]
    /\ UNCHANGED <<durable, session, todo, mine, failed, faults>>

apply_migrations(a) == Start(a, "up")
revert_migrations(a) == Start(a, "down")
generate_snapshot(a) == NextFile <= MaxFiles /\ Start(a, "snapshot")
_lock_migration_producer(a) == NextFile <= MaxFiles /\ Start(a, "mutate")
import_collections(a) == NextFile < MaxFiles /\ Start(a, "import")

\* pg_try_advisory_xact_lock and pg_try_advisory_lock share one key.
AcquireLock(a) ==
    /\ pc[a] = "locking" /\ lock = NoOne
    /\ lock' = a /\ attached' = TRUE
    /\ pc' = [pc EXCEPT ![a] = "locked"]
    /\ UNCHANGED <<durable, tx, op, todo, mine, failed, faults>>

LockTimeout(a) ==
    /\ pc[a] = "locking" /\ lock # NoOne
    /\ Leave(a, "refused")
    /\ UNCHANGED <<durable, session, faults>>

\* A change of one collection: record, table, file and history row.
Publish(a, changes) ==
    LET fs == {NextFile + i - 1 : i \in DOMAIN changes} IN
    /\ content' = [f \in Files |-> IF f \in fs THEN changes[f - NextFile + 1] ELSE content[f]]
    /\ disk' = disk \cup fs
    /\ mine' = [mine EXCEPT ![a] = fs]
    /\ linear' = (linear /\ get_pending_migrations = {})
    /\ UNCHANGED <<hist, schema, exposed>>

Mutate(a, changes) ==
    /\ pc[a] = "locked" /\ op[a] = "mutate" /\ Holds(a) /\ NextFile <= MaxFiles
    /\ \E m \in changes :
          /\ Publish(a, <<m>>)
          /\ tx' = [open |-> TRUE, committing |-> FALSE, schema |-> Changed(m, schema),
                    hist |-> Append(hist, NextFile)]
    /\ pc' = [pc EXCEPT ![a] = "commit"]
    /\ UNCHANGED <<lock, attached, op, todo, failed, faults>>

CreateCollection(a) == Mutate(a, Creations(schema))
UpdateCollection(a) == Mutate(a, Updates(schema))
DeleteCollection(a) == Mutate(a, Deletions(schema))

_import_collections_impl(a) ==
    /\ pc[a] = "locked" /\ op[a] = "import" /\ Holds(a) /\ NextFile < MaxFiles
    /\ \E m \in Mutations(schema) : \E n \in Mutations(Changed(m, schema)) :
          /\ m.coll # n.coll
          /\ Publish(a, <<m, n>>)
          /\ tx' = [open |-> TRUE, committing |-> FALSE,
                    schema |-> Changed(n, Changed(m, schema)),
                    hist |-> hist \o <<NextFile, NextFile + 1>>]
    /\ pc' = [pc EXCEPT ![a] = "commit"]
    /\ UNCHANGED <<lock, attached, op, todo, failed, faults>>

\* The second collection of an import is refused: roll back, which frees the
\* lock, then unlink.
ImportFails(a) ==
    /\ pc[a] = "locked" /\ op[a] = "import" /\ Holds(a) /\ NextFile <= MaxFiles
    /\ faults < MaxFaults /\ faults' = faults + 1
    /\ \E m \in Mutations(schema) : Publish(a, <<m>>)
    /\ FreeLock(a)
    /\ pc' = [pc EXCEPT ![a] = "cleanup"]
    /\ UNCHANGED <<op, todo, failed>>

\* A runner has applied the file, or is about to commit it.
PickedUp(f) == f \in Applied \cup Range(tx.hist)

_cleanup_generated_migrations(a) ==
    /\ pc[a] = "cleanup"
    /\ disk' = disk \ mine[a]
    /\ exposed' = exposed \cup mine[a]
    /\ linear' = (linear /\ \A f \in mine[a] : ~PickedUp(f))
    /\ Leave(a, "failed")
    /\ UNCHANGED <<content, hist, schema, session, faults>>

\* A name that exists, a collection that does not, a lost session: no effect.
Refuse(a) ==
    /\ pc[a] = "locked" /\ op[a] \in {"mutate", "import", "snapshot"}
    /\ FreeLock(a)
    /\ Leave(a, "refused")
    /\ UNCHANGED <<durable, faults>>

create_migration_snapshot(a) ==
    /\ pc[a] = "locked" /\ op[a] = "snapshot" /\ Holds(a) /\ NextFile <= MaxFiles
    /\ Publish(a, <<generate_snapshot_migration(schema)>>)
    /\ tx' = [open |-> TRUE, committing |-> FALSE, schema |-> schema,
              hist |-> Append(hist, NextFile)]
    /\ pc' = [pc EXCEPT ![a] = "commit"]
    /\ UNCHANGED <<lock, attached, op, todo, failed, faults>>

----------------------------------------------------------------------------
\* Runners: the list is read once, each file commits on its own.

ListPending(a) ==
    /\ pc[a] = "locked" /\ op[a] = "up" /\ Holds(a)
    /\ \E pending \in _list_migration_files(get_pending_migrations) :
          todo' = [todo EXCEPT ![a] = pending]
    /\ pc' = [pc EXCEPT ![a] = "batch"]
    /\ UNCHANGED <<durable, session, op, mine, failed, faults>>

ListLatest(a) ==
    /\ pc[a] = "locked" /\ op[a] = "down" /\ Holds(a)
    /\ \E count \in 1..2 :
          todo' = [todo EXCEPT ![a] = SubSeq(Reverse(hist), 1,
                        IF count < Len(hist) THEN count ELSE Len(hist))]
    /\ pc' = [pc EXCEPT ![a] = "batch"]
    /\ UNCHANGED <<durable, session, op, mine, failed, faults>>

apply_migration(a) ==
    /\ pc[a] = "batch" /\ op[a] = "up" /\ todo[a] # <<>> /\ Holds(a)
    /\ LET f == Head(todo[a]) IN
          /\ f \in disk /\ CanUp(content[f], schema) /\ f \notin Applied
          /\ tx' = [open |-> TRUE, committing |-> FALSE,
                    schema |-> up(content[f], schema), hist |-> Append(hist, f)]
    /\ pc' = [pc EXCEPT ![a] = "commit"]
    /\ UNCHANGED <<durable, lock, attached, op, todo, mine, failed, faults>>

revert_migration(a) ==
    /\ pc[a] = "batch" /\ op[a] = "down" /\ todo[a] # <<>> /\ Holds(a)
    /\ LET f == Head(todo[a]) IN
          /\ f \in disk /\ CanDown(content[f], schema)
          /\ tx' = [open |-> TRUE, committing |-> FALSE,
                    schema |-> down(content[f], schema),
                    hist |-> Without(hist, f)]
    /\ pc' = [pc EXCEPT ![a] = "commit"]
    /\ UNCHANGED <<durable, lock, attached, op, todo, mine, failed, faults>>

\* The file is gone, its function raises, or the session is lost.
MigrationFails(a) ==
    /\ pc[a] \in {"locked", "batch"} /\ op[a] \in {"up", "down"}
    /\ \/ ~Holds(a)
       \/ /\ todo[a] # <<>>
          /\ LET f == Head(todo[a]) IN
                \/ f \notin disk
                \/ op[a] = "up" /\ (~CanUp(content[f], schema) \/ f \in Applied)
                \/ op[a] = "down" /\ ~CanDown(content[f], schema)
    /\ FreeLock(a)
    /\ Leave(a, "failed")
    /\ UNCHANGED <<durable, faults>>

BatchDone(a) ==
    /\ pc[a] = "batch" /\ todo[a] = <<>>
    /\ FreeLock(a)
    /\ Leave(a, "ok")
    /\ UNCHANGED <<durable, faults>>

----------------------------------------------------------------------------
\* COMMIT, and what is done when it raises.

_commit_with_generated_migrations(a) ==
    /\ pc[a] = "commit"
    /\ IF Holds(a)
       THEN tx' = [tx EXCEPT !.committing = TRUE] /\ pc' = [pc EXCEPT ![a] = "await"]
       ELSE pc' = [pc EXCEPT ![a] = "unclear"] /\ UNCHANGED tx
    /\ UNCHANGED <<durable, lock, attached, op, todo, mine, failed, faults>>

\* A transaction lock ends with its transaction, a session lock with its
\* session: an abandoned backend exits once its COMMIT is decided.
Decided ==
    /\ tx' = NoTx
    /\ IF attached /\ op[lock] \notin {"mutate", "import"}
       THEN UNCHANGED <<lock, attached>>
       ELSE lock' = NoOne /\ attached' = FALSE

\* A file is reverted while its own change is still being reconciled, which
\* will take it for rolled back.
RevertsUnsettled == \E f \in Applied \ Range(tx.hist) : \E a \in Actors : f \in mine[a]

CommitLands ==
    /\ tx.committing
    /\ schema' = tx.schema /\ hist' = tx.hist
    /\ linear' = (linear /\ ~RevertsUnsettled)
    /\ Decided
    /\ \E raised \in BOOLEAN :
          /\ raised => attached /\ faults < MaxFaults
          /\ faults' = IF raised THEN faults + 1 ELSE faults
          /\ pc' = IF attached
                   THEN [pc EXCEPT ![lock] = IF raised THEN "unclear" ELSE "acked"]
                   ELSE pc
    /\ UNCHANGED <<disk, content, op, todo, mine, failed, exposed>>

CommitAborts ==
    /\ tx.committing /\ faults < MaxFaults
    /\ faults' = faults + 1
    /\ Decided
    /\ pc' = IF attached THEN [pc EXCEPT ![lock] = "unclear"] ELSE pc
    /\ UNCHANGED <<durable, op, todo, mine, failed>>

ConnectionLost(a) ==
    /\ pc[a] = "await" /\ Holds(a) /\ faults < MaxFaults
    /\ faults' = faults + 1
    /\ attached' = FALSE
    /\ pc' = [pc EXCEPT ![a] = "unclear"]
    /\ UNCHANGED <<durable, lock, tx, op, todo, mine, failed>>

SessionLost(a) ==
    /\ pc[a] \in {"locked", "batch", "commit"} /\ Holds(a) /\ faults < MaxFaults
    /\ faults' = faults + 1
    /\ FreeLock(a)
    /\ UNCHANGED <<durable, pc, op, todo, mine, failed>>

Acked(a) ==
    /\ pc[a] = "acked"
    /\ IF op[a] \in {"up", "down"}
       THEN /\ todo' = [todo EXCEPT ![a] = Tail(@)]
            /\ pc' = [pc EXCEPT ![a] = "batch"]
            /\ UNCHANGED <<session, op, mine, failed>>
       ELSE FreeLock(a) /\ Leave(a, "ok")
    /\ UNCHANGED <<durable, faults>>

\* Mutant: the reconciliation does not wait for the lock.
ReconcileWithoutLock(a) ==
    /\ pc[a] = "unclear" /\ op[a] \in {"mutate", "import"}
    /\ LET committed == mine[a] \cap Applied IN
          /\ disk' = IF committed = {} THEN disk \ mine[a] ELSE disk
          /\ Leave(a, IF committed = {} THEN "failed" ELSE "ok")
    /\ UNCHANGED <<content, hist, schema, linear, exposed, session, faults>>

\* The verifier holds the lock again while it reads history and unlinks.
_reconcile_generated_migrations(a) ==
    /\ pc[a] = "unclear" /\ op[a] \in {"mutate", "import"} /\ lock = NoOne
    /\ LET committed == mine[a] \cap Applied IN
          /\ disk' = IF committed = {} THEN disk \ mine[a] ELSE disk
          /\ Leave(a, CASE committed = mine[a] -> "ok"
                        [] committed = {} -> "failed"
                        [] OTHER -> "unknown")
    /\ UNCHANGED <<content, hist, schema, linear, exposed, session, faults>>

\* The verifier cannot get the lock, or cannot read: the files stay.
ReconcileFails(a) ==
    /\ pc[a] = "unclear"
    /\ FreeLock(a)
    /\ Leave(a, "unknown")
    /\ UNCHANGED <<durable, faults>>

\* Runners and snapshots verify without the lock, on whatever session is left.
commit_migration_transaction(a) ==
    /\ pc[a] = "unclear" /\ op[a] \in {"up", "down", "snapshot"}
    /\ LET f == IF op[a] = "snapshot" THEN CHOOSE g \in mine[a] : TRUE
                ELSE Head(todo[a])
           expected == (f \in Applied) <=> (op[a] # "down")
       IN \/ /\ expected /\ Holds(a)
             /\ pc' = [pc EXCEPT ![a] = "acked"]
             /\ UNCHANGED <<disk, session, op, mine, todo, failed>>
          \/ /\ expected /\ ~Holds(a)
             /\ Leave(a, "unknown")
             /\ UNCHANGED <<disk, session>>
          \/ /\ ~expected
             /\ disk' = IF op[a] = "snapshot" THEN disk \ {f} ELSE disk
             /\ FreeLock(a)
             /\ Leave(a, "failed")
    /\ UNCHANGED <<content, hist, schema, linear, exposed, faults>>

\* The process dies; PostgreSQL finishes a COMMIT it already has.
Crash(a) ==
    /\ pc[a] # "idle" /\ faults < MaxFaults
    /\ faults' = faults + 1
    /\ IF lock = a /\ tx.committing
       THEN attached' = FALSE /\ UNCHANGED <<lock, tx>>
       ELSE FreeLock(a)
    /\ Leave(a, "unknown")
    /\ UNCHANGED <<durable>>

----------------------------------------------------------------------------
ActorStep(a) ==
    \/ apply_migrations(a) \/ revert_migrations(a) \/ generate_snapshot(a)
    \/ _lock_migration_producer(a) \/ import_collections(a)
    \/ AcquireLock(a) \/ LockTimeout(a)
    \/ CreateCollection(a) \/ UpdateCollection(a) \/ DeleteCollection(a)
    \/ _import_collections_impl(a) \/ ImportFails(a) \/ _cleanup_generated_migrations(a) \/ create_migration_snapshot(a) \/ Refuse(a)
    \/ ListPending(a) \/ ListLatest(a) \/ apply_migration(a) \/ revert_migration(a)
    \/ MigrationFails(a) \/ BatchDone(a)
    \/ _commit_with_generated_migrations(a) \/ Acked(a) \/ commit_migration_transaction(a)
    \/ _reconcile_generated_migrations(a) \/ ReconcileFails(a)
    \/ ConnectionLost(a) \/ SessionLost(a) \/ Crash(a)

Next ==
    \/ \E a \in Actors : ActorStep(a)
    \/ CommitLands \/ CommitAborts

Spec == Init /\ [][Next]_vars

----------------------------------------------------------------------------
TypeOK ==
    /\ disk \subseteq Files
    /\ content \in [Files -> Change \cup Snapshots \cup {Blank}]
    /\ hist \in Seq(Files) /\ schema \in Schemas
    /\ lock \in Actors \cup {NoOne} /\ attached \in BOOLEAN
    /\ tx \in [open : BOOLEAN, committing : BOOLEAN,
               schema : Schemas, hist : Seq(Files)]
    /\ pc \in [Actors -> {"idle", "locking", "locked", "batch", "commit", "await",
                          "acked", "unclear", "cleanup"}]
    /\ mine \in [Actors -> SUBSET Files] /\ todo \in [Actors -> Seq(Files)]
    /\ linear \in BOOLEAN /\ faults \in 0..MaxFaults

\* Applying the recorded files in the order of their names to an empty
\* database.
replayed[f \in 0..MaxFiles] ==
    IF f = 0 THEN [c \in Colls |-> Absent]
    ELSE IF f \notin Applied THEN replayed[f - 1]
    ELSE IF replayed[f - 1] # Absent /\ CanUp(content[f], replayed[f - 1])
         THEN up(content[f], replayed[f - 1])
    ELSE Absent

Replay == replayed[MaxFiles]

\* As long as no file was generated while another was pending, none was
\* reverted before its producer had settled and none of a failed import was
\* applied, the migrations directory reproduces the database: replaying what
\* _migrations records, in the order of the names, gives exactly the committed
\* collections, whatever was cancelled, lost, reverted or retried in between.
ReplayReproduces == linear => Replay = schema

\* The row a collection change left in _migrations has its file: the file is
\* unlinked only under the lock and only when its transaction cannot have
\* committed and no runner has picked it up.  (A snapshot and an import that
\* failed unlink without the lock; their rows are not covered.)
NoOrphanHistory ==
    \A f \in Applied \ disk : content[f].kind = "snapshot" \/ f \in exposed

\* A mutation that reported failure has left neither a file a runner could
\* pick up nor a history row, then or later, unless it is an import whose
\* file was picked up before it was unlinked.
FailureLeavesNothing ==
    /\ failed \cap disk = {}
    /\ failed \cap Applied \subseteq exposed

\* Both: the directory and _migrations agree about what happened.
FilesMatchHistory == NoOrphanHistory /\ FailureLeavesNothing
=============================================================================
