---------------------------- MODULE WriteBarrier ----------------------------
(***************************************************************************)
(* The database/file write barrier of ppbase/services/write_barrier.py.    *)
(*                                                                         *)
(* Mutations take a PostgreSQL session-level advisory lock in SHARED mode, *)
(* backups and the destructive cutover take it in EXCLUSIVE mode and then  *)
(* the migration lock, both on one dedicated connection.  Session locks    *)
(* survive commit, rollback and the return of the connection to the pool,  *)
(* and vanish with the backend, so everything depends on which physical    *)
(* session a task is talking to.  The module therefore keeps the server's  *)
(* sessions apart from the tasks that use them: a reply may be lost after  *)
(* the server acted, a session may die unnoticed, SQLAlchemy may reconnect *)
(* behind a lease, and an invalidated session lingers on the server, with  *)
(* its locks and its in-flight COMMIT, until the backend notices.          *)
(*                                                                         *)
(* Time is abstracted: a timeout may strike at any point where the code    *)
(* has a deadline.                                                         *)
(***************************************************************************)
EXTENDS Integers, FiniteSets

CONSTANTS
    Writers,    \* tasks that run mutation_write_barrier
    Borrowers,  \* tasks that run mutation_write_barrier_on_connection
    Backups,    \* tasks that run backup_write_barrier and then seal
    Cutovers,   \* tasks that hold acquire_retained_backup_write_barrier
    Migrators,  \* tasks that run migration_lock
    Remote,     \* the tasks that belong to another process
    Sessions,   \* PostgreSQL backend sessions
    PoolSize,   \* connections this process may have checked out
    None        \* no session

Mutators == Writers \cup Borrowers
Exclusives == Backups \cup Cutovers
Tasks == Mutators \cup Exclusives \cup Migrators
Local == Tasks \ Remote

ASSUME TasksAssumption ==
    /\ Writers \cap Borrowers = {}
    /\ Backups \cap Cutovers = {}
    /\ Mutators \cap Exclusives = {}
    /\ Migrators \cap (Mutators \cup Exclusives) = {}
    /\ Remote \subseteq Tasks \ Cutovers
    /\ IsFiniteSet(Cutovers)

ASSUME SessionsAssumption == None \notin Sessions

ASSUME PoolSizeAssumption == PoolSize \in Nat \ {0}

VARIABLES
    alive,    \* sessions whose backend exists
    pool,     \* idle sessions held by the connection pool
    shared,   \* sessions that hold the barrier in shared mode
    excl,     \* sessions that hold the barrier in exclusive mode
    waiting,  \* sessions queued for the exclusive mode
    migr,     \* sessions that hold the migration lock
    tx,       \* per session: no transaction, an open one, or a COMMIT sent
    pc,       \* where each task stands
    conn,     \* the session behind the task's connection
    pid,      \* the session the lease was granted on (lease.backend_pid)
    ok,       \* exclusive tasks whose body ended without an error
    fence,    \* _cutover_fence_count
    fenced,   \* cutovers whose guard has _process_fence_active
    sealed,   \* backups that were sealed
    torn      \* history: exclusive tasks whose window saw a foreign commit

locks == <<shared, excl, waiting, migr>>
server == <<alive, pool, locks, tx>>
client == <<pc, conn, pid>>
fences == <<fence, fenced>>
outcome == <<ok, sealed, torn>>
vars == <<server, client, fences, outcome>>

Committing == {"local", "remote", "migration"}

(* How a COMMIT issued by task t is told apart. *)
Origin(t) == IF t \in Migrators THEN "migration"
             ELSE IF t \in Local THEN "local" ELSE "remote"

TypeOK ==
    /\ alive \subseteq Sessions
    /\ pool \subseteq Sessions
    /\ shared \subseteq Sessions
    /\ excl \subseteq Sessions
    /\ waiting \subseteq Sessions
    /\ migr \subseteq Sessions
    /\ tx \in [Sessions -> {"none", "open"} \cup Committing]
    /\ pc \in [Tasks -> {"idle", "connect", "ready", "try", "wait", "granted",
                         "mtry", "mgranted", "verify", "verified", "fenced",
                         "reverified", "cut", "body", "exit", "release"}]
    /\ conn \in [Tasks -> Sessions \cup {None}]
    /\ pid \in [Tasks -> Sessions \cup {None}]
    /\ ok \subseteq Exclusives
    /\ fence \in Nat
    /\ fenced \subseteq Cutovers
    /\ sealed \subseteq Backups
    /\ torn \subseteq Exclusives

Init ==
    /\ alive = {} /\ pool = {}
    /\ shared = {} /\ excl = {} /\ waiting = {} /\ migr = {}
    /\ tx = [s \in Sessions |-> "none"]
    /\ pc = [t \in Tasks |-> "idle"]
    /\ conn = [t \in Tasks |-> None]
    /\ pid = [t \in Tasks |-> None]
    /\ fence = 0 /\ fenced = {}
    /\ ok = {} /\ sealed = {} /\ torn = {}

-----------------------------------------------------------------------------
(* The server: lock grants, commits and the end of sessions. *)

(* A shared request conflicts with an exclusive holder and is soft-blocked *)
(* behind an exclusive waiter; an exclusive request conflicts with both    *)
(* kinds of holder and with every waiter.                                  *)
SharedFree == excl = {} /\ waiting = {}
ExclusiveFree == excl = {} /\ shared = {}

(* The session, and with it every lock and open transaction, is gone. *)
EndSession(s) ==
    /\ s \in alive
    /\ alive' = alive \ {s}
    /\ pool' = pool \ {s}
    /\ shared' = shared \ {s}
    /\ excl' = excl \ {s}
    /\ waiting' = waiting \ {s}
    /\ migr' = migr \ {s}
    /\ tx' = [tx EXCEPT ![s] = "none"]
    /\ UNCHANGED <<client, fences, outcome>>

(* The network or an administrator may end any session at any time. *)
SessionLost(s) == EndSession(s)

Owned(s) == s \in pool \/ \E t \in Tasks : conn[t] = s

(* A backend whose client closed or invalidated the socket notices it. *)
OrphanExits(s) == ~Owned(s) /\ EndSession(s)

(* PostgreSQL hands the exclusive mode to a queued request, whether or not *)
(* a client is still listening.                                            *)
GrantWaiter(s) ==
    /\ s \in waiting /\ ExclusiveFree
    /\ waiting' = waiting \ {s}
    /\ excl' = excl \cup {s}
    /\ pc' = [t \in Tasks |-> IF conn[t] = s THEN "granted" ELSE pc[t]]
    /\ UNCHANGED <<alive, pool, shared, migr, tx, conn, pid, fences, outcome>>

(* A COMMIT takes effect.  It tears the window of every backup that is     *)
(* copying; one sent by a mutation of this process tears a cutover.        *)
CommitLands(s) ==
    /\ s \in alive /\ tx[s] \in Committing
    /\ tx' = [tx EXCEPT ![s] = "none"]
    /\ torn' = torn \cup {b \in Backups : pc[b] = "body"}
                    \cup {c \in Cutovers : pc[c] = "cut" /\ tx[s] = "local"}
    /\ UNCHANGED <<alive, pool, locks, client, fences, ok, sealed>>

(* The server runs the commands of one session in order: it answers a new  *)
(* command only once an earlier COMMIT has taken effect.                   *)
Answers(s) == s \in alive /\ tx[s] \notin Committing

-----------------------------------------------------------------------------
(* Connections. *)

(* A backend that no lease remembers: pids do not repeat within a lease. *)
Fresh(s) ==
    /\ s \notin alive /\ ~Owned(s)
    /\ \A t \in Tasks : pid[t] # s

CheckedOut == {t \in Local : conn[t] # None}

(* engine.connect() and _write_barrier_identity: a pooled session (checked *)
(* by pool_pre_ping) or a new one; the pool bounds this process.           *)
Checkout(t, s) ==
    /\ t \in Local => Cardinality(CheckedOut) < PoolSize
    /\ \/ s \in pool /\ s \in alive
       \/ Fresh(s)
    /\ alive' = alive \cup {s}
    /\ pool' = pool \ {s}
    /\ conn' = [conn EXCEPT ![t] = s]
    /\ pid' = [pid EXCEPT ![t] = s]

(* The task's connection goes back to the pool, its transaction rolled back. *)
ReturnToPool(t) ==
    /\ pool' = pool \cup {conn[t]}
    /\ conn' = [conn EXCEPT ![t] = None]
    /\ pid' = [pid EXCEPT ![t] = None]

(* _cleanup_connection: the client forgets the session, the server has not *)
(* noticed yet and keeps its locks and its pending COMMIT.                 *)
_cleanup_connection(t) ==
    /\ conn' = [conn EXCEPT ![t] = None]
    /\ pid' = [pid EXCEPT ![t] = None]
    /\ UNCHANGED server

GoTo(t, where) == pc' = [pc EXCEPT ![t] = where]

_reject_process_cutover_mutation(t) == t \in Local /\ fence > 0

_release_process_cutover_fence(t) ==
    /\ fenced' = fenced \ {t}
    /\ fence' = IF t \in fenced /\ fence > 0 THEN fence - 1 ELSE fence

-----------------------------------------------------------------------------
(* Acquisition. *)

(* The admission check; exclusive tasks and migrators have none.  A task   *)
(* that starts again forgets its previous outcome.                         *)
Start(t) ==
    /\ pc[t] = "idle"
    /\ t \in Writers => ~_reject_process_cutover_mutation(t)
    /\ GoTo(t, "connect")
    /\ ok' = ok \ {t}
    /\ sealed' = sealed \ {t}
    /\ torn' = torn \ {t}
    /\ UNCHANGED <<server, conn, pid, fences>>

Connect(t, s) ==
    /\ pc[t] = "connect"
    /\ Checkout(t, s)
    /\ GoTo(t, IF t \in Borrowers THEN "ready"
               ELSE IF t \in Migrators THEN "mtry" ELSE "try")
    /\ UNCHANGED <<locks, tx, fences, outcome>>

ConnectTimeout(t) ==
    /\ pc[t] = "connect"
    /\ GoTo(t, "idle")
    /\ UNCHANGED <<server, conn, pid, fences, outcome>>

(* mutation_write_barrier_on_connection on a connection its caller owns. *)
Borrow(t) ==
    /\ t \in Borrowers /\ pc[t] = "ready"
    /\ ~_reject_process_cutover_mutation(t)
    /\ GoTo(t, "try")
    /\ UNCHANGED <<server, conn, pid, fences, outcome>>

(* The caller closes its connection: rolled back and pooled. *)
CallerCloses(t) ==
    /\ t \in Borrowers /\ pc[t] = "ready" /\ Answers(conn[t])
    /\ ReturnToPool(t)
    /\ tx' = [tx EXCEPT ![conn[t]] = "none"]
    /\ GoTo(t, "idle")
    /\ UNCHANGED <<alive, locks, fences, outcome>>

(* The caller invalidates it (the SQL console always does). *)
CallerInvalidates(t) ==
    /\ t \in Borrowers /\ pc[t] = "ready"
    /\ _cleanup_connection(t)
    /\ GoTo(t, "idle")
    /\ UNCHANGED <<fences, outcome>>

(* pg_try_advisory_lock_shared succeeds; the reply is on its way.  A       *)
(* refusal leaves the task polling.                                        *)
TryShared(t) ==
    /\ t \in Mutators /\ pc[t] = "try"
    /\ Answers(conn[t]) /\ SharedFree
    /\ shared' = shared \cup {conn[t]}
    /\ GoTo(t, "granted")
    /\ UNCHANGED <<alive, pool, excl, waiting, migr, tx, conn, pid, fences,
                   outcome>>

(* pg_try_advisory_lock succeeds at once ... *)
TryExclusive(t) ==
    /\ t \in Exclusives /\ pc[t] = "try"
    /\ Answers(conn[t]) /\ ExclusiveFree /\ waiting = {}
    /\ excl' = excl \cup {conn[t]}
    /\ GoTo(t, "granted")
    /\ UNCHANGED <<alive, pool, shared, waiting, migr, tx, conn, pid, fences,
                   outcome>>

(* Mutant: the exclusive request polls instead of joining the queue. *)
JoinQueuePolls(t) ==
    /\ t \in Exclusives /\ pc[t] = "try"
    /\ Answers(conn[t]) /\ ~(ExclusiveFree /\ waiting = {})
    /\ UNCHANGED vars

(* ... or the task joins PostgreSQL's wait queue with pg_advisory_lock. *)
JoinQueue(t) ==
    /\ t \in Exclusives /\ pc[t] = "try"
    /\ Answers(conn[t]) /\ ~(ExclusiveFree /\ waiting = {})
    /\ waiting' = waiting \cup {conn[t]}
    /\ GoTo(t, "wait")
    /\ UNCHANGED <<alive, pool, shared, excl, migr, tx, conn, pid, fences,
                   outcome>>

(* Mutant: no second look at the fence after the grant. *)
EnterUnchecked(t) ==
    /\ t \in Mutators /\ pc[t] = "granted"
    /\ GoTo(t, "body")
    /\ UNCHANGED <<server, conn, pid, fences, outcome>>

(* The shared grant is observed; _active_lease installs the lease and the  *)
(* fence is checked again before the body runs.                            *)
EnterMutation(t) ==
    /\ t \in Mutators /\ pc[t] = "granted"
    /\ GoTo(t, IF _reject_process_cutover_mutation(t) THEN "release" ELSE "body")
    /\ UNCHANGED <<server, conn, pid, fences, outcome>>

(* The exclusive grant is observed; the migration lock comes second. *)
ObserveExclusive(t) ==
    /\ t \in Exclusives /\ pc[t] = "granted"
    /\ GoTo(t, "mtry")
    /\ UNCHANGED <<server, conn, pid, fences, outcome>>

(* migration_lock_on_connection polls pg_try_advisory_lock. *)
TryMigration(t) ==
    /\ pc[t] = "mtry"
    /\ Answers(conn[t]) /\ migr = {}
    /\ migr' = migr \cup {conn[t]}
    /\ GoTo(t, "mgranted")
    /\ UNCHANGED <<alive, pool, shared, excl, waiting, tx, conn, pid, fences,
                   outcome>>

ObserveMigration(t) ==
    /\ pc[t] = "mgranted"
    /\ GoTo(t, IF t \in Cutovers THEN "verify" ELSE "body")
    /\ UNCHANGED <<server, conn, pid, fences, outcome>>

(* Cancelled after the migration lock was seen: both locks are released    *)
(* in order, without an outcome.                                           *)
CancelMigration(t) ==
    /\ pc[t] = "mgranted"
    /\ GoTo(t, "exit")
    /\ UNCHANGED <<server, conn, pid, fences, outcome>>

(* Mutant: the suspect connection is closed, which returns it to the pool. *)
AbandonToPool(t) ==
    /\ pc[t] \in {"try", "wait", "granted", "mtry", "mgranted"}
    /\ ReturnToPool(t)
    /\ GoTo(t, "idle")
    /\ UNCHANGED <<alive, locks, tx, fences, outcome>>

(* Timeout, cancellation or a lost session before the acquisition is       *)
(* proven: the session is invalidated, never pooled.                       *)
AbandonAcquisition(t) ==
    /\ pc[t] \in {"try", "wait", "granted", "mtry", "mgranted"}
    /\ _cleanup_connection(t)
    /\ GoTo(t, "idle")
    /\ UNCHANGED <<fences, outcome>>

-----------------------------------------------------------------------------
(* The body. *)

BeginTx(t) ==
    /\ t \in Mutators \cup Migrators /\ pc[t] = "body"
    /\ conn[t] = pid[t] /\ Answers(conn[t]) /\ tx[conn[t]] = "none"
    /\ tx' = [tx EXCEPT ![conn[t]] = "open"]
    /\ UNCHANGED <<alive, pool, locks, client, fences, outcome>>

(* Mutant: a caller commits after it has left the barrier. *)
SendCommitLate(t) ==
    /\ pc[t] \in {"body", "ready"}
    /\ conn[t] = pid[t] /\ conn[t] \in alive /\ tx[conn[t]] = "open"
    /\ tx' = [tx EXCEPT ![conn[t]] = Origin(t)]
    /\ UNCHANGED <<alive, pool, locks, client, fences, outcome>>

(* A transaction stays bound to the session it was begun on. *)
SendCommit(t) ==
    /\ pc[t] = "body"
    /\ conn[t] = pid[t] /\ conn[t] \in alive /\ tx[conn[t]] = "open"
    /\ tx' = [tx EXCEPT ![conn[t]] = Origin(t)]
    /\ UNCHANGED <<alive, pool, locks, client, fences, outcome>>

(* SQLAlchemy replaces a dead session behind the lease. *)
Reconnect(t, s) ==
    /\ pc[t] = "body" /\ conn[t] \notin alive
    /\ Fresh(s)
    /\ alive' = alive \cup {s}
    /\ conn' = [conn EXCEPT ![t] = s]
    /\ UNCHANGED <<pool, locks, tx, pc, pid, fences, outcome>>

(* Mutant: the backup is sealed inside the barrier. *)
EndBodySeals(t) ==
    /\ pc[t] = "body"
    /\ ok' = ok
    /\ sealed' = sealed \cup ({t} \cap Backups)
    /\ GoTo(t, IF t \in Mutators THEN "release" ELSE "exit")
    /\ UNCHANGED <<server, conn, pid, fences, torn>>

(* The body returns; an exclusive body may have produced a result. *)
EndBody(t) ==
    /\ pc[t] = "body"
    /\ \/ ok' = ok \cup ({t} \cap Exclusives)
       \/ ok' = ok
    /\ GoTo(t, IF t \in Mutators THEN "release" ELSE "exit")
    /\ UNCHANGED <<server, conn, pid, fences, sealed, torn>>

-----------------------------------------------------------------------------
(* Release, in reverse order, proving ownership. *)

(* pg_advisory_unlock of the migration lock returned true. *)
UnlockMigration(t) ==
    /\ t \in Exclusives /\ pc[t] = "exit"
    /\ Answers(conn[t]) /\ conn[t] \in migr
    /\ migr' = migr \ {conn[t]}
    /\ GoTo(t, "release")
    /\ UNCHANGED <<alive, pool, shared, excl, waiting, tx, conn, pid, fences,
                   outcome>>

(* migration_lock: unlock and return the connection. *)
EndMigration(t) ==
    /\ t \in Migrators /\ pc[t] = "exit"
    /\ Answers(conn[t]) /\ conn[t] \in migr
    /\ migr' = migr \ {conn[t]}
    /\ tx' = [tx EXCEPT ![conn[t]] = "none"]
    /\ ReturnToPool(t)
    /\ GoTo(t, "idle")
    /\ UNCHANGED <<alive, shared, excl, waiting, fences, outcome>>

(* The unlock ran on the original backend and returned true. *)
OwnsBarrier(t) ==
    /\ conn[t] = pid[t]
    /\ conn[t] \in (IF t \in Mutators THEN shared ELSE excl)

(* _release_lease on an owned connection: rollback, unlock, close. *)
ReleaseOwned(t) ==
    /\ t \notin Borrowers /\ pc[t] = "release"
    /\ Answers(conn[t]) /\ OwnsBarrier(t)
    /\ shared' = shared \ {conn[t]}
    /\ excl' = excl \ {conn[t]}
    /\ tx' = [tx EXCEPT ![conn[t]] = "none"]
    /\ ReturnToPool(t)
    /\ _release_process_cutover_fence(t)
    /\ sealed' = sealed \cup ({t} \cap ok \cap Backups)
    /\ GoTo(t, "idle")
    /\ UNCHANGED <<alive, waiting, migr, ok, torn>>

(* _release_lease on a borrowed connection: unlock only, the caller goes on. *)
ReleaseBorrowed(t) ==
    /\ t \in Borrowers /\ pc[t] = "release"
    /\ Answers(conn[t]) /\ OwnsBarrier(t)
    /\ shared' = shared \ {conn[t]}
    /\ GoTo(t, "ready")
    /\ UNCHANGED <<alive, pool, excl, waiting, migr, tx, conn, pid, fences,
                   outcome>>

(* Mutant: the fence is lowered on a clean release only. *)
ReleaseFailsFenced(t) ==
    /\ pc[t] \in {"exit", "release"}
    /\ _cleanup_connection(t)
    /\ GoTo(t, "idle")
    /\ UNCHANGED <<fences, outcome>>

(* Any other answer, an error or a cancellation: the session is            *)
(* invalidated and the operation reports failure.                          *)
ReleaseFails(t) ==
    /\ pc[t] \in {"exit", "release"}
    /\ _cleanup_connection(t)
    /\ _release_process_cutover_fence(t)
    /\ GoTo(t, "idle")
    /\ UNCHANGED outcome

-----------------------------------------------------------------------------
(* The retained barrier of the destructive cutover. *)

(* assert_write_barrier_held: this backend is the lease's and owns the lock. *)
assert_write_barrier_held(t) ==
    /\ Answers(conn[t])
    /\ conn[t] = pid[t]
    /\ conn[t] \in excl

(* verify_held before the guard is returned; the reply is on its way. *)
VerifyHeld(t) ==
    /\ pc[t] = "verify"
    /\ assert_write_barrier_held(t)
    /\ GoTo(t, "verified")
    /\ UNCHANGED <<server, conn, pid, fences, outcome>>

_activate_process_cutover_fence(t) ==
    /\ pc[t] = "verified"
    /\ fence' = fence + 1
    /\ fenced' = fenced \cup {t}
    /\ GoTo(t, "fenced")
    /\ UNCHANGED <<server, conn, pid, outcome>>

(* The restore verifies the guard again below the fence ... *)
VerifyGuard(t) ==
    /\ pc[t] = "fenced"
    /\ assert_write_barrier_held(t)
    /\ GoTo(t, "reverified")
    /\ UNCHANGED <<server, conn, pid, fences, outcome>>

(* ... and starts replacing files and database. *)
BeginCutover(t) ==
    /\ pc[t] = "reverified"
    /\ GoTo(t, "cut")
    /\ UNCHANGED <<server, conn, pid, fences, outcome>>

(* RetainedBackupWriteBarrier.close: a failed verification, or a cutover   *)
(* that was rolled back.                                                   *)
CloseRetained(t) ==
    /\ pc[t] \in {"verify", "verified", "fenced", "reverified", "cut"}
    /\ GoTo(t, "exit")
    /\ UNCHANGED <<server, conn, pid, fences, outcome>>

(* exec, or a crash: the process image of this process disappears and its  *)
(* sockets close.  A successful cutover ends here.                         *)
ProcessReplaced ==
    /\ pc' = [t \in Tasks |-> IF t \in Local THEN "idle" ELSE pc[t]]
    /\ conn' = [t \in Tasks |-> IF t \in Local THEN None ELSE conn[t]]
    /\ pid' = [t \in Tasks |-> IF t \in Local THEN None ELSE pid[t]]
    /\ pool' = {}
    /\ fence' = 0 /\ fenced' = {}
    /\ UNCHANGED <<alive, locks, tx, outcome>>

-----------------------------------------------------------------------------
TaskNext(t) ==
    \/ Start(t) \/ ConnectTimeout(t) \/ \E s \in Sessions : Connect(t, s)
    \/ Borrow(t) \/ CallerCloses(t) \/ CallerInvalidates(t)
    \/ TryShared(t) \/ TryExclusive(t) \/ JoinQueue(t)
    \/ EnterMutation(t) \/ ObserveExclusive(t)
    \/ TryMigration(t) \/ ObserveMigration(t) \/ CancelMigration(t)
    \/ AbandonAcquisition(t)
    \/ BeginTx(t) \/ SendCommit(t) \/ EndBody(t)
    \/ \E s \in Sessions : Reconnect(t, s)
    \/ UnlockMigration(t) \/ EndMigration(t)
    \/ ReleaseOwned(t) \/ ReleaseBorrowed(t) \/ ReleaseFails(t)
    \/ VerifyHeld(t) \/ _activate_process_cutover_fence(t)
    \/ VerifyGuard(t) \/ BeginCutover(t) \/ CloseRetained(t)

ServerNext(s) ==
    \/ SessionLost(s) \/ OrphanExits(s) \/ GrantWaiter(s) \/ CommitLands(s)

Next ==
    \/ \E t \in Tasks : TaskNext(t)
    \/ \E s \in Sessions : ServerNext(s)
    \/ ProcessReplaced

Spec == Init /\ [][Next]_vars

(* What the code guarantees to do once it is scheduled: a request that was *)
(* answered goes on, a body ends, a release is attempted, a dead session   *)
(* is reported as an error and the migration lock has a deadline.  Nothing *)
(* forces a task to start, to time out of the queue or a session to die.   *)
Advance(t) ==
    \/ TryExclusive(t) \/ JoinQueue(t)
    \/ EnterMutation(t) \/ ObserveExclusive(t) \/ ObserveMigration(t)
    \/ EndBody(t) \/ UnlockMigration(t) \/ EndMigration(t)
    \/ ReleaseOwned(t) \/ ReleaseBorrowed(t) \/ ReleaseFails(t)
    \/ CallerCloses(t) \/ CallerInvalidates(t)
    \/ AbandonAcquisition(t) /\ (pc[t] = "mtry" \/ conn[t] \notin alive)

(* PostgreSQL serves its wait queue in order, so a waiter that is          *)
(* repeatedly grantable is granted: strong fairness for GrantWaiter.       *)
Fairness ==
    /\ \A t \in Tasks : WF_vars(Advance(t))
    /\ \A s \in Sessions : /\ WF_vars(OrphanExits(s))
                            /\ WF_vars(CommitLands(s))
                            /\ SF_vars(GrantWaiter(s))

FairSpec == Spec /\ Fairness

-----------------------------------------------------------------------------
(* Safety. *)

(* A session in the pool holds no lock, waits for none and has no          *)
(* transaction: whatever reply was lost or task cancelled during           *)
(* acquisition and release, the next user of the connection starts clean.  *)
PoolClean ==
    \A s \in pool : /\ s \notin shared \cup excl \cup waiting \cup migr
                    /\ tx[s] = "none"

(* Every COMMIT on its way is still covered by the lock its transaction    *)
(* ran under, also on a session its client has already given up.           *)
CommitsCovered ==
    \A s \in Sessions : tx[s] \in Committing => s \in shared \cup migr

(* A sealed backup copied a quiet system: no mutation and no migration     *)
(* took effect between the first and the last read of its body, even if    *)
(* its own session died and was replaced meanwhile.                        *)
SealedClean == sealed \cap torn = {}

(* While a cutover replaces files and database, no mutation of this        *)
(* process takes effect, also when the session that holds the exclusive    *)
(* lock is lost and a writer that was already queued gets the lock.        *)
CutoverClean == \A c \in Cutovers : pc[c] = "cut" => c \notin torn

(* The fence is up exactly while some retained guard has raised it: no     *)
(* path of a cutover leaves the process rejecting mutations for ever, and  *)
(* none lowers the fence of another.                                       *)
FenceBalanced ==
    /\ fence = Cardinality(fenced)
    /\ \A c \in Cutovers :
          /\ pc[c] \in {"fenced", "reverified", "cut"} => c \in fenced
          /\ c \in fenced => pc[c] \in {"fenced", "reverified", "cut",
                                       "exit", "release"}

(* Liveness: a stream of mutations cannot keep a backup out.  Once it has  *)
(* asked for the exclusive mode it gets it, unless it gives up itself,     *)
(* because later shared requests queue behind it while the holders drain.  *)
ExclusiveServed ==
    \A t \in Exclusives :
        pc[t] \in {"try", "wait"} ~> pc[t] \notin {"try", "wait"}
=============================================================================
