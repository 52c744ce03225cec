--------------------------- MODULE Storage_proofs ---------------------------
(***************************************************************************)
(* Proofs about the record storage transaction (RecordStorage) and about   *)
(* the store below it (FileStorage), for any number of tasks, files,       *)
(* operations in a batch, directories and faults.                          *)
(*                                                                         *)
(* RecordStorage.  What is deleted depends on what the row references, and *)
(* the row may be changed by a COMMIT that lands after its task gave up.   *)
(* SInv therefore speaks of a task and of its transaction apart (Stages),  *)
(* says who may still know a new file name (Secret, OutOfReach), and what  *)
(* a reconciliation has found out (Reconciled).                            *)
(*                                                                         *)
(* FileStorage.  FInv has two halves: who holds the barrier, on which      *)
(* backend, and what a switch has already written (BInv); and which names  *)
(* are whose, so that a deletion or an undo never reaches a file another   *)
(* upload has written or the row has taken (NInv).  A thumbnail is always  *)
(* explained by its original, by a deletion about to remove it or by the   *)
(* history of the overlaps the code cannot see (Thumbs).                   *)
(***************************************************************************)
EXTENDS MCRecordStorage, TLAPS

(* A task that has, or whose COMMIT has, something still to do. *)
Active(t) == pc[t] # "idle" \/ tx[t] # "none"

(* How the steps of a task and the fate of its transaction go together. *)
InBody == {"read", "plan", "written", "finished", "rolled_back"}

Stages ==
    \A t \in Tasks :
        /\ pc[t] \in InBody => tx[t] \in {"open", "failed"}
        /\ pc[t] = "idle" => tx[t] # "open"
        /\ pc[t] = "committing" => tx[t] \in {"commit", "done", "failed"}
        /\ pc[t] = "reconciled" => tx[t] \in {"done", "failed"}
        /\ pc[t] \in {"post", "flush"} => tx[t] = "done"
        /\ pc[t] # "idle" => tx[t] # "none"
        /\ tx[t] = "open" => session[t]
        /\ pc[t] \in InBody /\ session[t] => tx[t] = "open"
        /\ pc[t] \notin {"plan", "rolled_back"} => seen[t] = NoRow /\ fresh[t] = {}
        /\ pc[t] = "idle" => created[t] = {} /\ deferred[t] = {} /\ final[t] = {}
        /\ lock = t => tx[t] \in {"open", "commit"}
        /\ lock # t => pending[t] = NoRow

(* Names are given out once. *)
Names ==
    /\ files \subseteq used /\ Refs(row) \subseteq used
    /\ \A t \in Tasks :
          /\ fresh[t] \subseteq created[t] /\ created[t] \subseteq used
          /\ deferred[t] \subseteq used
          /\ Refs(seen[t]) \subseteq used /\ Refs(pending[t]) \subseteq used
    /\ \A t, u \in Tasks : t # u => created[t] \cap created[u] = {}

(* Nobody but t can bring f into the row. *)
OutOfReach(t, f) ==
    /\ f \notin Refs(row)
    /\ \A u \in Tasks \ {t} : f \notin Refs(seen[u]) \cup Refs(pending[u])

(* How many transactions can be under way. *)
Width ==
    /\ overlaps = 0 => \A t, u \in Tasks : Active(t) /\ Active(u) => t = u
    /\ overlaps <= 1 => \A t, u, v \in Tasks : Active(t) /\ Active(u) /\ Active(v)
                            => t = u \/ u = v \/ t = v

(* A file of a transaction that has not taken effect is its own secret;    *)
(* one that has, and that the row lost again, stays lost with two.         *)
Secret ==
    \A t \in Tasks : \A f \in created[t] :
        /\ tx[t] # "done" => OutOfReach(t, f)
        /\ tx[t] = "done" /\ overlaps <= 1 /\ f \notin Refs(row) => OutOfReach(t, f)

Reconciled ==
    \A t \in Tasks : pc[t] = "reconciled" =>
        \A f \in created[t] \ final[t] :
            tx[t] # "done" \/ overlaps <= 1 => OutOfReach(t, f)

-----------------------------------------------------------------------------
(* One transaction after the other. *)

(* What the row holds, or may come to hold, is stored. *)
Stored ==
    /\ Refs(row) \subseteq files
    /\ \A t \in Tasks : Refs(pending[t]) \cup Refs(seen[t]) \cup fresh[t] \subseteq files

(* The references the transaction looked up are the ones it commits. *)
LookedUp ==
    \A t \in Tasks :
        /\ pc[t] = "plan" /\ session[t] => seen[t] = View(t)
        /\ pc[t] \in {"finished", "committing", "post", "flush"} /\ _affected_records(t)
             => /\ tx[t] \in {"open", "commit"} => final[t] = Refs(View(t))
                /\ tx[t] = "done" => final[t] = Refs(row)

(* Where a stored file the row does not hold comes from. *)
Accounted ==
    /\ \A f \in files : \/ f \in Refs(row) \cup excused
                        \/ \E t \in Tasks : f \in created[t] \cup deferred[t]
    /\ \A t \in Tasks :
          /\ tx[t] \in {"open", "commit"}
               => Refs(row) \subseteq Refs(View(t)) \cup deferred[t] \cup excused
          /\ pc[t] # "idle" /\ tx[t] \in {"open", "commit", "failed"}
               => Refs(pending[t]) \cup Refs(seen[t]) \cup deferred[t]
                    \subseteq Refs(row) \cup created[t] \cup excused
          /\ pc[t] = "reconciled"
               => deferred[t] \cup (created[t] \cap final[t])
                    \subseteq Refs(row) \cup excused
          /\ pc[t] = "flush"
               => (created[t] \ final[t]) \cap files \subseteq excused

Serial == overlaps = 0 => Stored /\ LookedUp /\ Accounted

SInv == TypeOK /\ Stages /\ Names /\ Width /\ Secret /\ Reconciled /\ Serial

-----------------------------------------------------------------------------
(* A row is its references, or there is none. *)
LEMMA RowFacts ==
    /\ NoRow \in Rows /\ Refs(NoRow) = {}
    /\ \A r \in Rows : Refs(r) \in SUBSET Files
    /\ \A k \in SUBSET Files : k \in Rows /\ k # NoRow /\ Refs(k) = k
    /\ \A r \in Rows : r # NoRow => r \in SUBSET Files
<1>1. NoRow \in Rows /\ Refs(NoRow) = {}
  BY DEF NoRow, Rows, Refs
<1>2. ASSUME NEW k \in SUBSET Files PROVE k \in Rows /\ k # NoRow /\ Refs(k) = k
  <2>1. Missing \notin k /\ Missing \in NoRow
    BY MissingAssumption DEF NoRow
  <2>2. k # NoRow
    BY <2>1
  <2> QED
    BY <2>2 DEF Rows, Refs
<1>3. ASSUME NEW r \in Rows, r # NoRow PROVE r \in SUBSET Files
  BY <1>3 DEF Rows
<1>4. ASSUME NEW r \in Rows PROVE Refs(r) \in SUBSET Files
  BY <1>1, <1>2, <1>3
<1> QED
  BY <1>1, <1>2, <1>3, <1>4

(* Before the first mutation. *)
LEMMA InitSInv == Init => SInv
<1> SUFFICES ASSUME Init PROVE SInv
  OBVIOUS
<1> USE RowFacts, MaxOpsAssumption, TasksAssumption DEF Init
<1>1. TypeOK
  BY DEF TypeOK
<1>2. Stages /\ Names /\ Width
  BY DEF Stages, Names, Width, InBody, Active
<1>3. Secret /\ Reconciled
  BY DEF Secret, Reconciled
<1>4. Serial
  BY DEF Serial, Stored, LookedUp, Accounted, View
<1> QED
  BY <1>1, <1>2, <1>3, <1>4 DEF SInv

(* The steps of a task, in three groups. *)
InTransaction(t) ==
    \/ ReadRow(t) \/ (\E f \in Files : SaveFile(t, f)) \/ create_record(t)
    \/ delete_record(t) \/ NothingToWrite(t)
    \/ (\E keep \in SUBSET Files : update_record(t, keep)) \/ NextOp(t)
    \/ FinishBody(t) \/ BodyFails(t)

Commits(t) ==
    \/ SendCommit(t) \/ CommitLands(t) \/ CommitFails(t) \/ SessionLost(t)
    \/ CommitAcknowledged(t) \/ CommitErrors(t)

Afterwards(t) ==
    \/ PreserveFiles(t) \/ _cleanup_created_files(t)
    \/ _reconcile_durable_references(t) \/ CleanupReconciled(t)
    \/ _cleanup_unreferenced_created_files(t)
    \/ flush_deferred_storage_deletes(t) \/ Crash(t) \/ ForgetTx(t)

(* A transaction begins, alone or not. *)
LEMMA BeginStep == ASSUME SInv, NEW t \in Tasks, Begin(t) PROVE SInv'
<1> USE RowFacts, MaxOpsAssumption, TasksAssumption
    DEF SInv, TypeOK, Stages, Names, Width, Secret, Reconciled, Serial, Stored,
        LookedUp, Accounted, Active, InBody, OutOfReach, View, Nobody,
        Overlapped, Begin, _affected_records, tables, locals, GoTo
<1>1. TypeOK' /\ Stages' /\ Names'
  OBVIOUS
<1>2. Width'
  OBVIOUS
<1>3. Secret' /\ Reconciled'
  OBVIOUS
<1>4. Serial'
  OBVIOUS
<1> HIDE DEF TypeOK, Stages, Names, Width, Secret, Reconciled, Serial
<1> QED
  BY <1>1, <1>2, <1>3, <1>4

(* The transaction body. *)
LEMMA BodyStep ==
    ASSUME SInv, NEW t \in Tasks, InTransaction(t), UNCHANGED overlaps
    PROVE  SInv'
<1> USE RowFacts, MaxOpsAssumption, TasksAssumption
    DEF SInv, TypeOK, Stages, Names, Width, Secret, Reconciled, Serial, Stored,
        LookedUp, Accounted, Active, InBody, OutOfReach, View, Nobody,
        Overlapped, _affected_records, tables, locals, GoTo,
        Writes, WritesIfThere, EndOp, Column
<1>1. CASE ReadRow(t)
  BY <1>1 DEF ReadRow
<1>2. CASE \E f \in Files : SaveFile(t, f)
  BY <1>2 DEF SaveFile
<1>3. CASE create_record(t)
  <2>1. TypeOK'
    BY <1>3 DEF create_record
  <2>2. Stages'
    BY <1>3 DEF create_record
  <2>3. Names'
    BY <1>3 DEF create_record
  <2>4. Width'
    BY <1>3 DEF create_record
  <2>5. Secret'
    BY <1>3 DEF create_record
  <2>6. Reconciled'
    BY <1>3 DEF create_record
  <2>7. overlaps = 0 => Stored'
    BY <1>3 DEF create_record
  <2>8. overlaps = 0 => LookedUp'
    BY <1>3 DEF create_record
  <2>9. overlaps = 0 => Accounted'
    <3> SUFFICES ASSUME overlaps = 0 PROVE Accounted'
      OBVIOUS
    <3>0. \A u \in Tasks \ {t} : ~Active(u)
      BY <1>3 DEF create_record
    <3>1. \A f \in files' :
             \/ f \in (Refs(row) \cup excused)'
             \/ \E u \in Tasks : f \in (created[u] \cup deferred[u])'
      BY <1>3, <3>0 DEF create_record
    <3>2. ASSUME NEW u \in Tasks, tx'[u] \in {"open", "commit"}
          PROVE  (Refs(row) \subseteq Refs(View(u)) \cup deferred[u] \cup excused)'
      BY <1>3, <3>0, <3>2 DEF create_record
    <3>3. ASSUME NEW u \in Tasks, pc'[u] # "idle", tx'[u] \in {"open", "commit", "failed"}
          PROVE  (Refs(pending[u]) \cup Refs(seen[u]) \cup deferred[u]
                    \subseteq Refs(row) \cup created[u] \cup excused)'
      <4>1. CASE u # t
        BY <1>3, <3>0, <3>3, <4>1 DEF create_record
      <4>2. CASE u = t
        <5>1. tx[t] = "open" /\ pc[t] = "plan" /\ row' = row /\ excused' = excused
          BY <1>3 DEF create_record
        <5>2. Refs(pending[t]) \cup Refs(seen[t]) \cup deferred[t] \cup fresh[t]
                \subseteq Refs(row) \cup created[t] \cup excused
          BY <5>1
        <5>3. Refs(pending'[t]) \cup deferred'[t]
                \subseteq Refs(row) \cup created[t] \cup excused
          BY <1>3, <5>1, <5>2 DEF create_record
        <5>4. seen'[t] = NoRow /\ created' = created
          BY <1>3 DEF create_record
        <5> QED
          BY <4>2, <5>1, <5>3, <5>4
      <4> QED
        BY <4>1, <4>2
    <3>4. ASSUME NEW u \in Tasks, pc'[u] = "reconciled"
          PROVE  (deferred[u] \cup (created[u] \cap final[u])
                    \subseteq Refs(row) \cup excused)'
      BY <1>3, <3>0, <3>4 DEF create_record
    <3>5. ASSUME NEW u \in Tasks, pc'[u] = "flush"
          PROVE  ((created[u] \ final[u]) \cap files \subseteq excused)'
      BY <1>3, <3>0, <3>5 DEF create_record
    <3> QED
      BY <3>1, <3>2, <3>3, <3>4, <3>5
  <2> HIDE DEF TypeOK, Stages, Names, Width, Secret, Reconciled, Stored,
              LookedUp, Accounted
  <2> QED
    BY <2>1, <2>2, <2>3, <2>4, <2>5, <2>6, <2>7, <2>8, <2>9, <1>3 DEF create_record
<1>4. CASE delete_record(t)
  BY <1>4 DEF delete_record
<1>5. CASE NothingToWrite(t)
  BY <1>5 DEF NothingToWrite
<1>6. CASE \E keep \in SUBSET Files : update_record(t, keep)
  <2> SUFFICES ASSUME NEW keep \in SUBSET Files, update_record(t, keep) PROVE SInv'
    BY <1>6
  <2>1. TypeOK'
    BY DEF update_record
  <2>2. Stages'
    BY DEF update_record
  <2>3. Names'
    BY DEF update_record
  <2>4. Width'
    BY DEF update_record
  <2>5. Secret'
    BY DEF update_record
  <2>6. Reconciled'
    BY DEF update_record
  <2>7. overlaps = 0 => Stored'
    <3> SUFFICES ASSUME overlaps = 0 PROVE Stored'
      OBVIOUS
    <3>0. \A u \in Tasks \ {t} : ~Active(u)
      BY DEF update_record
    <3>1. (Refs(row) \subseteq files)'
      BY <3>0 DEF update_record
    <3>2. ASSUME NEW u \in Tasks PROVE (Refs(pending[u]) \subseteq files)'
      BY <3>0, <3>2 DEF update_record
    <3>3. ASSUME NEW u \in Tasks PROVE (Refs(seen[u]) \cup fresh[u] \subseteq files)'
      BY <3>0, <3>3 DEF update_record
    <3> QED
      BY <3>1, <3>2, <3>3
  <2>8. overlaps = 0 => LookedUp'
    BY DEF update_record
  <2>9. overlaps = 0 => Accounted'
    <3> SUFFICES ASSUME overlaps = 0 PROVE Accounted'
      OBVIOUS
    <3>0. \A u \in Tasks \ {t} : ~Active(u)
      BY DEF update_record
    <3>1. \A f \in files' :
             \/ f \in (Refs(row) \cup excused)'
             \/ \E u \in Tasks : f \in (created[u] \cup deferred[u])'
      BY <3>0 DEF update_record
    <3>2. ASSUME NEW u \in Tasks, tx'[u] \in {"open", "commit"}
          PROVE  (Refs(row) \subseteq Refs(View(u)) \cup deferred[u] \cup excused)'
      BY <3>0, <3>2 DEF update_record
    <3>3. ASSUME NEW u \in Tasks, pc'[u] # "idle", tx'[u] \in {"open", "commit", "failed"}
          PROVE  (Refs(pending[u]) \cup Refs(seen[u]) \cup deferred[u]
                    \subseteq Refs(row) \cup created[u] \cup excused)'
      <4>1. CASE u # t
        BY <3>0, <3>3, <4>1 DEF update_record
      <4>2. CASE u = t
        <5>1. tx[t] = "open" /\ pc[t] = "plan" /\ row' = row /\ excused' = excused
          BY DEF update_record
        <5>2. Refs(pending[t]) \cup Refs(seen[t]) \cup deferred[t] \cup fresh[t]
                \subseteq Refs(row) \cup created[t] \cup excused
          BY <5>1
        <5>3. Refs(pending'[t]) \cup deferred'[t]
                \subseteq Refs(row) \cup created[t] \cup excused
          <6>1. Refs(pending'[t]) \subseteq Refs(row) \cup created[t] \cup excused
            <7>1. CASE pending'[t] = keep
              BY <5>2, <7>1 DEF update_record
            <7>2. CASE pending'[t] \in {pending[t], row}
              BY <5>2, <7>2
            <7> QED
              BY <7>1, <7>2 DEF update_record
          <6>2. deferred'[t] = deferred[t] \cup (seen[t] \ keep) /\ seen[t] # NoRow
            BY DEF update_record
          <6>3. Refs(seen[t]) = seen[t]
            BY <6>2
          <6> QED
            BY <5>2, <6>1, <6>2, <6>3
        <5>4. seen'[t] = NoRow /\ created' = created
          BY DEF update_record
        <5> QED
          BY <4>2, <5>1, <5>3, <5>4
      <4> QED
        BY <4>1, <4>2
    <3>4. ASSUME NEW u \in Tasks, pc'[u] = "reconciled"
          PROVE  (deferred[u] \cup (created[u] \cap final[u])
                    \subseteq Refs(row) \cup excused)'
      BY <3>0, <3>4 DEF update_record
    <3>5. ASSUME NEW u \in Tasks, pc'[u] = "flush"
          PROVE  ((created[u] \ final[u]) \cap files \subseteq excused)'
      BY <3>0, <3>5 DEF update_record
    <3> QED
      BY <3>1, <3>2, <3>3, <3>4, <3>5
  <2> HIDE DEF TypeOK, Stages, Names, Width, Secret, Reconciled, Stored,
              LookedUp, Accounted
  <2> QED
    BY <2>1, <2>2, <2>3, <2>4, <2>5, <2>6, <2>7, <2>8, <2>9 DEF update_record, EndOp
<1>7. CASE NextOp(t)
  BY <1>7 DEF NextOp
<1>8. CASE FinishBody(t)
  BY <1>8 DEF FinishBody
<1>9. CASE BodyFails(t)
  BY <1>9 DEF BodyFails
<1> QED
  BY <1>1, <1>2, <1>3, <1>4, <1>5, <1>6, <1>7, <1>8, <1>9 DEF InTransaction

(* The commit, as the server and as the client sees it. *)
LEMMA CommitStep ==
    ASSUME SInv, NEW t \in Tasks, Commits(t), UNCHANGED overlaps
    PROVE  SInv'
<1> USE RowFacts, MaxOpsAssumption, TasksAssumption
    DEF SInv, TypeOK, Stages, Names, Width, Secret, Reconciled, Serial, Stored,
        LookedUp, Accounted, Active, InBody, OutOfReach, View, Nobody,
        Overlapped, _affected_records, tables, locals, GoTo,
        Unlock, RollbackOpen
<1>1. CASE SendCommit(t)
  BY <1>1 DEF SendCommit
<1>2. CASE CommitLands(t)
  <2>1. TypeOK'
    BY <1>2 DEF CommitLands
  <2>2. Stages'
    BY <1>2 DEF CommitLands
  <2>3. Names'
    BY <1>2 DEF CommitLands
  <2>4. Width'
    BY <1>2 DEF CommitLands
  <2>5. Secret'
    <3> SUFFICES ASSUME NEW u \in Tasks, NEW f \in created[u]
                 PROVE  /\ tx'[u] # "done" => OutOfReach(u, f)'
                        /\ tx'[u] = "done" /\ overlaps <= 1 /\ f \notin Refs(row')
                             => OutOfReach(u, f)'
      BY <1>2 DEF CommitLands
    <3>1. CASE u = t
      BY <1>2, <3>1 DEF CommitLands
    <3>2. CASE u # t /\ tx[u] # "done"
      BY <1>2, <3>2 DEF CommitLands
    <3>3. CASE u # t /\ tx[u] = "done"
      <4> SUFFICES ASSUME overlaps <= 1, f \notin Refs(row'),
                          NEW v \in Tasks \ {u}
                   PROVE  f \notin Refs(seen[v]) \cup Refs(pending'[v])
        BY <1>2, <3>3 DEF CommitLands
      <4>1. CASE v = t
        <5>1. seen[t] = NoRow /\ pending'[t] = NoRow
          BY <1>2 DEF CommitLands
        <5> QED
          BY <4>1, <5>1
      <4>2. CASE v # t
        <5>1. ~Active(v)
          BY <1>2, <3>3, <4>2 DEF CommitLands
        <5> QED
          BY <1>2, <4>2, <5>1 DEF CommitLands
      <4> QED
        BY <4>1, <4>2
    <3> QED
      BY <3>1, <3>2, <3>3
  <2>6. Reconciled'
    BY <1>2 DEF CommitLands
  <2>7. overlaps = 0 => Stored'
    BY <1>2 DEF CommitLands
  <2>8. overlaps = 0 => LookedUp'
    BY <1>2 DEF CommitLands
  <2>9. overlaps = 0 => Accounted'
    BY <1>2 DEF CommitLands
  <2> HIDE DEF TypeOK, Stages, Names, Width, Secret, Reconciled, Stored,
              LookedUp, Accounted
  <2> QED
    BY <2>1, <2>2, <2>3, <2>4, <2>5, <2>6, <2>7, <2>8, <2>9, <1>2 DEF CommitLands
<1>3. CASE CommitFails(t)
  <2>1. TypeOK'
    BY <1>3 DEF CommitFails
  <2>2. Stages'
    BY <1>3 DEF CommitFails
  <2>3. Names'
    BY <1>3 DEF CommitFails
  <2>4. Width'
    BY <1>3 DEF CommitFails
  <2>5. Secret'
    BY <1>3 DEF CommitFails
  <2>6. Reconciled'
    BY <1>3 DEF CommitFails
  <2>7. overlaps = 0 => Stored'
    BY <1>3 DEF CommitFails
  <2>8. overlaps = 0 => LookedUp'
    BY <1>3 DEF CommitFails
  <2>9. overlaps = 0 => Accounted'
    BY <1>3 DEF CommitFails
  <2> HIDE DEF TypeOK, Stages, Names, Width, Secret, Reconciled, Stored,
              LookedUp, Accounted
  <2> QED
    BY <2>1, <2>2, <2>3, <2>4, <2>5, <2>6, <2>7, <2>8, <2>9, <1>3 DEF CommitFails
<1>4. CASE SessionLost(t)
  <2>1. TypeOK'
    BY <1>4 DEF SessionLost
  <2>2. Stages'
    BY <1>4 DEF SessionLost
  <2>3. Names'
    BY <1>4 DEF SessionLost
  <2>4. Width'
    BY <1>4 DEF SessionLost
  <2>5. Secret'
    BY <1>4 DEF SessionLost
  <2>6. Reconciled'
    BY <1>4 DEF SessionLost
  <2>7. overlaps = 0 => Stored'
    BY <1>4 DEF SessionLost
  <2>8. overlaps = 0 => LookedUp'
    BY <1>4 DEF SessionLost
  <2>9. overlaps = 0 => Accounted'
    BY <1>4 DEF SessionLost
  <2> HIDE DEF TypeOK, Stages, Names, Width, Secret, Reconciled, Stored,
              LookedUp, Accounted
  <2> QED
    BY <2>1, <2>2, <2>3, <2>4, <2>5, <2>6, <2>7, <2>8, <2>9, <1>4 DEF SessionLost
<1>5. CASE CommitAcknowledged(t)
  BY <1>5 DEF CommitAcknowledged
<1>6. CASE CommitErrors(t)
  BY <1>6 DEF CommitErrors
<1> QED
  BY <1>1, <1>2, <1>3, <1>4, <1>5, <1>6 DEF Commits

(* What is undone, kept or flushed after the transaction. *)
LEMMA AfterStep ==
    ASSUME SInv, NEW t \in Tasks, Afterwards(t), UNCHANGED overlaps
    PROVE  SInv'
<1> USE RowFacts, MaxOpsAssumption, TasksAssumption
    DEF SInv, TypeOK, Stages, Names, Width, Secret, Reconciled, Serial, Stored,
        LookedUp, Accounted, Active, InBody, OutOfReach, View, Nobody,
        Overlapped, _affected_records, tables, locals, GoTo,
        Unlock, RollbackOpen, Rollback, Leave, Removes, assert_write_barrier_held
<1>1. CASE PreserveFiles(t)
  BY <1>1 DEF PreserveFiles
<1>2. CASE _cleanup_created_files(t)
  <2>1. TypeOK'
    BY <1>2 DEF _cleanup_created_files
  <2>2. Stages'
    BY <1>2 DEF _cleanup_created_files
  <2>3. Names'
    BY <1>2 DEF _cleanup_created_files
  <2>4. Width'
    BY <1>2 DEF _cleanup_created_files
  <2>5. Secret'
    BY <1>2 DEF _cleanup_created_files
  <2>6. Reconciled'
    BY <1>2 DEF _cleanup_created_files
  <2>7. overlaps = 0 => Stored'
    BY <1>2 DEF _cleanup_created_files
  <2>8. overlaps = 0 => LookedUp'
    BY <1>2 DEF _cleanup_created_files
  <2>9. overlaps = 0 => Accounted'
    BY <1>2 DEF _cleanup_created_files
  <2> HIDE DEF TypeOK, Stages, Names, Width, Secret, Reconciled, Stored,
              LookedUp, Accounted
  <2> QED
    BY <2>1, <2>2, <2>3, <2>4, <2>5, <2>6, <2>7, <2>8, <2>9, <1>2 DEF _cleanup_created_files
<1>3. CASE _reconcile_durable_references(t)
  <2>1. TypeOK'
    BY <1>3 DEF _reconcile_durable_references
  <2>2. Stages'
    BY <1>3 DEF _reconcile_durable_references
  <2>3. Names'
    BY <1>3 DEF _reconcile_durable_references
  <2>4. Width'
    BY <1>3 DEF _reconcile_durable_references
  <2>5. Secret'
    BY <1>3 DEF _reconcile_durable_references
  <2>6. Reconciled'
    <3> SUFFICES ASSUME NEW u \in Tasks, pc'[u] = "reconciled",
                        NEW f \in created[u] \ final'[u],
                        tx'[u] # "done" \/ overlaps <= 1
                 PROVE  OutOfReach(u, f)'
      BY <1>3 DEF _reconcile_durable_references
    <3>1. f \notin Refs(row)
      BY <1>3 DEF _reconcile_durable_references
    <3>2. OutOfReach(u, f)
      BY <1>3, <3>1 DEF _reconcile_durable_references
    <3> QED
      BY <1>3, <3>2 DEF _reconcile_durable_references
  <2>7. overlaps = 0 => Stored'
    BY <1>3 DEF _reconcile_durable_references
  <2>8. overlaps = 0 => LookedUp'
    BY <1>3 DEF _reconcile_durable_references
  <2>9. overlaps = 0 => Accounted'
    BY <1>3 DEF _reconcile_durable_references
  <2> HIDE DEF TypeOK, Stages, Names, Width, Secret, Reconciled, Stored,
              LookedUp, Accounted
  <2> QED
    BY <2>1, <2>2, <2>3, <2>4, <2>5, <2>6, <2>7, <2>8, <2>9, <1>3 DEF _reconcile_durable_references
<1>4. CASE CleanupReconciled(t)
  <2>1. TypeOK'
    BY <1>4 DEF CleanupReconciled
  <2>2. Stages'
    BY <1>4 DEF CleanupReconciled
  <2>3. Names'
    BY <1>4 DEF CleanupReconciled
  <2>4. Width'
    BY <1>4 DEF CleanupReconciled
  <2>5. Secret'
    BY <1>4 DEF CleanupReconciled
  <2>6. Reconciled'
    BY <1>4 DEF CleanupReconciled
  <2>7. overlaps = 0 => Stored'
    BY <1>4 DEF CleanupReconciled
  <2>8. overlaps = 0 => LookedUp'
    BY <1>4 DEF CleanupReconciled
  <2>9. overlaps = 0 => Accounted'
    BY <1>4 DEF CleanupReconciled
  <2> HIDE DEF TypeOK, Stages, Names, Width, Secret, Reconciled, Stored,
              LookedUp, Accounted
  <2> QED
    BY <2>1, <2>2, <2>3, <2>4, <2>5, <2>6, <2>7, <2>8, <2>9, <1>4 DEF CleanupReconciled
<1>5. CASE _cleanup_unreferenced_created_files(t)
  <2>1. TypeOK'
    BY <1>5 DEF _cleanup_unreferenced_created_files
  <2>2. Stages'
    BY <1>5 DEF _cleanup_unreferenced_created_files
  <2>3. Names'
    BY <1>5 DEF _cleanup_unreferenced_created_files
  <2>4. Width'
    BY <1>5 DEF _cleanup_unreferenced_created_files
  <2>5. Secret'
    BY <1>5 DEF _cleanup_unreferenced_created_files
  <2>6. Reconciled'
    BY <1>5 DEF _cleanup_unreferenced_created_files
  <2>7. overlaps = 0 => Stored'
    BY <1>5 DEF _cleanup_unreferenced_created_files
  <2>8. overlaps = 0 => LookedUp'
    BY <1>5 DEF _cleanup_unreferenced_created_files
  <2>9. overlaps = 0 => Accounted'
    BY <1>5 DEF _cleanup_unreferenced_created_files
  <2> HIDE DEF TypeOK, Stages, Names, Width, Secret, Reconciled, Stored,
              LookedUp, Accounted
  <2> QED
    BY <2>1, <2>2, <2>3, <2>4, <2>5, <2>6, <2>7, <2>8, <2>9, <1>5 DEF _cleanup_unreferenced_created_files
<1>6. CASE flush_deferred_storage_deletes(t)
  <2>a. Refs(row) \cap (deferred[t] \ final[t]) = {} \/ overlaps # 0
    <3>1. CASE _affected_records(t)
      BY <1>6, <3>1 DEF flush_deferred_storage_deletes
    <3>2. CASE ~_affected_records(t)
      BY <3>2
    <3> QED
      BY <3>1, <3>2
  <2>b. PICK skipped \in SUBSET ((deferred[t] \ final[t]) \cap files) :
            /\ files' = files \ ((deferred[t] \ final[t]) \ skipped)
            /\ excused' = excused \cup skipped
    BY <1>6 DEF flush_deferred_storage_deletes
  <2>c. \A u \in Tasks : overlaps = 0 => pending'[u] = NoRow
    BY <1>6 DEF flush_deferred_storage_deletes
  <2>1. TypeOK'
    BY <1>6 DEF flush_deferred_storage_deletes
  <2>2. Stages'
    BY <1>6 DEF flush_deferred_storage_deletes
  <2>3. Names'
    BY <1>6 DEF flush_deferred_storage_deletes
  <2>4. Width'
    BY <1>6 DEF flush_deferred_storage_deletes
  <2>5. Secret'
    BY <1>6 DEF flush_deferred_storage_deletes
  <2>6. Reconciled'
    BY <1>6 DEF flush_deferred_storage_deletes
  <2>7. overlaps = 0 => Stored'
    <3> SUFFICES ASSUME overlaps = 0 PROVE Stored'
      OBVIOUS
    <3>0. \A u \in Tasks \ {t} : ~Active(u)
      BY <1>6, <2>a, <2>b, <2>c DEF flush_deferred_storage_deletes
    <3>1. (Refs(row) \subseteq files)'
      BY <1>6, <2>a, <2>b, <2>c, <3>0 DEF flush_deferred_storage_deletes
    <3>2. ASSUME NEW u \in Tasks PROVE (Refs(pending[u]) \subseteq files)'
      BY <1>6, <2>a, <2>b, <2>c, <3>0, <3>2 DEF flush_deferred_storage_deletes
    <3>3. ASSUME NEW u \in Tasks PROVE (Refs(seen[u]) \cup fresh[u] \subseteq files)'
      BY <1>6, <2>a, <2>b, <2>c, <3>0, <3>3 DEF flush_deferred_storage_deletes
    <3> QED
      BY <3>1, <3>2, <3>3
  <2>8. overlaps = 0 => LookedUp'
    BY <1>6 DEF flush_deferred_storage_deletes
  <2>9. overlaps = 0 => Accounted'
    <3> SUFFICES ASSUME overlaps = 0 PROVE Accounted'
      OBVIOUS
    <3>0. \A u \in Tasks \ {t} : ~Active(u)
      BY <1>6, <2>a, <2>b, <2>c DEF flush_deferred_storage_deletes
    <3>1. \A f \in files' :
             \/ f \in (Refs(row) \cup excused)'
             \/ \E u \in Tasks : f \in (created[u] \cup deferred[u])'
      BY <1>6, <2>a, <2>b, <2>c, <3>0 DEF flush_deferred_storage_deletes
    <3>2. ASSUME NEW u \in Tasks, tx'[u] \in {"open", "commit"}
          PROVE  (Refs(row) \subseteq Refs(View(u)) \cup deferred[u] \cup excused)'
      BY <1>6, <2>a, <2>b, <2>c, <3>0, <3>2 DEF flush_deferred_storage_deletes
    <3>3. ASSUME NEW u \in Tasks, pc'[u] # "idle", tx'[u] \in {"open", "commit", "failed"}
          PROVE  (Refs(pending[u]) \cup Refs(seen[u]) \cup deferred[u]
                    \subseteq Refs(row) \cup created[u] \cup excused)'
      BY <1>6, <2>a, <2>b, <2>c, <3>0, <3>3 DEF flush_deferred_storage_deletes
    <3>4. ASSUME NEW u \in Tasks, pc'[u] = "reconciled"
          PROVE  (deferred[u] \cup (created[u] \cap final[u])
                    \subseteq Refs(row) \cup excused)'
      BY <1>6, <2>a, <2>b, <2>c, <3>0, <3>4 DEF flush_deferred_storage_deletes
    <3>5. ASSUME NEW u \in Tasks, pc'[u] = "flush"
          PROVE  ((created[u] \ final[u]) \cap files \subseteq excused)'
      BY <1>6, <2>a, <2>b, <2>c, <3>0, <3>5 DEF flush_deferred_storage_deletes
    <3> QED
      BY <3>1, <3>2, <3>3, <3>4, <3>5
  <2> HIDE DEF TypeOK, Stages, Names, Width, Secret, Reconciled, Stored,
              LookedUp, Accounted
  <2> QED
    BY <2>1, <2>2, <2>3, <2>4, <2>5, <2>6, <2>7, <2>8, <2>9, <1>6 DEF flush_deferred_storage_deletes
<1>7. CASE Crash(t)
  BY <1>7 DEF Crash
<1>8. CASE ForgetTx(t)
  BY <1>8 DEF ForgetTx
<1> QED
  BY <1>1, <1>2, <1>3, <1>4, <1>5, <1>6, <1>7, <1>8 DEF Afterwards

(* SInv is inductive. *)
LEMMA StepSInv == SInv /\ [Next]_vars => SInv'
<1> SUFFICES ASSUME SInv, [Next]_vars PROVE SInv'
  OBVIOUS
<1>1. ASSUME NEW t \in Tasks, Begin(t) PROVE SInv'
  BY <1>1, BeginStep
<1>2. ASSUME NEW t \in Tasks, Proceed(t), UNCHANGED overlaps PROVE SInv'
  <2>1. InTransaction(t) \/ Commits(t) \/ Afterwards(t)
    BY <1>2 DEF Proceed, InTransaction, Commits, Afterwards
  <2> QED
    BY <1>2, <2>1, BodyStep, CommitStep, AfterStep
<1>3. CASE UNCHANGED vars
  BY <1>3 DEF SInv, TypeOK, Stages, Names, Width, Secret, Reconciled, Serial,
              Stored, LookedUp, Accounted, Active, OutOfReach, View,
              _affected_records, tables, locals, vars
<1> QED
  BY <1>1, <1>2, <1>3 DEF Next

(* The inductive invariant holds throughout. *)
THEOREM StorageInductive == Spec => []SInv
  BY InitSInv, StepSInv, PTL DEF Spec

-----------------------------------------------------------------------------
(* Every file the committed row references is in storage, as long as the   *)
(* transactions of the record followed one another                         *)
(* (run_record_storage_transaction), for any number of operations, files   *)
(* and interruptions.                                                      *)
THEOREM ReferencesStored == Spec => []NoDanglingReference
<1>1. SInv => NoDanglingReference
  BY DEF SInv, TypeOK, Serial, Stored, NoDanglingReference, Overlapped,
         FinalReferencesKept
<1> QED
  BY <1>1, StorageInductive, PTL

(* A file that is left over was kept on purpose or by a crash. *)
THEOREM OrphansStayExcused == Spec => []OrphansExcused
<1>1. SInv => OrphansExcused
  BY DEF SInv, TypeOK, Stages, Serial, Accounted, OrphansExcused, Overlapped
<1> QED
  BY <1>1, StorageInductive, PTL

(* _cleanup_created_files and the cleanup after                            *)
(* _reconcile_durable_references spare what the row references, however    *)
(* many other mutations run.                                               *)
THEOREM UndoSpares == Spec => UndoSparesReferenced
<1> DEFINE Spares == \A t \in Tasks :
         pc[t] \in {"reconciled", "cancelled", "rolled_back"}
            /\ pc'[t] = "idle" /\ (tx[t] = "done" => overlaps <= 1)
         => (files \ files') \cap Refs(row) = {}
<1>1. SInv /\ Next => Spares
  <2> SUFFICES ASSUME SInv, Next, NEW t \in Tasks,
                      pc[t] \in {"reconciled", "cancelled", "rolled_back"},
                      pc'[t] = "idle", tx[t] = "done" => overlaps <= 1
               PROVE  (files \ files') \cap Refs(row) = {}
    OBVIOUS
  <2>1. PICK u \in Tasks : Begin(u) \/ Proceed(u)
    BY DEF Next
  <2>2. \/ files' = files
        \/ u = t /\ _cleanup_created_files(t)
        \/ u = t /\ CleanupReconciled(t)
    BY <2>1
    DEF SInv, TypeOK, Proceed, Begin, ReadRow, SaveFile, create_record,
        delete_record, NothingToWrite, update_record, EndOp, NextOp, FinishBody,
        BodyFails, SendCommit, CommitLands, CommitFails, SessionLost,
        CommitAcknowledged, CommitErrors, PreserveFiles, _cleanup_created_files,
        _reconcile_durable_references, CleanupReconciled, ForgetTx, Crash,
        _cleanup_unreferenced_created_files, flush_deferred_storage_deletes,
        Leave, GoTo
  <2>3. CASE _cleanup_created_files(t)
    <3>1. files \ files' \subseteq created[t] /\ tx[t] # "done"
      BY <2>3 DEF SInv, Stages, InBody, _cleanup_created_files, Removes
    <3> QED
      BY <3>1 DEF SInv, Secret, OutOfReach
  <2>4. CASE CleanupReconciled(t)
    <3>1. files \ files' \subseteq created[t] \ final[t] /\ pc[t] = "reconciled"
      BY <2>4 DEF CleanupReconciled, Removes
    <3> QED
      BY <3>1 DEF SInv, Reconciled, OutOfReach
  <2> QED
    BY <2>2, <2>3, <2>4
<1>2. SInv /\ [Next]_vars => [Spares]_vars
  BY <1>1
<1> QED
  BY <1>2, StorageInductive, PTL DEF Spec, UndoSparesReferenced

-----------------------------------------------------------------------------
\* The store: directories, objects, thumbnails and the switch of the backend.

Modes == {"no", "shared", "exclusive"}
Ats == {"open", "put", "write", "commit", "undo", "objects", "unlink",
        "variant", "rmdir", "opening", "cached", "restart", "make",
        "apply", "reconcile"}
Ops == {"upload", "remove", "wipe", "serve", "thumb", "switch"}

\* Who holds the barrier, and what a switch under way has done.
Barrier ==
    /\ task \in [Tasks -> F!Jobs \cup {Idle}] /\ held \in [Tasks -> Modes]
    /\ \A t, u \in Tasks : held[t] = "exclusive" /\ t # u => held[u] = "no"
    /\ \A t \in Tasks :
          /\ held[t] # "no" => task[t] # Idle
          /\ held[t] = "exclusive" => task[t].op = "switch"
          /\ held[t] = "shared" => task[t].op # "switch"
          /\ F!Doing(t, "switch", "commit") \/ F!Doing(t, "switch", "apply") => held[t] = "exclusive"
          /\ F!Doing(t, "switch", "apply") => task[t].value = durable

BInv == Barrier /\ durable \in F!Payloads /\ F!OneBackendPerMutation /\ F!RuntimeFollowsSettings

\* What a job records.
LEMMA Fields ==
    /\ \A j \in F!Jobs : /\ j.op \in Ops /\ j.at \in Ats /\ j.conf \in {"local", "s3"}
                         /\ j.file \in Files \cup {Idle} /\ j.value \in F!Payloads
                         /\ j # Idle
    /\ F!_resolve_storage_config \in {"local", "s3"}
<1>1. \A j \in F!Jobs : /\ j.op \in Ops /\ j.at \in Ats /\ j.conf \in {"local", "s3"}
                        /\ j.file \in Files \cup {Idle} /\ j.value \in F!Payloads
  BY DEF F!Jobs, Ops, Ats
<1> QED BY <1>1, StoreAssumption DEF F!_resolve_storage_config, F!_storage_config_from_values

\* A task that does not switch moves on: it starts, goes on, or ends.
Goes(t) ==
    \E j \in F!Jobs \cup {Idle}, m \in {"no", "shared"} :
        /\ task' = [task EXCEPT ![t] = j] /\ held' = [held EXCEPT ![t] = m]
        /\ task[t] # Idle => task[t].op # "switch"
        /\ j # Idle => j.op # "switch"
        /\ m = "shared" => /\ j # Idle /\ j.conf = F!_resolve_storage_config
                           /\ \A u \in Tasks : held[u] # "exclusive"

\* Such a step leaves the barrier and the backend as they were.
LEMMA GoesKeeps ==
    ASSUME BInv, NEW t \in Tasks, Goes(t), UNCHANGED <<durable, overrides, unreconciled>>
    PROVE  BInv'
<1>1. PICK j \in F!Jobs \cup {Idle}, m \in {"no", "shared"} :
        /\ task' = [task EXCEPT ![t] = j] /\ held' = [held EXCEPT ![t] = m]
        /\ task[t] # Idle => task[t].op # "switch"
        /\ j # Idle => j.op # "switch"
        /\ m = "shared" => /\ j # Idle /\ j.conf = F!_resolve_storage_config
                           /\ \A u \in Tasks : held[u] # "exclusive"
  BY DEF Goes
<1>2. /\ task' \in [Tasks -> F!Jobs \cup {Idle}] /\ held' \in [Tasks -> Modes]
      /\ task'[t] = j /\ held'[t] = m
      /\ \A u \in Tasks : u # t => task'[u] = task[u] /\ held'[u] = held[u]
  BY <1>1 DEF BInv, Barrier, Modes
<1>3. F!_resolve_storage_config' = F!_resolve_storage_config
  BY DEF F!_resolve_storage_config
<1>4. Barrier'
  BY <1>1, <1>2 DEF BInv, Barrier, F!Doing, Modes
<1>5. F!OneBackendPerMutation'
  BY <1>1, <1>2, <1>3 DEF BInv, F!OneBackendPerMutation
<1>6. F!RuntimeFollowsSettings'
  BY <1>1, <1>2 DEF BInv, F!RuntimeFollowsSettings
<1> QED BY <1>4, <1>5, <1>6 DEF BInv

\* Task t is at a step, with what it started with.
Others(t) == \A u \in Tasks : u # t => task'[u] = task[u]
Moved(t, at) ==
    /\ Others(t) /\ task'[t] # Idle /\ task'[t].op = task[t].op /\ task'[t].at = at
    /\ task'[t].file = task[t].file /\ task'[t].conf = task[t].conf
Started(t, op, at, f) ==
    /\ Others(t) /\ task[t] = Idle /\ task'[t] # Idle /\ task'[t].op = op /\ task'[t].at = at
    /\ task'[t].file = f /\ task'[t].conf = F!_resolve_storage_config

\* A task starts: it pins the configuration under the shared barrier, or serves.
LEMMA StartGoes ==
    ASSUME BInv, NEW t \in Tasks, NEW op \in Ops, op # "switch", NEW at \in Ats,
           NEW f \in Files \cup {Idle}, NEW mode \in {"no", "shared"},
           F!Start(t, op, at, f, mode)
    PROVE  Goes(t) /\ Started(t, op, at, f)
<1> DEFINE j == [op |-> op, at |-> at, file |-> f, fd |-> 0,
                 conf |-> F!_resolve_storage_config, value |-> durable]
<1>1. j \in F!Jobs
  BY Fields, StoreAssumption DEF BInv, F!Jobs, Ops, Ats
<1>2. j.op = op /\ j.conf = F!_resolve_storage_config /\ j.at = at /\ j.file = f
  OBVIOUS
<1>3. /\ task[t] = Idle /\ task' = [task EXCEPT ![t] = j] /\ held' = [held EXCEPT ![t] = mode]
      /\ mode = "shared" => \A u \in Tasks : held[u] # "exclusive"
  BY DEF F!Start
<1> HIDE DEF j
<1>4. Started(t, op, at, f)
  BY <1>1, <1>2, <1>3, Fields DEF BInv, Barrier, Started, Others
<1> QED BY <1>1, <1>2, <1>3, <1>4, Fields DEF Goes

\* A task goes on with the configuration it has pinned.
LEMMA MoveGoes ==
    ASSUME BInv, NEW t \in Tasks, NEW j \in F!Jobs, task[t] # Idle, task[t].op # "switch",
           j.op = task[t].op, j.conf = task[t].conf,
           task' = [task EXCEPT ![t] = j], held' = held
    PROVE  Goes(t)
<1>1. held' = [held EXCEPT ![t] = held[t]] /\ held[t] \in {"no", "shared"}
  BY DEF BInv, Barrier, Modes
<1>2. held[t] = "shared" => /\ j.conf = F!_resolve_storage_config
                            /\ \A u \in Tasks : held[u] # "exclusive"
  BY DEF BInv, Barrier, F!OneBackendPerMutation
<1>3. PICK m : m = held[t]
  OBVIOUS
<1> QED BY <1>1, <1>2, <1>3, Fields DEF Goes

\* It goes on to its next step.
LEMMA GoToGoes ==
    ASSUME BInv, NEW t \in Tasks, task[t] # Idle, task[t].op # "switch", NEW at \in Ats,
           F!GoTo(t, at)
    PROVE  Goes(t) /\ Moved(t, at)
<1>1. PICK j : j = [task[t] EXCEPT !.at = at]
  OBVIOUS
<1>2. task[t] \in F!Jobs
  BY DEF BInv, Barrier
<1>3. /\ j \in F!Jobs /\ j.op = task[t].op /\ j.conf = task[t].conf
      /\ j.at = at /\ j.file = task[t].file
  BY <1>1, <1>2 DEF F!Jobs, Ats
<1>4. task' = [task EXCEPT ![t] = j] /\ held' = held
  BY <1>1 DEF F!GoTo
<1>5. Moved(t, at)
  BY <1>2, <1>3, <1>4, Fields DEF BInv, Barrier, Moved, Others
<1> QED BY <1>3, <1>4, <1>5, MoveGoes

\* It opens the record directory and goes on.
LEMMA OpenGoes ==
    ASSUME BInv, NEW t \in Tasks, task[t] # Idle, task[t].op # "switch", NEW at \in Ats,
           NEW ino \in 0..MaxDirs, F!_open_record_directory(t, ino, at)
    PROVE  Goes(t) /\ Moved(t, at)
<1>1. PICK j : j = [task[t] EXCEPT !.fd = ino, !.at = at]
  OBVIOUS
<1>2. task[t] \in F!Jobs
  BY DEF BInv, Barrier
<1>3. /\ j \in F!Jobs /\ j.op = task[t].op /\ j.conf = task[t].conf
      /\ j.at = at /\ j.file = task[t].file
  BY <1>1, <1>2 DEF F!Jobs, Ats
<1>4. task' = [task EXCEPT ![t] = j] /\ held' = held
  BY <1>1 DEF F!_open_record_directory
<1>5. Moved(t, at)
  BY <1>2, <1>3, <1>4, Fields DEF BInv, Barrier, Moved, Others
<1> QED BY <1>3, <1>4, <1>5, MoveGoes

\* It ends and returns its lease.
LEMMA EndGoes ==
    ASSUME BInv, NEW t \in Tasks, task[t] # Idle, task[t].op # "switch", F!End(t)
    PROVE  Goes(t) /\ Others(t) /\ task'[t] = Idle
BY DEF F!End, Goes, BInv, Barrier, Others

----------------------------------------------------------------------------
\* The directory, the bucket and what the committed row names.
Stores ==
    /\ refs \subseteq given /\ given \subseteq Files /\ objects \subseteq given
    /\ where \in [Files -> {"local", "s3"}]
    /\ dir \in [ino : 0..MaxDirs, made : 0..MaxDirs, files : SUBSET given, thumbs : SUBSET given]
    /\ ~alive => refs = {}
    /\ F!ReferencedIsStored

\* An upload has its name to itself and writes to the backend it pinned; what
\* a deletion takes, the row no longer names.
Owned(t) ==
    task[t] # Idle =>
        /\ task[t].op = "upload" =>
              /\ task[t].file \in given /\ task[t].file \notin refs
              /\ task[t].file \notin dir.thumbs
              /\ task[t].conf = where[task[t].file]
              /\ task[t].at \in {"open", "write"} => task[t].conf = "local"
              /\ task[t].at = "put" => task[t].conf = "s3"
              /\ alive /\ task[t].at = "commit" => F!Stored(task[t].file, task[t].conf)
        /\ task[t].op \in {"remove", "serve", "thumb"} => task[t].file \in given
        /\ task[t].op = "remove" /\ task[t].at # "commit" => task[t].file \notin refs
        /\ task[t].op = "wipe" /\ task[t].at # "commit" => ~alive

Named == {"upload", "remove", "serve", "thumb"}

Apart ==
    \A t, u \in Tasks :
        /\ t # u /\ task[t] # Idle /\ task[u] # Idle
        /\ task[t].op = "upload" /\ task[u].op \in Named
        => task[t].file # task[u].file

\* A deletion that unlinked f and is about to remove its thumbnails.
Leaving(f) == \E t \in Tasks : F!Doing(t, "remove", "variant") /\ task[t].file = f
Explained(f) == f \in dir.files \/ f \in stale \/ Leaving(f)

Thumbs ==
    /\ \A f \in dir.thumbs : Explained(f)
    /\ \A t \in Tasks : F!Doing(t, "thumb", "make") => Explained(task[t].file)

NInv == Stores /\ (\A t \in Tasks : Owned(t)) /\ Apart /\ Thumbs

\* The name a task works on.
Own(t) == IF task[t] # Idle /\ task[t].op \in {"upload", "remove", "thumb"}
          THEN {task[t].file} ELSE {}

\* A step of t takes no name, no file and no object of another task.
Keeps(t) ==
    /\ \A u \in Tasks : u # t => task'[u] = task[u]
    /\ given \subseteq given' /\ (alive' => alive)
    /\ \A f \in given : where'[f] = where[f]
    /\ \/ refs' \subseteq refs
       \/ task[t] # Idle /\ task[t].op = "upload" /\ refs' \subseteq refs \cup {task[t].file}
    /\ dir'.thumbs \subseteq dir.thumbs \cup Own(t)
    /\ alive' => /\ dir.files \subseteq dir'.files \cup Own(t)
                 /\ objects \subseteq objects' \cup Own(t)

\* What a step of t spares, another task still relies on.
LEMMA OthersOwn ==
    ASSUME BInv, NInv, NEW t \in Tasks, Keeps(t), NEW u \in Tasks, u # t
    PROVE  Owned(u)'
<1>1. task'[u] = task[u] /\ Owned(u)
  BY DEF Keeps, NInv
<1>2. CASE task[u] = Idle
  BY <1>1, <1>2 DEF Owned
<1>3. CASE task[u] # Idle
  <2>1. task[u].op = "upload" => task[u].file \notin Own(t)
    BY <1>3 DEF NInv, Apart, Own, Named
  <2>2. task[u].op \in {"upload", "remove"} /\ task[u].file \notin refs => task[u].file \notin refs'
    BY <1>3 DEF NInv, Apart, Named, Keeps
  <2>3. alive' /\ task[u].op = "upload" /\ F!Stored(task[u].file, task[u].conf) => F!Stored(task[u].file, task[u].conf)'
    BY <1>1, <2>1 DEF Keeps, F!Stored
  <2>4. /\ given \subseteq given' /\ (alive' => alive)
        /\ \A f \in given : where'[f] = where[f]
        /\ dir'.thumbs \subseteq dir.thumbs \cup Own(t)
    BY DEF Keeps
  <2> QED BY <1>1, <1>3, <2>1, <2>2, <2>3, <2>4 DEF Owned
<1> QED BY <1>2, <1>3

\* A task that ends.
LEMMA Ending ==
    ASSUME BInv, NInv, NEW t \in Tasks, Keeps(t), task'[t] = Idle, Stores', Thumbs'
    PROVE  NInv'
<1>1. Owned(t)'
  BY DEF Owned
<1>2. \A u \in Tasks : Owned(u)'
  BY <1>1, OthersOwn
<1>3. Apart'
  BY DEF NInv, Apart, Keeps
<1> QED BY <1>2, <1>3 DEF NInv

\* A task that goes on with its name.
LEMMA Going ==
    ASSUME BInv, NInv, NEW t \in Tasks, Keeps(t), task[t] # Idle,
           task'[t].op = task[t].op \/ (task'[t].op = "thumb" /\ task[t].op = "serve"),
           task'[t].file = task[t].file, Owned(t)', Stores', Thumbs'
    PROVE  NInv'
<1>2. \A u \in Tasks : Owned(u)'
  BY OthersOwn
<1>3. Apart'
  BY DEF NInv, Apart, Keeps, Named
<1> QED BY <1>2, <1>3 DEF NInv

\* A task that starts with a name of its own or with one of the row.
LEMMA Beginning ==
    ASSUME BInv, NInv, NEW t \in Tasks, Keeps(t), Owned(t)', Stores', Thumbs',
           task'[t].op = "upload" => task'[t].file \notin given,
           task'[t].op \in {"remove", "serve"} => task'[t].file \in refs,
           task'[t].op # "thumb"
    PROVE  NInv'
<1>2. \A u \in Tasks : Owned(u)'
  BY OthersOwn
<1>3. Apart'
  BY DEF NInv, Apart, Keeps, Named, Owned
<1> QED BY <1>2, <1>3 DEF NInv

\* Files that stay explain what they explained.
LEMMA PlainThumbs ==
    ASSUME BInv, NInv, NEW t \in Tasks, \A u \in Tasks : u # t => task'[u] = task[u],
           \A f \in dir'.thumbs : f \in dir.thumbs \/ Explained(f),
           \A f \in dir.files : f \in dir'.files \/
              (f \notin dir'.thumbs /\ \A u \in Tasks :
                   F!Doing(u, "thumb", "make") => task[u].file # f),
           stale \subseteq stale',
           F!Doing(t, "remove", "variant") => F!Doing(t, "remove", "variant")' /\ task'[t].file = task[t].file,
           F!Doing(t, "thumb", "make")' => /\ Explained(task'[t].file)
                                           /\ task'[t].file \in dir.files => task'[t].file \in dir'.files
    PROVE  Thumbs'
<1>1. \A f : Leaving(f) => Leaving(f)'
  BY DEF Leaving, F!Doing
<1>2. \A f : Explained(f) /\ (f \in dir.files => f \in dir'.files) => Explained(f)'
  BY <1>1 DEF Explained
<1>3. ASSUME NEW f \in dir'.thumbs PROVE Explained(f)'
  BY <1>2, <1>3 DEF NInv, Thumbs
<1>4. ASSUME NEW u \in Tasks, F!Doing(u, "thumb", "make")' PROVE Explained(task[u].file)'
  <2>1. CASE u = t
    <3>1. PICK g : g = task'[t].file
      OBVIOUS
    <3>2. Explained(g)' /\ task'[u].file = g
      BY <1>2, <1>4, <2>1, <3>1
    <3> QED BY <3>2 DEF Explained, Leaving
  <2>2. CASE u # t
    <3>1. task'[u] = task[u] /\ F!Doing(u, "thumb", "make")
      BY <1>4, <2>2 DEF F!Doing
    <3>2. Explained(task[u].file) /\ (task[u].file \in dir.files => task[u].file \in dir'.files)
      BY <3>1 DEF NInv, Thumbs
    <3>3. PICK g : g = task[u].file
      OBVIOUS
    <3>4. Explained(g)' /\ task'[u].file = g
      BY <1>2, <3>1, <3>2, <3>3
    <3> QED BY <3>4 DEF Explained, Leaving
  <2> QED BY <2>1, <2>2
<1> QED BY <1>3, <1>4 DEF Thumbs

\* A step that changes no name and no file.
LEMMA Still ==
    ASSUME BInv, NInv, NEW t \in Tasks, Others(t),
           UNCHANGED <<refs, alive, given, dir, objects, where>>
    PROVE  Keeps(t) /\ Stores'
<1>1. Keeps(t)
  BY DEF Keeps, Others
<1>2. Stores'
  BY DEF NInv, Stores, F!ReferencedIsStored, F!Stored
<1> QED BY <1>1, <1>2

FInv == BInv /\ NInv
settled == <<durable, overrides, unreconciled>>

\* A task that stops without touching anything.
LEMMA StopsStep ==
    ASSUME FInv, NEW t \in Tasks, task[t] # Idle, task[t].op # "switch", F!End(t),
           ~F!Doing(t, "remove", "variant"),
           UNCHANGED <<refs, alive, given, dir, objects, where, stale, settled>>
    PROVE  FInv'
<1>1. Goes(t) /\ Others(t) /\ task'[t] = Idle
  BY EndGoes DEF FInv
<1>2. BInv'
  BY <1>1, GoesKeeps DEF FInv, settled
<1>3. Keeps(t) /\ Stores'
  BY <1>1, Still DEF FInv
<1>4. ~F!Doing(t, "thumb", "make")'
  BY <1>1 DEF F!Doing
<1>5. Thumbs'
  BY <1>1, <1>4, PlainThumbs DEF FInv, Others
<1>6. NInv'
  BY <1>1, <1>3, <1>5, Ending DEF FInv
<1> QED BY <1>2, <1>6 DEF FInv

\* A task that goes on without touching anything.
LEMMA GoesOnStep ==
    ASSUME FInv, NEW t \in Tasks, task[t] # Idle, task[t].op # "switch", NEW at \in Ats,
           Goes(t), Moved(t, at), ~F!Doing(t, "remove", "variant"), Owned(t)',
           task[t].op = "thumb" => task[t].file \in dir.files,
           UNCHANGED <<refs, alive, given, dir, objects, where, stale, settled>>
    PROVE  FInv'
<1>1. Others(t)
  BY DEF Moved
<1>2. BInv'
  BY GoesKeeps DEF FInv, settled
<1>3. Keeps(t) /\ Stores'
  BY <1>1, Still DEF FInv
<1>4. F!Doing(t, "thumb", "make")' => task'[t].file \in dir.files
  BY DEF F!Doing, Moved
<1>5. Thumbs'
  BY <1>1, <1>4, PlainThumbs DEF FInv, Others, Explained
<1>6. NInv'
  BY <1>1, <1>3, <1>5, Going DEF FInv, Moved
<1> QED BY <1>2, <1>6 DEF FInv

\* A task that starts without touching anything.
LEMMA StartsStep ==
    ASSUME FInv, NEW t \in Tasks, NEW op \in {"remove", "wipe", "serve"}, NEW at \in Ats,
           NEW f \in Files \cup {Idle}, NEW mode \in {"no", "shared"},
           F!Start(t, op, at, f, mode), op # "wipe" => f \in refs, op # "serve" => at = "commit",
           UNCHANGED <<refs, alive, given, dir, objects, where, stale, settled>>
    PROVE  FInv'
<1>1. Goes(t) /\ Started(t, op, at, f)
  BY StartGoes DEF FInv, Ops
<1>2. BInv'
  BY <1>1, GoesKeeps DEF FInv, settled
<1>3. Others(t) /\ Keeps(t) /\ Stores'
  BY <1>1, Still DEF FInv, Started
<1>4. ~F!Doing(t, "thumb", "make")' /\ ~F!Doing(t, "remove", "variant")
  BY <1>1 DEF F!Doing, Started
<1>5. Thumbs'
  BY <1>3, <1>4, PlainThumbs DEF FInv, Others
<1>6. Owned(t)'
  BY <1>1 DEF Started, Owned, FInv, NInv, Stores
<1>7. NInv'
  BY <1>1, <1>3, <1>5, <1>6, Beginning DEF FInv, Started
<1> QED BY <1>2, <1>7 DEF FInv

\* Serving.
LEMMA ServeStep ==
    ASSUME FInv, NEW t \in Tasks, F!Serve(t)
    PROVE  FInv'
<1>1. CASE F!serve_file(t)
  <2>1. PICK f \in refs : F!Start(t, "serve", "opening", f, "no")
    BY <1>1 DEF F!serve_file
  <2>2. UNCHANGED <<refs, alive, given, dir, objects, where, stale, settled>>
    BY <1>1 DEF F!serve_file, F!row, F!store, F!settings, settled
  <2>3. f \in Files
    BY DEF FInv, NInv, Stores
  <2> QED BY <2>1, <2>2, <2>3, StartsStep DEF Ats
<1>2. CASE F!open_file_stream(t)
  <2>1. /\ task[t] # Idle /\ task[t].op = "serve" /\ task[t].at = "opening"
        /\ UNCHANGED <<refs, alive, given, dir, objects, where, stale, settled>>
        /\ F!End(t) \/ F!GoTo(t, "cached")
    BY <1>2 DEF F!open_file_stream, F!Doing, F!row, F!store, F!settings, settled
  <2>2. CASE F!End(t)
    BY <2>1, <2>2, StopsStep DEF F!Doing
  <2>3. CASE F!GoTo(t, "cached")
    <3>1. Goes(t) /\ Moved(t, "cached") /\ "cached" \in Ats
      BY <2>1, <2>3, GoToGoes DEF FInv, Ats
    <3>2. Owned(t)'
      BY <2>1, <3>1 DEF FInv, NInv, Owned, Moved
    <3> QED BY <2>1, <3>1, <3>2, GoesOnStep DEF F!Doing
  <2> QED BY <2>1, <2>2, <2>3
<1>3. CASE F!read_local_storage_variant_bytes(t)
  <2>1. /\ task[t] # Idle /\ task[t].op = "serve" /\ task[t].at = "cached"
        /\ UNCHANGED <<refs, alive, given, dir, objects, where, stale, settled>>
        /\ F!End(t) \/ F!GoTo(t, "restart")
    BY <1>3 DEF F!read_local_storage_variant_bytes, F!Doing, F!row, F!store, F!settings, settled
  <2>2. CASE F!End(t)
    BY <2>1, <2>2, StopsStep DEF F!Doing
  <2>3. CASE F!GoTo(t, "restart")
    <3>1. Goes(t) /\ Moved(t, "restart") /\ "restart" \in Ats
      BY <2>1, <2>3, GoToGoes DEF FInv, Ats
    <3>2. Owned(t)'
      BY <2>1, <3>1 DEF FInv, NInv, Owned, Moved
    <3> QED BY <2>1, <3>1, <3>2, GoesOnStep DEF F!Doing
  <2> QED BY <2>1, <2>2, <2>3
<1>4. CASE F!_ThumbnailGenerationRequiresBarrier(t)
  <2>1. /\ task[t] # Idle /\ task[t].op = "serve" /\ task[t].at = "restart"
        /\ UNCHANGED <<refs, alive, given, dir, objects, where, stale, settled>>
        /\ \A u \in Tasks : held[u] # "exclusive"
    BY <1>4 DEF F!_ThumbnailGenerationRequiresBarrier, F!Doing, F!row, F!store, F!settings,
                settled
  <2>2. CASE task[t].file \notin refs
    <3>1. F!End(t)
      BY <1>4, <2>2 DEF F!_ThumbnailGenerationRequiresBarrier
    <3> QED BY <2>1, <3>1, StopsStep DEF F!Doing
  <2>3. CASE task[t].file \in refs
    <3>1. PICK j : j = [task[t] EXCEPT !.op = "thumb", !.at = "open", !.conf = F!_resolve_storage_config]
      OBVIOUS
    <3>2. task[t] \in F!Jobs
      BY <2>1 DEF FInv, BInv, Barrier
    <3>3. /\ j \in F!Jobs /\ j.op = "thumb" /\ j.conf = F!_resolve_storage_config
          /\ j.at = "open" /\ j.file = task[t].file
      BY <3>1, <3>2, Fields DEF F!Jobs
    <3>4. task' = [task EXCEPT ![t] = j] /\ held' = [held EXCEPT ![t] = "shared"]
      BY <1>4, <2>3, <3>1 DEF F!_ThumbnailGenerationRequiresBarrier
    <3>5. Goes(t)
      BY <2>1, <3>3, <3>4, Fields DEF Goes
    <3>6. BInv'
      BY <2>1, <3>5, GoesKeeps DEF FInv, settled
    <3>7. task'[t] = j /\ Others(t)
      BY <3>4 DEF FInv, BInv, Barrier, Others
    <3>8. Keeps(t) /\ Stores'
      BY <2>1, <3>7, Still DEF FInv
    <3>9. Thumbs'
      BY <2>1, <3>3, <3>7, PlainThumbs DEF FInv, Others, F!Doing
    <3>10. Owned(t)'
      BY <2>1, <3>3, <3>7 DEF FInv, NInv, Owned
    <3>11. NInv'
      BY <2>1, <3>3, <3>7, <3>8, <3>9, <3>10, Going DEF FInv
    <3> QED BY <3>6, <3>11 DEF FInv
  <2> QED BY <2>2, <2>3
<1>5. CASE F!OpenSource(t)
  <2>1. /\ task[t] # Idle /\ task[t].op = "thumb" /\ task[t].at = "open"
        /\ UNCHANGED <<refs, alive, given, dir, objects, where, stale, settled>>
        /\ F!End(t) \/ (F!GoTo(t, "make") /\ task[t].file \in dir.files)
    BY <1>5 DEF F!OpenSource, F!Stored, F!Doing, F!row, F!store, F!settings, settled
  <2>2. CASE F!End(t)
    BY <2>1, <2>2, StopsStep DEF F!Doing
  <2>3. CASE F!GoTo(t, "make") /\ task[t].file \in dir.files
    <3>1. Goes(t) /\ Moved(t, "make") /\ "make" \in Ats
      BY <2>1, <2>3, GoToGoes DEF FInv, Ats
    <3>2. Owned(t)'
      BY <2>1, <3>1 DEF FInv, NInv, Owned, Moved
    <3> QED BY <2>1, <2>3, <3>1, <3>2, GoesOnStep DEF F!Doing
  <2> QED BY <2>1, <2>2, <2>3
<1>6. CASE F!write_local_storage_variant_bytes(t)
  <2>1. /\ task[t] # Idle /\ task[t].op = "thumb" /\ task[t].at = "make" /\ F!End(t)
        /\ UNCHANGED <<refs, alive, given, objects, where, stale, settled>>
        /\ \/ dir' = dir
           \/ dir' = [dir EXCEPT !.thumbs = @ \cup {task[t].file}]
    BY <1>6 DEF F!write_local_storage_variant_bytes, F!Doing, F!row, F!settings, settled
  <2>2. Goes(t) /\ Others(t) /\ task'[t] = Idle
    BY <2>1, EndGoes DEF FInv
  <2>3. BInv'
    BY <2>1, <2>2, GoesKeeps DEF FInv, settled
  <2>4. task[t].file \in given /\ Stores
    BY <2>1 DEF FInv, NInv, Owned
  <2>5. /\ dir' \in [ino : 0..MaxDirs, made : 0..MaxDirs, files : SUBSET given, thumbs : SUBSET given]
        /\ dir'.files = dir.files /\ dir'.thumbs \subseteq dir.thumbs \cup {task[t].file}
    BY <2>1, <2>4 DEF Stores
  <2>6. Stores'
    BY <2>1, <2>4, <2>5 DEF Stores, F!ReferencedIsStored, F!Stored
  <2>7. Keeps(t)
    BY <2>1, <2>2, <2>5 DEF Keeps, Others, Own
  <2>8. Explained(task[t].file)
    BY <2>1 DEF FInv, NInv, Thumbs, F!Doing
  <2>9. Thumbs'
    BY <2>1, <2>2, <2>5, <2>8, PlainThumbs DEF FInv, Others, F!Doing
  <2>10. NInv'
    BY <2>2, <2>6, <2>7, <2>9, Ending DEF FInv
  <2> QED BY <2>3, <2>10 DEF FInv
<1> QED BY <1>1, <1>2, <1>3, <1>4, <1>5, <1>6 DEF F!Serve

Dirs(S) == [ino : 0..MaxDirs, made : 0..MaxDirs, files : SUBSET S, thumbs : SUBSET S]

\* What rmdir leaves of a directory.
LEMMA EmptyGoes ==
    ASSUME NEW t, NEW S, NEW d \in Dirs(S)
    PROVE  /\ F!_remove_record_directory_if_empty_at(t, d) \in Dirs(S)
           /\ F!_remove_record_directory_if_empty_at(t, d).files = d.files
           /\ F!_remove_record_directory_if_empty_at(t, d).thumbs = d.thumbs
<1>1. CASE task[t].fd = dir.ino /\ d.files = {} /\ d.thumbs = {}
  <2>1. F!_remove_record_directory_if_empty_at(t, d) = [d EXCEPT !.ino = 0]
    BY <1>1 DEF F!_remove_record_directory_if_empty_at
  <2> QED BY <1>1, <2>1, StoreAssumption DEF Dirs
<1>2. CASE ~(task[t].fd = dir.ino /\ d.files = {} /\ d.thumbs = {})
  BY <1>2 DEF F!_remove_record_directory_if_empty_at
<1> QED BY <1>1, <1>2

\* Uploads.
LEMMA WriteStep ==
    ASSUME FInv, NEW t \in Tasks, F!Write(t)
    PROVE  FInv'
<1>0. BInv /\ NInv /\ Stores /\ Owned(t) /\ dir \in Dirs(given)
  BY DEF FInv, NInv, Stores, Dirs
<1>1. CASE F!save_files(t)
  <2>1. PICK f \in Files \ given :
          /\ F!Start(t, "upload", IF F!_resolve_storage_config = "local" THEN "open" ELSE "put", f, "shared")
          /\ given' = given \cup {f}
          /\ where' = [where EXCEPT ![f] = F!_resolve_storage_config]
    BY <1>1 DEF F!save_files, F!pin_storage_config
  <2>2. UNCHANGED <<refs, alive, dir, objects, stale, settled>>
    BY <1>1 DEF F!save_files, F!row, F!settings, settled
  <2>3. PICK at \in {"open", "put"} :
          /\ at = "open" <=> F!_resolve_storage_config = "local"
          /\ F!Start(t, "upload", at, f, "shared")
    BY <2>1
  <2>4. Goes(t) /\ Started(t, "upload", at, f)
    BY <1>0, <2>3, StartGoes DEF Ops, Ats
  <2>5. BInv'
    BY <1>0, <2>2, <2>4, GoesKeeps DEF settled
  <2>6. F!_resolve_storage_config \in {"local", "s3"}
    BY Fields
  <2>7. /\ where' \in [Files -> {"local", "s3"}] /\ where'[f] = F!_resolve_storage_config
        /\ \A g \in given : where'[g] = where[g]
    BY <1>0, <2>1, <2>6 DEF Stores
  <2>8. dir \in Dirs(given')
    BY <1>0, <2>1 DEF Dirs
  <2>9. Stores'
    BY <1>0, <2>1, <2>2, <2>7, <2>8 DEF Stores, Dirs, F!ReferencedIsStored, F!Stored
  <2>10. Keeps(t)
    BY <2>1, <2>2, <2>4, <2>7 DEF Keeps, Started, Others
  <2>11. dir.thumbs \subseteq given
    BY <1>0 DEF Dirs
  <2>12. Owned(t)'
    BY <1>0, <2>1, <2>2, <2>3, <2>4, <2>6, <2>7, <2>11 DEF Owned, Started, Stores
  <2>13. Thumbs'
    BY <1>0, <2>2, <2>4, PlainThumbs DEF Started, Others, F!Doing
  <2>14. NInv'
    BY <1>0, <2>1, <2>4, <2>9, <2>10, <2>12, <2>13, Beginning DEF Started
  <2> QED BY <2>5, <2>14 DEF FInv
<1>2. CASE F!OpenForWriting(t)
  <2>1. /\ task[t] # Idle /\ task[t].op = "upload" /\ task[t].at = "open"
        /\ UNCHANGED <<refs, alive, given, objects, where, stale, settled>>
    BY <1>2 DEF F!OpenForWriting, F!Doing, F!row, F!settings, settled
  <2>2. PICK i \in 0..MaxDirs : /\ F!_open_record_directory(t, i, "write")
                                /\ dir' \in Dirs(given)
                                /\ dir'.files = dir.files /\ dir'.thumbs = dir.thumbs
    <3>1. CASE dir.ino = 0
      <4>1. /\ dir.made < MaxDirs /\ dir' = [dir EXCEPT !.ino = dir.made + 1, !.made = @ + 1]
            /\ F!_open_record_directory(t, dir.made + 1, "write")
        BY <1>2, <3>1 DEF F!OpenForWriting
      <4>2. dir.made + 1 \in 0..MaxDirs
        BY <1>0, <4>1, StoreAssumption DEF Dirs
      <4>3. dir' \in Dirs(given) /\ dir'.files = dir.files /\ dir'.thumbs = dir.thumbs
        BY <1>0, <4>1, <4>2 DEF Dirs
      <4> QED BY <4>1, <4>2, <4>3
    <3>2. CASE dir.ino # 0
      <4>1. dir' = dir /\ F!_open_record_directory(t, dir.ino, "write")
        BY <1>2, <3>2 DEF F!OpenForWriting
      <4>2. dir.ino \in 0..MaxDirs
        BY <1>0 DEF Dirs
      <4> QED BY <1>0, <4>1, <4>2
    <3> QED BY <3>1, <3>2
  <2>3. Goes(t) /\ Moved(t, "write")
    BY <1>0, <2>1, <2>2, OpenGoes DEF Ats
  <2>4. BInv'
    BY <1>0, <2>1, <2>3, GoesKeeps DEF settled
  <2>5. Stores'
    BY <1>0, <2>1, <2>2 DEF Stores, Dirs, F!ReferencedIsStored, F!Stored
  <2>6. Keeps(t)
    BY <2>1, <2>2, <2>3 DEF Keeps, Moved, Others
  <2>7. Owned(t)'
    BY <1>0, <2>1, <2>2, <2>3 DEF Owned, Moved
  <2>8. Thumbs'
    BY <1>0, <2>1, <2>2, <2>3, PlainThumbs DEF Moved, Others, F!Doing
  <2>9. NInv'
    BY <1>0, <2>1, <2>3, <2>5, <2>6, <2>7, <2>8, Going DEF Moved
  <2> QED BY <2>4, <2>9 DEF FInv
<1>3. CASE F!_write_file_exclusive_at(t)
  <2>1. /\ task[t] # Idle /\ task[t].op = "upload" /\ task[t].at = "write"
        /\ UNCHANGED <<refs, alive, given, objects, where, stale, settled>>
    BY <1>3 DEF F!_write_file_exclusive_at, F!Doing, F!row, F!settings, settled
  <2>2. task[t].file \in given /\ task[t].conf = "local"
    BY <1>0, <2>1 DEF Owned
  <2>3. PICK at \in {"commit", "undo"} :
          /\ F!GoTo(t, at) /\ dir' \in Dirs(given) /\ dir'.thumbs = dir.thumbs
          /\ dir.files \subseteq dir'.files /\ (at = "commit" => task[t].file \in dir'.files)
    <3>1. CASE F!Attached(t)
      <4>1. dir' = [dir EXCEPT !.files = @ \cup {task[t].file}] /\ F!GoTo(t, "commit")
        BY <1>3, <3>1 DEF F!_write_file_exclusive_at
      <4>2. /\ dir' \in Dirs(given) /\ dir'.thumbs = dir.thumbs
            /\ dir'.files = dir.files \cup {task[t].file}
        BY <1>0, <2>2, <4>1 DEF Dirs
      <4> QED BY <4>1, <4>2
    <3>2. CASE ~F!Attached(t)
      BY <1>0, <1>3, <3>2 DEF F!_write_file_exclusive_at
    <3> QED BY <3>1, <3>2
  <2>4. Goes(t) /\ Moved(t, at)
    BY <1>0, <2>1, <2>3, GoToGoes DEF Ats
  <2>5. BInv'
    BY <1>0, <2>1, <2>4, GoesKeeps DEF settled
  <2>6. Stores'
    BY <1>0, <2>1, <2>3 DEF Stores, Dirs, F!ReferencedIsStored, F!Stored
  <2>7. Keeps(t)
    BY <2>1, <2>3, <2>4 DEF Keeps, Moved, Others
  <2>8. Owned(t)'
    BY <1>0, <2>1, <2>2, <2>3, <2>4 DEF Owned, Moved, F!Stored
  <2>9. Thumbs'
    BY <1>0, <2>1, <2>3, <2>4, PlainThumbs DEF Moved, Others, F!Doing
  <2>10. NInv'
    BY <1>0, <2>1, <2>4, <2>6, <2>7, <2>8, <2>9, Going DEF Moved
  <2> QED BY <2>5, <2>10 DEF FInv
<1>4. CASE F!_save_s3_files(t)
  <2>1. /\ task[t] # Idle /\ task[t].op = "upload" /\ task[t].at = "put"
        /\ UNCHANGED <<refs, alive, given, dir, where, stale, settled>>
        /\ objects' = objects \/ objects' = objects \cup {task[t].file}
        /\ \/ objects' = objects \cup {task[t].file} /\ F!GoTo(t, "commit")
           \/ F!End(t)
    BY <1>4 DEF F!_save_s3_files, F!Doing, F!row, F!settings, settled
  <2>2. task[t].file \in given /\ task[t].conf = "s3"
    BY <1>0, <2>1 DEF Owned
  <2>3. Stores'
    BY <1>0, <2>1, <2>2 DEF Stores, F!ReferencedIsStored, F!Stored
  <2>4. CASE objects' = objects \cup {task[t].file} /\ F!GoTo(t, "commit")
    <3>1. Goes(t) /\ Moved(t, "commit")
      BY <1>0, <2>1, <2>4, GoToGoes DEF Ats
    <3>2. BInv'
      BY <1>0, <2>1, <3>1, GoesKeeps DEF settled
    <3>3. Keeps(t)
      BY <2>1, <3>1 DEF Keeps, Moved, Others
    <3>4. Owned(t)'
      BY <1>0, <2>1, <2>2, <2>4, <3>1 DEF Owned, Moved, F!Stored
    <3>5. Thumbs'
      BY <1>0, <2>1, <3>1, PlainThumbs DEF Moved, Others, F!Doing
    <3>6. NInv'
      BY <1>0, <2>1, <2>3, <3>1, <3>3, <3>4, <3>5, Going DEF Moved
    <3> QED BY <3>2, <3>6 DEF FInv
  <2>5. CASE F!End(t)
    <3>1. Goes(t) /\ Others(t) /\ task'[t] = Idle
      BY <1>0, <2>1, <2>5, EndGoes
    <3>2. BInv'
      BY <1>0, <2>1, <3>1, GoesKeeps DEF settled
    <3>3. Keeps(t)
      BY <2>1, <3>1 DEF Keeps, Others
    <3>4. Thumbs'
      BY <1>0, <2>1, <3>1, PlainThumbs DEF Others, F!Doing
    <3>5. NInv'
      BY <1>0, <2>3, <3>1, <3>3, <3>4, Ending
    <3> QED BY <3>2, <3>5 DEF FInv
  <2> QED BY <2>1, <2>4, <2>5
<1>5. CASE F!CommitUpload(t)
  <2>1. /\ task[t] # Idle /\ task[t].op = "upload" /\ task[t].at = "commit"
        /\ UNCHANGED <<alive, given, dir, objects, where, stale, settled>>
        /\ \/ alive /\ refs' = refs \cup {task[t].file} /\ F!End(t)
           \/ F!GoTo(t, "undo") /\ UNCHANGED refs
    BY <1>5 DEF F!CommitUpload, F!Doing, F!store, F!settings, settled
  <2>2. CASE alive /\ refs' = refs \cup {task[t].file} /\ F!End(t)
    <3>1. Goes(t) /\ Others(t) /\ task'[t] = Idle
      BY <1>0, <2>1, <2>2, EndGoes
    <3>2. BInv'
      BY <1>0, <2>1, <3>1, GoesKeeps DEF settled
    <3>3. Keeps(t)
      BY <2>1, <2>2, <3>1 DEF Keeps, Others
    <3>4. task[t].file \in given /\ F!Stored(task[t].file, where[task[t].file])
      BY <1>0, <2>1, <2>2 DEF Owned
    <3>5. Stores'
      BY <1>0, <2>1, <2>2, <3>4 DEF Stores, F!ReferencedIsStored, F!Stored
    <3>6. Thumbs'
      BY <1>0, <2>1, <3>1, PlainThumbs DEF Others, F!Doing
    <3>7. NInv'
      BY <1>0, <3>1, <3>3, <3>5, <3>6, Ending
    <3> QED BY <3>2, <3>7 DEF FInv
  <2>3. CASE F!GoTo(t, "undo") /\ UNCHANGED refs
    <3>1. Goes(t) /\ Moved(t, "undo") /\ "undo" \in Ats
      BY <1>0, <2>1, <2>3, GoToGoes DEF Ats
    <3>2. Owned(t)'
      BY <1>0, <2>1, <2>3, <3>1 DEF Owned, Moved
    <3> QED BY <2>1, <2>3, <3>1, <3>2, GoesOnStep DEF F!Doing
  <2> QED BY <2>1, <2>2, <2>3
<1>6. CASE F!_cleanup_new_storage_files(t)
  <2>1. /\ task[t] # Idle /\ task[t].op = "upload" /\ task[t].at = "undo" /\ F!End(t)
        /\ UNCHANGED <<refs, alive, given, where, stale, settled>>
    BY <1>6 DEF F!_cleanup_new_storage_files, F!Doing, F!row, F!settings, settled
  <2>2. /\ dir' \in Dirs(given) /\ dir'.thumbs = dir.thumbs
        /\ dir'.files \subseteq dir.files /\ dir.files \subseteq dir'.files \cup {task[t].file}
        /\ objects' \subseteq objects /\ objects \subseteq objects' \cup {task[t].file}
    <3>1. CASE task[t].conf = "s3"
      BY <1>0, <1>6, <3>1 DEF F!_cleanup_new_storage_files
    <3>2. CASE task[t].conf # "s3"
      <4>1. PICK d : d = [dir EXCEPT !.files = @ \ {task[t].file}]
        OBVIOUS
      <4>2. objects' = objects /\ dir' = F!_remove_record_directory_if_empty_at(t, d)
        BY <1>6, <3>2, <4>1 DEF F!_cleanup_new_storage_files
      <4>3. d \in Dirs(given) /\ d.files = dir.files \ {task[t].file} /\ d.thumbs = dir.thumbs
        BY <1>0, <4>1 DEF Dirs
      <4>4. dir' \in Dirs(given) /\ dir'.files = d.files /\ dir'.thumbs = d.thumbs
        BY <4>2, <4>3, EmptyGoes
      <4> QED BY <4>2, <4>3, <4>4
    <3> QED BY <3>1, <3>2
  <2>3. Goes(t) /\ Others(t) /\ task'[t] = Idle
    BY <1>0, <2>1, EndGoes
  <2>4. BInv'
    BY <1>0, <2>1, <2>3, GoesKeeps DEF settled
  <2>5. Keeps(t)
    BY <2>1, <2>2, <2>3 DEF Keeps, Others, Own
  <2>6. task[t].file \notin refs /\ task[t].file \notin dir.thumbs
    BY <1>0, <2>1 DEF Owned
  <2>7. Stores'
    BY <1>0, <2>1, <2>2, <2>6 DEF Stores, Dirs, F!ReferencedIsStored, F!Stored
  <2>8. \A u \in Tasks : F!Doing(u, "thumb", "make") => task[u].file # task[t].file
    BY <1>0, <2>1 DEF NInv, Apart, Named, F!Doing
  <2>9. Thumbs'
    BY <1>0, <2>1, <2>2, <2>3, <2>6, <2>8, PlainThumbs DEF Others, F!Doing
  <2>10. NInv'
    BY <1>0, <2>3, <2>5, <2>7, <2>9, Ending
  <2> QED BY <2>4, <2>10 DEF FInv
<1> QED BY <1>1, <1>2, <1>3, <1>4, <1>5, <1>6 DEF F!Write

\* Deletions.
LEMMA DeleteStep ==
    ASSUME FInv, NEW t \in Tasks, F!Delete(t)
    PROVE  FInv'
<1>0. BInv /\ NInv /\ Stores /\ Owned(t) /\ dir \in Dirs(given)
  BY DEF FInv, NInv, Stores, Dirs
<1>1. CASE F!defer_storage_deletes(t)
  <2>1. UNCHANGED <<refs, alive, given, dir, objects, where, stale, settled>>
    BY <1>1 DEF F!defer_storage_deletes, F!row, F!store, F!settings, settled
  <2>2. PICK op \in {"remove", "wipe"}, f \in Files \cup {Idle} :
          F!Start(t, op, "commit", f, "shared") /\ (op # "wipe" => f \in refs)
    BY <1>0, <1>1 DEF F!defer_storage_deletes, F!pin_storage_config, Stores
  <2>3. "commit" \in Ats
    BY DEF Ats
  <2> QED BY <2>1, <2>2, <2>3, StartsStep
<1>2. CASE F!flush_deferred_storage_deletes(t)
  <2>1. /\ task[t] # Idle /\ task[t].op \in {"remove", "wipe"} /\ task[t].at = "commit"
        /\ UNCHANGED <<given, dir, objects, where, stale, settled>>
    BY <1>2 DEF F!flush_deferred_storage_deletes, F!store, F!settings, settled
  <2>2. CASE F!End(t) /\ UNCHANGED <<refs, alive>>
    BY <2>1, <2>2, StopsStep DEF F!Doing
  <2>3. CASE /\ refs' = IF task[t].op = "wipe" THEN {} ELSE refs \ {task[t].file}
             /\ alive /\ alive' = (task[t].op # "wipe")
             /\ F!GoTo(t, IF task[t].conf = "s3" THEN "objects" ELSE "open")
    <3>1. PICK at \in {"objects", "open"} : F!GoTo(t, at)
      BY <2>3
    <3>2. Goes(t) /\ Moved(t, at)
      BY <1>0, <2>1, <3>1, GoToGoes DEF Ats
    <3>3. BInv'
      BY <1>0, <2>1, <3>2, GoesKeeps DEF settled
    <3>4. Stores'
      BY <1>0, <2>1, <2>3 DEF Stores, F!ReferencedIsStored, F!Stored
    <3>5. Keeps(t)
      BY <2>1, <2>3, <3>2 DEF Keeps, Moved, Others
    <3>6. Owned(t)'
      BY <1>0, <2>1, <2>3, <3>2 DEF Owned, Moved
    <3>7. Thumbs'
      BY <1>0, <2>1, <3>2, PlainThumbs DEF Moved, Others, F!Doing
    <3>8. NInv'
      BY <1>0, <2>1, <3>2, <3>4, <3>5, <3>6, <3>7, Going DEF Moved
    <3> QED BY <3>3, <3>8 DEF FInv
  <2> QED BY <1>2, <2>2, <2>3 DEF F!flush_deferred_storage_deletes, F!row
<1>3. CASE F!_delete_s3_files(t) \/ F!_delete_all_s3_files(t)
  <2>1. /\ task[t] # Idle /\ task[t].op \in {"remove", "wipe"} /\ task[t].at = "objects" /\ F!End(t)
        /\ UNCHANGED <<refs, alive, given, dir, where, stale, settled>>
        /\ objects' \subseteq objects
        /\ task[t].op = "remove" => objects \subseteq objects' \cup {task[t].file}
    BY <1>3 DEF F!_delete_s3_files, F!_delete_all_s3_files, F!Doing, F!row, F!settings, settled
  <2>2. Goes(t) /\ Others(t) /\ task'[t] = Idle
    BY <1>0, <2>1, EndGoes
  <2>3. BInv'
    BY <1>0, <2>1, <2>2, GoesKeeps DEF settled
  <2>4. /\ task[t].op = "wipe" => ~alive
        /\ task[t].op = "remove" => task[t].file \notin refs
    BY <1>0, <2>1 DEF Owned
  <2>5. Keeps(t)
    BY <2>1, <2>2, <2>4 DEF Keeps, Others, Own
  <2>6. Stores'
    BY <1>0, <2>1, <2>4 DEF Stores, F!ReferencedIsStored, F!Stored
  <2>7. Thumbs'
    BY <1>0, <2>1, <2>2, PlainThumbs DEF Others, F!Doing
  <2>8. NInv'
    BY <1>0, <2>2, <2>5, <2>6, <2>7, Ending
  <2> QED BY <2>3, <2>8 DEF FInv
<1>4. CASE F!OpenForDeletion(t)
  <2>1. /\ task[t] # Idle /\ task[t].op \in {"remove", "wipe"} /\ task[t].at = "open"
        /\ UNCHANGED <<refs, alive, given, dir, objects, where, stale, settled>>
        /\ F!End(t) \/ F!_open_record_directory(t, dir.ino, "unlink")
    BY <1>4 DEF F!OpenForDeletion, F!row, F!settings, settled
  <2>2. CASE F!End(t)
    BY <2>1, <2>2, StopsStep DEF F!Doing
  <2>3. CASE F!_open_record_directory(t, dir.ino, "unlink")
    <3>1. dir.ino \in 0..MaxDirs /\ "unlink" \in Ats
      BY <1>0 DEF Dirs, Ats
    <3>2. Goes(t) /\ Moved(t, "unlink")
      BY <1>0, <2>1, <2>3, <3>1, OpenGoes
    <3>3. Owned(t)'
      BY <1>0, <2>1, <3>2 DEF Owned, Moved
    <3> QED BY <2>1, <3>1, <3>2, <3>3, GoesOnStep DEF F!Doing
  <2> QED BY <2>1, <2>2, <2>3
<1>5. CASE F!_unlink_regular_file_at(t)
  <2>1. /\ task[t] # Idle /\ task[t].op = "remove" /\ task[t].at = "unlink" /\ F!GoTo(t, "variant")
        /\ UNCHANGED <<refs, alive, given, objects, where, stale, settled>>
        /\ dir' = dir \/ dir' = [dir EXCEPT !.files = @ \ {task[t].file}]
    BY <1>5 DEF F!_unlink_regular_file_at, F!Doing, F!row, F!settings, settled
  <2>2. /\ dir' \in Dirs(given) /\ dir'.thumbs = dir.thumbs
        /\ dir.files \subseteq dir'.files \cup {task[t].file}
    BY <1>0, <2>1 DEF Dirs
  <2>3. Goes(t) /\ Moved(t, "variant")
    BY <1>0, <2>1, GoToGoes DEF Ats
  <2>4. BInv'
    BY <1>0, <2>1, <2>3, GoesKeeps DEF settled
  <2>5. Keeps(t)
    BY <2>1, <2>2, <2>3 DEF Keeps, Moved, Others, Own
  <2>6. task[t].file \notin refs
    BY <1>0, <2>1 DEF Owned
  <2>7. Stores'
    BY <1>0, <2>1, <2>2, <2>6 DEF Stores, Dirs, F!ReferencedIsStored, F!Stored
  <2>8. Owned(t)'
    BY <1>0, <2>1, <2>3 DEF Owned, Moved
  <2>9. Thumbs'
    <3>1. \A f : f = task[t].file => Leaving(f)'
      BY <2>1, <2>3 DEF Moved, Leaving, F!Doing
    <3>2. \A f : Leaving(f) => Leaving(f)'
      BY <2>1, <2>3 DEF Moved, Others, Leaving, F!Doing
    <3>3. \A f : Explained(f) => Explained(f)'
      BY <2>1, <2>2, <3>1, <3>2 DEF Explained
    <3>4. ASSUME NEW u \in Tasks, F!Doing(u, "thumb", "make")' PROVE Explained(task[u].file)'
      <4>1. u # t /\ task'[u] = task[u] /\ F!Doing(u, "thumb", "make")
        BY <2>1, <2>3, <3>4 DEF Moved, Others, F!Doing
      <4>2. PICK g : g = task[u].file
        OBVIOUS
      <4>3. Explained(g)' /\ task'[u].file = g
        BY <1>0, <3>3, <4>1, <4>2 DEF NInv, Thumbs
      <4> QED BY <4>3 DEF Explained, Leaving
    <3> QED BY <1>0, <2>2, <3>3, <3>4 DEF NInv, Thumbs
  <2>10. NInv'
    BY <1>0, <2>1, <2>3, <2>5, <2>7, <2>8, <2>9, Going DEF Moved
  <2> QED BY <2>4, <2>10 DEF FInv
<1>6. CASE F!_remove_variant_directory_at(t)
  <2>1. /\ task[t] # Idle /\ task[t].op = "remove" /\ task[t].at = "variant" /\ F!End(t)
        /\ UNCHANGED <<refs, alive, given, objects, where, settled>>
        /\ stale' = stale \cup F!Overtaken({task[t].file})
                          \cup (IF F!Attached(t) THEN {} ELSE {task[t].file})
    BY <1>6 DEF F!_remove_variant_directory_at, F!Doing, F!row, F!settings, settled
  <2>2. /\ dir' \in Dirs(given) /\ dir'.thumbs \subseteq dir.thumbs /\ dir'.files = dir.files
        /\ task[t].file \notin dir'.thumbs \/ task[t].file \in stale'
    <3>1. CASE F!Attached(t)
      <4>1. PICK d : d = [dir EXCEPT !.thumbs = @ \ {task[t].file}]
        OBVIOUS
      <4>2. dir' = F!_remove_record_directory_if_empty_at(t, d)
        BY <1>6, <3>1, <4>1 DEF F!_remove_variant_directory_at
      <4>3. d \in Dirs(given) /\ d.files = dir.files /\ d.thumbs = dir.thumbs \ {task[t].file}
        BY <1>0, <4>1 DEF Dirs
      <4>4. dir' \in Dirs(given) /\ dir'.files = d.files /\ dir'.thumbs = d.thumbs
        BY <4>2, <4>3, EmptyGoes
      <4> QED BY <4>3, <4>4
    <3>2. CASE ~F!Attached(t)
      BY <1>0, <1>6, <2>1, <3>2 DEF F!_remove_variant_directory_at
    <3> QED BY <3>1, <3>2
  <2>3. Goes(t) /\ Others(t) /\ task'[t] = Idle
    BY <1>0, <2>1, EndGoes
  <2>4. BInv'
    BY <1>0, <2>1, <2>3, GoesKeeps DEF settled
  <2>5. Keeps(t)
    BY <2>1, <2>2, <2>3 DEF Keeps, Others
  <2>6. Stores'
    BY <1>0, <2>1, <2>2 DEF Stores, Dirs, F!ReferencedIsStored, F!Stored
  <2>7. Thumbs'
    <3>1. \A f : Leaving(f) /\ f # task[t].file => Leaving(f)'
      BY <2>3 DEF Others, Leaving, F!Doing
    <3>2. \A f : Explained(f) /\ (f = task[t].file => f \in stale') => Explained(f)'
      BY <2>1, <2>2, <3>1 DEF Explained
    <3>3. ASSUME NEW f \in dir'.thumbs PROVE Explained(f)'
      BY <1>0, <2>2, <3>2, <3>3 DEF NInv, Thumbs
    <3>4. ASSUME NEW u \in Tasks, F!Doing(u, "thumb", "make")' PROVE Explained(task[u].file)'
      <4>1. u # t /\ task'[u] = task[u] /\ F!Doing(u, "thumb", "make")
        BY <2>3, <3>4 DEF Others, F!Doing
      <4>2. task[u].file = task[t].file => task[u].file \in stale'
        BY <2>1, <4>1 DEF F!Overtaken
      <4>3. PICK g : g = task[u].file
        OBVIOUS
      <4>4. Explained(g)' /\ task'[u].file = g
        BY <1>0, <3>2, <4>1, <4>2, <4>3 DEF NInv, Thumbs
      <4> QED BY <4>4 DEF Explained, Leaving
    <3> QED BY <3>3, <3>4 DEF Thumbs
  <2>8. NInv'
    BY <1>0, <2>3, <2>5, <2>6, <2>7, Ending
  <2> QED BY <2>4, <2>8 DEF FInv
<1>7. CASE F!delete_all_files(t)
  <2>1. /\ task[t] # Idle /\ task[t].op = "wipe" /\ task[t].at = "unlink" /\ F!GoTo(t, "rmdir")
        /\ UNCHANGED <<refs, alive, given, objects, where, settled>>
        /\ stale' = stale \cup F!Overtaken(dir.files \ refs)
        /\ dir' = dir \/ dir' = [dir EXCEPT !.files = @ \cap refs, !.thumbs = {}]
    BY <1>7 DEF F!delete_all_files, F!Doing, F!row, F!settings, settled
  <2>2. /\ dir' \in Dirs(given)
        /\ \/ dir'.files = dir.files /\ dir'.thumbs = dir.thumbs
           \/ dir'.files = dir.files \cap refs /\ dir'.thumbs = {}
    BY <1>0, <2>1 DEF Dirs
  <2>3. Goes(t) /\ Moved(t, "rmdir")
    BY <1>0, <2>1, GoToGoes DEF Ats
  <2>4. BInv'
    BY <1>0, <2>1, <2>3, GoesKeeps DEF settled
  <2>5. ~alive
    BY <1>0, <2>1 DEF Owned
  <2>6. Keeps(t)
    BY <2>1, <2>2, <2>3, <2>5 DEF Keeps, Moved, Others
  <2>7. Stores'
    BY <1>0, <2>1, <2>2, <2>5 DEF Stores, Dirs, F!ReferencedIsStored
  <2>8. Owned(t)'
    BY <1>0, <2>1, <2>3 DEF Owned, Moved
  <2>9. Thumbs'
    <3>1. \A f : Leaving(f) => Leaving(f)'
      BY <2>1, <2>3 DEF Moved, Others, Leaving, F!Doing
    <3>2. \A f : Explained(f) /\ (f \in dir.files => f \in dir'.files \/ f \in stale') => Explained(f)'
      BY <2>1, <3>1 DEF Explained
    <3>3. ASSUME NEW f \in dir'.thumbs PROVE Explained(f)'
      BY <1>0, <2>2, <3>2, <3>3 DEF NInv, Thumbs
    <3>4. ASSUME NEW u \in Tasks, F!Doing(u, "thumb", "make")' PROVE Explained(task[u].file)'
      <4>1. u # t /\ task'[u] = task[u] /\ F!Doing(u, "thumb", "make")
        BY <2>1, <2>3, <3>4 DEF Moved, Others, F!Doing
      <4>2. task[u].file \in dir.files => task[u].file \in dir'.files \/ task[u].file \in stale'
        BY <2>1, <2>2, <4>1 DEF F!Overtaken
      <4>3. PICK g : g = task[u].file
        OBVIOUS
      <4>4. Explained(g)' /\ task'[u].file = g
        BY <1>0, <3>2, <4>1, <4>2, <4>3 DEF NInv, Thumbs
      <4> QED BY <4>4 DEF Explained, Leaving
    <3> QED BY <3>3, <3>4 DEF Thumbs
  <2>10. NInv'
    BY <1>0, <2>1, <2>3, <2>6, <2>7, <2>8, <2>9, Going DEF Moved
  <2> QED BY <2>4, <2>10 DEF FInv
<1>8. CASE F!delete_storage_dir_if_empty(t)
  <2>1. /\ task[t] # Idle /\ task[t].op = "wipe" /\ task[t].at = "rmdir" /\ F!End(t)
        /\ UNCHANGED <<refs, alive, given, objects, where, stale, settled>>
        /\ dir' = F!_remove_record_directory_if_empty_at(t, dir)
    BY <1>8 DEF F!delete_storage_dir_if_empty, F!Doing, F!row, F!settings, settled
  <2>2. dir' \in Dirs(given) /\ dir'.files = dir.files /\ dir'.thumbs = dir.thumbs
    BY <1>0, <2>1, EmptyGoes
  <2>3. Goes(t) /\ Others(t) /\ task'[t] = Idle
    BY <1>0, <2>1, EndGoes
  <2>4. BInv'
    BY <1>0, <2>1, <2>3, GoesKeeps DEF settled
  <2>5. Keeps(t)
    BY <2>1, <2>2, <2>3 DEF Keeps, Others
  <2>6. Stores'
    BY <1>0, <2>1, <2>2 DEF Stores, Dirs, F!ReferencedIsStored, F!Stored
  <2>7. Thumbs'
    BY <1>0, <2>1, <2>2, <2>3, PlainThumbs DEF Others, F!Doing
  <2>8. NInv'
    BY <1>0, <2>3, <2>5, <2>6, <2>7, Ending
  <2> QED BY <2>4, <2>8 DEF FInv
<1> QED BY <1>1, <1>2, <1>3, <1>4, <1>5, <1>6, <1>7, <1>8 DEF F!Delete

\* A switch touches no file.
LEMMA SwitchFiles ==
    ASSUME FInv, NEW t \in Tasks, F!Switch(t), Others(t),
           task'[t] # Idle => task'[t].op = "switch"
    PROVE  NInv'
<1>1. BInv /\ NInv
  BY DEF FInv
<1>2. /\ UNCHANGED <<refs, alive, given, dir, objects, where, stale>>
      /\ task[t] # Idle => task[t].op = "switch"
  BY DEF F!Switch, F!update_settings, F!_commit_settings_update,
         F!_apply_runtime_settings_under_barrier,
         F!_reconcile_storage_runtime_from_durable_settings, F!ReconcileFails, F!Start, F!Doing, F!row, F!store
<1>3. Keeps(t) /\ Stores'
  BY <1>1, <1>2, Still
<1>4. Owned(t)' /\ ~F!Doing(t, "thumb", "make")' /\ ~F!Doing(t, "remove", "variant")
  BY <1>2 DEF Owned, F!Doing
<1>5. Thumbs'
  BY <1>1, <1>2, <1>4, PlainThumbs DEF Others
<1>6. CASE task'[t] = Idle
  BY <1>1, <1>3, <1>5, <1>6, Ending
<1>7. CASE task'[t] # Idle
  BY <1>1, <1>3, <1>4, <1>5, <1>7, Beginning
<1> QED BY <1>6, <1>7

\* The switch of the backend.
LEMMA SwitchStep ==
    ASSUME FInv, NEW t \in Tasks, F!Switch(t)
    PROVE  FInv'
<1>0. /\ BInv /\ Barrier /\ task \in [Tasks -> F!Jobs \cup {Idle}] /\ held \in [Tasks -> Modes]
      /\ durable \in F!Payloads
  BY DEF FInv, BInv, Barrier
<1>1. CASE F!update_settings(t)
  <2> DEFINE j == [op |-> "switch", at |-> "commit", file |-> Idle, fd |-> 0,
                   conf |-> F!_resolve_storage_config, value |-> durable]
  <2>1. j \in F!Jobs /\ j.op = "switch" /\ j.at = "commit"
    BY <1>0, Fields, StoreAssumption DEF F!Jobs
  <2>2. /\ task[t] = Idle /\ \A u \in Tasks : held[u] = "no"
        /\ task' = [task EXCEPT ![t] = j] /\ held' = [held EXCEPT ![t] = "exclusive"]
        /\ UNCHANGED <<durable, overrides, unreconciled>>
    BY <1>1 DEF F!update_settings, F!Start, F!settings
  <2> HIDE DEF j
  <2>3. /\ task' \in [Tasks -> F!Jobs \cup {Idle}] /\ held' \in [Tasks -> Modes]
        /\ task'[t] = j /\ held'[t] = "exclusive" /\ Others(t) /\ j # Idle
        /\ \A u \in Tasks : u # t => held'[u] = "no"
    BY <1>0, <2>1, <2>2, Fields DEF Modes, Others
  <2>4. Barrier'
    BY <1>0, <2>1, <2>2, <2>3 DEF Barrier, F!Doing, Others
  <2>5. F!OneBackendPerMutation' /\ F!RuntimeFollowsSettings'
    BY <2>1, <2>3 DEF F!OneBackendPerMutation, F!RuntimeFollowsSettings
  <2>6. NInv'
    BY <2>1, <2>3, SwitchFiles
  <2> QED BY <1>0, <2>2, <2>4, <2>5, <2>6 DEF FInv, BInv
<1>2. CASE F!_commit_settings_update(t)
  <2>1. /\ task[t] \in F!Jobs /\ task[t].op = "switch" /\ task[t].at = "commit"
        /\ held[t] = "exclusive" /\ \A u \in Tasks : u # t => held[u] = "no"
        /\ UNCHANGED <<overrides, unreconciled>>
    BY <1>0, <1>2 DEF F!_commit_settings_update, F!Doing, Barrier
  <2>2. PICK p \in F!Payloads, at \in {"apply", "reconcile"}, m \in {"no", "exclusive"} :
          /\ task' = [task EXCEPT ![t].at = at, ![t].value = p]
          /\ held' = [held EXCEPT ![t] = m] /\ durable' \in {p, durable}
          /\ at = "apply" => m = "exclusive" /\ durable' = p
    <3>1. held = [held EXCEPT ![t] = "exclusive"]
      BY <1>0, <2>1
    <3> QED BY <1>2, <3>1 DEF F!_commit_settings_update
  <2>3. PICK j : j = [task[t] EXCEPT !.at = at, !.value = p]
    OBVIOUS
  <2>4. j \in F!Jobs /\ j.op = "switch" /\ j.at = at /\ j.value = p
    BY <2>1, <2>3 DEF F!Jobs
  <2>5. /\ task' \in [Tasks -> F!Jobs \cup {Idle}] /\ held' \in [Tasks -> Modes]
        /\ task'[t] = j /\ held'[t] = m /\ Others(t) /\ j # Idle
        /\ \A u \in Tasks : u # t => held'[u] = "no"
    BY <1>0, <2>1, <2>2, <2>3, <2>4, Fields DEF Modes, Others
  <2>6. Barrier' /\ durable' \in F!Payloads
    <3>1. durable' \in F!Payloads
      BY <1>0, <2>2
    <3>2. \A u \in Tasks : u # t => held'[u] = "no" /\ task'[u] = task[u]
                                  /\ ~F!Doing(u, "switch", "commit") /\ ~F!Doing(u, "switch", "apply")
      BY <1>0, <2>1, <2>5 DEF Barrier, Others
    <3>3. /\ F!Doing(t, "switch", "commit")' \/ F!Doing(t, "switch", "apply")' => held'[t] = "exclusive"
          /\ F!Doing(t, "switch", "apply")' => task'[t].value = durable'
      BY <2>2, <2>4, <2>5 DEF F!Doing
    <3> QED BY <3>1, <3>2, <3>3, <2>2, <2>4, <2>5 DEF Barrier, F!Doing
  <2>7. F!OneBackendPerMutation' /\ F!RuntimeFollowsSettings'
    BY <2>2, <2>4, <2>5 DEF F!OneBackendPerMutation, F!RuntimeFollowsSettings
  <2>8. NInv'
    BY <2>4, <2>5, SwitchFiles
  <2> QED BY <2>6, <2>7, <2>8 DEF FInv, BInv
<1>3. CASE F!_apply_runtime_settings_under_barrier(t)
  <2>1. /\ task[t] \in F!Jobs /\ task[t].op = "switch" /\ task[t].at = "apply" /\ task[t].value = durable
        /\ held[t] = "exclusive" /\ \A u \in Tasks : u # t => held[u] = "no"
        /\ UNCHANGED <<durable, unreconciled>>
    BY <1>0, <1>3 DEF F!_apply_runtime_settings_under_barrier, F!Doing, Barrier
  <2>2. PICK j : j = [task[t] EXCEPT !.at = "reconcile"]
    OBVIOUS
  <2>3. j \in F!Jobs /\ j.op = "switch" /\ j.at = "reconcile"
    BY <2>1, <2>2 DEF F!Jobs
  <2>4. PICK k \in {j, Idle} :
          /\ task' = [task EXCEPT ![t] = k] /\ held' = [held EXCEPT ![t] = "no"]
          /\ k = Idle => overrides' = durable
    <3>1. CASE overrides' = task[t].value /\ F!End(t)
      BY <2>1, <3>1 DEF F!End
    <3>2. CASE /\ held' = [held EXCEPT ![t] = "no"]
               /\ task' = [task EXCEPT ![t].at = "reconcile"]
      <4>1. task' = [task EXCEPT ![t] = j]
        BY <2>2, <3>2
      <4> QED BY <2>3, <3>2, <4>1, Fields
    <3> QED BY <1>3, <3>1, <3>2 DEF F!_apply_runtime_settings_under_barrier
  <2>5. /\ task' \in [Tasks -> F!Jobs \cup {Idle}] /\ held' \in [Tasks -> Modes]
        /\ task'[t] = k /\ Others(t)
        /\ \A u \in Tasks : held'[u] = "no"
    BY <1>0, <2>1, <2>3, <2>4 DEF Modes, Others
  <2>6. Barrier'
    BY <1>0, <2>1, <2>3, <2>4, <2>5 DEF Barrier, F!Doing, Others
  <2>7. F!OneBackendPerMutation' /\ F!RuntimeFollowsSettings'
    BY <2>1, <2>3, <2>4, <2>5 DEF F!OneBackendPerMutation, F!RuntimeFollowsSettings
  <2>8. NInv'
    BY <2>3, <2>4, <2>5, SwitchFiles
  <2> QED BY <1>0, <2>1, <2>6, <2>7, <2>8 DEF FInv, BInv
<1>4. CASE F!_reconcile_storage_runtime_from_durable_settings(t) \/ F!ReconcileFails(t)
  <2>1. /\ task[t] # Idle /\ task[t].op = "switch" /\ task[t].at = "reconcile" /\ F!End(t)
        /\ UNCHANGED durable
        /\ \/ overrides' = durable /\ \A u \in Tasks : held[u] = "no"
           \/ overrides' = overrides /\ unreconciled' = TRUE
    BY <1>4 DEF F!_reconcile_storage_runtime_from_durable_settings, F!ReconcileFails, F!Doing
  <2>2. /\ task' \in [Tasks -> F!Jobs \cup {Idle}] /\ held' \in [Tasks -> Modes]
        /\ task'[t] = Idle /\ held'[t] = "no" /\ Others(t)
        /\ \A u \in Tasks : u # t => held'[u] = held[u]
    BY <1>0, <2>1 DEF F!End, Modes, Others
  <2>3. Barrier'
    BY <1>0, <2>1, <2>2 DEF Barrier, F!Doing, Others
  <2>4. F!OneBackendPerMutation'
    BY <1>0, <2>1, <2>2 DEF BInv, F!OneBackendPerMutation, F!_resolve_storage_config, Others
  <2>5. F!RuntimeFollowsSettings'
    BY <2>1 DEF F!RuntimeFollowsSettings
  <2>6. NInv'
    BY <2>2, SwitchFiles
  <2> QED BY <1>0, <2>1, <2>3, <2>4, <2>5, <2>6 DEF FInv, BInv
<1> QED BY <1>1, <1>2, <1>3, <1>4 DEF F!Switch

\* A restart ends every task and reads the settings row.
LEMMA RestartStep ==
    ASSUME FInv, F!Restart
    PROVE  FInv'
<1>1. /\ task' = [t \in Tasks |-> Idle] /\ held' = [t \in Tasks |-> "no"]
      /\ overrides' = durable
      /\ stale' = stale \cup {task[t].file : t \in {u \in Tasks : task[u] # Idle}}
      /\ UNCHANGED <<refs, alive, given, dir, objects, where, durable>>
  BY DEF F!Restart, F!row, F!store
<1>2. Barrier'
  BY <1>1 DEF Barrier, Modes, F!Doing
<1>3. BInv'
  BY <1>1, <1>2 DEF FInv, BInv, F!OneBackendPerMutation, F!RuntimeFollowsSettings
<1>4. Stores'
  BY <1>1 DEF FInv, NInv, Stores, F!ReferencedIsStored, F!Stored
<1>5. Apart' /\ \A t \in Tasks : Owned(t)'
  BY <1>1 DEF Apart, Owned
<1>6. \A f : Explained(f) => f \in dir'.files \/ f \in stale'
  BY <1>1 DEF Explained, Leaving, F!Doing
<1>7. Thumbs'
  BY <1>1, <1>6 DEF FInv, NInv, Thumbs, Explained, F!Doing
<1> QED BY <1>3, <1>4, <1>5, <1>7 DEF FInv, NInv

\* A record without files, and a process that has read its settings.
LEMMA StoreInit ==
    ASSUME F!Init PROVE FInv
<1>1. Barrier
  BY DEF F!Init, Barrier, Modes, F!Doing
<1>2. BInv
  BY <1>1 DEF F!Init, BInv, F!OneBackendPerMutation, F!RuntimeFollowsSettings
<1>3. Stores
  BY StoreAssumption DEF F!Init, F!NoDir, Stores, F!ReferencedIsStored
<1>4. Apart /\ \A t \in Tasks : Owned(t)
  BY DEF F!Init, Apart, Owned
<1>5. Thumbs
  BY DEF F!Init, F!NoDir, Thumbs, F!Doing
<1> QED BY <1>2, <1>3, <1>4, <1>5 DEF FInv, NInv

\* The transactions of the other part leave the store alone.
LEMMA StoreRests ==
    ASSUME FInv, UNCHANGED store PROVE FInv'
<1>1. UNCHANGED <<refs, alive, given, dir, objects, where, durable, overrides, held, task,
                  stale, unreconciled>>
  BY DEF store
<1>2. BInv'
  BY <1>1 DEF FInv, BInv, Barrier, F!Doing, F!OneBackendPerMutation, F!_resolve_storage_config,
              F!RuntimeFollowsSettings
<1>3. Stores' /\ Apart' /\ \A t \in Tasks : Owned(t)'
  BY <1>1 DEF FInv, NInv, Stores, F!ReferencedIsStored, F!Stored, Apart, Owned
<1>4. Thumbs'
  BY <1>1 DEF FInv, NInv, Thumbs, Explained, Leaving, F!Doing
<1> QED BY <1>2, <1>3, <1>4 DEF FInv, NInv

\* The inductive invariant of the store holds throughout (save_files,
\* delete_files, serve_file, update_settings and a restart).
THEOREM StoreInductive == StorageSpec => []FInv
<1>1. StorageInit => FInv
  BY StoreInit DEF StorageInit
<1>2. FInv /\ [StorageNext]_<<part, vars, store>> => FInv'
  <2>1. StorageNext => F!Next \/ UNCHANGED store
    BY DEF StorageNext
  <2>2. ASSUME FInv, F!Next PROVE FInv'
    BY <2>2, WriteStep, DeleteStep, ServeStep, SwitchStep, RestartStep DEF F!Next
  <2> QED BY <2>1, <2>2, StoreRests
<1> QED BY <1>1, <1>2, PTL DEF StorageSpec

\* A name the committed row holds has its bytes in the backend they were
\* written to, and a thumbnail outlives its original only as delete_files and
\* write_local_storage_variant_bytes overlapped, for any number of tasks.
THEOREM FilesStaySound == StorageSpec => []FilesAreSound
<1>1. FInv => FilesAreSound
  <2> SUFFICES ASSUME FInv PROVE FilesAreSound
    OBVIOUS
  <2>1. F!ReferencedIsStored
    BY DEF FInv, NInv, Stores
  <2>2. F!NoStaleThumbnail
    BY DEF FInv, NInv, Thumbs, Explained, Leaving, F!Doing, F!NoStaleThumbnail
  <2> QED BY <2>1, <2>2 DEF FilesAreSound
<1> QED BY <1>1, StoreInductive, PTL

\* A mutation works on one backend to its end, and without a switch under way
\* the process works on the one the settings row names, whatever COMMIT was
\* ambiguous (storage_runtime_switch_barrier, update_settings).
THEOREM BackendStaysSettled == StorageSpec => []BackendIsSettled
<1>1. FInv => BackendIsSettled
  BY DEF FInv, BInv, BackendIsSettled
<1> QED BY <1>1, StoreInductive, PTL
=============================================================================
