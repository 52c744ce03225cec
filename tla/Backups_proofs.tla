--------------------------- MODULE Backups_proofs ---------------------------
(***************************************************************************)
(* The backups of MCBackups for every value of the constants: the archives *)
(* of BackupArchives keep what was acknowledged and implement              *)
(* BackupCatalog, the sets of BackupSets are sealed and deleted as told,   *)
(* the schema of SchemaManager is what its metadata says, and the requests *)
(* of RestoreGate own what they hold.  Each part has an inductive          *)
(* invariant of its own, since the parts share no state.                   *)
(***************************************************************************)
EXTENDS MCBackups, FiniteSetTheorems, TLAPS

(***************************************************************************)
(* The archives: who holds which lease, what every directory a power loss  *)
(* may leave has in common, and in which order automatic archives came.    *)
(***************************************************************************)

\* The automatic archives among those listed that belong to a later minute than
\* a key, and those that are newer than a file.
Later(L, k) == {y \in L : y[1] \in A!AutomaticKeys /\ y[1][2] > k[2]}
Newer(L, f) == {y \in L : y[1] \in A!AutomaticKeys /\ y[2] > f}
Outdated(k) == k \in A!AutomaticKeys /\ Cardinality(Later(listed, k)) >= MaxKeep

\* The lease on the data directory has one holder; a deletion and a download
\* do not have that of the archives at the same time.
Writing(j) == j # Idle /\ j.op # "read"
Removing(j) == j # Idle /\ j.op = "delete"
Reading(j) == j # Idle /\ j.op = "read" /\ j.at \in {"leased", "pinned"}
Leases ==
    /\ \A a, b \in A!Actors : Writing(req[a]) /\ Writing(req[b]) => a = b
    /\ \A a, b \in A!Actors : ~(Removing(req[a]) /\ Reading(req[b]))

\* The directory has nothing that was not listed.
Listed == \A d \in disk : \A k \in A!Keys : d.zip[k] # A!NoFile => <<k, d.zip[k]>> \in listed

\* Automatic archives were written in the order of their minutes.
Chronological ==
    /\ \A y, z \in listed : y[1] \in A!AutomaticKeys /\ z[1] \in A!AutomaticKeys /\ y[2] <= z[2]
                            => y[1][2] <= z[1][2]
    /\ \A y \in listed : y[1] \in A!AutomaticKeys => y[1][2] <= clock

\* How far a creation is: its number is new until it is linked, and in the
\* directory and known to nobody afterwards; its minute is the latest.
Linked == {"linked", "attrs", "synced"}
Creates(j) ==
    j # Idle /\ j.op = "create" =>
        /\ j.at \in {"building", "staged"} \cup Linked
        /\ j.at # "building" => j.file \in 1..written
        /\ j.at = "staged" => \A y \in listed : y[2] < j.file
        /\ j.at \in Linked =>
              dir.zip[j.key] = j.file /\ \A x \in told \cup removed \cup pruned : x[2] # j.file
        /\ j.at = "synced" => disk = {dir}
        /\ j.key \in A!AutomaticKeys =>
              /\ j.key[2] <= clock
              /\ \A y \in listed : y[1] \in A!AutomaticKeys => y[1][2] <= j.key[2]

\* What a scheduler deletes is outdated.
Deletes(a, j) ==
    Removing(j) =>
        /\ j.at \in {"leased", "unlinked"} /\ <<j.key, j.file>> \in listed
        /\ a \notin Clients => Outdated(j.key)

\* A download has a file that keeps its name, or one whose creation failed.
Creating(j, f) == j # Idle /\ j.op = "create" /\ j.file = f
Reads(j) ==
    Reading(j) /\ j.at = "pinned" =>
        /\ j.file \in 1..written
        /\ \/ dir.zip[j.key] = j.file
           \/ <<j.key, j.file>> \notin told /\ \A c \in A!Actors : ~Creating(req[c], j.file)

Jobs == \A a \in A!Actors : Creates(req[a]) /\ Deletes(a, req[a]) /\ Reads(req[a])
Pruning == \A i \in Instances : \A k \in sched[i].victims : Outdated(k)

PrunedOld == \A x \in pruned : Cardinality(Newer(listed, x[2])) >= MaxKeep

ArchiveInv ==
    /\ A!TypeOK /\ Leases /\ Listed /\ Chronological /\ Jobs /\ Pruning
    /\ A!AcknowledgedIsKept /\ PrunedOld

----------------------------------------------------------------------------
LEMMA Bounds == MaxKeep \in Nat /\ MaxFiles \in Nat /\ MaxMinute \in Nat /\ MaxFaults \in Nat
  BY BackupsAssumption

\* Names of automatic archives are those of their minutes.
LEMMA KeyKinds ==
    /\ A!AutomaticKeys \subseteq A!Keys
    /\ \A n \in Names : <<"name", n>> \in A!Keys /\ <<"name", n>> \notin A!AutomaticKeys
    /\ \A m \in A!Minutes : A!automatic_backup_filename(m) \in A!AutomaticKeys
                            /\ A!automatic_backup_filename(m)[2] = m
    /\ \A k \in A!AutomaticKeys : k[2] \in A!Minutes /\ k[2] \in Nat
    /\ \A k, l \in A!AutomaticKeys : k[2] = l[2] => k = l
<1>1. \A k \in A!AutomaticKeys : \E m \in A!Minutes : k = <<"@auto", m>>
  BY DEF A!AutomaticKeys, A!automatic_backup_filename
<1>2. \A m \in A!Minutes : m \in Nat
  BY Bounds DEF A!Minutes
<1>3. \A k \in A!AutomaticKeys : k[2] \in A!Minutes /\ k[2] \in Nat /\ k[1] = "@auto"
  BY <1>1, <1>2
<1>4. \A k, l \in A!AutomaticKeys : k[2] = l[2] => k = l
  BY <1>1
<1>5. \A n \in Names : <<"name", n>> \in A!Keys /\ <<"name", n>> \notin A!AutomaticKeys
  BY <1>3 DEF A!Keys
<1>6. \A m \in A!Minutes : A!automatic_backup_filename(m) \in A!AutomaticKeys
                           /\ A!automatic_backup_filename(m)[2] = m
  BY DEF A!AutomaticKeys, A!automatic_backup_filename
<1> QED BY <1>3, <1>4, <1>5, <1>6 DEF A!Keys

\* There are finitely many automatic archives.
LEMMA FiniteAutomatic ==
    ASSUME NEW n \in Nat, NEW L \in SUBSET (A!Keys \X (1..n))
    PROVE  /\ \A k : IsFiniteSet(Later(L, k)) /\ Cardinality(Later(L, k)) \in Nat
           /\ \A f : IsFiniteSet(Newer(L, f)) /\ Cardinality(Newer(L, f)) \in Nat
<1>1. IsFiniteSet(A!AutomaticKeys)
  <2>1. IsFiniteSet(A!Minutes)
    BY FS_Interval, Bounds DEF A!Minutes
  <2>2. PICK g : g = [m \in A!Minutes |-> A!automatic_backup_filename(m)]
    OBVIOUS
  <2>3. g \in Surjection(A!Minutes, A!AutomaticKeys)
    BY <2>2 DEF Surjection, A!AutomaticKeys
  <2> QED BY <2>1, <2>3, FS_Surjection
<1>2. IsFiniteSet(1..n)
  BY FS_Interval
<1>3. IsFiniteSet(A!AutomaticKeys \X (1..n))
  BY <1>1, <1>2, FS_Product
<1>4. \A k : Later(L, k) \in SUBSET (A!AutomaticKeys \X (1..n))
  BY DEF Later
<1>5. \A f : Newer(L, f) \in SUBSET (A!AutomaticKeys \X (1..n))
  BY DEF Newer
<1> QED BY <1>3, <1>4, <1>5, FS_Subset, FS_CardinalityType

\* Listing more makes no archive newer.
LEMMA Monotone ==
    ASSUME NEW n \in Nat, NEW M \in SUBSET (A!Keys \X (1..n)), NEW L \in SUBSET M
    PROVE  /\ \A k : Cardinality(Later(L, k)) <= Cardinality(Later(M, k))
           /\ \A f : Cardinality(Newer(L, f)) <= Cardinality(Newer(M, f))
<1>1. \A k : Later(L, k) \in SUBSET Later(M, k)
  BY DEF Later
<1>2. \A f : Newer(L, f) \in SUBSET Newer(M, f)
  BY DEF Newer
<1> QED BY <1>1, <1>2, FiniteAutomatic, FS_Subset

LEMMA JobFields ==
    ASSUME NEW j \in A!Job
    PROVE  /\ j.key \in A!Keys /\ j.file \in A!Files \cup {A!NoFile} /\ j # Idle
           /\ j.op \in {"create", "delete", "read"}
           /\ j.at \in {"building", "staged", "linked", "attrs", "synced", "leased", "unlinked",
                        "named", "pinned"}
  BY BackupsAssumption DEF A!Job

LEMMA JobMoves ==
    ASSUME NEW j \in A!Job, NEW m,
           NEW p \in {"building", "staged", "linked", "attrs", "synced", "leased", "unlinked",
                      "named", "pinned"},
           m = [j EXCEPT !.at = p]
    PROVE  m \in A!Job /\ m.at = p /\ m.op = j.op /\ m.key = j.key /\ m.file = j.file
  BY DEF A!Job

Taken(j, p, f) == [j EXCEPT !.at = p, !.file = f]
LEMMA JobTakes ==
    ASSUME NEW j \in A!Job, NEW m, NEW f \in A!Files \cup {A!NoFile},
           NEW p \in {"staged", "pinned"}, m = Taken(j, p, f)
    PROVE  m \in A!Job /\ m.at = p /\ m.op = j.op /\ m.key = j.key /\ m.file = f
  BY DEF A!Job, Taken

LEMMA OutdatedKept ==
    ASSUME written' \in Nat, listed' \subseteq A!Keys \X (1..written'), listed \subseteq listed',
           NEW k, Outdated(k)
    PROVE  Outdated(k)'
<1>1. PICK M, n : M = listed' /\ n = written'
  OBVIOUS
<1>2. PICK L : L = listed
  OBVIOUS
<1>3. Cardinality(Later(L, k)) <= Cardinality(Later(M, k))
  BY <1>1, <1>2, Monotone
<1>4. Cardinality(Later(L, k)) \in Nat /\ Cardinality(Later(M, k)) \in Nat
  BY <1>1, <1>2, FiniteAutomatic
<1>5. Cardinality(Later(L, k)) >= MaxKeep
  BY <1>2 DEF Outdated
<1>6. Cardinality(Later(M, k)) >= MaxKeep
  BY <1>3, <1>4, <1>5, Bounds
<1> QED BY <1>1, <1>6 DEF Outdated

\* A step of one actor that leaves the directory and the histories alone.
LEMMA JobStep ==
    ASSUME ArchiveInv, NEW a \in A!Actors, NEW j \in A!Job \cup {Idle},
           req' = [req EXCEPT ![a] = j],
           UNCHANGED <<dir, disk, clock, written, listed, told, removed, pruned>>,
           faults' \in 0..MaxFaults, sched' \in [Instances -> A!Schedule],
           \A i \in Instances : \A k \in sched'[i].victims : Outdated(k),
           Creates(j), Deletes(a, j),
           Reading(j) /\ j.at = "pinned" => j.file \in 1..written /\ dir.zip[j.key] = j.file,
           Writing(j) => \A b \in A!Actors : Writing(req[b]) => b = a,
           Removing(j) => \A b \in A!Actors : b # a => ~Reading(req[b]),
           Reading(j) => \A b \in A!Actors : b # a => ~Removing(req[b]),
           j # Idle /\ j.op = "create" => j.file \notin 1..written
    PROVE  ArchiveInv'
<1>1. req' \in [A!Actors -> A!Job \cup {Idle}] /\ \A b \in A!Actors : req'[b] = IF b = a THEN j ELSE req[b]
  BY DEF ArchiveInv, A!TypeOK
<1>2. A!TypeOK'
  BY <1>1 DEF ArchiveInv, A!TypeOK
<1>3. Leases'
  <2>1. \A b, c \in A!Actors : Writing(req'[b]) /\ Writing(req'[c]) => b = c
    BY <1>1 DEF ArchiveInv, Leases
  <2>2. \A b, c \in A!Actors : ~(Removing(req'[b]) /\ Reading(req'[c]))
    BY <1>1 DEF ArchiveInv, Leases, Removing, Reading
  <2> QED BY <2>1, <2>2 DEF Leases, Writing, Removing, Reading
<1>4. Listed' /\ Chronological' /\ A!AcknowledgedIsKept' /\ PrunedOld'
  BY DEF ArchiveInv, Listed, Chronological, A!AcknowledgedIsKept, PrunedOld
<1>5. \A k : Outdated(k) <=> Outdated(k)'
  BY DEF Outdated
<1>6. Pruning'
  BY <1>5 DEF Pruning
<1>7. Jobs'
  <2> SUFFICES ASSUME NEW b \in A!Actors
               PROVE  Creates(req[b])' /\ Deletes(b, req[b])' /\ Reads(req[b])'
    BY DEF Jobs
  <2>1. Creates(req'[b]) /\ Deletes(b, req'[b])
    BY <1>1 DEF ArchiveInv, Jobs
  <2>2. Creates(req[b])'
    BY <2>1 DEF Creates
  <2>3. Deletes(b, req[b])'
    BY <2>1, <1>5 DEF Deletes, Removing
  <2>4. Reads(req[b])'
    <3> SUFFICES ASSUME Reading(req'[b]) /\ req'[b].at = "pinned"
                 PROVE  /\ req'[b].file \in 1..written
                        /\ \/ dir.zip[req'[b].key] = req'[b].file
                           \/ <<req'[b].key, req'[b].file>> \notin told
                              /\ \A c \in A!Actors : ~Creating(req'[c], req'[b].file)
      BY DEF Reads, Reading, Creating
    <3>1. CASE b = a
      BY <1>1, <3>1
    <3>2. CASE b # a
      <4>1. Reads(req[b]) /\ req'[b] = req[b]
        BY <1>1, <3>2 DEF ArchiveInv, Jobs
      <4>2. \A c \in A!Actors : Creating(req'[c], req[b].file) /\ req[b].file \in 1..written
                                => Creating(req[c], req[b].file)
        BY <1>1 DEF Creating
      <4> QED BY <4>1, <4>2 DEF Reads
    <3> QED BY <3>1, <3>2
  <2> QED BY <2>2, <2>3, <2>4
<1> QED BY <1>2, <1>3, <1>4, <1>6, <1>7 DEF ArchiveInv

\* The schedulers stay as they are.
LEMMA Quiet ==
    ASSUME ArchiveInv, UNCHANGED sched
    PROVE  /\ sched' \in [Instances -> A!Schedule]
           /\ \A i \in Instances : \A k \in sched'[i].victims : Outdated(k)
  BY DEF ArchiveInv, A!TypeOK, Pruning

\* A free lease has no holder.
LEMMA LeaseFree ==
    ASSUME A!global_exclusive
    PROVE  \A b \in A!Actors : ~Writing(req[b])
  BY DEF A!global_exclusive, Writing

\* A job that starts.
LEMMA CreationStarts ==
    ASSUME ArchiveInv, NEW a \in A!Actors, NEW k \in A!Keys,
           k \in A!AutomaticKeys => k[2] = clock,
           req[a] = Idle, A!global_exclusive,
           req' = [req EXCEPT ![a] = [op |-> "create", at |-> "building", key |-> k, file |-> A!NoFile]],
           UNCHANGED <<dir, disk, clock, written, listed, told, removed, pruned, faults>>,
           sched' \in [Instances -> A!Schedule],
           \A i \in Instances : \A l \in sched'[i].victims : Outdated(l)
    PROVE  ArchiveInv'
<1>1. PICK j : j = [op |-> "create", at |-> "building", key |-> k, file |-> A!NoFile]
  OBVIOUS
<1>2. j \in A!Job /\ j.op = "create" /\ j.at = "building" /\ j.key = k /\ j.file = 0
  BY <1>1 DEF A!Job, A!NoFile
<1>3. Creates(j)
  <2>1. k \in A!AutomaticKeys =>
              k[2] <= clock /\ \A y \in listed : y[1] \in A!AutomaticKeys => y[1][2] <= k[2]
    BY KeyKinds DEF ArchiveInv, Chronological
  <2> QED BY <1>2, <2>1 DEF Creates, Linked
<1>4. ~Removing(j) /\ ~Reading(j) /\ j.file \notin 1..written
  BY <1>2 DEF Removing, Reading, ArchiveInv, A!TypeOK
<1>5. faults' \in 0..MaxFaults
  BY DEF ArchiveInv, A!TypeOK
<1> QED BY <1>1, <1>2, <1>3, <1>4, <1>5, LeaseFree, JobStep DEF Deletes

\* A job that ends and leaves the directory as it is.
LEMMA JobEnds ==
    ASSUME ArchiveInv, NEW a \in A!Actors, req' = [req EXCEPT ![a] = Idle],
           UNCHANGED <<dir, disk, clock, written, listed, told, removed, pruned>>,
           faults' \in 0..MaxFaults, sched' \in [Instances -> A!Schedule],
           \A i \in Instances : \A l \in sched'[i].victims : Outdated(l)
    PROVE  ArchiveInv'
  BY JobStep DEF Creates, Deletes, Reading, Writing, Removing

LEMMA DeletionStarts ==
    ASSUME ArchiveInv, NEW a \in A!Actors, NEW k \in A!Keys, A!delete_local_backup(a, k),
           a \notin Clients => Outdated(k),
           UNCHANGED <<dir, disk, clock, written, listed, told, removed, pruned, faults>>,
           sched' \in [Instances -> A!Schedule],
           \A i \in Instances : \A l \in sched'[i].victims : Outdated(l)
    PROVE  ArchiveInv'
<1>1. PICK j : j = [op |-> "delete", at |-> "leased", key |-> k, file |-> dir.zip[k]]
  OBVIOUS
<1>2. /\ req' = [req EXCEPT ![a] = j] /\ A!global_exclusive /\ A!backup_exclusive
      /\ dir.zip[k] # A!NoFile
  BY <1>1 DEF A!delete_local_backup, A!exists
<1>3. dir.zip[k] \in A!Files \cup {A!NoFile} /\ <<k, dir.zip[k]>> \in listed
  BY <1>2 DEF ArchiveInv, A!TypeOK, A!Directory, Listed
<1>4. j \in A!Job /\ j.op = "delete" /\ j.at = "leased" /\ j.key = k /\ j.file = dir.zip[k]
  BY <1>1, <1>3 DEF A!Job
<1>5. Creates(j) /\ Deletes(a, j) /\ ~Reading(j)
  BY <1>3, <1>4 DEF Creates, Deletes, Reading
<1>6. \A b \in A!Actors : ~Reading(req[b])
  BY <1>2 DEF A!backup_exclusive, A!Doing, Reading
<1>7. faults' \in 0..MaxFaults
  BY DEF ArchiveInv, A!TypeOK
<1> QED BY <1>2, <1>4, <1>5, <1>6, <1>7, LeaseFree, JobStep

LEMMA DownloadStep ==
    ASSUME ArchiveInv, A!materialize_local_backup_zip
    PROVE  ArchiveInv'
<1>1. /\ UNCHANGED <<dir, disk, clock, written, listed, told, removed, pruned, sched, faults>>
      /\ faults' \in 0..MaxFaults
      /\ sched' \in [Instances -> A!Schedule]
      /\ \A i \in Instances : \A k \in sched'[i].victims : Outdated(k)
  BY Quiet DEF A!materialize_local_backup_zip, ArchiveInv, A!TypeOK
<1>2. PICK a \in Clients :
          \/ \E k \in A!Keys :
                /\ req[a] = Idle /\ A!exists(k)
                /\ req' = [req EXCEPT ![a] = [op |-> "read", at |-> "named", key |-> k, file |-> A!NoFile]]
          \/ A!Doing(a, "read", "named") /\ IF A!backup_shared THEN A!GoTo(a, "leased") ELSE A!End(a)
          \/ /\ A!Doing(a, "read", "leased")
             /\ IF A!exists(req[a].key)
                THEN req' = [req EXCEPT ![a].at = "pinned", ![a].file = dir.zip[req[a].key]]
                ELSE A!End(a)
          \/ A!Doing(a, "read", "pinned") /\ A!End(a)
  BY DEF A!materialize_local_backup_zip
<1>3. a \in A!Actors /\ req \in [A!Actors -> A!Job \cup {Idle}]
  BY DEF A!Actors, ArchiveInv, A!TypeOK
<1>4. CASE A!End(a)
  BY <1>1, <1>3, <1>4, JobEnds DEF A!End
<1>5. ASSUME NEW k \in A!Keys,
             req' = [req EXCEPT ![a] = [op |-> "read", at |-> "named", key |-> k, file |-> A!NoFile]]
      PROVE  ArchiveInv'
  <2>1. PICK j : j = [op |-> "read", at |-> "named", key |-> k, file |-> A!NoFile]
    OBVIOUS
  <2>2. j \in A!Job /\ j.op = "read" /\ j.at = "named"
    BY <2>1 DEF A!Job
  <2>3. Creates(j) /\ Deletes(a, j) /\ ~Reading(j) /\ ~Writing(j) /\ ~Removing(j)
    BY <2>2 DEF Creates, Deletes, Reading, Writing, Removing
  <2> QED BY <1>1, <1>3, <1>5, <2>1, <2>2, <2>3, JobStep
<1>6. CASE A!Doing(a, "read", "named") /\ A!backup_shared /\ A!GoTo(a, "leased")
  <2>1. PICK j : j = [req[a] EXCEPT !.at = "leased"]
    OBVIOUS
  <2>2. req[a] \in A!Job /\ req[a].op = "read" /\ req' = [req EXCEPT ![a] = j]
    BY <1>3, <1>6, <2>1 DEF A!Doing, A!GoTo
  <2>3. j \in A!Job /\ j.op = "read" /\ j.at = "leased"
    BY <2>1, <2>2, JobMoves
  <2>4. Creates(j) /\ Deletes(a, j) /\ ~Writing(j) /\ ~Removing(j)
    BY <2>3 DEF Creates, Deletes, Writing, Removing
  <2>5. \A b \in A!Actors : ~Removing(req[b])
    BY <1>6 DEF A!backup_shared, A!Doing, Removing, Deletes, ArchiveInv, Jobs
  <2> QED BY <1>1, <1>3, <2>2, <2>3, <2>4, <2>5, JobStep
<1>7. CASE /\ A!Doing(a, "read", "leased") /\ A!exists(req[a].key)
           /\ req' = [req EXCEPT ![a].at = "pinned", ![a].file = dir.zip[req[a].key]]
  <2>1. PICK f, j : f = dir.zip[req[a].key] /\ j = Taken(req[a], "pinned", f)
    OBVIOUS
  <2>2. req[a] \in A!Job /\ req[a].op = "read" /\ req[a].at = "leased" /\ req' = [req EXCEPT ![a] = j]
    BY <1>3, <1>7, <2>1 DEF A!Doing, Taken
  <2>3. f \in A!Files \cup {A!NoFile} /\ f # A!NoFile /\ <<req[a].key, f>> \in listed
    BY <1>7, <2>1, <2>2, JobFields DEF A!exists, ArchiveInv, A!TypeOK, A!Directory, Listed
  <2>4. j \in A!Job /\ j.op = "read" /\ j.at = "pinned" /\ j.key = req[a].key /\ j.file = f
    BY <2>1, <2>2, <2>3, JobTakes
  <2>5. f \in 1..written
    BY <2>3 DEF ArchiveInv, A!TypeOK
  <2>6. Creates(j) /\ Deletes(a, j) /\ ~Writing(j) /\ ~Removing(j) /\ Reading(req[a])
    BY <2>2, <2>4, JobFields DEF Creates, Deletes, Writing, Removing, Reading
  <2>7. \A b \in A!Actors : ~Removing(req[b])
    BY <1>3, <2>6 DEF ArchiveInv, Leases
  <2> QED BY <1>1, <1>3, <2>1, <2>2, <2>4, <2>5, <2>6, <2>7, JobStep
<1> QED BY <1>2, <1>4, <1>5, <1>6, <1>7

LEMMA FaultBound ==
    ASSUME ArchiveInv, A!Fault \/ UNCHANGED faults
    PROVE  faults' \in 0..MaxFaults
  BY Bounds DEF A!Fault, ArchiveInv, A!TypeOK

\* What requests ask for.
LEMMA AskStep ==
    ASSUME ArchiveInv, A!RequestBackup \/ A!upload_local_backup \/ A!RequestDelete
    PROVE  ArchiveInv'
<1>1. CASE A!RequestBackup \/ A!upload_local_backup
  <2>1. PICK a \in Clients, n \in Names :
           /\ req[a] = Idle /\ A!global_exclusive
           /\ req' = [req EXCEPT ![a] = [op |-> "create", at |-> "building", key |-> <<"name", n>>,
                                         file |-> A!NoFile]]
    BY <1>1 DEF A!RequestBackup, A!upload_local_backup, A!create_local_backup
  <2>2. UNCHANGED <<dir, disk, sched, clock, written, listed, told, removed, pruned, faults>>
    BY <1>1 DEF A!RequestBackup, A!upload_local_backup
  <2>3. PICK k : k = <<"name", n>>
    OBVIOUS
  <2>4. k \in A!Keys /\ k \notin A!AutomaticKeys /\ a \in A!Actors
    BY <2>3, KeyKinds DEF A!Actors
  <2> QED BY <2>1, <2>2, <2>3, <2>4, Quiet, CreationStarts
<1>2. CASE A!RequestDelete
  <2>1. PICK a \in Clients, k \in A!Keys : A!delete_local_backup(a, k)
    BY <1>2 DEF A!RequestDelete
  <2>2. UNCHANGED <<dir, disk, sched, clock, written, listed, told, removed, pruned, faults>>
    BY <1>2 DEF A!RequestDelete
  <2> QED BY <2>1, <2>2, Quiet, DeletionStarts DEF A!Actors
<1> QED BY <1>1, <1>2

LEMMA GuardStep ==
    ASSUME ArchiveInv, A!GuardRefuses
    PROVE  ArchiveInv'
<1>1. PICK a \in A!Actors : req' = [req EXCEPT ![a] = Idle]
  BY DEF A!GuardRefuses, A!End
<1>2. UNCHANGED <<dir, disk, sched, clock, written, listed, told, removed, pruned>> /\ A!Fault
  BY DEF A!GuardRefuses
<1> QED BY <1>1, <1>2, Quiet, FaultBound, JobEnds

\* A scheduler that starts again.
Restarted == [last |-> -1, minute |-> 0, at |-> "idle", victims |-> {}]
LEMMA RestartedType == Restarted \in A!Schedule /\ Restarted.victims = {}
  BY Bounds DEF Restarted, A!Schedule, A!Minutes

LEMMA DiesStep ==
    ASSUME ArchiveInv, A!ProcessDies
    PROVE  ArchiveInv'
<1>1. PICK a \in A!Actors :
         /\ req' = [req EXCEPT ![a] = Idle]
         /\ sched' = [i \in Instances |-> IF i = a THEN Restarted ELSE sched[i]]
  BY DEF A!ProcessDies, A!End, Restarted
<1>2. UNCHANGED <<dir, disk, clock, written, listed, told, removed, pruned>> /\ A!Fault
  BY DEF A!ProcessDies
<1>3. sched \in [Instances -> A!Schedule] /\ \A i \in Instances : \A k \in sched[i].victims : Outdated(k)
  BY DEF ArchiveInv, A!TypeOK, Pruning
<1>4. /\ sched' \in [Instances -> A!Schedule]
      /\ \A i \in Instances : \A k \in sched'[i].victims : Outdated(k)
  BY <1>1, <1>3, RestartedType
<1> QED BY <1>1, <1>2, <1>4, FaultBound, JobEnds

\* The changes of a scheduler's state.
Due(c, m) == [c EXCEPT !.at = "creating", !.minute = m]
Handled(c, m) == [c EXCEPT !.at = "idle", !.last = m]
Skipped(c, m) == [c EXCEPT !.last = m]
Prunes(c, v) == [c EXCEPT !.at = "pruning", !.victims = v]
Spares(c, v) == [c EXCEPT !.victims = v]

LEMMA ScheduleFields ==
    ASSUME NEW c \in A!Schedule, NEW m \in A!Minutes,
           NEW d, d = Due(c, m) \/ d = Handled(c, m) \/ d = Skipped(c, m)
    PROVE  d \in A!Schedule /\ d.victims = c.victims
  BY DEF A!Schedule, Due, Handled, Skipped

LEMMA VictimFields ==
    ASSUME NEW c \in A!Schedule, NEW v \in SUBSET A!AutomaticKeys,
           NEW d, d = Prunes(c, v) \/ d = Spares(c, v)
    PROVE  d \in A!Schedule /\ d.victims = v
  BY DEF A!Schedule, Prunes, Spares

\* One scheduler's state changes.
LEMMA ScheduleMoves ==
    ASSUME ArchiveInv, NEW i \in Instances, NEW d \in A!Schedule,
           sched' = [sched EXCEPT ![i] = d],
           \A k \in d.victims : Outdated(k)
    PROVE  /\ sched' \in [Instances -> A!Schedule]
           /\ \A h \in Instances : \A k \in sched'[h].victims : Outdated(k)
<1>1. sched \in [Instances -> A!Schedule] /\ \A h \in Instances : \A k \in sched[h].victims : Outdated(k)
  BY DEF ArchiveInv, A!TypeOK, Pruning
<1>2. \A h \in Instances : sched'[h] = IF h = i THEN d ELSE sched[h]
  BY <1>1
<1> QED BY <1>1, <1>2

\* Only the schedulers change.
LEMMA IdleStep ==
    ASSUME ArchiveInv,
           UNCHANGED <<req, dir, disk, clock, written, listed, told, removed, pruned, faults>>,
           sched' \in [Instances -> A!Schedule],
           \A i \in Instances : \A k \in sched'[i].victims : Outdated(k)
    PROVE  ArchiveInv'
<1>1. A!TypeOK' /\ Leases' /\ Listed' /\ Chronological'
  BY DEF ArchiveInv, A!TypeOK, Leases, Listed, Chronological, Writing, Removing, Reading
<1>2. A!AcknowledgedIsKept' /\ PrunedOld'
  BY DEF ArchiveInv, A!AcknowledgedIsKept, PrunedOld
<1>3. \A k : Outdated(k) <=> Outdated(k)'
  BY DEF Outdated
<1>4. Pruning'
  BY <1>3 DEF Pruning
<1>5. Jobs'
  BY <1>3 DEF ArchiveInv, Jobs, Creates, Deletes, Reads, Removing, Reading, Creating
<1> QED BY <1>1, <1>2, <1>4, <1>5 DEF ArchiveInv

LEMMA DueStep ==
    ASSUME ArchiveInv, A!run_automatic_backup_scheduler
    PROVE  ArchiveInv'
<1>1. /\ UNCHANGED <<dir, disk, clock, written, listed, told, removed, pruned, faults>>
      /\ clock \in A!Minutes /\ sched \in [Instances -> A!Schedule]
  BY DEF A!run_automatic_backup_scheduler, ArchiveInv, A!TypeOK
<1>2. PICK i \in Instances :
         IF A!global_exclusive /\ ~A!exists(A!automatic_backup_filename(clock))
         THEN /\ A!create_local_backup(i, A!automatic_backup_filename(clock))
              /\ sched' = [sched EXCEPT ![i].at = "creating", ![i].minute = clock]
         ELSE sched' = [sched EXCEPT ![i].last = clock] /\ UNCHANGED req
  BY DEF A!run_automatic_backup_scheduler
<1>3. i \in A!Actors /\ sched[i] \in A!Schedule /\ \A k \in sched[i].victims : Outdated(k)
  BY <1>1 DEF A!Actors, ArchiveInv, Pruning
<1>4. CASE /\ A!create_local_backup(i, A!automatic_backup_filename(clock))
           /\ sched' = [sched EXCEPT ![i].at = "creating", ![i].minute = clock]
  <2>1. PICK k, d : /\ k = A!automatic_backup_filename(clock)
                    /\ d = Due(sched[i], clock)
    OBVIOUS
  <2>2. k \in A!AutomaticKeys /\ k \in A!Keys /\ k[2] = clock
    BY <1>1, <2>1, KeyKinds
  <2>3. d \in A!Schedule /\ d.victims = sched[i].victims /\ sched' = [sched EXCEPT ![i] = d]
    BY <1>1, <1>3, <1>4, <2>1, ScheduleFields DEF Due
  <2>4. /\ req[i] = Idle /\ A!global_exclusive
        /\ req' = [req EXCEPT ![i] = [op |-> "create", at |-> "building", key |-> k, file |-> A!NoFile]]
    BY <1>4, <2>1 DEF A!create_local_backup
  <2> QED BY <1>1, <1>3, <2>2, <2>3, <2>4, ScheduleMoves, CreationStarts
<1>5. CASE sched' = [sched EXCEPT ![i].last = clock] /\ UNCHANGED req
  <2>1. PICK d : d = Skipped(sched[i], clock)
    OBVIOUS
  <2>2. d \in A!Schedule /\ d.victims = sched[i].victims /\ sched' = [sched EXCEPT ![i] = d]
    BY <1>1, <1>3, <1>5, <2>1, ScheduleFields DEF Skipped
  <2> QED BY <1>1, <1>3, <1>5, <2>2, ScheduleMoves, IdleStep
<1> QED BY <1>2, <1>4, <1>5

LEMMA SameCardinality ==
    ASSUME NEW X
    PROVE  A!Cardinality(X) = Cardinality(X)
  BY DEF A!Cardinality, Cardinality

\* What pruning chooses is outdated: every archive that is newer than a victim
\* is of a later minute.
LEMMA VictimsOutdated ==
    ASSUME ArchiveInv, NEW i
    PROVE  /\ A!_prune_automatic_backups(i) \in SUBSET A!AutomaticKeys
           /\ \A k \in A!_prune_automatic_backups(i) : Outdated(k)
<1>1. A!_prune_automatic_backups(i) \in SUBSET A!AutomaticKeys
  BY DEF A!_prune_automatic_backups, A!Automatic
<1>2. ASSUME NEW k \in A!_prune_automatic_backups(i)
      PROVE  Outdated(k)
  <2> DEFINE B == {l \in A!Automatic : dir.zip[l] > dir.zip[k]}
             T == Later(listed, k)
             g == [l \in B |-> <<l, dir.zip[l]>>]
  <2>1. k \in A!Automatic /\ Cardinality(B) >= MaxKeep
    <3>1. k \in A!Automatic /\ A!Cardinality(B) >= MaxKeep
      BY DEF A!_prune_automatic_backups
    <3> QED BY <3>1, SameCardinality
  <2>2. dir.zip \in [A!Keys -> A!Files \cup {A!NoFile}] /\ dir \in disk
    BY DEF ArchiveInv, A!TypeOK, A!Directory
  <2>3. \A l \in A!Automatic : /\ l \in A!AutomaticKeys /\ l \in A!Keys /\ dir.zip[l] \in Nat
                               /\ <<l, dir.zip[l]>> \in listed /\ l[2] \in Nat
    BY <2>2, KeyKinds, Bounds DEF A!Automatic, A!exists, ArchiveInv, Listed, A!Files, A!NoFile
  <2>4. \A l \in B : <<l, dir.zip[l]>> \in T
    <3> SUFFICES ASSUME NEW l \in B PROVE <<l, dir.zip[l]>> \in T
      OBVIOUS
    <3>0. l \in A!Automatic /\ dir.zip[l] > dir.zip[k]
      OBVIOUS
    <3>1. l \in A!Automatic /\ dir.zip[k] <= dir.zip[l] /\ l # k
      <4> HIDE DEF B
      <4>1. dir.zip[l] \in Nat /\ dir.zip[k] \in Nat
        BY <2>1, <2>3, <3>0
      <4> QED BY <3>0, <4>1
    <3>2. <<l, dir.zip[l]>> \in listed /\ <<k, dir.zip[k]>> \in listed
      BY <2>1, <2>3, <3>1
    <3>3. k[2] <= l[2]
      <4>1. PICK y, z : y = <<k, dir.zip[k]>> /\ z = <<l, dir.zip[l]>>
        OBVIOUS
      <4>2. y \in listed /\ z \in listed /\ y[1] = k /\ z[1] = l /\ y[2] <= z[2]
        BY <3>1, <3>2, <4>1
      <4>3. y[1] \in A!AutomaticKeys /\ z[1] \in A!AutomaticKeys
        BY <2>1, <2>3, <3>1, <4>2
      <4>4. y[1][2] <= z[1][2]
        BY <4>2, <4>3 DEF ArchiveInv, Chronological
      <4> QED BY <4>2, <4>4
    <3>4. l[2] > k[2]
      <4>1. l[2] # k[2] /\ l[2] \in Nat /\ k[2] \in Nat
        BY <2>1, <2>3, <3>1, KeyKinds
      <4> QED BY <3>3, <4>1
    <3> QED BY <2>3, <3>1, <3>2, <3>4 DEF Later
  <2>5. g \in Injection(B, T)
    <3> HIDE DEF B, T
    <3>1. g \in [B -> T]
      BY <2>4
    <3>2. \A x, y \in B : g[x] = g[y] => x = y
      OBVIOUS
    <3> HIDE DEF g
    <3> QED BY <3>1, <3>2 DEF Injection, IsInjective
  <2>6. IsFiniteSet(T) /\ Cardinality(T) \in Nat
    BY FiniteAutomatic, Bounds DEF ArchiveInv, A!TypeOK, A!Files, A!NoFile
  <2>7. IsFiniteSet(B) /\ Cardinality(B) <= Cardinality(T)
    <3> HIDE DEF g, B, T
    <3> QED BY <2>5, <2>6, FS_Injection
  <2>8. Cardinality(B) \in Nat
    BY <2>7, FS_CardinalityType
  <2>9. Cardinality(T) >= MaxKeep
    <3> HIDE DEF B, T
    <3> QED BY <2>1, <2>6, <2>7, <2>8, Bounds
  <2> QED BY <2>1, <2>3, <2>9 DEF Outdated
<1> QED BY <1>1, <1>2

LEMMA PruneStep ==
    ASSUME ArchiveInv, A!create_due_automatic_backup
    PROVE  ArchiveInv'
<1>1. /\ UNCHANGED <<dir, disk, clock, written, listed, told, removed, pruned, faults>>
      /\ sched \in [Instances -> A!Schedule]
  BY DEF A!create_due_automatic_backup, ArchiveInv, A!TypeOK
<1>2. PICK i \in Instances :
          \/ /\ \/ sched' = [sched EXCEPT ![i].at = "pruning", ![i].victims = A!_prune_automatic_backups(i)]
                \/ sched' = [sched EXCEPT ![i].at = "idle", ![i].last = sched[i].minute]
             /\ UNCHANGED req
          \/ \E k \in sched[i].victims :
                /\ A!delete_local_backup(i, k) \/ UNCHANGED req
                /\ sched' = [sched EXCEPT ![i].victims = @ \ {k}]
  BY DEF A!create_due_automatic_backup
<1>3. /\ i \in A!Actors /\ sched[i] \in A!Schedule /\ sched[i].minute \in A!Minutes
      /\ sched[i].victims \in SUBSET A!AutomaticKeys /\ \A k \in sched[i].victims : Outdated(k)
  BY <1>1 DEF A!Actors, ArchiveInv, Pruning, A!Schedule
<1>4. CASE /\ UNCHANGED req
           /\ sched' = [sched EXCEPT ![i].at = "pruning", ![i].victims = A!_prune_automatic_backups(i)]
  <2>1. PICK v, d : v = A!_prune_automatic_backups(i) /\ d = Prunes(sched[i], v)
    OBVIOUS
  <2>2. v \in SUBSET A!AutomaticKeys /\ \A k \in v : Outdated(k)
    BY <2>1, VictimsOutdated
  <2>3. d \in A!Schedule /\ d.victims = v
    BY <1>3, <2>1, <2>2, VictimFields
  <2>4. sched' = [sched EXCEPT ![i] = d]
    BY <1>1, <1>4, <2>1 DEF Prunes
  <2> QED BY <1>1, <1>4, <2>2, <2>3, <2>4, ScheduleMoves, IdleStep
<1>5. CASE UNCHANGED req /\ sched' = [sched EXCEPT ![i].at = "idle", ![i].last = sched[i].minute]
  <2>1. PICK d : d = Handled(sched[i], sched[i].minute)
    OBVIOUS
  <2>2. d \in A!Schedule /\ d.victims = sched[i].victims
    BY <1>3, <2>1, ScheduleFields
  <2>3. sched' = [sched EXCEPT ![i] = d]
    BY <1>1, <1>5, <2>1 DEF Handled
  <2> QED BY <1>1, <1>3, <1>5, <2>2, <2>3, ScheduleMoves, IdleStep
<1>6. ASSUME NEW k \in sched[i].victims, A!delete_local_backup(i, k) \/ UNCHANGED req,
             sched' = [sched EXCEPT ![i].victims = @ \ {k}]
      PROVE  ArchiveInv'
  <2>1. PICK v, d : v = sched[i].victims \ {k} /\ d = Spares(sched[i], v)
    OBVIOUS
  <2>2. d \in A!Schedule /\ d.victims = v /\ \A l \in v : Outdated(l)
    BY <1>3, <2>1, VictimFields
  <2>3. sched' = [sched EXCEPT ![i] = d]
    BY <1>1, <1>6, <2>1 DEF Spares
  <2>4. k \in A!Keys /\ Outdated(k)
    BY <1>3, KeyKinds
  <2> QED BY <1>1, <1>3, <1>6, <2>2, <2>3, <2>4, ScheduleMoves, IdleStep, DeletionStarts
<1> QED BY <1>2, <1>4, <1>5, <1>6

\* A step of the holder of the lease: nobody else creates or deletes, and of
\* the others only downloads have to be looked at.
LEMMA WriterStep ==
    ASSUME ArchiveInv, NEW a \in A!Actors, Writing(req[a]),
           NEW j \in A!Job \cup {Idle}, req' = [req EXCEPT ![a] = j],
           ~Reading(j), Removing(j) => Removing(req[a]),
           UNCHANGED sched, listed \subseteq listed',
           A!TypeOK', Listed', Chronological', A!AcknowledgedIsKept', PrunedOld',
           Creates(j)', Deletes(a, j)',
           \A b \in A!Actors : b # a => Reads(req[b])'
    PROVE  ArchiveInv'
<1>1. \A b \in A!Actors : req'[b] = IF b = a THEN j ELSE req[b]
  BY DEF ArchiveInv, A!TypeOK
<1>2. \A b \in A!Actors : b # a => ~Writing(req[b])
  BY DEF ArchiveInv, Leases
<1>3. Leases'
  <2>1. \A b, c \in A!Actors : Writing(req'[b]) /\ Writing(req'[c]) => b = c
    BY <1>1, <1>2
  <2>2. \A b, c \in A!Actors : ~(Removing(req'[b]) /\ Reading(req'[c]))
    BY <1>1, <1>2 DEF ArchiveInv, Leases, Removing, Writing
  <2> QED BY <2>1, <2>2 DEF Leases, Writing, Removing, Reading
<1>4. written' \in Nat /\ listed' \subseteq A!Keys \X (1..written')
  BY Bounds DEF A!TypeOK, A!Files, A!NoFile
<1>5. Pruning'
  BY <1>4, OutdatedKept DEF ArchiveInv, Pruning
<1>6. Jobs'
  <2> SUFFICES ASSUME NEW b \in A!Actors
               PROVE  Creates(req[b])' /\ Deletes(b, req[b])' /\ Reads(req[b])'
    BY DEF Jobs
  <2>1. CASE b = a
    BY <1>1, <2>1 DEF Creates, Deletes, Reads, Reading, Removing, Outdated
  <2>2. CASE b # a
    BY <1>1, <1>2, <2>2 DEF Creates, Deletes, Removing, Writing
  <2> QED BY <2>1, <2>2
<1> QED BY <1>3, <1>5, <1>6 DEF ArchiveInv

\* Downloads keep what they have when the step of the holder moves no name but
\* those of archives that will never be acknowledged.
LEMMA OthersRead ==
    ASSUME ArchiveInv, NEW a \in A!Actors, NEW j \in A!Job \cup {Idle},
           req' = [req EXCEPT ![a] = j],
           written' \in Nat, written <= written',
           \A k \in A!Keys, f \in 1..written :
               dir.zip[k] = f => \/ dir'.zip[k] = f
                                 \/ <<k, f>> \notin told' /\ \A c \in A!Actors : ~Creating(req'[c], f),
           \A k \in A!Keys, f \in 1..written : <<k, f>> \in told' => <<k, f>> \in told \/ Creating(req[a], f),
           \A f \in 1..written : Creating(j, f) => Creating(req[a], f)
    PROVE  \A b \in A!Actors : b # a => Reads(req[b])'
<1> SUFFICES ASSUME NEW b \in A!Actors, b # a, Reading(req'[b]), req'[b].at = "pinned"
             PROVE  /\ req'[b].file \in 1..written'
                    /\ \/ dir'.zip[req'[b].key] = req'[b].file
                       \/ /\ <<req'[b].key, req'[b].file>> \notin told'
                          /\ \A c \in A!Actors : ~Creating(req'[c], req'[b].file)
  BY DEF Reads, Reading, Creating
<1>1. req'[b] = req[b] /\ \A c \in A!Actors : req'[c] = IF c = a THEN j ELSE req[c]
  BY DEF ArchiveInv, A!TypeOK
<1>2. PICK k, f : k = req[b].key /\ f = req[b].file
  OBVIOUS
<1>3. k \in A!Keys /\ written \in Nat
  BY <1>1, <1>2, JobFields, Bounds DEF Reading, ArchiveInv, A!TypeOK, A!Files, A!NoFile
<1>4. /\ f \in 1..written
      /\ dir.zip[k] = f \/ (<<k, f>> \notin told /\ \A c \in A!Actors : ~Creating(req[c], f))
  BY <1>1, <1>2 DEF ArchiveInv, Jobs, Reads
<1>5. CASE dir.zip[k] = f
  BY <1>1, <1>2, <1>3, <1>4, <1>5
<1>6. CASE <<k, f>> \notin told /\ \A c \in A!Actors : ~Creating(req[c], f)
  <2>1. <<k, f>> \notin told'
    BY <1>3, <1>4, <1>6
  <2>2. \A c \in A!Actors : ~Creating(req'[c], f)
    BY <1>1, <1>4, <1>6
  <2> QED BY <1>1, <1>2, <1>3, <1>4, <2>1, <2>2
<1> QED BY <1>4, <1>5, <1>6

\* What is known of an actor that works on the directory.
LEMMA Worker ==
    ASSUME ArchiveInv, NEW a \in A!Actors, NEW op \in {"create", "delete"}, NEW at,
           A!Doing(a, op, at)
    PROVE  /\ req[a] \in A!Job /\ req[a] # Idle /\ req[a].op = op /\ req[a].at = at /\ Writing(req[a])
           /\ req[a].key \in A!Keys /\ req[a].file \in A!Files \cup {A!NoFile} /\ ~Reading(req[a])
           /\ Creates(req[a]) /\ Deletes(a, req[a])
           /\ \A b \in A!Actors : b # a => ~Writing(req[b])
<1>1. req[a] \in A!Job /\ req[a] # Idle /\ req[a].op = op /\ req[a].at = at
  BY DEF A!Doing, ArchiveInv, A!TypeOK
<1>2. Writing(req[a]) /\ ~Reading(req[a])
  BY <1>1 DEF Writing, Reading
<1>3. \A b \in A!Actors : b # a => ~Writing(req[b])
  BY <1>2 DEF ArchiveInv, Leases
<1> QED BY <1>1, <1>2, <1>3, JobFields DEF ArchiveInv, Jobs

LEMMA StageStep ==
    ASSUME ArchiveInv, NEW a \in A!Actors, A!Doing(a, "create", "building"), written < MaxFiles,
           written' = written + 1,
           req' = [req EXCEPT ![a].at = "staged", ![a].file = written + 1],
           UNCHANGED <<dir, disk, listed, told, sched, clock, removed, pruned, faults>>
    PROVE  ArchiveInv'
<1>1. PICK f, j : f = written + 1 /\ j = Taken(req[a], "staged", f)
  OBVIOUS
<1>2. written \in Nat /\ f \in A!Files /\ f \in Nat
  BY <1>1, Bounds DEF ArchiveInv, A!TypeOK, A!Files, A!NoFile
<1>3. /\ req[a] \in A!Job /\ req[a].op = "create" /\ Writing(req[a]) /\ Creates(req[a]) /\ req[a] # Idle
      /\ \A b \in A!Actors : b # a => ~Writing(req[b])
  BY Worker
<1>4. j \in A!Job /\ j.op = "create" /\ j.at = "staged" /\ j.key = req[a].key /\ j.file = f
  BY <1>1, <1>2, <1>3, JobTakes
<1>5. req' = [req EXCEPT ![a] = j] /\ req' \in [A!Actors -> A!Job \cup {Idle}]
  BY <1>1, <1>4 DEF Taken, ArchiveInv, A!TypeOK
<1>6. A!TypeOK'
  <2>1. listed' \subseteq A!Keys \X (1..written')
    BY <1>2 DEF ArchiveInv, A!TypeOK
  <2>2. written' \in A!Files \cup {A!NoFile}
    BY <1>1, <1>2
  <2> QED BY <1>5, <2>1, <2>2 DEF ArchiveInv, A!TypeOK
<1>7. Listed' /\ Chronological' /\ A!AcknowledgedIsKept' /\ PrunedOld'
  BY DEF ArchiveInv, Listed, Chronological, A!AcknowledgedIsKept, PrunedOld
<1>8. Creates(j)'
  <2>1. \A y \in listed : y[2] < f
    BY <1>1, <1>2 DEF ArchiveInv, A!TypeOK
  <2>2. f \in 1..written'
    BY <1>1, <1>2
  <2> QED BY <1>3, <1>4, <2>1, <2>2 DEF Creates, Linked
<1>9. ~Reading(j) /\ ~Removing(j)
  BY <1>4 DEF Reading, Removing
<1>10. \A b \in A!Actors : b # a => Reads(req[b])'
  <2>1. \A g \in 1..written : ~Creating(j, g)
    BY <1>1, <1>2, <1>4 DEF Creating
  <2>2. written' \in Nat /\ written <= written' /\ dir' = dir /\ told' = told
    BY <1>2
  <2> QED BY <1>4, <1>5, <2>1, <2>2, OthersRead
<1> QED BY <1>3, <1>4, <1>5, <1>6, <1>7, <1>8, <1>9, <1>10, WriterStep DEF Deletes

LEMMA DirectoryFields ==
    ASSUME NEW d \in A!Directory
    PROVE  /\ d.zip \in [A!Keys -> A!Files \cup {A!NoFile}] /\ d.attrs \in [A!Keys -> A!Files \cup {A!NoFile}]
           /\ d = [zip |-> d.zip, attrs |-> d.attrs]
  BY DEF A!Directory

\* The link of a name, its attributes, and their removal.
SetZip(d, k, f) == [d EXCEPT !.zip[k] = f]
SetAttrs(d, k, f) == [d EXCEPT !.attrs[k] = f]

LEMMA ZipSet ==
    ASSUME NEW d \in A!Directory, NEW k \in A!Keys, NEW f \in A!Files \cup {A!NoFile},
           NEW e, e = SetZip(d, k, f)
    PROVE  e \in A!Directory /\ \A l \in A!Keys : e.zip[l] = IF l = k THEN f ELSE d.zip[l]
<1>1. PICK z, t : z = d.zip /\ t = d.attrs /\ d = [zip |-> z, attrs |-> t]
  BY DirectoryFields
<1>2. e = [zip |-> [z EXCEPT ![k] = f], attrs |-> t]
  BY <1>1 DEF SetZip
<1>3. PICK y : y = [z EXCEPT ![k] = f]
  OBVIOUS
<1>4. y \in [A!Keys -> A!Files \cup {A!NoFile}] /\ \A l \in A!Keys : y[l] = IF l = k THEN f ELSE z[l]
  BY <1>1, <1>3, DirectoryFields
<1>5. e.zip = y /\ e \in A!Directory
  BY <1>1, <1>2, <1>3, <1>4, DirectoryFields DEF A!Directory
<1> QED BY <1>1, <1>4, <1>5

LEMMA AttrsSet ==
    ASSUME NEW d \in A!Directory, NEW k \in A!Keys, NEW f \in A!Files \cup {A!NoFile},
           NEW e, e = SetAttrs(d, k, f)
    PROVE  e \in A!Directory /\ e.zip = d.zip
<1>1. PICK z, t : z = d.zip /\ t = d.attrs /\ d = [zip |-> z, attrs |-> t]
  BY DirectoryFields
<1>2. e = [zip |-> z, attrs |-> [t EXCEPT ![k] = f]]
  BY <1>1 DEF SetAttrs
<1>3. [t EXCEPT ![k] = f] \in [A!Keys -> A!Files \cup {A!NoFile}]
  BY <1>1, DirectoryFields
<1> QED BY <1>1, <1>2, <1>3, DirectoryFields DEF A!Directory

LEMMA LinkStep ==
    ASSUME ArchiveInv, NEW a \in A!Actors, A!Doing(a, "create", "staged"),
           dir.zip[req[a].key] = A!NoFile,
           A!Change([dir EXCEPT !.zip[req[a].key] = req[a].file]),
           listed' = listed \cup {<<req[a].key, req[a].file>>},
           A!GoTo(a, "linked"),
           UNCHANGED <<told, written, sched, clock, removed, pruned, faults>>
    PROVE  ArchiveInv'
<1>1. PICK k, f, e, j : /\ k = req[a].key /\ f = req[a].file /\ e = SetZip(dir, k, f)
                        /\ j = [req[a] EXCEPT !.at = "linked"]
  OBVIOUS
<1>2. /\ req[a] \in A!Job /\ req[a].op = "create" /\ req[a].at = "staged" /\ Writing(req[a])
      /\ Creates(req[a]) /\ req[a] # Idle /\ k \in A!Keys
      /\ \A b \in A!Actors : b # a => ~Writing(req[b])
  BY <1>1, Worker
<1>3. j \in A!Job /\ j.op = "create" /\ j.at = "linked" /\ j.key = k /\ j.file = f
  BY <1>1, <1>2, JobMoves
<1>4. req' = [req EXCEPT ![a] = j] /\ req' \in [A!Actors -> A!Job \cup {Idle}]
  BY <1>1, <1>3 DEF A!GoTo, ArchiveInv, A!TypeOK
<1>5. /\ f \in 1..written /\ f \in A!Files /\ f # A!NoFile /\ written \in Nat /\ f \in Nat
      /\ \A y \in listed : y[2] < f
      /\ k \in A!AutomaticKeys =>
            k[2] <= clock /\ \A y \in listed : y[1] \in A!AutomaticKeys => y[1][2] <= k[2]
  BY <1>1, <1>2, Bounds DEF Creates, ArchiveInv, A!TypeOK, A!Files, A!NoFile
<1>6. /\ dir \in A!Directory /\ dir \in disk /\ disk \subseteq A!Directory /\ dir.zip[k] = A!NoFile
      /\ listed \subseteq A!Keys \X (1..written)
      /\ told \subseteq listed /\ removed \subseteq listed /\ pruned \subseteq listed
  BY <1>1 DEF ArchiveInv, A!TypeOK
<1>7. e \in A!Directory /\ \A l \in A!Keys : e.zip[l] = IF l = k THEN f ELSE dir.zip[l]
  BY <1>1, <1>2, <1>5, <1>6, ZipSet
<1>8. dir' = e /\ disk' = disk \cup {e} /\ listed' = listed \cup {<<k, f>>}
  BY <1>1 DEF A!Change, SetZip
<1>9. A!TypeOK'
  BY <1>2, <1>4, <1>5, <1>6, <1>7, <1>8 DEF ArchiveInv, A!TypeOK
<1>10. Listed'
  BY <1>6, <1>7, <1>8 DEF ArchiveInv, Listed
<1>11. Chronological'
  <2>0. PICK n : n = <<k, f>>
    OBVIOUS
  <2>1. n = <<k, f>> /\ n[1] = k /\ n[2] = f
    BY <2>0
  <2>2. \A y \in listed : y[2] \in Nat
    BY <1>6
  <2>3. listed' = listed \cup {n}
    BY <1>8, <2>1
  <2>4. \A y, z \in listed : y[1] \in A!AutomaticKeys /\ z[1] \in A!AutomaticKeys /\ y[2] <= z[2]
                             => y[1][2] <= z[1][2]
    BY DEF ArchiveInv, Chronological
  <2>5. \A y \in listed : y[1] \in A!AutomaticKeys => y[1][2] <= clock
    BY DEF ArchiveInv, Chronological
  <2>6. k \in A!AutomaticKeys => k[2] \in Nat
    BY KeyKinds
  <2> QED BY <1>5, <2>1, <2>2, <2>3, <2>4, <2>5, <2>6 DEF Chronological
<1>12. A!AcknowledgedIsKept'
  <2> SUFFICES ASSUME NEW x \in told \ (removed \cup pruned), NEW d \in disk'
               PROVE  d.zip[x[1]] = x[2]
    BY DEF A!AcknowledgedIsKept
  <2>1. \A c \in disk : c.zip[x[1]] = x[2]
    BY DEF ArchiveInv, A!AcknowledgedIsKept
  <2>2. x[1] \in A!Keys /\ x[2] \in 1..written
    BY <1>6
  <2>3. x[1] # k
    BY <1>6, <2>1, <2>2 DEF A!NoFile
  <2> QED BY <1>6, <1>7, <1>8, <2>1, <2>2, <2>3
<1>13. PrunedOld'
  <2>1. PICK L, M : L = listed /\ M = listed' /\ L \subseteq M /\ M \subseteq A!Keys \X (1..written)
    BY <1>2, <1>5, <1>6, <1>8
  <2>2. ASSUME NEW x \in pruned PROVE Cardinality(Newer(M, x[2])) >= MaxKeep
    <3>1. Cardinality(Newer(L, x[2])) >= MaxKeep
      BY <2>1 DEF ArchiveInv, PrunedOld
    <3>2. Cardinality(Newer(L, x[2])) <= Cardinality(Newer(M, x[2]))
      BY <1>5, <2>1, Monotone
    <3>3. Cardinality(Newer(L, x[2])) \in Nat /\ Cardinality(Newer(M, x[2])) \in Nat
      BY <1>5, <2>1, FiniteAutomatic
    <3> QED BY <3>1, <3>2, <3>3, Bounds
  <2> QED BY <2>1, <2>2 DEF PrunedOld
<1>14. Creates(j)'
  <2>1. \A x \in told \cup removed \cup pruned : x[2] # f
    BY <1>5, <1>6
  <2>2. dir'.zip[k] = f
    BY <1>2, <1>7, <1>8
  <2>3. k \in A!AutomaticKeys => \A y \in listed' : y[1] \in A!AutomaticKeys => y[1][2] <= k[2]
    BY <1>5, <1>8, KeyKinds
  <2> QED BY <1>3, <1>5, <2>1, <2>2, <2>3 DEF Creates, Linked
<1>15. \A b \in A!Actors : b # a => Reads(req[b])'
  <2>1. \A l \in A!Keys, g \in 1..written : dir.zip[l] = g => dir'.zip[l] = g
    BY <1>6, <1>7, <1>8 DEF A!NoFile
  <2>2. \A g \in 1..written : Creating(j, g) => Creating(req[a], g)
    BY <1>1, <1>2, <1>3 DEF Creating
  <2>3. told' = told /\ written' \in Nat /\ written <= written'
    BY <1>5
  <2> QED BY <1>3, <1>4, <2>1, <2>2, <2>3, OthersRead
<1>16. ~Reading(j) /\ ~Removing(j) /\ listed \subseteq listed'
  BY <1>3, <1>8 DEF Reading, Removing
<1> QED BY <1>2, <1>3, <1>4, <1>9, <1>10, <1>11, <1>12, <1>13, <1>14, <1>15, <1>16, WriterStep DEF Deletes

\* Attributes and fsync: no archive changes its name.
LEMMA NamesStay ==
    ASSUME ArchiveInv, NEW a \in A!Actors, Writing(req[a]), NEW j \in A!Job \cup {Idle},
           req' = [req EXCEPT ![a] = j], ~Reading(j), Removing(j) => Removing(req[a]),
           dir' \in A!Directory, dir'.zip = dir.zip, disk' = disk \cup {dir'} \/ disk' = {dir'},
           UNCHANGED <<sched, clock, written, listed, told, removed, pruned, faults>>,
           Creates(j)', Deletes(a, j)',
           \A g \in 1..written : Creating(j, g) => Creating(req[a], g)
    PROVE  ArchiveInv'
<1>1. /\ dir \in disk /\ disk \subseteq A!Directory /\ written \in Nat
      /\ req' \in [A!Actors -> A!Job \cup {Idle}]
  BY Bounds DEF ArchiveInv, A!TypeOK, A!Files, A!NoFile
<1>2. A!TypeOK'
  BY <1>1 DEF ArchiveInv, A!TypeOK
<1>3. \A d \in disk' : \E e \in disk : d.zip = e.zip
  BY <1>1
<1>4. Listed'
  BY <1>3 DEF ArchiveInv, Listed
<1>5. A!AcknowledgedIsKept'
  BY <1>3 DEF ArchiveInv, A!AcknowledgedIsKept
<1>6. Chronological' /\ PrunedOld'
  BY DEF ArchiveInv, Chronological, PrunedOld
<1>7. \A b \in A!Actors : b # a => Reads(req[b])'
  <2>1. told' = told /\ written' \in Nat /\ written <= written'
    BY <1>1
  <2> QED BY <2>1, OthersRead
<1> QED BY <1>2, <1>4, <1>5, <1>6, <1>7, WriterStep

LEMMA PublishAttrsStep ==
    ASSUME ArchiveInv, NEW a \in A!Actors, A!Doing(a, "create", "linked"),
           A!Change([dir EXCEPT !.attrs[req[a].key] = req[a].file]), A!GoTo(a, "attrs"),
           UNCHANGED <<listed, told, written, sched, clock, removed, pruned, faults>>
    PROVE  ArchiveInv'
<1>1. PICK k, f, e, j : /\ k = req[a].key /\ f = req[a].file /\ e = SetAttrs(dir, k, f)
                        /\ j = [req[a] EXCEPT !.at = "attrs"]
  OBVIOUS
<1>2. /\ req[a] \in A!Job /\ req[a].op = "create" /\ req[a].at = "linked" /\ Writing(req[a])
      /\ Creates(req[a]) /\ req[a] # Idle /\ k \in A!Keys /\ f \in A!Files \cup {A!NoFile}
  BY <1>1, Worker
<1>3. j \in A!Job /\ j.op = "create" /\ j.at = "attrs" /\ j.key = k /\ j.file = f
  BY <1>1, <1>2, JobMoves
<1>4. req' = [req EXCEPT ![a] = j] /\ dir' = e /\ disk' = disk \cup {e}
  BY <1>1 DEF A!GoTo, A!Change, SetAttrs
<1>5. e \in A!Directory /\ e.zip = dir.zip
  BY <1>1, <1>2, AttrsSet DEF ArchiveInv, A!TypeOK
<1>6. Creates(j)'
  BY <1>1, <1>2, <1>3, <1>4, <1>5 DEF Creates, Linked
<1>7. ~Reading(j) /\ ~Removing(j) /\ \A g \in 1..written : Creating(j, g) => Creating(req[a], g)
  BY <1>1, <1>2, <1>3 DEF Reading, Removing, Creating
<1> QED BY <1>2, <1>3, <1>4, <1>5, <1>6, <1>7, NamesStay DEF Deletes

LEMMA PublishSyncStep ==
    ASSUME ArchiveInv, NEW a \in A!Actors, A!Doing(a, "create", "attrs"), A!Sync,
           A!GoTo(a, "synced"),
           UNCHANGED <<listed, told, written, sched, clock, removed, pruned, faults>>
    PROVE  ArchiveInv'
<1>1. PICK k, f, j : k = req[a].key /\ f = req[a].file /\ j = [req[a] EXCEPT !.at = "synced"]
  OBVIOUS
<1>2. /\ req[a] \in A!Job /\ req[a].op = "create" /\ req[a].at = "attrs" /\ Writing(req[a])
      /\ Creates(req[a]) /\ req[a] # Idle
  BY <1>1, Worker
<1>3. j \in A!Job /\ j.op = "create" /\ j.at = "synced" /\ j.key = k /\ j.file = f
  BY <1>1, <1>2, JobMoves
<1>4. req' = [req EXCEPT ![a] = j] /\ dir' = dir /\ disk' = {dir} /\ dir \in A!Directory
  BY <1>1 DEF A!GoTo, A!Sync, ArchiveInv, A!TypeOK
<1>5. Creates(j)'
  BY <1>1, <1>2, <1>3, <1>4 DEF Creates, Linked
<1>6. ~Reading(j) /\ ~Removing(j) /\ \A g \in 1..written : Creating(j, g) => Creating(req[a], g)
  BY <1>1, <1>2, <1>3 DEF Reading, Removing, Creating
<1> QED BY <1>2, <1>3, <1>4, <1>5, <1>6, NamesStay DEF Deletes

\* The archive is on disk, and its creation is acknowledged.
LEMMA AcknowledgeStep ==
    ASSUME ArchiveInv, NEW a \in A!Actors, A!Doing(a, "create", "synced"), A!End(a),
           told' = told \cup {<<req[a].key, req[a].file>>},
           UNCHANGED <<dir, disk, listed, written, sched, clock, removed, pruned, faults>>
    PROVE  ArchiveInv'
<1>1. PICK k, f, j : k = req[a].key /\ f = req[a].file /\ j = Idle
  OBVIOUS
<1>2. /\ req[a] \in A!Job /\ req[a].op = "create" /\ req[a].at = "synced" /\ Writing(req[a])
      /\ Creates(req[a]) /\ req[a] # Idle /\ k \in A!Keys
  BY <1>1, Worker
<1>3. dir.zip[k] = f /\ disk = {dir} /\ f \in 1..written
  BY <1>1, <1>2 DEF Creates, Linked
<1>4. /\ req' = [req EXCEPT ![a] = j] /\ told' = told \cup {<<k, f>>} /\ written \in Nat
      /\ req' \in [A!Actors -> A!Job \cup {Idle}]
  BY <1>1, Bounds DEF A!End, ArchiveInv, A!TypeOK, A!Files, A!NoFile
<1>5. <<k, f>> \in listed
  BY <1>2, <1>3 DEF ArchiveInv, Listed, A!NoFile
<1>6. A!TypeOK'
  BY <1>4, <1>5 DEF ArchiveInv, A!TypeOK
<1>7. Listed' /\ Chronological' /\ PrunedOld'
  BY DEF ArchiveInv, Listed, Chronological, PrunedOld
<1>8. A!AcknowledgedIsKept'
  BY <1>3, <1>4 DEF ArchiveInv, A!AcknowledgedIsKept
<1>9. \A b \in A!Actors : b # a => Reads(req[b])'
  <2>1. \A l \in A!Keys, g \in 1..written : <<l, g>> \in told' => <<l, g>> \in told \/ Creating(req[a], g)
    BY <1>1, <1>2, <1>4 DEF Creating
  <2>2. \A g \in 1..written : ~Creating(j, g)
    BY <1>1 DEF Creating
  <2>3. dir' = dir /\ written' \in Nat /\ written <= written'
    BY <1>4
  <2> QED BY <1>1, <1>4, <2>1, <2>2, <2>3, OthersRead
<1>10. Creates(j)' /\ Deletes(a, j)' /\ ~Reading(j) /\ ~Removing(j)
  BY <1>1 DEF Creates, Deletes, Reading, Removing
<1> QED BY <1>1, <1>2, <1>4, <1>6, <1>7, <1>8, <1>9, <1>10, WriterStep

LEMMA PublishArchiveStep ==
    ASSUME ArchiveInv, A!publish
    PROVE  ArchiveInv'
<1>1. PICK a \in A!Actors :
          LET k == req[a].key IN
          \/ /\ A!Doing(a, "create", "building") /\ ~A!exists(k) /\ written < MaxFiles
             /\ written' = written + 1
             /\ req' = [req EXCEPT ![a].at = "staged", ![a].file = written + 1]
             /\ UNCHANGED <<dir, disk, listed, told>>
          \/ /\ A!Doing(a, "create", "staged") /\ dir.zip[k] = A!NoFile
             /\ A!Change([dir EXCEPT !.zip[k] = req[a].file])
             /\ listed' = listed \cup {<<k, req[a].file>>}
             /\ A!GoTo(a, "linked") /\ UNCHANGED <<told, written>>
          \/ /\ A!Doing(a, "create", "linked") /\ dir.attrs[k] = A!NoFile
             /\ A!Change([dir EXCEPT !.attrs[k] = req[a].file])
             /\ A!GoTo(a, "attrs") /\ UNCHANGED <<listed, told, written>>
          \/ /\ A!Doing(a, "create", "attrs")
             /\ A!Sync
             /\ A!GoTo(a, "synced") /\ UNCHANGED <<listed, told, written>>
          \/ /\ A!Doing(a, "create", "synced")
             /\ told' = told \cup {<<k, req[a].file>>}
             /\ A!End(a) /\ UNCHANGED <<dir, disk, listed, written>>
  BY DEF A!publish
<1>2. UNCHANGED <<sched, clock, removed, pruned, faults>>
  BY DEF A!publish
<1> QED BY <1>1, <1>2, StageStep, LinkStep, PublishAttrsStep, PublishSyncStep, AcknowledgeStep

\* An archive that nobody was told of, or that a deletion is about, loses its name.
LEMMA NameGone ==
    ASSUME ArchiveInv, NEW a \in A!Actors, Writing(req[a]), NEW j \in A!Job \cup {Idle},
           req' = [req EXCEPT ![a] = j], ~Reading(j), Removing(j) => Removing(req[a]),
           NEW k \in A!Keys, NEW f \in A!Files, dir.zip[k] = f,
           NEW e \in A!Directory, \A l \in A!Keys : e.zip[l] = IF l = k THEN A!NoFile ELSE dir.zip[l],
           dir' = e, disk' = disk \cup {e},
           UNCHANGED <<sched, clock, written, listed, told>>,
           removed \subseteq removed', pruned \subseteq pruned',
           removed' \cup pruned' \subseteq listed, <<k, f>> \notin told \ (removed' \cup pruned'),
           PrunedOld', faults' \in 0..MaxFaults, Creates(j)', Deletes(a, j)',
           \A b \in A!Actors : b # a => Reads(req[b])'
    PROVE  ArchiveInv'
<1>1. /\ dir \in disk /\ disk \subseteq A!Directory /\ told \subseteq A!Keys \X (1..written)
      /\ req' \in [A!Actors -> A!Job \cup {Idle}]
  BY DEF ArchiveInv, A!TypeOK
<1>2. A!TypeOK'
  BY <1>1 DEF ArchiveInv, A!TypeOK
<1>3. Listed'
  <2> SUFFICES ASSUME NEW d \in disk', NEW l \in A!Keys, d.zip[l] # A!NoFile
               PROVE  <<l, d.zip[l]>> \in listed
    BY DEF Listed
  <2>1. \E c \in disk : c.zip[l] = d.zip[l]
    BY <1>1
  <2> QED BY <2>1 DEF ArchiveInv, Listed
<1>4. Chronological'
  BY DEF ArchiveInv, Chronological
<1>5. A!AcknowledgedIsKept'
  <2> SUFFICES ASSUME NEW x \in told \ (removed' \cup pruned'), NEW d \in disk'
               PROVE  d.zip[x[1]] = x[2]
    BY DEF A!AcknowledgedIsKept
  <2>1. \A c \in disk : c.zip[x[1]] = x[2]
    BY DEF ArchiveInv, A!AcknowledgedIsKept
  <2>2. x[1] \in A!Keys /\ x = <<x[1], x[2]>>
    BY <1>1
  <2>3. x[1] # k
    BY <1>1, <2>1, <2>2
  <2> QED BY <1>1, <2>1, <2>2, <2>3
<1> QED BY <1>2, <1>3, <1>4, <1>5, WriterStep

\* What a failed publication leaves of its links.
Undone(d, k, p) ==
    [zip |-> [d.zip EXCEPT ![k] = A!NoFile],
     attrs |-> IF p = "attrs" THEN [d.attrs EXCEPT ![k] = A!NoFile] ELSE d.attrs]

LEMMA UndoneSet ==
    ASSUME NEW d \in A!Directory, NEW k \in A!Keys, NEW p, NEW e, e = Undone(d, k, p)
    PROVE  e \in A!Directory /\ \A l \in A!Keys : e.zip[l] = IF l = k THEN A!NoFile ELSE d.zip[l]
<1>1. PICK z, t : z = d.zip /\ t = IF p = "attrs" THEN [d.attrs EXCEPT ![k] = A!NoFile] ELSE d.attrs
  OBVIOUS
<1>2. PICK y : y = [z EXCEPT ![k] = A!NoFile]
  OBVIOUS
<1>3. e = [zip |-> y, attrs |-> t]
  BY <1>1, <1>2 DEF Undone
<1>4. y \in [A!Keys -> A!Files \cup {A!NoFile}] /\ \A l \in A!Keys : y[l] = IF l = k THEN A!NoFile ELSE z[l]
  BY <1>1, <1>2, DirectoryFields
<1>5. t \in [A!Keys -> A!Files \cup {A!NoFile}]
  BY <1>1, DirectoryFields
<1>6. e.zip = y /\ e \in A!Directory
  BY <1>3, <1>4, <1>5 DEF A!Directory
<1> QED BY <1>1, <1>4, <1>6

LEMMA PublishFailsStep ==
    ASSUME ArchiveInv, A!PublishFails
    PROVE  ArchiveInv'
<1>1. PICK a \in A!Actors :
          /\ req[a] # Idle /\ req[a].op = "create"
          /\ A!Fault \/ UNCHANGED faults
          /\ \/ /\ req[a].at \in {"linked", "attrs"} /\ A!Change(Undone(dir, req[a].key, req[a].at))
             \/ UNCHANGED <<dir, disk>>
          /\ req' = [req EXCEPT ![a] = Idle]
  BY DEF A!PublishFails, A!End, Undone
<1>2. UNCHANGED <<sched, clock, written, listed, told, removed, pruned>> /\ faults' \in 0..MaxFaults
  BY <1>1, FaultBound DEF A!PublishFails
<1>3. CASE UNCHANGED <<dir, disk>>
  BY <1>1, <1>2, <1>3, Quiet, JobEnds
<1>4. CASE req[a].at \in {"linked", "attrs"} /\ A!Change(Undone(dir, req[a].key, req[a].at))
  <2>1. PICK k, f, e, j : /\ k = req[a].key /\ f = req[a].file /\ e = Undone(dir, k, req[a].at)
                          /\ j = Idle
    OBVIOUS
  <2>2. A!Doing(a, "create", req[a].at)
    BY <1>1 DEF A!Doing
  <2>3. /\ Writing(req[a]) /\ Creates(req[a]) /\ k \in A!Keys
        /\ \A b \in A!Actors : b # a => ~Writing(req[b])
    BY <2>1, <2>2, Worker
  <2>4. /\ f \in 1..written /\ dir.zip[k] = f /\ \A x \in told \cup removed \cup pruned : x[2] # f
        /\ f \in A!Files /\ written \in Nat
    BY <1>1, <1>4, <2>1, <2>3, Bounds DEF Creates, Linked, ArchiveInv, A!TypeOK, A!Files, A!NoFile
  <2>5. e \in A!Directory /\ \A l \in A!Keys : e.zip[l] = IF l = k THEN A!NoFile ELSE dir.zip[l]
    BY <2>1, <2>3, UndoneSet DEF ArchiveInv, A!TypeOK
  <2>6. dir' = e /\ disk' = disk \cup {e} /\ req' = [req EXCEPT ![a] = j]
    BY <1>1, <1>4, <2>1 DEF A!Change
  <2>7. PrunedOld' /\ removed \cup pruned \subseteq listed
    BY <1>2 DEF ArchiveInv, PrunedOld, A!TypeOK
  <2>8. Creates(j)' /\ Deletes(a, j)' /\ ~Reading(j) /\ ~Removing(j)
    BY <2>1 DEF Creates, Deletes, Reading, Removing
  <2>9. \A b \in A!Actors : b # a => Reads(req[b])'
    <3>1. <<k, f>> \notin told'
      <4>1. PICK x : x = <<k, f>>
        OBVIOUS
      <4> QED BY <1>2, <2>4, <4>1
    <3>2. \A c \in A!Actors : ~Creating(req'[c], f)
      <4>1. \A c \in A!Actors : req'[c] = IF c = a THEN Idle ELSE req[c]
        BY <1>1 DEF ArchiveInv, A!TypeOK
      <4> QED BY <2>3, <4>1 DEF Creating, Writing
    <3>3. \A l \in A!Keys, g \in 1..written :
              dir.zip[l] = g => \/ dir'.zip[l] = g
                                \/ <<l, g>> \notin told' /\ \A c \in A!Actors : ~Creating(req'[c], g)
      BY <2>4, <2>5, <2>6, <3>1, <3>2
    <3>4. \A g \in 1..written : ~Creating(j, g)
      BY <2>1 DEF Creating
    <3>5. told' = told /\ written' \in Nat /\ written <= written' /\ j \in A!Job \cup {Idle}
      BY <1>2, <2>1, <2>4
    <3> QED BY <2>6, <3>3, <3>4, <3>5, OthersRead
  <2>10. <<k, f>> \notin told
    <3>1. PICK x : x = <<k, f>>
      OBVIOUS
    <3> QED BY <2>4, <3>1
  <2> QED BY <1>2, <2>1, <2>3, <2>4, <2>5, <2>6, <2>7, <2>8, <2>9, <2>10, NameGone
<1> QED BY <1>1, <1>3, <1>4

\* What is of a later minute is newer.
LEMMA LaterIsNewer ==
    ASSUME ArchiveInv, NEW k, NEW f, <<k, f>> \in listed, Outdated(k)
    PROVE  Cardinality(Newer(listed, f)) >= MaxKeep
<1>1. PICK L, n : L = listed /\ n = written
  OBVIOUS
<1>2. n \in Nat /\ L \in SUBSET (A!Keys \X (1..n))
  BY <1>1, Bounds DEF ArchiveInv, A!TypeOK, A!Files, A!NoFile
<1>3. ASSUME NEW y \in Later(L, k) PROVE y \in Newer(L, f)
  <2>1. y \in L /\ y[1] \in A!AutomaticKeys /\ y[1][2] > k[2]
    BY DEF Later
  <2>2. PICK z : z = <<k, f>>
    OBVIOUS
  <2>3. z \in L /\ z[1] = k /\ z[2] = f /\ k \in A!AutomaticKeys
    BY <1>1, <2>2 DEF Outdated
  <2>4. y[2] \in Nat /\ f \in Nat /\ y[1][2] \in Nat /\ k[2] \in Nat
    BY <1>2, <2>1, <2>3, KeyKinds
  <2>5. y[2] <= z[2] => y[1][2] <= z[1][2]
    BY <1>1, <2>1, <2>3 DEF ArchiveInv, Chronological
  <2>6. y[2] > f
    BY <2>1, <2>3, <2>4, <2>5
  <2> QED BY <2>1, <2>6 DEF Newer
<1>4. Cardinality(Later(L, k)) <= Cardinality(Newer(L, f))
  BY <1>2, <1>3, FiniteAutomatic, FS_Subset
<1>5. Cardinality(Later(L, k)) \in Nat /\ Cardinality(Newer(L, f)) \in Nat
  BY <1>2, FiniteAutomatic
<1>6. Cardinality(Later(L, k)) >= MaxKeep
  BY <1>1 DEF Outdated
<1> QED BY <1>1, <1>4, <1>5, <1>6, Bounds

LEMMA UnlinkStep ==
    ASSUME ArchiveInv, NEW a \in A!Actors, A!Doing(a, "delete", "leased"),
           dir.zip[req[a].key] = req[a].file,
           A!Change([dir EXCEPT !.zip[req[a].key] = A!NoFile]),
           IF a \in Clients
           THEN removed' = removed \cup {<<req[a].key, req[a].file>>} /\ UNCHANGED pruned
           ELSE pruned' = pruned \cup {<<req[a].key, req[a].file>>} /\ UNCHANGED removed,
           A!GoTo(a, "unlinked"),
           UNCHANGED <<sched, clock, written, listed, told, faults>>
    PROVE  ArchiveInv'
<1>1. PICK k, f, e, j : /\ k = req[a].key /\ f = req[a].file /\ e = SetZip(dir, k, A!NoFile)
                        /\ j = [req[a] EXCEPT !.at = "unlinked"]
  OBVIOUS
<1>2. /\ req[a] \in A!Job /\ req[a].op = "delete" /\ Writing(req[a]) /\ Deletes(a, req[a])
      /\ req[a] # Idle /\ k \in A!Keys
  BY <1>1, Worker
<1>3. j \in A!Job /\ j.op = "delete" /\ j.at = "unlinked" /\ j.key = k /\ j.file = f /\ Removing(req[a])
  BY <1>1, <1>2, JobMoves DEF Removing
<1>4. req' = [req EXCEPT ![a] = j] /\ dir' = e /\ disk' = disk \cup {e} /\ dir.zip[k] = f
  BY <1>1 DEF A!GoTo, A!Change, SetZip
<1>5. e \in A!Directory /\ \A l \in A!Keys : e.zip[l] = IF l = k THEN A!NoFile ELSE dir.zip[l]
  BY <1>1, <1>2, ZipSet DEF ArchiveInv, A!TypeOK
<1>6. <<k, f>> \in listed /\ (a \notin Clients => Outdated(k))
  BY <1>1, <1>2, <1>3 DEF Deletes
<1>7. f \in A!Files
  BY <1>6, Bounds DEF ArchiveInv, A!TypeOK, A!Files, A!NoFile
<1>8. /\ removed \subseteq removed' /\ pruned \subseteq pruned' /\ removed' \cup pruned' \subseteq listed
      /\ <<k, f>> \notin told \ (removed' \cup pruned')
  BY <1>1, <1>6 DEF ArchiveInv, A!TypeOK
<1>9. PrunedOld'
  <2>1. ASSUME NEW x \in pruned' PROVE Cardinality(Newer(listed, x[2])) >= MaxKeep
    <3>1. CASE x \in pruned
      BY <3>1 DEF ArchiveInv, PrunedOld
    <3>2. CASE x \notin pruned
      <4>1. x = <<k, f>> /\ a \notin Clients
        BY <1>1, <3>2
      <4>2. x[2] = f /\ Cardinality(Newer(listed, f)) >= MaxKeep
        BY <1>6, <4>1, LaterIsNewer
      <4> QED BY <4>2
    <3> QED BY <3>1, <3>2
  <2> QED BY <2>1 DEF PrunedOld
<1>10. Creates(j)' /\ Deletes(a, j)' /\ ~Reading(j)
  BY <1>3, <1>6 DEF Creates, Deletes, Reading, Outdated
<1>11. \A b \in A!Actors : b # a => Reads(req[b])'
  <2>1. \A b \in A!Actors : ~Reading(req[b])
    BY <1>3 DEF ArchiveInv, Leases
  <2>2. \A b \in A!Actors : b # a => req'[b] = req[b]
    BY <1>4 DEF ArchiveInv, A!TypeOK
  <2> QED BY <2>1, <2>2 DEF Reads, Reading
<1>12. faults' \in 0..MaxFaults
  BY DEF ArchiveInv, A!TypeOK
<1> QED BY <1>2, <1>3, <1>4, <1>5, <1>7, <1>8, <1>9, <1>10, <1>11, <1>12, NameGone

LEMMA DeleteArchiveStep ==
    ASSUME ArchiveInv, A!delete
    PROVE  ArchiveInv'
<1>1. PICK a \in A!Actors :
          LET k == req[a].key IN
          \/ /\ A!Doing(a, "delete", "leased") /\ dir.zip[k] = req[a].file
             /\ A!Change([dir EXCEPT !.zip[k] = A!NoFile])
             /\ IF a \in Clients
                THEN removed' = removed \cup {<<k, req[a].file>>} /\ UNCHANGED pruned
                ELSE pruned' = pruned \cup {<<k, req[a].file>>} /\ UNCHANGED removed
             /\ A!GoTo(a, "unlinked")
          \/ /\ A!Doing(a, "delete", "unlinked") /\ dir.attrs[k] # A!NoFile
             /\ A!Change([dir EXCEPT !.attrs[k] = A!NoFile])
             /\ UNCHANGED <<removed, pruned, req>>
          \/ /\ A!Doing(a, "delete", "unlinked") /\ dir.attrs[k] = A!NoFile
             /\ A!Sync /\ A!End(a) /\ UNCHANGED <<removed, pruned>>
  BY DEF A!delete
<1>2. UNCHANGED <<sched, clock, written, listed, told, faults>>
  BY DEF A!delete
<1>3. CASE A!Doing(a, "delete", "leased")
  <2>1. ~A!Doing(a, "delete", "unlinked")
    BY <1>3 DEF A!Doing
  <2> QED BY <1>1, <1>2, <1>3, <2>1, UnlinkStep
<1>4. CASE A!Doing(a, "delete", "unlinked")
  <2>1. PICK k, e, j : k = req[a].key /\ e = SetAttrs(dir, k, A!NoFile) /\ j = req[a]
    OBVIOUS
  <2>2. /\ j \in A!Job /\ Writing(j) /\ ~Reading(j) /\ k \in A!Keys /\ Creates(j) /\ Deletes(a, j)
        /\ j.op = "delete" /\ dir \in A!Directory /\ req \in [A!Actors -> A!Job \cup {Idle}]
    BY <1>4, <2>1, Worker DEF ArchiveInv, A!TypeOK
  <2>3. ~A!Doing(a, "delete", "leased")
    BY <1>4 DEF A!Doing
  <2>4. CASE A!Change([dir EXCEPT !.attrs[req[a].key] = A!NoFile]) /\ UNCHANGED <<removed, pruned, req>>
    <3>1. dir' = e /\ disk' = disk \cup {e} /\ req' = [req EXCEPT ![a] = j]
      BY <2>1, <2>2, <2>4 DEF A!Change, SetAttrs
    <3>2. e \in A!Directory /\ e.zip = dir.zip
      BY <2>1, <2>2, AttrsSet
    <3>3. Creates(j)' /\ Deletes(a, j)'
      BY <1>2, <2>2, <2>4 DEF Creates, Deletes, Outdated, Removing
    <3> QED BY <1>2, <2>1, <2>2, <2>4, <3>1, <3>2, <3>3, NamesStay
  <2>5. CASE A!Sync /\ A!End(a) /\ UNCHANGED <<removed, pruned>>
    <3>1. PICK i : i = Idle
      OBVIOUS
    <3>2. dir' = dir /\ disk' = {dir'} /\ req' = [req EXCEPT ![a] = i]
      BY <2>5, <3>1 DEF A!Sync, A!End
    <3>3. Creates(i)' /\ Deletes(a, i)' /\ ~Reading(i) /\ ~Removing(i) /\ \A g : ~Creating(i, g)
      BY <3>1 DEF Creates, Deletes, Removing, Reading, Creating
    <3> QED BY <1>2, <2>1, <2>2, <2>5, <3>1, <3>2, <3>3, NamesStay
  <2> QED BY <1>1, <2>3, <2>4, <2>5
<1> QED BY <1>1, <1>3, <1>4

LEMMA TickStep ==
    ASSUME ArchiveInv, A!Tick
    PROVE  ArchiveInv'
<1>1. /\ UNCHANGED <<dir, disk, req, sched, written, listed, told, removed, pruned, faults>>
      /\ clock' \in A!Minutes /\ clock \in Nat /\ clock' = clock + 1
  BY Bounds DEF A!Tick, ArchiveInv, A!TypeOK, A!Minutes
<1>2. A!TypeOK' /\ Leases' /\ Listed'
  BY <1>1 DEF ArchiveInv, A!TypeOK, Leases, Listed, Writing, Removing, Reading
<1>3. A!AcknowledgedIsKept' /\ PrunedOld'
  BY <1>1 DEF ArchiveInv, A!AcknowledgedIsKept, PrunedOld
<1>4. \A k : Outdated(k) <=> Outdated(k)'
  BY <1>1 DEF Outdated
<1>5. Pruning'
  BY <1>1, <1>4 DEF ArchiveInv, Pruning
<1>6. \A k \in A!AutomaticKeys : k[2] <= clock => k[2] <= clock'
  BY <1>1, KeyKinds
<1>7. Chronological'
  BY <1>1, <1>6 DEF ArchiveInv, Chronological
<1>8. Jobs'
  <2> SUFFICES ASSUME NEW b \in A!Actors
               PROVE  Creates(req[b])' /\ Deletes(b, req[b])' /\ Reads(req[b])'
    BY DEF Jobs
  <2>1. Creates(req[b]) /\ Deletes(b, req[b]) /\ Reads(req[b])
    BY DEF ArchiveInv, Jobs
  <2>2. Creates(req[b])'
    BY <1>1, <1>6, <2>1 DEF Creates
  <2>3. Deletes(b, req[b])' /\ Reads(req[b])'
    BY <1>1, <1>4, <2>1 DEF Deletes, Reads, Removing, Reading, Creating
  <2> QED BY <2>2, <2>3
<1> QED BY <1>2, <1>3, <1>5, <1>7, <1>8 DEF ArchiveInv

LEMMA PowerStep ==
    ASSUME ArchiveInv, A!PowerLoss
    PROVE  ArchiveInv'
<1>1. PICK d \in disk : dir' = d /\ disk' = {d}
  BY DEF A!PowerLoss
<1>2. /\ req' = [a \in A!Actors |-> Idle] /\ sched' = [i \in Instances |-> Restarted]
      /\ faults' \in 0..MaxFaults /\ UNCHANGED <<clock, written, listed, told, removed, pruned>>
  BY FaultBound DEF A!PowerLoss, Restarted
<1>3. A!TypeOK'
  BY <1>1, <1>2, RestartedType DEF ArchiveInv, A!TypeOK
<1>4. \A a \in A!Actors : req'[a] = Idle
  BY <1>2
<1>5. Leases' /\ Jobs'
  BY <1>4 DEF Leases, Jobs, Creates, Deletes, Reads, Writing, Removing, Reading
<1>6. Pruning'
  BY <1>2, RestartedType DEF Pruning
<1>7. Listed' /\ A!AcknowledgedIsKept'
  BY <1>1, <1>2 DEF ArchiveInv, Listed, A!AcknowledgedIsKept
<1>8. Chronological' /\ PrunedOld'
  BY <1>2 DEF ArchiveInv, Chronological, PrunedOld
<1> QED BY <1>3, <1>5, <1>6, <1>7, <1>8 DEF ArchiveInv

LEMMA ArchivesInitially == A!Init => ArchiveInv
<1> SUFFICES ASSUME A!Init PROVE ArchiveInv
  OBVIOUS
<1>1. PICK n : n = [k \in A!Keys |-> A!NoFile]
  OBVIOUS
<1>2. dir = [zip |-> n, attrs |-> n] /\ disk = {dir} /\ n \in [A!Keys -> A!Files \cup {A!NoFile}]
  BY <1>1 DEF A!Init
<1>3. /\ req = [a \in A!Actors |-> Idle] /\ sched = [i \in Instances |-> Restarted]
      /\ clock = 0 /\ written = 0 /\ listed = {} /\ told = {} /\ removed = {} /\ pruned = {} /\ faults = 0
  BY DEF A!Init, Restarted
<1>4. dir \in A!Directory /\ dir.zip = n
  BY <1>2 DEF A!Directory
<1>5. A!TypeOK
  BY <1>2, <1>3, <1>4, Bounds, RestartedType DEF A!TypeOK, A!Minutes, A!NoFile
<1>6. \A a \in A!Actors : req[a] = Idle
  BY <1>3
<1>7. Leases /\ Jobs
  BY <1>6 DEF Leases, Jobs, Creates, Deletes, Reads, Writing, Removing, Reading
<1>8. Pruning
  BY <1>3, RestartedType DEF Pruning
<1>9. Listed /\ A!AcknowledgedIsKept /\ Chronological /\ PrunedOld
  BY <1>1, <1>2, <1>3, <1>4 DEF Listed, A!AcknowledgedIsKept, Chronological, PrunedOld
<1> QED BY <1>5, <1>7, <1>8, <1>9 DEF ArchiveInv

\* Every step of the archives keeps their invariant, and so does every other step.
LEMMA ArchivesInductive == ArchiveInv /\ [BackupsNext]_<<part, vars, archives, sets, schema>> => ArchiveInv'
<1> SUFFICES ASSUME ArchiveInv,
[BackupsNext]_<<part, vars, archives, sets, schema>> PROVE ArchiveInv'
  OBVIOUS
<1>1. CASE A!Next
  BY <1>1, AskStep, PublishArchiveStep, PublishFailsStep, GuardStep, DeleteArchiveStep,
  DownloadStep, TickStep,
     DueStep, PruneStep, DiesStep, PowerStep DEF A!Next
<1>2. CASE UNCHANGED archives
  <2>1. UNCHANGED <<dir, disk, req, sched, clock, written, listed, told, removed, pruned, faults>>
    BY <1>2 DEF archives
  <2> QED BY <2>1, Quiet, IdleStep
<1> QED BY <1>1, <1>2 DEF BackupsNext

\* What the invariant says of the property.
LEMMA KeptByInvariant == ArchiveInv => ArchivesKept
<1> SUFFICES ASSUME ArchiveInv PROVE ArchivesKept
  OBVIOUS
<1>1. A!AcknowledgedIsKept
  BY DEF ArchiveInv
<1>2. A!ReadersUndisturbed
  <2> SUFFICES ASSUME NEW a \in Clients, A!Doing(a, "read", "pinned"),
  <<req[a].key, req[a].file>> \in told
               PROVE  dir.zip[req[a].key] = req[a].file
    BY DEF A!ReadersUndisturbed
  <2>1. Reads(req[a])
    BY DEF ArchiveInv, Jobs, A!Actors
  <2> QED BY <2>1 DEF Reads, Reading, A!Doing
<1>3. A!NewestAutomaticKept
  BY SameCardinality DEF ArchiveInv, PrunedOld, Newer, A!NewestAutomaticKept
<1> QED BY <1>1, <1>2, <1>3 DEF ArchivesKept

\* Whatever requests, schedulers, failures and power losses do, an acknowledged
\* archive stays until a deletion, a download keeps its file, and pruning
\* leaves the MaxKeep newest automatic archives (publish, delete_local_backup,
\* _prune_automatic_backups), for any names, clients, instances and bounds.
THEOREM ArchivesStayKept == BackupsSpec => []ArchivesKept
<1>1. BackupsInit => ArchiveInv
  BY ArchivesInitially DEF BackupsInit
<1> QED BY <1>1, ArchivesInductive, KeptByInvariant, PTL DEF BackupsSpec

----------------------------------------------------------------------------
\* What a set of directories have in common.
Common(W) == [k \in A!Keys |-> IF \E f \in A!Files : \A d \in W : d.zip[k] = f
                               THEN CHOOSE f \in A!Files : \A d \in W : d.zip[k] = f
                               ELSE A!NoFile]

LEMMA CommonValue ==
    ASSUME NEW W, NEW c \in W, NEW g, g = Common(W)
    PROVE  /\ g \in [A!Keys -> A!Files \cup {A!NoFile}]
           /\ \A k \in A!Keys, f \in A!Files : g[k] = f <=> \A d \in W : d.zip[k] = f
<1>1. A!NoFile \notin A!Files
  BY Bounds DEF A!NoFile, A!Files
<1>2. ASSUME NEW k \in A!Keys
      PROVE  /\ g[k] \in A!Files \cup {A!NoFile}
             /\ \A f \in A!Files : g[k] = f <=> \A d \in W : d.zip[k] = f
  <2>1. CASE \E f \in A!Files : \A d \in W : d.zip[k] = f
    <3>1. PICK f \in A!Files : \A d \in W : d.zip[k] = f
      BY <2>1
    <3>2. PICK h : h = CHOOSE x \in A!Files : \A d \in W : d.zip[k] = x
      OBVIOUS
    <3>3. g[k] = h /\ h \in A!Files /\ \A d \in W : d.zip[k] = h
      BY <2>1, <3>2 DEF Common
    <3> QED BY <3>3
  <2>2. CASE ~\E f \in A!Files : \A d \in W : d.zip[k] = f
    <3>1. g[k] = A!NoFile
      BY <2>2 DEF Common
    <3> QED BY <1>1, <2>2, <3>1
  <2> QED BY <2>1, <2>2
<1>3. g = [k \in A!Keys |-> g[k]]
  BY DEF Common
<1> QED BY <1>2, <1>3

\* Functions on keys that agree on every file are equal.
LEMMA SameCommon ==
    ASSUME NEW g \in [A!Keys -> A!Files \cup {A!NoFile}],
           NEW h \in [A!Keys -> A!Files \cup {A!NoFile}],
           \A k \in A!Keys, f \in A!Files : g[k] = f <=> h[k] = f
    PROVE  g = h
<1>1. \A k \in A!Keys : g[k] = h[k]
  OBVIOUS
<1> QED BY <1>1

LEMMA CommonNames ==
    ASSUME NEW W, NEW c \in W, NEW e, NEW g, NEW h, g = Common(W), h = Common(W \cup {e}),
           e.zip = c.zip
    PROVE  h = g
<1>1. PICK V : V = W \cup {e} /\ h = Common(V) /\ c \in V /\ W \subseteq V /\ \A d \in V : d \in W \/ d = e
  OBVIOUS
<1>2. /\ g \in [A!Keys -> A!Files \cup {A!NoFile}] /\ h \in [A!Keys -> A!Files \cup {A!NoFile}]
      /\ \A k \in A!Keys, f \in A!Files : g[k] = f <=> \A d \in W : d.zip[k] = f
      /\ \A k \in A!Keys, f \in A!Files : h[k] = f <=> \A d \in V : d.zip[k] = f
  <2>1. /\ g \in [A!Keys -> A!Files \cup {A!NoFile}]
        /\ \A k \in A!Keys, f \in A!Files : g[k] = f <=> \A d \in W : d.zip[k] = f
    BY CommonValue
  <2>2. h = Common(V) /\ c \in V
    BY <1>1
  <2>3. /\ h \in [A!Keys -> A!Files \cup {A!NoFile}]
        /\ \A k \in A!Keys, f \in A!Files : h[k] = f <=> \A d \in V : d.zip[k] = f
    BY <2>2, CommonValue
  <2> QED BY <2>1, <2>3
<1>3. ASSUME NEW k \in A!Keys, NEW f \in A!Files PROVE g[k] = f <=> h[k] = f
  <2>1. (\A d \in V : d.zip[k] = f) <=> (\A d \in W : d.zip[k] = f)
    BY <1>1
  <2> QED BY <1>2, <2>1
<1> QED BY <1>2, <1>3, SameCommon

\* Directories that differ in one name, which one of them does not have.
OneName(c, e, k) ==
    /\ \A l \in A!Keys : l # k => e.zip[l] = c.zip[l]
    /\ c.zip[k] # A!NoFile => e.zip[k] = A!NoFile

\* A link of a free name adds nothing to what is common, an unlink takes it away.
LEMMA CommonLink ==
    ASSUME NEW W, NEW c \in W, NEW e, NEW g, NEW h, g = Common(W), h = Common(W \cup {e}),
           NEW k \in A!Keys,
           OneName(c, e, k)
    PROVE  /\ h \in [A!Keys -> A!Files \cup {A!NoFile}]
           /\ \A l \in A!Keys : h[l] = IF l = k THEN A!NoFile ELSE g[l]
<1>0. A!NoFile \notin A!Files
  BY Bounds DEF A!NoFile, A!Files
<1>1. PICK V : /\ V = W \cup {e} /\ h = Common(V) /\ c \in V /\ e \in V /\ W \subseteq V
               /\ \A d \in V : d \in W \/ d = e
  OBVIOUS
<1>2. /\ g \in [A!Keys -> A!Files \cup {A!NoFile}] /\ h \in [A!Keys -> A!Files \cup {A!NoFile}]
      /\ \A l \in A!Keys, f \in A!Files : g[l] = f <=> \A d \in W : d.zip[l] = f
      /\ \A l \in A!Keys, f \in A!Files : h[l] = f <=> \A d \in V : d.zip[l] = f
  <2>1. /\ g \in [A!Keys -> A!Files \cup {A!NoFile}]
        /\ \A l \in A!Keys, f \in A!Files : g[l] = f <=> \A d \in W : d.zip[l] = f
    BY CommonValue
  <2>2. h = Common(V) /\ c \in V
    BY <1>1
  <2>3. /\ h \in [A!Keys -> A!Files \cup {A!NoFile}]
        /\ \A l \in A!Keys, f \in A!Files : h[l] = f <=> \A d \in V : d.zip[l] = f
    BY <2>2, CommonValue
  <2> QED BY <2>1, <2>3
<1>3. PICK m : m = [g EXCEPT ![k] = A!NoFile]
  OBVIOUS
<1>4. m \in [A!Keys -> A!Files \cup {A!NoFile}] /\ \A l \in A!Keys : m[l] = IF l = k THEN A!NoFile ELSE g[l]
  BY <1>2, <1>3
<1>5. ASSUME NEW f \in A!Files PROVE h[k] # f
  <2>1. ~\A d \in V : d.zip[k] = f
    BY <1>0, <1>1 DEF OneName
  <2> QED BY <1>2, <2>1
<1>6. ASSUME NEW l \in A!Keys, NEW f \in A!Files, l # k PROVE g[l] = f <=> h[l] = f
  <2>1. (\A d \in V : d.zip[l] = f) <=> (\A d \in W : d.zip[l] = f)
    BY <1>1, <1>6 DEF OneName
  <2> QED BY <1>2, <2>1
<1>7. \A l \in A!Keys, f \in A!Files : m[l] = f <=> h[l] = f
  BY <1>0, <1>4, <1>5, <1>6
<1>8. m = h
  BY <1>2, <1>4, <1>7, SameCommon
<1> QED BY <1>2, <1>4, <1>8

LEMMA CommonLess ==
    ASSUME NEW W, NEW V \in SUBSET W, NEW c \in V, NEW g, NEW h, g = Common(W), h = Common(V)
    PROVE  /\ h \in [A!Keys -> A!Files \cup {A!NoFile}]
           /\ \A k \in A!Keys : g[k] # A!NoFile => h[k] = g[k]
<1>1. /\ g \in [A!Keys -> A!Files \cup {A!NoFile}] /\ h \in [A!Keys -> A!Files \cup {A!NoFile}]
      /\ \A l \in A!Keys, f \in A!Files : g[l] = f <=> \A d \in W : d.zip[l] = f
      /\ \A l \in A!Keys, f \in A!Files : h[l] = f <=> \A d \in V : d.zip[l] = f
  BY CommonValue
<1> QED BY <1>1

CatalogStep == A!Catalog!Next \/ UNCHANGED A!Preserved

LEMMA PreservedIsCommon == A!Preserved = Common(disk) /\ A!Preserved' = Common(disk')
  BY DEF A!Preserved, Common

\* How a step changes what every power loss preserves.
LEMMA NamesKept ==
    ASSUME ArchiveInv, NEW e, e.zip = dir.zip, disk' = disk \cup {e}
    PROVE  CatalogStep
<1>1. dir \in disk
  BY DEF ArchiveInv, A!TypeOK
<1>2. PICK g, h : g = Common(disk) /\ h = Common(disk \cup {e})
  OBVIOUS
<1>3. h = g
  BY <1>1, <1>2, CommonNames
<1> QED BY <1>2, <1>3, PreservedIsCommon DEF CatalogStep

LEMMA NameChanges ==
    ASSUME ArchiveInv, NEW e, NEW k \in A!Keys, disk' = disk \cup {e}, OneName(dir, e, k)
    PROVE  CatalogStep
<1>1. dir \in disk
  BY DEF ArchiveInv, A!TypeOK
<1>2. PICK g, h, W, c : W = disk /\ c = dir /\ g = Common(W) /\ h = Common(W \cup {e})
  OBVIOUS
<1>3. h = [g EXCEPT ![k] = A!NoFile]
  <2>1. c \in W /\ OneName(c, e, k)
    BY <1>1, <1>2
  <2>2. g = Common(W) /\ h = Common(W \cup {e}) /\ g \in [A!Keys -> A!Files \cup {A!NoFile}]
    BY <1>2, <2>1, CommonValue
  <2>3. /\ h \in [A!Keys -> A!Files \cup {A!NoFile}]
        /\ \A l \in A!Keys : h[l] = IF l = k THEN A!NoFile ELSE g[l]
    BY <2>1, <2>2, CommonLink
  <2> QED BY <2>2, <2>3
<1>4. A!Preserved = g /\ A!Preserved' = h
  BY <1>2, PreservedIsCommon
<1>5. CASE g[k] = A!NoFile
  <2>1. g \in [A!Keys -> A!Files \cup {A!NoFile}]
    BY <1>1, <1>2, CommonValue
  <2>2. h = g
    BY <1>3, <1>5, <2>1
  <2> QED BY <1>4, <2>2 DEF CatalogStep
<1>6. CASE g[k] # A!NoFile
  <2>1. A!Catalog!Delete
    BY <1>3, <1>4, <1>6 DEF A!Catalog!Delete
  <2> QED BY <2>1 DEF CatalogStep, A!Catalog!Next
<1> QED BY <1>5, <1>6

LEMMA DiskSettles ==
    ASSUME ArchiveInv, NEW d \in disk, disk' = {d}
    PROVE  CatalogStep
<1>1. PICK g, h, V : g = Common(disk) /\ h = Common(V) /\ V = disk'
  OBVIOUS
<1>2. /\ h \in [A!Keys -> A!Files \cup {A!NoFile}]
      /\ \A k \in A!Keys : g[k] # A!NoFile => h[k] = g[k]
  BY <1>1, CommonLess
<1>3. A!Preserved = g /\ A!Preserved' = h
  BY <1>1, PreservedIsCommon
<1>4. A!Catalog!Appear
  BY <1>2, <1>3 DEF A!Catalog!Appear
<1> QED BY <1>4 DEF CatalogStep, A!Catalog!Next

LEMMA DiskKept ==
    ASSUME UNCHANGED disk
    PROVE  CatalogStep
  BY DEF CatalogStep, A!Preserved

\* publish, when its link is the step that names the archive, changes no other name.
LEMMA PublishRefines ==
    ASSUME ArchiveInv, A!publish
    PROVE  CatalogStep
<1>0. dir \in A!Directory /\ dir \in disk
  BY DEF ArchiveInv, A!TypeOK
<1>1. PICK a \in A!Actors :
          LET k == req[a].key IN
          \/ UNCHANGED <<dir, disk>>
          \/ /\ A!Doing(a, "create", "staged") /\ dir.zip[k] = A!NoFile
             /\ A!Change([dir EXCEPT !.zip[k] = req[a].file])
          \/ /\ A!Doing(a, "create", "linked")
             /\ A!Change([dir EXCEPT !.attrs[k] = req[a].file])
          \/ A!Sync
  BY DEF A!publish
<1>2. PICK k, f : k = req[a].key /\ f = req[a].file
  OBVIOUS
<1>3. CASE UNCHANGED <<dir, disk>>
  BY <1>3, DiskKept
<1>4. CASE A!Sync
  BY <1>0, <1>4, DiskSettles DEF A!Sync
<1>5. CASE /\ A!Doing(a, "create", "staged") /\ dir.zip[k] = A!NoFile
           /\ A!Change([dir EXCEPT !.zip[k] = f])
  <2>1. PICK e : e = SetZip(dir, k, f)
    OBVIOUS
  <2>2. k \in A!Keys /\ f \in A!Files \cup {A!NoFile}
    BY <1>2, <1>5, Worker
  <2>3. OneName(dir, e, k)
    BY <1>0, <1>5, <2>1, <2>2, ZipSet DEF OneName
  <2>4. disk' = disk \cup {e}
    BY <1>5, <2>1 DEF A!Change, SetZip
  <2> QED BY <2>2, <2>3, <2>4, NameChanges
<1>6. CASE A!Doing(a, "create", "linked") /\ A!Change([dir EXCEPT !.attrs[k] = f])
  <2>1. PICK e : e = SetAttrs(dir, k, f)
    OBVIOUS
  <2>2. k \in A!Keys /\ f \in A!Files \cup {A!NoFile}
    BY <1>2, <1>6, Worker
  <2>3. e.zip = dir.zip
    BY <1>0, <2>1, <2>2, AttrsSet
  <2>4. disk' = disk \cup {e}
    BY <1>6, <2>1 DEF A!Change, SetAttrs
  <2> QED BY <2>3, <2>4, NamesKept
<1> QED BY <1>1, <1>2, <1>3, <1>4, <1>5, <1>6

LEMMA PublishFailsRefines ==
    ASSUME ArchiveInv, A!PublishFails
    PROVE  CatalogStep
<1>1. PICK a \in A!Actors :
          /\ req[a] # Idle /\ req[a].op = "create"
          /\ \/ A!Change(Undone(dir, req[a].key, req[a].at))
             \/ UNCHANGED <<dir, disk>>
  BY DEF A!PublishFails, Undone
<1>2. CASE UNCHANGED <<dir, disk>>
  BY <1>2, DiskKept
<1>3. CASE A!Change(Undone(dir, req[a].key, req[a].at))
  <2>1. PICK k, e : k = req[a].key /\ e = Undone(dir, k, req[a].at)
    OBVIOUS
  <2>2. k \in A!Keys
    BY <1>1, <2>1, JobFields DEF ArchiveInv, A!TypeOK
  <2>3. OneName(dir, e, k)
    BY <2>1, <2>2, UndoneSet DEF OneName, ArchiveInv, A!TypeOK
  <2>4. disk' = disk \cup {e}
    BY <1>3, <2>1 DEF A!Change
  <2> QED BY <2>2, <2>3, <2>4, NameChanges
<1> QED BY <1>1, <1>2, <1>3

LEMMA DeleteRefines ==
    ASSUME ArchiveInv, A!delete
    PROVE  CatalogStep
<1>0. dir \in A!Directory /\ dir \in disk /\ A!NoFile \in A!Files \cup {A!NoFile}
  BY DEF ArchiveInv, A!TypeOK
<1>1. PICK a \in A!Actors :
          LET k == req[a].key IN
          \/ A!Doing(a, "delete", "leased") /\ A!Change([dir EXCEPT !.zip[k] = A!NoFile])
          \/ A!Doing(a, "delete", "unlinked") /\ A!Change([dir EXCEPT !.attrs[k] = A!NoFile])
          \/ A!Sync
  BY DEF A!delete
<1>2. PICK k : k = req[a].key
  OBVIOUS
<1>3. CASE A!Sync
  BY <1>0, <1>3, DiskSettles DEF A!Sync
<1>4. CASE A!Doing(a, "delete", "leased") /\ A!Change([dir EXCEPT !.zip[k] = A!NoFile])
  <2>1. PICK e : e = SetZip(dir, k, A!NoFile)
    OBVIOUS
  <2>2. k \in A!Keys
    BY <1>2, <1>4, Worker
  <2>3. OneName(dir, e, k)
    BY <1>0, <2>1, <2>2, ZipSet DEF OneName
  <2>4. disk' = disk \cup {e}
    BY <1>4, <2>1 DEF A!Change, SetZip
  <2> QED BY <2>2, <2>3, <2>4, NameChanges
<1>5. CASE A!Doing(a, "delete", "unlinked") /\ A!Change([dir EXCEPT !.attrs[k] = A!NoFile])
  <2>1. PICK e : e = SetAttrs(dir, k, A!NoFile)
    OBVIOUS
  <2>2. k \in A!Keys
    BY <1>2, <1>5, Worker
  <2>3. e.zip = dir.zip
    BY <1>0, <2>1, <2>2, AttrsSet
  <2>4. disk' = disk \cup {e}
    BY <1>5, <2>1 DEF A!Change, SetAttrs
  <2> QED BY <2>3, <2>4, NamesKept
<1> QED BY <1>1, <1>2, <1>3, <1>4, <1>5

LEMMA StepRefines ==
    ArchiveInv /\ [BackupsNext]_<<part, vars, archives, sets, schema>> => [A!Catalog!Next]_(A!Preserved)
<1> SUFFICES ASSUME ArchiveInv, [BackupsNext]_<<part, vars, archives, sets, schema>>
             PROVE  CatalogStep
  BY DEF CatalogStep
<1>1. CASE A!Next
  <2>1. CASE A!publish
    BY <2>1, PublishRefines
  <2>2. CASE A!PublishFails
    BY <2>2, PublishFailsRefines
  <2>3. CASE A!delete
    BY <2>3, DeleteRefines
  <2>4. CASE A!PowerLoss
    BY <2>4, DiskSettles DEF A!PowerLoss
  <2>5. CASE UNCHANGED disk
    BY <2>5, DiskKept
  <2> QED BY <1>1, <2>1, <2>2, <2>3, <2>4, <2>5
         DEF A!Next, A!RequestBackup, A!upload_local_backup, A!GuardRefuses, A!RequestDelete,
             A!materialize_local_backup_zip, A!Tick, A!run_automatic_backup_scheduler,
             A!create_due_automatic_backup, A!ProcessDies
<1>2. CASE UNCHANGED archives
  BY <1>2, DiskKept DEF archives
<1> QED BY <1>1, <1>2 DEF BackupsNext

LEMMA InitRefines == A!Init => A!Catalog!Init
<1> SUFFICES ASSUME A!Init PROVE A!Catalog!Init
  OBVIOUS
<1>1. PICK n, g : n = [k \in A!Keys |-> A!NoFile] /\ g = Common(disk)
  OBVIOUS
<1>2. dir = [zip |-> n, attrs |-> n] /\ disk = {dir}
  BY <1>1 DEF A!Init
<1>3. A!NoFile \notin A!Files
  BY Bounds DEF A!NoFile, A!Files
<1>4. /\ g \in [A!Keys -> A!Files \cup {A!NoFile}]
      /\ \A k \in A!Keys, f \in A!Files : g[k] = f <=> \A d \in disk : d.zip[k] = f
  <2>1. dir \in disk /\ g = Common(disk)
    BY <1>1, <1>2
  <2> QED BY <2>1, CommonValue
<1>5. \A k \in A!Keys : g[k] = A!NoFile
  BY <1>1, <1>2, <1>3, <1>4
<1>6. g = [k \in A!Keys |-> A!NoFile]
  BY <1>4, <1>5
<1> QED BY <1>1, <1>6, PreservedIsCommon DEF A!Catalog!Init

\* The archives that every power loss preserves implement BackupCatalog: a step
\* of publish, delete or a power loss shows or deletes archives and never
\* replaces one, every other step changes nothing.
THEOREM BackupsImplementCatalog == BackupsSpec => CatalogSpec
<1>1. BackupsInit => ArchiveInv /\ A!Catalog!Init
  BY ArchivesInitially, InitRefines DEF BackupsInit
<1> QED BY <1>1, ArchivesInductive, StepRefines, PTL DEF BackupsSpec, CatalogSpec, A!CatalogSpec,
                                                         A!Catalog!Spec

-----------------------------------------------------------------------------
(***************************************************************************)
(* The sets: what the directory has at each stage of the builder and of a  *)
(* deletion, in every state a power loss may leave.                        *)
(***************************************************************************)

\* The names the published directory may have.
Places == {"final"} \cup S!Tombstones
SetState == [name : [S!Entries -> {"none", "work", "set", "empty"}],
             work : SUBSET S!Whole, set : SUBSET (S!Whole \cup {"seal"})]
Holds(f, n) == f.name[n] = "set"

\* What holds of every state a power loss may leave: a seal is the last thing
\* to come and the contents go all at once.
Intact(f) ==
    /\ f \in SetState
    /\ \A m, n \in Places : Holds(f, m) /\ Holds(f, n) => m = n
    /\ "seal" \in f.set => S!Whole \subseteq f.set

Sealed(f) == Holds(f, "final") /\ "seal" \in f.set
Published(f) == \A n \in S!Tombstones : ~Holds(f, n)
Gone(f) == ~Holds(f, "final") /\ "seal" \in f.set
Settled == setDisk = {setFs}

Stages == {"idle", "building", "prepared", "manifest", "opened", "unsealed", "linked",
           "sealed", "stopped", "failed"}
BuildState == [at : Stages, seen : SUBSET S!Whole, cancelled : BOOLEAN, committed : BOOLEAN]
DeleteStages == {"idle", "placed", "renamed", "failing", "undone", "committed", "promoted"}
Answers == [create : {"nothing", "failed", "cancelled", "sealed"},
            delete : {"nothing", "unknown", "refused", "uncertain", "unsecured", "deleted"}]

SetTypes ==
    /\ setFs \in setDisk /\ \A f \in setDisk : Intact(f)
    /\ build \in BuildState /\ setTold \in Answers /\ del \in DeleteStages

\* What the builder has done, and what its request may still prevent.
Building ==
    /\ build.at \in {"building", "prepared", "manifest"} =>
          Settled /\ ~Holds(setFs, "final")
    /\ build.at \in {"building", "prepared", "manifest", "opened", "unsealed"} =>
          \A f \in setDisk : "seal" \notin f.set
    /\ build.at \in {"opened", "unsealed", "linked"} => Holds(setFs, "final")
    /\ build.at = "linked" => "seal" \in setFs.set /\ ~build.cancelled
    /\ build.at = "sealed" => Settled /\ Sealed(setFs) /\ ~build.cancelled
    /\ build.at = "stopped" => Settled /\ setFs = S!NoFiles /\ build.cancelled
    /\ build.at # "idle" =>
          /\ del = "idle" /\ setTold = [create |-> "nothing", delete |-> "nothing"]
          /\ \A f \in setDisk : Published(f)
          /\ build.committed <=> build.at = "sealed"
          /\ build.cancelled <=> asked = "prevented"

\* Where the directory of a deletion is.
Deleting ==
    /\ del # "idle" => setTold.delete = "unknown"
    /\ del = "placed" => Settled /\ Sealed(setFs)
    /\ del \in {"renamed", "failing", "undone"} => \A f \in setDisk : "seal" \in f.set
    /\ del \in {"renamed", "failing", "committed"} => Holds(setFs, "pending")
    /\ del = "undone" => Holds(setFs, "pending") \/ Holds(setFs, "final")
    /\ del \in {"committed", "promoted"} => \A f \in setDisk : Gone(f)
    /\ del = "promoted" => \E n \in S!Tombstones : Holds(setFs, n)

\* What is on disk for good once the requests were answered.
Answered ==
    /\ setTold.create = "sealed" /\ setTold.delete = "nothing" => Settled /\ Sealed(setFs)
    /\ setTold.create = "cancelled" => Settled /\ setFs = S!NoFiles
    /\ setTold.delete = "deleted" => \A f \in setDisk : ~Holds(f, "final")
    /\ setTold.delete = "refused" => Settled /\ Sealed(setFs)
    /\ setTold.delete = "uncertain" =>
          Settled /\ Holds(setFs, "uncertain") /\ "seal" \in setFs.set

SetInv == SetTypes /\ Building /\ Deleting /\ Answered

----------------------------------------------------------------------------
\* The fields of a state.
LEMMA SetFields ==
    ASSUME NEW f \in SetState
    PROVE  /\ f.name \in [S!Entries -> {"none", "work", "set", "empty"}]
           /\ f.work \in SUBSET S!Whole /\ f.set \in SUBSET (S!Whole \cup {"seal"})
           /\ f = [name |-> f.name, work |-> f.work, set |-> f.set]
  BY DEF SetState

\* Changing the contents or a name that is not the directory's.
LEMMA Altered ==
    ASSUME NEW f, Intact(f), NEW n \in S!Entries, NEW e \in {"none", "work", "empty"},
           NEW w \in SUBSET S!Whole, NEW s \in SUBSET (S!Whole \cup {"seal"}),
           "seal" \in s => S!Whole \subseteq s,
           NEW g, g = [name |-> [f.name EXCEPT ![n] = e], work |-> w, set |-> s]
    PROVE  /\ Intact(g) /\ g.set = s /\ g.work = w
           /\ \A m \in S!Entries : Holds(g, m) <=> Holds(f, m) /\ m # n
<1> PICK h : h = [f.name EXCEPT ![n] = e]
  OBVIOUS
<1>1. f.name \in [S!Entries -> {"none", "work", "set", "empty"}]
  BY SetFields DEF Intact
<1>2. h \in [S!Entries -> {"none", "work", "set", "empty"}]
      /\ \A m \in S!Entries : h[m] = IF m = n THEN e ELSE f.name[m]
  BY <1>1
<1>3. g.name = h /\ g.set = s /\ g.work = w /\ g \in SetState
  BY <1>2 DEF SetState
<1>4. \A m \in S!Entries : Holds(g, m) <=> Holds(f, m) /\ m # n
  BY <1>2, <1>3 DEF Holds
<1>5. Places \subseteq S!Entries
  BY DEF Places, S!Tombstones, S!Entries
<1> QED BY <1>3, <1>4, <1>5 DEF Intact

\* Renaming the directory.
LEMMA Renamed ==
    ASSUME NEW f, Intact(f), NEW a \in Places, NEW b \in Places, Holds(f, a),
           NEW g, g = S!Rename(f, a, b)
    PROVE  Intact(g) /\ g.set = f.set /\ \A m \in Places : Holds(g, m) <=> m = b
<1>0. Places \subseteq S!Entries
  BY DEF Places, S!Tombstones, S!Entries
<1>1. f.name \in [S!Entries -> {"none", "work", "set", "empty"}] /\ f \in SetState
  BY SetFields DEF Intact
<1> PICK h : h = [f.name EXCEPT ![a] = "none", ![b] = "set"]
  OBVIOUS
<1>2. h \in [S!Entries -> {"none", "work", "set", "empty"}]
      /\ \A m \in S!Entries : h[m] = IF m = b THEN "set" ELSE IF m = a THEN "none" ELSE f.name[m]
  BY <1>0, <1>1
<1>3. g = [name |-> h, work |-> f.work, set |-> f.set]
  <2>1. PICK n, w, s : f = [name |-> n, work |-> w, set |-> s]
    BY <1>1, SetFields
  <2>2. f.name = n /\ f.work = w /\ f.set = s /\ n[a] = "set"
    BY <2>1 DEF Holds
  <2>3. g = [f EXCEPT !.name[a] = "none", !.name[b] = "set"]
    BY <2>2 DEF S!Rename
  <2> QED BY <2>1, <2>2, <2>3
<1>4. g \in SetState /\ g.name = h /\ g.set = f.set
  BY <1>1, <1>2, <1>3, SetFields DEF SetState
<1>5. \A m \in Places : Holds(g, m) <=> m = b
  BY <1>0, <1>2, <1>4 DEF Holds, Intact
<1> QED BY <1>4, <1>5 DEF Intact

\* Only the contents change.
LEMMA Filled ==
    ASSUME NEW f, Intact(f), NEW w \in SUBSET S!Whole, NEW s \in SUBSET (S!Whole \cup {"seal"}),
           "seal" \in s => S!Whole \subseteq s,
           NEW g, g = [name |-> f.name, work |-> w, set |-> s]
    PROVE  Intact(g) /\ g.set = s /\ g.work = w /\ \A m : Holds(g, m) <=> Holds(f, m)
<1>1. f.name \in [S!Entries -> {"none", "work", "set", "empty"}]
  BY SetFields DEF Intact
<1>2. g.name = f.name /\ g.set = s /\ g.work = w /\ g \in SetState
  BY <1>1 DEF SetState
<1> QED BY <1>2 DEF Intact, Holds

\* The ways the code changes a state.
Put(f, n, e) == [f EXCEPT !.name[n] = e]
Clear(f) == [f EXCEPT !.name["partial"] = "none", !.work = {}]
Drop(f, n) == [f EXCEPT !.name[n] = "none", !.set = {}]
WithWork(f, w) == [f EXCEPT !.work = w]
WithSet(f, s) == [f EXCEPT !.set = s]
WithBoth(f, w, s) == [f EXCEPT !.work = w, !.set = s]

LEMMA PutIntact ==
    ASSUME NEW f, Intact(f), NEW n \in S!Entries, NEW e \in {"none", "work", "empty"}
    PROVE  /\ Intact(Put(f, n, e)) /\ Put(f, n, e).set = f.set /\ Put(f, n, e).work = f.work
           /\ \A m \in S!Entries : Holds(Put(f, n, e), m) <=> Holds(f, m) /\ m # n
<1>1. PICK a, b, c : f = [name |-> a, work |-> b, set |-> c]
  BY SetFields DEF Intact
<1>2. PICK g : g = Put(f, n, e)
  OBVIOUS
<1>3. g = [name |-> [a EXCEPT ![n] = e], work |-> b, set |-> c]
  BY <1>1, <1>2 DEF Put
<1>4. f.name = a /\ f.work = b /\ f.set = c
  BY <1>1
<1>5. b \in SUBSET S!Whole /\ c \in SUBSET (S!Whole \cup {"seal"}) /\ ("seal" \in c => S!Whole \subseteq c)
  BY <1>4, SetFields DEF Intact
<1> QED BY <1>2, <1>3, <1>4, <1>5, Altered

LEMMA ClearIntact ==
    ASSUME NEW f, Intact(f)
    PROVE  /\ Intact(Clear(f)) /\ Clear(f).set = f.set /\ Clear(f).work = {}
           /\ \A m \in S!Entries : Holds(Clear(f), m) <=> Holds(f, m) /\ m # "partial"
<1>1. PICK a, b, c : f = [name |-> a, work |-> b, set |-> c]
  BY SetFields DEF Intact
<1>2. PICK g : g = Clear(f)
  OBVIOUS
<1>3. g = [name |-> [a EXCEPT !["partial"] = "none"], work |-> {}, set |-> c]
  BY <1>1, <1>2 DEF Clear
<1>4. f.name = a /\ f.work = b /\ f.set = c
  BY <1>1
<1>5. c \in SUBSET (S!Whole \cup {"seal"}) /\ ("seal" \in c => S!Whole \subseteq c)
  BY <1>4, SetFields DEF Intact
<1>6. "partial" \in S!Entries
  BY DEF S!Entries
<1> QED BY <1>2, <1>3, <1>4, <1>5, <1>6, Altered

LEMMA DropIntact ==
    ASSUME NEW f, Intact(f), NEW n \in S!Entries
    PROVE  /\ Intact(Drop(f, n)) /\ Drop(f, n).set = {}
           /\ \A m \in S!Entries : Holds(Drop(f, n), m) <=> Holds(f, m) /\ m # n
<1>1. PICK a, b, c : f = [name |-> a, work |-> b, set |-> c]
  BY SetFields DEF Intact
<1>2. PICK g : g = Drop(f, n)
  OBVIOUS
<1>3. g = [name |-> [a EXCEPT ![n] = "none"], work |-> b, set |-> {}]
  BY <1>1, <1>2 DEF Drop
<1>4. f.name = a /\ f.work = b /\ f.set = c
  BY <1>1
<1>5. b \in SUBSET S!Whole
  BY <1>4, SetFields DEF Intact
<1> QED BY <1>2, <1>3, <1>4, <1>5, Altered

LEMMA WorkIntact ==
    ASSUME NEW f, Intact(f), NEW w \in SUBSET S!Whole,
           NEW g, g = WithWork(f, w)
    PROVE  Intact(g) /\ g.set = f.set /\ g.work = w /\ \A m : Holds(g, m) <=> Holds(f, m)
<1>1. PICK a, b, c : f = [name |-> a, work |-> b, set |-> c]
  BY SetFields DEF Intact
<1>2. f.name = a /\ f.work = b /\ f.set = c
  BY <1>1
<1>3. g = [name |-> a, work |-> w, set |-> c]
  BY <1>1 DEF WithWork
<1>4. b \in SUBSET S!Whole /\ c \in SUBSET (S!Whole \cup {"seal"}) /\ ("seal" \in c => S!Whole \subseteq c)
  BY <1>2, SetFields DEF Intact
<1> QED BY <1>2, <1>3, <1>4, Filled

LEMMA SetIntact ==
    ASSUME NEW f, Intact(f), NEW s \in SUBSET (S!Whole \cup {"seal"}),
           "seal" \in s => S!Whole \subseteq s,
           NEW g, g = WithSet(f, s)
    PROVE  Intact(g) /\ g.set = s /\ g.work = f.work /\ \A m : Holds(g, m) <=> Holds(f, m)
<1>1. PICK a, b, c : f = [name |-> a, work |-> b, set |-> c]
  BY SetFields DEF Intact
<1>2. f.name = a /\ f.work = b /\ f.set = c
  BY <1>1
<1>3. g = [name |-> a, work |-> b, set |-> s]
  BY <1>1 DEF WithSet
<1>4. b \in SUBSET S!Whole /\ c \in SUBSET (S!Whole \cup {"seal"}) /\ ("seal" \in c => S!Whole \subseteq c)
  BY <1>2, SetFields DEF Intact
<1> QED BY <1>2, <1>3, <1>4, Filled

LEMMA BothIntact ==
    ASSUME NEW f, Intact(f), NEW w \in SUBSET S!Whole,
           NEW s \in SUBSET (S!Whole \cup {"seal"}),
           "seal" \in s => S!Whole \subseteq s,
           NEW g, g = WithBoth(f, w, s)
    PROVE  Intact(g) /\ g.set = s /\ g.work = w /\ \A m : Holds(g, m) <=> Holds(f, m)
<1>1. PICK a, b, c : f = [name |-> a, work |-> b, set |-> c]
  BY SetFields DEF Intact
<1>2. f.name = a /\ f.work = b /\ f.set = c
  BY <1>1
<1>3. g = [name |-> a, work |-> w, set |-> s]
  BY <1>1 DEF WithBoth
<1>4. b \in SUBSET S!Whole /\ c \in SUBSET (S!Whole \cup {"seal"}) /\ ("seal" \in c => S!Whole \subseteq c)
  BY <1>2, SetFields DEF Intact
<1> QED BY <1>2, <1>3, <1>4, Filled

\* Nothing there.
LEMMA Empty ==
    Intact(S!NoFiles) /\ S!NoFiles.set = {} /\ \A m \in S!Entries : ~Holds(S!NoFiles, m)
<1>1. S!NoFiles \in SetState
  BY DEF S!NoFiles, SetState
<1>2. S!NoFiles.set = {} /\ \A m \in S!Entries : ~Holds(S!NoFiles, m)
  BY DEF S!NoFiles, Holds
<1>3. Places \subseteq S!Entries
  BY DEF Places, S!Tombstones, S!Entries
<1> QED BY <1>1, <1>2, <1>3 DEF Intact

LEMMA PlaceNames ==
    /\ Places \subseteq S!Entries
    /\ S!Tombstones = {"pending", "deleting", "uncertain"}
    /\ "partial" \in S!Entries /\ "partial" \notin Places
    /\ Places = {"final", "pending", "deleting", "uncertain"}
  BY DEF Places, S!Tombstones, S!Entries

\* The fields of the builder and of the answers.
LEMMA BuildFields ==
    ASSUME NEW b \in BuildState, NEW p \in Stages, NEW c, c = [b EXCEPT !.at = p]
    PROVE  /\ c \in BuildState /\ c.at = p
           /\ c.seen = b.seen /\ c.cancelled = b.cancelled /\ c.committed = b.committed
  BY DEF BuildState

LEMMA AnswerFields ==
    ASSUME NEW t \in Answers,
           NEW d \in {"nothing", "unknown", "refused", "uncertain", "unsecured", "deleted"},
           NEW u, u = [t EXCEPT !.delete = d]
    PROVE  u \in Answers /\ u.delete = d /\ u.create = t.create
  BY DEF Answers

LEMMA CreateFields ==
    ASSUME NEW t \in Answers, NEW c \in {"nothing", "failed", "cancelled", "sealed"},
           NEW u, u = [t EXCEPT !.create = c]
    PROVE  u \in Answers /\ u.create = c /\ u.delete = t.delete
  BY DEF Answers

\* A change of the directory on disk keeps what holds of every state.
LEMMA Changed ==
    ASSUME SetTypes, NEW g, Intact(g), setFs' = g, setDisk' = setDisk \cup {g} \/ setDisk' = {g},
           build' \in BuildState, setTold' \in Answers, del' \in DeleteStages
    PROVE  SetTypes'
<1>1. \A f \in setDisk' : Intact(f)
  BY DEF SetTypes
<1> QED BY <1>1 DEF SetTypes

----------------------------------------------------------------------------
LEMMA WritingStep ==
    ASSUME SetInv, NEW r \in S!Resources, S!WriteResource(r)
    PROVE  SetInv'
<1>1. PICK g : g = WithWork(setFs, setFs.work \cup {r})
  OBVIOUS
<1>2. Intact(setFs)
  BY DEF SetInv, SetTypes
<1>3. Intact(g) /\ g.set = setFs.set /\ \A m : Holds(g, m) <=> Holds(setFs, m)
  <2>1. setFs.work \cup {r} \in SUBSET S!Whole /\ setFs.set \in SUBSET (S!Whole \cup {"seal"})
    BY <1>2, SetFields DEF S!Whole, Intact
  <2>2. "seal" \in setFs.set => S!Whole \subseteq setFs.set
    BY <1>2 DEF Intact
  <2> QED BY <1>1, <1>2, <2>1, <2>2, WorkIntact
<1>4. /\ setFs' = g /\ setDisk' = {g} /\ build.at = "building"
      /\ UNCHANGED <<build, asked, del, setTold>>
  BY <1>1 DEF S!WriteResource, S!ChangeAndSync, S!At, WithWork
<1>5. SetTypes'
  BY <1>3, <1>4, Changed DEF SetInv, SetTypes
<1> QED BY <1>3, <1>4, <1>5 DEF SetInv, Building, Deleting, Answered, Settled, Sealed, Gone,
                                Published, SetTypes

LEMMA BeginStep ==
    ASSUME SetInv, S!begin_set
    PROVE  SetInv'
<1>1. PICK g : g = Put(setFs, "partial", "work")
  OBVIOUS
<1>2. Intact(setFs) /\ setFs = S!NoFiles
  BY DEF SetInv, SetTypes, S!begin_set
<1>3. Intact(g) /\ g.set = {} /\ \A m \in S!Entries : ~Holds(g, m)
  BY <1>1, <1>2, PutIntact, Empty, PlaceNames
<1>4. /\ setFs' = g /\ setDisk' = {g}
      /\ build' = [at |-> "building", seen |-> {}, cancelled |-> FALSE, committed |-> FALSE]
      /\ asked' = "waiting" /\ setTold' = [create |-> "nothing", delete |-> "nothing"]
      /\ UNCHANGED del
  BY <1>1 DEF S!begin_set, S!ChangeAndSync, Put
<1>5. build' \in BuildState /\ setTold' \in Answers
  BY <1>4 DEF BuildState, Answers, Stages
<1>6. SetTypes'
  BY <1>3, <1>4, <1>5, Changed DEF SetInv, SetTypes
<1>7. del = "idle"
  BY <1>2, Empty, PlaceNames DEF SetInv, Deleting, Sealed, Gone, SetTypes, DeleteStages
<1> QED BY <1>3, <1>4, <1>6, <1>7, PlaceNames
        DEF SetInv, Building, Deleting, Answered, Settled, Sealed, Gone, Published

LEMMA PrepareStep ==
    ASSUME SetInv, S!prepare
    PROVE  SetInv'
<1>1. /\ build.at = "building" /\ setFs' = setFs /\ setDisk' = {setFs}
      /\ build' = [build EXCEPT !.at = "prepared", !.seen = setFs.work]
      /\ UNCHANGED <<asked, del, setTold>>
  BY DEF S!prepare, S!Sync, S!ChangeAndSync, S!At
<1>2. Intact(setFs) /\ setFs.work \in SUBSET S!Whole
  BY SetFields DEF SetInv, SetTypes, Intact
<1>3. /\ build' \in BuildState /\ build'.at = "prepared"
      /\ build'.cancelled = build.cancelled /\ build'.committed = build.committed
  BY <1>1, <1>2 DEF BuildState, SetInv, SetTypes, Stages
<1>4. SetTypes'
  BY <1>1, <1>2, <1>3, Changed DEF SetInv, SetTypes
<1> QED BY <1>1, <1>3, <1>4
        DEF SetInv, Building, Deleting, Answered, Settled, Sealed, Gone, Published, SetTypes

LEMMA AbortStep ==
    ASSUME SetInv, S!abort
    PROVE  SetInv'
<1>1. PICK g : g = Clear(setFs)
  OBVIOUS
<1>2. Intact(g)
  BY <1>1, ClearIntact DEF SetInv, SetTypes
<1>3. /\ build.at \in {"building", "prepared"}
      /\ (setFs' = g /\ setDisk' = {g}) \/ UNCHANGED <<setFs, setDisk>>
      /\ build' = [build EXCEPT !.at = "idle"] /\ asked' = "idle"
      /\ setTold' = [setTold EXCEPT !.create = "failed"]
      /\ UNCHANGED del
  BY <1>1 DEF S!abort, S!ChangeAndSync, S!At, S!GoTo, Clear
<1>4. /\ build' \in BuildState /\ build'.at = "idle"
      /\ setTold' \in Answers /\ setTold'.create = "failed" /\ setTold'.delete = setTold.delete
  BY <1>3, BuildFields, CreateFields DEF SetInv, SetTypes, Stages
<1>5. SetTypes'
  BY <1>2, <1>3, <1>4, Changed DEF SetInv, SetTypes
<1>6. del = "idle" /\ setTold.delete = "nothing"
  BY <1>3 DEF SetInv, Building
<1> QED BY <1>3, <1>4, <1>5, <1>6 DEF SetInv, Building, Deleting, Answered

LEMMA FinalizeStep ==
    ASSUME SetInv, S!finalize_set
    PROVE  SetInv'
<1>1. PICK g : g = WithWork(setFs, setFs.work \cup {"manifest"})
  OBVIOUS
<1>2. Intact(setFs)
  BY DEF SetInv, SetTypes
<1>3. Intact(g) /\ g.set = setFs.set /\ \A m : Holds(g, m) <=> Holds(setFs, m)
  <2>1. setFs.work \cup {"manifest"} \in SUBSET S!Whole /\ setFs.set \in SUBSET (S!Whole \cup {"seal"})
    BY <1>2, SetFields DEF S!Whole, Intact
  <2>2. "seal" \in setFs.set => S!Whole \subseteq setFs.set
    BY <1>2 DEF Intact
  <2> QED BY <1>1, <1>2, <2>1, <2>2, WorkIntact
<1>4. /\ setFs' = g /\ setDisk' = {g} /\ build.at = "prepared"
      /\ build' = [build EXCEPT !.at = "manifest"]
      /\ UNCHANGED <<asked, del, setTold>>
  BY <1>1 DEF S!finalize_set, S!ChangeAndSync, S!At, S!GoTo, WithWork
<1>5. /\ build' \in BuildState /\ build'.at = "manifest"
      /\ build'.cancelled = build.cancelled /\ build'.committed = build.committed
  BY <1>4, BuildFields DEF SetInv, SetTypes, Stages
<1>6. SetTypes'
  BY <1>3, <1>4, <1>5, Changed DEF SetInv, SetTypes
<1> QED BY <1>3, <1>4, <1>5, <1>6 DEF SetInv, Building, Deleting, Answered, Settled, Sealed, Gone,
                                      Published, SetTypes

\* The published directory appears, empty.
LEMMA OpenStep ==
    ASSUME SetInv, build.at = "manifest", setFs.name["final"] = "none",
           S!ChangeAndSync([setFs EXCEPT !.name["final"] = "set"]), S!GoTo("opened"),
           UNCHANGED <<attached, setFaults, asked, del, setTold>>
    PROVE  SetInv'
<1>1. PICK g : g = [setFs EXCEPT !.name["final"] = "set"]
  OBVIOUS
<1>2. PICK a, b, c : setFs = [name |-> a, work |-> b, set |-> c]
  BY SetFields DEF SetInv, SetTypes, Intact
<1>3. setFs.name = a /\ setFs.work = b /\ setFs.set = c /\ Intact(setFs) /\ Published(setFs)
  BY <1>2 DEF SetInv, SetTypes, Building
<1>4. PICK h : h = [a EXCEPT !["final"] = "set"]
  OBVIOUS
<1>5. g = [name |-> h, work |-> b, set |-> c]
  BY <1>1, <1>2, <1>4
<1>6. /\ a \in [S!Entries -> {"none", "work", "set", "empty"}]
      /\ b \in SUBSET S!Whole /\ c \in SUBSET (S!Whole \cup {"seal"})
  BY <1>3, SetFields DEF Intact
<1>7. /\ h \in [S!Entries -> {"none", "work", "set", "empty"}]
      /\ \A m \in S!Entries : h[m] = IF m = "final" THEN "set" ELSE a[m]
  BY <1>4, <1>6
<1>8. g \in SetState /\ g.name = h /\ g.set = c
  BY <1>5, <1>6, <1>7 DEF SetState
<1>9. \A m \in Places : Holds(g, m) <=> m = "final"
  BY <1>3, <1>7, <1>8, PlaceNames DEF Holds, Published
<1>10. Intact(g)
  BY <1>3, <1>8, <1>9 DEF Intact
<1>11. setFs' = g /\ setDisk' = {g} /\ build' = [build EXCEPT !.at = "opened"]
  BY <1>1 DEF S!ChangeAndSync, S!GoTo
<1>12. /\ build' \in BuildState /\ build'.at = "opened"
       /\ build'.cancelled = build.cancelled /\ build'.committed = build.committed
  BY <1>11, BuildFields DEF SetInv, SetTypes, Stages
<1>13. SetTypes'
  BY <1>10, <1>11, <1>12, Changed DEF SetInv, SetTypes
<1> QED BY <1>3, <1>8, <1>9, <1>11, <1>12, <1>13, PlaceNames DEF SetInv, Building, Deleting,
                                                                 Answered, Settled, Sealed, Gone,
                                                                 Published, SetTypes

\* Its contents move over, the manifest first.
LEMMA FillStep ==
    ASSUME SetInv, build.at = "opened", NEW w \in SUBSET S!Whole, NEW v \in SUBSET S!Whole,
           NEW g, g = WithBoth(setFs, w, setFs.set \cup v), setFs' = g,
           setDisk' = setDisk \cup {g},
           UNCHANGED <<build, asked, del, setTold>>
    PROVE  SetInv'
<1>1. Intact(setFs) /\ "seal" \notin setFs.set /\ setFs \in SetState
  BY DEF SetInv, SetTypes, Building, Intact
<1>2. "seal" \notin S!Whole
  BY DEF S!Whole, S!Resources
<1>3. setFs.set \cup v \in SUBSET (S!Whole \cup {"seal"}) /\ "seal" \notin setFs.set \cup v
  BY <1>1, <1>2, SetFields
<1>4. Intact(g) /\ "seal" \notin g.set /\ \A m : Holds(g, m) <=> Holds(setFs, m)
  <2>1. PICK s : s = setFs.set \cup v
    OBVIOUS
  <2>2. g = WithBoth(setFs, w, s) /\ s \in SUBSET (S!Whole \cup {"seal"}) /\ "seal" \notin s
    BY <1>3, <2>1
  <2>3. "seal" \in s => S!Whole \subseteq s
    BY <2>2
  <2>4. Intact(g) /\ g.set = s /\ g.work = w /\ \A m : Holds(g, m) <=> Holds(setFs, m)
    BY <1>1, <2>2, <2>3, BothIntact
  <2> QED BY <2>2, <2>4
<1>5. SetTypes'
  BY <1>4, Changed DEF SetInv, SetTypes
<1>6. \A f \in setDisk' : "seal" \notin f.set /\ Published(f)
  BY <1>4 DEF SetInv, Building, Published, SetTypes
<1>7. Holds(setFs', "final") /\ build'.at = "opened"
  <2>1. Holds(setFs, "final")
    BY DEF SetInv, Building
  <2> QED BY <1>4, <2>1
<1>8. del = "idle" /\ (build.committed <=> build.at = "sealed") /\ (build.cancelled <=> asked = "prevented")
      /\ setTold = [create |-> "nothing", delete |-> "nothing"]
  BY DEF SetInv, Building
<1>9. Building'
  BY <1>6, <1>7, <1>8 DEF Building
<1> QED BY <1>5, <1>7, <1>8, <1>9 DEF SetInv, Deleting, Answered

LEMMA PublishStep ==
    ASSUME SetInv, S!_publish_unsealed
    PROVE  SetInv'
<1> USE DEF S!At
<1>1. CASE /\ build.at = "manifest" /\ setFs.name["final"] = "none"
           /\ S!ChangeAndSync([setFs EXCEPT !.name["final"] = "set"])
           /\ S!GoTo("opened")
  BY <1>1, OpenStep DEF S!_publish_unsealed
<1>2. Intact(setFs) /\ setFs.work \in SUBSET S!Whole
  BY SetFields DEF SetInv, SetTypes, Intact
<1>3. CASE /\ build.at = "opened" /\ "manifest" \in setFs.work
           /\ S!Change([setFs EXCEPT !.work = @ \ {"manifest"}, !.set = @ \cup {"manifest"}])
           /\ UNCHANGED build
  <2>1. PICK g, v, w : /\ g = WithBoth(setFs, w, setFs.set \cup v)
                       /\ v = {"manifest"} /\ w = setFs.work \ {"manifest"}
    OBVIOUS
  <2>2. setFs' = g /\ setDisk' = setDisk \cup {g} /\ UNCHANGED <<asked, del, setTold>>
    BY <1>3, <2>1 DEF S!_publish_unsealed, S!Change, WithBoth
  <2>3. v \in SUBSET S!Whole /\ w \in SUBSET S!Whole
    BY <1>2, <2>1 DEF S!Whole
  <2> QED BY <1>3, <2>1, <2>2, <2>3, FillStep
<1>4. CASE /\ build.at = "opened" /\ "manifest" \notin setFs.work /\ setFs.work # {}
           /\ S!Change([setFs EXCEPT !.work = {}, !.set = @ \cup setFs.work])
           /\ UNCHANGED build
  <2>1. PICK g, v, w : /\ g = WithBoth(setFs, w, setFs.set \cup v)
                       /\ v = setFs.work /\ w = {}
    OBVIOUS
  <2>2. setFs' = g /\ setDisk' = setDisk \cup {g} /\ UNCHANGED <<asked, del, setTold>>
    BY <1>4, <2>1 DEF S!_publish_unsealed, S!Change, WithBoth
  <2>3. v \in SUBSET S!Whole /\ w \in SUBSET S!Whole
    BY <1>2, <2>1
  <2> QED BY <1>4, <2>1, <2>2, <2>3, FillStep
<1>5. CASE /\ build.at = "opened" /\ setFs.work = {}
           /\ S!ChangeAndSync([setFs EXCEPT !.name["partial"] = "none"])
           /\ S!GoTo("unsealed")
  <2>1. PICK g : g = Put(setFs, "partial", "none")
    OBVIOUS
  <2>2. /\ setFs' = g /\ setDisk' = {g} /\ build' = [build EXCEPT !.at = "unsealed"]
        /\ UNCHANGED <<asked, del, setTold>>
    BY <1>5, <2>1 DEF S!_publish_unsealed, S!ChangeAndSync, S!GoTo, Put
  <2>3. /\ build' \in BuildState /\ build'.at = "unsealed"
        /\ build'.cancelled = build.cancelled /\ build'.committed = build.committed
    BY <2>2, BuildFields DEF SetInv, SetTypes, Stages
  <2>4. Intact(g) /\ g.set = setFs.set /\ \A m \in Places : Holds(g, m) <=> Holds(setFs, m)
    BY <1>2, <2>1, PutIntact, PlaceNames
  <2>5. SetTypes'
    BY <2>2, <2>3, <2>4, Changed DEF SetInv, SetTypes
  <2> QED BY <1>5, <2>2, <2>3, <2>4, <2>5, PlaceNames DEF SetInv, Building, Deleting, Answered,
                                                          Settled, Sealed, Gone, Published,
                                                          SetTypes
<1> QED BY <1>1, <1>3, <1>4, <1>5 DEF S!_publish_unsealed

LEMMA SealStep ==
    ASSUME SetInv, S!_publish_seal
    PROVE  SetInv'
<1> USE DEF S!At
<1>1. CASE /\ build.at = "unsealed" /\ S!_inspect_set_path(setFs.set) /\ ~build.cancelled
           /\ S!Change([setFs EXCEPT !.set = @ \cup {"seal"}])
           /\ S!GoTo("linked")
  <2>1. PICK s, g : s = setFs.set \cup {"seal"} /\ g = WithSet(setFs, s)
    OBVIOUS
  <2>2. /\ setFs' = g /\ setDisk' = setDisk \cup {g} /\ build' = [build EXCEPT !.at = "linked"]
        /\ UNCHANGED <<asked, del, setTold>>
    BY <1>1, <2>1 DEF S!_publish_seal, S!Change, S!GoTo, WithSet
  <2>3. Intact(setFs) /\ setFs.set \in SUBSET (S!Whole \cup {"seal"})
    BY SetFields DEF SetInv, SetTypes, Intact
  <2>4. /\ s \in SUBSET (S!Whole \cup {"seal"}) /\ "seal" \in s
        /\ "seal" \in s => S!Whole \subseteq s
    BY <1>1, <2>1, <2>3 DEF S!_inspect_set_path
  <2>5. Intact(g) /\ g.set = s /\ \A m : Holds(g, m) <=> Holds(setFs, m)
    BY <2>1, <2>3, <2>4, SetIntact
  <2>6. /\ build' \in BuildState /\ build'.at = "linked"
        /\ build'.cancelled = build.cancelled /\ build'.committed = build.committed
    BY <2>2, BuildFields DEF SetInv, SetTypes, Stages
  <2>7. SetTypes'
    BY <2>2, <2>5, <2>6, Changed DEF SetInv, SetTypes
  <2>8. \A f \in setDisk' : Published(f)
    BY <1>1, <2>2, <2>5 DEF SetInv, Building, Published, SetTypes
  <2> QED BY <1>1, <2>2, <2>4, <2>5, <2>6, <2>7, <2>8 DEF SetInv, Building, Deleting, Answered,
                                                          Settled, Sealed, Gone, Published,
                                                          SetTypes
<1>2. CASE /\ build.at = "linked" /\ S!Sync
           /\ build' = [build EXCEPT !.at = "sealed", !.committed = TRUE]
  <2>1. setFs' = setFs /\ setDisk' = {setFs} /\ UNCHANGED <<asked, del, setTold>>
    BY <1>2 DEF S!_publish_seal, S!Sync, S!ChangeAndSync
  <2>2. /\ build' \in BuildState /\ build'.at = "sealed"
        /\ build'.cancelled = build.cancelled /\ build'.committed = TRUE
    BY <1>2 DEF SetInv, SetTypes, BuildState, Stages
  <2>3. SetTypes'
    BY <2>1, <2>2, Changed DEF SetInv, SetTypes
  <2> QED BY <1>2, <2>1, <2>2, <2>3 DEF SetInv, Building, Deleting, Answered, Settled, Sealed,
                                        Gone, Published, SetTypes
<1> QED BY <1>1, <1>2 DEF S!_publish_seal

LEMMA FailStep ==
    ASSUME SetInv, S!FinalizeFails
    PROVE  SetInv'
<1> USE DEF S!At
<1>1. PICK g : g = Clear(setFs)
  OBVIOUS
<1>2. Intact(setFs) /\ Intact(g) /\ \A m \in Places : Holds(g, m) <=> Holds(setFs, m)
  BY <1>1, ClearIntact, PlaceNames DEF SetInv, SetTypes
<1>3. /\ build.at \in {"prepared", "manifest", "opened", "unsealed", "linked"}
      /\ UNCHANGED <<asked, del, setTold>>
  BY DEF S!FinalizeFails
<1>4. CASE /\ build.at = "unsealed" /\ build.cancelled
           /\ S!ChangeAndSync(S!NoFiles) /\ S!GoTo("stopped")
  <2>1. setFs' = S!NoFiles /\ setDisk' = {S!NoFiles} /\ build' = [build EXCEPT !.at = "stopped"]
    BY <1>4 DEF S!ChangeAndSync, S!GoTo
  <2>2. /\ build' \in BuildState /\ build'.at = "stopped"
        /\ build'.cancelled = build.cancelled /\ build'.committed = build.committed
    BY <2>1, BuildFields DEF SetInv, SetTypes, Stages
  <2>3. SetTypes'
    BY <1>3, <2>1, <2>2, Empty, Changed DEF SetInv, SetTypes
  <2>4. Published(S!NoFiles)
    BY Empty, PlaceNames DEF Published
  <2> QED BY <1>3, <1>4, <2>1, <2>2, <2>3, <2>4 DEF SetInv, Building, Deleting, Answered, Settled
<1>5. CASE /\ S!GoTo("failed")
           /\ \/ S!ChangeAndSync(S!NoFiles)
              \/ S!Change([setFs EXCEPT !.name["partial"] = "none", !.work = {}])
              \/ UNCHANGED <<setFs, setDisk>>
  <2>1. build' = [build EXCEPT !.at = "failed"]
    BY <1>5 DEF S!GoTo
  <2>2. /\ build' \in BuildState /\ build'.at = "failed"
        /\ build'.cancelled = build.cancelled /\ build'.committed = build.committed
    BY <2>1, BuildFields DEF SetInv, SetTypes, Stages
  <2>3. \/ setFs' = S!NoFiles /\ setDisk' = {S!NoFiles}
        \/ setFs' = g /\ setDisk' = setDisk \cup {g}
        \/ setFs' = setFs /\ setDisk' = setDisk
    BY <1>1, <1>5 DEF S!ChangeAndSync, S!Change, Clear
  <2>4. SetTypes'
    BY <1>2, <1>3, <2>2, <2>3, Empty, Changed DEF SetInv, SetTypes
  <2>5. \A f \in setDisk' : Published(f)
    <3>1. Published(S!NoFiles)
      BY Empty, PlaceNames DEF Published
    <3>2. Published(setFs) /\ \A f \in setDisk : Published(f)
      BY <1>3 DEF SetInv, Building, SetTypes
    <3>3. Published(g)
      BY <1>2, <3>2, PlaceNames DEF Published
    <3> QED BY <2>3, <3>1, <3>2, <3>3
  <2>6. /\ del = "idle" /\ setTold = [create |-> "nothing", delete |-> "nothing"]
        /\ ~build.committed /\ (build.cancelled <=> asked = "prevented")
    BY <1>3 DEF SetInv, Building
  <2>7. setTold.create = "nothing" /\ setTold.delete = "nothing"
    BY <2>6
  <2>8. Building'
    BY <1>3, <2>2, <2>5, <2>6 DEF Building
  <2> QED BY <1>3, <2>4, <2>6, <2>7, <2>8 DEF SetInv, Deleting, Answered
<1> QED BY <1>4, <1>5 DEF S!FinalizeFails

LEMMA CancelStep ==
    ASSUME SetInv, S!CancelFinalize
    PROVE  SetInv'
<1>1. /\ asked = "waiting" /\ build.at \notin {"idle", "building", "linked"}
      /\ IF build.committed THEN asked' = "late" /\ UNCHANGED build
                            ELSE asked' = "prevented" /\ build' = [build EXCEPT !.cancelled = TRUE]
      /\ UNCHANGED <<setFs, setDisk, del, setTold>>
  BY DEF S!CancelFinalize
<1>2. build \in BuildState
  BY DEF SetInv, SetTypes
<1>3. /\ del = "idle" /\ setTold = [create |-> "nothing", delete |-> "nothing"]
      /\ (build.committed <=> build.at = "sealed") /\ (build.cancelled <=> asked = "prevented")
      /\ \A f \in setDisk : Published(f)
  BY <1>1 DEF SetInv, Building
<1>4. CASE build.committed
  BY <1>1, <1>3, <1>4 DEF SetInv, Building, Deleting, Answered, Settled, Sealed, Gone, Published,
                          SetTypes
<1>5. CASE ~build.committed
  <2>1. /\ build' \in BuildState /\ build'.at = build.at /\ build'.cancelled = TRUE
        /\ build'.committed = build.committed
    BY <1>1, <1>2, <1>5 DEF BuildState
  <2>2. build.at # "sealed"
    BY <1>3, <1>5
  <2>3. SetTypes'
    BY <1>1, <2>1 DEF SetInv, SetTypes
  <2>4. setTold.create = "nothing" /\ setTold.delete = "nothing"
    BY <1>3
  <2>5. Building'
    BY <1>1, <1>3, <1>5, <2>1, <2>2 DEF SetInv, Building, Settled
  <2> QED BY <1>1, <1>3, <2>3, <2>4, <2>5 DEF SetInv, Deleting, Answered
<1> QED BY <1>4, <1>5

LEMMA AnswerStep ==
    ASSUME SetInv, S!_finalize_backup_atomically
    PROVE  SetInv'
<1>1. PICK c : c = IF build.at = "failed" THEN "failed"
                   ELSE IF asked = "prevented" THEN "cancelled" ELSE "sealed"
  OBVIOUS
<1>2. /\ build.at \in {"sealed", "stopped", "failed"}
      /\ setTold' = [setTold EXCEPT !.create = c]
      /\ asked' = "idle" /\ build' = [build EXCEPT !.at = "idle"]
      /\ UNCHANGED <<setFs, setDisk, del>>
  BY <1>1 DEF S!_finalize_backup_atomically, S!At, S!GoTo
<1>3. /\ build' \in BuildState /\ build'.at = "idle"
      /\ setTold' \in Answers /\ setTold'.create = c /\ setTold'.delete = setTold.delete
  BY <1>1, <1>2, BuildFields, CreateFields DEF SetInv, SetTypes, Stages
<1>4. /\ del = "idle" /\ setTold.delete = "nothing"
      /\ (build.cancelled <=> asked = "prevented")
  BY <1>2 DEF SetInv, Building
<1>5. SetTypes'
  BY <1>2, <1>3 DEF SetInv, SetTypes
<1>6. c = "sealed" => Settled /\ Sealed(setFs)
  BY <1>1, <1>2, <1>4 DEF SetInv, Building
<1>7. c = "cancelled" => Settled /\ setFs = S!NoFiles
  BY <1>1, <1>2, <1>4 DEF SetInv, Building
<1>8. Building'
  BY <1>3 DEF Building
<1> QED BY <1>2, <1>3, <1>4, <1>5, <1>6, <1>7, <1>8 DEF SetInv, Deleting, Answered, Settled

\* A directory that is somewhere belongs to no cancelled request.
LEMMA NotCancelled ==
    ASSUME SetInv, NEW n \in Places, Holds(setFs, n)
    PROVE  setTold.create # "cancelled"
  BY Empty, PlaceNames DEF SetInv, Answered

LEMMA DeletionUnderWay ==
    ASSUME SetInv, del # "idle"
    PROVE  /\ build.at = "idle" /\ setTold.delete = "unknown" /\ setTold.create # "cancelled"
           /\ Intact(setFs) /\ setFs \in setDisk /\ \E n \in Places : Holds(setFs, n)
<1>1. \E n \in Places : Holds(setFs, n)
  BY PlaceNames DEF SetInv, SetTypes, Deleting, DeleteStages, Sealed
<1>2. build.at = "idle" /\ setTold.delete = "unknown"
  BY DEF SetInv, Building, Deleting
<1>3. Intact(setFs) /\ setFs \in setDisk
  BY DEF SetInv, SetTypes
<1> QED BY <1>1, <1>2, <1>3, NotCancelled

\* A step of a deletion that says nothing yet.
LEMMA DeletionGoesOn ==
    ASSUME SetInv, del # "idle", UNCHANGED <<build, asked, setTold>>,
           SetTypes', Deleting'
    PROVE  SetInv'
  BY DeletionUnderWay DEF SetInv, Building, Answered

\* One that ends with an answer.
LEMMA DeletionEnds ==
    ASSUME SetInv, del # "idle", UNCHANGED <<build, asked>>, del' = "idle", SetTypes',
           NEW d \in {"refused", "uncertain", "unsecured", "deleted"}, S!Tell(d),
           d = "deleted" => \A f \in setDisk' : ~Holds(f, "final"),
           d = "refused" => (Settled /\ Sealed(setFs))',
           d = "uncertain" => Settled' /\ Holds(setFs', "uncertain") /\ "seal" \in setFs'.set
    PROVE  SetInv'
<1>1. setTold'.delete = d /\ setTold'.create = setTold.create
  BY AnswerFields DEF S!Tell, SetInv, SetTypes
<1>2. Building' /\ Deleting'
  BY DeletionUnderWay DEF Building, Deleting
<1>3. Answered'
  BY <1>1, DeletionUnderWay DEF Answered
<1> QED BY <1>2, <1>3 DEF SetInv

LEMMA ReconcileStep ==
    ASSUME SetInv, S!_reconcile_deleting_sets
    PROVE  SetInv'
<1>1. PICK g, h, s : g = Drop(setFs, "deleting") /\ h = WithSet(setFs, s) /\ s = {}
  OBVIOUS
<1>2. /\ del = "idle" /\ Holds(setFs, "deleting") /\ UNCHANGED <<build, asked, del, setTold>>
      /\ \/ setFs' = g /\ setDisk' = {g}
         \/ setFs' = h /\ setDisk' = setDisk \cup {h}
  BY <1>1 DEF S!_reconcile_deleting_sets, S!ChangeAndSync, S!Change, Drop, WithSet, Holds
<1>3. Intact(setFs) /\ \A n \in Places : Holds(setFs, n) => n = "deleting"
  BY <1>2, PlaceNames DEF SetInv, SetTypes, Intact
<1>4. Intact(g) /\ ~Holds(g, "final")
  BY <1>1, <1>3, DropIntact, PlaceNames
<1>5. Intact(h) /\ ~Holds(h, "final")
  BY <1>1, <1>3, SetIntact, PlaceNames
<1>6. SetTypes'
  BY <1>2, <1>4, <1>5, Changed DEF SetInv, SetTypes
<1>7. build.at = "idle" /\ setTold.create # "cancelled"
  BY <1>2, NotCancelled, PlaceNames DEF SetInv, SetTypes, Building, Published
<1>8. ~Sealed(setFs) /\ ~Holds(setFs, "uncertain")
  BY <1>3, PlaceNames DEF Sealed
<1> QED BY <1>2, <1>4, <1>5, <1>6, <1>7, <1>8 DEF SetInv, Building, Deleting, Answered

LEMMA DeleteStep ==
    ASSUME SetInv, S!delete_set
    PROVE  SetInv'
<1>1. PICK g : g = Put(setFs, "pending", "empty")
  OBVIOUS
<1>2. /\ Sealed(setFs) /\ build.at = "idle" /\ setFs' = g /\ setDisk' = {g} /\ del' = "placed"
      /\ S!Tell("unknown") /\ UNCHANGED <<build, asked>>
  BY <1>1 DEF S!delete_set, S!_has_seal, S!At, S!ChangeAndSync, Sealed, Holds, Put
<1>3. Intact(setFs)
  BY DEF SetInv, SetTypes
<1>4. Intact(g) /\ Sealed(g)
  BY <1>1, <1>2, <1>3, PutIntact, PlaceNames DEF Sealed
<1>5. setTold' \in Answers /\ setTold'.delete = "unknown" /\ setTold'.create = setTold.create
  BY <1>2, AnswerFields DEF S!Tell, SetInv, SetTypes
<1>6. SetTypes'
  BY <1>2, <1>4, <1>5, Changed DEF SetInv, SetTypes, DeleteStages
<1>7. setTold.create # "cancelled"
  BY <1>2, NotCancelled, PlaceNames DEF Sealed
<1> QED BY <1>2, <1>4, <1>5, <1>6, <1>7 DEF SetInv, Building, Deleting, Answered, Settled

LEMMA RefuseStep ==
    ASSUME SetInv, S!RefuseDelete
    PROVE  SetInv'
<1>1. PICK g : g = Put(setFs, "pending", "none")
  OBVIOUS
<1>2. /\ del = "placed" /\ del' = "idle" /\ S!Tell("refused") /\ UNCHANGED <<build, asked>>
      /\ \/ setFs' = g /\ setDisk' = {g}
         \/ UNCHANGED <<setFs, setDisk>>
  BY <1>1 DEF S!RefuseDelete, S!ChangeAndSync, Put
<1>3. Intact(setFs) /\ Sealed(setFs) /\ Settled
  BY <1>2 DEF SetInv, SetTypes, Deleting
<1>4. Intact(g) /\ Sealed(g)
  BY <1>1, <1>3, PutIntact, PlaceNames DEF Sealed
<1>5. setTold' \in Answers
  BY <1>2, AnswerFields DEF S!Tell, SetInv, SetTypes
<1>6. SetTypes'
  BY <1>2, <1>4, <1>5, Changed DEF SetInv, SetTypes, DeleteStages
<1>7. Settled' /\ Sealed(setFs')
  BY <1>2, <1>3, <1>4 DEF Settled
<1>8. (Settled /\ Sealed(setFs))'
  BY <1>7 DEF Sealed, Holds
<1> QED BY <1>2, <1>6, <1>8, DeletionEnds

LEMMA DetachStep ==
    ASSUME SetInv, S!detach
    PROVE  SetInv'
<1>1. PICK g : g = S!Rename(setFs, "final", "pending")
  OBVIOUS
<1>2. /\ del = "placed" /\ del' = "renamed" /\ UNCHANGED <<build, asked, setTold>>
      /\ setFs' = g /\ setDisk' = setDisk \cup {g}
  BY <1>1 DEF S!detach, S!Change
<1>3. Intact(setFs) /\ Sealed(setFs) /\ Settled
  BY <1>2 DEF SetInv, SetTypes, Deleting
<1>4. Intact(g) /\ g.set = setFs.set /\ Holds(g, "pending")
  BY <1>1, <1>3, Renamed, PlaceNames DEF Sealed
<1>5. SetTypes'
  BY <1>2, <1>4, Changed DEF SetInv, SetTypes, DeleteStages
<1>6. Deleting'
  BY <1>2, <1>3, <1>4, DeletionUnderWay DEF Deleting, Settled, Sealed
<1> QED BY <1>2, <1>5, <1>6, DeletionGoesOn

LEMMA TombstoneHolds ==
    ASSUME NEW n \in S!Tombstones, Holds(setFs, n)
    PROVE  S!Tombstone \in S!Tombstones /\ Holds(setFs, S!Tombstone)
<1>1. \E m \in S!Tombstones : setFs.name[m] = "set"
  BY DEF Holds
<1> QED BY <1>1 DEF S!Tombstone, Holds

\* The directory is kept for the operator, if the file system lets it.
LEMMA PreserveStep ==
    ASSUME SetInv, del # "idle", del' = "idle", UNCHANGED <<build, asked>>,
           NEW from \in Places, Holds(setFs, from), "seal" \in setFs.set,
           S!preserve_uncertain_detach(from)
    PROVE  SetInv'
<1>1. PICK g : g = S!Rename(setFs, from, "uncertain")
  OBVIOUS
<1>2. Intact(setFs)
  BY DeletionUnderWay
<1>3. Intact(g) /\ g.set = setFs.set /\ Holds(g, "uncertain")
  BY <1>1, <1>2, Renamed, PlaceNames
<1>4. CASE S!ChangeAndSync(S!Rename(setFs, from, "uncertain")) /\ S!Tell("uncertain")
  <2>1. setFs' = g /\ setDisk' = {g}
    BY <1>1, <1>4 DEF S!ChangeAndSync
  <2>2. setTold' \in Answers
    BY <1>4, AnswerFields DEF S!Tell, SetInv, SetTypes
  <2>3. SetTypes'
    BY <1>3, <2>1, <2>2, Changed DEF SetInv, SetTypes, DeleteStages
  <2>4. Settled'
    BY <2>1 DEF Settled
  <2> QED BY <1>3, <1>4, <2>1, <2>3, <2>4, DeletionEnds
<1>5. CASE /\ S!Tell("unsecured")
           /\ \/ S!Change(S!Rename(setFs, from, "uncertain"))
              \/ UNCHANGED <<setFs, setDisk>>
  <2>1. \/ setFs' = g /\ setDisk' = setDisk \cup {g}
        \/ UNCHANGED <<setFs, setDisk>>
    BY <1>1, <1>5 DEF S!Change
  <2>2. setTold' \in Answers
    BY <1>5, AnswerFields DEF S!Tell, SetInv, SetTypes
  <2>3. SetTypes'
    BY <1>3, <2>1, <2>2, Changed DEF SetInv, SetTypes, DeleteStages
  <2> QED BY <1>5, <2>3, DeletionEnds
<1> QED BY <1>4, <1>5 DEF S!preserve_uncertain_detach

LEMMA SyncedStep ==
    ASSUME SetInv, S!DetachSynced
    PROVE  SetInv'
<1>1. /\ del = "renamed" /\ UNCHANGED <<build, asked>>
      /\ Holds(setFs, "pending") /\ "seal" \in setFs.set /\ \A f \in setDisk : "seal" \in f.set
  BY DEF S!DetachSynced, SetInv, Deleting, SetTypes
<1>2. CASE S!Sync /\ del' = "committed" /\ UNCHANGED setTold
  <2>1. setFs' = setFs /\ setDisk' = {setFs}
    BY <1>2 DEF S!Sync, S!ChangeAndSync
  <2>2. SetTypes'
    BY <1>1, <1>2, <2>1, Changed DEF SetInv, SetTypes, DeleteStages
  <2>3. Gone(setFs)
    BY <1>1, DeletionUnderWay, PlaceNames DEF Gone, Intact
  <2>4. Deleting'
    BY <1>1, <1>2, <2>1, <2>3, DeletionUnderWay DEF Deleting
  <2> QED BY <1>1, <1>2, <2>2, <2>4, DeletionGoesOn
<1>3. CASE del' = "failing" /\ UNCHANGED <<setFs, setDisk, setTold>>
  <2>1. SetTypes'
    BY <1>1, <1>3 DEF SetInv, SetTypes, DeleteStages
  <2>2. Deleting'
    BY <1>1, <1>3, DeletionUnderWay DEF Deleting
  <2> QED BY <1>1, <1>3, <2>1, <2>2, DeletionGoesOn
<1>4. CASE S!preserve_uncertain_detach(S!Tombstone) /\ del' = "idle"
  <2>1. S!Tombstone \in Places /\ Holds(setFs, S!Tombstone)
    BY <1>1, TombstoneHolds, PlaceNames
  <2> QED BY <1>1, <1>4, <2>1, PreserveStep
<1> QED BY <1>2, <1>3, <1>4 DEF S!DetachSynced

LEMMA RestoreStep ==
    ASSUME SetInv, S!RestoreDetached
    PROVE  SetInv'
<1>1. PICK g : g = S!Rename(setFs, "pending", "final")
  OBVIOUS
<1>2. /\ del = "failing" /\ del' = "undone" /\ UNCHANGED <<build, asked, setTold>>
      /\ \/ setFs' = g /\ setDisk' = setDisk \cup {g}
         \/ UNCHANGED <<setFs, setDisk>>
  BY <1>1 DEF S!RestoreDetached, S!Change
<1>3. Holds(setFs, "pending") /\ "seal" \in setFs.set /\ \A f \in setDisk : "seal" \in f.set
  BY <1>2 DEF SetInv, Deleting, SetTypes
<1>4. Intact(g) /\ g.set = setFs.set /\ Holds(g, "final")
  BY <1>1, <1>2, <1>3, DeletionUnderWay, Renamed, PlaceNames
<1>5. SetTypes'
  BY <1>2, <1>4, Changed DEF SetInv, SetTypes, DeleteStages
<1>6. Deleting'
  BY <1>2, <1>3, <1>4, DeletionUnderWay DEF Deleting
<1> QED BY <1>2, <1>5, <1>6, DeletionGoesOn

LEMMA UndoneStep ==
    ASSUME SetInv, S!durable_state_after_failed_detach
    PROVE  SetInv'
<1>1. /\ del = "undone" /\ UNCHANGED <<build, asked>>
      /\ Holds(setFs, "pending") \/ Holds(setFs, "final")
      /\ "seal" \in setFs.set /\ Intact(setFs)
  BY DEF S!durable_state_after_failed_detach, SetInv, Deleting, SetTypes
<1>2. CASE S!Sync /\ IF setFs.name["final"] = "set" THEN del' = "idle" /\ S!Tell("refused")
                                                    ELSE del' = "committed" /\ UNCHANGED setTold
  <2>1. setFs' = setFs /\ setDisk' = {setFs}
    BY <1>2 DEF S!Sync, S!ChangeAndSync
  <2>2. CASE Holds(setFs, "final")
    <3>1. del' = "idle" /\ S!Tell("refused")
      BY <1>2, <2>2 DEF Holds
    <3>2. setTold' \in Answers
      BY <3>1, AnswerFields DEF S!Tell, SetInv, SetTypes
    <3>3. SetTypes'
      BY <1>1, <2>1, <3>1, <3>2, Changed DEF SetInv, SetTypes, DeleteStages
    <3>4. (Settled /\ Sealed(setFs))'
      BY <1>1, <2>1, <2>2 DEF Settled, Sealed, Holds
    <3> QED BY <1>1, <3>1, <3>3, <3>4, DeletionEnds
  <2>3. CASE ~Holds(setFs, "final")
    <3>1. del' = "committed" /\ UNCHANGED setTold
      BY <1>2, <2>3 DEF Holds
    <3>2. SetTypes'
      BY <1>1, <2>1, <3>1, Changed DEF SetInv, SetTypes, DeleteStages
    <3>3. Deleting'
      BY <1>1, <2>1, <2>3, <3>1, DeletionUnderWay DEF Deleting, Gone
    <3> QED BY <1>1, <3>1, <3>2, <3>3, DeletionGoesOn
  <2> QED BY <2>2, <2>3
<1>3. CASE /\ IF setFs.name["final"] = "set" THEN S!preserve_uncertain_detach("final")
                                             ELSE S!Sync /\ S!Tell("unsecured")
           /\ del' = "idle"
  <2>1. CASE Holds(setFs, "final")
    BY <1>1, <1>3, <2>1, PreserveStep, PlaceNames DEF Holds
  <2>2. CASE ~Holds(setFs, "final")
    <3>1. setFs' = setFs /\ setDisk' = {setFs} /\ S!Tell("unsecured")
      BY <1>3, <2>2 DEF Holds, S!Sync, S!ChangeAndSync
    <3>2. setTold' \in Answers
      BY <3>1, AnswerFields DEF S!Tell, SetInv, SetTypes
    <3>3. SetTypes'
      BY <1>1, <1>3, <3>1, <3>2, Changed DEF SetInv, SetTypes, DeleteStages
    <3> QED BY <1>1, <1>3, <3>1, <3>3, DeletionEnds
  <2> QED BY <2>1, <2>2
<1>4. CASE /\ IF S!Detached THEN S!Change(S!Rename(setFs, S!Tombstone, "uncertain"))
                            ELSE UNCHANGED <<setFs, setDisk>>
           /\ del' = "idle" /\ S!Tell("unsecured")
  <2>1. PICK g : g = S!Rename(setFs, S!Tombstone, "uncertain")
    OBVIOUS
  <2>2. \/ S!Detached /\ setFs' = g /\ setDisk' = setDisk \cup {g}
        \/ UNCHANGED <<setFs, setDisk>>
    BY <1>4, <2>1 DEF S!Change
  <2>3. S!Detached => Intact(g)
    <3> SUFFICES ASSUME S!Detached PROVE Intact(g)
      OBVIOUS
    <3>1. \E n \in S!Tombstones : Holds(setFs, n)
      BY DEF S!Detached, Holds
    <3>2. S!Tombstone \in Places /\ Holds(setFs, S!Tombstone)
      BY <3>1, TombstoneHolds, PlaceNames
    <3> QED BY <1>1, <2>1, <3>2, Renamed, PlaceNames
  <2>4. setTold' \in Answers
    BY <1>4, AnswerFields DEF S!Tell, SetInv, SetTypes
  <2>5. SetTypes'
    BY <1>1, <1>4, <2>2, <2>3, <2>4, Changed DEF SetInv, SetTypes, DeleteStages
  <2> QED BY <1>1, <1>4, <2>5, DeletionEnds
<1> QED BY <1>2, <1>3, <1>4 DEF S!durable_state_after_failed_detach

LEMMA PromoteStep ==
    ASSUME SetInv, S!promote_committed_tombstone
    PROVE  SetInv'
<1>1. PICK g : g = S!Rename(setFs, "pending", "deleting")
  OBVIOUS
<1>2. /\ del = "committed" /\ del' = "promoted" /\ UNCHANGED <<build, asked, setTold>>
      /\ \/ setFs' = g /\ setDisk' = {g}
         \/ setFs' = g /\ setDisk' = setDisk \cup {g}
         \/ UNCHANGED <<setFs, setDisk>>
  BY <1>1 DEF S!promote_committed_tombstone, S!Change, S!ChangeAndSync
<1>3. Holds(setFs, "pending") /\ Gone(setFs) /\ \A f \in setDisk : Gone(f)
  BY <1>2 DEF SetInv, Deleting, SetTypes
<1>4. Intact(g) /\ Holds(g, "deleting") /\ Gone(g)
  BY <1>1, <1>2, <1>3, DeletionUnderWay, Renamed, PlaceNames DEF Gone
<1>5. SetTypes'
  BY <1>2, <1>4, Changed DEF SetInv, SetTypes, DeleteStages
<1>6. Deleting'
  BY <1>2, <1>3, <1>4, DeletionUnderWay, PlaceNames DEF Deleting
<1> QED BY <1>2, <1>5, <1>6, DeletionGoesOn

LEMMA LostStep ==
    ASSUME SetInv, S!LostAfterCommit
    PROVE  SetInv'
<1>1. /\ del = "promoted" /\ del' = "idle" /\ UNCHANGED <<build, asked>>
      /\ S!preserve_uncertain_detach(S!Tombstone)
  BY DEF S!LostAfterCommit
<1>2. "seal" \in setFs.set /\ \E n \in S!Tombstones : Holds(setFs, n)
  BY <1>1 DEF SetInv, Deleting, SetTypes, Gone
<1>3. S!Tombstone \in Places /\ Holds(setFs, S!Tombstone)
  BY <1>2, TombstoneHolds, PlaceNames
<1> QED BY <1>1, <1>2, <1>3, PreserveStep

LEMMA RemoveStep ==
    ASSUME SetInv, S!_remove_owned_directory_at
    PROVE  SetInv'
<1>1. PICK g, h, s : g = Drop(setFs, S!Tombstone) /\ h = WithSet(setFs, s) /\ s = {}
  OBVIOUS
<1>2. /\ del = "promoted" /\ del' = "idle" /\ S!Tell("deleted") /\ UNCHANGED <<build, asked>>
      /\ \/ setFs' = g /\ setDisk' = {g}
         \/ setFs' = h /\ setDisk' = setDisk \cup {h}
         \/ UNCHANGED <<setFs, setDisk>>
  BY <1>1 DEF S!_remove_owned_directory_at, S!Change, S!ChangeAndSync, Drop, WithSet
<1>3. /\ Intact(setFs) /\ ~Holds(setFs, "final") /\ \A f \in setDisk : ~Holds(f, "final")
      /\ \E n \in S!Tombstones : Holds(setFs, n)
  BY <1>2 DEF SetInv, Deleting, SetTypes, Gone
<1>4. S!Tombstone \in Places
  BY <1>3, TombstoneHolds, PlaceNames
<1>5. Intact(g) /\ ~Holds(g, "final")
  BY <1>1, <1>3, <1>4, DropIntact, PlaceNames
<1>6. Intact(h) /\ ~Holds(h, "final")
  BY <1>1, <1>3, SetIntact
<1>7. setTold' \in Answers
  BY <1>2, AnswerFields DEF S!Tell, SetInv, SetTypes
<1>8. SetTypes'
  BY <1>2, <1>5, <1>6, <1>7, Changed DEF SetInv, SetTypes, DeleteStages
<1>9. \A f \in setDisk' : ~Holds(f, "final")
  BY <1>2, <1>3, <1>5, <1>6
<1> QED BY <1>2, <1>8, <1>9, DeletionEnds

LEMMA SetPowerLossStep ==
    ASSUME SetInv, S!PowerLoss
    PROVE  SetInv'
<1>1. PICK f \in setDisk : setFs' = f /\ setDisk' = {f}
  BY DEF S!PowerLoss
<1>2. /\ build' = [build EXCEPT !.at = "idle", !.cancelled = FALSE, !.committed = FALSE]
      /\ del' = "idle" /\ UNCHANGED setTold
  BY DEF S!PowerLoss
<1>3. build' \in BuildState /\ build'.at = "idle"
  BY <1>2 DEF SetInv, SetTypes, BuildState, Stages
<1>4. SetTypes'
  BY <1>1, <1>2, <1>3, Changed DEF SetInv, SetTypes, DeleteStages
<1> QED BY <1>1, <1>2, <1>3, <1>4 DEF SetInv, Building, Deleting, Answered, Settled

\* Every step keeps it.
LEMMA SetsInductive == SetInv /\ [S!Next]_sets => SetInv'
<1> SUFFICES ASSUME SetInv, [S!Next]_sets PROVE SetInv'
  OBVIOUS
<1>1. CASE UNCHANGED sets
  BY <1>1 DEF sets, SetInv, SetTypes, Building, Deleting, Answered, Settled
<1>2. CASE S!create_database_directory \/ S!copy_storage \/ S!copy_jwt_secret
  BY <1>2, WritingStep DEF S!create_database_directory, S!copy_storage, S!copy_jwt_secret,
                           S!Resources
<1>3. CASE S!MoveAway \/ S!MoveBack
  BY <1>3 DEF S!MoveAway, S!MoveBack, SetInv, SetTypes, Building, Deleting, Answered, Settled
<1> QED BY <1>1, <1>2, <1>3, BeginStep, PrepareStep, AbortStep, FinalizeStep, PublishStep,
SealStep,
           FailStep, CancelStep, AnswerStep, ReconcileStep, DeleteStep, RefuseStep, DetachStep,
           SyncedStep,
           RestoreStep, UndoneStep, PromoteStep, LostStep, RemoveStep, SetPowerLossStep
        DEF S!Next

LEMMA SetsInitially == S!Init => SetInv
<1> SUFFICES ASSUME S!Init PROVE SetInv
  OBVIOUS
<1>1. /\ setFs = S!NoFiles /\ setDisk = {S!NoFiles} /\ del = "idle"
      /\ build = [at |-> "idle", seen |-> {}, cancelled |-> FALSE, committed |-> FALSE]
      /\ setTold = [create |-> "nothing", delete |-> "nothing"]
  BY DEF S!Init
<1>2. build \in BuildState /\ build.at = "idle" /\ setTold \in Answers
  BY <1>1 DEF BuildState, Stages, Answers
<1>3. SetTypes
  BY <1>1, <1>2, Empty DEF SetTypes, DeleteStages
<1> QED BY <1>1, <1>2, <1>3 DEF SetInv, Building, Deleting, Answered

\* A sealed set is whole in every state a power loss may leave, a request ends
\* cancelled or sealed and not both, and a deletion did what it told
\* (finalize_set, BackupSealGate, delete_set), for any number of faults.
THEOREM SetsStaySound == BackupsSpec => []SetsAreSound
<1>1. BackupsInit => SetInv
  BY SetsInitially DEF BackupsInit
<1>2. SetInv /\ [BackupsNext]_<<part, vars, archives, sets, schema>> => SetInv'
  <2> SUFFICES ASSUME SetInv, [BackupsNext]_<<part, vars, archives, sets, schema>> PROVE SetInv'
    OBVIOUS
  <2>1. [S!Next]_sets
    BY DEF BackupsNext
  <2> QED BY <2>1, SetsInductive
<1>3. SetInv => SetsAreSound
  <2> SUFFICES ASSUME SetInv PROVE SetsAreSound
    OBVIOUS
  <2>1. \A f \in setDisk : S!Visible(f) <=> Sealed(f)
    BY DEF S!Visible, Sealed, Holds
  <2>2. S!SealedIsWhole
    BY <2>1 DEF SetInv, SetTypes, Intact, S!SealedIsWhole, Sealed
  <2>3. S!CancelledXorSealed
    BY <2>1, Empty, PlaceNames DEF SetInv, SetTypes, Answered, Settled, Sealed,
                                   S!CancelledXorSealed
  <2>4. S!DeletionIsAsTold
    BY <2>1 DEF SetInv, SetTypes, Intact, Answered, Settled, Sealed, S!DeletionIsAsTold
  <2> QED BY <2>2, <2>3, <2>4 DEF SetsAreSound
<1> QED BY <1>1, <1>2, <1>3, PTL DEF BackupsSpec

-----------------------------------------------------------------------------
(***************************************************************************)
(* The schema: what statements about one collection leave of the others,   *)
(* and how the columns and indexes of the old definition become those of   *)
(* the new one, statement by statement.                                    *)
(***************************************************************************)

\* The shape of a database, and of the table of collection i.
IsDb(db) ==
    /\ db = [rel |-> db.rel, idx |-> db.idx, ok |-> db.ok]
    /\ db.rel = [j \in Collections |-> db.rel[j]]
    /\ \A n \in DOMAIN db.idx :
          db.idx[n] = [owner |-> db.idx[n].owner, column |-> db.idx[n].column, method |-> db.idx[n].method]
HasTable(db, i) == db.rel[i] = [name |-> db.rel[i].name, kind |-> "table", cols |-> db.rel[i].cols]

\* Statements for collection i leave the others, and their indexes, alone.
SameElsewhere(db, to, i) ==
    /\ \A j \in Collections \ {i} : to.rel[j] = db.rel[j]
    /\ \A n \in DOMAIN to.idx : to.idx[n].owner # i => n \in DOMAIN db.idx /\ to.idx[n] = db.idx[n]
    /\ \A n \in DOMAIN db.idx : db.idx[n].owner # i => n \in DOMAIN to.idx /\ to.idx[n] = db.idx[n]

\* ALTER TABLE keeps a table a table and makes no index.
Alters(db, to, i) ==
    /\ IsDb(to) /\ HasTable(to, i) /\ SameElsewhere(db, to, i)
    /\ \A n \in DOMAIN to.idx : n \in DOMAIN db.idx /\ to.idx[n].owner = db.idx[n].owner
    /\ to.ok => db.ok

\* What the fields F are called.
Named(N, F) == {N[f] : f \in F}

\* Columns without some, and with fields renamed.
Less(cols, gone) == [c \in DOMAIN cols \ gone |-> cols[c]]
Moved(cols, from, into) ==
    LET others == DOMAIN cols \ Named(from, DOMAIN from)
    IN  [c \in others \cup Named(into, DOMAIN from) |->
            IF c \in others THEN cols[c] ELSE cols[from[CHOOSE f \in DOMAIN from : into[f] = c]]]

\* Every new name is free when it is given.
Free(cols, from, into) ==
    \A f \in DOMAIN from : into[f] # from[f] =>
        /\ into[f] \notin DOMAIN cols \ Named(from, DOMAIN from)
        /\ \A g \in DOMAIN from \ {f} :
              (g < f => into[f] # into[g]) /\ (~(g < f) => into[f] # from[g])

\* The columns are the system's, and one for each of the fields F, whose names,
\* types and values are N, T and V.
HasColumns(cols, sys, F, N, T, V) ==
    /\ DOMAIN cols = sys \cup Named(N, F)
    /\ \A f, g \in F : N[f] = N[g] => f = g
    /\ \A f \in F : N[f] \notin sys /\ cols[N[f]] = [type |-> T[f], data |-> V[f]]
    /\ \A c \in sys : cols[c] = D!_col_ddl("system")

\* The fields G of a definition, none of them in F, are N, T and V, empty.
NewFields(G, d, F, N, T, V) ==
    /\ F \cap G = {}
    /\ \A f \in G : N[f] = d.schema[f].name /\ T[f] = d.schema[f].type /\ V[f] = Nobody

\* Some of the fields F are renamed, which makes N of them N2.
Renames(from, into, F, N, N2) ==
    /\ DOMAIN from \subseteq Nat /\ DOMAIN from \subseteq F
    /\ \A f \in DOMAIN from : from[f] = N[f] /\ N2[f] = into[f]
    /\ \A f \in F \ DOMAIN from : N2[f] = N[f]

\* One statement after another.
LEMMA AltersBoth ==
    ASSUME NEW db, NEW mid, NEW to, NEW i, Alters(db, mid, i), Alters(mid, to, i)
    PROVE  Alters(db, to, i)
BY DEF Alters, SameElsewhere

LEMMA AltersNot ==
    ASSUME NEW db, NEW i, IsDb(db), HasTable(db, i)
    PROVE  Alters(db, db, i)
BY DEF Alters, SameElsewhere

\* A database is the record of its fields.
LEMMA DbFields ==
    ASSUME NEW q, NEW x, NEW k, NEW t, t = [rel |-> q, idx |-> x, ok |-> k]
    PROVE  t.rel = q /\ t.idx = x /\ t.ok = k /\ t = [rel |-> t.rel, idx |-> t.idx, ok |-> t.ok]
OBVIOUS

\* A statement that fails.
LEMMA FailedAlters ==
    ASSUME NEW db, NEW i, IsDb(db), HasTable(db, i)
    PROVE  Alters(db, D!Failed(db), i) /\ ~D!Failed(db).ok
<1>1. PICK r : r = db.rel
  OBVIOUS
<1>2. PICK x : x = db.idx
  OBVIOUS
<1>0. PICK k : k = db.ok
  OBVIOUS
<1>a. db = [rel |-> r, idx |-> x, ok |-> k]
  BY <1>0, <1>1, <1>2 DEF IsDb
<1>b. PICK no : no = FALSE
  OBVIOUS
<1>c. [db EXCEPT !.ok = no] = [rel |-> r, idx |-> x, ok |-> no]
  BY <1>a
<1>3. D!Failed(db) = [rel |-> r, idx |-> x, ok |-> no]
  BY <1>b, <1>c DEF D!Failed
<1>4. PICK t : t = D!Failed(db)
  OBVIOUS
<1>5. t.rel = db.rel /\ t.idx = db.idx /\ t.ok = FALSE /\ t = [rel |-> t.rel, idx |-> t.idx, ok |-> t.ok]
  BY <1>1, <1>2, <1>3, <1>4, <1>b, DbFields
<1> QED BY <1>4, <1>5 DEF Alters, SameElsewhere, IsDb, HasTable

\* The columns of a table are changed, and some of its indexes go.
LEMMA ColumnsAlter ==
    ASSUME NEW db, NEW i \in Collections, IsDb(db), HasTable(db, i), NEW cols, NEW idx, NEW to,
           to = D!Altered(db, i, cols, idx),
           DOMAIN idx \subseteq DOMAIN db.idx,
           \A n \in DOMAIN idx : /\ idx[n].owner = db.idx[n].owner
                                 /\ idx[n] = [owner |-> idx[n].owner, column |-> idx[n].column, method |-> idx[n].method],
           \A n \in DOMAIN db.idx : db.idx[n].owner # i => n \in DOMAIN idx /\ idx[n] = db.idx[n]
    PROVE  Alters(db, to, i) /\ to.ok = db.ok /\ to.rel[i].cols = cols /\ to.idx = idx
<1>0. to = [rel |-> [db.rel EXCEPT ![i].cols = cols], idx |-> idx, ok |-> db.ok]
  BY DEF D!Altered
<1>1. PICK r, nm : r = db.rel /\ nm = db.rel[i].name
  OBVIOUS
<1>2. r = [j \in Collections |-> r[j]] /\ r[i] = [name |-> nm, kind |-> "table", cols |-> r[i].cols]
  BY <1>1 DEF IsDb, HasTable
<1>3. PICK q : q = [r EXCEPT ![i].cols = cols]
  OBVIOUS
<1>4. /\ q = [j \in Collections |-> q[j]] /\ q[i] = [name |-> nm, kind |-> "table", cols |-> cols]
      /\ \A j \in Collections \ {i} : q[j] = r[j]
  BY <1>2, <1>3
<1>5. to.rel = q /\ to.idx = idx /\ to.ok = db.ok
  BY <1>0, <1>1, <1>3
<1>6. to = [rel |-> to.rel, idx |-> to.idx, ok |-> to.ok]
  BY <1>0
<1>7. to.rel[i].cols = cols /\ to.rel[i].name = nm /\ HasTable(to, i)
  BY <1>4, <1>5 DEF HasTable
<1>8. IsDb(to)
  BY <1>4, <1>5, <1>6 DEF IsDb
<1>9. SameElsewhere(db, to, i)
  BY <1>1, <1>4, <1>5 DEF SameElsewhere
<1> QED BY <1>5, <1>7, <1>8, <1>9 DEF Alters

\* ADD COLUMN.
LEMMA AddAlters ==
    ASSUME NEW db, NEW i \in Collections, IsDb(db), HasTable(db, i), NEW types, NEW to,
           to = D!AddColumns(db, i, types)
    PROVE  /\ Alters(db, to, i)
           /\ to.ok => /\ DOMAIN types \cap DOMAIN db.rel[i].cols = {}
                       /\ to.rel[i].cols = D!Merged([c \in DOMAIN types |-> D!_col_ddl(types[c])], db.rel[i].cols)
<1>1. CASE DOMAIN types \cap DOMAIN db.rel[i].cols # {}
  BY <1>1, FailedAlters DEF D!AddColumns
<1>2. CASE DOMAIN types \cap DOMAIN db.rel[i].cols = {}
  <2>1. PICK cols : cols = D!Merged([c \in DOMAIN types |-> D!_col_ddl(types[c])], db.rel[i].cols)
    OBVIOUS
  <2>2. PICK idx : idx = db.idx
    OBVIOUS
  <2>3. to = D!Altered(db, i, cols, idx)
    BY <1>2, <2>1, <2>2 DEF D!AddColumns
  <2>4. DOMAIN idx \subseteq DOMAIN db.idx
    BY <2>2
  <2>5. \A n \in DOMAIN idx :
           /\ idx[n].owner = db.idx[n].owner
           /\ idx[n] = [owner |-> idx[n].owner, column |-> idx[n].column, method |-> idx[n].method]
    BY <2>2 DEF IsDb
  <2>6. \A n \in DOMAIN db.idx : db.idx[n].owner # i => n \in DOMAIN idx /\ idx[n] = db.idx[n]
    BY <2>2
  <2>7. Alters(db, to, i) /\ to.rel[i].cols = cols
    BY <2>3, <2>4, <2>5, <2>6, ColumnsAlter
  <2> QED BY <1>2, <2>1, <2>7
<1> QED BY <1>1, <1>2

\* DROP COLUMN takes the indexes of the columns along.
LEMMA DropAlters ==
    ASSUME NEW db, NEW i \in Collections, IsDb(db), HasTable(db, i), NEW columns, NEW to,
           to = D!DropColumns(db, i, columns)
    PROVE  /\ Alters(db, to, i) /\ to.ok = db.ok
           /\ to.rel[i].cols = Less(db.rel[i].cols, columns)
<1>1. PICK cols : cols = Less(db.rel[i].cols, columns)
  OBVIOUS
<1>2. PICK names : names = {n \in DOMAIN db.idx : db.idx[n].owner = i /\ db.idx[n].column \in columns}
  OBVIOUS
<1>3. PICK idx : idx = [n \in DOMAIN db.idx \ names |-> db.idx[n]]
  OBVIOUS
<1>4. to = D!Altered(db, i, cols, idx)
  BY <1>1, <1>2, <1>3 DEF D!DropColumns, D!Without, Less
<1>5. /\ DOMAIN idx \subseteq DOMAIN db.idx
      /\ \A n \in DOMAIN idx : idx[n] = db.idx[n]
      /\ \A n \in DOMAIN db.idx : db.idx[n].owner # i => n \in DOMAIN idx /\ idx[n] = db.idx[n]
  BY <1>2, <1>3
<1>6. \A n \in DOMAIN idx :
           /\ idx[n].owner = db.idx[n].owner
           /\ idx[n] = [owner |-> idx[n].owner, column |-> idx[n].column, method |-> idx[n].method]
  BY <1>5 DEF IsDb
<1>7. Alters(db, to, i) /\ to.ok = db.ok /\ to.rel[i].cols = cols
  BY <1>4, <1>5, <1>6, ColumnsAlter
<1> QED BY <1>1, <1>7

\* RENAME COLUMN takes the indexes along.
LEMMA RenameAlters ==
    ASSUME NEW db, NEW i \in Collections, IsDb(db), HasTable(db, i), NEW from, NEW into, NEW to,
           to = D!RenameColumns(db, i, from, into)
    PROVE  /\ Alters(db, to, i)
           /\ to.ok => Free(db.rel[i].cols, from, into) /\ to.rel[i].cols = Moved(db.rel[i].cols, from, into)
<1> DEFINE fields == DOMAIN from
           others == DOMAIN db.rel[i].cols \ Named(from, fields)
           InTheWay(f) == others \cup {IF g < f THEN into[g] ELSE from[g] : g \in fields \ {f}}
           NewName(c) == IF \E f \in fields : from[f] = c
                         THEN into[CHOOSE f \in fields : from[f] = c] ELSE c
<1>1. CASE \E f \in fields : into[f] # from[f] /\ into[f] \in InTheWay(f)
  BY <1>1, FailedAlters DEF D!RenameColumns, Named
<1>2. CASE ~\E f \in fields : into[f] # from[f] /\ into[f] \in InTheWay(f)
  <2>1. PICK cols : cols = Moved(db.rel[i].cols, from, into)
    OBVIOUS
  <2>2. PICK idx : idx = [n \in DOMAIN db.idx |->
                         IF db.idx[n].owner = i THEN [db.idx[n] EXCEPT !.column = NewName(@)]
                         ELSE db.idx[n]]
    OBVIOUS
  <2>3. to = D!Altered(db, i, cols, idx)
    BY <1>2, <2>1, <2>2 DEF D!RenameColumns, Named, Moved
  <2>4. DOMAIN idx \subseteq DOMAIN db.idx
    BY <2>2
  <2>5. \A n \in DOMAIN idx :
           /\ idx[n].owner = db.idx[n].owner
           /\ idx[n] = [owner |-> idx[n].owner, column |-> idx[n].column, method |-> idx[n].method]
    <3>1. SUFFICES ASSUME NEW n \in DOMAIN idx
                   PROVE  /\ idx[n].owner = db.idx[n].owner
                          /\ idx[n] = [owner |-> idx[n].owner, column |-> idx[n].column, method |-> idx[n].method]
      OBVIOUS
    <3>2. n \in DOMAIN db.idx
      BY <2>2, <3>1
    <3>3. PICK o, c, m : db.idx[n] = [owner |-> o, column |-> c, method |-> m]
      BY <3>2 DEF IsDb
    <3>4. PICK r : r = NewName(c)
      OBVIOUS
    <3>5. idx[n] = [owner |-> o, column |-> r, method |-> m] \/ idx[n] = [owner |-> o, column |-> c, method |-> m]
      <4>1. CASE db.idx[n].owner = i
        <5>1. idx[n] = [db.idx[n] EXCEPT !.column = NewName(@)]
          BY <2>2, <3>2, <4>1
        <5> HIDE DEF NewName
        <5>2. idx[n] = [db.idx[n] EXCEPT !.column = r]
          BY <3>3, <3>4, <5>1
        <5> QED BY <3>3, <5>2
      <4>2. CASE db.idx[n].owner # i
        BY <2>2, <3>2, <3>3, <4>2
      <4> QED BY <4>1, <4>2
    <3> QED BY <3>3, <3>5
  <2>6. \A n \in DOMAIN db.idx : db.idx[n].owner # i => n \in DOMAIN idx /\ idx[n] = db.idx[n]
    BY <2>2
  <2>7. Alters(db, to, i) /\ to.rel[i].cols = cols
    BY <2>3, <2>4, <2>5, <2>6, ColumnsAlter
  <2>8. Free(db.rel[i].cols, from, into)
    BY <1>2 DEF Free
  <2> QED BY <2>1, <2>7, <2>8
<1> QED BY <1>1, <1>2

\* RENAME TO.
LEMMA NameAlters ==
    ASSUME NEW db, NEW i \in Collections, IsDb(db), HasTable(db, i), NEW name, NEW to,
           to = D!RenameTable(db, i, name)
    PROVE  Alters(db, to, i) /\ to.rel[i].cols = db.rel[i].cols
<1>1. CASE D!Taken(db, name)
  <2>1. to = D!Failed(db)
    BY <1>1 DEF D!RenameTable
  <2>2. to.rel = db.rel
    BY <2>1 DEF D!Failed, IsDb
  <2> QED BY <2>1, <2>2, FailedAlters
<1>2. CASE ~D!Taken(db, name)
  <2>1. to = [db EXCEPT !.rel[i].name = name]
    BY <1>2 DEF D!RenameTable
  <2>2. PICK r, x, k, cols : r = db.rel /\ x = db.idx /\ k = db.ok /\ cols = db.rel[i].cols
    OBVIOUS
  <2>3. db = [rel |-> r, idx |-> x, ok |-> k] /\ r = [j \in Collections |-> r[j]]
    BY <2>2 DEF IsDb
  <2>4. r[i] = [name |-> r[i].name, kind |-> "table", cols |-> cols]
    BY <2>2 DEF HasTable
  <2>5. PICK q : q = [r EXCEPT ![i].name = name]
    OBVIOUS
  <2>6. to = [rel |-> q, idx |-> x, ok |-> k]
    BY <2>1, <2>3, <2>5
  <2>7. /\ q = [j \in Collections |-> q[j]] /\ q[i] = [name |-> name, kind |-> "table", cols |-> cols]
        /\ \A j \in Collections \ {i} : q[j] = r[j]
    BY <2>3, <2>4, <2>5
  <2>8. to.rel = q /\ to.idx = x /\ to.ok = k /\ to = [rel |-> to.rel, idx |-> to.idx, ok |-> to.ok]
    BY <2>6, DbFields
  <2>9. to.rel[i].cols = cols /\ HasTable(to, i)
    BY <2>7, <2>8 DEF HasTable
  <2>10. IsDb(to)
    BY <2>2, <2>7, <2>8 DEF IsDb
  <2> QED BY <2>2, <2>7, <2>8, <2>9, <2>10 DEF Alters, SameElsewhere
<1> QED BY <1>1, <1>2

\* What counts are the names, types and values of the fields.
LEMMA SameColumns ==
    ASSUME NEW cols, NEW sys, NEW F, NEW N, NEW T, NEW V, NEW N2, NEW T2, NEW V2,
           HasColumns(cols, sys, F, N, T, V),
           \A f \in F : N2[f] = N[f] /\ T2[f] = T[f] /\ V2[f] = V[f]
    PROVE  HasColumns(cols, sys, F, N2, T2, V2)
<1>1. Named(N2, F) = Named(N, F)
  BY DEF Named
<1> QED BY <1>1 DEF HasColumns

\* The names of some fields.
LEMMA NamesBoth ==
    ASSUME NEW N, NEW F, NEW G
    PROVE  Named(N, F \cup G) = Named(N, F) \cup Named(N, G)
BY DEF Named

LEMMA NamesLess ==
    ASSUME NEW N, NEW F, NEW G, G \subseteq F, \A f, g \in F : N[f] = N[g] => f = g
    PROVE  Named(N, F) \ Named(N, G) = Named(N, F \ G) /\ Named(N, G) \subseteq Named(N, F)
BY DEF Named

LEMMA SameNames ==
    ASSUME NEW N, NEW M, NEW F, \A f \in F : N[f] = M[f]
    PROVE  Named(N, F) = Named(M, F)
BY DEF Named

\* The fields and the system have columns of their own.
LEMMA NamesApart ==
    ASSUME NEW cols, NEW sys, NEW F, NEW N, NEW T, NEW V, HasColumns(cols, sys, F, N, T, V)
    PROVE  DOMAIN cols = sys \cup Named(N, F) /\ Named(N, F) \cap sys = {}
BY DEF HasColumns, Named

\* Names given one after the other, each of them free, are different.
LEMMA RenamesDiffer ==
    ASSUME NEW K, K \subseteq Nat, NEW from, NEW into,
           \A f, g \in K : from[f] = from[g] => f = g,
           \A f \in K : into[f] # from[f] =>
               \A g \in K \ {f} :
                   (g < f => into[f] # into[g]) /\ (~(g < f) => into[f] # from[g])
    PROVE  \A f, g \in K : into[f] = into[g] => f = g
<1>1. ASSUME NEW f \in K, NEW g \in K, into[f] = into[g], f < g, f # g, ~(g < f) PROVE FALSE
  <2>1. CASE into[g] # from[g]
    BY <1>1, <2>1
  <2>2. CASE into[g] = from[g] /\ into[f] # from[f]
    BY <1>1, <2>2
  <2>3. CASE into[g] = from[g] /\ into[f] = from[f]
    BY <1>1, <2>3
  <2> QED BY <2>1, <2>2, <2>3
<1>2. SUFFICES ASSUME NEW f \in K, NEW g \in K, into[f] = into[g], f # g PROVE FALSE
  OBVIOUS
<1>3. f \in Nat /\ g \in Nat
  OBVIOUS
<1>4. (f < g /\ ~(g < f)) \/ (g < f /\ ~(f < g))
  BY <1>2, <1>3
<1> QED BY <1>1, <1>2, <1>4

\* Columns of the system are added.
LEMMA SystemAdded ==
    ASSUME NEW cols, NEW sys, NEW F, NEW N, NEW T, NEW V, NEW more, NEW types, NEW to,
           HasColumns(cols, sys, F, N, T, V), types = [c \in more |-> "system"],
           DOMAIN types \cap DOMAIN cols = {},
           to = D!Merged([c \in DOMAIN types |-> D!_col_ddl(types[c])], cols)
    PROVE  HasColumns(to, sys \cup more, F, N, T, V)
<1>1. PICK new : new = [c \in more |-> D!_col_ddl("system")]
  OBVIOUS
<1>2. [c \in DOMAIN types |-> D!_col_ddl(types[c])] = new
  BY <1>1
<1>3. /\ DOMAIN to = more \cup DOMAIN cols
      /\ \A c \in more : to[c] = D!_col_ddl("system")
      /\ \A c \in DOMAIN cols \ more : to[c] = cols[c]
  BY <1>1, <1>2 DEF D!Merged
<1>4. more \cap DOMAIN cols = {}
  OBVIOUS
<1>a. DOMAIN cols = sys \cup Named(N, F)
  BY NamesApart
<1>b. \A f \in F : N[f] \in Named(N, F)
  BY DEF Named
<1>5. DOMAIN cols = sys \cup Named(N, F) /\ \A f \in F : N[f] \in Named(N, F)
  BY <1>a, <1>b
<1>6. DOMAIN to = (sys \cup more) \cup Named(N, F)
  BY <1>3, <1>5
<1>7. \A f \in F : N[f] \notin sys \cup more /\ to[N[f]] = [type |-> T[f], data |-> V[f]]
  BY <1>3, <1>4, <1>5 DEF HasColumns
<1>8. \A c \in sys \cup more : to[c] = D!_col_ddl("system")
  BY <1>3, <1>4, <1>5 DEF HasColumns
<1> QED BY <1>6, <1>7, <1>8 DEF HasColumns

\* Columns of the system are dropped.
LEMMA SystemDropped ==
    ASSUME NEW cols, NEW sys, NEW F, NEW N, NEW T, NEW V, NEW gone, NEW to,
           HasColumns(cols, sys, F, N, T, V), gone \subseteq sys,
           to = Less(cols, gone)
    PROVE  HasColumns(to, sys \ gone, F, N, T, V)
<1>1. DOMAIN cols = sys \cup Named(N, F) /\ Named(N, F) \cap sys = {}
  BY NamesApart
<1>2. DOMAIN to = (sys \ gone) \cup Named(N, F)
  BY <1>1 DEF Less
<1>3. \A c \in DOMAIN to : to[c] = cols[c]
  BY DEF Less
<1>4. \A f \in F : N[f] \in Named(N, F)
  BY DEF Named
<1>5. \A f \in F : N[f] \notin sys \ gone /\ to[N[f]] = [type |-> T[f], data |-> V[f]]
  BY <1>1, <1>2, <1>3, <1>4 DEF HasColumns
<1>6. \A c \in sys \ gone : to[c] = D!_col_ddl("system")
  BY <1>2, <1>3 DEF HasColumns
<1> QED BY <1>2, <1>5, <1>6 DEF HasColumns

\* Columns of fields are dropped.
LEMMA FieldsDropped ==
    ASSUME NEW cols, NEW sys, NEW F, NEW N, NEW T, NEW V, NEW G, NEW to,
           HasColumns(cols, sys, F, N, T, V), G \subseteq F,
           to = Less(cols, Named(N, G))
    PROVE  HasColumns(to, sys, F \ G, N, T, V)
<1>1. DOMAIN cols = sys \cup Named(N, F) /\ Named(N, F) \cap sys = {}
  BY NamesApart
<1>2. Named(N, F) \ Named(N, G) = Named(N, F \ G) /\ Named(N, G) \subseteq Named(N, F)
  BY DEF HasColumns, Named
<1>3. DOMAIN to = sys \cup Named(N, F \ G)
  BY <1>1, <1>2 DEF Less
<1>4. \A c \in DOMAIN to : to[c] = cols[c]
  BY DEF Less
<1>5. \A f \in F \ G : N[f] \in Named(N, F \ G)
  BY DEF Named
<1>6. \A f \in F \ G : N[f] \notin sys /\ to[N[f]] = [type |-> T[f], data |-> V[f]]
  BY <1>3, <1>4, <1>5 DEF HasColumns
<1>7. \A c \in sys : to[c] = D!_col_ddl("system")
  BY <1>3, <1>4 DEF HasColumns
<1>8. \A f, g \in F \ G : N[f] = N[g] => f = g
  BY DEF HasColumns
<1> QED BY <1>3, <1>6, <1>7, <1>8 DEF HasColumns

\* Columns of fields are added.
LEMMA FieldsAdded ==
    ASSUME NEW cols, NEW sys, NEW F, NEW N, NEW T, NEW V, NEW G, NEW d, NEW types, NEW to,
           HasColumns(cols, sys, F, N, T, V), NewFields(G, d, F, N, T, V),
           D!Distinct(d, G), types = D!TypesOf(d, G), DOMAIN types \cap DOMAIN cols = {},
           to = D!Merged([c \in DOMAIN types |-> D!_col_ddl(types[c])], cols)
    PROVE  HasColumns(to, sys, F \cup G, N, T, V)
<1>0. /\ F \cap G = {}
      /\ \A f \in G : N[f] = d.schema[f].name /\ T[f] = d.schema[f].type /\ V[f] = Nobody
  BY DEF NewFields
<1>1. \A f \in G : N[f] \in Named(N, G)
  BY DEF Named
<1>2. DOMAIN types = Named(N, G)
  BY <1>0 DEF D!TypesOf, D!NamesOf, Named
<1>3. ASSUME NEW f \in G PROVE types[N[f]] = T[f]
  <2>1. PICK g : g = CHOOSE h \in G : d.schema[h].name = N[f]
    OBVIOUS
  <2>2. g \in G /\ d.schema[g].name = N[f]
    BY <1>0, <2>1
  <2>3. g = f
    BY <1>0, <2>2 DEF D!Distinct
  <2>4. types[N[f]] = d.schema[g].type
    BY <1>1, <1>2, <2>1 DEF D!TypesOf, D!NamesOf
  <2> QED BY <1>0, <2>3, <2>4
<1>4. /\ DOMAIN to = Named(N, G) \cup DOMAIN cols
      /\ \A c \in Named(N, G) : to[c] = D!_col_ddl(types[c])
      /\ \A c \in DOMAIN cols \ Named(N, G) : to[c] = cols[c]
  BY <1>2 DEF D!Merged
<1>a. DOMAIN cols = sys \cup Named(N, F)
  BY NamesApart
<1>b. \A f \in F : N[f] \in Named(N, F)
  BY DEF Named
<1>5. DOMAIN cols = sys \cup Named(N, F) /\ \A f \in F : N[f] \in Named(N, F)
  BY <1>a, <1>b
<1>6. Named(N, G) \cap DOMAIN cols = {}
  BY <1>2
<1>7. DOMAIN to = sys \cup Named(N, F \cup G)
  <2>1. Named(N, F \cup G) = Named(N, F) \cup Named(N, G)
    BY NamesBoth
  <2> QED BY <1>4, <1>5, <2>1
<1>8. \A f \in G : N[f] \notin sys /\ to[N[f]] = [type |-> T[f], data |-> V[f]]
  BY <1>0, <1>1, <1>3, <1>4, <1>5, <1>6 DEF D!_col_ddl
<1>9. \A f \in F : N[f] \in DOMAIN cols /\ N[f] \notin Named(N, G)
  BY <1>5, <1>6
<1>10. \A f, g \in F \cup G : N[f] = N[g] => f = g
  BY <1>0, <1>1, <1>9 DEF HasColumns, D!Distinct
<1>11. \A f \in F : N[f] \notin sys /\ to[N[f]] = [type |-> T[f], data |-> V[f]]
  BY <1>4, <1>9 DEF HasColumns
<1>12. \A c \in sys : to[c] = D!_col_ddl("system")
  BY <1>4, <1>5, <1>6 DEF HasColumns
<1> QED BY <1>7, <1>8, <1>10, <1>11, <1>12 DEF HasColumns

\* Columns of fields are renamed, in the order of the fields.
LEMMA FieldsRenamed ==
    ASSUME NEW cols, NEW sys, NEW F, NEW N, NEW T, NEW V, NEW from, NEW into,
           NEW N2, NEW to, HasColumns(cols, sys, F, N, T, V), Renames(from, into, F, N, N2),
           Free(cols, from, into), to = Moved(cols, from, into)
    PROVE  HasColumns(to, sys, F, N2, T, V)
<1>k. PICK K : K = DOMAIN from
  OBVIOUS
<1>K. K \subseteq Nat /\ K \subseteq F
  BY <1>k DEF Renames
<1>n. /\ \A f \in K : from[f] = N[f] /\ N2[f] = into[f]
      /\ \A f \in F \ K : N2[f] = N[f]
  BY <1>k DEF Renames
<1>a. PICK others : others = DOMAIN cols \ Named(from, K)
  OBVIOUS
<1>b. to = [c \in others \cup Named(into, K) |->
               IF c \in others THEN cols[c] ELSE cols[from[CHOOSE f \in K : into[f] = c]]]
  BY <1>a, <1>k DEF Moved
<1>c. \A f \in K : into[f] # from[f] =>
         /\ into[f] \notin others
         /\ \A g \in K \ {f} : (g < f => into[f] # into[g]) /\ (~(g < f) => into[f] # from[g])
  BY <1>a, <1>k DEF Free
<1>0. DOMAIN cols = sys \cup Named(N, F) /\ Named(N, F) \cap sys = {}
  BY NamesApart
<1>1. others = sys \cup Named(N, F \ K)
  <2>0. \A f, g \in F : N[f] = N[g] => f = g
    BY DEF HasColumns
  <2>1. Named(N, F) \ Named(N, K) = Named(N, F \ K) /\ Named(N, K) \subseteq Named(N, F)
    BY <1>K, <2>0, NamesLess
  <2>2. Named(from, K) = Named(N, K)
    BY <1>n, SameNames
  <2>3. others = DOMAIN cols \ Named(N, K)
    BY <1>a, <2>2
  <2> QED BY <1>0, <2>1, <2>3
<1>2. \A f \in K : into[f] \notin others
  <2>1. SUFFICES ASSUME NEW f \in K, into[f] = from[f] PROVE into[f] \notin others
    BY <1>c
  <2>2. from[f] \in Named(from, K)
    BY <2>1 DEF Named
  <2> QED BY <1>a, <2>1, <2>2
<1>3. \A f, g \in K : from[f] = from[g] => f = g
  BY <1>K, <1>n DEF HasColumns
<1>4. \A f, g \in K : into[f] = into[g] => f = g
  BY <1>3, <1>c, <1>K, RenamesDiffer
<1>5. \A f \in K : N2[f] \notin others
  BY <1>2, <1>n
<1>6. \A f \in F \ K : N2[f] \in others
  BY <1>1, <1>n DEF Named
<1>7. DOMAIN to = others \cup Named(into, K)
  BY <1>b
<1>8. DOMAIN to = sys \cup Named(N2, F)
  <2>1. Named(into, K) = Named(N2, K)
    BY <1>n, SameNames
  <2>2. \A f \in F \ K : N[f] = N2[f]
    BY <1>n
  <2>3. Named(N, F \ K) = Named(N2, F \ K)
    BY <2>2, SameNames
  <2>4. Named(N2, (F \ K) \cup K) = Named(N2, F \ K) \cup Named(N2, K)
    BY NamesBoth
  <2>5. (F \ K) \cup K = F
    BY <1>K
  <2> QED BY <1>1, <1>7, <2>1, <2>3, <2>4, <2>5
<1>9. \A f, g \in F : N2[f] = N2[g] => f = g
  <2>1. SUFFICES ASSUME NEW f \in F, NEW g \in F, N2[f] = N2[g] PROVE f = g
    OBVIOUS
  <2>2. CASE f \in K /\ g \in K
    BY <1>4, <1>n, <2>1, <2>2
  <2>3. CASE f \notin K /\ g \notin K
    <3>1. N[f] = N[g]
      BY <1>n, <2>1, <2>3
    <3> QED BY <3>1 DEF HasColumns
  <2>4. f \in K <=> g \in K
    BY <1>5, <1>6, <2>1
  <2> QED BY <2>2, <2>3, <2>4
<1>10. ASSUME NEW f \in K PROVE to[N2[f]] = [type |-> T[f], data |-> V[f]] /\ N2[f] \notin sys
  <2>1. PICK g : g = CHOOSE h \in K : into[h] = N2[f]
    OBVIOUS
  <2>2. g \in K /\ into[g] = into[f]
    BY <1>n, <2>1
  <2>3. g = f
    BY <1>4, <2>2
  <2>4. N2[f] \in DOMAIN to
    BY <1>7, <1>n DEF Named
  <2>5. to[N2[f]] = cols[from[g]]
    BY <1>5, <1>7, <1>b, <2>1, <2>4
  <2> QED BY <1>1, <1>5, <1>K, <1>n, <2>3, <2>5 DEF HasColumns
<1>11. \A f \in F \ K : to[N2[f]] = [type |-> T[f], data |-> V[f]] /\ N2[f] \notin sys
  BY <1>6, <1>7, <1>b, <1>n DEF HasColumns
<1>12. \A c \in sys : to[c] = D!_col_ddl("system")
  BY <1>1, <1>7, <1>b DEF HasColumns
<1> QED BY <1>8, <1>9, <1>10, <1>11, <1>12 DEF HasColumns

\* The fields of a definition, and which of them have been given values.
NamesIn(d) == [f \in DOMAIN d.schema |-> d.schema[f].name]
TypesIn(d) == [f \in DOMAIN d.schema |-> d.schema[f].type]
Values(d, filled) == [f \in DOMAIN d.schema |-> IF f \in filled THEN f ELSE Nobody]
Describes(d, filled, cols) ==
    HasColumns(cols, D!SystemColumns(d), DOMAIN d.schema, NamesIn(d), TypesIn(d), Values(d, filled))

\* Names of the system are not those of accounts.
LEMMA AuthApart == D!BaseColumns \cap D!_AUTH_SYSTEM_COLUMN_DEFINITIONS = {}
BY DEF D!BaseColumns, D!_AUTH_SYSTEM_COLUMN_DEFINITIONS

\* The columns of accounts go.
LEMMA AuthGo ==
    ASSUME NEW db, NEW i \in Collections, IsDb(db), HasTable(db, i), NEW gone, NEW to,
           to = D!DropColumns(db, i, gone),
           NEW sys, NEW F, NEW N, NEW T, NEW V, HasColumns(db.rel[i].cols, sys, F, N, T, V),
           gone \subseteq sys
    PROVE  Alters(db, to, i) /\ HasColumns(to.rel[i].cols, sys \ gone, F, N, T, V)
<1>1. Alters(db, to, i)
  BY DropAlters
<1>2. to.rel[i].cols = Less(db.rel[i].cols, gone)
  BY DropAlters
<1>3. PICK cols, cols2 : cols = db.rel[i].cols /\ cols2 = to.rel[i].cols
  OBVIOUS
<1>4. cols2 = Less(cols, gone)
  BY <1>2, <1>3
<1>5. HasColumns(cols2, sys \ gone, F, N, T, V)
  BY <1>3, <1>4, SystemDropped
<1> QED BY <1>1, <1>3, <1>5

\* The table and its auth columns.
LEMMA TypeAltered ==
    ASSUME NEW db, NEW i \in Collections, IsDb(db), HasTable(db, i), NEW old, NEW new, NEW to,
           NEW F, NEW N, NEW T, NEW V, NEW sys,
           HasColumns(db.rel[i].cols, D!SystemColumns(old), F, N, T, V),
           to = CASE old.type # "auth" /\ new.type = "auth" ->
                        D!AddColumns(db, i, [c \in D!_AUTH_SYSTEM_COLUMN_DEFINITIONS |-> "system"])
                  [] old.type = "auth" /\ new.type # "auth" ->
                        D!DropColumns(db, i, D!_AUTH_SYSTEM_COLUMN_DEFINITIONS)
                  [] OTHER -> db
    PROVE  /\ Alters(db, to, i)
           /\ to.ok => HasColumns(to.rel[i].cols, D!SystemColumns(new), F, N, T, V)
<1>1. PICK auth : auth = D!_AUTH_SYSTEM_COLUMN_DEFINITIONS
  OBVIOUS
<1>2. CASE old.type # "auth" /\ new.type = "auth"
  <2>1. PICK types : types = [c \in auth |-> "system"]
    OBVIOUS
  <2>2. to = D!AddColumns(db, i, types)
    BY <1>1, <1>2, <2>1
  <2>3. D!SystemColumns(new) = D!SystemColumns(old) \cup auth
    BY <1>1, <1>2 DEF D!SystemColumns
  <2>4. Alters(db, to, i)
    BY <2>2, AddAlters
  <2>5. ASSUME to.ok PROVE HasColumns(to.rel[i].cols, D!SystemColumns(old) \cup auth, F, N, T, V)
    <3>1. /\ DOMAIN types \cap DOMAIN db.rel[i].cols = {}
          /\ to.rel[i].cols = D!Merged([c \in DOMAIN types |-> D!_col_ddl(types[c])], db.rel[i].cols)
      BY <2>2, <2>5, AddAlters
    <3>2. PICK cols, cols2 : cols = db.rel[i].cols /\ cols2 = to.rel[i].cols
      OBVIOUS
    <3>3. HasColumns(cols, D!SystemColumns(old), F, N, T, V)
      BY <3>2
    <3>4. cols2 = D!Merged([c \in DOMAIN types |-> D!_col_ddl(types[c])], cols)
      BY <3>1, <3>2
    <3>5. DOMAIN types \cap DOMAIN cols = {}
      BY <3>1, <3>2
    <3>6. HasColumns(cols2, D!SystemColumns(old) \cup auth, F, N, T, V)
      BY <2>1, <3>3, <3>4, <3>5, SystemAdded
    <3> QED BY <3>2, <3>6
  <2> QED BY <2>3, <2>4, <2>5
<1>3. CASE old.type = "auth" /\ new.type # "auth"
  <2>1. to = D!DropColumns(db, i, auth)
    BY <1>1, <1>3
  <2>3. D!SystemColumns(old) = D!BaseColumns \cup auth /\ D!SystemColumns(new) = D!BaseColumns
    BY <1>1, <1>3 DEF D!SystemColumns
  <2>4. D!SystemColumns(new) = D!SystemColumns(old) \ auth /\ auth \subseteq D!SystemColumns(old)
    BY <1>1, <2>3, AuthApart
  <2>5. Alters(db, to, i) /\ HasColumns(to.rel[i].cols, D!SystemColumns(old) \ auth, F, N, T, V)
    BY <2>1, <2>4, AuthGo
  <2> QED BY <2>4, <2>5
<1>4. CASE ~(old.type # "auth" /\ new.type = "auth") /\ ~(old.type = "auth" /\ new.type # "auth")
  <2>1. to = db
    BY <1>4
  <2>2. D!SystemColumns(new) = D!SystemColumns(old)
    BY <1>4 DEF D!SystemColumns
  <2> QED BY <2>1, <2>2, AltersNot
<1> QED BY <1>2, <1>3, <1>4

\* Fields are added.
LEMMA FieldsAlter ==
    ASSUME NEW db, NEW i \in Collections, IsDb(db), HasTable(db, i), NEW d, NEW G, NEW to,
           to = D!AddFields(db, i, d, G)
    PROVE  Alters(db, to, i)
<1>1. CASE ~D!Distinct(d, G)
  BY <1>1, FailedAlters DEF D!AddFields
<1>2. CASE D!Distinct(d, G)
  <2>1. PICK types : types = D!TypesOf(d, G)
    OBVIOUS
  <2>2. to = D!AddColumns(db, i, types)
    BY <1>2, <2>1 DEF D!AddFields
  <2> QED BY <2>2, AddAlters
<1> QED BY <1>1, <1>2

LEMMA FieldsCome ==
    ASSUME NEW db, NEW i \in Collections, IsDb(db), HasTable(db, i), NEW d, NEW G, NEW to,
           to = D!AddFields(db, i, d, G), to.ok,
           NEW sys, NEW F, NEW N, NEW T, NEW V, HasColumns(db.rel[i].cols, sys, F, N, T, V),
           NewFields(G, d, F, N, T, V)
    PROVE  HasColumns(to.rel[i].cols, sys, F \cup G, N, T, V)
<1>1. D!Distinct(d, G)
  BY FailedAlters DEF D!AddFields
<1>2. PICK types : types = D!TypesOf(d, G)
  OBVIOUS
<1>3. to = D!AddColumns(db, i, types)
  BY <1>1, <1>2 DEF D!AddFields
<1>4. /\ DOMAIN types \cap DOMAIN db.rel[i].cols = {}
      /\ to.rel[i].cols = D!Merged([c \in DOMAIN types |-> D!_col_ddl(types[c])], db.rel[i].cols)
  BY <1>3, AddAlters
<1>5. PICK cols, cols2 : cols = db.rel[i].cols /\ cols2 = to.rel[i].cols
  OBVIOUS
<1>6. HasColumns(cols, sys, F, N, T, V)
  BY <1>5
<1>7. cols2 = D!Merged([c \in DOMAIN types |-> D!_col_ddl(types[c])], cols)
  BY <1>4, <1>5
<1>8. DOMAIN types \cap DOMAIN cols = {}
  BY <1>4, <1>5
<1>9. HasColumns(cols2, sys, F \cup G, N, T, V)
  BY <1>1, <1>2, <1>6, <1>7, <1>8, FieldsAdded
<1> QED BY <1>5, <1>9

\* Fields are dropped.
LEMMA FieldsGo ==
    ASSUME NEW db, NEW i \in Collections, IsDb(db), HasTable(db, i), NEW d, NEW G, NEW to,
           to = D!DropColumns(db, i, D!NamesOf(d, G)),
           NEW sys, NEW F, NEW N, NEW T, NEW V, HasColumns(db.rel[i].cols, sys, F, N, T, V),
           G \subseteq F, \A f \in G : N[f] = d.schema[f].name
    PROVE  HasColumns(to.rel[i].cols, sys, F \ G, N, T, V)
<1>1. D!NamesOf(d, G) = Named(N, G)
  BY DEF D!NamesOf, Named
<1>2. PICK gone : gone = Named(N, G)
  OBVIOUS
<1>3. to = D!DropColumns(db, i, gone)
  BY <1>1, <1>2
<1>4. to.rel[i].cols = Less(db.rel[i].cols, gone)
  BY <1>3, DropAlters
<1>5. PICK cols, cols2 : cols = db.rel[i].cols /\ cols2 = to.rel[i].cols
  OBVIOUS
<1>6. cols2 = Less(cols, Named(N, G))
  BY <1>2, <1>4, <1>5
<1>7. HasColumns(cols2, sys, F \ G, N, T, V)
  BY <1>5, <1>6, FieldsDropped
<1> QED BY <1>5, <1>7

\* Fields are renamed.
LEMMA FieldsMove ==
    ASSUME NEW db, NEW i \in Collections, IsDb(db), HasTable(db, i),
           NEW from, NEW into, NEW to, to = D!RenameColumns(db, i, from, into), to.ok,
           NEW sys, NEW F, NEW N, NEW N2, NEW T, NEW V,
           HasColumns(db.rel[i].cols, sys, F, N, T, V),
           Renames(from, into, F, N, N2)
    PROVE  HasColumns(to.rel[i].cols, sys, F, N2, T, V)
<1>1. PICK cols, cols2 : cols = db.rel[i].cols /\ cols2 = to.rel[i].cols
  OBVIOUS
<1>2. Free(cols, from, into) /\ cols2 = Moved(cols, from, into)
  BY <1>1, RenameAlters
<1>4. HasColumns(cols, sys, F, N, T, V)
  BY <1>1
<1>5. HasColumns(cols2, sys, F, N2, T, V)
  BY <1>2, <1>4, FieldsRenamed
<1> QED BY <1>1, <1>5

\* The values that fields keep.
Kept(filled, old, new) == {f \in filled : f \in DOMAIN new.schema /\ new.schema[f].type = old.schema[f].type}

\* The ALTER statements turn the columns of the old definition into those of
\* the new one, with the values of the fields that keep their type.
LEMMA AlterDescribes ==
    ASSUME NEW db, NEW i \in Collections, IsDb(db), HasTable(db, i), NEW old, NEW new, NEW filled,
           DOMAIN old.schema \subseteq Nat, filled \subseteq DOMAIN old.schema,
           Describes(old, filled, db.rel[i].cols), NEW to, to = D!Alter(db, i, old, new)
    PROVE  /\ Alters(db, to, i)
           /\ to.ok => Describes(new, Kept(filled, old, new), to.rel[i].cols)
<1>1. PICK before, after : before = DOMAIN old.schema /\ after = DOMAIN new.schema
  OBVIOUS
<1>2. PICK kept, retyped : /\ kept = before \cap after
                           /\ retyped = {f \in kept : old.schema[f].type # new.schema[f].type}
  OBVIOUS
<1>3. PICK from, into : /\ from = [f \in kept |-> old.schema[f].name]
                        /\ into = [f \in kept |-> new.schema[f].name]
  OBVIOUS
<1>4. PICK db1 : db1 = IF old.name # new.name THEN D!RenameTable(db, i, new.name) ELSE db
  OBVIOUS
<1>5. PICK db2 : db2 = CASE old.type # "auth" /\ new.type = "auth" ->
                               D!AddColumns(db1, i, [c \in D!_AUTH_SYSTEM_COLUMN_DEFINITIONS |-> "system"])
                         [] old.type = "auth" /\ new.type # "auth" ->
                               D!DropColumns(db1, i, D!_AUTH_SYSTEM_COLUMN_DEFINITIONS)
                         [] OTHER -> db1
  OBVIOUS
<1>6. PICK db3 : db3 = D!DropColumns(db2, i, D!NamesOf(old, before \ after))
  OBVIOUS
<1>7. PICK db4 : db4 = D!AddFields(db3, i, new, after \ before)
  OBVIOUS
<1>8. PICK db5 : db5 = D!RenameColumns(db4, i, from, into)
  OBVIOUS
<1>9. PICK db6 : db6 = D!DropColumns(db5, i, D!NamesOf(new, retyped))
  OBVIOUS
<1>10. to = D!AddFields(db6, i, new, retyped)
  BY <1>1, <1>2, <1>3, <1>4, <1>5, <1>6, <1>7, <1>8, <1>9 DEF D!Alter
<1>11. PICK N, T, V :
          /\ N = [f \in before \cup after |-> IF f \in before THEN old.schema[f].name ELSE new.schema[f].name]
          /\ T = [f \in before \cup after |-> IF f \in before THEN old.schema[f].type ELSE new.schema[f].type]
          /\ V = [f \in before \cup after |-> IF f \in filled THEN f ELSE Nobody]
  OBVIOUS
<1>12. /\ \A f \in before : /\ NamesIn(old)[f] = N[f] /\ TypesIn(old)[f] = T[f] /\ Values(old, filled)[f] = V[f]
                            /\ N[f] = old.schema[f].name /\ T[f] = old.schema[f].type
       /\ \A f \in after \ before : /\ N[f] = new.schema[f].name /\ T[f] = new.schema[f].type
                                    /\ f \notin filled /\ V[f] = Nobody
  BY <1>1, <1>11 DEF NamesIn, TypesIn, Values
<1>13. PICK sys, sys2 : sys = D!SystemColumns(old) /\ sys2 = D!SystemColumns(new)
  OBVIOUS
<1>14. HasColumns(db.rel[i].cols, sys, before, N, T, V)
  <2>1. PICK N1, T1, V1 : N1 = NamesIn(old) /\ T1 = TypesIn(old) /\ V1 = Values(old, filled)
    OBVIOUS
  <2>2. HasColumns(db.rel[i].cols, sys, before, N1, T1, V1)
    BY <1>1, <1>13, <2>1 DEF Describes
  <2>3. \A f \in before : N[f] = N1[f] /\ T[f] = T1[f] /\ V[f] = V1[f]
    BY <1>12, <2>1
  <2> QED BY <2>2, <2>3, SameColumns
<1>15. Alters(db, db1, i) /\ db1.rel[i].cols = db.rel[i].cols
  BY <1>4, NameAlters, AltersNot
<1>16. IsDb(db1) /\ HasTable(db1, i)
  BY <1>15 DEF Alters
<1>17. HasColumns(db1.rel[i].cols, D!SystemColumns(old), before, N, T, V)
  BY <1>13, <1>14, <1>15
<1>18. Alters(db1, db2, i) /\ (db2.ok => HasColumns(db2.rel[i].cols, sys2, before, N, T, V))
  BY <1>5, <1>13, <1>16, <1>17, TypeAltered
<1>19. IsDb(db2) /\ HasTable(db2, i)
  BY <1>18 DEF Alters
<1>20. Alters(db2, db3, i) /\ db3.ok = db2.ok
  <2>1. PICK names : names = D!NamesOf(old, before \ after)
    OBVIOUS
  <2>2. db3 = D!DropColumns(db2, i, names)
    BY <1>6, <2>1
  <2> QED BY <1>19, <2>2, DropAlters
<1>21. IsDb(db3) /\ HasTable(db3, i)
  BY <1>20 DEF Alters
<1>22. Alters(db3, db4, i)
  BY <1>7, <1>21, FieldsAlter
<1>23. IsDb(db4) /\ HasTable(db4, i)
  BY <1>22 DEF Alters
<1>24. Alters(db4, db5, i)
  BY <1>8, <1>23, RenameAlters
<1>25. IsDb(db5) /\ HasTable(db5, i)
  BY <1>24 DEF Alters
<1>26. Alters(db5, db6, i) /\ db6.ok = db5.ok
  <2>1. PICK names : names = D!NamesOf(new, retyped)
    OBVIOUS
  <2>2. db6 = D!DropColumns(db5, i, names)
    BY <1>9, <2>1
  <2> QED BY <1>25, <2>2, DropAlters
<1>27. IsDb(db6) /\ HasTable(db6, i)
  BY <1>26 DEF Alters
<1>28. Alters(db6, to, i)
  BY <1>10, <1>27, FieldsAlter
<1>29. Alters(db, to, i)
  <2>1. Alters(db, db2, i)
    BY <1>15, <1>18, AltersBoth
  <2>2. Alters(db, db3, i)
    BY <1>20, <2>1, AltersBoth
  <2>3. Alters(db, db4, i)
    BY <1>22, <2>2, AltersBoth
  <2>4. Alters(db, db5, i)
    BY <1>24, <2>3, AltersBoth
  <2>5. Alters(db, db6, i)
    BY <1>26, <2>4, AltersBoth
  <2> QED BY <1>28, <2>5, AltersBoth
<1>30. ASSUME to.ok PROVE Describes(new, Kept(filled, old, new), to.rel[i].cols)
  <2>1. db6.ok /\ db5.ok
    BY <1>26, <1>28, <1>30 DEF Alters
  <2>2. db4.ok
    BY <1>24, <2>1 DEF Alters
  <2>3. db3.ok /\ db2.ok
    BY <1>20, <1>22, <2>2 DEF Alters
  <2>4. HasColumns(db2.rel[i].cols, sys2, before, N, T, V)
    BY <1>18, <2>3
  <2>5. PICK gone : gone = before \ after
    OBVIOUS
  <2>6. gone \subseteq before /\ (\A f \in gone : N[f] = old.schema[f].name) /\ before \ gone = kept
    BY <1>2, <1>12, <2>5
  <2>7. db3 = D!DropColumns(db2, i, D!NamesOf(old, gone))
    BY <1>6, <2>5
  <2>8. HasColumns(db3.rel[i].cols, sys2, before \ gone, N, T, V)
    BY <1>19, <2>4, <2>6, <2>7, FieldsGo
  <2>9. PICK added : added = after \ before
    OBVIOUS
  <2>10. /\ kept \cap added = {} /\ kept \cup added = after
         /\ \A f \in added : N[f] = new.schema[f].name /\ T[f] = new.schema[f].type /\ V[f] = Nobody
    BY <1>2, <1>12, <2>9
  <2>11. HasColumns(db3.rel[i].cols, sys2, kept, N, T, V)
    BY <2>6, <2>8
  <2>a. NewFields(added, new, kept, N, T, V)
    BY <2>10 DEF NewFields
  <2>12. db4 = D!AddFields(db3, i, new, added)
    BY <1>7, <2>9
  <2>13. HasColumns(db4.rel[i].cols, sys2, kept \cup added, N, T, V)
    BY <1>21, <2>2, <2>a, <2>11, <2>12, FieldsCome
  <2>14. HasColumns(db4.rel[i].cols, sys2, after, N, T, V)
    BY <2>10, <2>13
  <2>15. PICK N2 : N2 = NamesIn(new)
    OBVIOUS
  <2>16. /\ kept \subseteq Nat /\ kept \subseteq after /\ DOMAIN from = kept
         /\ \A f \in kept : from[f] = N[f] /\ N2[f] = into[f]
         /\ \A f \in after \ kept : N2[f] = N[f]
         /\ \A f \in after : N2[f] = new.schema[f].name
    BY <1>1, <1>2, <1>3, <1>12, <2>15 DEF NamesIn
  <2>b. Renames(from, into, after, N, N2)
    BY <2>16 DEF Renames
  <2>17. HasColumns(db5.rel[i].cols, sys2, after, N2, T, V)
    BY <1>8, <1>23, <2>1, <2>14, <2>b, FieldsMove
  <2>18. retyped \subseteq after /\ \A f \in retyped : N2[f] = new.schema[f].name
    BY <1>2, <2>16
  <2>19. HasColumns(db6.rel[i].cols, sys2, after \ retyped, N2, T, V)
    BY <1>9, <1>25, <2>17, <2>18, FieldsGo
  <2>20. PICK T2, V2 : T2 = TypesIn(new) /\ V2 = Values(new, Kept(filled, old, new))
    OBVIOUS
  <2>21. \A f \in after : T2[f] = new.schema[f].type /\ V2[f] = IF f \in Kept(filled, old, new) THEN f ELSE Nobody
    BY <1>1, <2>20 DEF TypesIn, Values
  <2>22. \A f \in retyped : T2[f] = new.schema[f].type /\ V2[f] = Nobody
    BY <1>2, <2>18, <2>21 DEF Kept
  <2>23. ASSUME NEW f \in after \ retyped PROVE T2[f] = T[f] /\ V2[f] = V[f]
    <3>1. CASE f \in before
      <4>1. old.schema[f].type = new.schema[f].type /\ T[f] = old.schema[f].type
        BY <1>2, <1>12, <2>23, <3>1
      <4>2. f \in Kept(filled, old, new) <=> f \in filled
        BY <1>1, <2>23, <4>1 DEF Kept
      <4>3. V[f] = IF f \in filled THEN f ELSE Nobody
        BY <1>11, <3>1
      <4> QED BY <2>21, <2>23, <4>1, <4>2, <4>3
    <3>2. CASE f \notin before
      <4>1. T[f] = new.schema[f].type /\ V[f] = Nobody /\ f \notin filled
        BY <1>12, <2>23, <3>2
      <4> QED BY <2>21, <2>23, <4>1 DEF Kept
    <3> QED BY <3>1, <3>2
  <2>24. HasColumns(db6.rel[i].cols, sys2, after \ retyped, N2, T2, V2)
    BY <2>19, <2>23, SameColumns
  <2>25. (after \ retyped) \cap retyped = {} /\ (after \ retyped) \cup retyped = after
    BY <2>18
  <2>c. NewFields(retyped, new, after \ retyped, N2, T2, V2)
    BY <2>18, <2>22, <2>25 DEF NewFields
  <2>26. HasColumns(to.rel[i].cols, sys2, (after \ retyped) \cup retyped, N2, T2, V2)
    BY <1>10, <1>27, <1>30, <2>24, <2>c, FieldsCome
  <2>27. HasColumns(to.rel[i].cols, sys2, after, N2, T2, V2)
    BY <2>25, <2>26
  <2> QED BY <1>1, <1>13, <2>15, <2>20, <2>27 DEF Describes
<1> QED BY <1>29, <1>30

\* The indexes of collection i are those of the statements.
OwnIndexes(idx, i, statements) ==
    /\ \A n \in DOMAIN idx : idx[n].owner = i => n \in DOMAIN statements
    /\ \A n \in DOMAIN statements :
          /\ n \in DOMAIN idx
          /\ idx[n] = [owner |-> i, column |-> statements[n].column, method |-> statements[n].method]

\* Every index of collection i has a statement.
Wanted(idx, i, statements) == \A n \in DOMAIN idx : idx[n].owner = i => n \in DOMAIN statements

\* Statements about indexes.
Reindexes(db, to, i) ==
    /\ IsDb(to) /\ to.rel = db.rel /\ SameElsewhere(db, to, i)
    /\ to.ok => db.ok

\* A database that failed.
LEMMA FailedDb ==
    ASSUME NEW db, IsDb(db)
    PROVE  IsDb(D!Failed(db)) /\ ~D!Failed(db).ok
<1>1. PICK r, x, k, no : r = db.rel /\ x = db.idx /\ k = db.ok /\ no = FALSE
  OBVIOUS
<1>2. db = [rel |-> r, idx |-> x, ok |-> k]
  BY <1>1 DEF IsDb
<1>3. [db EXCEPT !.ok = no] = [rel |-> r, idx |-> x, ok |-> no]
  BY <1>2
<1>4. PICK t : t = D!Failed(db)
  OBVIOUS
<1>5. t = [rel |-> r, idx |-> x, ok |-> no]
  BY <1>1, <1>3, <1>4 DEF D!Failed
<1>6. t.rel = r /\ t.idx = x /\ t.ok = no /\ t = [rel |-> t.rel, idx |-> t.idx, ok |-> t.ok]
  BY <1>5, DbFields
<1> QED BY <1>1, <1>4, <1>6 DEF IsDb

\* CREATE INDEX, unless it is there.
LEMMA IndexesCome ==
    ASSUME NEW db, NEW i \in Collections, IsDb(db), NEW statements, NEW to,
           to = D!CreateIndexes(db, i, statements), to.ok, Wanted(db.idx, i, statements)
    PROVE  Reindexes(db, to, i) /\ OwnIndexes(to.idx, i, statements)
<1>1. PICK r, x, k : r = db.rel /\ x = db.idx /\ k = db.ok
  OBVIOUS
<1>2. db = [rel |-> r, idx |-> x, ok |-> k]
  BY <1>1 DEF IsDb
<1>3. ~D!Failed(db).ok
  BY FailedDb
<1>4. k /\ ~\E n \in DOMAIN statements : ~D!_create_index_if_owned(db, i, n, statements[n])
  BY <1>1, <1>3 DEF D!CreateIndexes
<1>5. PICK new : new = [n \in DOMAIN statements |->
              [owner |-> i, column |-> statements[n].column, method |-> statements[n].method]]
  OBVIOUS
<1>6. PICK y : y = D!Merged(new, x)
  OBVIOUS
<1>7. to = [db EXCEPT !.idx = y]
  <2>1. to = [db EXCEPT !.idx = D!Merged([n \in DOMAIN statements |->
              [owner |-> i, column |-> statements[n].column, method |-> statements[n].method]], @)]
    BY <1>1, <1>4 DEF D!CreateIndexes
  <2>2. to = [db EXCEPT !.idx = D!Merged(new, @)]
    BY <1>5, <2>1
  <2> QED BY <1>1, <1>6, <2>2
<1>8. to = [rel |-> r, idx |-> y, ok |-> k]
  BY <1>2, <1>7
<1>9. to.rel = r /\ to.idx = y /\ to.ok = k /\ to = [rel |-> to.rel, idx |-> to.idx, ok |-> to.ok]
  BY <1>8, DbFields
<1>10. /\ DOMAIN y = DOMAIN statements \cup DOMAIN x
       /\ \A n \in DOMAIN statements :
             y[n] = [owner |-> i, column |-> statements[n].column, method |-> statements[n].method]
       /\ \A n \in DOMAIN x \ DOMAIN statements : y[n] = x[n]
  BY <1>5, <1>6 DEF D!Merged
<1>11. \A n \in DOMAIN statements : n \in DOMAIN x => x[n] = y[n]
  BY <1>1, <1>4, <1>10 DEF D!_create_index_if_owned
<1>12. \A n \in DOMAIN x : y[n] = x[n]
  BY <1>10, <1>11
<1>13. \A n \in DOMAIN y : y[n].owner # i => n \in DOMAIN x /\ y[n] = x[n]
  BY <1>10
<1>14. SameElsewhere(db, to, i)
  BY <1>1, <1>9, <1>10, <1>12, <1>13 DEF SameElsewhere
<1>15. \A n \in DOMAIN y : y[n] = [owner |-> y[n].owner, column |-> y[n].column, method |-> y[n].method]
  <2>1. \A n \in DOMAIN x : x[n] = [owner |-> x[n].owner, column |-> x[n].column, method |-> x[n].method]
    BY <1>1 DEF IsDb
  <2> QED BY <1>10, <2>1
<1>16. IsDb(to)
  BY <1>1, <1>9, <1>15 DEF IsDb
<1>17. OwnIndexes(to.idx, i, statements)
  BY <1>1, <1>9, <1>10 DEF OwnIndexes, Wanted
<1> QED BY <1>1, <1>9, <1>4, <1>14, <1>16, <1>17 DEF Reindexes

\* DROP INDEX IF EXISTS, of indexes of the collection.
LEMMA IndexesGo ==
    ASSUME NEW db, NEW i \in Collections, IsDb(db), NEW names, NEW to,
           to = D!DropIndexes(db, i, names), to.ok
    PROVE  /\ Reindexes(db, to, i)
           /\ \A n \in DOMAIN to.idx : n \in DOMAIN db.idx /\ n \notin names /\ to.idx[n] = db.idx[n]
<1>1. PICK r, x, k : r = db.rel /\ x = db.idx /\ k = db.ok
  OBVIOUS
<1>2. db = [rel |-> r, idx |-> x, ok |-> k]
  BY <1>1 DEF IsDb
<1>3. ~D!Failed(db).ok
  BY FailedDb
<1>4. \A n \in names : D!_drop_index_if_owned(db, i, n)
  BY <1>3 DEF D!DropIndexes
<1>5. PICK y : y = D!Without(x, names)
  OBVIOUS
<1>6. to = [db EXCEPT !.idx = y]
  BY <1>1, <1>4, <1>5 DEF D!DropIndexes
<1>7. to = [rel |-> r, idx |-> y, ok |-> k]
  BY <1>2, <1>6
<1>8. to.rel = r /\ to.idx = y /\ to.ok = k /\ to = [rel |-> to.rel, idx |-> to.idx, ok |-> to.ok]
  BY <1>7, DbFields
<1>9. DOMAIN y = DOMAIN x \ names /\ \A n \in DOMAIN y : y[n] = x[n]
  BY <1>5 DEF D!Without
<1>10. \A n \in DOMAIN x : x[n].owner # i => n \notin names
  BY <1>1, <1>4 DEF D!_drop_index_if_owned
<1>11. SameElsewhere(db, to, i)
  BY <1>1, <1>8, <1>9, <1>10 DEF SameElsewhere
<1>12. IsDb(to)
  BY <1>1, <1>8, <1>9 DEF IsDb
<1> QED BY <1>1, <1>8, <1>9, <1>11, <1>12 DEF Reindexes

\* A database after DROP INDEX, whether or not it failed.
LEMMA DropShape ==
    ASSUME NEW db, NEW i \in Collections, IsDb(db), NEW names, NEW to,
           to = D!DropIndexes(db, i, names)
    PROVE  IsDb(to)
<1>1. CASE \A n \in names : D!_drop_index_if_owned(db, i, n)
  <2>1. PICK r, x, k : r = db.rel /\ x = db.idx /\ k = db.ok
    OBVIOUS
  <2>2. db = [rel |-> r, idx |-> x, ok |-> k]
    BY <2>1 DEF IsDb
  <2>3. PICK y : y = D!Without(x, names)
    OBVIOUS
  <2>4. to = [db EXCEPT !.idx = y]
    BY <1>1, <2>1, <2>3 DEF D!DropIndexes
  <2>5. to = [rel |-> r, idx |-> y, ok |-> k]
    BY <2>2, <2>4
  <2>6. to.rel = r /\ to.idx = y /\ to = [rel |-> to.rel, idx |-> to.idx, ok |-> to.ok]
    BY <2>5, DbFields
  <2>7. DOMAIN y \subseteq DOMAIN x /\ \A n \in DOMAIN y : y[n] = x[n]
    BY <2>3 DEF D!Without
  <2> QED BY <2>1, <2>6, <2>7 DEF IsDb
<1>2. CASE ~\A n \in names : D!_drop_index_if_owned(db, i, n)
  BY <1>2, FailedDb DEF D!DropIndexes
<1> QED BY <1>1, <1>2

\* Every index that the old statements made and the new ones do not is dropped,
\* and every index that the new ones name is made again.
LEMMA IndexesSynced ==
    ASSUME NEW db, NEW i \in Collections, IsDb(db), NEW old, NEW new, NEW to,
           to = D!_sync_collection_indexes(db, i, old, new), to.ok,
           Wanted(db.idx, i, D!expected_collection_index_statements(old))
    PROVE  /\ Reindexes(db, to, i)
           /\ OwnIndexes(to.idx, i, D!expected_collection_index_statements(new))
<1>1. ~D!Failed(db).ok
  BY FailedDb
<1>2. PICK M, M2 : M = D!_managed_indexes(old) /\ M2 = D!_managed_indexes(new)
  OBVIOUS
<1>3. PICK names : names = D!Obsolete(M, M2) \cup D!Obsolete(old.indexes, new.indexes)
  OBVIOUS
<1>4. PICK statements : statements = D!expected_collection_index_statements(new)
  OBVIOUS
<1>5. PICK mid : mid = D!DropIndexes(db, i, names)
  OBVIOUS
<1>6. to = D!CreateIndexes(mid, i, statements)
  BY <1>1, <1>2, <1>3, <1>4, <1>5 DEF D!_sync_collection_indexes
<1>7. IsDb(mid)
  BY <1>5, DropShape
<1>8. mid.ok
  BY <1>6, <1>7, FailedDb DEF D!CreateIndexes
<1>9. /\ Reindexes(db, mid, i)
      /\ \A n \in DOMAIN mid.idx : n \in DOMAIN db.idx /\ n \notin names /\ mid.idx[n] = db.idx[n]
  BY <1>5, <1>8, IndexesGo
<1>10. DOMAIN statements = DOMAIN new.indexes \cup DOMAIN M2
  BY <1>2, <1>4 DEF D!expected_collection_index_statements, D!Merged
<1>11. DOMAIN D!expected_collection_index_statements(old) = DOMAIN old.indexes \cup DOMAIN M
  BY <1>2 DEF D!expected_collection_index_statements, D!Merged
<1>12. Wanted(mid.idx, i, statements)
  <2>1. SUFFICES ASSUME NEW n \in DOMAIN mid.idx,
  mid.idx[n].owner = i PROVE n \in DOMAIN statements
    BY DEF Wanted
  <2>2. n \in DOMAIN db.idx /\ db.idx[n].owner = i /\ n \notin names
    BY <1>9, <2>1
  <2>3. n \in DOMAIN old.indexes \cup DOMAIN M
    BY <1>11, <2>2 DEF Wanted
  <2> QED BY <1>3, <1>10, <2>2, <2>3 DEF D!Obsolete
<1>13. Reindexes(mid, to, i) /\ OwnIndexes(to.idx, i, statements)
  BY <1>6, <1>7, <1>12, IndexesCome
<1>14. Reindexes(db, to, i)
  BY <1>9, <1>13 DEF Reindexes, SameElsewhere
<1> QED BY <1>4, <1>13, <1>14

\* The view of a definition.
HasView(rel, d) ==
    /\ rel = [name |-> rel.name, kind |-> "view", cols |-> rel.cols, on |-> rel.on, wide |-> rel.wide]
    /\ rel.wide = d.query.wide

\* Collection i is what its definition says: its relation, its columns with the
\* values of the fields that were filled, and its indexes.
IsCanonical(i, d, filled, db) ==
    /\ d = Nobody => filled = {} /\ \A n \in DOMAIN db.idx : db.idx[n].owner # i
    /\ d # Nobody => d \in Definitions[i]
    /\ d # Nobody /\ d.type = "view" => HasView(db.rel[i], d)
    /\ d # Nobody /\ d.type # "view" =>
          /\ HasTable(db, i) /\ filled \subseteq DOMAIN d.schema
          /\ Describes(d, filled, db.rel[i].cols)
          /\ OwnIndexes(db.idx, i, D!expected_collection_index_statements(d))

SchemaInv ==
    /\ collections = [i \in Collections |-> collections[i]]
    /\ content = [i \in Collections |-> content[i]]
    /\ IsDb(D!Database)
    /\ \A i \in Collections : IsCanonical(i, collections[i], content[i], D!Database)

\* A statement for another collection.
LEMMA StaysCanonical ==
    ASSUME NEW i, NEW j \in Collections, i # j, NEW d, NEW filled, NEW db, NEW to,
           IsCanonical(j, d, filled, db), SameElsewhere(db, to, i)
    PROVE  IsCanonical(j, d, filled, to)
<1>1. to.rel[j] = db.rel[j]
  BY DEF SameElsewhere
<1>2. \A n \in DOMAIN to.idx : to.idx[n].owner = j => n \in DOMAIN db.idx /\ to.idx[n] = db.idx[n]
  BY DEF SameElsewhere
<1>3. \A n \in DOMAIN db.idx : db.idx[n].owner = j => n \in DOMAIN to.idx /\ to.idx[n] = db.idx[n]
  BY DEF SameElsewhere
<1>4. PICK statements : statements = D!expected_collection_index_statements(d)
  OBVIOUS
<1>5. OwnIndexes(db.idx, j, statements) => OwnIndexes(to.idx, j, statements)
  BY <1>2, <1>3 DEF OwnIndexes
<1>6. d = Nobody => \A n \in DOMAIN to.idx : to.idx[n].owner # j
  BY <1>2 DEF IsCanonical
<1>7. HasTable(db, j) => HasTable(to, j)
  BY <1>1 DEF HasTable
<1> QED BY <1>1, <1>4, <1>5, <1>6, <1>7 DEF IsCanonical

\* The columns of a new table.
LEMMA NewTable ==
    ASSUME NEW d, D!FieldNames(d) \cap D!SystemColumns(d) = {}, D!Distinct(d, DOMAIN d.schema),
           NEW system, system = [c \in D!SystemColumns(d) |-> D!_col_ddl("system")],
           NEW types, types = D!TypesOf(d, DOMAIN d.schema),
           NEW cols, cols = D!Merged(system, [c \in DOMAIN types |-> D!_col_ddl(types[c])])
    PROVE  Describes(d, {}, cols)
<1>1. PICK sys, F, N, T, V : /\ sys = D!SystemColumns(d) /\ F = DOMAIN d.schema
                             /\ N = NamesIn(d) /\ T = TypesIn(d) /\ V = Values(d, {})
  OBVIOUS
<1>2. \A f \in F : N[f] = d.schema[f].name /\ T[f] = d.schema[f].type /\ V[f] = Nobody
  BY <1>1 DEF NamesIn, TypesIn, Values
<1>3. D!FieldNames(d) = Named(N, F)
  BY <1>1, <1>2 DEF D!FieldNames, D!NamesOf, Named
<1>4. DOMAIN types = Named(N, F)
  BY <1>1, <1>2 DEF D!TypesOf, D!NamesOf, Named
<1>5. \A f, g \in F : N[f] = N[g] => f = g
  BY <1>1, <1>2 DEF D!Distinct
<1>6. ASSUME NEW f \in F PROVE types[N[f]] = T[f] /\ N[f] \in Named(N, F)
  <2>1. PICK g : g = CHOOSE h \in F : d.schema[h].name = N[f]
    OBVIOUS
  <2>2. g \in F /\ d.schema[g].name = N[f]
    BY <1>2, <2>1
  <2>3. g = f
    BY <1>2, <1>5, <2>2
  <2>4. N[f] \in Named(N, F)
    BY DEF Named
  <2>5. types[N[f]] = d.schema[g].type
    BY <1>1, <1>4, <2>1, <2>4 DEF D!TypesOf, D!NamesOf
  <2> QED BY <1>2, <2>3, <2>4, <2>5
<1>7. PICK own : own = [c \in DOMAIN types |-> D!_col_ddl(types[c])]
  OBVIOUS
<1>8. /\ DOMAIN cols = sys \cup Named(N, F)
      /\ \A c \in sys : cols[c] = D!_col_ddl("system")
      /\ \A c \in Named(N, F) \ sys : cols[c] = D!_col_ddl(types[c])
  BY <1>1, <1>4, <1>7 DEF D!Merged
<1>9. \A f \in F : N[f] \notin sys /\ cols[N[f]] = [type |-> T[f], data |-> V[f]]
  BY <1>1, <1>2, <1>3, <1>6, <1>8 DEF D!_col_ddl
<1>10. HasColumns(cols, sys, F, N, T, V)
  BY <1>5, <1>8, <1>9 DEF HasColumns
<1> QED BY <1>1, <1>10 DEF Describes

\* CREATE TABLE and its indexes.
LEMMA TableCreated ==
    ASSUME NEW db, NEW i \in Collections, NEW d \in Definitions[i], IsDb(db), d.type # "view",
           NEW to, to = D!create_collection_table(db, i, d), to.ok,
           \A n \in DOMAIN db.idx : db.idx[n].owner # i
    PROVE  IsDb(to) /\ SameElsewhere(db, to, i) /\ IsCanonical(i, d, {}, to)
<1>1. ~D!Failed(db).ok
  BY FailedDb
<1>2. /\ db.ok /\ D!FieldNames(d) \cap D!SystemColumns(d) = {} /\ D!Distinct(d, DOMAIN d.schema)
      /\ ~(\/ ~db.ok \/ D!Taken(db, d.name) \/ ~D!_validate_managed_custom_index_names(d)
            \/ D!FieldNames(d) \cap D!SystemColumns(d) # {}
            \/ ~D!Distinct(d, DOMAIN d.schema))
  BY <1>1 DEF D!create_collection_table
<1>3. PICK system, types : /\ system = [c \in D!SystemColumns(d) |-> D!_col_ddl("system")]
                           /\ types = D!TypesOf(d, DOMAIN d.schema)
  OBVIOUS
<1>4. PICK cols : cols = D!Merged(system, [c \in DOMAIN types |-> D!_col_ddl(types[c])])
  OBVIOUS
<1>5. PICK table, name : name = d.name /\ table = [name |-> name, kind |-> "table", cols |-> cols]
  OBVIOUS
<1>6. PICK mid : mid = [db EXCEPT !.rel[i] = table]
  OBVIOUS
<1>7. PICK statements : statements = D!expected_collection_index_statements(d)
  OBVIOUS
<1>8. to = D!CreateIndexes(mid, i, statements)
  BY <1>2, <1>3, <1>4, <1>5, <1>6, <1>7 DEF D!create_collection_table
<1>9. PICK r, x, k, q : r = db.rel /\ x = db.idx /\ k = db.ok /\ q = [r EXCEPT ![i] = table]
  OBVIOUS
<1>10. db = [rel |-> r, idx |-> x, ok |-> k] /\ r = [j \in Collections |-> r[j]]
  BY <1>9 DEF IsDb
<1>11. mid = [rel |-> q, idx |-> x, ok |-> k]
  BY <1>6, <1>9, <1>10
<1>12. mid.rel = q /\ mid.idx = x /\ mid.ok = k /\ mid = [rel |-> mid.rel, idx |-> mid.idx, ok |-> mid.ok]
  BY <1>11, DbFields
<1>13. q = [j \in Collections |-> q[j]] /\ q[i] = table /\ \A j \in Collections \ {i} : q[j] = r[j]
  BY <1>9, <1>10
<1>14. IsDb(mid)
  BY <1>9, <1>12, <1>13 DEF IsDb
<1>15. SameElsewhere(db, mid, i)
  BY <1>9, <1>12, <1>13 DEF SameElsewhere
<1>16. Wanted(mid.idx, i, statements)
  BY <1>9, <1>12 DEF Wanted
<1>17. Reindexes(mid, to, i) /\ OwnIndexes(to.idx, i, statements)
  BY <1>8, <1>14, <1>16, IndexesCome
<1>18. to.rel[i] = table /\ IsDb(to) /\ SameElsewhere(db, to, i)
  BY <1>12, <1>13, <1>15, <1>17 DEF Reindexes, SameElsewhere
<1>19. HasTable(to, i) /\ to.rel[i].cols = cols
  BY <1>5, <1>18 DEF HasTable
<1>20. Describes(d, {}, cols)
  BY <1>2, <1>3, <1>4, NewTable
<1> QED BY <1>7, <1>17, <1>18, <1>19, <1>20, DefinitionsAssumption DEF IsCanonical

\* A view is put in place of what collection i has.
LEMMA ViewPut ==
    ASSUME NEW db, NEW i \in Collections, NEW d \in Definitions[i], IsDb(db), d.type = "view",
           NEW to, NEW view, HasView(view, d), to = [db EXCEPT !.rel[i] = view], NEW filled
    PROVE  IsDb(to) /\ SameElsewhere(db, to, i) /\ IsCanonical(i, d, filled, to)
<1>1. PICK r, x, k, q : r = db.rel /\ x = db.idx /\ k = db.ok /\ q = [r EXCEPT ![i] = view]
  OBVIOUS
<1>2. db = [rel |-> r, idx |-> x, ok |-> k] /\ r = [j \in Collections |-> r[j]]
  BY <1>1 DEF IsDb
<1>3. to = [rel |-> q, idx |-> x, ok |-> k]
  BY <1>1, <1>2
<1>4. to.rel = q /\ to.idx = x /\ to.ok = k /\ to = [rel |-> to.rel, idx |-> to.idx, ok |-> to.ok]
  BY ONLY <1>3, DbFields
<1>5. q = [j \in Collections |-> q[j]] /\ q[i] = view /\ \A j \in Collections \ {i} : q[j] = r[j]
  BY <1>1, <1>2
<1>6. IsDb(to)
  BY <1>1, <1>4, <1>5 DEF IsDb
<1>7. SameElsewhere(db, to, i)
  BY <1>1, <1>4, <1>5 DEF SameElsewhere
<1>8. HasView(to.rel[i], d) /\ d # Nobody
  BY <1>4, <1>5, DefinitionsAssumption
<1> QED BY <1>6, <1>7, <1>8 DEF IsCanonical

\* What a view is.
LEMMA ViewMade ==
    ASSUME NEW d, NEW sources
    PROVE  HasView(D!View(d, sources), d)
<1>1. PICK name, wide, on, none :
         name = d.name /\ wide = d.query.wide /\ on = (CHOOSE j \in sources : TRUE) /\ none = <<>>
  OBVIOUS
<1>2. D!View(d, sources) = [name |-> name, kind |-> "view", cols |-> none, on |-> on, wide |-> wide]
  BY <1>1 DEF D!View
<1>3. PICK view : view = D!View(d, sources)
  OBVIOUS
<1>4. view = [name |-> view.name, kind |-> "view", cols |-> view.cols, on |-> view.on, wide |-> view.wide]
  BY <1>2, <1>3
<1>5. view.wide = d.query.wide
  BY <1>1, <1>2, <1>3
<1> QED BY <1>3, <1>4, <1>5 DEF HasView

\* CREATE VIEW.
LEMMA ViewCreated ==
    ASSUME NEW db, NEW i \in Collections, NEW d \in Definitions[i], IsDb(db), d.type = "view",
           NEW to, to = D!create_collection_table(db, i, d), to.ok, NEW filled
    PROVE  IsDb(to) /\ SameElsewhere(db, to, i) /\ IsCanonical(i, d, filled, to)
<1>1. ~D!Failed(db).ok
  BY FailedDb
<1>2. PICK on : on = {j \in Collections : db.rel[j] # Nobody /\ db.rel[j].name = d.query.from}
  OBVIOUS
<1>3. to = D!CreateView(db, i, d)
  BY DEF D!create_collection_table
<1>4. ~(~db.ok \/ D!Taken(db, d.name) \/ on = {})
  BY <1>1, <1>2, <1>3 DEF D!CreateView
<1>5. to = [db EXCEPT !.rel[i] = D!View(d, on)]
  BY <1>2, <1>3, <1>4 DEF D!CreateView
<1>6. HasView(D!View(d, on), d)
  BY ViewMade
<1> QED BY <1>5, <1>6, ViewPut

\* DROP TABLE or DROP VIEW takes the indexes along.
LEMMA ObjectDropped ==
    ASSUME NEW db, NEW i \in Collections, IsDb(db), NEW to, to = D!_drop_collection_object(db, i)
    PROVE  /\ IsDb(to) /\ (to.ok => db.ok)
           /\ to.ok => SameElsewhere(db, to, i) /\ \A n \in DOMAIN to.idx : to.idx[n].owner # i
<1>1. CASE D!_dependent_view_names(db, i) # {}
  BY <1>1, FailedDb DEF D!_drop_collection_object
<1>2. CASE D!_dependent_view_names(db, i) = {}
  <2>1. PICK r, x, k, q, y : /\ r = db.rel /\ x = db.idx /\ k = db.ok /\ q = [r EXCEPT ![i] = Nobody]
                             /\ y = D!Without(x, {n \in DOMAIN x : x[n].owner = i})
    OBVIOUS
  <2>2. db = [rel |-> r, idx |-> x, ok |-> k] /\ r = [j \in Collections |-> r[j]]
    BY <2>1 DEF IsDb
  <2>4. to = [rel |-> q, idx |-> y, ok |-> k]
    BY <1>2, <2>1 DEF D!_drop_collection_object
  <2>5. to.rel = q /\ to.idx = y /\ to.ok = k /\ to = [rel |-> to.rel, idx |-> to.idx, ok |-> to.ok]
    BY <2>4, DbFields
  <2>6. q = [j \in Collections |-> q[j]] /\ \A j \in Collections \ {i} : q[j] = r[j]
    BY <2>1, <2>2
  <2>7. /\ DOMAIN y \subseteq DOMAIN x /\ \A n \in DOMAIN y : y[n] = x[n] /\ x[n].owner # i
        /\ \A n \in DOMAIN x : x[n].owner # i => n \in DOMAIN y
    BY <2>1 DEF D!Without
  <2>8. IsDb(to)
    BY <2>1, <2>5, <2>6, <2>7 DEF IsDb
  <2>9. SameElsewhere(db, to, i)
    BY <2>1, <2>5, <2>6, <2>7 DEF SameElsewhere
  <2> QED BY <2>1, <2>5, <2>7, <2>8, <2>9
<1> QED BY <1>1, <1>2

\* A database that failed does not get a table or view.
LEMMA CreatedIfOk ==
    ASSUME NEW db, NEW i \in Collections, NEW d, IsDb(db), D!create_collection_table(db, i, d).ok
    PROVE  db.ok
<1>1. ASSUME ~db.ok PROVE D!create_collection_table(db, i, d) = D!Failed(db)
  BY <1>1 DEF D!create_collection_table, D!CreateView
<1> QED BY <1>1, FailedDb

\* A table or view is dropped and made anew, or a view is replaced.
LEMMA ObjectReplaced ==
    ASSUME NEW db, NEW i \in Collections, NEW old, NEW new \in Definitions[i], IsDb(db),
           old.type = "view" => HasView(db.rel[i], old),
           NEW to, to = D!_replace_collection_object(db, i, old, new), to.ok
    PROVE  IsDb(to) /\ SameElsewhere(db, to, i) /\ IsCanonical(i, new, {}, to)
<1>1. ~D!Failed(db).ok
  BY FailedDb
<1>2. PICK source : source = {j \in Collections \ {i} : db.rel[j] # Nobody /\ db.rel[j].name = new.query.from}
  OBVIOUS
<1>3. ~(new.type = "view" /\ source = {})
  BY <1>1, <1>2 DEF D!_replace_collection_object
<1>4. CASE /\ old.type = "view" /\ new.type = "view" /\ old.name = new.name
           /\ old.query.wide => new.query.wide
  <2>1. to = [db EXCEPT !.rel[i] = D!View(new, source)]
    BY <1>2, <1>3, <1>4 DEF D!_replace_collection_object
  <2>2. HasView(D!View(new, source), new)
    BY ViewMade
  <2> QED BY <1>4, <2>1, <2>2, ViewPut
<1>5. CASE ~(/\ old.type = "view" /\ new.type = "view" /\ old.name = new.name
             /\ old.query.wide => new.query.wide)
  <2>1. PICK mid : mid = D!_drop_collection_object(db, i)
    OBVIOUS
  <2>2. to = D!create_collection_table(mid, i, new)
    BY <1>2, <1>3, <1>5, <2>1 DEF D!_replace_collection_object
  <2>3. IsDb(mid)
    BY <2>1, ObjectDropped
  <2>4. mid.ok
    BY <2>2, <2>3, CreatedIfOk
  <2>5. SameElsewhere(db, mid, i) /\ \A n \in DOMAIN mid.idx : mid.idx[n].owner # i
    BY <2>1, <2>4, ObjectDropped
  <2>6. IsDb(to) /\ SameElsewhere(mid, to, i) /\ IsCanonical(i, new, {}, to)
    <3>1. CASE new.type = "view"
      BY <2>2, <2>3, <3>1, ViewCreated
    <3>2. CASE new.type # "view"
      BY <2>2, <2>3, <2>5, <3>2, TableCreated
    <3> QED BY <3>1, <3>2
  <2>7. SameElsewhere(db, to, i)
    BY <2>5, <2>6 DEF SameElsewhere
  <2> QED BY <2>6, <2>7
<1> QED BY <1>4, <1>5

\* The values that the fields of a collection keep.
StillFilled(filled, old, new) ==
    IF old.type = "view" \/ new.type = "view"
    THEN IF old.type # new.type \/ old.name # new.name \/ old.query # new.query THEN {} ELSE filled
    ELSE Kept(filled, old, new)

\* The table, view and indexes of one definition become those of another.
LEMMA TableUpdated ==
    ASSUME NEW db, NEW i \in Collections, NEW old, NEW new \in Definitions[i], NEW filled,
           IsDb(db),
           old # Nobody, IsCanonical(i, old, filled, db),
           NEW to, to = D!update_collection_table(db, i, old, new), to.ok
    PROVE  /\ IsDb(to) /\ SameElsewhere(db, to, i)
           /\ IsCanonical(i, new, StillFilled(filled, old, new), to)
<1>0. new # Nobody /\ old \in Definitions[i] /\ DOMAIN old.schema \subseteq Nat
  BY DefinitionsAssumption DEF IsCanonical
<1>1. CASE /\ old.type = "view" \/ new.type = "view"
           /\ old.name # new.name \/ old.type # new.type \/ old.query # new.query
  <2>1. to = D!_replace_collection_object(db, i, old, new)
    BY <1>1 DEF D!update_collection_table
  <2>2. old.type = "view" => HasView(db.rel[i], old)
    BY DEF IsCanonical
  <2>3. IsDb(to) /\ SameElsewhere(db, to, i) /\ IsCanonical(i, new, {}, to)
    BY <2>1, <2>2, ObjectReplaced
  <2>4. StillFilled(filled, old, new) = {}
    BY <1>1 DEF StillFilled
  <2> QED BY <2>3, <2>4
<1>2. CASE /\ old.type = "view" \/ new.type = "view"
           /\ ~(old.name # new.name \/ old.type # new.type \/ old.query # new.query)
  <2>1. to = db
    BY <1>2 DEF D!update_collection_table
  <2>2. new.type = "view" /\ HasView(db.rel[i], new)
    BY <1>2 DEF IsCanonical, HasView
  <2>3. IsCanonical(i, new, StillFilled(filled, old, new), db)
    BY <1>0, <2>2 DEF IsCanonical
  <2>4. SameElsewhere(db, db, i)
    BY DEF SameElsewhere
  <2> QED BY <2>1, <2>3, <2>4
<1>3. CASE ~(old.type = "view" \/ new.type = "view")
  <2>1. PICK mid : mid = D!Alter(db, i, old, new)
    OBVIOUS
  <2>2. to = D!_sync_collection_indexes(mid, i, old, new)
    BY <1>3, <2>1 DEF D!update_collection_table
  <2>3. PICK statements, statements2 : /\ statements = D!expected_collection_index_statements(old)
                                       /\ statements2 = D!expected_collection_index_statements(new)
    OBVIOUS
  <2>4. /\ HasTable(db, i) /\ filled \subseteq DOMAIN old.schema
        /\ Describes(old, filled, db.rel[i].cols) /\ OwnIndexes(db.idx, i, statements)
    BY <1>3, <2>3 DEF IsCanonical
  <2>5. /\ Alters(db, mid, i)
        /\ mid.ok => Describes(new, Kept(filled, old, new), mid.rel[i].cols)
    BY <1>0, <2>1, <2>4, AlterDescribes
  <2>6. IsDb(mid) /\ HasTable(mid, i) /\ SameElsewhere(db, mid, i)
    BY <2>5 DEF Alters
  <2>7. Wanted(mid.idx, i, statements)
    BY <2>4, <2>5 DEF Alters, OwnIndexes, Wanted
  <2>8. Reindexes(mid, to, i) /\ OwnIndexes(to.idx, i, statements2)
    BY <2>2, <2>3, <2>6, <2>7, IndexesSynced
  <2>9. mid.ok /\ to.rel = mid.rel /\ IsDb(to) /\ SameElsewhere(mid, to, i)
    BY <2>8 DEF Reindexes
  <2>10. HasTable(to, i) /\ Describes(new, Kept(filled, old, new), to.rel[i].cols)
    BY <2>5, <2>6, <2>9 DEF HasTable
  <2>11. Kept(filled, old, new) \subseteq DOMAIN new.schema
    BY DEF Kept
  <2>12. StillFilled(filled, old, new) = Kept(filled, old, new)
    BY <1>3 DEF StillFilled
  <2>13. IsCanonical(i, new, Kept(filled, old, new), to)
    BY <1>0, <1>3, <2>3, <2>8, <2>10, <2>11 DEF IsCanonical
  <2>14. SameElsewhere(db, to, i)
    BY <2>6, <2>9 DEF SameElsewhere
  <2> QED BY <2>9, <2>12, <2>13, <2>14
<1> QED BY <1>1, <1>2, <1>3

\* The database that SchemaManager's state is.
LEMMA DatabaseIs ==
    /\ D!Database.rel = relations /\ D!Database.idx = indexes /\ D!Database.ok = TRUE
    /\ D!Database = [rel |-> relations, idx |-> indexes, ok |-> TRUE]
BY DEF D!Database

\* What a definition says depends on relations and indexes.
LEMMA SameCanonical ==
    ASSUME NEW j, NEW d, NEW filled, NEW db, NEW to, to.rel = db.rel, to.idx = db.idx,
           IsCanonical(j, d, filled, db)
    PROVE  IsCanonical(j, d, filled, to)
BY DEF IsCanonical, HasTable

\* A change of one collection.
LEMMA SchemaStep ==
    ASSUME SchemaInv, NEW i \in Collections, NEW d, NEW filled, NEW to,
           relations' = to.rel, indexes' = to.idx, IsDb(to), SameElsewhere(D!Database, to, i),
           IsCanonical(i, d, filled, to), collections' = [collections EXCEPT ![i] = d],
           content' = [content EXCEPT ![i] = filled]
    PROVE  SchemaInv'
<1>1. /\ collections' = [j \in Collections |-> collections'[j]]
      /\ content' = [j \in Collections |-> content'[j]]
      /\ collections'[i] = d /\ content'[i] = filled
      /\ \A j \in Collections \ {i} : collections'[j] = collections[j] /\ content'[j] = content[j]
  BY DEF SchemaInv
<1>2. PICK new : new = [rel |-> relations', idx |-> indexes', ok |-> TRUE]
  OBVIOUS
<1>3. new = D!Database'
  BY <1>2 DEF D!Database
<1>4. new.rel = to.rel /\ new.idx = to.idx /\ new = [rel |-> new.rel, idx |-> new.idx, ok |-> new.ok]
  BY <1>2
<1>5. IsDb(new)
  BY <1>4 DEF IsDb
<1>6. ASSUME NEW j \in Collections PROVE IsCanonical(j, collections'[j], content'[j], new)
  <2>1. CASE j = i
    BY <1>1, <1>4, <2>1, SameCanonical
  <2>2. CASE j # i
    <3>1. IsCanonical(j, collections[j], content[j], D!Database)
      BY DEF SchemaInv
    <3>2. PICK db : db = D!Database
      OBVIOUS
    <3>3. IsCanonical(j, collections[j], content[j], to)
      BY <2>2, <3>1, <3>2, StaysCanonical
    <3>4. IsCanonical(j, collections[j], content[j], new)
      BY <1>4, <3>3, SameCanonical
    <3> QED BY <1>1, <2>2, <3>4
  <2> QED BY <2>1, <2>2
<1>7. SchemaInv' <=>
        /\ collections' = [j \in Collections |-> collections'[j]]
        /\ content' = [j \in Collections |-> content'[j]]
        /\ IsDb(D!Database') /\ \A j \in Collections : IsCanonical(j, collections'[j], content'[j], D!Database')
  BY DEF SchemaInv, IsDb, IsCanonical, HasTable
<1> QED BY <1>1, <1>3, <1>5, <1>6, <1>7

\* A collection is created.
LEMMA CollectionCreated ==
    ASSUME SchemaInv, NEW i \in Collections, D!create_collection(i)
    PROVE  SchemaInv'
<1>1. PICK d \in Definitions[i] : /\ D!Becomes(D!create_collection_table(D!Database, i, d))
                                  /\ collections' = [collections EXCEPT ![i] = d]
  BY DEF D!create_collection
<1>2. collections[i] = Nobody /\ content' = content
  BY DEF D!create_collection
<1>3. PICK db, to : db = D!Database /\ to = D!create_collection_table(db, i, d)
  OBVIOUS
<1>4. to.ok /\ relations' = to.rel /\ indexes' = to.idx
  BY <1>1, <1>3 DEF D!Becomes
<1>5. IsDb(db) /\ content[i] = {} /\ \A n \in DOMAIN db.idx : db.idx[n].owner # i
  BY <1>2, <1>3 DEF SchemaInv, IsCanonical
<1>6. IsDb(to) /\ SameElsewhere(db, to, i) /\ IsCanonical(i, d, {}, to)
  <2>1. CASE d.type = "view"
    BY <1>3, <1>4, <1>5, <2>1, ViewCreated
  <2>2. CASE d.type # "view"
    BY <1>3, <1>4, <1>5, <2>2, TableCreated
  <2> QED BY <2>1, <2>2
<1>7. content' = [content EXCEPT ![i] = {}]
  BY <1>2, <1>5 DEF SchemaInv
<1> QED BY <1>1, <1>3, <1>4, <1>6, <1>7, SchemaStep

\* A collection is updated.
LEMMA CollectionUpdated ==
    ASSUME SchemaInv, NEW i \in Collections, D!update_collection(i)
    PROVE  SchemaInv'
<1>1. PICK d \in Definitions[i] : /\ D!Becomes(D!update_collection_table(D!Database, i, collections[i], d))
                                  /\ collections' = [collections EXCEPT ![i] = d]
                                  /\ content' = [content EXCEPT ![i] = D!Keeps(i, collections[i], d)]
  BY DEF D!update_collection
<1>2. PICK old : old = collections[i]
  OBVIOUS
<1>3. PICK db, to : db = D!Database /\ to = D!update_collection_table(db, i, old, d)
  OBVIOUS
<1>4. to.ok /\ relations' = to.rel /\ indexes' = to.idx
  BY <1>1, <1>2, <1>3 DEF D!Becomes
<1>5. PICK filled : filled = content[i]
  OBVIOUS
<1>6. IsDb(db) /\ old # Nobody /\ IsCanonical(i, old, filled, db)
  BY <1>2, <1>3, <1>5 DEF SchemaInv, D!update_collection
<1>7. D!Keeps(i, old, d) = StillFilled(filled, old, d)
  BY <1>5 DEF D!Keeps, StillFilled, Kept
<1>8. IsDb(to) /\ SameElsewhere(db, to, i) /\ IsCanonical(i, d, StillFilled(filled, old, d), to)
  BY <1>3, <1>4, <1>6, TableUpdated
<1>9. content' = [content EXCEPT ![i] = StillFilled(filled, old, d)]
  BY <1>1, <1>2, <1>7
<1> QED BY <1>1, <1>3, <1>4, <1>8, <1>9, SchemaStep

\* A collection is deleted.
LEMMA CollectionDeleted ==
    ASSUME SchemaInv, NEW i \in Collections, D!delete_collection(i)
    PROVE  SchemaInv'
<1>1. PICK db, to : db = D!Database /\ to = D!_drop_collection_object(db, i)
  OBVIOUS
<1>2. /\ to.ok /\ relations' = to.rel /\ indexes' = to.idx
      /\ collections' = [collections EXCEPT ![i] = Nobody] /\ content' = [content EXCEPT ![i] = {}]
  BY <1>1 DEF D!delete_collection, D!Becomes
<1>3. IsDb(db)
  BY <1>1 DEF SchemaInv
<1>4. IsDb(to) /\ SameElsewhere(db, to, i) /\ \A n \in DOMAIN to.idx : to.idx[n].owner # i
  BY <1>1, <1>2, <1>3, ObjectDropped
<1>5. IsCanonical(i, Nobody, {}, to)
  BY <1>4 DEF IsCanonical
<1> QED BY <1>1, <1>2, <1>4, <1>5, SchemaStep

\* The values in the columns of a collection change.
LEMMA ValuesChange ==
    ASSUME SchemaInv, NEW i \in Collections, D!IsTable(i), NEW cols, NEW filled,
           relations' = [relations EXCEPT ![i].cols = cols], indexes' = indexes,
           collections' = collections, content' = [content EXCEPT ![i] = filled],
           filled \subseteq DOMAIN collections[i].schema, Describes(collections[i], filled, cols)
    PROVE  SchemaInv'
<1>1. PICK db, d, k : db = D!Database /\ d = collections[i] /\ k = TRUE
  OBVIOUS
<1>2. db = [rel |-> relations, idx |-> indexes, ok |-> k] /\ IsDb(db)
  BY <1>1 DEF SchemaInv, D!Database
<1>3. db.rel = relations /\ db.idx = indexes /\ db.ok = k
  BY <1>2, DbFields
<1>4. /\ d # Nobody /\ d.type # "view" /\ d \in Definitions[i]
      /\ HasTable(db, i) /\ OwnIndexes(db.idx, i, D!expected_collection_index_statements(d))
  BY <1>1 DEF SchemaInv, IsCanonical, D!IsTable
<1>5. PICK to, idx : idx = db.idx /\ to = D!Altered(db, i, cols, idx)
  OBVIOUS
<1>6. \A n \in DOMAIN idx :
         /\ idx[n].owner = db.idx[n].owner
         /\ idx[n] = [owner |-> idx[n].owner, column |-> idx[n].column, method |-> idx[n].method]
  BY <1>2, <1>5 DEF IsDb
<1>7. \A n \in DOMAIN db.idx : db.idx[n].owner # i => n \in DOMAIN idx /\ idx[n] = db.idx[n]
  BY <1>5
<1>8. DOMAIN idx \subseteq DOMAIN db.idx
  BY <1>5
<1>9. Alters(db, to, i) /\ to.rel[i].cols = cols /\ to.idx = idx
  BY <1>2, <1>4, <1>5, <1>6, <1>7, <1>8, ColumnsAlter
<1>10. IsDb(to) /\ HasTable(to, i) /\ SameElsewhere(db, to, i)
  BY <1>9 DEF Alters
<1>11. relations' = to.rel /\ indexes' = to.idx
  BY <1>3, <1>5, <1>9 DEF D!Altered
<1>12. IsCanonical(i, d, filled, to)
  BY <1>1, <1>4, <1>5, <1>9, <1>10 DEF IsCanonical
<1>13. collections' = [collections EXCEPT ![i] = d]
  BY <1>1 DEF SchemaInv
<1> QED BY <1>1, <1>10, <1>11, <1>12, <1>13, SchemaStep

\* The records of a collection go.
LEMMA CollectionTruncated ==
    ASSUME SchemaInv, NEW i \in Collections, D!truncate_collection(i)
    PROVE  SchemaInv'
<1>1. PICK d, cols, to : /\ d = collections[i] /\ cols = relations[i].cols
                         /\ to = [c \in DOMAIN cols |-> D!_col_ddl(cols[c].type)]
  OBVIOUS
<1>2. /\ D!IsTable(i) /\ relations' = [relations EXCEPT ![i].cols = to]
      /\ content' = [content EXCEPT ![i] = {}] /\ collections' = collections /\ indexes' = indexes
  BY <1>1 DEF D!truncate_collection
<1>3. Describes(d, content[i], cols)
  BY <1>1, <1>2, DatabaseIs DEF SchemaInv, IsCanonical, D!IsTable
<1>4. PICK sys, F, N, T, V, W : /\ sys = D!SystemColumns(d) /\ F = DOMAIN d.schema
                                /\ N = NamesIn(d) /\ T = TypesIn(d)
                                /\ V = Values(d, content[i]) /\ W = Values(d, {})
  OBVIOUS
<1>5. HasColumns(cols, sys, F, N, T, V) /\ \A f \in F : W[f] = Nobody
  BY <1>3, <1>4 DEF Describes, Values
<1>6. DOMAIN to = DOMAIN cols /\ \A c \in DOMAIN cols : to[c] = [type |-> cols[c].type, data |-> Nobody]
  BY <1>1 DEF D!_col_ddl
<1>7. \A f \in F : N[f] \in Named(N, F)
  BY DEF Named
<1>8. DOMAIN cols = sys \cup Named(N, F)
  BY <1>5 DEF HasColumns
<1>a. \A f \in F : N[f] \notin sys /\ cols[N[f]] = [type |-> T[f], data |-> V[f]]
  BY <1>5 DEF HasColumns
<1>9. \A f \in F : N[f] \notin sys /\ to[N[f]] = [type |-> T[f], data |-> W[f]]
  <2>1. SUFFICES ASSUME NEW f \in F PROVE N[f] \notin sys /\ to[N[f]] = [type |-> T[f], data |-> W[f]]
    OBVIOUS
  <2>2. N[f] \in DOMAIN cols /\ W[f] = Nobody
    BY <1>5, <1>7, <1>8, <2>1
  <2>a. cols[N[f]] = [type |-> T[f], data |-> V[f]]
    BY <1>a, <2>1
  <2>3. cols[N[f]].type = T[f] /\ N[f] \notin sys
    BY <1>a, <2>1, <2>a
  <2> QED BY <1>6, <2>2, <2>3
<1>10. \A c \in sys : to[c] = D!_col_ddl("system")
  BY <1>5, <1>6, <1>8 DEF HasColumns, D!_col_ddl
<1>11. HasColumns(to, sys, F, N, T, W)
  BY <1>5, <1>6, <1>9, <1>10 DEF HasColumns
<1>12. Describes(d, {}, to)
  BY <1>4, <1>11 DEF Describes
<1> QED BY <1>1, <1>2, <1>12, ValuesChange

\* Records are created.
LEMMA RecordCreated ==
    ASSUME SchemaInv, NEW i \in Collections, D!create_record(i)
    PROVE  SchemaInv'
<1>1. PICK d, cols, to :
         /\ d = collections[i] /\ cols = relations[i].cols
         /\ to = [c \in DOMAIN cols |->
                    IF D!Field(i, c) = {} THEN cols[c]
                    ELSE [type |-> cols[c].type, data |-> CHOOSE f \in D!Field(i, c) : TRUE]]
  OBVIOUS
<1>2. /\ D!IsTable(i) /\ relations' = [relations EXCEPT ![i].cols = to]
      /\ content' = [content EXCEPT ![i] = DOMAIN d.schema] /\ collections' = collections /\ indexes' = indexes
  BY <1>1 DEF D!create_record
<1>3. Describes(d, content[i], cols)
  BY <1>1, <1>2, DatabaseIs DEF SchemaInv, IsCanonical, D!IsTable
<1>4. PICK sys, F, N, T, V, W : /\ sys = D!SystemColumns(d) /\ F = DOMAIN d.schema
                                /\ N = NamesIn(d) /\ T = TypesIn(d)
                                /\ V = Values(d, content[i]) /\ W = Values(d, DOMAIN d.schema)
  OBVIOUS
<1>5. /\ HasColumns(cols, sys, F, N, T, V)
      /\ \A f \in F : W[f] = f /\ N[f] = d.schema[f].name
  BY <1>3, <1>4 DEF Describes, Values, NamesIn
<1>6. DOMAIN to = DOMAIN cols
  BY <1>1
<1>7. \A c : D!Field(i, c) = {f \in F : N[f] = c}
  BY <1>1, <1>4, <1>5 DEF D!Field
<1>8. \A f \in F : N[f] \in Named(N, F)
  BY DEF Named
<1>9. DOMAIN cols = sys \cup Named(N, F)
  BY <1>5 DEF HasColumns
<1>a. \A f \in F : N[f] \notin sys /\ cols[N[f]] = [type |-> T[f], data |-> V[f]]
  BY <1>5 DEF HasColumns
<1>10. ASSUME NEW f \in F PROVE N[f] \notin sys /\ to[N[f]] = [type |-> T[f], data |-> W[f]]
  <2>1. D!Field(i, N[f]) = {f}
    BY <1>5, <1>7 DEF HasColumns
  <2>2. PICK g : g = CHOOSE h \in D!Field(i, N[f]) : TRUE
    OBVIOUS
  <2>3. g = f
    BY <2>1, <2>2
  <2>4. N[f] \in DOMAIN cols
    BY <1>8, <1>9
  <2>5. to[N[f]] = [type |-> cols[N[f]].type, data |-> g]
    BY <1>1, <2>1, <2>2, <2>4
  <2>a. cols[N[f]] = [type |-> T[f], data |-> V[f]]
    BY <1>10, <1>a
  <2>6. N[f] \notin sys /\ cols[N[f]].type = T[f]
    BY <1>10, <1>a, <2>a
  <2> QED BY <1>5, <2>3, <2>5, <2>6
<1>11. ASSUME NEW c \in sys PROVE to[c] = D!_col_ddl("system")
  <2>a. \A f \in F : N[f] # c
    BY <1>11, <1>a
  <2>b. D!Field(i, c) = {f \in F : N[f] = c}
    BY <1>7
  <2>1. D!Field(i, c) = {}
    BY <2>a, <2>b
  <2>2. to[c] = cols[c]
    BY <1>1, <1>9, <2>1
  <2> QED BY <1>5, <2>2 DEF HasColumns
<1>12. HasColumns(to, sys, F, N, T, W)
  BY <1>5, <1>6, <1>10, <1>11 DEF HasColumns
<1>13. Describes(d, DOMAIN d.schema, to)
  BY <1>4, <1>12 DEF Describes
<1> QED BY <1>1, <1>2, <1>13, ValuesChange

\* The first schema is empty.
LEMMA SchemaInit == D!Init => SchemaInv
<1>1. SUFFICES ASSUME D!Init PROVE SchemaInv
  OBVIOUS
<1>2. /\ collections = [i \in Collections |-> Nobody] /\ relations = [i \in Collections |-> Nobody]
      /\ indexes = D!NoIndexes /\ content = [i \in Collections |-> {}]
  BY <1>1 DEF D!Init
<1>3. DOMAIN indexes = {}
  BY <1>2 DEF D!NoIndexes
<1>4. PICK db, k : db = D!Database /\ k = TRUE
  OBVIOUS
<1>5. db = [rel |-> relations, idx |-> indexes, ok |-> k]
  BY <1>4 DEF D!Database
<1>6. db.rel = relations /\ db.idx = indexes /\ db = [rel |-> db.rel, idx |-> db.idx, ok |-> db.ok]
  BY <1>5, DbFields
<1>7. IsDb(db)
  BY <1>2, <1>3, <1>6 DEF IsDb
<1>8. \A i \in Collections : IsCanonical(i, collections[i], content[i], db)
  BY <1>2, <1>3, <1>6 DEF IsCanonical
<1> QED BY <1>2, <1>4, <1>7, <1>8 DEF SchemaInv

\* Every request keeps it.
LEMMA SchemaNext == ASSUME SchemaInv, D!Next PROVE SchemaInv'
<1>1. PICK i \in Collections :
         \/ D!create_collection(i) \/ D!update_collection(i) \/ D!delete_collection(i)
         \/ D!truncate_collection(i) \/ D!create_record(i)
  BY DEF D!Next
<1> QED BY <1>1, CollectionCreated, CollectionUpdated, CollectionDeleted, CollectionTruncated,
RecordCreated

\* The schema's steps are those of SchemaManager.
LEMMA SchemaInductive ==
    ASSUME SchemaInv, [BackupsNext]_<<part, vars, archives, sets, schema>>
    PROVE  SchemaInv'
<1>1. CASE D!Next
  BY <1>1, SchemaNext
<1>2. CASE UNCHANGED schema
  BY <1>2 DEF schema, SchemaInv, IsCanonical, IsDb, HasTable, D!Database
<1> QED BY <1>1, <1>2 DEF BackupsNext

\* A canonical table has its indexes and columns.
LEMMA TableIsCanonical ==
    ASSUME SchemaInv, NEW i \in Collections, D!IsTable(i)
    PROVE  D!validate_collection_indexes(i) /\ D!_reconcile_table_against_canonical(i)
<1>1. PICK d, cols : d = collections[i] /\ cols = relations[i].cols
  OBVIOUS
<1>2. PICK statements : statements = D!expected_collection_index_statements(d)
  OBVIOUS
<1>3. Describes(d, content[i], cols) /\ OwnIndexes(indexes, i, statements)
  BY <1>1, <1>2, DatabaseIs DEF SchemaInv, IsCanonical, D!IsTable
<1>4. D!validate_collection_indexes(i)
  <2>1. PICK own : own = {n \in DOMAIN indexes : indexes[n].owner = i}
    OBVIOUS
  <2>2. \A n \in DOMAIN statements :
           /\ n \in DOMAIN indexes /\ indexes[n].owner = i
           /\ indexes[n].column = statements[n].column /\ indexes[n].method = statements[n].method
    <3>1. SUFFICES ASSUME NEW n \in DOMAIN statements
                   PROVE  /\ n \in DOMAIN indexes /\ indexes[n].owner = i
                          /\ indexes[n].column = statements[n].column
                          /\ indexes[n].method = statements[n].method
      OBVIOUS
    <3>2. PICK c, m : c = statements[n].column /\ m = statements[n].method
      OBVIOUS
    <3>3. n \in DOMAIN indexes /\ indexes[n] = [owner |-> i, column |-> c, method |-> m]
      BY <1>3, <3>1, <3>2 DEF OwnIndexes
    <3> QED BY <3>2, <3>3
  <2>3. own = DOMAIN statements
    BY <1>3, <2>1, <2>2 DEF OwnIndexes
  <2> QED BY <1>1, <1>2, <2>1, <2>2, <2>3 DEF D!validate_collection_indexes
<1>5. PICK sys, F, N, T, V : /\ sys = D!SystemColumns(d) /\ F = DOMAIN d.schema
                             /\ N = NamesIn(d) /\ T = TypesIn(d) /\ V = Values(d, content[i])
  OBVIOUS
<1>6. HasColumns(cols, sys, F, N, T, V)
  BY <1>3, <1>5 DEF Describes
<1>7. \A f \in F : N[f] = d.schema[f].name /\ T[f] = d.schema[f].type
  BY <1>5 DEF NamesIn, TypesIn
<1>8. PICK types, spec, actual :
         /\ types = D!TypesOf(d, F) /\ spec = D!build_collection_table_spec(d)
         /\ actual = [c \in DOMAIN cols |-> cols[c].type]
  OBVIOUS
<1>9. DOMAIN types = Named(N, F)
  BY <1>7, <1>8 DEF D!TypesOf, D!NamesOf, Named
<1>10. /\ DOMAIN spec = sys \cup Named(N, F)
       /\ \A c \in sys : spec[c] = "system"
       /\ \A c \in Named(N, F) \ sys : spec[c] = types[c]
       /\ spec = [c \in sys \cup Named(N, F) |-> spec[c]]
  <2>1. PICK system : system = [c \in sys |-> "system"]
    OBVIOUS
  <2>2. spec = D!Merged(system, types)
    BY <1>5, <1>8, <2>1 DEF D!build_collection_table_spec
  <2>3. DOMAIN system = sys /\ \A c \in sys : system[c] = "system"
    BY <2>1
  <2> QED BY <1>9, <2>2, <2>3 DEF D!Merged
<1>11. DOMAIN cols = sys \cup Named(N, F) /\ \A c \in sys : cols[c] = D!_col_ddl("system")
  BY <1>6 DEF HasColumns
<1>12. \A f \in F : N[f] \notin sys /\ cols[N[f]] = [type |-> T[f], data |-> V[f]]
  BY <1>6 DEF HasColumns
<1>13. ASSUME NEW f \in F PROVE spec[N[f]] = actual[N[f]]
  <2>1. PICK g : g = CHOOSE h \in F : d.schema[h].name = N[f]
    OBVIOUS
  <2>2. g \in F /\ d.schema[g].name = N[f]
    BY <1>7, <1>13, <2>1
  <2>3. N[g] = N[f]
    BY <1>7, <2>2
  <2>4. g = f
    BY <1>6, <1>13, <2>2, <2>3 DEF HasColumns
  <2>5. N[f] \in Named(N, F)
    BY <1>13 DEF Named
  <2>6. types[N[f]] = d.schema[g].type
    BY <1>8, <1>9, <2>1, <2>5 DEF D!TypesOf, D!NamesOf
  <2>7. cols[N[f]] = [type |-> T[f], data |-> V[f]] /\ N[f] \notin sys
    BY <1>12, <1>13
  <2>8. actual[N[f]] = T[f]
    BY <1>8, <1>11, <2>5, <2>7
  <2> QED BY <1>7, <1>10, <1>13, <2>4, <2>5, <2>6, <2>7, <2>8
<1>14. ASSUME NEW c \in sys PROVE spec[c] = actual[c]
  <2>1. cols[c] = [type |-> "system", data |-> Nobody] /\ c \in DOMAIN cols
    BY <1>11, <1>14 DEF D!_col_ddl
  <2> QED BY <1>8, <1>10, <1>14, <2>1
<1>15. ASSUME NEW c \in sys \cup Named(N, F) PROVE spec[c] = actual[c]
  <2>1. CASE c \in sys
    BY <1>14, <2>1
  <2>2. CASE c \in Named(N, F)
    <3>1. PICK f \in F : c = N[f]
      BY <2>2 DEF Named
    <3> QED BY <1>13, <3>1
  <2> QED BY <1>15, <2>1, <2>2
<1>16. actual = [c \in sys \cup Named(N, F) |-> actual[c]]
  BY <1>8, <1>11
<1>17. spec = actual
  BY <1>10, <1>15, <1>16
<1>18. D!_reconcile_table_against_canonical(i)
  BY <1>1, <1>8, <1>17 DEF D!_reconcile_table_against_canonical
<1> QED BY <1>4, <1>18

\* The values are where their fields are.
LEMMA ValuesAreKept ==
    ASSUME SchemaInv, NEW i \in Collections, D!IsTable(i), NEW f \in DOMAIN collections[i].schema
    PROVE  relations[i].cols[collections[i].schema[f].name].data = IF f \in content[i] THEN f ELSE Nobody
<1>1. PICK d, cols : d = collections[i] /\ cols = relations[i].cols
  OBVIOUS
<1>2. Describes(d, content[i], cols)
  BY <1>1, DatabaseIs DEF SchemaInv, IsCanonical, D!IsTable
<1>3. cols[NamesIn(d)[f]] = [type |-> TypesIn(d)[f], data |-> Values(d, content[i])[f]]
  BY <1>1, <1>2 DEF Describes, HasColumns
<1>4. cols[NamesIn(d)[f]].data = Values(d, content[i])[f]
  BY <1>3
<1>5. NamesIn(d)[f] = d.schema[f].name /\ Values(d, content[i])[f] = IF f \in content[i] THEN f ELSE Nobody
  BY <1>1 DEF NamesIn, Values
<1> QED BY <1>1, <1>4, <1>5

\* However collections are created, changed and deleted, and whatever they and
\* their fields are called, their tables, views and indexes are what their
\* metadata says, and values stay in the column of their field
\* (update_collection_table, validate_canonical_collection_objects), for any
\* number of collections and any definitions.
THEOREM SchemaStaysSound == BackupsSpec => []SchemaIsSound
<1>1. BackupsInit => SchemaInv
  BY SchemaInit DEF BackupsInit
<1>2. SchemaInv /\ [BackupsNext]_<<part, vars, archives, sets, schema>> => SchemaInv'
  BY SchemaInductive
<1>3. SchemaInv => SchemaIsSound
  <2> SUFFICES ASSUME SchemaInv PROVE SchemaIsSound
    OBVIOUS
  <2>1. ASSUME NEW i \in Collections, collections[i] # Nobody
        PROVE  D!SourceRenamed(i) \/ D!validate_canonical_collection_objects(i)
    <3>1. CASE collections[i].type = "view"
      <4>1. HasView(relations[i], collections[i])
        BY <2>1, <3>1, DatabaseIs DEF SchemaInv, IsCanonical
      <4>2. relations[i].kind = "view" /\ relations[i].wide = collections[i].query.wide
        BY <4>1 DEF HasView
      <4> QED BY <3>1, <4>2 DEF D!SourceRenamed, D!validate_canonical_collection_objects,
                                D!validate_collection_view
    <3>2. CASE collections[i].type # "view"
      BY <2>1, <3>2, TableIsCanonical DEF D!IsTable, D!validate_canonical_collection_objects
    <3> QED BY <3>1, <3>2
  <2>2. D!LiveSchemaIsCanonical
    BY <2>1 DEF D!LiveSchemaIsCanonical
  <2>3. D!ValuesFollowField
    BY ValuesAreKept DEF D!ValuesFollowField
  <2> QED BY <2>2, <2>3 DEF SchemaIsSound
<1> QED BY <1>1, <1>2, <1>3, PTL DEF BackupsSpec

-----------------------------------------------------------------------------
(***************************************************************************)
(* The restore coordination: the lease, the fence, the restart slot and the *)
(* journal each have an owner that the program counters tell.              *)
(***************************************************************************)

(* The lease is held from the start of a restore; only an unknown outcome  *)
(* gives it up while the guard stays.                                      *)
Leased ==
    \A r \in Requests :
        pc[r] \in {"resolving", "spawned", "scheduled", "stuck"} \cup Running
            => lease = r

(* Only a request to the SDK endpoint is started through the coordinator. *)
OfSdk == \A r \in Requests : pc[r] \in {"resolving", "spawned"} => r \in Sdk

(* The fence belongs to the requests that have or had the barrier. *)
Guarded ==
    \A r \in Requests :
        r \in fenced <=> pc[r] \in {"guarded", "cutover", "closing"} \cup Retained

(* The slot is taken for each of them until the guard is closed. *)
Reserved ==
    /\ \A r \in Requests :
          /\ pc[r] \in {"guarded", "cutover", "unknown"} => reservation = r
          /\ pc[r] \in {"guarded", "cutover"} \cup Retained => scheduled
          /\ pc[r] = "scheduled" => worker = r
          /\ reservation = r =>
                pc[r] \in {"guarded", "cutover", "closing", "unknown", "stuck"}
          /\ worker = r => pc[r] = "scheduled"
    /\ worker # Nobody => scheduled /\ reservation = Nobody
    /\ worker = Hooks =>
          \A r \in Requests : pc[r] \notin {"guarded", "cutover"} \cup Retained
    /\ reservation # Nobody => scheduled
    /\ scheduled => \/ worker # Nobody \/ reservation # Nobody
                    \/ \E r \in Requests : pc[r] = "stuck"

(* Journal and flag have a request that is the reason for them. *)
Reasons ==
    /\ journal => \E r \in Requests : pc[r] \in {"cutover"} \cup Retained
    /\ maintenance => \E r \in Requests : pc[r] \in Running \cup Retained

GateInv == TypeOK /\ OfSdk /\ Leased /\ Guarded /\ Reserved /\ Reasons

USE RequestsAssumption DEF Requests, Running, Retained

LEMMA GateInitially == Init => GateInv
  BY DEF Init, GateInv, TypeOK, OfSdk, Leased, Guarded, Reserved, Reasons

(* One request's step. *)
LEMMA RequestStep ==
  ASSUME GateInv, NEW r \in Requests, RequestNext(r)
  PROVE  GateInv'
  <1> USE DEF GateInv, TypeOK, OfSdk, Leased, Guarded, Reserved, Reasons, barrier,
              slot, coordinator, GoTo
  <1>1. CASE _backup_restore_maintenance(r)
    BY <1>1 DEF _backup_restore_maintenance
  <1>2. CASE DirectStart(r)
    BY <1>2 DEF DirectStart
  <1>3. CASE DirectRefused(r)
    BY <1>3 DEF DirectRefused
  <1>4. CASE SdkStart(r)
    BY <1>4 DEF SdkStart, Unlocked
  <1>5. CASE SdkRefused(r)
    BY <1>5 DEF SdkRefused, Unlocked
  <1>6. CASE SdkUnresolved(r)
    BY <1>6 DEF SdkUnresolved, Unstarted
  <1>7. CASE SdkSpawn(r)
    BY <1>7 DEF SdkSpawn
  <1>8. CASE SdkRun(r)
    BY <1>8 DEF SdkRun
  <1>9. CASE CancelUnstarted(r)
    BY <1>9 DEF CancelUnstarted, Unstarted
  <1>10. CASE RestoreRefused(r)
    BY <1>10 DEF RestoreRefused, End
  <1>11. CASE CheckRestart(r)
    BY <1>11 DEF CheckRestart
  <1>12. CASE AcquireBarrier(r)
    <2>1. /\ pc[r] = "acquiring" /\ fenced' = fenced \cup {r}
          /\ UNCHANGED <<maintenance, lease, lost, worker, coordinator, journal>>
      BY <1>12 DEF AcquireBarrier, reserve_process_restart
    <2>2. CASE ~scheduled
      <3>1. scheduled' = TRUE /\ reservation' = r /\ GoTo(r, "guarded")
        BY <1>12, <2>2 DEF AcquireBarrier, reserve_process_restart
      <3> QED
        BY <2>1, <2>2, <3>1
    <2>3. CASE scheduled
      <3>1. UNCHANGED <<scheduled, reservation>> /\ GoTo(r, "closing")
        BY <1>12, <2>3 DEF AcquireBarrier, reserve_process_restart
      <3> QED
        BY <2>1, <2>3, <3>1
    <2> QED
      BY <2>2, <2>3
  <1>13. CASE BarrierLost(r)
    BY <1>13 DEF BarrierLost
  <1>14. CASE BeginCutover(r)
    BY <1>14 DEF BeginCutover
  <1>15. CASE GuardedFails(r)
    BY <1>15 DEF GuardedFails
  <1>16. CASE RolledBack(r)
    BY <1>16 DEF RolledBack
  <1>17. CASE CloseGuard(r)
    BY <1>17 DEF CloseGuard, ReleaseReservation, End
  <1>18. CASE OutcomeUnknown(r)
    BY <1>18 DEF OutcomeUnknown, End
  <1>19. CASE _schedule_destructive_restore(r)
    BY <1>19 DEF _schedule_destructive_restore
  <1>20. CASE RestartRejected(r)
    BY <1>20 DEF RestartRejected
  <1>21. CASE RestartFailsClosed(r)
    BY <1>21 DEF RestartFailsClosed
  <1> QED
    BY <1>1, <1>2, <1>3, <1>4, <1>5, <1>6, <1>7, <1>8, <1>9, <1>10, <1>11, <1>12,
       <1>13, <1>14, <1>15, <1>16, <1>17, <1>18, <1>19, <1>20, <1>21 DEF RequestNext

(* The steps of the application, the restart thread and other processes. *)
LEMMA ProcessStep ==
  ASSUME GateInv,
         CoordinatorClose \/ schedule_process_restart \/ _clear_restart_scheduled
         \/ _restart_worker \/ ProcessEnds \/ OtherAcquires \/ OtherReleases
  PROVE  GateInv'
  <1> USE DEF GateInv, TypeOK, OfSdk, Leased, Guarded, Reserved, Reasons, barrier,
              slot, coordinator
  <1>1. CASE CoordinatorClose
    BY <1>1 DEF CoordinatorClose, Unlocked
  <1>2. CASE schedule_process_restart
    BY <1>2 DEF schedule_process_restart
  <1>3. CASE _clear_restart_scheduled
    BY <1>3 DEF _clear_restart_scheduled
  <1>4. CASE _restart_worker
    BY <1>4 DEF _restart_worker, Replaced
  <1>5. CASE ProcessEnds
    BY <1>5 DEF ProcessEnds, Replaced
  <1>6. CASE OtherAcquires
    BY <1>6 DEF OtherAcquires
  <1>7. CASE OtherReleases
    BY <1>7 DEF OtherReleases
  <1> QED
    BY <1>1, <1>2, <1>3, <1>4, <1>5, <1>6, <1>7

LEMMA GateInductive == GateInv /\ [Next]_vars => GateInv'
  <1> SUFFICES ASSUME GateInv, [Next]_vars
               PROVE  GateInv'
    OBVIOUS
  <1>1. CASE Next
    BY <1>1, RequestStep, ProcessStep DEF Next
  <1>2. CASE UNCHANGED vars
    BY <1>2 DEF vars, barrier, slot, coordinator, GateInv, TypeOK, OfSdk, Leased,
                Guarded, Reserved, Reasons
  <1> QED
    BY <1>1, <1>2

(* Lease, fence, slot, journal and flag always have the owners the program *)
(* counters tell.                                                          *)
THEOREM GateInvariance == Spec => []GateInv
  BY GateInitially, GateInductive, PTL DEF Spec

(* Type correctness. *)
THEOREM GateTypeCorrect == Spec => []TypeOK
  <1>1. GateInv => TypeOK
    BY DEF GateInv
  <1> QED
    BY <1>1, GateInvariance, PTL

(* With any number of restore requests, hook restarts and failures, no     *)
(* restart thread exists while a cutover may be exchanging files.          *)
THEOREM RestartExcluded == Spec => []CutoverOwnsRestart
  <1>1. GateInv => CutoverOwnsRestart
    BY DEF GateInv, TypeOK, Reserved, CutoverOwnsRestart
  <1> QED
    BY <1>1, GateInvariance, PTL

(* The restart slot always has an owner, so no failed restore or restart   *)
(* disables later ones.                                                    *)
THEOREM SlotNeverLeaks == Spec => []SlotHasOwner
  <1>1. GateInv => SlotHasOwner
    BY DEF GateInv, TypeOK, Guarded, Reserved, SlotHasOwner
  <1> QED
    BY <1>1, GateInvariance, PTL

(* The maintenance flag is down again once no restore is left. *)
THEOREM FlagNeverLeaks == Spec => []FlagHasReason
  <1>1. GateInv => FlagHasReason
    BY DEF GateInv, TypeOK, Guarded, Reasons, FlagHasReason
  <1> QED
    BY <1>1, GateInvariance, PTL

(* A process with an unresolved journal rejects mutations and restarts.    *)
THEOREM JournalIsFenced == Spec => []JournalFenced
  <1>1. GateInv => JournalFenced
    BY DEF GateInv, TypeOK, Guarded, Reserved, Reasons, JournalFenced
  <1> QED
    BY <1>1, GateInvariance, PTL

(* A committed restore keeps other backup operations out until the exec.   *)
THEOREM CommittedExcludesOthers == Spec => []CommittedKeepsLease
  <1>1. GateInv => CommittedKeepsLease
    BY DEF GateInv, Leased, CommittedKeepsLease
  <1> QED
    BY <1>1, GateInvariance, PTL
=============================================================================
