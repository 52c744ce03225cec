----------------------------- MODULE MCBackups -----------------------------
(***************************************************************************)
(* The backups of one server: who may restore (RestoreGate), the archives  *)
(* in the backups directory (BackupArchives), the sets they are packed     *)
(* from (BackupSets) and the schema a set describes (SchemaManager).  The  *)
(* parts share no state, so a behaviour is about one of them: which one is *)
(* chosen in the initial state, the others stay in their own.              *)
(***************************************************************************)
EXTENDS RestoreGate, FiniteSets, TLC

CONSTANTS Names, Clients, Instances, MaxKeep, MaxFiles, MaxMinute, MaxFaults, MaxSetFaults, Idle,
          Collections, Definitions

VARIABLES part,
          dir, disk, req, sched, clock, written, listed, told, removed, pruned, faults,
          setFs, setDisk, attached, setFaults, build, asked, del, setTold,
          collections, relations, indexes, content

archives == <<dir, disk, req, sched, clock, written, listed, told, removed, pruned, faults>>
sets == <<setFs, setDisk, attached, setFaults, build, asked, del, setTold>>
schema == <<collections, relations, indexes, content>>

A == INSTANCE BackupArchives WITH Requests <- Clients
S == INSTANCE BackupSets WITH
    MaxFaults <- MaxSetFaults,
    fs <- setFs, disk <- setDisk, faults <- setFaults, told <- setTold

(* The definitions of a small instance of two collections.  Their names    *)
(* and those of their fields are such that idx_a_b_c can be the index of   *)
(* two columns and of a statement of the user's.                           *)
CollectionNames == {<<"a">>, <<"a", "b">>}
FieldNames == {<<"c">>, <<"b", "c">>}
NoIndex == [n \in {} |-> Nobody]
NoQuery == [from |-> <<>>, wide |-> FALSE]

Fields(names, types) == [name : names, type : types]
Schemas(first, second) ==
    {<<>>} \cup [{1} -> first] \cup [{2} -> second]
    \cup {s \in [{1, 2} -> first \cup second] : s[1] \in first /\ s[2] \in second}

Table(name, type, fields, custom) ==
    [name |-> name, type |-> type, schema |-> fields, indexes |-> custom, query |-> NoQuery]
Custom(table, name) == name :> [table |-> table, column |-> <<"c">>, method |-> "custom"]

Rich ==
    {Table(n, k, s, x) :
        n \in CollectionNames, k \in {"base", "auth"},
        s \in Schemas(Fields(FieldNames, {"text", "json"}), Fields({<<"c">>, <<"email">>}, {"text"})),
        x \in {NoIndex} \cup {Custom(t, i) : t \in CollectionNames, i \in {<<"own">>, <<"idx", "a", "b", "c">>}}}
Plain == {Table(n, "base", s, NoIndex) :
             n \in CollectionNames, s \in {<<>>} \cup [{1} -> Fields(FieldNames, {"json", "relation"})]}
Views == {[name |-> n, type |-> "view", schema |-> <<>>, indexes |-> NoIndex, query |-> [from |-> f, wide |-> w]] :
             n \in CollectionNames, f \in CollectionNames, w \in BOOLEAN}

SmallDefinitions ==
    LET views == {v \in Views : v.query.from # v.name}
    IN  <<Rich \cup views, Plain \cup views>>

ASSUME BackupsAssumption ==
    /\ {MaxKeep, MaxFiles, MaxMinute, MaxFaults, MaxSetFaults} \subseteq Nat
    /\ Idle \notin A!Job

\* A definition has a type, and its fields are known by numbers.
ASSUME DefinitionsAssumption ==
    \A i \in Collections : \A d \in Definitions[i] :
        d # Nobody /\ d.type \in {"base", "auth", "view"} /\ DOMAIN d.schema \subseteq Nat

D == INSTANCE SchemaManager WITH Ids <- Collections, Nothing <- Nobody

BackupsInit ==
    /\ part \in {"gate", "archives", "sets", "schema"}
    /\ Init /\ A!Init /\ S!Init /\ D!Init

BackupsNext ==
    \/ part = "gate" /\ Next /\ UNCHANGED <<part, archives, sets, schema>>
    \/ part = "archives" /\ A!Next /\ UNCHANGED <<part, vars, sets, schema>>
    \/ part = "sets" /\ S!Next /\ UNCHANGED <<part, vars, archives, schema>>
    \/ part = "schema" /\ D!Next /\ UNCHANGED <<part, vars, archives, sets>>

BackupsSpec == BackupsInit /\ [][BackupsNext]_<<part, vars, archives, sets, schema>>

Sym == Permutations(Clients) \cup Permutations(Instances)

\* An archive that publish acknowledged survives every power loss until a
\* deletion unlinks it, delete_local_backup never takes one from under a
\* download, and _prune_automatic_backups of all instances together keeps the
\* newest automatic ones.
ArchivesKept == A!AcknowledgedIsKept /\ A!ReadersUndisturbed /\ A!NewestAutomaticKept

\* The archives that every power loss preserves behave as the catalog of
\* BackupCatalog: no name is reused for another archive, none disappears but
\* by a deletion (publish, delete_local_backup).
CatalogSpec == A!CatalogSpec

\* A seal is only ever found in a set that has everything, of the cancellation
\* of a request and the seal of its set exactly one wins, and delete_set did
\* what it told (finalize_set, BackupSealGate, delete_set).
SetsAreSound == S!SealedIsWhole /\ S!CancelledXorSealed /\ S!DeletionIsAsTold

\* Whatever changes collections went through, the database is what their
\* metadata describes, so that a backup is not refused, and the values of a
\* field stay in its column (update_collection_table,
\* validate_canonical_collection_objects).
SchemaIsSound == D!LiveSchemaIsCanonical /\ D!ValuesFollowField
=============================================================================
