--------------------------- MODULE SchemaManager ---------------------------
(***************************************************************************)
(* The tables, views and indexes of collections: db/schema_manager.py as   *)
(* services/collection_service.py calls it, and the reconciliation a       *)
(* backup starts with (backup/canonical.py, backup/schema_contract.py).    *)
(*                                                                         *)
(* A change is one transaction under the migration lock that commits with  *)
(* its metadata or not at all; a change that fails is no step.  A name is  *)
(* the sequence of its words, so that names that are joined with           *)
(* underscores can coincide.  A relation is known by the id of its         *)
(* collection: views follow it when it is renamed, as PostgreSQL's do.     *)
(***************************************************************************)
EXTENDS Integers, Sequences

CONSTANTS
    Ids,          \* collections
    Definitions,  \* the definitions that requests ask for, per collection
    Nothing       \* no collection, no relation

VARIABLES
    collections,  \* _collections
    relations,    \* the table or view of a collection
    indexes,      \* secondary indexes by name
    content       \* history: the fields whose values records have been given

vars == <<collections, relations, indexes, content>>

NoIndexes == [n \in {} |-> Nothing]

Init ==
    /\ collections = [i \in Ids |-> Nothing]
    /\ relations = [i \in Ids |-> Nothing]
    /\ indexes = NoIndexes
    /\ content = [i \in Ids |-> {}]

-----------------------------------------------------------------------------
(* What a definition stands for.  Types are named for the column they get. *)

BaseColumns == {<<"id">>, <<"created">>, <<"updated">>}
_AUTH_SYSTEM_COLUMN_DEFINITIONS ==
    {<<"email">>, <<"email", "visibility">>, <<"verified">>, <<"password", "hash">>, <<"token", "key">>}
SystemColumns(d) ==
    BaseColumns \cup IF d.type = "auth" THEN _AUTH_SYSTEM_COLUMN_DEFINITIONS ELSE {}

NamesOf(d, fields) == {d.schema[f].name : f \in fields}
FieldNames(d) == NamesOf(d, DOMAIN d.schema)
Distinct(d, fields) == \A f, g \in fields : d.schema[f].name = d.schema[g].name => f = g
TypesOf(d, fields) ==
    [c \in NamesOf(d, fields) |-> d.schema[CHOOSE f \in fields : d.schema[f].name = c].type]
_col_ddl(type) == [type |-> type, data |-> Nothing]

\* The first function, and the second where the first is not defined.
Merged(f, g) == [x \in DOMAIN f \cup DOMAIN g |-> IF x \in DOMAIN f THEN f[x] ELSE g[x]]

_managed_index_name(table, suffix) == <<"idx">> \o table \o suffix

Managed(d, column, method) == [table |-> d.name, column |-> column, method |-> method]

_field_indexes(d) ==
    {Managed(d, d.schema[f].name, IF d.schema[f].type = "json" THEN "gin" ELSE "partial") :
        f \in {g \in DOMAIN d.schema : d.schema[g].type \in {"json", "relation"}}}

_managed_indexes(d) ==
    LET auth == {Managed(d, <<"email">>, "unique"), Managed(d, <<"token", "key">>, "plain")}
        all == _field_indexes(d) \cup {Managed(d, <<"created">>, "plain")}
               \cup IF d.type = "auth" THEN auth ELSE {}
        Name(index) == _managed_index_name(d.name, index.column)
    IN  [n \in {Name(x) : x \in all} |-> CHOOSE x \in all : Name(x) = n]

(* A statement for another table, or one that masks a managed index, is    *)
(* refused.                                                                *)
_validate_managed_custom_index_names(d) ==
    /\ DOMAIN _managed_indexes(d) \cap DOMAIN d.indexes = {}
    /\ \A n \in DOMAIN d.indexes : d.indexes[n].table = d.name

expected_collection_index_statements(d) == Merged(d.indexes, _managed_indexes(d))

-----------------------------------------------------------------------------
(* PostgreSQL.  A database is [rel, idx, ok]; once a statement failed it   *)
(* stays failed.                                                           *)

Failed(db) == [db EXCEPT !.ok = FALSE]

Taken(db, name) ==
    \/ name \in DOMAIN db.idx
    \/ \E i \in Ids : db.rel[i] # Nothing /\ db.rel[i].name = name

Without(idx, names) == [n \in DOMAIN idx \ names |-> idx[n]]

RenameTable(db, i, to) ==
    IF Taken(db, to) THEN Failed(db) ELSE [db EXCEPT !.rel[i].name = to]

Altered(db, i, cols, idx) ==
    [rel |-> [db.rel EXCEPT ![i].cols = cols], idx |-> idx, ok |-> db.ok]

(* Several ADD, DROP or RENAME COLUMN of different columns, one after the  *)
(* other: either all of them succeed or nothing is left of any.            *)
AddColumns(db, i, types) ==
    LET cols == db.rel[i].cols
    IN  IF DOMAIN types \cap DOMAIN cols # {} THEN Failed(db)
        ELSE Altered(db, i, Merged([c \in DOMAIN types |-> _col_ddl(types[c])], cols), db.idx)

DropColumns(db, i, columns) ==
    LET cols == db.rel[i].cols
        indexed == {n \in DOMAIN db.idx : db.idx[n].owner = i /\ db.idx[n].column \in columns}
    IN  Altered(db, i, [c \in DOMAIN cols \ columns |-> cols[c]], Without(db.idx, indexed))

(* from[f] becomes to[f] in the order of the fields, so it must differ      *)
(* from the new names of those before f and the old ones of those after.    *)
RenameColumns(db, i, from, to) ==
    LET fields == DOMAIN from
        cols == db.rel[i].cols
        others == DOMAIN cols \ {from[f] : f \in fields}
        InTheWay(f) == others \cup {IF g < f THEN to[g] ELSE from[g] : g \in fields \ {f}}
        FieldOf(names, c) == CHOOSE f \in fields : names[f] = c
        Renamed(c) == IF \E f \in fields : from[f] = c THEN to[FieldOf(from, c)] ELSE c
    IN  IF \E f \in fields : to[f] # from[f] /\ to[f] \in InTheWay(f) THEN Failed(db)
        ELSE Altered(db, i,
                     [c \in others \cup {to[f] : f \in fields} |->
                         IF c \in others THEN cols[c] ELSE cols[from[FieldOf(to, c)]]],
                     [n \in DOMAIN db.idx |->
                         IF db.idx[n].owner = i THEN [db.idx[n] EXCEPT !.column = Renamed(@)]
                         ELSE db.idx[n]])

(* A view reads base columns of its source, so that no column it needs is  *)
(* ever dropped; it is wide when it shows one more than it must.           *)
View(d, sources) ==
    [name |-> d.name, kind |-> "view", cols |-> <<>>,
     on |-> CHOOSE j \in sources : TRUE, wide |-> d.query.wide]

CreateView(db, i, d) ==
    LET on == {j \in Ids : db.rel[j] # Nothing /\ db.rel[j].name = d.query.from}
    IN  IF ~db.ok \/ Taken(db, d.name) \/ on = {} THEN Failed(db)
        ELSE [db EXCEPT !.rel[i] = View(d, on)]

-----------------------------------------------------------------------------
(* Indexes *)

_create_index_if_owned(db, i, name, index) ==
    /\ index.column \in DOMAIN db.rel[i].cols
    /\ IF name \in DOMAIN db.idx
       THEN db.idx[name] = [owner |-> i, column |-> index.column, method |-> index.method]
       ELSE ~Taken(db, name)

_drop_index_if_owned(db, i, name) == name \in DOMAIN db.idx => db.idx[name].owner = i

CreateIndexes(db, i, wanted) ==
    IF ~db.ok \/ \E n \in DOMAIN wanted : ~_create_index_if_owned(db, i, n, wanted[n])
    THEN Failed(db)
    ELSE [db EXCEPT !.idx = Merged([n \in DOMAIN wanted |->
              [owner |-> i, column |-> wanted[n].column, method |-> wanted[n].method]], @)]

Obsolete(old, new) == {n \in DOMAIN old : n \notin DOMAIN new \/ new[n] # old[n]}

DropIndexes(db, i, names) ==
    IF \A n \in names : _drop_index_if_owned(db, i, n)
    THEN [db EXCEPT !.idx = Without(@, names)]
    ELSE Failed(db)

\* Mutant: only the custom indexes that changed are made again.
SyncChangedOnly(db, i, old, new) ==
    LET changed == [n \in {m \in DOMAIN new.indexes :
                              m \notin DOMAIN old.indexes \/ old.indexes[m] # new.indexes[m]} |-> new.indexes[n]]
    IN  IF ~db.ok \/ ~_validate_managed_custom_index_names(new) THEN Failed(db)
        ELSE CreateIndexes(DropIndexes(db, i, Obsolete(_managed_indexes(old), _managed_indexes(new))
                                              \cup Obsolete(old.indexes, new.indexes)),
                           i, Merged(changed, _managed_indexes(new)))

_sync_collection_indexes(db, i, old, new) ==
    IF ~db.ok \/ ~_validate_managed_custom_index_names(new) THEN Failed(db)
    ELSE CreateIndexes(DropIndexes(db, i, Obsolete(_managed_indexes(old), _managed_indexes(new))
                                          \cup Obsolete(old.indexes, new.indexes)),
                       i, expected_collection_index_statements(new))

-----------------------------------------------------------------------------
(* Tables and views *)

(* CREATE TABLE IF NOT EXISTS passes over a name that is taken; no other    *)
(* collection has it, so it is an index, and indexing it fails.             *)
create_collection_table(db, i, d) ==
    IF d.type = "view" THEN CreateView(db, i, d)
    ELSE IF \/ ~db.ok \/ Taken(db, d.name) \/ ~_validate_managed_custom_index_names(d)
            \/ FieldNames(d) \cap SystemColumns(d) # {}
            \/ ~Distinct(d, DOMAIN d.schema)
         THEN Failed(db)
         ELSE LET system == [c \in SystemColumns(d) |-> _col_ddl("system")]
                  types == TypesOf(d, DOMAIN d.schema)
                  table == [name |-> d.name, kind |-> "table",
                            cols |-> Merged(system, [c \in DOMAIN types |-> _col_ddl(types[c])])]
              IN  CreateIndexes([db EXCEPT !.rel[i] = table], i, expected_collection_index_statements(d))

_dependent_view_names(db, i) ==
    {j \in Ids : db.rel[j] # Nothing /\ db.rel[j].kind = "view" /\ db.rel[j].on = i}

_drop_collection_object(db, i) ==
    LET own == {n \in DOMAIN db.idx : db.idx[n].owner = i}
    IN  IF _dependent_view_names(db, i) # {} THEN Failed(db)
        ELSE [rel |-> [db.rel EXCEPT ![i] = Nothing], idx |-> Without(db.idx, own), ok |-> db.ok]

(* CREATE OR REPLACE keeps the object when no column of its output is lost. *)
_replace_collection_object(db, i, old, new) ==
    LET source == {j \in Ids \ {i} : db.rel[j] # Nothing /\ db.rel[j].name = new.query.from}
    IN  IF new.type = "view" /\ source = {} THEN Failed(db)
        ELSE IF old.type = "view" /\ new.type = "view" /\ old.name = new.name
                /\ (old.query.wide => new.query.wide)
        THEN [db EXCEPT !.rel[i] = View(new, source)]
        ELSE create_collection_table(_drop_collection_object(db, i), i, new)

AddFields(db, i, d, fields) ==
    IF Distinct(d, fields) THEN AddColumns(db, i, TypesOf(d, fields)) ELSE Failed(db)

(* The ALTER statements, in their order: the table, auth columns, fields   *)
(* that go, that are new, that are renamed, that change their type.  A     *)
(* field is renamed before it changes its type, and no other field has its *)
(* name by then, so the types can wait for all names.                      *)
Alter(db, i, old, new) ==
    LET before == DOMAIN old.schema
        after == DOMAIN new.schema
        kept == before \cap after
        retyped == {f \in kept : old.schema[f].type # new.schema[f].type}
        auth == _AUTH_SYSTEM_COLUMN_DEFINITIONS
        db1 == IF old.name # new.name THEN RenameTable(db, i, new.name) ELSE db
        db2 == CASE old.type # "auth" /\ new.type = "auth" -> AddColumns(db1, i, [c \in auth |-> "system"])
                 [] old.type = "auth" /\ new.type # "auth" -> DropColumns(db1, i, auth)
                 [] OTHER -> db1
        db3 == DropColumns(db2, i, NamesOf(old, before \ after))
        db4 == AddFields(db3, i, new, after \ before)
        db5 == RenameColumns(db4, i, [f \in kept |-> old.schema[f].name], [f \in kept |-> new.schema[f].name])
    IN  AddFields(DropColumns(db5, i, NamesOf(new, retyped)), i, new, retyped)

update_collection_table(db, i, old, new) ==
    IF old.type = "view" \/ new.type = "view"
    THEN IF old.name # new.name \/ old.type # new.type \/ old.query # new.query
         THEN _replace_collection_object(db, i, old, new) ELSE db
    ELSE _sync_collection_indexes(Alter(db, i, old, new), i, old, new)

-----------------------------------------------------------------------------
(* Requests *)

Database == [rel |-> relations, idx |-> indexes, ok |-> TRUE]

Becomes(db) == db.ok /\ relations' = db.rel /\ indexes' = db.idx

NameIsFree(i, name) == \A j \in Ids \ {i} : collections[j] # Nothing => collections[j].name # name

create_collection(i) ==
    /\ collections[i] = Nothing
    /\ \E d \in Definitions[i] :
          /\ NameIsFree(i, d.name)
          /\ Becomes(create_collection_table(Database, i, d))
          /\ collections' = [collections EXCEPT ![i] = d]
    /\ UNCHANGED content

(* A field keeps its values unless it goes or its type changes. *)
Keeps(i, old, new) ==
    IF old.type = "view" \/ new.type = "view"
    THEN IF old.type # new.type \/ old.name # new.name \/ old.query # new.query THEN {} ELSE content[i]
    ELSE {f \in content[i] : f \in DOMAIN new.schema /\ new.schema[f].type = old.schema[f].type}

update_collection(i) ==
    /\ collections[i] # Nothing
    /\ \E d \in Definitions[i] \ {collections[i]} :
          /\ NameIsFree(i, d.name)
          /\ Becomes(update_collection_table(Database, i, collections[i], d))
          /\ collections' = [collections EXCEPT ![i] = d]
          /\ content' = [content EXCEPT ![i] = Keeps(i, collections[i], d)]

delete_collection(i) ==
    /\ collections[i] # Nothing
    /\ Becomes(_drop_collection_object(Database, i))
    /\ collections' = [collections EXCEPT ![i] = Nothing]
    /\ content' = [content EXCEPT ![i] = {}]

IsTable(i) == collections[i] # Nothing /\ collections[i].type # "view"
Field(i, c) == {f \in DOMAIN collections[i].schema : collections[i].schema[f].name = c}

truncate_collection(i) ==
    LET cols == relations[i].cols
    IN  /\ IsTable(i)
        /\ relations' = [relations EXCEPT ![i].cols = [c \in DOMAIN cols |-> _col_ddl(cols[c].type)]]
        /\ content' = [content EXCEPT ![i] = {}]
        /\ UNCHANGED <<collections, indexes>>

(* Records fill the columns; a column's values remember their field. *)
create_record(i) ==
    LET cols == relations[i].cols
        Fill(c) == IF Field(i, c) = {} THEN cols[c]
                   ELSE [type |-> cols[c].type, data |-> CHOOSE f \in Field(i, c) : TRUE]
    IN  /\ IsTable(i)
        /\ relations' = [relations EXCEPT ![i].cols = [c \in DOMAIN cols |-> Fill(c)]]
        /\ content' = [content EXCEPT ![i] = DOMAIN collections[i].schema]
        /\ UNCHANGED <<collections, indexes>>

Next ==
    \E i \in Ids :
        \/ create_collection(i) \/ update_collection(i) \/ delete_collection(i)
        \/ truncate_collection(i) \/ create_record(i)

Spec == Init /\ [][Next]_vars

-----------------------------------------------------------------------------
(* The reconciliation of a backup, and what is true of the values *)

build_collection_table_spec(d) ==
    Merged([c \in SystemColumns(d) |-> "system"], TypesOf(d, DOMAIN d.schema))

_reconcile_table_against_canonical(i) ==
    build_collection_table_spec(collections[i])
        = [c \in DOMAIN relations[i].cols |-> relations[i].cols[c].type]

validate_collection_indexes(i) ==
    LET expected == expected_collection_index_statements(collections[i])
        actual == {n \in DOMAIN indexes : indexes[n].owner = i}
    IN  /\ actual = DOMAIN expected
        /\ \A n \in actual : /\ indexes[n].column = expected[n].column
                             /\ indexes[n].method = expected[n].method

validate_collection_view(i) ==
    /\ relations[i].kind = "view"
    /\ relations[relations[i].on].name = collections[i].query.from
    /\ relations[i].wide = collections[i].query.wide

validate_canonical_collection_objects(i) ==
    IF collections[i].type = "view" THEN validate_collection_view(i)
    ELSE validate_collection_indexes(i) /\ _reconcile_table_against_canonical(i)

(* PostgreSQL renamed the source in the view, not in options.query. *)
SourceRenamed(i) ==
    /\ collections[i].type = "view"
    /\ relations[relations[i].on].name # collections[i].query.from

\* However collections are created, renamed, retyped, switched between base,
\* auth and view, and deleted (update_collection_table): their tables, views and
\* indexes are what the metadata says, so that a backup is not refused
\* (validate_canonical_collection_objects), except for a view whose source was
\* renamed under it.
LiveSchemaIsCanonical ==
    \A i \in Ids : collections[i] # Nothing => SourceRenamed(i) \/ validate_canonical_collection_objects(i)

\* The values of a field stay in its column, under whatever name, until the
\* field goes or changes its type (update_collection_table).
ValuesFollowField ==
    \A i \in Ids : IsTable(i) =>
        \A f \in DOMAIN collections[i].schema :
            relations[i].cols[collections[i].schema[f].name].data
                = IF f \in content[i] THEN f ELSE Nothing
=============================================================================
