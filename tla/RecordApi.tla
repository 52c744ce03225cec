----------------------------- MODULE RecordApi -----------------------------
(***************************************************************************)
(* Record requests under the collections' API rules: api/records.py with   *)
(* services/record_service.py, services/rule_engine.py and                 *)
(* services/expand_service.py.                                             *)
(*                                                                         *)
(* An auth collection "users" and a base collection "posts" whose author   *)
(* field is a relation with cascadeDelete.  A mutation runs in one READ    *)
(* COMMITTED transaction, a batch runs all its sub-requests in one; rules  *)
(* are judged by statements of their own, so what they saw can be stale    *)
(* when the write follows.  The expression rule is the usual one: the      *)
(* record is the caller (users), or belongs to the caller (posts).         *)
(*                                                                         *)
(* The commit is one step here; its ambiguity is RecordStorage's subject.  *)
(***************************************************************************)
EXTENDS Integers, Sequences, FiniteSets

CONSTANTS
    Tasks,           \* requests served at the same time
    Users, Posts,    \* record ids of the two collections
    Admin, Guest,    \* callers that are not records of users
    Callers,         \* who sends requests
    Gone,            \* marks a record that does not exist
    MaxServed,       \* bound: requests and sub-requests ever served
    MaxOps,          \* maxRequests of the batch settings
    RuleSets         \* the rules the collections may have

ASSUME RecordApiAssumption ==
    /\ MaxServed \in Nat /\ MaxOps \in Nat \ {0}
    /\ Admin \notin Users /\ Guest \notin Users /\ Admin # Guest
    /\ Callers \subseteq Users \cup {Admin, Guest}

VARIABLES
    db,        \* committed rows
    rules,     \* rules of the collections, the same throughout
    req,       \* the request each task serves
    writes,    \* what its transaction has written and holds locked
    served,    \* requests and sub-requests served
    moved,     \* history: records others changed since the request began
    seen       \* history: its record as it could be seen since it was resolved

vars == <<db, rules, req, writes, served, moved, seen>>

Records == Users \cup Posts
Rule == {"superusers", "public", "owner"}   \* null, "" and an expression
Actions == {"create", "update", "delete", "view", "manage"}
Collections == {"users", "posts"}
CollectionOf(r) == IF r \in Users THEN "users" ELSE "posts"

UserRow == [verified : BOOLEAN]
PostRow == [author : Users]
RowsOf(r) == IF r \in Users THEN UserRow ELSE PostRow

(* What a request's body sets: the author of a post; for a user a managed  *)
(* field or its password.                                                  *)
Bodies(r) == IF r \in Users THEN {"verified", "password"} ELSE Users

Idle == [at |-> "idle", auth |-> Guest, batch |-> FALSE, ops |-> 0, op |-> "none",
         rec |-> Gone, body |-> Gone, related |-> {},
         adrift |-> {},    \* history: posts it gave to a user it saw gone
         shown |-> {}]

(* Ids, and the words that stand for a body or for no record, are distinct. *)
ASSUME IdsAssumption ==
    /\ Users \cap Posts = {} /\ Gone \notin Records \cup UserRow \cup PostRow
    /\ {"verified", "password"} \cap (Users \cup {Gone}) = {}
ASSUME RulesAssumption == RuleSets \subseteq [Collections -> [Actions -> Rule]]

AnyRow == UserRow \cup PostRow \cup {Gone}
WriteSets == UNION {[D -> AnyRow] : D \in SUBSET Records}
States == {"idle", "arrived", "next", "resolved", "judged", "managed", "inserted",
           "cascade", "read", "checked", "done", "refused", "answered"}
Requests == [at : States, auth : Callers \cup {Guest}, batch : BOOLEAN, ops : 0 .. MaxOps,
             op : {"none", "create", "update", "delete", "upsert", "view"},
             rec : Records \cup {Gone}, body : Users \cup {"verified", "password", Gone},
             related : SUBSET Records, adrift : SUBSET Posts, shown : SUBSET AnyRow]

TypeOK ==
    /\ db \in [Records -> AnyRow] /\ \A r \in Records : db[r] \in RowsOf(r) \cup {Gone}
    /\ rules \in [Collections -> [Actions -> Rule]]
    /\ req \in [Tasks -> Requests]
    /\ writes \in [Tasks -> WriteSets]
    /\ \A t \in Tasks : \A r \in DOMAIN writes[t] : writes[t][r] \in RowsOf(r) \cup {Gone}
    /\ served \in 0 .. MaxServed
    /\ moved \in [Tasks -> SUBSET Records] /\ seen \in [Tasks -> SUBSET AnyRow]

Init ==
    /\ \E u \in Users, p \in SUBSET Posts :
         db = [r \in Records |-> IF r \in Users THEN [verified |-> FALSE] ELSE
                                 IF r \in p THEN [author |-> u] ELSE Gone]
    /\ rules \in RuleSets
    /\ req = [t \in Tasks |-> Idle]
    /\ writes = [t \in Tasks |-> <<>>]
    /\ served = 0
    /\ moved = [t \in Tasks |-> {}]
    /\ seen = [t \in Tasks |-> {}]

-----------------------------------------------------------------------------
(* Rules *)

check_rule(rule, a) ==
    IF rule = "public" \/ a = Admin THEN "yes" ELSE
    IF rule = "superusers" THEN "no" ELSE "expression"

(* SELECT 1 ... WHERE id = ... AND (expression), over the row given. *)
check_record_rule(a, r, row) ==
    /\ row # Gone
    /\ IF r \in Users THEN r = a ELSE row.author = a

Allows(rule, a, r, row) ==
    \/ check_rule(rule, a) = "yes"
    \/ check_rule(rule, a) = "expression" /\ check_record_rule(a, r, row)

RuleFor(t) == rules[CollectionOf(req[t].rec)]

-----------------------------------------------------------------------------
(* The request's transaction *)

View(t, r) == IF r \in DOMAIN writes[t] THEN writes[t][r] ELSE db[r]

(* Another transaction has written the row and not ended. *)
Locked(t, r) == \E s \in Tasks \ {t} : r \in DOMAIN writes[s]

(* A statement of t sets the row; the caller waits for its lock. *)
Writes(t, r, row) ==
    /\ ~Locked(t, r)
    /\ writes' = [writes EXCEPT ![t] =
                    [x \in DOMAIN @ \cup {r} |-> IF x = r THEN row ELSE @[x]]]

Goes(t, where) == req' = [req EXCEPT ![t].at = where]

Refuse(t) ==
    /\ req' = [req EXCEPT ![t] = [@ EXCEPT !.at = "refused", !.rec = Gone, !.op = "none",
                                    !.body = Gone]]
    /\ UNCHANGED writes

(* The handler of a request or sub-request has answered with success. *)
Done(t) ==
    req' = [req EXCEPT ![t].at = "done", ![t].op = "none",
                       ![t].rec = Gone, ![t].body = Gone]

quiet == <<db, rules, served, moved, seen>>

Arrives(t, a, batch) ==
    /\ req[t].at = "idle" /\ served < MaxServed
    /\ a \in Users => db[a] # Gone
    /\ req' = [req EXCEPT ![t] = [Idle EXCEPT !.at = "arrived", !.auth = a,
                                              !.batch = batch]]
    /\ UNCHANGED <<quiet, writes>>

(* The caller's token was verified against its record, in a transaction of *)
(* its own that has ended.                                                 *)
_get_mutation_auth(t, a) == Arrives(t, a, FALSE)

(* A batch that is enabled, of a legal size and well formed. *)
api_batch_records(t, a) == Arrives(t, a, TRUE)

(* The shared barrier is entered and the transaction begun. *)
BeginTransaction(t) ==
    /\ req[t].at = "arrived"
    /\ Goes(t, "next")
    /\ moved' = [moved EXCEPT ![t] = {}]
    /\ UNCHANGED <<db, rules, writes, served, seen>>

(* maxRequests of the settings. *)
_get_batch_settings(t) == IF req[t].batch THEN MaxOps ELSE 1

(* POST, PATCH and DELETE; PUT only in a batch. *)
_parse_batch_target(t) ==
    {"create", "update", "delete"} \cup IF req[t].batch THEN {"upsert"} ELSE {}

(* A request, or the next one of a batch, resolves its collection inside   *)
(* the transaction.                                                        *)
resolve_collection(t, op, r, body) ==
    /\ req[t].at = "next"
    /\ req[t].ops < _get_batch_settings(t) /\ op \in _parse_batch_target(t)
    /\ served < MaxServed /\ served' = served + 1
    /\ req' = [req EXCEPT ![t].at = "resolved", ![t].op = op, ![t].rec = r,
                          ![t].body = body, ![t].related = {}]
    /\ seen' = [seen EXCEPT ![t] = {View(t, r)}]
    /\ UNCHANGED <<db, rules, writes, moved>>

(* PUT in a batch: an update if the record is there, else a create. *)
_execute_batch_upsert(t) ==
    /\ req[t].at = "resolved" /\ req[t].op = "upsert"
    /\ req' = [req EXCEPT ![t].op = IF View(t, req[t].rec) # Gone THEN "update"
                                                                  ELSE "create"]
    /\ UNCHANGED <<quiet, writes>>

(* The hook chain around the handler answers with an error, before it or   *)
(* after it has done its work; a body that does not validate.              *)
HookRefuses(t) ==
    /\ req[t].at \in {"resolved", "done"} /\ req[t].op # "view"
    /\ Refuse(t)
    /\ UNCHANGED quiet

-----------------------------------------------------------------------------
(* Create *)

NewRow(r, body) ==
    IF r \in Users THEN [verified |-> body = "verified"] ELSE [author |-> body]

(* Nothing checks that the author a post is given exists. *)
Strays(t, r) == IF r \in Posts /\ View(t, req[t].body) = Gone THEN {r} ELSE {}

(* INSERT; one whose id exists fails. *)
create_record(t) ==
    LET r == req[t].rec IN
    /\ req[t].at = "resolved" /\ req[t].op = "create"
    /\ IF check_rule(RuleFor(t).create, req[t].auth) = "no" \/ View(t, r) # Gone
       THEN Refuse(t)
       ELSE /\ Writes(t, r, NewRow(r, req[t].body))
            /\ req' = [req EXCEPT ![t].at = "inserted",
                                  ![t].adrift = @ \cup Strays(t, r)]
    /\ UNCHANGED quiet

_has_manage_access_for_auth_record(t) ==
    Allows(RuleFor(t).manage, req[t].auth, req[t].rec, View(t, req[t].rec))

(* Mutant: the managed fields of a new auth record are not looked at. *)
CreateUnmanaged(t) ==
    LET r == req[t].rec IN
    /\ req[t].at = "inserted"
    /\ IF Allows(RuleFor(t).create, req[t].auth, r, View(t, r))
       THEN Done(t) /\ UNCHANGED writes
       ELSE Refuse(t)
    /\ UNCHANGED quiet

(* The rule is judged on the row just inserted, and a managed field needs  *)
(* manage access; only then is the create answered with success.           *)
JudgeCreated(t) ==
    LET r == req[t].rec IN
    /\ req[t].at = "inserted"
    /\ IF /\ Allows(RuleFor(t).create, req[t].auth, r, View(t, r))
          /\ req[t].body = "verified" => _has_manage_access_for_auth_record(t)
       THEN Done(t) /\ UNCHANGED writes
       ELSE Refuse(t)
    /\ UNCHANGED quiet

(* The handler of a request and the one of a batch are alike. *)
_default_create_handler(t) == ~req[t].batch /\ JudgeCreated(t)

_apply_batch_create(t) == req[t].batch /\ JudgeCreated(t)

-----------------------------------------------------------------------------
(* Update and delete *)

(* The update or delete rule is judged on the row as it is before. *)
JudgeExisting(t, op, next) ==
    LET r == req[t].rec IN
    /\ req[t].at = "resolved" /\ req[t].op = op
    /\ IF Allows(RuleFor(t)[op], req[t].auth, r, View(t, r))
       THEN Goes(t, next) /\ UNCHANGED writes
       ELSE Refuse(t)
    /\ UNCHANGED quiet

(* Only an auth record has managed fields. *)
JudgeUpdate(t) ==
    JudgeExisting(t, "update", IF req[t].rec \in Users THEN "judged" ELSE "managed")

_default_update_handler(t) == ~req[t].batch /\ JudgeUpdate(t)

_apply_batch_update(t) == req[t].batch /\ JudgeUpdate(t)

_default_delete_handler(t) == ~req[t].batch /\ JudgeExisting(t, "delete", "judged")

_apply_batch_delete(t) == req[t].batch /\ JudgeExisting(t, "delete", "judged")

_is_self_auth_target(t) == req[t].rec = req[t].auth

(* A managed field needs manage access; a user may set its own password. *)
JudgeManaged(t) ==
    /\ req[t].at = "judged" /\ req[t].op = "update"
    /\ IF \/ _has_manage_access_for_auth_record(t)
          \/ _is_self_auth_target(t) /\ req[t].body = "password"
       THEN Goes(t, "managed") /\ UNCHANGED writes
       ELSE Refuse(t)
    /\ UNCHANGED quiet

NewValue(t, r) ==
    IF r \in Posts THEN [author |-> req[t].body]
    ELSE [verified |-> View(t, r).verified \/ req[t].body = "verified"]

(* UPDATE ... WHERE id; a record that is gone by then is not found. *)
update_record(t) ==
    LET r == req[t].rec IN
    /\ req[t].at = "managed" /\ ~Locked(t, r)
    /\ IF View(t, r) = Gone THEN Refuse(t)
       ELSE /\ Writes(t, r, NewValue(t, r))
            /\ req' = [req EXCEPT ![t].at = "done", ![t].op = "none", ![t].rec = Gone,
                                  ![t].body = Gone, ![t].adrift = @ \cup Strays(t, r)]
    /\ UNCHANGED quiet

(* Mutant: the records that refer to the deleted one are not looked for. *)
CascadeNothing(t) ==
    /\ req[t].at = "judged" /\ req[t].op = "delete"
    /\ IF View(t, req[t].rec) = Gone THEN Refuse(t)
       ELSE Goes(t, "cascade") /\ UNCHANGED writes
    /\ UNCHANGED quiet

(* delete_record reads the row, then _cascade_delete the ids that refer to *)
(* it, whatever their own rules say.                                       *)
_cascade_delete(t) ==
    LET r == req[t].rec IN
    /\ req[t].at = "judged" /\ req[t].op = "delete"
    /\ IF View(t, r) = Gone THEN Refuse(t)
       ELSE /\ req' = [req EXCEPT ![t].at = "cascade",
                           ![t].related = {p \in Posts : View(t, p) # Gone
                                                         /\ View(t, p).author = r}]
            /\ UNCHANGED writes
    /\ UNCHANGED quiet

(* A related record is deleted in turn; one that is gone already is not. *)
DeleteRelated(t, p) ==
    /\ req[t].at = "cascade" /\ p \in req[t].related /\ ~Locked(t, p)
    /\ req' = [req EXCEPT ![t].related = @ \ {p}]
    /\ IF View(t, p) = Gone THEN UNCHANGED writes ELSE Writes(t, p, Gone)
    /\ UNCHANGED quiet

(* DELETE ... WHERE id, also successful when the row has gone meanwhile. *)
delete_record(t) ==
    LET r == req[t].rec IN
    /\ req[t].at = "cascade" /\ req[t].related = {} /\ ~Locked(t, r)
    /\ IF View(t, r) = Gone THEN UNCHANGED writes ELSE Writes(t, r, Gone)
    /\ Done(t)
    /\ UNCHANGED quiet

(* The next sub-request of the batch. *)
NextInBatch(t) ==
    /\ req[t].at = "done" /\ req[t].batch
    /\ req' = [req EXCEPT ![t].at = "next", ![t].ops = @ + 1]
    /\ UNCHANGED <<quiet, writes>>

-----------------------------------------------------------------------------
(* The end of the request *)

Ends(t) ==
    /\ req' = [req EXCEPT ![t] = Idle]
    /\ writes' = [writes EXCEPT ![t] = <<>>]
    /\ UNCHANGED <<rules, served>>

Commits(t) ==
    LET touched == {r \in DOMAIN writes[t] : writes[t][r] # db[r]} IN
    /\ db' = [r \in Records |-> View(t, r)]
    /\ moved' = [s \in Tasks |-> IF s = t \/ req[s].at = "idle" THEN {}
                                 ELSE moved[s] \cup touched]
    /\ seen' = [s \in Tasks |-> IF s = t THEN {} ELSE
                    seen[s] \cup {writes[t][r] : r \in touched \cap {req[s].rec}}]

Discards(t) ==
    /\ db' = db
    /\ moved' = [moved EXCEPT ![t] = {}]
    /\ seen' = [seen EXCEPT ![t] = {}]

(* Mutant: an error response is an answer like any other, and commits. *)
CommitAnyResponse(t) ==
    /\ ~req[t].batch
    /\ \/ req[t].at = "done" /\ Commits(t) /\ Ends(t)
       \/ req[t].at = "refused" /\ Commits(t) /\ Ends(t)

(* A single request: a response below 400 commits, one from 400 aborts. *)
_run_storage_transaction(t) ==
    /\ ~req[t].batch
    /\ \/ req[t].at = "done" /\ Commits(t) /\ Ends(t)
       \/ req[t].at = "refused" /\ Discards(t) /\ Ends(t)

(* A batch commits after its last sub-request; the first that fails raises *)
(* _BatchRequestFailed.                                                    *)
_run_batch(t) ==
    /\ req[t].batch
    /\ \/ req[t].at = "next" /\ Commits(t) /\ Ends(t)
       \/ req[t].at = "refused" /\ Discards(t) /\ Ends(t)

(* The batch timeout, a statement that fails (a deadlock, a constraint), a *)
(* lost session, a cancelled request: rolled back.                         *)
RequestFails(t) ==
    /\ req[t].at \notin {"idle", "read", "checked", "answered"}
    /\ Discards(t) /\ Ends(t)

Answered(t) ==
    /\ req[t].at = "answered"
    /\ req' = [req EXCEPT ![t] = Idle]
    /\ moved' = [moved EXCEPT ![t] = {}]
    /\ seen' = [seen EXCEPT ![t] = {}]
    /\ UNCHANGED <<db, rules, served, writes>>

-----------------------------------------------------------------------------
(* Reading *)

(* View: the record, then its rule, then what it expands to, each read by  *)
(* a statement outside any transaction.                                    *)
ViewRequest(t, a, p) ==
    /\ req[t].at = "idle" /\ served < MaxServed
    /\ a \in Users => db[a] # Gone
    /\ served' = served + 1
    /\ req' = [req EXCEPT ![t] = [Idle EXCEPT !.at = "resolved", !.auth = a, !.op = "view", !.rec = p]]
    /\ moved' = [moved EXCEPT ![t] = {}]
    /\ UNCHANGED <<db, rules, writes, seen>>

get_record(t) ==
    /\ req[t].at = "resolved" /\ req[t].op = "view"
    /\ IF check_rule(RuleFor(t).view, req[t].auth) = "no" \/ db[req[t].rec] = Gone
       THEN Discards(t) /\ Ends(t)
       ELSE /\ req' = [req EXCEPT ![t].at = "read", ![t].shown = {db[req[t].rec]}]
            /\ UNCHANGED <<quiet, writes>>

_default_view_handler(t) ==
    /\ req[t].at = "read"
    /\ IF Allows(RuleFor(t).view, req[t].auth, req[t].rec, db[req[t].rec])
       THEN Goes(t, "checked") /\ UNCHANGED <<quiet, writes>>
       ELSE Discards(t) /\ Ends(t)

_expand_path(rows) == {u \in Users : db[u] # Gone /\ \E row \in rows : row.author = u}

(* The author as it is by now is added, without a rule of its own; one     *)
(* that is gone is left out.                                               *)
expand_records(t) ==
    /\ req[t].at = "checked"
    /\ req' = [req EXCEPT ![t].at = "answered",
                          ![t].related = _expand_path(req[t].shown)]
    /\ UNCHANGED <<quiet, writes>>

(* A client filter is a list of alternatives, each the posts it holds for. *)
Filters == {<<>>} \cup {<<{p}>> : p \in Posts}
           \cup {<<{p}, {q}>> : p \in Posts, q \in Posts}
Holds(filter, p) == \E i \in DOMAIN filter : p \in filter[i]

(* Mutant: the rule is put before the filter without parentheses. *)
RuleBindsFirst(rule, a, filter, p) ==
    \/ /\ filter = <<>> \/ p \in filter[1]
       /\ Allows(rule, a, p, db[p])
    \/ \E i \in 2 .. Len(filter) : p \in filter[i]

(* The WHERE of a list: (rule) && (filter). *)
effective_filter(rule, a, filter, p) ==
    /\ filter = <<>> \/ Holds(filter, p)
    /\ Allows(rule, a, p, db[p])

(* One SELECT judges and reads the rows. *)
list_records(t, a, filter) ==
    /\ req[t].at = "idle" /\ served < MaxServed
    /\ a \in Users => db[a] # Gone
    /\ served' = served + 1
    /\ LET rule == rules["posts"].view
           rows == {p \in Posts : db[p] # Gone /\ effective_filter(rule, a, filter, p)}
       IN req' = [req EXCEPT ![t] = [Idle EXCEPT
                    !.at = "answered", !.auth = a, !.op = "view",
                    !.shown = IF check_rule(rule, a) = "no" THEN {}
                              ELSE {db[p] : p \in rows}]]
    /\ moved' = [moved EXCEPT ![t] = {}]
    /\ UNCHANGED <<db, rules, writes, seen>>

-----------------------------------------------------------------------------
TaskNext(t) ==
    \/ \E a \in Callers : _get_mutation_auth(t, a) \/ api_batch_records(t, a)
    \/ BeginTransaction(t)
    \/ \E r \in Records : \E body \in Bodies(r) :
         \E op \in {"create", "update", "upsert"} : resolve_collection(t, op, r, body)
    \/ \E r \in Records : resolve_collection(t, "delete", r, Gone)
    \/ _execute_batch_upsert(t) \/ HookRefuses(t)
    \/ create_record(t) \/ _default_create_handler(t)
    \/ _apply_batch_create(t) \/ _default_update_handler(t) \/ _apply_batch_update(t)
    \/ _default_delete_handler(t) \/ _apply_batch_delete(t)
    \/ JudgeManaged(t) \/ update_record(t)
    \/ _cascade_delete(t) \/ (\E p \in Posts : DeleteRelated(t, p)) \/ delete_record(t)
    \/ NextInBatch(t) \/ _run_storage_transaction(t) \/ _run_batch(t)
    \/ RequestFails(t) \/ Answered(t)
    \/ \E a \in Callers, p \in Posts : ViewRequest(t, a, p)
    \/ get_record(t) \/ _default_view_handler(t) \/ expand_records(t)
    \/ \E a \in Callers, f \in Filters : list_records(t, a, f)

Next == \E t \in Tasks : TaskNext(t)

Spec == Init /\ [][Next]_vars

-----------------------------------------------------------------------------
(* Rows change only when a request ends whose every sub-request was        *)
(* answered with success: a refused or failed one leaves nothing, nor do   *)
(* the sub-requests before the one at which a batch failed.                *)
RefusedLeavesNothing ==
    [][db' # db => \E t \in Tasks : /\ req[t].at \in {"done", "next"}
                                    /\ req'[t].at = "idle"]_vars

(* The caller may do this to the record it names, or is about to create.   *)
Permitted(t, action) ==
    \E row \in IF req[t].op = "create" THEN {NewRow(req[t].rec, req[t].body)}
                                      ELSE seen[t] :
        Allows(RuleFor(t)[action], req[t].auth, req[t].rec, row)

(* A handler that answers with success was allowed what it did, on the     *)
(* record as it could be seen at some moment since its collection was      *)
(* resolved: it is changed or deleted by its own update or delete rule, by *)
(* an upsert too, created only if the new row satisfies the create rule,   *)
(* and a user is verified only with manage access to it.                   *)
PermittedDuringRequest ==
    [][\A t \in Tasks : req'[t].at = "done" /\ req[t].at # "done"
         => /\ Permitted(t, req[t].op)
            /\ req[t].body = "verified" => Permitted(t, "manage")]_vars

(* When the deletion of a user commits, no post is left that referred to   *)
(* it, except one somebody else changed or created meanwhile and one the   *)
(* same batch gave to it again when it was already gone.                   *)
CascadeComplete ==
    [][\A u \in Users, t \in Tasks :
         /\ db[u] # Gone /\ db'[u] = Gone
         /\ req[t].at # "idle" /\ req'[t].at = "idle"
         => \A p \in Posts \ (moved[t] \cup req[t].adrift) :
              db[p] # Gone /\ db[p].author = u
                => db'[p] = Gone \/ db'[p].author # u]_vars

(* What a list or a view answers is a row the view rule allows the caller; *)
(* only a view of a record that changed between its two reads can show a   *)
(* row that a later one was judged for.                                    *)
ShownIsPermitted ==
    \A t \in Tasks : req[t].at = "answered"
        => \/ req[t].rec # Gone /\ req[t].rec \in moved[t]
           \/ check_rule(rules["posts"].view, req[t].auth) = "yes"
           \/ \A row \in req[t].shown : row.author = req[t].auth
=============================================================================
