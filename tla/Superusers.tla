----------------------------- MODULE Superusers -----------------------------
(***************************************************************************)
(* Superusers and the setup of the first one (services/admin_service.py,   *)
(* setup_service.py, api/admins.py, api/deps.py).  Each request is one     *)
(* READ COMMITTED transaction of several statements: a count or a token    *)
(* that it read may be stale when it writes.                               *)
(***************************************************************************)
EXTENDS Integers, FiniteSets

CONSTANTS Supers,     \* ids of _superusers
          Pws,
          Keys,       \* token keys and setup tokens (a forgotten one is reused)
          Requests,
          NoRow, Idle

VARIABLES row,     \* _superusers
          setup,   \* the setup token in _params
          session, \* tokens that clients hold
          req,     \* requests between two statements
          spent,   \* history: setup tokens that created a superuser
          reused,  \* history: a setup token was honoured again later
          raced    \* history: two deletions overlapped

vars == <<row, setup, session, req, spent, reused, raced>>

Row == [pw : Pws, key : Keys]
Token == [id : Supers, key : Keys, pw : Pws]
Request == [op : {"setup", "delete"}, id : Supers, key : Keys \cup {NoRow},
            seen : SUBSET Supers, late : BOOLEAN]

TypeOK ==
    /\ row \in [Supers -> Row \cup {NoRow}]
    /\ setup \in Keys \cup {NoRow} /\ spent \subseteq Keys \cup {NoRow}
    /\ session \subseteq Token
    /\ req \in [Requests -> Request \cup {Idle}]
    /\ reused \in BOOLEAN /\ raced \in BOOLEAN

Exists(i) == row[i] # NoRow
Admins == {i \in Supers : Exists(i)}
count_admins == Cardinality(Admins)

KeysInUse ==
    {row[i].key : i \in Admins} \cup {t.key : t \in session} \cup {setup}
    \cup {req[r].key : r \in {q \in Requests : req[q] # Idle}}

\* generate_token_key and _generate_setup_token: a value nobody holds.  Which
\* one does not matter; it is the first one.
generate_token_key == IF Keys \subseteq KeysInUse THEN {} ELSE {CHOOSE k \in Keys : k \notin KeysInUse}

create_admin_token(i, rec) == [id |-> i, key |-> rec.key, pw |-> rec.pw]

\* get_optional_auth and require_admin: signed with the key the row has now.
require_admin(t) == Exists(t.id) /\ t.key = row[t.id].key

\* Bound: one token in circulation.
Issue(t) == session' = {t}

Begin(r, op, i, seen) ==
    /\ req[r] = Idle
    /\ req' = [req EXCEPT ![r] = [op |-> op, id |-> i, key |-> setup, seen |-> seen,
                                  late |-> op = "setup" /\ setup \in spent]]
End(r) == req' = [req EXCEPT ![r] = Idle]
Busy(r, op) == req[r] # Idle /\ req[r].op = op

auth_with_password ==
    /\ \E i \in Admins, pw \in Pws :
          row[i].pw = pw /\ Issue(create_admin_token(i, row[i]))
    /\ UNCHANGED <<row, setup, req, spent, reused, raced>>

\* The row is the one the session loaded to check the token.
auth_refresh ==
    /\ \E t \in session : require_admin(t) /\ Issue(create_admin_token(t.id, row[t.id]))
    /\ UNCHANGED <<row, setup, req, spent, reused, raced>>

Forget ==
    /\ session' = {}
    /\ UNCHANGED <<row, setup, req, spent, reused, raced>>

create_admin(i) ==
    /\ i \in Supers /\ ~Exists(i)
    /\ \E pw \in Pws, k \in generate_token_key :
          row' = [row EXCEPT ![i] = [pw |-> pw, key |-> k]]

api_create_admin ==
    /\ \E t \in session : require_admin(t)
    /\ \E i \in Supers : create_admin(i)
    /\ UNCHANGED <<setup, session, req, spent, reused, raced>>

\* A new password takes a new token key with it.
update_admin ==
    \E i \in Admins, pw \in Pws, k \in generate_token_key :
        row' = [row EXCEPT ![i] = [pw |-> pw, key |-> k]]

api_update_admin ==
    /\ \E t \in session : require_admin(t)
    /\ update_admin
    /\ UNCHANGED <<setup, session, req, spent, reused, raced>>

\* Any superuser may set the password of any other.
change_password ==
    /\ \E t \in session : require_admin(t)
    /\ update_admin
    /\ UNCHANGED <<setup, session, req, spent, reused, raced>>

----------------------------------------------------------------------------
\* Startup with no superuser prints the setup URL.
get_or_create_setup_token ==
    /\ count_admins = 0 /\ setup = NoRow
    /\ setup' \in generate_token_key
    /\ spent' = spent \ {setup'}
    /\ UNCHANGED <<row, session, req, reused, raced>>

validate_setup_token(r) ==
    /\ count_admins = 0 /\ setup # NoRow
    /\ \E i \in Supers : Begin(r, "setup", i, {})
    /\ UNCHANGED <<row, setup, session, spent, reused, raced>>

\* Mutant: the setup token stays after its use.
KeepSetupToken(r) == UNCHANGED setup

\* DELETE of the row that was read; no row is not an error.
consume_setup_token(r) == setup' = IF setup = req[r].key THEN NoRow ELSE setup

\* consume_setup_token and create_admin, one transaction.
init_admin(r) ==
    /\ Busy(r, "setup")
    /\ consume_setup_token(r)
    /\ create_admin(req[r].id)
    /\ spent' = spent \cup {req[r].key}
    /\ reused' = (reused \/ req[r].late)
    /\ End(r)
    /\ UNCHANGED <<session, raced>>

\* The count is read before the row is deleted.
api_delete_admin(r) ==
    /\ count_admins > 1
    /\ \E t \in session : require_admin(t)
    /\ \E i \in Admins : Begin(r, "delete", i, Admins)
    /\ UNCHANGED <<row, setup, session, spent, reused, raced>>

delete_admin(r) ==
    /\ Busy(r, "delete")
    /\ row' = [row EXCEPT ![req[r].id] = NoRow]
    /\ raced' = (raced \/ ~(req[r].seen \subseteq Admins))
    /\ End(r)
    /\ UNCHANGED <<setup, session, spent, reused>>

\* The client goes away or a statement fails: the transaction is rolled back.
Rollback(r) ==
    /\ req[r] # Idle /\ End(r)
    /\ UNCHANGED <<row, setup, session, spent, reused, raced>>

----------------------------------------------------------------------------
Init ==
    /\ row = [i \in Supers |-> NoRow]
    /\ setup = NoRow /\ session = {}
    /\ req = [r \in Requests |-> Idle]
    /\ spent = {} /\ reused = FALSE /\ raced = FALSE

Next ==
    \/ auth_with_password \/ auth_refresh \/ Forget
    \/ api_create_admin \/ api_update_admin \/ change_password \/ get_or_create_setup_token
    \/ \E r \in Requests : \/ validate_setup_token(r) \/ init_admin(r)
                           \/ api_delete_admin(r) \/ delete_admin(r) \/ Rollback(r)

Spec == Init /\ [][Next]_vars

\* A change of a superuser's password ends the sessions of the old one.
SuperuserSessions ==
    \A t \in session : require_admin(t) => t.pw = row[t.id].pw

\* A setup token that created a superuser is refused to every request that
\* reads it later, whatever is deleted or restarted in between.
SetupTokenOnce == ~reused

\* Once there is a superuser one remains, unless two deletions overlapped.
AdminRemains ==
    Admins = {} => raced \/ spent = {}
=============================================================================
