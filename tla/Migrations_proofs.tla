------------------------- MODULE Migrations_proofs -------------------------
(***************************************************************************)
(* Proofs about what superusers administer (MCMigrations): the accounts    *)
(* (Superusers, OAuth2SignIn) and the migration files (Migrations), for    *)
(* any number of concurrent requests, superusers, accounts, collections,   *)
(* files and faults.                                                       *)
(*                                                                         *)
(* The accounts need to know what a request carries between two of its     *)
(* statements: a setup token that is still in the table has created        *)
(* nobody, a deletion counted two superusers, a sign-in that inserted an   *)
(* account still has to link it (SInv, OInv).                              *)
(*                                                                         *)
(* The files need the same of the open transaction as of the committed     *)
(* history (Accounted), because a COMMIT may land when its actor is gone;  *)
(* that a free lock means there is no transaction (Session), which is why  *)
(* a reconciliation under the lock may unlink; that names are never used   *)
(* twice (Numbered); and that what a snapshot unlinks is its own file      *)
(* (Owns).                                                                 *)
(*                                                                         *)
(* The hooks need that the records of a file carry its own ids, so that a  *)
(* rescan of one file leaves the bindings of the others alone (HInv).      *)
(*                                                                         *)
(* The replay needs a witness for the files as a chain: g[f], the database *)
(* the files up to f make of an empty one. Every file that is recorded, is *)
(* being recorded or waits on disk fits the state before it; what is       *)
(* committed and what the open transaction would commit are both states of *)
(* that chain (Explained). A file no history has yet is the newest, or     *)
(* its author's next step would leave a hole (Newest, Backed), and a       *)
(* runner's list is everything pending in order, or the newest rows        *)
(* backwards (Plan).                                                       *)
(***************************************************************************)
EXTENDS MCMigrations, FiniteSetTheorems, TLAPS

----------------------------------------------------------------------------
\* Superusers and sign-ins through a provider.

\* A setup token in the table has created nobody; a request never carries one
\* that had; a deletion counted two superusers.
Unspent == setup = NoRow \/ setup \notin spent
Carries(r) ==
    adminReq[r] # Idle =>
        /\ ~adminReq[r].late
        /\ adminReq[r].op = "delete" => \E i, j \in adminReq[r].seen : i # j

SInv ==
    /\ S!TypeOK /\ S!SuperuserSessions /\ S!SetupTokenOnce /\ S!AdminRemains
    /\ Unspent /\ \A r \in Actors : Carries(r)

\* Of more than one superuser there are two.
LEMMA TwoOf ==
    ASSUME NEW D, IsFiniteSet(D), Cardinality(D) > 1
    PROVE  \E i, j \in D : i # j
<1>1. D # {}
  BY FS_EmptySet
<1>2. PICK i \in D : TRUE
  BY <1>1
<1>3. D # {i}
  BY FS_Singleton
<1> QED BY <1>2, <1>3

\* A fresh key ends the sessions a row had.
LEMMA FreshKey ==
    ASSUME SInv, NEW i \in Supers, NEW pw \in Pws, NEW k \in S!generate_token_key,
           admins' = [admins EXCEPT ![i] = [pw |-> pw, key |-> k]], sessions' = sessions
    PROVE  /\ admins' \in [Supers -> S!Row \cup {NoRow}]
           /\ S!SuperuserSessions'
           /\ S!Admins' = S!Admins \cup {i}
<1>1. k \in Keys /\ k \notin S!KeysInUse
  <2>1. ~(Keys \subseteq S!KeysInUse) /\ k = CHOOSE x \in Keys : x \notin S!KeysInUse
    BY DEF S!generate_token_key
  <2> QED BY <2>1
<1>2. [pw |-> pw, key |-> k] \in S!Row
  BY <1>1 DEF S!Row
<1>3. admins \in [Supers -> S!Row \cup {NoRow}] /\ sessions \subseteq S!Token
  BY DEF SInv, S!TypeOK
<1>4. /\ admins' \in [Supers -> S!Row \cup {NoRow}]
      /\ admins'[i] = [pw |-> pw, key |-> k] /\ \A j \in Supers : j # i => admins'[j] = admins[j]
  BY <1>2, <1>3
<1>5. S!Admins' = S!Admins \cup {i}
  BY <1>2, <1>4, AdministrationAssumption DEF S!Admins, S!Exists
<1>6. \A t \in sessions : t.key # k
  BY <1>1 DEF S!KeysInUse
<1>7. ASSUME NEW t \in sessions', S!require_admin(t)' PROVE t.pw = admins'[t.id].pw
  <2>1. t \in sessions /\ t.id \in Supers
    BY <1>3, <1>7 DEF S!Token
  <2>2. t.id # i
    BY <1>4, <1>6, <1>7, <2>1 DEF S!require_admin
  <2>3. S!require_admin(t)
    BY <1>4, <1>7, <2>1, <2>2 DEF S!require_admin, S!Exists
  <2> QED BY <1>4, <2>1, <2>2, <2>3 DEF SInv, S!SuperuserSessions
<1> QED BY <1>4, <1>5, <1>7 DEF S!SuperuserSessions

\* A token that is issued is signed with the key and the password of the row.
LEMMA IssueStep ==
    ASSUME SInv, S!auth_with_password \/ S!auth_refresh \/ S!Forget
    PROVE  SInv'
<1>1. /\ admins \in [Supers -> S!Row \cup {NoRow}] /\ sessions \subseteq S!Token
      /\ UNCHANGED <<admins, setup, adminReq, spent, reused, raced>>
  BY DEF SInv, S!TypeOK, S!auth_with_password, S!auth_refresh, S!Forget
<1>2. \/ sessions' = {}
      \/ \E i \in S!Admins : sessions' = {S!create_admin_token(i, admins[i])}
  <2>1. CASE S!auth_with_password
    BY <2>1 DEF S!auth_with_password, S!Issue
  <2>2. CASE S!auth_refresh
    <3>1. PICK t \in sessions : S!require_admin(t) /\ sessions' = {S!create_admin_token(t.id, admins[t.id])}
      BY <2>2 DEF S!auth_refresh, S!Issue
    <3>2. t.id \in S!Admins
      BY <1>1, <3>1 DEF S!require_admin, S!Admins, S!Token
    <3> QED BY <3>1, <3>2
  <2>3. CASE S!Forget BY <2>3 DEF S!Forget
  <2> QED BY <2>1, <2>2, <2>3
<1>3. sessions' \subseteq S!Token /\ S!SuperuserSessions'
  <2>1. CASE sessions' = {}
    BY <2>1 DEF S!SuperuserSessions
  <2>2. ASSUME NEW i \in S!Admins, sessions' = {S!create_admin_token(i, admins[i])}
        PROVE  sessions' \subseteq S!Token /\ S!SuperuserSessions'
    <3>1. PICK t : t = S!create_admin_token(i, admins[i])
      OBVIOUS
    <3>2. i \in Supers /\ admins[i] \in S!Row
      BY <1>1 DEF S!Admins, S!Exists
    <3>3. t \in S!Token /\ t.id = i /\ t.pw = admins[i].pw
      BY <3>1, <3>2 DEF S!create_admin_token, S!Token, S!Row
    <3> QED BY <1>1, <2>2, <3>1, <3>3 DEF S!SuperuserSessions
  <2> QED BY <1>2, <2>1, <2>2
<1>4. S!TypeOK'
  BY <1>1, <1>3 DEF SInv, S!TypeOK
<1> QED BY <1>1, <1>3, <1>4 DEF SInv, S!SetupTokenOnce, S!AdminRemains, S!Admins, S!Exists,
                                Unspent, Carries

\* api_create_admin, api_update_admin and change_password
\* draw a fresh key for the row they write.
LEMMA AccountStep ==
    ASSUME SInv, S!api_create_admin \/ S!api_update_admin \/ S!change_password
    PROVE  SInv'
<1>1. UNCHANGED <<setup, sessions, adminReq, spent, reused, raced>>
  BY DEF S!api_create_admin, S!api_update_admin, S!change_password
<1>2. PICK i \in Supers, pw \in Pws, k \in S!generate_token_key :
         admins' = [admins EXCEPT ![i] = [pw |-> pw, key |-> k]]
  BY DEF S!api_create_admin, S!api_update_admin, S!change_password, S!create_admin,
         S!update_admin, S!Admins
<1>3. /\ admins' \in [Supers -> S!Row \cup {NoRow}] /\ S!SuperuserSessions' /\ S!Admins' = S!Admins \cup {i}
  BY <1>1, <1>2, FreshKey
<1>4. S!TypeOK'
  BY <1>1, <1>3 DEF SInv, S!TypeOK
<1> QED BY <1>1, <1>3, <1>4 DEF SInv, S!SetupTokenOnce, S!AdminRemains, Unspent, Carries

\* Another request of the table is not touched.
LEMMA RequestStep ==
    ASSUME SInv, NEW r \in Actors, NEW q \in S!Request \cup {Idle},
           adminReq' = [adminReq EXCEPT ![r] = q],
           q # Idle => ~q.late /\ (q.op = "delete" => \E i, j \in q.seen : i # j)
    PROVE  adminReq' \in [Actors -> S!Request \cup {Idle}] /\ \A s \in Actors : Carries(s)'
<1>1. adminReq \in [Actors -> S!Request \cup {Idle}]
  BY DEF SInv, S!TypeOK
<1>2. \A s \in Actors : adminReq'[s] = IF s = r THEN q ELSE adminReq[s]
  BY <1>1
<1> QED BY <1>1, <1>2 DEF SInv, Carries

\* validate_setup_token reads the token, init_admin locks, compares and deletes
\* it with the superuser it creates.
LEMMA SetupStep ==
    ASSUME SInv,
           S!get_or_create_setup_token \/ \E r \in Actors : S!validate_setup_token(r) \/ S!init_admin(r)
    PROVE  SInv'
<1>0. S!TypeOK /\ Unspent /\ \A r \in Actors : Carries(r)
  BY DEF SInv
<1>1. CASE S!get_or_create_setup_token
  <2>1. setup' \in Keys /\ spent' = spent \ {setup'} /\ UNCHANGED <<admins, sessions, adminReq, reused, raced>>
    <3>1. setup' \in S!generate_token_key
      BY <1>1 DEF S!get_or_create_setup_token
    <3>2. ~(Keys \subseteq S!KeysInUse) /\ setup' = CHOOSE x \in Keys : x \notin S!KeysInUse
      BY <3>1 DEF S!generate_token_key
    <3> QED BY <1>1, <3>2 DEF S!get_or_create_setup_token
  <2>2. S!TypeOK'
    BY <1>0, <2>1 DEF S!TypeOK
  <2>3. Unspent' BY <2>1 DEF Unspent
  <2> QED BY <2>1, <2>2, <2>3 DEF SInv, S!SetupTokenOnce, S!AdminRemains, S!Admins, S!Exists,
                                  Carries,
                                  S!SuperuserSessions, S!require_admin
<1>2. ASSUME NEW r \in Actors, S!validate_setup_token(r) PROVE SInv'
  <2>1. PICK i, q : /\ i \in Supers
                    /\ q = [op |-> "setup", id |-> i, key |-> setup, seen |-> {},
                           late |-> "setup" = "setup" /\ setup \in spent]
                    /\ adminReq' = [adminReq EXCEPT ![r] = q]
    <3>1. PICK i \in Supers : S!Begin(r, "setup", i, {})
      BY <1>2 DEF S!validate_setup_token
    <3>2. adminReq' = [adminReq EXCEPT ![r] = [op |-> "setup", id |-> i, key |-> setup, seen |-> {},
                                               late |-> "setup" = "setup" /\ setup \in spent]]
      BY <3>1 DEF S!Begin
    <3> QED BY <3>2
  <2>2. setup # NoRow /\ UNCHANGED <<admins, setup, sessions, spent, reused, raced>>
    BY <1>2 DEF S!validate_setup_token
  <2>3. ("setup" = "setup" /\ setup \in spent) = FALSE
    BY <1>0, <2>2 DEF Unspent
  <2>4. q \in S!Request /\ q.late = FALSE /\ q.op = "setup"
    BY <1>0, <2>1, <2>3 DEF S!Request, S!TypeOK
  <2>5. adminReq' \in [Actors -> S!Request \cup {Idle}] /\ \A s \in Actors : Carries(s)'
    BY <2>1, <2>4, RequestStep
  <2>6. S!TypeOK'
    BY <1>0, <2>2, <2>5 DEF S!TypeOK
  <2> QED BY <2>2, <2>5, <2>6 DEF SInv, S!SetupTokenOnce, S!AdminRemains, S!Admins, S!Exists,
                                  Unspent,
                                  S!SuperuserSessions, S!require_admin
<1>3. ASSUME NEW r \in Actors, S!init_admin(r) PROVE SInv'
  <2>1. /\ adminReq[r] # Idle /\ adminReq[r].op = "setup" /\ S!create_admin(adminReq[r].id)
        /\ spent' = spent \cup {adminReq[r].key} /\ reused' = (reused \/ adminReq[r].late)
        /\ setup' = IF setup = adminReq[r].key THEN NoRow ELSE setup
        /\ adminReq' = [adminReq EXCEPT ![r] = Idle] /\ UNCHANGED <<sessions, raced>>
    BY <1>3 DEF S!init_admin, S!Busy, S!consume_setup_token, S!End
  <2>2. /\ adminReq[r] \in S!Request /\ adminReq[r].key \in Keys \cup {NoRow} /\ adminReq[r].late = FALSE
    <3>1. adminReq[r] \in S!Request
      BY <1>0, <2>1 DEF S!TypeOK
    <3>2. adminReq[r].late \in BOOLEAN /\ ~adminReq[r].late /\ adminReq[r].key \in Keys \cup {NoRow}
      BY <1>0, <2>1, <3>1 DEF S!Request, Carries
    <3> QED BY <3>1, <3>2
  <2>3. PICK i \in Supers, pw \in Pws, k \in S!generate_token_key :
           admins' = [admins EXCEPT ![i] = [pw |-> pw, key |-> k]]
    BY <2>1 DEF S!create_admin
  <2>4. /\ admins' \in [Supers -> S!Row \cup {NoRow}] /\ S!SuperuserSessions' /\ S!Admins' = S!Admins \cup {i}
    BY <2>1, <2>3, FreshKey
  <2>5. adminReq' \in [Actors -> S!Request \cup {Idle}] /\ \A s \in Actors : Carries(s)'
    BY <2>1, RequestStep
  <2>6. reused' = FALSE
    BY <2>1, <2>2 DEF SInv, S!SetupTokenOnce
  <2>7. S!TypeOK'
    BY <1>0, <2>1, <2>2, <2>4, <2>5, <2>6 DEF S!TypeOK
  <2>8. Unspent'
    BY <1>0, <2>1 DEF Unspent
  <2>9. S!AdminRemains' /\ S!SetupTokenOnce'
    BY <2>4, <2>6 DEF S!AdminRemains, S!SetupTokenOnce
  <2> QED BY <2>4, <2>5, <2>7, <2>8, <2>9 DEF SInv
<1> QED BY <1>1, <1>2, <1>3

\* delete_admin counts the superusers and deletes in a statement of its own.
LEMMA DeletionStep ==
    ASSUME SInv, NEW r \in Actors, S!api_delete_admin(r) \/ S!delete_admin(r) \/ S!Rollback(r)
    PROVE  SInv'
<1>0. S!TypeOK /\ Unspent /\ Carries(r)
  BY DEF SInv
<1>1. CASE S!api_delete_admin(r)
  <2>1. PICK i, q : /\ i \in S!Admins
                    /\ q = [op |-> "delete", id |-> i, key |-> setup, seen |-> S!Admins, late |-> FALSE]
                    /\ adminReq' = [adminReq EXCEPT ![r] = q]
    <3>1. PICK i \in S!Admins : S!Begin(r, "delete", i, S!Admins)
      BY <1>1 DEF S!api_delete_admin
    <3>2. adminReq' = [adminReq EXCEPT ![r] = [op |-> "delete", id |-> i, key |-> setup, seen |-> S!Admins,
                                               late |-> "delete" = "setup" /\ setup \in spent]]
      BY <3>1 DEF S!Begin
    <3> QED BY <3>2
  <2>2. UNCHANGED <<admins, setup, sessions, spent, reused, raced>>
    BY <1>1 DEF S!api_delete_admin
  <2>3. \E x, y \in S!Admins : x # y
    <3>0. S!count_admins > 1 BY <1>1 DEF S!api_delete_admin
    <3>1. Cardinality(S!Admins) > 1 BY <3>0 DEF S!count_admins, S!Cardinality, Cardinality
    <3>2. IsFiniteSet(S!Admins) BY AdministrationAssumption, FS_Subset DEF S!Admins
    <3> QED BY <3>1, <3>2, TwoOf
  <2>4. q \in S!Request /\ q.late = FALSE /\ q.seen = S!Admins
    BY <1>0, <2>1 DEF S!Request, S!TypeOK, S!Admins
  <2>5. adminReq' \in [Actors -> S!Request \cup {Idle}] /\ \A s \in Actors : Carries(s)'
    BY <2>1, <2>3, <2>4, RequestStep
  <2>6. S!TypeOK'
    BY <1>0, <2>2, <2>5 DEF S!TypeOK
  <2> QED BY <2>2, <2>5, <2>6 DEF SInv, S!SetupTokenOnce, S!AdminRemains, S!Admins, S!Exists,
                                  Unspent,
                                  S!SuperuserSessions, S!require_admin
<1>2. CASE S!delete_admin(r)
  <2>1. /\ adminReq[r] # Idle /\ adminReq[r].op = "delete"
        /\ admins' = [admins EXCEPT ![adminReq[r].id] = NoRow]
        /\ raced' = (raced \/ ~(adminReq[r].seen \subseteq S!Admins))
        /\ adminReq' = [adminReq EXCEPT ![r] = Idle] /\ UNCHANGED <<setup, sessions, spent, reused>>
    BY <1>2 DEF S!delete_admin, S!Busy, S!End
  <2>2. adminReq[r] \in S!Request /\ adminReq[r].id \in Supers
    BY <1>0, <2>1 DEF S!TypeOK, S!Request
  <2>3. adminReq' \in [Actors -> S!Request \cup {Idle}] /\ \A s \in Actors : Carries(s)'
    BY <2>1, RequestStep
  <2>4. /\ admins \in [Supers -> S!Row \cup {NoRow}] /\ admins' \in [Supers -> S!Row \cup {NoRow}]
        /\ \A j \in Supers : admins'[j] = IF j = adminReq[r].id THEN NoRow ELSE admins[j]
    BY <1>0, <2>1, <2>2 DEF S!TypeOK
  <2>5. S!SuperuserSessions'
    <3>1. \A t \in sessions : t.id \in Supers
      BY <1>0 DEF S!TypeOK, S!Token
    <3> QED BY <2>1, <2>4, <3>1 DEF SInv, S!SuperuserSessions, S!require_admin, S!Exists
  <2>6. S!AdminRemains'
    <3>1. SUFFICES ASSUME S!Admins' = {}, ~raced', spent # {} PROVE FALSE
      BY <2>1 DEF S!AdminRemains
    <3>2. ~raced /\ adminReq[r].seen \subseteq S!Admins
      BY <2>1, <3>1
    <3>3. PICK x, y \in adminReq[r].seen : x # y
      BY <1>0, <2>1 DEF Carries
    <3>4. PICK x1 \in S!Admins : x1 # adminReq[r].id
      BY <3>2, <3>3
    <3>5. x1 \in S!Admins'
      BY <2>4, <3>4 DEF S!Admins, S!Exists
    <3> QED BY <3>1, <3>5
  <2>7. S!TypeOK'
    <3>1. raced' \in BOOLEAN BY <2>1
    <3> QED BY <1>0, <2>1, <2>3, <2>4, <3>1 DEF S!TypeOK
  <2> QED BY <2>1, <2>3, <2>5, <2>6, <2>7 DEF SInv, S!SetupTokenOnce, Unspent
<1>3. CASE S!Rollback(r)
  <2>1. adminReq' = [adminReq EXCEPT ![r] = Idle] /\ UNCHANGED <<admins, setup, sessions, spent, reused, raced>>
    BY <1>3 DEF S!Rollback, S!End
  <2>2. adminReq' \in [Actors -> S!Request \cup {Idle}] /\ \A s \in Actors : Carries(s)'
    BY <2>1, RequestStep
  <2>3. S!TypeOK'
    BY <1>0, <2>1, <2>2 DEF S!TypeOK
  <2> QED BY <2>1, <2>2, <2>3 DEF SInv, S!SetupTokenOnce, S!AdminRemains, S!Admins, S!Exists,
                                  Unspent,
                                  S!SuperuserSessions, S!require_admin
<1> QED BY <1>1, <1>2, <1>3

\* One step per request of the superusers.
LEMMA SuperusersStep ==
    ASSUME SInv, S!Next
    PROVE  SInv'
  BY IssueStep, AccountStep, SetupStep, DeletionStep DEF S!Next

\* The other parts leave the superusers alone.
LEMMA SuperusersRest ==
    ASSUME SInv, UNCHANGED superusers
    PROVE  SInv'
<1>1. UNCHANGED <<admins, setup, sessions, adminReq, spent, reused, raced>>
  BY DEF superusers
<1> QED BY <1>1 DEF SInv, S!TypeOK, S!SuperuserSessions, S!require_admin, S!Exists,
                    S!SetupTokenOnce,
                    S!AdminRemains, S!Admins, Unspent, Carries

\* A new installation has no superuser and at most an unspent setup token.
LEMMA SuperusersBegin == S!Init => SInv
  BY DEF S!Init, SInv, S!TypeOK, S!SuperuserSessions, S!SetupTokenOnce, S!AdminRemains, Unspent,
         Carries

\* A sign-in about to insert its link has a record; one that created a record
\* is about to link it.
Links(r) ==
    signIn[r] # Idle =>
        /\ signIn[r].at = "link" => signIn[r].id \in Accounts
        /\ signIn[r].new => signIn[r].at = "link"

OInv ==
    /\ links \in [Identities -> Accounts \cup {NoRow}]
    /\ signIn \in [Actors -> O!Request \cup {Idle}]
    /\ made \subseteq Accounts /\ dropped \in BOOLEAN
    /\ \A r \in Actors : Links(r)
    /\ O!MadeIsLinked

\* A sign-in that moves on leaves the others where they are.
LEMMA SignInStep ==
    ASSUME OInv, NEW r \in Actors, NEW q \in O!Request \cup {Idle},
           signIn' = [signIn EXCEPT ![r] = q],
           q # Idle => /\ q.at = "link" => q.id \in Accounts
                       /\ q.new => q.at = "link"
    PROVE  signIn' \in [Actors -> O!Request \cup {Idle}] /\ \A s \in Actors : Links(s)'
<1>1. signIn \in [Actors -> O!Request \cup {Idle}]
  BY DEF OInv
<1>2. \A s \in Actors : signIn'[s] = IF s = r THEN q ELSE signIn[s]
  BY <1>1
<1> QED BY <1>1, <1>2 DEF OInv, Links

\* One step per stage of link_or_create_oauth_user, and the requests beside it.
LEMMA OAuth2Step ==
    ASSUME OInv, O!Next
    PROVE  OInv'
<1>1. ASSUME NEW r \in Actors, O!api_auth_with_oauth2(r) PROVE OInv'
  <2>1. UNCHANGED <<links, made, dropped>>
    BY <1>1 DEF O!api_auth_with_oauth2
  <2>2. PICK p, e, i, at :
           /\ p \in Identities /\ e \in Emails /\ i \in Accounts \cup {NoRow}
           /\ at \in {"linked", "link", "create"} /\ (at = "link" => i \in Accounts)
           /\ O!Begin(r, p, e, i, at)
    <3>1. PICK info \in Identities \X Emails :
             \/ /\ links[info[1]] # NoRow /\ account[links[info[1]]] # NoRow
                /\ O!Begin(r, info[1], info[2], links[info[1]], "linked")
             \/ /\ links[info[1]] = NoRow
                /\ \E i \in O!ByEmail(info[2]) : O!Begin(r, info[1], info[2], i, "link")
             \/ /\ links[info[1]] = NoRow /\ O!ByEmail(info[2]) = {}
                /\ O!Begin(r, info[1], info[2], NoRow, "create")
      BY <1>1 DEF O!api_auth_with_oauth2, O!get_user_info
    <3>2. info[1] \in Identities /\ info[2] \in Emails /\ links[info[1]] \in Accounts \cup {NoRow}
          /\ O!ByEmail(info[2]) \subseteq Accounts
      BY DEF OInv, O!ByEmail
    <3> QED BY <3>1, <3>2
  <2>3. PICK q : q = [identity |-> p, email |-> e, id |-> i, at |-> at, new |-> FALSE]
    OBVIOUS
  <2>4. q \in O!Request /\ q.at = at /\ q.id = i /\ q.new = FALSE
    BY <2>2, <2>3 DEF O!Request
  <2>5. signIn' = [signIn EXCEPT ![r] = q]
    BY <2>2, <2>3 DEF O!Begin
  <2>6. signIn' \in [Actors -> O!Request \cup {Idle}] /\ \A s \in Actors : Links(s)'
    BY <2>2, <2>4, <2>5, SignInStep
  <2> QED BY <2>1, <2>6 DEF OInv, O!MadeIsLinked
<1>2. ASSUME NEW r \in Actors, O!create_oauth_record(r) PROVE OInv'
  <2>1. UNCHANGED <<links, made, dropped>> /\ signIn[r] # Idle /\ signIn[r] \in O!Request
    BY <1>2 DEF O!create_oauth_record, O!At, OInv
  <2>2. CASE O!End(r)
    <3>1. signIn' \in [Actors -> O!Request \cup {Idle}] /\ \A s \in Actors : Links(s)'
      BY <2>2, SignInStep DEF O!End
    <3> QED BY <2>1, <3>1 DEF OInv, O!MadeIsLinked
  <2>3. CASE ~O!End(r)
    <3>1. PICK i \in Accounts : signIn' = [signIn EXCEPT ![r].id = i, ![r].at = "link", ![r].new = TRUE]
      BY <1>2, <2>3 DEF O!create_oauth_record
    <3>2. PICK q : q = [signIn[r] EXCEPT !.id = i, !.at = "link", !.new = TRUE]
      OBVIOUS
    <3>3. q \in O!Request /\ q.id = i /\ q.at = "link"
      BY <2>1, <3>2 DEF O!Request
    <3>4. signIn' = [signIn EXCEPT ![r] = q]
      BY <2>1, <3>1, <3>2 DEF OInv, O!Request
    <3>5. signIn' \in [Actors -> O!Request \cup {Idle}] /\ \A s \in Actors : Links(s)'
      BY <3>3, <3>4, SignInStep
    <3> QED BY <2>1, <3>5 DEF OInv, O!MadeIsLinked
  <2> QED BY <2>2, <2>3
<1>3. ASSUME NEW r \in Actors, O!link_or_create_oauth_user(r) PROVE OInv'
  <2>1. /\ signIn[r] # Idle /\ signIn[r].at = "link" /\ signIn' = [signIn EXCEPT ![r] = Idle]
        /\ links' = [links EXCEPT ![signIn[r].identity] = IF @ = NoRow THEN signIn[r].id ELSE @]
        /\ made' = IF signIn[r].new THEN made \cup {signIn[r].id} ELSE made
        /\ dropped' = (dropped \/ (signIn[r].new /\ links[signIn[r].identity] # NoRow))
    BY <1>3 DEF O!link_or_create_oauth_user, O!At, O!End
  <2>2. PICK p, i : p = signIn[r].identity /\ i = signIn[r].id
    OBVIOUS
  <2>3. p \in Identities /\ i \in Accounts /\ signIn[r].new \in BOOLEAN
    BY <2>1, <2>2 DEF OInv, Links, O!Request
  <2>4. /\ links \in [Identities -> Accounts \cup {NoRow}] /\ links' \in [Identities -> Accounts \cup {NoRow}]
        /\ \A x \in Identities : links'[x] = IF x = p /\ links[p] = NoRow THEN i ELSE links[x]
    BY <2>1, <2>2, <2>3 DEF OInv
  <2>5. signIn' \in [Actors -> O!Request \cup {Idle}] /\ \A s \in Actors : Links(s)'
    BY <2>1, SignInStep
  <2>6. made' \subseteq Accounts /\ made' \subseteq made \cup {i} /\ (~signIn[r].new => made' = made)
    BY <2>1, <2>2, <2>3 DEF OInv
  <2>7. dropped' \in BOOLEAN /\ (dropped => dropped')
        /\ (signIn[r].new /\ links[p] # NoRow => dropped')
    BY <2>1, <2>2, <2>3 DEF OInv
  <2>8. ASSUME NEW x \in made', ~dropped' PROVE \E y \in Identities : links'[y] = x
    <3>1. CASE x \in made
      <4>1. PICK y \in Identities : links[y] = x
        BY <2>7, <2>8, <3>1 DEF OInv, O!MadeIsLinked
      <4>2. x # NoRow
        BY <3>1, AdministrationAssumption DEF OInv
      <4> QED BY <2>4, <4>1, <4>2
    <3>2. CASE x \notin made
      <4>1. x = i /\ signIn[r].new /\ links[p] = NoRow
        BY <2>6, <2>7, <2>8, <3>2
      <4> QED BY <2>3, <2>4, <4>1
    <3> QED BY <3>1, <3>2
  <2>9. O!MadeIsLinked'
    BY <2>7, <2>8 DEF O!MadeIsLinked
  <2> QED BY <2>4, <2>5, <2>6, <2>7, <2>9 DEF OInv
<1>4. ASSUME NEW r \in Actors, O!Finish(r) \/ O!Abort(r) PROVE OInv'
  <2>1. /\ signIn[r] # Idle /\ signIn' = [signIn EXCEPT ![r] = Idle] /\ UNCHANGED <<links, made>>
        /\ dropped' = dropped \/ dropped' = (dropped \/ signIn[r].new)
    BY <1>4 DEF O!Finish, O!Abort, O!End, O!At
  <2>2. signIn[r].new \in BOOLEAN
    BY <2>1 DEF OInv, O!Request
  <2>3. dropped' \in BOOLEAN /\ (dropped => dropped')
    BY <2>1, <2>2 DEF OInv
  <2>4. signIn' \in [Actors -> O!Request \cup {Idle}] /\ \A s \in Actors : Links(s)'
    BY <2>1, SignInStep
  <2> QED BY <2>1, <2>3, <2>4 DEF OInv, O!MadeIsLinked
<1>5. ASSUME NEW i \in Accounts, O!delete_record(i) \/ O!update_record(i) PROVE OInv'
  <2>1. UNCHANGED <<links, signIn, dropped>> /\ made' \subseteq made
    BY <1>5 DEF O!delete_record, O!update_record
  <2> QED BY <2>1 DEF OInv, O!MadeIsLinked, Links
<1> QED BY <1>1, <1>2, <1>3, <1>4, <1>5 DEF O!Next

\* The other parts leave the accounts and their links alone.
LEMMA OAuth2Rest ==
    ASSUME OInv, UNCHANGED oauth2
    PROVE  OInv'
<1>1. UNCHANGED <<links, signIn, made, dropped>>
  BY DEF oauth2
<1> QED BY <1>1 DEF OInv, O!MadeIsLinked, Links

\* Nobody is signing in at first.
LEMMA OAuth2Begin == O!Init \/ NoAccounts => OInv
  BY DEF O!Init, NoAccounts, OInv, O!MadeIsLinked, Links

\* update_admin, init_admin, delete_admin and link_or_create_oauth_user keep
\* their promises for any number of superusers, accounts, identities and
\* concurrent requests.
THEOREM AccountsStaySound == AdministrationSpec => []AccountsAreSound
<1>1. AdministrationInit => SInv /\ OInv
  BY SuperusersBegin, OAuth2Begin DEF AdministrationInit
<1>2. SInv /\ OInv /\ [AdministrationNext]_<<part, vars, superusers, oauth2, hooks>> => (SInv /\ OInv)'
  <2>1. AdministrationNext => S!Next \/ UNCHANGED superusers
    BY DEF AdministrationNext
  <2>2. AdministrationNext => O!Next \/ UNCHANGED oauth2
    BY DEF AdministrationNext
  <2> QED BY <2>1, <2>2, SuperusersStep, SuperusersRest, OAuth2Step, OAuth2Rest
<1>3. SInv /\ OInv => AccountsAreSound
  BY DEF SInv, OInv, AccountsAreSound
<1> QED BY <1>1, <1>2, <1>3, PTL DEF AdministrationSpec

----------------------------------------------------------------------------
\* Hooks: handlers, the files that bound them and the settings that disable them.

\* A manager's record, and what is known of the handlers of one file.
IsManager(m) ==
    /\ m = [dir |-> m.dir, files |-> m.files, bound |-> m.bound, disabled |-> m.disabled,
            served |-> m.served, strays |-> m.strays, full |-> m.full]
    /\ m.dir \in [HookFiles -> H!Source \cup {NoRow}]
    /\ m.files \in [HookFiles -> H!FileState \cup {NoRow}]
    /\ m.bound \in [H!Ids -> H!Handler \cup {NoRow}]
    /\ m.disabled \subseteq HookFiles /\ m.served \subseteq HookFiles /\ m.strays \subseteq H!Ids

\* The handlers a file's state knows.
Knows(m, f) == IF m.files[f] = NoRow THEN {} ELSE m.files[f].functions

\* The handlers under a file's ids: the ones its state knows are bound, the
\* others were left behind.
Traced(m, f) ==
    /\ \A b \in Knows(m, f) : b[1] = f /\ m.bound[b] # NoRow
    /\ \A b \in H!Ids : b[1] = f /\ m.bound[b] # NoRow =>
          m.bound[b].file = f /\ (b \in m.strays \/ b \in Knows(m, f))

\* The routes of a loaded file are served.
Routed(m, f) ==
    m.files[f] # NoRow /\ m.files[f].status = "loaded" =>
        \A b \in Knows(m, f) : m.bound[b].content = "routes" => f \in m.served

\* A disabled file has no handlers.
Enabled(m, f) ==
    m.files[f] # NoRow /\ ~m.files[f].enabled => Knows(m, f) = {}

\* What is known of one file.
OwnFile(m, f) == Traced(m, f) /\ Routed(m, f) /\ Enabled(m, f)

\* A step for one file leaves the others alone.
StepFor(f, m, r) ==
    /\ \A g \in HookFiles \ {f} : r.dir[g] = m.dir[g] /\ r.files[g] = m.files[g]
    /\ \A b \in H!Ids : b[1] # f => r.bound[b] = m.bound[b]
    /\ \A g \in HookFiles \ {f} : g \in r.served <=> g \in m.served
    /\ m.strays \subseteq r.strays

\* Nothing the manager keeps is the absence of it.
LEMMA Distinct ==
    /\ \A x \in H!Source : x # NoRow
    /\ \A x \in H!FileState : x # NoRow
    /\ \A x \in H!Handler : x # NoRow
    /\ \A x \in H!Request : x # NoRow
BY AdministrationAssumption

\* The state of an enabled file.
LEMMA StateFields ==
    ASSUME NEW s \in {"loaded", "error", "disabled", "unsupported_for_hot_reload"},
           NEW fs \in SUBSET H!Ids, NEW x, x = H!State(TRUE, s, fs)
    PROVE  x \in H!FileState /\ x # NoRow /\ x.enabled /\ x.status = s /\ x.functions = fs
<1>1. x \in H!FileState
  BY DEF H!State, H!FileState
<1> QED BY <1>1, Distinct DEF H!State

\* The state of a disabled file knows no handler.
LEMMA DisabledState ==
    ASSUME NEW x, x = H!State(FALSE, "disabled", {})
    PROVE  x \in H!FileState /\ x # NoRow /\ ~x.enabled /\ x.functions = {}
<1>1. x \in H!FileState
  BY DEF H!State, H!FileState
<1> QED BY <1>1, Distinct DEF H!State

\* A handler remembers its file and what the file said.
LEMMA HandlerFields ==
    ASSUME NEW f \in HookFiles, NEW c \in H!Contents
    PROVE  /\ H!Hook(f, c) \in H!Handler /\ H!Hook(f, c) # NoRow
           /\ H!Hook(f, c).file = f /\ H!Hook(f, c).content = c
<1>1. H!Hook(f, c) \in H!Handler
  BY DEF H!Hook, H!Handler
<1> QED BY <1>1, Distinct DEF H!Hook

\* A file that is there is loaded under a fresh id.
Status(c, frozen) ==
    IF c \in {"gone", "breaks"} THEN "error"
    ELSE IF c = "routes" /\ frozen THEN "unsupported_for_hot_reload" ELSE "loaded"

LoadsNone(m, f, r) ==
    /\ m.dir[f] = NoRow
    /\ r = [m EXCEPT !.strays = m.strays \cup m.files[f].functions,
                     !.files = [m.files EXCEPT ![f] = H!State(TRUE, "error", {})]]

Loads(m, f, frozen, b, c, r) ==
    /\ m.dir[f] # NoRow /\ c = m.dir[f].content
    /\ r = [dir |-> [m.dir EXCEPT ![f] = [m.dir[f] EXCEPT !.touched = FALSE]],
            files |-> [m.files EXCEPT ![f] =
                H!State(TRUE, Status(c, frozen), IF c = "breaks" THEN {} ELSE {b})],
            bound |-> [m.bound EXCEPT ![b] = H!Hook(f, c)],
            disabled |-> m.disabled,
            served |-> IF c = "routes" /\ ~frozen THEN m.served \cup {f} ELSE m.served,
            strays |-> m.strays \cup m.files[f].functions \cup (IF c = "breaks" THEN {b} ELSE {}),
            full |-> m.full]

\* _load_file loads a file that is there under a free id, or records an error.
LEMMA LoadFields ==
    ASSUME NEW m, IsManager(m), NEW f \in HookFiles, NEW frozen, m.files[f] # NoRow,
           NEW r, r = H!_load_file(m, f, frozen), ~r.full
    PROVE  LoadsNone(m, f, r) \/ \E b \in H!FreeIds(m, f), c \in H!Contents : Loads(m, f, frozen, b, c, r)
<1>1. CASE m.dir[f] = NoRow
  BY <1>1 DEF H!_load_file, IsManager, LoadsNone
<1>2. CASE m.dir[f] # NoRow
  <2>1. m.dir[f] \in H!Source
    BY <1>2 DEF IsManager
  <2>2. m.dir[f].content \in H!Contents /\ m.dir[f].content # "gone"
    BY <2>1 DEF H!Source, H!Contents
  <2>3. H!FreeIds(m, f) # {}
    <3>1. SUFFICES ASSUME H!FreeIds(m, f) = {} PROVE FALSE
      OBVIOUS
    <3>2. r = [m EXCEPT !.full = TRUE]
      BY <1>2, <2>2, <3>1 DEF H!_load_file
    <3> QED BY <3>2 DEF IsManager
  <2>4. PICK b : b = CHOOSE x \in H!FreeIds(m, f) : TRUE
    OBVIOUS
  <2>5. b \in H!FreeIds(m, f)
    BY <2>3, <2>4
  <2>6. PICK c : c = m.dir[f].content
    OBVIOUS
  <2>7. PICK t : t = [m EXCEPT !.strays = @ \cup m.files[f].functions]
    OBVIOUS
  <2>8. r = [t EXCEPT
                !.dir[f].touched = FALSE,
                !.bound[b] = H!Hook(f, c),
                !.served = IF c = "routes" THEN H!_wrap_route_registration(@, f, frozen) ELSE @,
                !.files[f] = H!State(TRUE, Status(c, frozen), IF c = "breaks" THEN {} ELSE {b}),
                !.strays = IF c = "breaks" THEN @ \cup {b} ELSE @]
    BY <1>2, <2>2, <2>3, <2>4, <2>6, <2>7 DEF H!_load_file, Status, H!Contents
  <2>9. t = [dir |-> m.dir, files |-> m.files, bound |-> m.bound, disabled |-> m.disabled,
             served |-> m.served, strays |-> m.strays \cup m.files[f].functions, full |-> m.full]
    BY <2>7 DEF IsManager
  <2>10. r = [dir |-> [m.dir EXCEPT ![f] = [m.dir[f] EXCEPT !.touched = FALSE]],
              files |-> [m.files EXCEPT ![f] =
                          H!State(TRUE, Status(c, frozen), IF c = "breaks" THEN {} ELSE {b})],
              bound |-> [m.bound EXCEPT ![b] = H!Hook(f, c)],
              disabled |-> m.disabled,
              served |-> IF c = "routes" /\ ~frozen THEN m.served \cup {f} ELSE m.served,
              strays |-> m.strays \cup m.files[f].functions \cup (IF c = "breaks" THEN {b} ELSE {}),
              full |-> m.full]
    BY <2>8, <2>9 DEF H!_wrap_route_registration
  <2>11. Loads(m, f, frozen, b, c, r)
    BY <1>2, <2>6, <2>10 DEF Loads
  <2> QED BY <2>2, <2>5, <2>6, <2>11
<1> QED BY <1>1, <1>2

\* After _load_file the file's handlers are known or counted as left behind.
LEMMA Loaded ==
    ASSUME NEW m, IsManager(m), NEW f \in HookFiles, NEW frozen, m.files[f] # NoRow,
           Traced(m, f), NEW r, r = H!_load_file(m, f, frozen), ~r.full
    PROVE  IsManager(r) /\ OwnFile(r, f) /\ StepFor(f, m, r) /\ r.disabled = m.disabled
<1>0. /\ m.files[f] \in H!FileState /\ m.files[f].functions \subseteq H!Ids
      /\ Knows(m, f) = m.files[f].functions
  BY DEF IsManager, H!FileState, Knows
<1>1. CASE LoadsNone(m, f, r)
  <2>1. /\ r = [dir |-> m.dir, files |-> r.files, bound |-> m.bound, disabled |-> m.disabled,
                served |-> m.served, strays |-> r.strays, full |-> m.full]
        /\ r.files = [m.files EXCEPT ![f] = H!State(TRUE, "error", {})]
        /\ r.strays = m.strays \cup m.files[f].functions
    BY <1>1 DEF IsManager, LoadsNone
  <2>2. /\ r.dir = m.dir /\ r.bound = m.bound /\ r.disabled = m.disabled /\ r.served = m.served
        /\ r.full = m.full
    BY <2>1
  <2>3. PICK s : s = H!State(TRUE, "error", {})
    OBVIOUS
  <2>4. s \in H!FileState /\ s # NoRow /\ s.status = "error" /\ s.functions = {} /\ s.enabled
    <3>1. {} \in SUBSET H!Ids
      OBVIOUS
    <3> QED BY <2>3, <3>1, StateFields
  <2>5. r.files \in [HookFiles -> H!FileState \cup {NoRow}] /\ r.files[f] = s
        /\ \A g \in HookFiles \ {f} : r.files[g] = m.files[g]
    BY <2>1, <2>3, <2>4 DEF IsManager
  <2>6. IsManager(r)
    BY <2>1, <2>2, <2>5, <1>0 DEF IsManager
  <2>7. Knows(r, f) = {}
    BY <2>4, <2>5 DEF Knows
  <2>8. Traced(r, f)
    BY <2>1, <2>2, <2>7, <1>0 DEF Traced
  <2>9. Routed(r, f) /\ Enabled(r, f)
    BY <2>7 DEF Routed, Enabled
  <2>10. StepFor(f, m, r)
    BY <2>1, <2>2, <2>5 DEF StepFor
  <2> QED BY <2>2, <2>6, <2>8, <2>9, <2>10 DEF OwnFile
<1>2. ASSUME NEW b \in H!FreeIds(m, f), NEW c \in H!Contents, Loads(m, f, frozen, b, c, r)
      PROVE  IsManager(r) /\ OwnFile(r, f) /\ StepFor(f, m, r) /\ r.disabled = m.disabled
  <2>1. b \in H!Ids /\ b[1] = f /\ m.bound[b] = NoRow
    BY DEF H!FreeIds
  <2>2. PICK s : s = H!State(TRUE, Status(c, frozen), IF c = "breaks" THEN {} ELSE {b})
    OBVIOUS
  <2>3. /\ s \in H!FileState /\ s # NoRow /\ s.status = Status(c, frozen) /\ s.enabled
        /\ s.functions = IF c = "breaks" THEN {} ELSE {b}
    <3>1. PICK st : st = Status(c, frozen)
      OBVIOUS
    <3>2. PICK fs : fs = IF c = "breaks" THEN {} ELSE {b}
      OBVIOUS
    <3>3. /\ st \in {"loaded", "error", "disabled", "unsupported_for_hot_reload"}
          /\ fs \in SUBSET H!Ids
      BY <2>1, <3>1, <3>2 DEF Status
    <3>4. s = H!State(TRUE, st, fs)
      BY <2>2, <3>1, <3>2
    <3>5. s \in H!FileState /\ s # NoRow /\ s.status = st /\ s.enabled /\ s.functions = fs
      <4>1. s \in H!FileState
        BY <3>3, <3>4 DEF H!State, H!FileState
      <4> QED BY <3>4, <4>1, Distinct DEF H!State
    <3> QED BY <3>1, <3>2, <3>5
  <2>4. PICK h : h = H!Hook(f, c)
    OBVIOUS
  <2>5. h \in H!Handler /\ h # NoRow /\ h.file = f /\ h.content = c
    BY <2>4, HandlerFields
  <2>6. PICK d : d = [m.dir[f] EXCEPT !.touched = FALSE]
    OBVIOUS
  <2>7. d \in H!Source
    BY <1>2, <2>6 DEF IsManager, H!Source, Loads
  <2>8. /\ r.dir = [m.dir EXCEPT ![f] = d] /\ r.files = [m.files EXCEPT ![f] = s]
        /\ r.bound = [m.bound EXCEPT ![b] = h] /\ r.disabled = m.disabled
        /\ r.served = IF c = "routes" /\ ~frozen THEN m.served \cup {f} ELSE m.served
        /\ r.strays = m.strays \cup m.files[f].functions \cup (IF c = "breaks" THEN {b} ELSE {})
        /\ r.full = m.full
        /\ r = [dir |-> r.dir, files |-> r.files, bound |-> r.bound, disabled |-> r.disabled,
                served |-> r.served, strays |-> r.strays, full |-> r.full]
    BY <1>2, <2>2, <2>4, <2>6 DEF Loads
  <2>9. /\ r.dir \in [HookFiles -> H!Source \cup {NoRow}]
        /\ \A g \in HookFiles \ {f} : r.dir[g] = m.dir[g]
    BY <2>7, <2>8 DEF IsManager
  <2>10. /\ r.files \in [HookFiles -> H!FileState \cup {NoRow}] /\ r.files[f] = s
         /\ \A g \in HookFiles \ {f} : r.files[g] = m.files[g]
    BY <2>3, <2>8 DEF IsManager
  <2>11. /\ r.bound \in [H!Ids -> H!Handler \cup {NoRow}] /\ r.bound[b] = h
         /\ \A x \in H!Ids : x # b => r.bound[x] = m.bound[x]
    BY <2>1, <2>5, <2>8 DEF IsManager
  <2>12. IsManager(r)
    BY <2>1, <2>8, <2>9, <2>10, <2>11, <1>0 DEF IsManager
  <2>13. Knows(r, f) = IF c = "breaks" THEN {} ELSE {b}
    BY <2>3, <2>10 DEF Knows
  <2>14. Traced(r, f)
    BY <2>1, <2>5, <2>8, <2>11, <2>13, <1>0 DEF Traced
  <2>15. Routed(r, f)
    BY <2>3, <2>5, <2>8, <2>10, <2>11, <2>13 DEF Routed, Status
  <2>16. Enabled(r, f)
    BY <2>3, <2>10 DEF Enabled
  <2>17. StepFor(f, m, r)
    BY <2>1, <2>8, <2>9, <2>10, <2>11 DEF StepFor
  <2> QED BY <2>8, <2>12, <2>14, <2>15, <2>16, <2>17 DEF OwnFile
<1>3. LoadsNone(m, f, r) \/ \E b \in H!FreeIds(m, f), c \in H!Contents : Loads(m, f, frozen, b, c, r)
  BY LoadFields
<1> QED BY <1>1, <1>2, <1>3

\* _unbind_file removes every handler the file's state knows.
LEMMA Unbound ==
    ASSUME NEW m, IsManager(m), NEW f \in HookFiles, m.files[f] # NoRow, OwnFile(m, f),
           NEW r, r = H!_unbind_file(m, f)
    PROVE  /\ IsManager(r) /\ OwnFile(r, f) /\ StepFor(f, m, r)
           /\ r.disabled = m.disabled /\ r.full = m.full /\ r.dir = m.dir
           /\ r.files[f] # NoRow /\ Knows(r, f) = {}
<1>0. /\ m.files[f] \in H!FileState /\ m.files[f].functions \subseteq H!Ids
      /\ Knows(m, f) = m.files[f].functions
  BY DEF IsManager, H!FileState, Knows
<1>1. PICK B : B = [b \in H!Ids |-> IF b \in m.files[f].functions THEN NoRow ELSE m.bound[b]]
  OBVIOUS
<1>2. PICK s : s = [m.files[f] EXCEPT !.functions = {}]
  OBVIOUS
<1>3. s \in H!FileState /\ s # NoRow /\ s.functions = {} /\ s.enabled = m.files[f].enabled
  BY <1>0, <1>2, Distinct DEF H!FileState
<1>4. r = [dir |-> m.dir, files |-> [m.files EXCEPT ![f] = s], bound |-> B, disabled |-> m.disabled,
           served |-> m.served, strays |-> m.strays, full |-> m.full]
  <2>1. r = [m EXCEPT !.bound = B, !.files[f].functions = {}]
    BY <1>1 DEF H!_unbind_file
  <2> QED BY <1>2, <2>1 DEF IsManager
<1>5. /\ r.dir = m.dir /\ r.files = [m.files EXCEPT ![f] = s]
      /\ r.bound = B /\ r.disabled = m.disabled
      /\ r.served = m.served /\ r.strays = m.strays /\ r.full = m.full
      /\ r = [dir |-> r.dir, files |-> r.files, bound |-> r.bound, disabled |-> r.disabled,
              served |-> r.served, strays |-> r.strays, full |-> r.full]
  BY <1>4
<1>6. /\ r.files \in [HookFiles -> H!FileState \cup {NoRow}] /\ r.files[f] = s
      /\ \A g \in HookFiles \ {f} : r.files[g] = m.files[g]
  BY <1>3, <1>5 DEF IsManager
<1>7. /\ r.bound \in [H!Ids -> H!Handler \cup {NoRow}]
      /\ \A x \in H!Ids : r.bound[x] = IF x \in Knows(m, f) THEN NoRow ELSE m.bound[x]
  BY <1>0, <1>1, <1>5 DEF IsManager
<1>8. IsManager(r)
  BY <1>5, <1>6, <1>7 DEF IsManager
<1>9. Knows(r, f) = {}
  BY <1>3, <1>6 DEF Knows
<1>10. OwnFile(r, f)
  BY <1>5, <1>7, <1>9 DEF OwnFile, Traced, Routed, Enabled
<1>11. StepFor(f, m, r)
  BY <1>5, <1>6, <1>7 DEF StepFor, OwnFile, Traced
<1> QED BY <1>3, <1>5, <1>6, <1>8, <1>9, <1>10, <1>11

\* A state is replaced by one that knows no handler.
Exchanged(m, f, s, D) == [m EXCEPT !.files[f] = s, !.disabled = D]
KnowsNone(s) == s # NoRow => s.functions = {}

\* Such a replacement keeps the file sound.
LEMMA Replaced ==
    ASSUME NEW m, IsManager(m), NEW f \in HookFiles, Knows(m, f) = {}, OwnFile(m, f),
           NEW s \in H!FileState \cup {NoRow}, KnowsNone(s),
           NEW D \in SUBSET HookFiles,
           NEW r, r = Exchanged(m, f, s, D)
    PROVE  /\ IsManager(r) /\ OwnFile(r, f) /\ StepFor(f, m, r)
           /\ r.disabled = D /\ r.full = m.full /\ r.dir = m.dir /\ r.files[f] = s
<1>1. r = [dir |-> m.dir, files |-> [m.files EXCEPT ![f] = s], bound |-> m.bound, disabled |-> D,
           served |-> m.served, strays |-> m.strays, full |-> m.full]
  BY DEF IsManager, Exchanged
<1>2. /\ r.dir = m.dir /\ r.files = [m.files EXCEPT ![f] = s] /\ r.bound = m.bound
      /\ r.disabled = D /\ r.served = m.served /\ r.strays = m.strays /\ r.full = m.full
      /\ r = [dir |-> r.dir, files |-> r.files, bound |-> r.bound, disabled |-> r.disabled,
              served |-> r.served, strays |-> r.strays, full |-> r.full]
  BY <1>1
<1>3. /\ r.files \in [HookFiles -> H!FileState \cup {NoRow}] /\ r.files[f] = s
      /\ \A g \in HookFiles \ {f} : r.files[g] = m.files[g]
  BY <1>2 DEF IsManager
<1>4. IsManager(r)
  BY <1>2, <1>3 DEF IsManager
<1>5. Knows(r, f) = {}
  BY <1>3 DEF Knows, KnowsNone
<1>6. OwnFile(r, f)
  BY <1>2, <1>5 DEF OwnFile, Traced, Routed, Enabled
<1>7. StepFor(f, m, r)
  BY <1>2, <1>3 DEF StepFor
<1> QED BY <1>2, <1>3, <1>4, <1>6, <1>7
\* A step for one file of a manager: it stays sound in this file.
Keeps(f, m, r) == IsManager(r) /\ OwnFile(r, f) /\ StepFor(f, m, r)

\* Two steps for a file are one.
LEMMA StepTwice ==
    ASSUME NEW m, NEW n, NEW r, NEW f \in HookFiles, StepFor(f, m, n), StepFor(f, n, r)
    PROVE  StepFor(f, m, r)
BY DEF StepFor

\* disable_hook.
LEMMA Disabled ==
    ASSUME NEW m, IsManager(m), NEW f \in HookFiles, m.files[f] # NoRow, OwnFile(m, f),
           NEW r, r = H!disable_hook(m, f)
    PROVE  Keeps(f, m, r) /\ r.disabled = m.disabled \cup {f} /\ r.full = m.full /\ r.dir = m.dir
<1>1. PICK n : n = H!_unbind_file(m, f)
  OBVIOUS
<1>2. /\ IsManager(n) /\ OwnFile(n, f) /\ StepFor(f, m, n)
      /\ n.disabled = m.disabled /\ n.full = m.full /\ n.dir = m.dir
      /\ n.files[f] # NoRow /\ Knows(n, f) = {}
  BY <1>1, Unbound
<1>3. PICK x : x = H!State(FALSE, "disabled", {})
  OBVIOUS
<1>4. x \in H!FileState /\ x # NoRow /\ ~x.enabled /\ x.functions = {}
  BY <1>3, DisabledState
<1>5. PICK D : D = n.disabled \cup {f}
  OBVIOUS
<1>6. r = Exchanged(n, f, x, D)
  BY <1>1, <1>3, <1>5 DEF H!disable_hook, Exchanged
<1>7. D \in SUBSET HookFiles /\ x \in H!FileState \cup {NoRow} /\ KnowsNone(x)
  BY <1>2, <1>4, <1>5 DEF IsManager, KnowsNone
<1>8. /\ IsManager(r) /\ OwnFile(r, f) /\ StepFor(f, n, r)
      /\ r.disabled = D /\ r.full = n.full /\ r.dir = n.dir
  BY <1>2, <1>4, <1>6, <1>7, Replaced
<1>9. StepFor(f, m, r)
  BY <1>2, <1>8, StepTwice
<1> QED BY <1>2, <1>5, <1>8, <1>9 DEF Keeps

\* Forget: the file is no longer in the directory.
LEMMA Forgotten ==
    ASSUME NEW m, IsManager(m), NEW f \in HookFiles, m.files[f] # NoRow, OwnFile(m, f),
           NEW r, r = H!Forget(m, f)
    PROVE  Keeps(f, m, r) /\ r.disabled = m.disabled \ {f}
<1>1. PICK n : n = H!_unbind_file(m, f)
  OBVIOUS
<1>2. /\ IsManager(n) /\ OwnFile(n, f) /\ StepFor(f, m, n)
      /\ n.disabled = m.disabled /\ Knows(n, f) = {}
  BY <1>1, Unbound
<1>3. PICK x : x = NoRow
  OBVIOUS
<1>5. PICK D : D = n.disabled \ {f}
  OBVIOUS
<1>6. r = Exchanged(n, f, x, D)
  BY <1>1, <1>3, <1>5 DEF H!Forget, Exchanged
<1>7. D \in SUBSET HookFiles /\ x \in H!FileState \cup {NoRow} /\ KnowsNone(x)
  BY <1>2, <1>3, <1>5 DEF IsManager, KnowsNone
<1>8. IsManager(r) /\ OwnFile(r, f) /\ StepFor(f, n, r) /\ r.disabled = D
  BY <1>2, <1>6, <1>7, Replaced
<1>9. StepFor(f, m, r)
  BY <1>2, <1>8, StepTwice
<1> QED BY <1>2, <1>5, <1>8, <1>9 DEF Keeps

\* A file that changed is unbound and loaded again.
LEMMA Reloaded ==
    ASSUME NEW m, IsManager(m), NEW f \in HookFiles, m.files[f] # NoRow, OwnFile(m, f),
           NEW frozen, NEW r, r = H!_load_file(H!_unbind_file(m, f), f, frozen), ~r.full
    PROVE  Keeps(f, m, r) /\ r.disabled = m.disabled
<1>1. PICK n : n = H!_unbind_file(m, f)
  OBVIOUS
<1>2. /\ IsManager(n) /\ OwnFile(n, f) /\ StepFor(f, m, n)
      /\ n.disabled = m.disabled /\ n.files[f] # NoRow
  BY <1>1, Unbound
<1>3. r = H!_load_file(n, f, frozen) /\ Traced(n, f)
  BY <1>1, <1>2 DEF OwnFile
<1>4. IsManager(r) /\ OwnFile(r, f) /\ StepFor(f, n, r) /\ r.disabled = n.disabled
  BY <1>2, <1>3, Loaded
<1>5. StepFor(f, m, r)
  BY <1>2, <1>4, StepTwice
<1> QED BY <1>2, <1>4, <1>5 DEF Keeps

\* Adopt: a file the manager does not know yet.
LEMMA Adopted ==
    ASSUME NEW m, IsManager(m), NEW f \in HookFiles, m.files[f] = NoRow, OwnFile(m, f),
           NEW frozen, NEW r, r = H!Adopt(m, f, frozen), ~r.full
    PROVE  Keeps(f, m, r) /\ r.disabled = m.disabled
<1>0. Knows(m, f) = {} /\ m.disabled \in SUBSET HookFiles
  BY DEF Knows, IsManager
<1>1. CASE f \in m.disabled
  <2>1. PICK x : x = H!State(FALSE, "disabled", {})
    OBVIOUS
  <2>2. x \in H!FileState \cup {NoRow} /\ KnowsNone(x)
    BY <2>1, DisabledState DEF KnowsNone
  <2>3. r = Exchanged(m, f, x, m.disabled)
    BY <1>1, <2>1 DEF H!Adopt, IsManager, Exchanged
  <2>4. IsManager(r) /\ OwnFile(r, f) /\ StepFor(f, m, r) /\ r.disabled = m.disabled
    BY <1>0, <2>2, <2>3, Replaced
  <2> QED BY <2>4 DEF Keeps
<1>2. CASE f \notin m.disabled
  <2>1. PICK x : x = H!State(TRUE, "loaded", {})
    OBVIOUS
  <2>2. x \in H!FileState /\ x # NoRow /\ x.functions = {}
    <3>1. "loaded" \in {"loaded", "error", "disabled", "unsupported_for_hot_reload"} /\ {} \in SUBSET H!Ids
      OBVIOUS
    <3> QED BY <2>1, <3>1, StateFields
  <2>3. PICK n : n = [m EXCEPT !.files[f] = x]
    OBVIOUS
  <2>4. n = Exchanged(m, f, x, m.disabled) /\ x \in H!FileState \cup {NoRow} /\ KnowsNone(x)
    BY <2>2, <2>3 DEF IsManager, Exchanged, KnowsNone
  <2>5. IsManager(n) /\ OwnFile(n, f) /\ StepFor(f, m, n) /\ n.disabled = m.disabled /\ n.files[f] = x
    BY <1>0, <2>2, <2>4, Replaced
  <2>6. r = H!_load_file(n, f, frozen) /\ Traced(n, f) /\ n.files[f] # NoRow
    BY <1>2, <2>1, <2>2, <2>3, <2>5 DEF H!Adopt, OwnFile
  <2>7. IsManager(r) /\ OwnFile(r, f) /\ StepFor(f, n, r) /\ r.disabled = n.disabled
    BY <2>5, <2>6, Loaded
  <2>8. StepFor(f, m, r)
    BY <2>5, <2>7, StepTwice
  <2> QED BY <2>5, <2>7, <2>8 DEF Keeps
<1> QED BY <1>1, <1>2

\* enable_hook.
LEMMA EnabledAgain ==
    ASSUME NEW m, IsManager(m), NEW f \in HookFiles, m.files[f] # NoRow, OwnFile(m, f),
           NEW r, r = H!enable_hook(m, f), ~r.full
    PROVE  Keeps(f, m, r) /\ r.disabled = m.disabled \ {f}
<1>0. m.files[f] \in H!FileState
  BY DEF IsManager
<1>1. PICK x : x = [m.files[f] EXCEPT !.enabled = TRUE]
  OBVIOUS
<1>2. x \in H!FileState /\ x # NoRow /\ x.functions = m.files[f].functions
  BY <1>0, <1>1, Distinct DEF H!FileState
<1>3. PICK n : n = [m EXCEPT !.files[f].enabled = TRUE, !.disabled = @ \ {f}]
  OBVIOUS
<1>4. n = [dir |-> m.dir, files |-> [m.files EXCEPT ![f] = x], bound |-> m.bound,
           disabled |-> m.disabled \ {f}, served |-> m.served, strays |-> m.strays, full |-> m.full]
  BY <1>1, <1>3 DEF IsManager
<1>5. /\ n.dir = m.dir /\ n.files = [m.files EXCEPT ![f] = x] /\ n.bound = m.bound
      /\ n.disabled = m.disabled \ {f} /\ n.served = m.served /\ n.strays = m.strays /\ n.full = m.full
      /\ n = [dir |-> n.dir, files |-> n.files, bound |-> n.bound, disabled |-> n.disabled,
              served |-> n.served, strays |-> n.strays, full |-> n.full]
  BY <1>4
<1>6. /\ n.files \in [HookFiles -> H!FileState \cup {NoRow}] /\ n.files[f] = x
      /\ \A g \in HookFiles \ {f} : n.files[g] = m.files[g]
  BY <1>2, <1>5 DEF IsManager
<1>7. IsManager(n)
  BY <1>5, <1>6 DEF IsManager
<1>8. Knows(n, f) = Knows(m, f)
  BY <1>2, <1>6 DEF Knows
<1>9. Traced(n, f) /\ n.files[f] # NoRow
  BY <1>2, <1>5, <1>6, <1>8 DEF OwnFile, Traced
<1>10. StepFor(f, m, n)
  BY <1>5, <1>6 DEF StepFor
<1>11. PICK frozen : frozen = TRUE
  OBVIOUS
<1>14. r = H!_load_file(n, f, frozen)
  BY <1>3, <1>11 DEF H!enable_hook
<1>12. IsManager(r) /\ OwnFile(r, f) /\ StepFor(f, n, r) /\ r.disabled = n.disabled
  BY <1>7, <1>9, <1>14, Loaded
<1>13. StepFor(f, m, r)
  BY <1>10, <1>12, StepTwice
<1> QED BY <1>5, <1>12, <1>13 DEF Keeps

\* reload_hook unbinds and loads an enabled file.
LEMMA ReloadedOrNot ==
    ASSUME NEW m, IsManager(m), NEW f \in HookFiles, m.files[f] # NoRow, OwnFile(m, f),
           NEW r, r = H!reload_file(m, f), ~r.full
    PROVE  Keeps(f, m, r) /\ r.disabled = m.disabled
<1>1. CASE m.files[f].enabled
  <2>1. PICK frozen : frozen = TRUE
    OBVIOUS
  <2>2. r = H!_load_file(H!_unbind_file(m, f), f, frozen)
    BY <1>1, <2>1 DEF H!reload_file
  <2> QED BY <2>2, Reloaded
<1>2. CASE ~m.files[f].enabled
  <2>1. PICK x : x = [m.files[f] EXCEPT !.status = "disabled"]
    OBVIOUS
  <2>2. m.files[f] \in H!FileState /\ m.files[f].functions = {}
    BY <1>2 DEF IsManager, OwnFile, Enabled, Knows
  <2>3. x \in H!FileState /\ x.functions = {}
    BY <2>1, <2>2 DEF H!FileState
  <2>4. x \in H!FileState \cup {NoRow} /\ KnowsNone(x)
    BY <2>3 DEF KnowsNone
  <2>5. r = Exchanged(m, f, x, m.disabled)
    BY <1>2, <2>1 DEF H!reload_file, Exchanged, IsManager
  <2>6. Knows(m, f) = {} /\ m.disabled \in SUBSET HookFiles
    BY <2>2 DEF Knows, IsManager
  <2>7. IsManager(r) /\ OwnFile(r, f) /\ StepFor(f, m, r) /\ r.disabled = m.disabled
    BY <2>4, <2>5, <2>6, Replaced
  <2> QED BY <2>7 DEF Keeps
<1> QED BY <1>1, <1>2

\* rescan, for one file.
LEMMA Rescanned ==
    ASSUME NEW m, IsManager(m), NEW f \in HookFiles, OwnFile(m, f),
           NEW r, r = H!RescanFile(m, f), ~r.full
    PROVE  Keeps(f, m, r) /\ r.disabled \subseteq m.disabled
<1>0. PICK frozen : frozen = TRUE
  OBVIOUS
<1>1. CASE m.dir[f] = NoRow /\ m.files[f] # NoRow
  <2>1. r = H!Forget(m, f)
    BY <1>1 DEF H!RescanFile
  <2>2. Keeps(f, m, r) /\ r.disabled = m.disabled \ {f}
    BY <1>1, <2>1, Forgotten
  <2> QED BY <2>2
<1>2. CASE m.dir[f] # NoRow /\ m.files[f] = NoRow
  <2>1. r = H!Adopt(m, f, frozen)
    BY <1>0, <1>2 DEF H!RescanFile
  <2>2. Keeps(f, m, r) /\ r.disabled = m.disabled
    BY <1>2, <2>1, Adopted
  <2> QED BY <2>2
<1>3. CASE m.dir[f] # NoRow /\ m.files[f] # NoRow /\ m.files[f].enabled /\ m.dir[f].touched
  <2>1. r = H!_load_file(H!_unbind_file(m, f), f, frozen)
    BY <1>0, <1>3 DEF H!RescanFile
  <2>2. Keeps(f, m, r) /\ r.disabled = m.disabled
    BY <1>3, <2>1, Reloaded
  <2> QED BY <2>2
<1>4. CASE /\ ~(m.dir[f] = NoRow /\ m.files[f] # NoRow) /\ ~(m.dir[f] # NoRow /\ m.files[f] = NoRow)
           /\ ~(m.dir[f] # NoRow /\ m.files[f] # NoRow /\ m.files[f].enabled /\ m.dir[f].touched)
  <2>1. r = m
    BY <1>4 DEF H!RescanFile
  <2> QED BY <2>1 DEF Keeps, StepFor
<1> QED BY <1>1, <1>2, <1>3, <1>4

\* A loop whose steps are sound for their files is sound for all of them.
LEMMA LoopEnds ==
    ASSUME NEW m, IsManager(m), NEW done,
           \A f \in HookFiles : Keeps(f, m, done[f]),
           NEW r, r = H!EachFile(m, done)
    PROVE  /\ IsManager(r) /\ \A f \in HookFiles : OwnFile(r, f)
           /\ r.disabled = {f \in HookFiles : f \in done[f].disabled}
           /\ \A f \in HookFiles : r.files[f] = done[f].files[f]
<1>1. /\ r.dir = [f \in HookFiles |-> done[f].dir[f]]
      /\ r.files = [f \in HookFiles |-> done[f].files[f]]
      /\ r.bound = [b \in H!Ids |-> done[b[1]].bound[b]]
      /\ r.disabled = {f \in HookFiles : f \in done[f].disabled}
      /\ r.served = {f \in HookFiles : f \in done[f].served}
      /\ r.strays = m.strays \cup UNION {done[f].strays : f \in HookFiles}
      /\ r = [dir |-> r.dir, files |-> r.files, bound |-> r.bound, disabled |-> r.disabled,
              served |-> r.served, strays |-> r.strays, full |-> r.full]
  BY DEF H!EachFile
<1>2. \A b \in H!Ids : b[1] \in HookFiles
  BY DEF H!Ids
<1>3. \A f \in HookFiles : IsManager(done[f])
  BY DEF Keeps
<1>4. r.dir \in [HookFiles -> H!Source \cup {NoRow}]
  <2>1. \A f \in HookFiles : done[f].dir[f] \in H!Source \cup {NoRow}
    BY <1>3 DEF IsManager
  <2> QED BY <1>1, <2>1
<1>5. r.files \in [HookFiles -> H!FileState \cup {NoRow}]
  <2>1. \A f \in HookFiles : done[f].files[f] \in H!FileState \cup {NoRow}
    BY <1>3 DEF IsManager
  <2> QED BY <1>1, <2>1
<1>6. r.bound \in [H!Ids -> H!Handler \cup {NoRow}]
  <2>1. \A b \in H!Ids : done[b[1]].bound[b] \in H!Handler \cup {NoRow}
    BY <1>2, <1>3 DEF IsManager
  <2> QED BY <1>1, <2>1
<1>7. r.strays \subseteq H!Ids
  <2>1. \A f \in HookFiles : done[f].strays \subseteq H!Ids
    BY <1>3 DEF IsManager
  <2>2. m.strays \subseteq H!Ids
    BY DEF IsManager
  <2> QED BY <1>1, <2>1, <2>2
<1>8. IsManager(r)
  BY <1>1, <1>4, <1>5, <1>6, <1>7 DEF IsManager
<1>9. ASSUME NEW f \in HookFiles PROVE OwnFile(r, f)
  <2>1. PICK d : d = done[f]
    OBVIOUS
  <2>2. OwnFile(d, f) /\ IsManager(d)
    BY <2>1 DEF Keeps
  <2>3. /\ r.files[f] = d.files[f] /\ d.strays \subseteq r.strays
        /\ f \in r.served <=> f \in d.served
        /\ \A b \in H!Ids : b[1] = f => r.bound[b] = d.bound[b]
    BY <1>1, <2>1
  <2>4. Knows(r, f) = Knows(d, f)
    BY <2>3 DEF Knows
  <2>5. Knows(d, f) \subseteq H!Ids
    BY <2>2 DEF Knows, IsManager, H!FileState
  <2>6. Traced(r, f)
    BY <2>2, <2>3, <2>4, <2>5 DEF OwnFile, Traced
  <2>7. Routed(r, f) /\ Enabled(r, f)
    BY <2>2, <2>3, <2>4, <2>5 DEF OwnFile, Routed, Enabled, Traced
  <2> QED BY <2>6, <2>7 DEF OwnFile
<1> QED BY <1>1, <1>8, <1>9

\* What a step for one file does is sound for the others.
LEMMA OthersOwn ==
    ASSUME NEW m, IsManager(m), \A g \in HookFiles : OwnFile(m, g), NEW f \in HookFiles,
           NEW r, Keeps(f, m, r)
    PROVE  IsManager(r) /\ \A g \in HookFiles : OwnFile(r, g)
<1>1. IsManager(r) /\ OwnFile(r, f) /\ StepFor(f, m, r)
  BY DEF Keeps
<1>2. ASSUME NEW g \in HookFiles \ {f} PROVE OwnFile(r, g)
  <2>1. OwnFile(m, g)
    OBVIOUS
  <2>2. /\ r.files[g] = m.files[g] /\ m.strays \subseteq r.strays
        /\ g \in r.served <=> g \in m.served
        /\ \A b \in H!Ids : b[1] = g => r.bound[b] = m.bound[b]
    BY <1>1 DEF StepFor
  <2>3. Knows(r, g) = Knows(m, g)
    BY <2>2 DEF Knows
  <2>4. Knows(m, g) \subseteq H!Ids
    BY DEF Knows, IsManager, H!FileState
  <2>5. Traced(r, g)
    BY <2>1, <2>2, <2>3, <2>4 DEF OwnFile, Traced
  <2>6. Routed(r, g) /\ Enabled(r, g)
    BY <2>1, <2>2, <2>3, <2>4 DEF OwnFile, Routed, Enabled, Traced
  <2> QED BY <2>5, <2>6 DEF OwnFile
<1> QED BY <1>1, <1>2

-----------------------------------------------------------------------------
\* Saving: of two requests the later one finds the other, so that without an
\* overlap there is one at most, and it carries every hook that is disabled.
Carried(r) ==
    IF patch[r].disabled = NoRow
    THEN disabled \subseteq saved /\ patch[r].current \in {NoRow, saved}
    ELSE disabled \subseteq patch[r].disabled

\* A disabled hook that no failure lost is saved, or a request carries it.
Recalled ==
    ~unsaved =>
        /\ (\A r \in Actors : patch[r] = NoRow) => disabled \subseteq saved
        /\ \A r, q \in Actors : patch[r] # NoRow /\ patch[q] # NoRow => r = q
        /\ \A r \in Actors : patch[r] # NoRow => Carried(r)

\* The inductive invariant: every file is sound, and what is saved is recalled.
HInv ==
    /\ IsManager(H!Manager) /\ \A f \in HookFiles : OwnFile(H!Manager, f)
    /\ saved \subseteq HookFiles /\ unsaved \in BOOLEAN
    /\ patch \in [Actors -> H!Request \cup {NoRow}]
    /\ Recalled

\* The manager as a record.
LEMMA ManagerFields ==
    /\ H!Manager.dir = dir /\ H!Manager.files = files /\ H!Manager.bound = bound
    /\ H!Manager.disabled = disabled /\ H!Manager.served = served /\ H!Manager.strays = strays
    /\ H!Manager.full = FALSE
    /\ H!Manager = [dir |-> dir, files |-> files, bound |-> bound, disabled |-> disabled,
                    served |-> served, strays |-> strays, full |-> FALSE]
BY DEF H!Manager

\* The inductive invariant implies what the run checks.
LEMMA HooksSound == HInv => HooksAreSound
<1>0. SUFFICES ASSUME HInv PROVE HooksAreSound
  OBVIOUS
<1>1. /\ IsManager(H!Manager) /\ \A f \in HookFiles : OwnFile(H!Manager, f)
      /\ Recalled
  BY <1>0 DEF HInv
<1>2. /\ files \in [HookFiles -> H!FileState \cup {NoRow}]
      /\ bound \in [H!Ids -> H!Handler \cup {NoRow}]
  BY <1>1, ManagerFields DEF IsManager
<1>3. ASSUME NEW f \in HookFiles
      PROVE  /\ \A b \in Knows(H!Manager, f) : b \in H!Ids /\ b[1] = f /\ bound[b] # NoRow /\ bound[b].file = f
             /\ \A b \in H!Ids : b[1] = f /\ bound[b] # NoRow =>
                   bound[b].file = f /\ (b \in strays \/ b \in Knows(H!Manager, f))
             /\ Knows(H!Manager, f) = IF files[f] = NoRow THEN {} ELSE files[f].functions
             /\ files[f] # NoRow /\ ~files[f].enabled => Knows(H!Manager, f) = {}
  <2>1. Traced(H!Manager, f) /\ Enabled(H!Manager, f)
    BY <1>1 DEF OwnFile
  <2>2. Knows(H!Manager, f) = IF files[f] = NoRow THEN {} ELSE files[f].functions
    BY ManagerFields DEF Knows
  <2>3. Knows(H!Manager, f) \subseteq H!Ids
    BY <1>2, <2>2 DEF H!FileState
  <2> QED BY <2>1, <2>2, <2>3, ManagerFields DEF Traced, Enabled
<1>4. H!HandlersAreOwned
  <2>1. ASSUME NEW b \in H!Ids, bound[b] # NoRow
        PROVE  LET s == files[bound[b].file]
               IN  b \in strays \/ (s # NoRow /\ s.enabled /\ b \in s.functions)
    <3>1. b[1] \in HookFiles
      BY DEF H!Ids
    <3>2. PICK f \in HookFiles : f = b[1]
      BY <3>1
    <3>3. bound[b].file = f /\ (b \in strays \/ b \in Knows(H!Manager, f))
      BY <1>3, <2>1, <3>2
    <3> QED BY <1>3, <3>3
  <2>2. ASSUME NEW f \in HookFiles, files[f] # NoRow
        PROVE  \A b \in files[f].functions : bound[b] # NoRow /\ bound[b].file = f
    BY <1>3, <2>2
  <2> QED BY <2>1, <2>2 DEF H!HandlersAreOwned
<1>5. H!LoadedIsServed
  <2>1. ASSUME NEW f \in HookFiles, files[f] # NoRow, files[f].status = "loaded",
               NEW b \in files[f].functions, bound[b].content = "routes"
        PROVE  f \in served
    <3>1. Routed(H!Manager, f)
      BY <1>1 DEF OwnFile
    <3>2. b \in Knows(H!Manager, f)
      BY <2>1, ManagerFields DEF Knows
    <3> QED BY <2>1, <3>1, <3>2, ManagerFields DEF Routed
  <2> QED BY <2>1 DEF H!LoadedIsServed
<1>6. H!DisabledSurvives
  BY <1>1 DEF Recalled, H!DisabledSurvives
<1> QED BY <1>4, <1>5, <1>6 DEF HooksAreSound

\* The next manager is the record the operation returned.
LEMMA BecomesSound ==
    ASSUME NEW r, IsManager(r), \A f \in HookFiles : OwnFile(r, f), H!Becomes(r)
    PROVE  /\ IsManager(H!Manager)' /\ (\A f \in HookFiles : OwnFile(H!Manager, f))'
           /\ disabled' = r.disabled
<1>1. /\ dir' = r.dir /\ files' = r.files /\ bound' = r.bound
      /\ disabled' = r.disabled /\ served' = r.served /\ strays' = r.strays
  BY DEF H!Becomes
<1>2. PICK n : n = H!Manager'
  OBVIOUS
<1>3. /\ n.dir = r.dir /\ n.files = r.files /\ n.bound = r.bound
      /\ n.disabled = r.disabled /\ n.served = r.served /\ n.strays = r.strays
      /\ n = [dir |-> n.dir, files |-> n.files, bound |-> n.bound, disabled |-> n.disabled,
              served |-> n.served, strays |-> n.strays, full |-> n.full]
  BY <1>1, <1>2 DEF H!Manager
<1>4. IsManager(n)
  BY <1>3 DEF IsManager
<1>5. ASSUME NEW f \in HookFiles PROVE OwnFile(n, f)
  BY <1>3 DEF OwnFile, Traced, Routed, Enabled, Knows
<1> QED BY <1>1, <1>2, <1>4, <1>5

\* The two parts of the invariant, for the steps that keep one of them.
ManagerSound == IsManager(H!Manager) /\ \A f \in HookFiles : OwnFile(H!Manager, f)
SavedTyped ==
    /\ saved \subseteq HookFiles /\ unsaved \in BOOLEAN
    /\ patch \in [Actors -> H!Request \cup {NoRow}]

\* A step that saves nothing keeps what the requests carry.
LEMMA SameRequests ==
    ASSUME HInv, disabled' \subseteq disabled, UNCHANGED <<saved, patch, unsaved>>
    PROVE  SavedTyped' /\ Recalled'
<1>1. SavedTyped /\ Recalled
  BY DEF HInv, SavedTyped
<1>2. SavedTyped'
  BY <1>1 DEF SavedTyped
<1>3. ASSUME NEW r \in Actors, Carried(r) PROVE Carried(r)'
  BY <1>3 DEF Carried
<1>4. Recalled'
  BY <1>1, <1>3 DEF Recalled
<1> QED BY <1>2, <1>4

\* A request starts to save what is disabled, or the other setting alone.
LEMMA PersistStep ==
    ASSUME HInv, NEW r \in Actors, NEW d \in (SUBSET HookFiles) \cup {NoRow}, H!Persist(r, d),
           d = NoRow => disabled' = disabled, d # NoRow => disabled' = d
    PROVE  SavedTyped' /\ Recalled'
<1>0. SavedTyped /\ Recalled
  BY DEF HInv, SavedTyped
<1>1. PICK q : q = [disabled |-> d, current |-> NoRow]
  OBVIOUS
<1>2. /\ q \in H!Request /\ q # NoRow /\ q.disabled = d /\ q.current = NoRow
  <2>1. q \in H!Request
    BY <1>1 DEF H!Request
  <2> QED BY <1>1, <2>1, Distinct
<1>3. /\ patch[r] = NoRow /\ patch' = [patch EXCEPT ![r] = q]
      /\ unsaved' = (unsaved \/ \E o \in Actors : patch[o] # NoRow) /\ saved' = saved
  BY <1>1 DEF H!Persist
<1>4. patch' \in [Actors -> H!Request \cup {NoRow}] /\ patch'[r] = q
      /\ \A o \in Actors : o # r => patch'[o] = patch[o]
  BY <1>0, <1>2, <1>3 DEF SavedTyped
<1>5. SavedTyped'
  <2>1. unsaved' \in BOOLEAN
    BY <1>3
  <2> QED BY <1>0, <1>3, <1>4, <2>1 DEF SavedTyped
<1>6. ASSUME ~unsaved' PROVE /\ \A o \in Actors : o # r => patch'[o] = NoRow
                             /\ disabled \subseteq saved
  BY <1>0, <1>3, <1>4, <1>6 DEF Recalled
<1>7. ASSUME ~unsaved' PROVE Carried(r)'
  BY <1>2, <1>3, <1>4, <1>6, <1>7 DEF Carried
<1>8. Recalled'
  BY <1>2, <1>4, <1>6, <1>7 DEF Recalled
<1> QED BY <1>5, <1>8

\* A manager of a process that starts is sound: it knows no file.
LEMMA NoFiles ==
    ASSUME NEW d \in [HookFiles -> H!Source \cup {NoRow}], NEW m, m = H!Fresh(d)
    PROVE  /\ IsManager(m) /\ \A f \in HookFiles : OwnFile(m, f) /\ m.files[f] = NoRow
           /\ m.disabled = {} /\ m.full = FALSE
<1>1. /\ m.dir = d /\ m.files = [f \in HookFiles |-> NoRow] /\ m.bound = [b \in H!Ids |-> NoRow]
      /\ m.disabled = {} /\ m.served = {} /\ m.strays = {} /\ m.full = FALSE
      /\ m = [dir |-> m.dir, files |-> m.files, bound |-> m.bound, disabled |-> m.disabled,
              served |-> m.served, strays |-> m.strays, full |-> m.full]
  BY DEF H!Fresh
<1>2. IsManager(m)
  BY <1>1 DEF IsManager
<1>3. ASSUME NEW f \in HookFiles PROVE OwnFile(m, f) /\ m.files[f] = NoRow
  BY <1>1 DEF OwnFile, Traced, Routed, Enabled, Knows
<1> QED BY <1>1, <1>2, <1>3

\* A file is sound after no step.
LEMMA SoundItself ==
    ASSUME NEW m, IsManager(m), NEW f \in HookFiles, OwnFile(m, f) PROVE Keeps(f, m, m)
BY DEF Keeps, StepFor

\* initial_load adopts every file of the directory.
LEMMA LoadedAtStart ==
    ASSUME NEW d \in [HookFiles -> H!Source \cup {NoRow}], NEW r, r = H!initial_load(H!Fresh(d)), ~r.full
    PROVE  IsManager(r) /\ (\A f \in HookFiles : OwnFile(r, f)) /\ r.disabled = {}
<1>1. PICK m : m = H!Fresh(d)
  OBVIOUS
<1>2. /\ IsManager(m) /\ \A f \in HookFiles : OwnFile(m, f) /\ m.files[f] = NoRow
      /\ m.disabled = {} /\ m.full = FALSE
  BY <1>1, NoFiles
<1>3. PICK frozen : frozen = FALSE
  OBVIOUS
<1>4. PICK done : done = [f \in HookFiles |-> IF f \in H!discover_files(m) THEN H!Adopt(m, f, frozen) ELSE m]
  OBVIOUS
<1>5. r = H!EachFile(m, done)
  BY <1>1, <1>3, <1>4 DEF H!initial_load
<1>6. \A f \in HookFiles : ~done[f].full
  <2>1. r.full = (m.full \/ \E f \in HookFiles : done[f].full)
    BY <1>5 DEF H!EachFile
  <2> QED BY <2>1
<1>7. ASSUME NEW f \in HookFiles PROVE Keeps(f, m, done[f]) /\ done[f].disabled = {}
  <2>1. CASE f \in H!discover_files(m)
    <3>1. PICK n : n = H!Adopt(m, f, frozen)
      OBVIOUS
    <3>2. done[f] = n /\ ~n.full
      BY <1>4, <1>6, <2>1, <3>1
    <3>3. Keeps(f, m, n) /\ n.disabled = m.disabled
      BY <1>2, <3>1, <3>2, Adopted
    <3> QED BY <1>2, <3>2, <3>3
  <2>2. CASE f \notin H!discover_files(m)
    <3>1. done[f] = m
      BY <1>4, <2>2
    <3>2. Keeps(f, m, m)
      BY <1>2, SoundItself
    <3> QED BY <1>2, <3>1, <3>2
  <2> QED BY <2>1, <2>2
<1>8. \A f \in HookFiles : Keeps(f, m, done[f])
  BY <1>7
<1>9. /\ IsManager(r) /\ \A f \in HookFiles : OwnFile(r, f)
      /\ r.disabled = {f \in HookFiles : f \in done[f].disabled}
  BY <1>2, <1>5, <1>8, LoopEnds
<1> QED BY <1>7, <1>9

\* The saved settings disable hooks once the files are loaded.
LEMMA RestoredSettings ==
    ASSUME NEW m, IsManager(m), \A f \in HookFiles : OwnFile(m, f), m.disabled = {},
           saved \subseteq HookFiles, NEW r, r = H!Restored(m)
    PROVE  IsManager(r) /\ (\A f \in HookFiles : OwnFile(r, f)) /\ r.disabled \subseteq saved
<1>1. PICK done : done = [f \in HookFiles |-> IF f \in saved /\ m.files[f] # NoRow
                                              THEN H!disable_hook(m, f) ELSE m]
  OBVIOUS
<1>2. r = H!EachFile(m, done)
  BY <1>1 DEF H!Restored
<1>3. ASSUME NEW f \in HookFiles
      PROVE  Keeps(f, m, done[f]) /\ (f \in done[f].disabled => f \in saved)
  <2>0. OwnFile(m, f)
    OBVIOUS
  <2>1. CASE f \in saved /\ m.files[f] # NoRow
    <3>1. PICK n : n = H!disable_hook(m, f)
      OBVIOUS
    <3>2. done[f] = n
      BY <1>1, <2>1, <3>1
    <3>3. Keeps(f, m, n)
      BY <2>0, <2>1, <3>1, Disabled
    <3> QED BY <2>1, <3>2, <3>3
  <2>2. CASE ~(f \in saved /\ m.files[f] # NoRow)
    <3>1. done[f] = m
      BY <1>1, <2>2
    <3>2. Keeps(f, m, m)
      BY <2>0, SoundItself
    <3> QED BY <3>1, <3>2
  <2> QED BY <2>1, <2>2
<1>4. \A f \in HookFiles : Keeps(f, m, done[f])
  BY <1>3
<1>5. /\ IsManager(r) /\ \A f \in HookFiles : OwnFile(r, f)
      /\ r.disabled = {f \in HookFiles : f \in done[f].disabled}
  BY <1>2, <1>4, LoopEnds
<1> QED BY <1>3, <1>5

\* A restart loads the directory and applies the saved settings.
LEMMA RestartStep ==
    ASSUME HInv, H!Restart PROVE HInv'
<1>0. saved \subseteq HookFiles /\ IsManager(H!Manager)
  BY DEF HInv
<1>1. dir \in [HookFiles -> H!Source \cup {NoRow}]
  BY <1>0, ManagerFields DEF IsManager
<1>2. PICK m : m = H!initial_load(H!Fresh(dir))
  OBVIOUS
<1>3. PICK r : r = H!Restored(m)
  OBVIOUS
<1>4. H!Becomes(r) /\ patch' = [q \in Actors |-> NoRow] /\ unsaved' = FALSE /\ saved' = saved
  BY <1>2, <1>3 DEF H!Restart
<1>5. ~m.full
  <2>1. PICK done : r = H!EachFile(m, done)
    BY <1>3 DEF H!Restored
  <2>2. r.full = (m.full \/ \E f \in HookFiles : done[f].full)
    BY <2>1 DEF H!EachFile
  <2> QED BY <1>4, <2>2 DEF H!Becomes
<1>6. IsManager(m) /\ (\A f \in HookFiles : OwnFile(m, f)) /\ m.disabled = {}
  BY <1>1, <1>2, <1>5, LoadedAtStart
<1>7. IsManager(r) /\ (\A f \in HookFiles : OwnFile(r, f)) /\ r.disabled \subseteq saved
  BY <1>0, <1>3, <1>6, RestoredSettings
<1>8. /\ IsManager(H!Manager)' /\ (\A f \in HookFiles : OwnFile(H!Manager, f))'
      /\ disabled' = r.disabled
  BY <1>4, <1>7, BecomesSound
<1>9. Recalled'
  BY <1>4, <1>7, <1>8 DEF Recalled
<1>10. saved' \subseteq HookFiles /\ unsaved' \in BOOLEAN
       /\ patch' \in [Actors -> H!Request \cup {NoRow}]
  BY <1>0, <1>4
<1> QED BY <1>8, <1>9, <1>10 DEF HInv

\* A rescan of the directory.
LEMMA RescanStep ==
    ASSUME HInv, H!rescan PROVE HInv'
<1>1. PICK m : m = H!Manager
  OBVIOUS
<1>2. IsManager(m) /\ \A f \in HookFiles : OwnFile(m, f)
  BY <1>1 DEF HInv
<1>3. PICK done : done = [f \in HookFiles |-> H!RescanFile(m, f)]
  OBVIOUS
<1>4. PICK r : r = H!EachFile(m, done)
  OBVIOUS
<1>5. H!Becomes(r) /\ UNCHANGED <<saved, patch, unsaved>>
  BY <1>1, <1>3, <1>4 DEF H!rescan
<1>6. \A f \in HookFiles : ~done[f].full
  <2>1. r.full = (m.full \/ \E f \in HookFiles : done[f].full)
    BY <1>4 DEF H!EachFile
  <2>2. ~r.full
    BY <1>5 DEF H!Becomes
  <2> QED BY <2>1, <2>2
<1>7. ASSUME NEW f \in HookFiles PROVE Keeps(f, m, done[f]) /\ done[f].disabled \subseteq m.disabled
  <2>1. PICK n : n = done[f]
    OBVIOUS
  <2>2. n = H!RescanFile(m, f) /\ ~n.full /\ OwnFile(m, f)
    BY <1>2, <1>3, <1>6, <2>1
  <2>3. Keeps(f, m, n) /\ n.disabled \subseteq m.disabled
    BY <1>2, <2>2, Rescanned
  <2> QED BY <2>1, <2>3
<1>8. \A f \in HookFiles : Keeps(f, m, done[f])
  BY <1>7
<1>9. /\ IsManager(r) /\ \A f \in HookFiles : OwnFile(r, f)
      /\ r.disabled = {f \in HookFiles : f \in done[f].disabled}
  BY <1>2, <1>4, <1>8, LoopEnds
<1>10. /\ IsManager(H!Manager)' /\ (\A f \in HookFiles : OwnFile(H!Manager, f))'
       /\ disabled' = r.disabled
  BY <1>5, <1>9, BecomesSound
<1>11. disabled' \subseteq disabled
  <2>1. m.disabled = disabled
    BY <1>1, ManagerFields
  <2> QED BY <1>7, <1>9, <1>10, <2>1
<1>12. SavedTyped' /\ Recalled'
  BY <1>5, <1>11, SameRequests
<1> QED BY <1>10, <1>12 DEF HInv, SavedTyped

\* A reload of one file.
LEMMA ReloadStep ==
    ASSUME HInv, NEW f \in HookFiles, H!reload_hook(f) PROVE HInv'
<1>1. PICK m : m = H!Manager
  OBVIOUS
<1>2. IsManager(m) /\ \A g \in HookFiles : OwnFile(m, g)
  BY <1>1 DEF HInv
<1>3. PICK r : r = H!reload_file(m, f)
  OBVIOUS
<1>4. H!Becomes(r) /\ files[f] # NoRow /\ UNCHANGED <<saved, patch, unsaved>> /\ ~r.full
  BY <1>1, <1>3 DEF H!reload_hook, H!Becomes
<1>5. m.files[f] # NoRow /\ OwnFile(m, f) /\ m.disabled = disabled
  BY <1>1, <1>2, <1>4, ManagerFields
<1>6. Keeps(f, m, r) /\ r.disabled = m.disabled
  BY <1>2, <1>3, <1>4, <1>5, ReloadedOrNot
<1>7. IsManager(r) /\ \A g \in HookFiles : OwnFile(r, g)
  BY <1>2, <1>6, OthersOwn
<1>8. /\ IsManager(H!Manager)' /\ (\A g \in HookFiles : OwnFile(H!Manager, g))'
      /\ disabled' = r.disabled
  BY <1>4, <1>7, BecomesSound
<1>9. disabled' \subseteq disabled
  BY <1>5, <1>6, <1>8
<1>10. SavedTyped' /\ Recalled'
  BY <1>4, <1>9, SameRequests
<1> QED BY <1>8, <1>10 DEF HInv, SavedTyped

\* Enabling and disabling a hook, and the request that saves it.
LEMMA UpdateStep ==
    ASSUME HInv, NEW f \in HookFiles, NEW q \in Actors, H!update_hook(q, f) PROVE HInv'
<1>1. PICK m : m = H!Manager
  OBVIOUS
<1>2. IsManager(m) /\ \A g \in HookFiles : OwnFile(m, g)
  BY <1>1 DEF HInv
<1>3. files[f] # NoRow /\ H!Persist(q, disabled')
  BY DEF H!update_hook
<1>4. m.files[f] # NoRow /\ OwnFile(m, f)
  BY <1>1, <1>2, <1>3, ManagerFields
<1>5. PICK r : H!Becomes(r) /\ Keeps(f, m, r)
  <2>1. PICK e : e = H!enable_hook(m, f)
    OBVIOUS
  <2>2. PICK d : d = H!disable_hook(m, f)
    OBVIOUS
  <2>3. H!Becomes(e) \/ H!Becomes(d)
    BY <1>1, <2>1, <2>2 DEF H!update_hook
  <2>4. ASSUME H!Becomes(e) PROVE Keeps(f, m, e)
    <3>1. ~e.full
      BY <2>4 DEF H!Becomes
    <3> QED BY <1>2, <1>4, <2>1, <3>1, EnabledAgain
  <2>5. Keeps(f, m, d)
    BY <1>2, <1>4, <2>2, Disabled
  <2> QED BY <2>3, <2>4, <2>5
<1>6. IsManager(r) /\ \A g \in HookFiles : OwnFile(r, g)
  BY <1>2, <1>5, OthersOwn
<1>7. /\ IsManager(H!Manager)' /\ (\A g \in HookFiles : OwnFile(H!Manager, g))'
      /\ disabled' = r.disabled
  BY <1>5, <1>6, BecomesSound
<1>8. PICK d : d = disabled'
  OBVIOUS
<1>9. d \in SUBSET HookFiles /\ d # NoRow
  BY <1>6, <1>7, <1>8, AdministrationAssumption DEF IsManager
<1>10. d \in (SUBSET HookFiles) \cup {NoRow} /\ H!Persist(q, d) /\ (d = NoRow => disabled' = disabled)
       /\ (d # NoRow => disabled' = d)
  BY <1>3, <1>8, <1>9
<1>11. SavedTyped' /\ Recalled'
  BY <1>10, PersistStep
<1> QED BY <1>7, <1>11 DEF HInv, SavedTyped

\* Nothing of the manager changes but the directory.
LEMMA EditStep ==
    ASSUME HInv, NEW f \in HookFiles, H!EditFile(f) \/ H!RemoveFile(f) PROVE HInv'
<1>1. /\ UNCHANGED <<files, bound, disabled, served, saved, patch, strays, unsaved>>
      /\ \E d \in H!Source \cup {NoRow} : dir' = [dir EXCEPT ![f] = d]
  <2>1. CASE H!RemoveFile(f)
    BY <2>1 DEF H!RemoveFile
  <2>2. CASE H!EditFile(f)
    <3>1. PICK c \in H!Contents : dir' = [dir EXCEPT ![f] = [content |-> c, touched |-> TRUE]]
      BY <2>2 DEF H!EditFile
    <3>2. [content |-> c, touched |-> TRUE] \in H!Source
      BY DEF H!Source
    <3> QED BY <2>2, <3>1, <3>2 DEF H!EditFile
  <2> QED BY <2>1, <2>2
<1>2. PICK m : m = H!Manager
  OBVIOUS
<1>3. IsManager(m) /\ \A g \in HookFiles : OwnFile(m, g)
  BY <1>2 DEF HInv
<1>4. /\ m.dir = dir /\ m.files = files /\ m.bound = bound /\ m.disabled = disabled
      /\ m.served = served /\ m.strays = strays
  BY <1>2, ManagerFields
<1>5. PICK n : n = H!Manager'
  OBVIOUS
<1>6. /\ n.dir = dir' /\ n.files = m.files /\ n.bound = m.bound
      /\ n.disabled = m.disabled /\ n.served = m.served /\ n.strays = m.strays
      /\ n = [dir |-> n.dir, files |-> n.files, bound |-> n.bound, disabled |-> n.disabled,
              served |-> n.served, strays |-> n.strays, full |-> n.full]
  BY <1>1, <1>4, <1>5 DEF H!Manager
<1>7. dir' \in [HookFiles -> H!Source \cup {NoRow}]
  BY <1>1, <1>3, <1>4 DEF IsManager
<1>8. IsManager(n)
  BY <1>3, <1>6, <1>7 DEF IsManager
<1>9. ASSUME NEW g \in HookFiles PROVE OwnFile(n, g)
  <2>1. OwnFile(m, g)
    BY <1>3
  <2> QED BY <1>6, <2>1 DEF OwnFile, Traced, Routed, Enabled, Knows
<1>10. SavedTyped' /\ Recalled'
  BY <1>1, SameRequests
<1> QED BY <1>5, <1>8, <1>9, <1>10 DEF HInv, SavedTyped

\* A request reads the row, writes it or fails.
LEMMA SaveStep ==
    ASSUME HInv, NEW q \in Actors,
           \/ H!update_hooks_runtime(q) \/ H!_get_hooks_runtime_value(q)
           \/ H!_persist_hooks_runtime(q) \/ H!PersistFails(q)
    PROVE  HInv'
<1>0. SavedTyped /\ Recalled
  BY DEF HInv, SavedTyped
<1>1. UNCHANGED <<dir, files, bound, disabled, served, strays>>
  BY DEF H!update_hooks_runtime, H!_get_hooks_runtime_value, H!_persist_hooks_runtime, H!PersistFails
<1>2. IsManager(H!Manager)' /\ (\A g \in HookFiles : OwnFile(H!Manager, g))'
  <2>1. H!Manager' = H!Manager
    BY <1>1 DEF H!Manager
  <2>2. IsManager(H!Manager) /\ \A g \in HookFiles : OwnFile(H!Manager, g)
    BY DEF HInv
  <2>3. PICK m : m = H!Manager /\ m = H!Manager'
    BY <2>1
  <2> QED BY <2>2, <2>3
<1>3. SavedTyped' /\ Recalled'
  <2>1. CASE H!update_hooks_runtime(q)
    <3>1. PICK d : d = NoRow
      OBVIOUS
    <3>2. d \in (SUBSET HookFiles) \cup {NoRow} /\ H!Persist(q, d) /\ (d = NoRow => disabled' = disabled)
          /\ (d # NoRow => disabled' = d)
      BY <1>1, <2>1, <3>1 DEF H!update_hooks_runtime
    <3> QED BY <3>2, PersistStep
  <2>2. CASE H!_get_hooks_runtime_value(q)
    <3>1. /\ patch[q] # NoRow /\ patch[q].current = NoRow
          /\ patch' = [patch EXCEPT ![q].current = saved] /\ saved' = saved /\ unsaved' = unsaved
      BY <2>2 DEF H!_get_hooks_runtime_value
    <3>2. PICK x : x = [patch[q] EXCEPT !.current = saved]
      OBVIOUS
    <3>3. x \in H!Request /\ x # NoRow /\ x.current = saved /\ x.disabled = patch[q].disabled
      <4>1. patch[q] \in H!Request
        BY <1>0, <3>1 DEF SavedTyped
      <4>2. x \in H!Request
        BY <1>0, <3>2, <4>1 DEF SavedTyped, H!Request
      <4>3. x.current = saved /\ x.disabled = patch[q].disabled
        BY <3>2, <4>1 DEF H!Request
      <4> QED BY <4>2, <4>3, Distinct
    <3>4. patch' \in [Actors -> H!Request \cup {NoRow}] /\ patch'[q] = x
          /\ \A o \in Actors : o # q => patch'[o] = patch[o]
      BY <1>0, <3>1, <3>2, <3>3 DEF SavedTyped
    <3>5. SavedTyped'
      BY <1>0, <3>1, <3>4 DEF SavedTyped
    <3>6. ASSUME ~unsaved PROVE Carried(q)' /\ \A o \in Actors : patch[o] # NoRow => o = q
      BY <1>0, <1>1, <3>1, <3>3, <3>4, <3>6 DEF Carried, Recalled
    <3>7. Recalled'
      BY <3>1, <3>3, <3>4, <3>6 DEF Recalled
    <3> QED BY <3>5, <3>7
  <2>3. CASE H!_persist_hooks_runtime(q)
    <3>1. /\ patch[q] # NoRow /\ patch[q].current # NoRow
          /\ saved' = IF patch[q].disabled = NoRow THEN patch[q].current ELSE patch[q].disabled
          /\ patch' = [patch EXCEPT ![q] = NoRow] /\ unsaved' = unsaved
      BY <2>3 DEF H!_persist_hooks_runtime
    <3>2. patch[q] \in H!Request
      BY <1>0, <3>1 DEF SavedTyped
    <3>3. saved' \subseteq HookFiles
      BY <3>1, <3>2 DEF H!Request
    <3>4. patch' \in [Actors -> H!Request \cup {NoRow}] /\ patch'[q] = NoRow
          /\ \A o \in Actors : o # q => patch'[o] = patch[o]
      BY <1>0, <3>1 DEF SavedTyped
    <3>5. ASSUME ~unsaved PROVE disabled \subseteq saved' /\ \A o \in Actors : patch[o] # NoRow => o = q
      BY <1>0, <3>1, <3>5 DEF Carried, Recalled
    <3>6. Recalled'
      BY <1>1, <3>1, <3>4, <3>5 DEF Recalled
    <3> QED BY <1>0, <3>1, <3>3, <3>4, <3>6 DEF SavedTyped
  <2>4. CASE H!PersistFails(q)
    BY <1>0, <2>4 DEF SavedTyped, Recalled, H!PersistFails
  <2> QED BY <2>1, <2>2, <2>3, <2>4
<1> QED BY <1>2, <1>3 DEF HInv, SavedTyped

\* Every step of the hooks keeps the invariant.
LEMMA HooksStep ==
    ASSUME HInv, H!Next PROVE HInv'
BY RestartStep, RescanStep, ReloadStep, UpdateStep, EditStep, SaveStep DEF H!Next

\* The other parts leave the hooks alone.
LEMMA HooksRest ==
    ASSUME HInv, UNCHANGED hooks PROVE HInv'
<1>1. UNCHANGED <<dir, files, bound, disabled, served, saved, patch, strays, unsaved>>
  BY DEF hooks
<1>2. H!Manager' = H!Manager
  BY <1>1 DEF H!Manager
<1>3. PICK m : m = H!Manager /\ m = H!Manager'
  BY <1>2
<1>4. IsManager(H!Manager)' /\ (\A f \in HookFiles : OwnFile(H!Manager, f))'
  BY <1>3 DEF HInv
<1>5. SavedTyped' /\ Recalled'
  BY <1>1, SameRequests
<1> QED BY <1>4, <1>5 DEF HInv, SavedTyped

\* At startup initial_load has loaded the directory, and nothing is saved.
LEMMA HooksBegin == H!Init => HInv
<1>1. SUFFICES ASSUME H!Init PROVE HInv
  OBVIOUS
<1>2. PICK d \in [HookFiles -> [content : H!Contents, touched : {FALSE}] \cup {NoRow}] :
        LET m == H!initial_load(H!Fresh(d))
        IN  /\ ~m.full /\ dir = m.dir /\ files = m.files /\ bound = m.bound
            /\ disabled = m.disabled /\ served = m.served /\ strays = m.strays
  BY <1>1 DEF H!Init
<1>3. d \in [HookFiles -> H!Source \cup {NoRow}]
  BY DEF H!Source
<1>4. PICK r : r = H!initial_load(H!Fresh(d))
  OBVIOUS
<1>5. /\ ~r.full /\ dir = r.dir /\ files = r.files /\ bound = r.bound
      /\ disabled = r.disabled /\ served = r.served /\ strays = r.strays
  BY <1>2, <1>4
<1>6. IsManager(r) /\ (\A f \in HookFiles : OwnFile(r, f)) /\ r.disabled = {}
  BY <1>3, <1>4, <1>5, LoadedAtStart
<1>7. PICK n : n = H!Manager
  OBVIOUS
<1>8. /\ n.dir = r.dir /\ n.files = r.files /\ n.bound = r.bound
      /\ n.disabled = r.disabled /\ n.served = r.served /\ n.strays = r.strays
      /\ n = [dir |-> n.dir, files |-> n.files, bound |-> n.bound, disabled |-> n.disabled,
              served |-> n.served, strays |-> n.strays, full |-> n.full]
  BY <1>5, <1>7 DEF H!Manager
<1>9. IsManager(n)
  BY <1>6, <1>8 DEF IsManager
<1>10. ASSUME NEW f \in HookFiles PROVE OwnFile(n, f)
  <2>1. OwnFile(r, f)
    BY <1>6
  <2> QED BY <1>8, <2>1 DEF OwnFile, Traced, Routed, Enabled, Knows
<1>11. saved = {} /\ unsaved = FALSE /\ patch = [q \in Actors |-> NoRow]
  BY <1>1 DEF H!Init
<1> QED BY <1>5, <1>6, <1>7, <1>9, <1>10, <1>11 DEF HInv, Recalled

\* The hooks stay sound: every handler that is bound belongs to a file whose
\* state knows it, or was left behind by a failed load; a loaded file's routes
\* are served; a disabled hook has no handlers and, unless saving it failed or
\* two saves overlapped, is disabled again after a restart.
THEOREM HooksStaySound == AdministrationSpec => []HooksAreSound
<1>1. AdministrationInit => HInv
  BY HooksBegin DEF AdministrationInit
<1>2. HInv /\ [AdministrationNext]_<<part, vars, superusers, oauth2, hooks>> => HInv'
  <2>1. AdministrationNext => H!Next \/ UNCHANGED hooks
    BY DEF AdministrationNext
  <2> QED BY <2>1, HooksStep, HooksRest
<1> QED BY <1>1, <1>2, HooksSound, PTL DEF AdministrationSpec

----------------------------------------------------------------------------
\* Migration files and their history.

\* A history, committed or in the open transaction, that files account for.
Accounted(h) ==
    /\ h \in Seq(Files) /\ Range(h) \subseteq Generated
    /\ \A f \in Range(h) \ disk : content[f].kind = "snapshot" \/ f \in exposed
    /\ failed \cap Range(h) \subseteq exposed

\* Files are numbered as they are generated; nothing is known of others.
Numbered ==
    /\ \E n \in 0..MaxFiles : Generated = 1..n
    /\ disk \subseteq Generated /\ failed \subseteq Generated
    /\ failed \cap disk = {}

IsTx(t) ==
    /\ t = [open |-> t.open, committing |-> t.committing, schema |-> t.schema, hist |-> t.hist]
    /\ t.committing \in BOOLEAN

Session ==
    /\ IsTx(tx) /\ attached \in BOOLEAN /\ lock \in Actors \cup {NoOne}
    /\ pc = [a \in Actors |-> pc[a]] /\ op = [a \in Actors |-> op[a]]
    /\ mine = [a \in Actors |-> mine[a]]
    /\ lock = NoOne => tx.hist = <<>> /\ ~tx.committing
    /\ tx.committing /\ attached => pc[lock] = "await"

\* What an actor generated, and that a snapshot has generated its file.
Owns(a) ==
    /\ mine[a] \subseteq Generated
    /\ pc[a] \in {"idle", "locking", "locked"} => mine[a] = {}
    /\ op[a] = "snapshot" =>
          /\ \A f \in mine[a] : content[f].kind = "snapshot"
          /\ pc[a] \in {"commit", "await", "unclear", "acked"} => mine[a] # {}

FInv ==
    /\ Numbered /\ Accounted(hist) /\ Accounted(tx.hist) /\ Session
    /\ \A a \in Actors : Owns(a)

\* Publish writes files nobody has written before and touches no other
\* (_reserve_timestamp draws a name above every one in the directory).
LEMMA FreshFiles ==
    ASSUME FInv, NEW a \in Actors, NEW changes, NEW k \in 1..2, DOMAIN changes = 1..k,
           \A i \in 1..k : changes[i] # Blank, NextFile + k - 1 <= MaxFiles,
           Publish(a, changes)
    PROVE  LET fs == NextFile..(NextFile + k - 1) IN
           /\ fs \cap Generated = {} /\ fs # {} /\ fs \subseteq Files
           /\ NextFile \in Files
           /\ Generated' = Generated \cup fs
           /\ \E n \in 0..MaxFiles : Generated' = 1..n
           /\ disk' = disk \cup fs
           /\ mine' = [mine EXCEPT ![a] = fs]
           /\ \A f \in Generated : content'[f] = content[f]
           /\ \A f \in fs : content'[f] = changes[f - NextFile + 1]
           /\ UNCHANGED <<hist, exposed>>
<1>1. PICK n \in 0..MaxFiles : Generated = 1..n
  BY DEF FInv, Numbered
<1>2. n \in Nat /\ MaxFiles \in Nat /\ Cardinality(Generated) = n
  BY <1>1, FS_Interval, MigrationsAssumption
<1>3. NextFile = n + 1
  BY <1>2 DEF NextFile
<1> DEFINE fs == NextFile..(NextFile + k - 1)
<1>4. {NextFile + i - 1 : i \in DOMAIN changes} = fs
  <2>1. NextFile \in Nat
    BY <1>2, <1>3
  <2>2. \A i \in 1..k : NextFile + i - 1 \in fs
    BY <2>1
  <2>3. \A f \in fs : f - NextFile + 1 \in 1..k /\ f = NextFile + (f - NextFile + 1) - 1
    BY <2>1
  <2> QED BY <2>2, <2>3
<1>5. /\ content' = [f \in Files |-> IF f \in fs THEN changes[f - NextFile + 1] ELSE content[f]]
      /\ disk' = disk \cup fs
      /\ mine' = [mine EXCEPT ![a] = fs] /\ UNCHANGED <<hist, exposed>>
  BY <1>4 DEF Publish
<1>6. fs \cap Generated = {} /\ fs # {} /\ fs \subseteq Files /\ NextFile \in Files
  <2>1. NextFile \in fs /\ fs \subseteq 1..MaxFiles
    BY <1>2, <1>3
  <2>2. \A f \in fs : f \notin 1..n
    BY <1>2, <1>3
  <2> QED BY <1>1, <2>1, <2>2 DEF Files
<1>7. Generated \subseteq Files
  BY DEF Generated
<1>8. /\ \A f \in Generated : content'[f] = content[f]
      /\ \A f \in fs : content'[f] = changes[f - NextFile + 1]
      /\ \A f \in Files \ fs : content'[f] = content[f]
  BY <1>5, <1>6, <1>7
<1>9. \A f \in fs : content'[f] # Blank
  BY <1>2, <1>3, <1>8
<1>10. Generated' = Generated \cup fs
  BY <1>6, <1>8, <1>9 DEF Generated
<1>11. Generated' = 1..(n + k) /\ n + k \in 0..MaxFiles
  BY <1>1, <1>2, <1>3, <1>10
<1> QED BY <1>5, <1>6, <1>8, <1>10, <1>11

\* What is published joins the history of the transaction, or of none.
LEMMA Published ==
    ASSUME FInv, NEW a \in Actors, NEW changes, NEW k \in 1..2, DOMAIN changes = 1..k,
           \A i \in 1..k : changes[i] # Blank, NextFile + k - 1 <= MaxFiles,
           Publish(a, changes), UNCHANGED failed,
           tx'.hist = <<>> \/ (tx'.hist \in Seq(Files) /\ Range(tx'.hist) \subseteq Range(hist) \cup NextFile..(NextFile + k - 1)),
           op' = op, op[a] = "snapshot" => \A i \in 1..k : changes[i].kind = "snapshot",
           pc' = [pc EXCEPT ![a] = "commit"] \/ pc' = [pc EXCEPT ![a] = "cleanup"]
    PROVE  /\ Numbered' /\ Accounted(hist)' /\ Accounted(tx.hist)'
           /\ \A b \in Actors : Owns(b)'
<1> DEFINE fs == NextFile..(NextFile + k - 1)
<1>1. /\ fs \cap Generated = {} /\ fs # {} /\ fs \subseteq Files
      /\ Generated' = Generated \cup fs
      /\ \E n \in 0..MaxFiles : Generated' = 1..n
      /\ disk' = disk \cup fs
      /\ mine' = [mine EXCEPT ![a] = fs]
      /\ \A f \in Generated : content'[f] = content[f]
      /\ \A f \in fs : content'[f] = changes[f - NextFile + 1]
      /\ UNCHANGED <<hist, exposed>>
      /\ NextFile \in Files
  BY FreshFiles
<1>2. Numbered'
  BY <1>1 DEF FInv, Numbered
<1>3. Accounted(hist)'
  BY <1>1 DEF FInv, Accounted
<1>4. Accounted(tx.hist)'
  <2>1. CASE tx'.hist = <<>>
    BY <2>1 DEF Accounted, Range
  <2>2. CASE tx'.hist \in Seq(Files) /\ Range(tx'.hist) \subseteq Range(hist) \cup fs
    <3>1. Range(tx'.hist) \subseteq Generated'
      BY <1>1, <2>2 DEF FInv, Accounted
    <3>2. ASSUME NEW f \in Range(tx'.hist) \ disk' PROVE content'[f].kind = "snapshot" \/ f \in exposed'
      BY <1>1, <2>2, <3>2 DEF FInv, Accounted
    <3>3. failed' \cap Range(tx'.hist) \subseteq exposed'
      BY <1>1, <2>2 DEF FInv, Accounted, Numbered
    <3> QED BY <2>2, <3>1, <3>2, <3>3 DEF Accounted
  <2> QED BY <2>1, <2>2
<1>5. ASSUME NEW b \in Actors PROVE Owns(b)'
  <2>1. Owns(b) /\ Session
    BY DEF FInv
  <2>2. CASE b = a
    <3>1. mine'[a] = fs /\ pc'[a] \in {"commit", "cleanup"}
      BY <1>1, <2>1 DEF Session
    <3>2. op[a] = "snapshot" => \A f \in fs : content'[f].kind = "snapshot"
      <4>1. NextFile \in Nat
        BY <1>1, MigrationsAssumption DEF Files
      <4> QED BY <1>1, <4>1
    <3> QED BY <1>1, <2>2, <3>1, <3>2 DEF Owns
  <2>3. CASE b # a
    <3>1. mine'[b] = mine[b] /\ pc'[b] = pc[b]
      BY <1>1, <2>1, <2>3 DEF Session
    <3> QED BY <1>1, <2>1, <3>1 DEF Owns
  <2> QED BY <2>2, <2>3
<1> QED BY <1>2, <1>3, <1>4, <1>5

\* A step that touches neither the files nor what is committed.
LEMMA Quiet ==
    ASSUME FInv, UNCHANGED <<disk, content, hist, exposed, failed>>,
           tx' = tx \/ tx' = NoTx \/ tx' = [tx EXCEPT !.committing = TRUE]
    PROVE  /\ Numbered' /\ Accounted(hist)' /\ Accounted(tx.hist)'
           /\ Generated' = Generated
<1>1. Generated' = Generated
  BY DEF Generated
<1>2. Numbered' /\ Accounted(hist)'
  BY <1>1 DEF FInv, Numbered, Accounted
<1>3. tx'.hist = tx.hist \/ tx'.hist = <<>>
  BY DEF FInv, Session, IsTx, NoTx
<1>4. Accounted(tx.hist)'
  <2>1. CASE tx'.hist = tx.hist
    BY <1>1, <2>1 DEF FInv, Accounted
  <2>2. CASE tx'.hist = <<>>
    BY <2>2 DEF Accounted, Range
  <2> QED BY <1>3, <2>1, <2>2
<1> QED BY <1>1, <1>2, <1>4

\* An actor moves on; the lock is freed or kept.
LEMMA Moved ==
    ASSUME FInv, NEW a \in Actors, NEW p, NEW o, NEW m,
           pc[a] # "await" \/ ~(lock = a /\ tx.committing),
           FreeLock(a) \/ UNCHANGED session,
           pc' = [pc EXCEPT ![a] = p], op' = [op EXCEPT ![a] = o],
           mine' = [mine EXCEPT ![a] = m]
    PROVE  /\ Session' /\ (tx' = tx \/ tx' = NoTx)
           /\ pc'[a] = p /\ op'[a] = o /\ mine'[a] = m
           /\ \A b \in Actors \ {a} : pc'[b] = pc[b] /\ op'[b] = op[b] /\ mine'[b] = mine[b]
<1>1. Session
  BY DEF FInv
<1>2. /\ pc'[a] = p /\ op'[a] = o /\ mine'[a] = m
      /\ \A b \in Actors \ {a} : pc'[b] = pc[b] /\ op'[b] = op[b] /\ mine'[b] = mine[b]
      /\ pc' = [b \in Actors |-> pc'[b]] /\ op' = [b \in Actors |-> op'[b]]
      /\ mine' = [b \in Actors |-> mine'[b]]
  BY <1>1 DEF Session
<1>3. CASE lock' = NoOne /\ attached' = FALSE /\ tx' = NoTx
  <2>1. IsTx(tx') /\ tx'.hist = <<>> /\ tx'.committing = FALSE
    BY <1>3 DEF IsTx, NoTx
  <2> QED BY <1>2, <1>3, <2>1 DEF Session
<1>4. CASE UNCHANGED session
  <2>1. tx.committing /\ attached => lock # a /\ lock \in Actors
    BY <1>1 DEF Session
  <2> QED BY <1>1, <1>2, <1>4, <2>1 DEF Session, session
<1> QED BY <1>3, <1>4 DEF FreeLock

\* Nothing another actor has generated is touched.
LEMMA OthersKeep ==
    ASSUME FInv, NEW b \in Actors, Generated \subseteq Generated',
           \A f \in Generated : content'[f] = content[f],
           pc'[b] = pc[b], op'[b] = op[b], mine'[b] = mine[b]
    PROVE  Owns(b)'
BY DEF FInv, Owns

\* A step of an actor that touches no file and no history, and takes nothing
\* from what a snapshot in its COMMIT relies on.
LEMMA QuietMove ==
    ASSUME FInv, NEW a \in Actors, NEW p, NEW o, NEW m,
           pc[a] # "await" \/ ~(lock = a /\ tx.committing),
           FreeLock(a) \/ UNCHANGED session,
           pc' = [pc EXCEPT ![a] = p], op' = [op EXCEPT ![a] = o],
           mine' = [mine EXCEPT ![a] = m],
           UNCHANGED <<disk, content, hist, exposed, failed>>,
           m = {} \/ (m = mine[a] /\ o = op[a]),
           p \in {"idle", "locking", "locked"} => m = {},
           o = "snapshot" /\ p \in {"commit", "await", "unclear", "acked"} => m # {}
    PROVE  FInv'
<1>1. /\ Session' /\ (tx' = tx \/ tx' = NoTx)
      /\ pc'[a] = p /\ op'[a] = o /\ mine'[a] = m
      /\ \A b \in Actors \ {a} : pc'[b] = pc[b] /\ op'[b] = op[b] /\ mine'[b] = mine[b]
  BY Moved
<1>2. /\ Numbered' /\ Accounted(hist)' /\ Accounted(tx.hist)'
      /\ Generated' = Generated
  BY <1>1, Quiet
<1>3. Owns(a)'
  BY <1>1, <1>2 DEF FInv, Owns
<1>4. \A b \in Actors \ {a} : Owns(b)'
  BY <1>1, <1>2, OthersKeep
<1> QED BY <1>1, <1>2, <1>3, <1>4 DEF FInv

\* An operation that ends without taking anything back.
LEMMA Leaves ==
    ASSUME FInv, NEW a \in Actors, NEW what,
           pc[a] # "await" \/ ~(lock = a /\ tx.committing),
           FreeLock(a) \/ UNCHANGED session, Leave(a, what),
           what # "failed" \/ op[a] \notin {"mutate", "import"},
           UNCHANGED <<disk, content, hist, exposed>>
    PROVE  FInv'
<1>1. failed' = failed
  BY DEF Leave
<1>2. /\ pc' = [pc EXCEPT ![a] = "idle"] /\ op' = [op EXCEPT ![a] = "none"]
      /\ mine' = [mine EXCEPT ![a] = {}]
  BY DEF Leave
<1> QED BY <1>1, <1>2, QuietMove

\* What an actor has, it keeps when nothing is assigned.
LEMMA SameMap ==
    ASSUME FInv, NEW a \in Actors
    PROVE  /\ pc = [pc EXCEPT ![a] = pc[a]] /\ op = [op EXCEPT ![a] = op[a]]
           /\ mine = [mine EXCEPT ![a] = mine[a]]
BY DEF FInv, Session

\* An actor asks for the lock, gives up, lists, is refused, loses its session
\* or is done.
LEMMA RequestsStep ==
    ASSUME FInv, NEW a \in Actors,
           \/ apply_migrations(a) \/ revert_migrations(a) \/ generate_snapshot(a)
           \/ _lock_migration_producer(a) \/ import_collections(a) \/ LockTimeout(a)
           \/ Refuse(a) \/ ListPending(a) \/ ListLatest(a) \/ MigrationFails(a)
           \/ BatchDone(a) \/ Acked(a) \/ ReconcileFails(a) \/ SessionLost(a)
    PROVE  FInv'
<1>1. /\ pc = [pc EXCEPT ![a] = pc[a]] /\ op = [op EXCEPT ![a] = op[a]]
      /\ mine = [mine EXCEPT ![a] = mine[a]] /\ Owns(a)
  BY SameMap DEF FInv
<1>2. ASSUME NEW o, Start(a, o) PROVE FInv'
  <2>1. mine[a] = {} /\ pc[a] # "await"
    BY <1>1, <1>2 DEF Start, Owns
  <2> QED BY <1>1, <1>2, <2>1, QuietMove DEF Start, durable
<1>3. CASE \/ LockTimeout(a) \/ Refuse(a) \/ BatchDone(a) \/ ReconcileFails(a)
  <2>1. pc[a] # "await" /\ (FreeLock(a) \/ UNCHANGED session) /\ UNCHANGED <<disk, content, hist, exposed>>
    BY <1>3 DEF LockTimeout, Refuse, BatchDone, ReconcileFails, durable
  <2>2. Leave(a, "refused") \/ Leave(a, "ok") \/ Leave(a, "unknown")
    BY <1>3 DEF LockTimeout, Refuse, BatchDone, ReconcileFails
  <2> QED BY <2>1, <2>2, Leaves
<1>4. CASE MigrationFails(a)
  <2>1. /\ pc[a] # "await" /\ FreeLock(a) /\ UNCHANGED <<disk, content, hist, exposed>>
        /\ Leave(a, "failed") /\ op[a] \notin {"mutate", "import"}
    BY <1>4 DEF MigrationFails, durable
  <2> QED BY <2>1, Leaves
<1>5. CASE ListPending(a) \/ ListLatest(a)
  <2>1. /\ pc[a] = "locked" /\ op[a] # "snapshot" /\ UNCHANGED session
        /\ pc' = [pc EXCEPT ![a] = "batch"] /\ op' = op /\ mine' = mine
        /\ UNCHANGED <<disk, content, hist, exposed, failed>>
    BY <1>5 DEF ListPending, ListLatest, durable
  <2> QED BY <1>1, <2>1, QuietMove
<1>6. CASE Acked(a)
  <2>1. pc[a] = "acked" /\ UNCHANGED <<disk, content, hist, exposed>>
    BY <1>6 DEF Acked, durable
  <2>2. CASE op[a] \in {"up", "down"}
    <3>1. /\ pc' = [pc EXCEPT ![a] = "batch"] /\ op' = op /\ mine' = mine /\ failed' = failed
          /\ UNCHANGED session
      BY <1>6, <2>2 DEF Acked
    <3> QED BY <1>1, <2>1, <3>1, QuietMove
  <2>3. CASE op[a] \notin {"up", "down"}
    <3>1. FreeLock(a) /\ Leave(a, "ok")
      BY <1>6, <2>3 DEF Acked
    <3> QED BY <2>1, <3>1, Leaves
  <2> QED BY <2>2, <2>3
<1>7. CASE SessionLost(a)
  <2>1. /\ pc[a] # "await" /\ FreeLock(a)
        /\ UNCHANGED <<disk, content, hist, exposed, failed>>
    BY <1>7 DEF SessionLost, durable
  <2>2. /\ pc[a] \in {"idle", "locking", "locked"} => mine[a] = {}
        /\ op[a] = "snapshot" /\ pc[a] \in {"commit", "await", "unclear", "acked"} => mine[a] # {}
    BY <1>1 DEF Owns
  <2>3. /\ pc' = [pc EXCEPT ![a] = pc[a]] /\ op' = [op EXCEPT ![a] = op[a]]
        /\ mine' = [mine EXCEPT ![a] = mine[a]]
    BY <1>1, <1>7 DEF SessionLost
  <2>4. PICK p, o, m : p = pc[a] /\ o = op[a] /\ m = mine[a]
    OBVIOUS
  <2> QED BY <2>1, <2>2, <2>3, <2>4, QuietMove
<1> QED BY <1>2, <1>3, <1>4, <1>5, <1>6, <1>7
        DEF apply_migrations, revert_migrations, generate_snapshot, _lock_migration_producer,
        import_collections

\* The lock is taken, or a transaction is left to PostgreSQL.
LEMMA SessionStep ==
    ASSUME FInv, NEW a \in Actors,
           \/ AcquireLock(a) \/ _commit_with_generated_migrations(a)
           \/ ConnectionLost(a) \/ Crash(a)
    PROVE  FInv'
<1>1. Session /\ Owns(a)
  BY DEF FInv
<1>2. CASE AcquireLock(a)
  <2>1. /\ lock' = a /\ attached' = TRUE /\ lock = NoOne /\ pc[a] = "locking"
        /\ pc' = [pc EXCEPT ![a] = "locked"]
        /\ UNCHANGED <<disk, content, hist, exposed, failed, tx, op, mine>>
    BY <1>2 DEF AcquireLock, durable
  <2>2. Session'
    BY <1>1, <2>1 DEF Session
  <2>3. /\ Numbered' /\ Accounted(hist)' /\ Accounted(tx.hist)' /\ Generated' = Generated
    BY <2>1, Quiet
  <2>4. /\ pc'[a] = "locked" /\ \A b \in Actors \ {a} : pc'[b] = pc[b]
    BY <1>1, <2>1 DEF Session
  <2>5. Owns(a)'
    BY <1>1, <2>1, <2>3, <2>4 DEF Owns
  <2>6. \A b \in Actors \ {a} : Owns(b)'
    BY <2>1, <2>3, <2>4, OthersKeep
  <2> QED BY <2>2, <2>3, <2>5, <2>6 DEF FInv
<1>3. CASE _commit_with_generated_migrations(a)
  <2>1. /\ pc[a] = "commit" /\ UNCHANGED <<disk, content, hist, exposed, failed, lock, attached, op, mine>>
    BY <1>3 DEF _commit_with_generated_migrations, durable
  <2>2. CASE Holds(a)
    <3>1. /\ tx' = [tx EXCEPT !.committing = TRUE] /\ pc' = [pc EXCEPT ![a] = "await"]
          /\ lock = a
      BY <1>3, <2>2 DEF _commit_with_generated_migrations, Holds
    <3>2. tx'.hist = tx.hist /\ tx'.committing = TRUE /\ IsTx(tx')
      BY <1>1, <3>1 DEF Session, IsTx
    <3>3. /\ pc'[a] = "await" /\ \A b \in Actors \ {a} : pc'[b] = pc[b]
          /\ pc' = [b \in Actors |-> pc'[b]]
      BY <1>1, <3>1 DEF Session
    <3>4. Session'
      BY <1>1, <2>1, <3>1, <3>2, <3>3, MigrationsAssumption DEF Session
    <3>5. /\ Numbered' /\ Accounted(hist)' /\ Accounted(tx.hist)' /\ Generated' = Generated
      BY <2>1, <3>1, Quiet
    <3>6. Owns(a)'
      BY <1>1, <2>1, <3>3, <3>5 DEF Owns
    <3>7. \A b \in Actors \ {a} : Owns(b)'
      BY <2>1, <3>3, <3>5, OthersKeep
    <3> QED BY <3>4, <3>5, <3>6, <3>7 DEF FInv
  <2>3. CASE ~Holds(a)
    <3>1. /\ tx' = tx /\ pc' = [pc EXCEPT ![a] = "unclear"]
          /\ op' = [op EXCEPT ![a] = op[a]] /\ mine' = [mine EXCEPT ![a] = mine[a]]
      BY <1>3, <2>1, <2>3, SameMap DEF _commit_with_generated_migrations
    <3>2. op[a] = "snapshot" => mine[a] # {}
      BY <1>1, <2>1 DEF Owns
    <3> QED BY <2>1, <3>1, <3>2, QuietMove DEF session
  <2> QED BY <2>2, <2>3
<1>4. CASE ConnectionLost(a)
  <2>1. /\ pc[a] = "await" /\ pc' = [pc EXCEPT ![a] = "unclear"] /\ attached' = FALSE
        /\ UNCHANGED <<disk, content, hist, exposed, failed, lock, tx, op, mine>>
    BY <1>4 DEF ConnectionLost, durable
  <2>2. /\ pc'[a] = "unclear" /\ \A b \in Actors \ {a} : pc'[b] = pc[b]
        /\ pc' = [b \in Actors |-> pc'[b]]
    BY <1>1, <2>1 DEF Session
  <2>3. Session'
    BY <1>1, <2>1, <2>2 DEF Session
  <2>4. /\ Numbered' /\ Accounted(hist)' /\ Accounted(tx.hist)' /\ Generated' = Generated
    BY <2>1, Quiet
  <2>5. Owns(a)'
    BY <1>1, <2>1, <2>2, <2>4 DEF Owns
  <2>6. \A b \in Actors \ {a} : Owns(b)'
    BY <2>1, <2>2, <2>4, OthersKeep
  <2> QED BY <2>3, <2>4, <2>5, <2>6 DEF FInv
<1>5. CASE Crash(a)
  <2>1. UNCHANGED <<disk, content, hist, exposed>> /\ Leave(a, "unknown")
    BY <1>5 DEF Crash, durable
  <2>2. CASE lock = a /\ tx.committing
    <3>1. attached' = FALSE /\ UNCHANGED <<lock, tx>>
      BY <1>5, <2>2 DEF Crash
    <3>2. /\ pc' = [pc EXCEPT ![a] = "idle"] /\ op' = [op EXCEPT ![a] = "none"]
          /\ mine' = [mine EXCEPT ![a] = {}] /\ failed' = failed
      BY <2>1 DEF Leave
    <3>3. /\ pc'[a] = "idle" /\ op'[a] = "none" /\ mine'[a] = {}
          /\ \A b \in Actors \ {a} : pc'[b] = pc[b] /\ op'[b] = op[b] /\ mine'[b] = mine[b]
          /\ pc' = [b \in Actors |-> pc'[b]] /\ op' = [b \in Actors |-> op'[b]]
          /\ mine' = [b \in Actors |-> mine'[b]]
      BY <1>1, <3>2 DEF Session
    <3>4. Session'
      BY <1>1, <3>1, <3>3 DEF Session
    <3>5. /\ Numbered' /\ Accounted(hist)' /\ Accounted(tx.hist)' /\ Generated' = Generated
      BY <2>1, <3>1, <3>2, Quiet
    <3>6. Owns(a)'
      BY <3>3 DEF Owns
    <3>7. \A b \in Actors \ {a} : Owns(b)'
      BY <2>1, <3>3, <3>5, OthersKeep
    <3> QED BY <3>4, <3>5, <3>6, <3>7 DEF FInv
  <2>3. CASE ~(lock = a /\ tx.committing)
    <3>1. FreeLock(a)
      BY <1>5, <2>3 DEF Crash
    <3> QED BY <2>1, <2>3, <3>1, Leaves
  <2> QED BY <2>2, <2>3
<1> QED BY <1>2, <1>3, <1>4, <1>5

\* Published files, and a transaction that records them.
LEMMA Opened ==
    ASSUME FInv, NEW a \in Actors, NEW changes, NEW k \in 1..2, DOMAIN changes = 1..k,
           \A i \in 1..k : changes[i] # Blank, NextFile + k - 1 <= MaxFiles,
           Publish(a, changes), UNCHANGED <<lock, attached, op, failed>>, Holds(a),
           op[a] = "snapshot" => \A i \in 1..k : changes[i].kind = "snapshot",
           NEW s, NEW h \in Seq(Files),
           Range(h) \subseteq Range(hist) \cup NextFile..(NextFile + k - 1),
           tx' = [open |-> TRUE, committing |-> FALSE, schema |-> s, hist |-> h],
           pc' = [pc EXCEPT ![a] = "commit"]
    PROVE  FInv'
<1>1. tx'.hist = h /\ tx'.committing = FALSE /\ IsTx(tx')
  BY DEF IsTx
<1>2. /\ Numbered' /\ Accounted(hist)' /\ Accounted(tx.hist)'
      /\ \A b \in Actors : Owns(b)'
  BY <1>1, Published
<1>3. mine' = [mine EXCEPT ![a] = {NextFile + i - 1 : i \in DOMAIN changes}]
  BY DEF Publish
<1>4. Session'
  BY <1>1, <1>3, MigrationsAssumption DEF FInv, Session, Holds
<1> QED BY <1>2, <1>4 DEF FInv

\* The rows of a transaction that records one more file, or two.
LEMMA Recorded ==
    ASSUME NEW h \in Seq(Files), NEW f \in Files, NEW g \in Files
    PROVE  /\ Append(h, f) \in Seq(Files) /\ Range(Append(h, f)) = Range(h) \cup {f}
           /\ h \o <<f, g>> \in Seq(Files) /\ Range(h \o <<f, g>>) = Range(h) \cup {f, g}
<1>1. Append(h, f) \in Seq(Files) /\ Range(Append(h, f)) = Range(h) \cup {f}
  <2>1. /\ Append(h, f) \in Seq(Files) /\ Len(Append(h, f)) = Len(h) + 1
        /\ \A i \in 1..Len(h) : Append(h, f)[i] = h[i]
        /\ Append(h, f)[Len(h) + 1] = f
        /\ DOMAIN h = 1..Len(h) /\ Len(h) \in Nat
        /\ DOMAIN Append(h, f) = 1..(Len(h) + 1)
    OBVIOUS
  <2> QED BY <2>1 DEF Range
<1>2. h \o <<f, g>> \in Seq(Files) /\ Range(h \o <<f, g>>) = Range(h) \cup {f, g}
  <2> DEFINE t == h \o <<f, g>>
  <2>1. /\ t \in Seq(Files) /\ Len(t) = Len(h) + 2
        /\ DOMAIN h = 1..Len(h) /\ Len(h) \in Nat
        /\ DOMAIN t = 1..(Len(h) + 2)
    OBVIOUS
  <2>2. /\ \A i \in 1..Len(h) : t[i] = h[i]
        /\ t[Len(h) + 1] = f /\ t[Len(h) + 2] = g
    OBVIOUS
  <2> HIDE DEF t
  <2>3. \A i \in DOMAIN t : i \in DOMAIN h \/ i = Len(h) + 1 \/ i = Len(h) + 2
    BY <2>1
  <2>4. Range(t) \subseteq Range(h) \cup {f, g}
    BY <2>1, <2>2, <2>3 DEF Range
  <2>5. Range(h) \cup {f, g} \subseteq Range(t)
    <3>1. \A i \in DOMAIN h : i \in DOMAIN t
      BY <2>1
    <3>2. Len(h) + 1 \in DOMAIN t /\ Len(h) + 2 \in DOMAIN t
      BY <2>1
    <3> QED BY <2>1, <2>2, <3>1, <3>2 DEF Range
  <2> QED BY <2>1, <2>4, <2>5 DEF t
<1> QED BY <1>1, <1>2

\* A change of a collection publishes its file before the transaction ends.
LEMMA GenerateStep ==
    ASSUME FInv, NEW a \in Actors,
           \/ CreateCollection(a) \/ UpdateCollection(a) \/ DeleteCollection(a)
           \/ _import_collections_impl(a) \/ ImportFails(a) \/ create_migration_snapshot(a)
    PROVE  FInv'
<1>1. hist \in Seq(Files)
  BY DEF FInv, Accounted
<1>2. NextFile \in Nat \ {0}
  <2>1. PICK n \in 0..MaxFiles : Generated = 1..n
    BY DEF FInv, Numbered
  <2>2. Cardinality(Generated) \in Nat
    BY <2>1, FS_Interval, MigrationsAssumption
  <2> QED BY <2>2 DEF NextFile
<1>3. \A m : m.kind # "blank" => m # Blank
  BY DEF Blank
<1>4. \A s : \A m \in Mutations(s) : m.kind # "blank"
  BY DEF Mutations, Creations, Updates, Deletions, generate_create_migration,
         generate_update_migration, generate_delete_migration
<1>5. ASSUME NEW m, m.kind # "blank", Publish(a, <<m>>), NEW s, NextFile <= MaxFiles,
             op[a] = "snapshot" => m.kind = "snapshot", Holds(a),
             tx' = [open |-> TRUE, committing |-> FALSE, schema |-> s, hist |-> Append(hist, NextFile)],
             pc' = [pc EXCEPT ![a] = "commit"], UNCHANGED <<lock, attached, op, failed>>
      PROVE  FInv'
  <2>1. NextFile \in Files
    BY <1>2, <1>5, MigrationsAssumption DEF Files
  <2>2. /\ Append(hist, NextFile) \in Seq(Files)
        /\ Range(Append(hist, NextFile)) \subseteq Range(hist) \cup NextFile..(NextFile + 1 - 1)
    <3>1. NextFile \in NextFile..(NextFile + 1 - 1)
      BY <1>2
    <3>2. /\ Append(hist, NextFile) \in Seq(Files)
          /\ Range(Append(hist, NextFile)) = Range(hist) \cup {NextFile}
      BY <1>1, <2>1, Recorded
    <3> QED BY <3>1, <3>2
  <2>3. PICK c, h : c = <<m>> /\ h = Append(hist, NextFile)
    OBVIOUS
  <2>4. /\ DOMAIN c = 1..1 /\ \A i \in 1..1 : c[i] = m
        /\ NextFile + 1 - 1 <= MaxFiles
    BY <1>2, <1>5, <2>3
  <2>5. m # Blank
    BY <1>3, <1>5
  <2>6. Publish(a, c) /\ tx' = [open |-> TRUE, committing |-> FALSE, schema |-> s, hist |-> h]
    BY <1>5, <2>3
  <2>7. h \in Seq(Files) /\ Range(h) \subseteq Range(hist) \cup NextFile..(NextFile + 1 - 1)
    BY <2>2, <2>3
  <2>8. 1 \in 1..2 /\ (\A i \in 1..1 : c[i] # Blank)
        /\ (op[a] = "snapshot" => \A i \in 1..1 : c[i].kind = "snapshot")
    BY <1>5, <2>4, <2>5
  <2> HIDE DEF Holds
  <2> QED BY <1>5, <2>4, <2>6, <2>7, <2>8, Opened
<1>6. ASSUME NEW changes, Mutate(a, changes), \A m \in changes : m.kind # "blank"
      PROVE  FInv'
  <2>1. PICK m \in changes :
          /\ Publish(a, <<m>>)
          /\ tx' = [open |-> TRUE, committing |-> FALSE, schema |-> Changed(m, schema),
                    hist |-> Append(hist, NextFile)]
    BY <1>6 DEF Mutate
  <2>2. /\ op[a] = "mutate" /\ Holds(a) /\ NextFile <= MaxFiles
        /\ pc' = [pc EXCEPT ![a] = "commit"] /\ UNCHANGED <<lock, attached, op, failed>>
    BY <1>6 DEF Mutate
  <2> QED BY <1>5, <1>6, <2>1, <2>2
<1>7. CASE CreateCollection(a) \/ UpdateCollection(a) \/ DeleteCollection(a)
  BY <1>4, <1>6, <1>7 DEF CreateCollection, UpdateCollection, DeleteCollection, Mutations
<1>8. CASE _import_collections_impl(a)
  <2>1. PICK m \in Mutations(schema) : \E n \in Mutations(Changed(m, schema)) :
          /\ Publish(a, <<m, n>>)
          /\ tx' = [open |-> TRUE, committing |-> FALSE,
                    schema |-> Changed(n, Changed(m, schema)),
                    hist |-> hist \o <<NextFile, NextFile + 1>>]
    BY <1>8 DEF _import_collections_impl
  <2>2. PICK n \in Mutations(Changed(m, schema)) :
          /\ Publish(a, <<m, n>>)
          /\ tx' = [open |-> TRUE, committing |-> FALSE,
                    schema |-> Changed(n, Changed(m, schema)),
                    hist |-> hist \o <<NextFile, NextFile + 1>>]
    BY <2>1
  <2>3. /\ op[a] = "import" /\ Holds(a) /\ NextFile < MaxFiles
        /\ pc' = [pc EXCEPT ![a] = "commit"] /\ UNCHANGED <<lock, attached, op, failed>>
    BY <1>8 DEF _import_collections_impl
  <2>4. NextFile \in Files /\ NextFile + 1 \in Files /\ NextFile + 2 - 1 <= MaxFiles
    BY <1>2, <2>3, MigrationsAssumption DEF Files
  <2>5. /\ hist \o <<NextFile, NextFile + 1>> \in Seq(Files)
        /\ Range(hist \o <<NextFile, NextFile + 1>>) \subseteq Range(hist) \cup NextFile..(NextFile + 2 - 1)
    <3>1. NextFile \in NextFile..(NextFile + 2 - 1) /\ NextFile + 1 \in NextFile..(NextFile + 2 - 1)
      BY <1>2
    <3> QED BY <1>1, <2>4, <3>1, Recorded
  <2>6. PICK c, h, s : /\ c = <<m, n>> /\ h = hist \o <<NextFile, NextFile + 1>>
                       /\ s = Changed(n, Changed(m, schema))
    OBVIOUS
  <2>7. DOMAIN c = 1..2 /\ \A i \in 1..2 : c[i] \in {m, n}
    BY <2>6
  <2>8. 2 \in 1..2 /\ \A i \in 1..2 : c[i] # Blank
    BY <1>3, <1>4, <2>7
  <2>9. Publish(a, c) /\ tx' = [open |-> TRUE, committing |-> FALSE, schema |-> s, hist |-> h]
    BY <2>2, <2>6
  <2>10. h \in Seq(Files) /\ Range(h) \subseteq Range(hist) \cup NextFile..(NextFile + 2 - 1)
    BY <2>5, <2>6
  <2> QED BY <2>3, <2>4, <2>7, <2>8, <2>9, <2>10, Opened
<1>9. CASE ImportFails(a)
  <2>1. PICK m \in Mutations(schema) : Publish(a, <<m>>)
    BY <1>9 DEF ImportFails
  <2>2. /\ pc[a] = "locked" /\ op[a] = "import" /\ Holds(a) /\ NextFile <= MaxFiles /\ FreeLock(a)
        /\ pc' = [pc EXCEPT ![a] = "cleanup"] /\ UNCHANGED <<op, failed>>
    BY <1>9 DEF ImportFails
  <2>3. /\ op' = [op EXCEPT ![a] = op[a]]
        /\ mine' = [mine EXCEPT ![a] = {NextFile + i - 1 : i \in DOMAIN <<m>>}]
    BY <2>1, <2>2, SameMap DEF Publish
  <2>4. Session' /\ (tx' = tx \/ tx' = NoTx)
    BY <2>2, <2>3, Moved
  <2>5. tx'.hist = <<>>
    <3>1. ~tx.committing
      BY <2>2 DEF FInv, Session, Holds
    <3> QED BY <2>2, <3>1 DEF FreeLock, Holds, NoTx
  <2>6. PICK c : c = <<m>>
    OBVIOUS
  <2>7. /\ DOMAIN c = 1..1 /\ 1 \in 1..2 /\ (\A i \in 1..1 : c[i] # Blank)
        /\ Publish(a, c) /\ NextFile + 1 - 1 <= MaxFiles
    BY <1>2, <1>3, <1>4, <2>1, <2>2, <2>6
  <2>8. /\ Numbered' /\ Accounted(hist)' /\ Accounted(tx.hist)'
        /\ \A b \in Actors : Owns(b)'
    BY <2>2, <2>5, <2>7, Published
  <2> QED BY <2>4, <2>8 DEF FInv
<1>10. CASE create_migration_snapshot(a)
  <2> DEFINE m == generate_snapshot_migration(schema)
  <2>1. /\ Publish(a, <<m>>)
        /\ tx' = [open |-> TRUE, committing |-> FALSE, schema |-> schema,
                  hist |-> Append(hist, NextFile)]
        /\ Holds(a) /\ NextFile <= MaxFiles
        /\ pc' = [pc EXCEPT ![a] = "commit"] /\ UNCHANGED <<lock, attached, op, failed>>
    BY <1>10 DEF create_migration_snapshot
  <2>2. m.kind = "snapshot"
    BY DEF generate_snapshot_migration
  <2> HIDE DEF m
  <2> QED BY <1>5, <2>1, <2>2
<1> QED BY <1>7, <1>8, <1>9, <1>10

\* Taking a row away leaves rows that were there.
LEMMA RowGone ==
    ASSUME NEW h \in Seq(Files), NEW f
    PROVE  Without(h, f) \in Seq(Files) /\ Range(Without(h, f)) \subseteq Range(h)
<1>1. CASE f \notin Range(h)
  BY <1>1 DEF Without
<1>2. CASE f \in Range(h)
  <2>1. PICK k \in DOMAIN h : Without(h, f) = RemoveAt(h, k)
    <3>1. \E i \in DOMAIN h : h[i] = f
      BY <1>2 DEF Range
    <3> QED BY <1>2, <3>1 DEF Without
  <2>2. k \in 1..Len(h) /\ DOMAIN h = 1..Len(h) /\ Len(h) \in Nat
    OBVIOUS
  <2> DEFINE l == SubSeq(h, 1, k - 1)
             r == SubSeq(h, k + 1, Len(h))
  <2>3. /\ l \in Seq(Files) /\ Len(l) = k - 1 /\ \A i \in 1..(k - 1) : l[i] = h[i]
    BY <2>2
  <2>4. /\ r \in Seq(Files) /\ Len(r) = Len(h) - k
        /\ \A i \in 1..(Len(h) - k) : r[i] = h[k + i]
    BY <2>2
  <2> HIDE DEF l, r
  <2>5. /\ l \o r \in Seq(Files) /\ DOMAIN (l \o r) = 1..(Len(l) + Len(r))
        /\ \A i \in 1..(Len(l) + Len(r)) :
              (l \o r)[i] = IF i <= Len(l) THEN l[i] ELSE r[i - Len(l)]
    BY <2>3, <2>4
  <2>6. ASSUME NEW i \in 1..(Len(l) + Len(r)) PROVE (l \o r)[i] \in Range(h)
    <3>1. CASE i <= Len(l)
      <4>1. i \in 1..(k - 1) /\ i \in DOMAIN h
        BY <2>2, <2>3, <2>4, <3>1
      <4>2. (l \o r)[i] = h[i]
        BY <2>3, <2>5, <3>1, <4>1
      <4> QED BY <4>1, <4>2 DEF Range
    <3>2. CASE ~(i <= Len(l))
      <4>1. i - Len(l) \in 1..(Len(h) - k) /\ k + (i - Len(l)) \in DOMAIN h
        BY <2>2, <2>3, <2>4, <3>2
      <4>2. (l \o r)[i] = h[k + (i - Len(l))]
        BY <2>4, <2>5, <3>2, <4>1
      <4> QED BY <4>1, <4>2 DEF Range
    <3> QED BY <3>1, <3>2
  <2>7. Without(h, f) = l \o r
    BY <2>1 DEF l, r, RemoveAt
  <2>8. Range(l \o r) \subseteq Range(h)
    BY <2>5, <2>6 DEF Range
  <2> QED BY <2>5, <2>7, <2>8
<1> QED BY <1>1, <1>2

\* A runner applies a file that is there, or takes its row away.
LEMMA RunStep ==
    ASSUME FInv, NEW a \in Actors, apply_migration(a) \/ revert_migration(a)
    PROVE  FInv'
<1>1. /\ pc[a] = "batch" /\ op[a] # "snapshot" /\ Holds(a)
      /\ pc' = [pc EXCEPT ![a] = "commit"]
      /\ UNCHANGED <<disk, content, hist, exposed, failed, lock, attached, op, mine>>
  BY DEF apply_migration, revert_migration, durable
<1>2. Session /\ hist \in Seq(Files) /\ Numbered
  BY DEF FInv, Accounted
<1>3. PICK s, h : /\ tx' = [open |-> TRUE, committing |-> FALSE, schema |-> s, hist |-> h]
                  /\ h \in Seq(Files)
                  /\ \A f \in Range(h) : f \in Range(hist) \/ f \in disk
  <2>1. CASE apply_migration(a)
    <3>1. PICK f : /\ f \in disk
                   /\ tx' = [open |-> TRUE, committing |-> FALSE,
                             schema |-> up(content[f], schema), hist |-> Append(hist, f)]
      BY <2>1 DEF apply_migration
    <3>2. f \in Files
      BY <1>2, <3>1 DEF Numbered, Generated
    <3>3. Append(hist, f) \in Seq(Files) /\ Range(Append(hist, f)) = Range(hist) \cup {f}
      BY <1>2, <3>2, Recorded
    <3> QED BY <3>1, <3>3
  <2>2. CASE revert_migration(a)
    <3>1. PICK f : tx' = [open |-> TRUE, committing |-> FALSE,
                          schema |-> down(content[f], schema), hist |-> Without(hist, f)]
      BY <2>2 DEF revert_migration
    <3>2. Without(hist, f) \in Seq(Files) /\ Range(Without(hist, f)) \subseteq Range(hist)
      BY <1>2, RowGone
    <3> QED BY <3>1, <3>2
  <2> QED BY <2>1, <2>2
<1>4. tx'.hist = h /\ tx'.committing = FALSE /\ IsTx(tx')
  BY <1>3 DEF IsTx
<1>5. Generated' = Generated
  BY <1>1 DEF Generated
<1>6. Numbered' /\ Accounted(hist)'
  BY <1>1, <1>5 DEF FInv, Numbered, Accounted
<1>7. Accounted(tx.hist)'
  BY <1>1, <1>3, <1>4, <1>5 DEF FInv, Numbered, Accounted
<1>8. Session'
  BY <1>1, <1>2, <1>4, MigrationsAssumption DEF Session, Holds
<1>9. pc'[a] = "commit" /\ \A b \in Actors \ {a} : pc'[b] = pc[b]
  BY <1>1, <1>2 DEF Session
<1>10. Owns(a)'
  BY <1>1, <1>5, <1>9 DEF FInv, Owns
<1>11. \A b \in Actors \ {a} : Owns(b)'
  BY <1>1, <1>5, <1>9, OthersKeep
<1> QED BY <1>6, <1>7, <1>8, <1>10, <1>11 DEF FInv

\* PostgreSQL decides a COMMIT; whoever waits for it learns of it or does not.
LEMMA CommitStep ==
    ASSUME FInv, CommitLands \/ CommitAborts
    PROVE  FInv'
<1>1. Session /\ tx.committing
  BY DEF FInv, CommitLands, CommitAborts
<1>2. /\ UNCHANGED <<disk, content, exposed, failed, op, mine>>
      /\ tx' = NoTx /\ (UNCHANGED <<lock, attached>> \/ (lock' = NoOne /\ attached' = FALSE))
      /\ hist' = hist \/ hist' = tx.hist
  BY DEF CommitLands, CommitAborts, Decided, durable
<1>3. lock \in Actors
  BY <1>1 DEF Session
<1>4. \/ pc' = pc /\ ~attached
      \/ attached /\ (pc' = [pc EXCEPT ![lock] = "unclear"] \/ pc' = [pc EXCEPT ![lock] = "acked"])
  <2>1. CASE CommitLands
    <3>1. PICK raised \in BOOLEAN :
            pc' = IF attached THEN [pc EXCEPT ![lock] = IF raised THEN "unclear" ELSE "acked"] ELSE pc
      BY <2>1 DEF CommitLands
    <3> QED BY <3>1
  <2>2. CASE CommitAborts
    BY <2>2 DEF CommitAborts
  <2> QED BY <2>1, <2>2
<1>5. IsTx(tx') /\ tx'.hist = <<>> /\ tx'.committing = FALSE
  BY <1>2 DEF IsTx, NoTx
<1>6. /\ pc' = [b \in Actors |-> pc'[b]]
      /\ \A b \in Actors : \/ pc'[b] = pc[b]
                           \/ pc[b] = "await" /\ pc'[b] \in {"unclear", "acked"}
  BY <1>1, <1>3, <1>4 DEF Session
<1>7. Session'
  BY <1>1, <1>2, <1>5, <1>6 DEF Session
<1>8. Generated' = Generated
  BY <1>2 DEF Generated
<1>9. Numbered'
  BY <1>2, <1>8 DEF FInv, Numbered
<1>10. Accounted(hist)'
  BY <1>2, <1>8 DEF FInv, Accounted
<1>11. Accounted(tx.hist)'
  BY <1>5 DEF Accounted, Range
<1>12. \A b \in Actors : Owns(b)'
  BY <1>2, <1>6, <1>8 DEF FInv, Owns
<1> QED BY <1>7, <1>9, <1>10, <1>11, <1>12 DEF FInv

\* An operation that ends and has taken its files back.
LEMMA Withdrawn ==
    ASSUME FInv, NEW a \in Actors, pc' = [pc EXCEPT ![a] = "idle"],
           op' = [op EXCEPT ![a] = "none"], mine' = [mine EXCEPT ![a] = {}],
           FreeLock(a) \/ UNCHANGED session, pc[a] # "await", content' = content,
           Numbered', Accounted(hist)', Accounted(tx.hist)'
    PROVE  FInv'
<1>1. /\ Session' /\ (tx' = tx \/ tx' = NoTx)
      /\ pc'[a] = "idle" /\ op'[a] = "none" /\ mine'[a] = {}
      /\ \A b \in Actors \ {a} : pc'[b] = pc[b] /\ op'[b] = op[b] /\ mine'[b] = mine[b]
  BY Moved
<1>2. Generated' = Generated
  BY DEF Generated
<1>3. Owns(a)'
  BY <1>1 DEF Owns
<1>4. \A b \in Actors \ {a} : Owns(b)'
  BY <1>1, <1>2, OthersKeep
<1> QED BY <1>1, <1>3, <1>4 DEF FInv

\* Files are taken back under the lock, by an import that failed, or by a
\* snapshot.
LEMMA UnlinkStep ==
    ASSUME FInv, NEW a \in Actors,
           \/ _cleanup_generated_migrations(a) \/ _reconcile_generated_migrations(a)
           \/ commit_migration_transaction(a)
    PROVE  FInv'
<1>1. Session /\ Owns(a)
  BY DEF FInv
<1>2. ASSUME NEW what, Leave(a, what)
      PROVE  /\ pc' = [pc EXCEPT ![a] = "idle"] /\ op' = [op EXCEPT ![a] = "none"]
             /\ mine' = [mine EXCEPT ![a] = {}]
             /\ failed' = failed \/ failed' = failed \cup mine[a]
             /\ (what # "failed" \/ op[a] \notin {"mutate", "import"}) => failed' = failed
  BY <1>2 DEF Leave
<1>3. CASE _cleanup_generated_migrations(a)
  <2>1. /\ disk' = disk \ mine[a] /\ exposed' = exposed \cup mine[a]
        /\ UNCHANGED <<content, hist, session>> /\ pc[a] = "cleanup" /\ Leave(a, "failed")
    BY <1>3 DEF _cleanup_generated_migrations
  <2>2. failed' = failed \/ failed' = failed \cup mine[a]
    BY <1>2, <2>1
  <2>3. Generated' = Generated /\ tx' = tx /\ mine[a] \subseteq Generated
    BY <1>1, <2>1 DEF Generated, session, Owns
  <2>4. Numbered'
    BY <2>1, <2>2, <2>3 DEF FInv, Numbered
  <2>5. Accounted(hist)' /\ Accounted(tx.hist)'
    BY <2>1, <2>2, <2>3 DEF FInv, Accounted
  <2>6. FreeLock(a) \/ UNCHANGED session
    BY <2>1
  <2> QED BY <1>2, Withdrawn, <2>1, <2>4, <2>5, <2>6
<1>4. CASE _reconcile_generated_migrations(a)
  <2>1. PICK what :
        /\ UNCHANGED <<content, hist, exposed, session>> /\ pc[a] = "unclear" /\ lock = NoOne
        /\ Leave(a, what) /\ (what = "failed" => mine[a] \cap Applied = {})
        /\ disk' = IF mine[a] \cap Applied = {} THEN disk \ mine[a] ELSE disk
    BY <1>4 DEF _reconcile_generated_migrations
  <2>2. /\ failed' = failed \/ (failed' = failed \cup mine[a] /\ mine[a] \cap Applied = {})
    BY <1>2, <2>1
  <2>3. Generated' = Generated /\ tx' = tx /\ mine[a] \subseteq Generated /\ tx.hist = <<>>
    BY <1>1, <2>1 DEF Generated, session, Owns, Session
  <2>4. Numbered'
    BY <2>1, <2>2, <2>3 DEF FInv, Numbered
  <2>5. Accounted(hist)'
    BY <2>1, <2>2, <2>3 DEF FInv, Accounted, Applied
  <2>6. Accounted(tx.hist)'
    BY <2>3 DEF Accounted, Range
  <2>7. FreeLock(a) \/ UNCHANGED session
    BY <2>1
  <2> QED BY <1>2, Withdrawn, <2>1, <2>4, <2>5, <2>6, <2>7
<1>5. CASE commit_migration_transaction(a)
  <2>1. /\ pc[a] = "unclear" /\ op[a] \in {"up", "down", "snapshot"}
        /\ UNCHANGED <<content, hist, exposed>>
    BY <1>5 DEF commit_migration_transaction
  <2>2. PICK f :
          /\ op[a] = "snapshot" => f = CHOOSE g \in mine[a] : TRUE
          /\ \/ /\ pc' = [pc EXCEPT ![a] = "acked"]
                /\ UNCHANGED <<disk, session, op, mine, failed>>
             \/ Leave(a, "unknown") /\ UNCHANGED <<disk, session>>
             \/ /\ disk' = IF op[a] = "snapshot" THEN disk \ {f} ELSE disk
                /\ FreeLock(a) /\ Leave(a, "failed")
    BY <1>5 DEF commit_migration_transaction
  <2>3. CASE /\ pc' = [pc EXCEPT ![a] = "acked"]
             /\ UNCHANGED <<disk, session, op, mine, failed>>
    <3>1. op' = [op EXCEPT ![a] = op[a]] /\ mine' = [mine EXCEPT ![a] = mine[a]]
      BY <2>3, SameMap
    <3>2. op[a] = "snapshot" => mine[a] # {}
      BY <1>1, <2>1 DEF Owns
    <3> QED BY <2>1, <2>3, <3>1, <3>2, QuietMove
  <2>4. CASE Leave(a, "unknown") /\ UNCHANGED <<disk, session>>
    BY <2>1, <2>4, Leaves
  <2>5. CASE /\ disk' = IF op[a] = "snapshot" THEN disk \ {f} ELSE disk
             /\ FreeLock(a) /\ Leave(a, "failed")
    <3>1. failed' = failed
      BY <1>2, <2>1, <2>5
    <3>2. disk' = disk \/ (disk' = disk \ {f} /\ content[f].kind = "snapshot")
      <4>1. CASE op[a] = "snapshot"
        <5>1. mine[a] # {} /\ \A g \in mine[a] : content[g].kind = "snapshot"
          BY <1>1, <2>1, <4>1 DEF Owns
        <5> QED BY <2>2, <2>5, <4>1, <5>1
      <4>2. CASE op[a] # "snapshot"
        BY <2>5, <4>2
      <4> QED BY <4>1, <4>2
    <3>3. Generated' = Generated /\ (tx' = tx \/ tx' = NoTx)
      BY <2>1, <2>5 DEF Generated, FreeLock, session
    <3>4. Numbered' /\ Accounted(hist)'
      BY <2>1, <3>1, <3>2, <3>3 DEF FInv, Numbered, Accounted
    <3>5. Accounted(tx.hist)'
      <4>1. CASE tx' = tx
        BY <2>1, <3>1, <3>2, <3>3, <4>1 DEF FInv, Accounted
      <4>2. CASE tx' = NoTx
        BY <4>2 DEF Accounted, Range, NoTx
      <4> QED BY <3>3, <4>1, <4>2
    <3> QED BY <1>2, Withdrawn, <2>1, <2>5, <3>4, <3>5
  <2> QED BY <2>2, <2>3, <2>4, <2>5
<1> QED BY <1>3, <1>4, <1>5

\* A directory that holds at most one file nobody has applied.
LEMMA FilesInit ==
    ASSUME Init PROVE FInv
<1>1. PICK first \in {Blank} \cup {m \in Change : m.kind = "create" /\ m.old = Absent /\ m.new = Fresh} :
          /\ content = [f \in Files |-> IF f = 1 THEN first ELSE Blank]
          /\ disk = IF first = Blank THEN {} ELSE {1}
  BY DEF Init
<1>2. Generated = disk /\ \E n \in 0..MaxFiles : Generated = 1..n
  <2>1. MaxFiles \in Nat \ {0} /\ 1 \in Files
    BY MigrationsAssumption DEF Files
  <2>2. CASE first = Blank
    <3>1. Generated = {}
      BY <1>1, <2>2 DEF Generated
    <3>2. {} = 1..0 /\ 0 \in 0..MaxFiles
      BY <2>1
    <3> QED BY <1>1, <2>2, <3>1, <3>2
  <2>3. CASE first # Blank
    <3>1. Generated = {1}
      BY <1>1, <2>1, <2>3 DEF Generated
    <3>2. {1} = 1..1 /\ 1 \in 0..MaxFiles
      BY <2>1
    <3> QED BY <1>1, <2>3, <3>1, <3>2
  <2> QED BY <2>2, <2>3
<1>3. Numbered
  BY <1>2 DEF Init, Numbered
<1>4. tx.hist = <<>> /\ tx.committing = FALSE /\ IsTx(tx)
  BY DEF Init, NoTx, IsTx
<1>5. Accounted(hist) /\ Accounted(tx.hist)
  BY <1>4 DEF Init, Accounted, Range
<1>6. Session
  BY <1>4 DEF Init, Session
<1>7. \A a \in Actors : Owns(a)
  BY DEF Init, Owns
<1> QED BY <1>3, <1>5, <1>6, <1>7 DEF FInv

\* Every step of every actor, and every COMMIT that is decided.
LEMMA FilesNext ==
    ASSUME FInv, [Next]_vars PROVE FInv'
<1>1. ASSUME NEW a \in Actors, ActorStep(a) PROVE FInv'
  BY <1>1, RequestsStep, SessionStep, GenerateStep, RunStep, UnlinkStep DEF ActorStep
<1>2. CASE UNCHANGED vars
  BY <1>2 DEF vars, FInv, Numbered, Generated, Accounted, Session, Owns, IsTx
<1> QED BY <1>1, <1>2, CommitStep DEF Next

\* The migrations directory and _migrations agree: a recorded file is there,
\* and a change that was reported as failed left neither file nor row, for
\* any number of actors, collections, files and faults
\* (_reconcile_generated_migrations, _cleanup_generated_migrations,
\* commit_migration_transaction).
THEOREM FilesStayMatched == Spec => []FilesMatchHistory
<1>1. FInv => FilesMatchHistory
  BY DEF FInv, Accounted, Numbered, FilesMatchHistory, NoOrphanHistory, FailureLeavesNothing,
         Applied
<1> QED BY <1>1, FilesInit, FilesNext, PTL DEF Spec

----------------------------------------------------------------------------
\* Replay: the files as a chain of database states.

\* A file that can be applied to the collections s, and was written for them.
Fits(x, s) ==
    \/ /\ x.kind = "create" /\ x.coll \in Colls
       /\ s[x.coll] = Absent /\ x.new \in Defs
    \/ /\ x.kind = "update" /\ x.coll \in Colls
       /\ s[x.coll] = x.old /\ x.old \in Defs /\ x.new \in Defs
    \/ /\ x.kind = "delete" /\ x.coll \in Colls
       /\ s[x.coll] = x.old /\ x.old \in Defs
    \/ x.kind = "snapshot" /\ x.all = s

\* No collection exists.
Empty == [c \in Colls |-> Absent]

\* g is what the files C, whose contents are D, make of an empty database:
\* g[f] is reached by those up to f.
Chain(g, C, D) ==
    /\ g \in [0..MaxFiles -> Schemas] /\ g[0] = Empty
    /\ \A f \in Files : IF f \in C THEN Fits(D[f], g[f - 1]) /\ g[f] = up(D[f], g[f - 1])
                        ELSE g[f] = g[f - 1]

\* The files A are the first ones of C, and they make s.
Reached(g, C, A, s) == \E n \in 0..MaxFiles : A = C \cap (1..n) /\ s = g[n]

\* Naturals have a least element.
LEMMA Least ==
    ASSUME NEW T \in SUBSET Nat, T # {}
    PROVE  \E x \in T : \A y \in T : x <= y
<1>1. \E x \in T : \A y \in T : ~(<<y, x>> \in OpToRel(<, Nat))
  BY NatLessThanWellFounded, WFMin
<1>2. PICK x \in T : \A y \in T : ~(<<y, x>> \in OpToRel(<, Nat))
  BY <1>1
<1>3. ASSUME NEW y \in T PROVE x <= y
  <2>1. ~(y < x)
    BY <1>2 DEF OpToRel
  <2> QED BY <2>1
<1> QED BY <1>3

\* A file that fits is applied as it was written, and its down() takes back
\* what its up() did.
LEMMA UpDown ==
    ASSUME NEW s \in Schemas, NEW x, Fits(x, s)
    PROVE  /\ CanUp(x, s) /\ up(x, s) \in Schemas
           /\ CanDown(x, up(x, s)) /\ down(x, up(x, s)) = s
<1>1. CASE /\ x.kind = "create" /\ x.coll \in Colls
           /\ s[x.coll] = Absent /\ x.new \in Defs
  <2>1. up(x, s) = [s EXCEPT ![x.coll] = x.new] /\ CanUp(x, s)
    BY <1>1 DEF up, CanUp
  <2>2. \A t : down(x, t) = [t EXCEPT ![x.coll] = Absent] /\ (CanDown(x, t) <=> t[x.coll] # Absent)
    BY <1>1 DEF down, CanDown
  <2>3. PICK t : t = up(x, s)
    OBVIOUS
  <2>4. t \in Schemas /\ t[x.coll] = x.new /\ [t EXCEPT ![x.coll] = Absent] = s
    BY <1>1, <2>1, <2>3 DEF Schemas
  <2>5. x.new # Absent
    BY <1>1, AbsentAssumption
  <2> QED BY <2>1, <2>2, <2>3, <2>4, <2>5
<1>2. CASE /\ x.kind = "update" /\ x.coll \in Colls
           /\ s[x.coll] = x.old /\ x.old \in Defs /\ x.new \in Defs
  <2> DEFINE keys == _compute_collection_diff(x.old, x.new)
  <2>1. /\ up(x, s) = [s EXCEPT ![x.coll] = update_collection(s[x.coll], keys, x.new)]
        /\ CanUp(x, s) <=> s[x.coll] # Absent
    BY <1>2 DEF up, CanUp
  <2>2. \A t : /\ down(x, t) = [t EXCEPT ![x.coll] = update_collection(t[x.coll], keys, x.old)]
               /\ (CanDown(x, t) <=> t[x.coll] # Absent)
    BY <1>2 DEF down, CanDown
  <2>3. update_collection(x.old, keys, x.new) = x.new
    BY <1>2 DEF update_collection, _compute_collection_diff, Defs
  <2>4. update_collection(x.new, keys, x.old) = x.old
    BY <1>2 DEF update_collection, _compute_collection_diff, Defs
  <2>5. up(x, s) = [s EXCEPT ![x.coll] = x.new]
    BY <1>2, <2>1, <2>3
  <2>6. up(x, s) \in Schemas /\ up(x, s)[x.coll] = x.new
    BY <1>2, <2>5 DEF Schemas
  <2>7. down(x, up(x, s)) = [up(x, s) EXCEPT ![x.coll] = x.old]
    BY <2>2, <2>4, <2>6
  <2>8. down(x, up(x, s)) = s
    BY <1>2, <2>5, <2>7 DEF Schemas
  <2> QED BY <1>2, <2>1, <2>2, <2>6, <2>8, AbsentAssumption
<1>3. CASE /\ x.kind = "delete" /\ x.coll \in Colls
           /\ s[x.coll] = x.old /\ x.old \in Defs
  <2>1. up(x, s) = [s EXCEPT ![x.coll] = Absent] /\ CanUp(x, s)
    BY <1>3, AbsentAssumption DEF up, CanUp
  <2>2. \A t : down(x, t) = [t EXCEPT ![x.coll] = x.old] /\ (CanDown(x, t) <=> t[x.coll] = Absent)
    BY <1>3 DEF down, CanDown
  <2>3. PICK t : t = up(x, s)
    OBVIOUS
  <2>4. t \in Schemas /\ t[x.coll] = Absent /\ [t EXCEPT ![x.coll] = x.old] = s
    BY <1>3, <2>1, <2>3 DEF Schemas
  <2> QED BY <2>1, <2>2, <2>3, <2>4
<1>4. CASE x.kind = "snapshot" /\ x.all = s
  <2>1. up(x, s) = s
    BY <1>4 DEF up, save_collection, Schemas
  <2>2. CanUp(x, s) /\ CanDown(x, s) /\ down(x, s) = s
    BY <1>4 DEF CanUp, CanDown, down
  <2> QED BY <2>1, <2>2
<1> QED BY <1>1, <1>2, <1>3, <1>4 DEF Fits

\* What the service accepts fits the collections, and the file says exactly
\* what the service itself writes.
LEMMA MutationsFit ==
    ASSUME NEW s \in Schemas, NEW m \in Mutations(s)
    PROVE  Fits(m, s) /\ up(m, s) = Changed(m, s)
<1>0. Fresh \in Defs
  <2>1. (CHOOSE v \in Vals : TRUE) \in Vals
    BY MigrationsAssumption
  <2> QED BY <2>1 DEF Fresh, Defs
<1>1. CASE m \in Creations(s)
  <2>1. PICK c \in Colls : s[c] = Absent /\ m = generate_create_migration(c)
    BY <1>1 DEF Creations
  <2>2. m.kind = "create" /\ m.coll = c /\ m.new = Fresh
    BY <2>1 DEF generate_create_migration
  <2> QED BY <1>0, <2>1, <2>2 DEF Fits, up, Changed
<1>2. CASE m \in Updates(s)
  <2>1. PICK c \in Colls, d \in Defs : s[c] # Absent /\ m = generate_update_migration(c, d, s)
    BY <1>2 DEF Updates
  <2>2. m.kind = "update" /\ m.coll = c /\ m.old = s[c] /\ m.new = d
    BY <2>1 DEF generate_update_migration
  <2>3. s[c] \in Defs
    BY <2>1 DEF Schemas
  <2>4. Fits(m, s)
    BY <2>2, <2>3 DEF Fits
  <2>5. update_collection(m.old, _compute_collection_diff(m.old, m.new), m.new) = m.new
    BY <2>2, <2>3 DEF update_collection, _compute_collection_diff, Defs
  <2>6. up(m, s) = [s EXCEPT ![m.coll] = m.new]
    BY <2>2, <2>5 DEF up
  <2> QED BY <2>4, <2>6 DEF Changed
<1>3. CASE m \in Deletions(s)
  <2>1. PICK c \in Colls : s[c] # Absent /\ m = generate_delete_migration(c, s)
    BY <1>3 DEF Deletions
  <2>2. m.kind = "delete" /\ m.coll = c /\ m.old = s[c] /\ m.new = Absent
    BY <2>1 DEF generate_delete_migration
  <2> QED BY <2>1, <2>2 DEF Fits, up, Changed, Schemas
<1> QED BY <1>1, <1>2, <1>3 DEF Mutations

\* Between two files nothing changes.
LEMMA Constant ==
    ASSUME NEW g, NEW C, NEW D, Chain(g, C, D), NEW i \in 0..MaxFiles, NEW j \in 0..MaxFiles,
           i <= j, \A f \in (i + 1)..j : f \notin C
    PROVE  g[j] = g[i]
<1>0. MaxFiles \in Nat
  BY MigrationsAssumption
<1> DEFINE T == {k \in i..j : g[k] # g[i]}
<1>1. SUFFICES ASSUME T # {} PROVE FALSE
  BY <1>0
<1>2. T \in SUBSET Nat
  BY <1>0
<1>3. PICK k \in T : \A l \in T : k <= l
  BY <1>1, <1>2, Least
<1>4. k \in i..j /\ k # i /\ k - 1 \in i..j /\ k \in Files /\ k \in (i + 1)..j
  BY <1>0, <1>3 DEF Files
<1>5. g[k - 1] = g[i]
  BY <1>2, <1>3, <1>4
<1>6. g[k] = g[k - 1]
  BY <1>4 DEF Chain
<1> QED BY <1>3, <1>5, <1>6

\* The whole chain is reached before the next file.
LEMMA AtEnd ==
    ASSUME NEW g, NEW C, NEW D, Chain(g, C, D), C \subseteq Files, NEW N \in Files,
           \A x \in C : x < N, NEW s, Reached(g, C, C, s)
    PROVE  s = g[N - 1]
<1>0. MaxFiles \in Nat /\ N \in 1..MaxFiles /\ N - 1 \in 0..MaxFiles
  BY MigrationsAssumption DEF Files
<1>1. PICK n \in 0..MaxFiles : C = C \cap (1..n) /\ s = g[n]
  BY DEF Reached
<1>2. CASE n <= N - 1
  <2>1. \A f \in (n + 1)..(N - 1) : f \notin C
    BY <1>0, <1>1
  <2> QED BY <1>0, <1>1, <1>2, <2>1, Constant
<1>3. CASE N - 1 <= n
  <2>1. \A f \in ((N - 1) + 1)..n : f \notin C
    BY <1>0, <1>1 DEF Files
  <2> QED BY <1>0, <1>1, <1>3, <2>1, Constant
<1> QED BY <1>0, <1>2, <1>3

\* A file with a higher number is added to the chain.
LEMMA Grown ==
    ASSUME NEW g, NEW C, NEW D, Chain(g, C, D), C \subseteq Files, NEW N \in Files,
           \A x \in C : x < N, NEW E, \A f \in C : E[f] = D[f], Fits(E[N], g[N - 1])
    PROVE  \E h : /\ Chain(h, C \cup {N}, E)
                  /\ \A A, s : Reached(g, C, A, s) => Reached(h, C \cup {N}, A, s)
                  /\ Reached(h, C \cup {N}, C \cup {N}, up(E[N], g[N - 1]))
<1>0. MaxFiles \in Nat /\ N \in 1..MaxFiles /\ N - 1 \in 0..MaxFiles
  BY MigrationsAssumption DEF Files
<1> DEFINE last == up(E[N], g[N - 1])
           h == [i \in 0..MaxFiles |-> IF i < N THEN g[i] ELSE last]
           K == C \cup {N}
<1>1. g \in [0..MaxFiles -> Schemas] /\ g[N - 1] \in Schemas
  BY <1>0 DEF Chain
<1>2. last \in Schemas
  BY <1>1, UpDown
<1> HIDE DEF last
<1>3. /\ h \in [0..MaxFiles -> Schemas] /\ h[0] = Empty /\ h[N] = last /\ h[N - 1] = g[N - 1]
      /\ \A i \in 0..MaxFiles : h[i] = IF i < N THEN g[i] ELSE last
  BY <1>0, <1>1, <1>2 DEF Chain
<1> HIDE DEF h
<1>4. ASSUME NEW f \in Files
      PROVE  IF f \in K THEN Fits(E[f], h[f - 1]) /\ h[f] = up(E[f], h[f - 1])
             ELSE h[f] = h[f - 1]
  <2>0. f \in 1..MaxFiles /\ f - 1 \in 0..MaxFiles /\ f \in 0..MaxFiles
    BY <1>0 DEF Files
  <2>1. CASE f = N
    BY <1>3, <2>1 DEF last
  <2>2. CASE f < N
    <3>1. h[f] = g[f] /\ h[f - 1] = g[f - 1] /\ (f \in K <=> f \in C)
      BY <1>0, <1>3, <2>0, <2>2
    <3> QED BY <3>1 DEF Chain
  <2>3. CASE f > N
    <3>1. h[f] = last /\ h[f - 1] = last /\ f \notin K
      BY <1>0, <1>3, <2>0, <2>3
    <3> QED BY <3>1
  <2> QED BY <1>0, <2>0, <2>1, <2>2, <2>3
<1>5. Chain(h, K, E)
  BY <1>3, <1>4 DEF Chain
<1>6. ASSUME NEW A, NEW s, Reached(g, C, A, s) PROVE Reached(h, K, A, s)
  <2>1. PICK n \in 0..MaxFiles : A = C \cap (1..n) /\ s = g[n]
    BY <1>6 DEF Reached
  <2>2. CASE n < N
    <3>1. A = K \cap (1..n) /\ s = h[n]
      BY <1>0, <1>3, <2>1, <2>2
    <3> QED BY <3>1 DEF Reached
  <2>3. CASE N <= n
    <3>1. A = K \cap (1..(N - 1))
      BY <1>0, <2>1, <2>3 DEF Files
    <3>2. A = C
      <4>1. \A x \in C : x \in 1..n
        BY <1>0, <2>3 DEF Files
      <4> QED BY <2>1, <4>1
    <3>3. s = h[N - 1]
      BY <1>3, <1>6, <3>2, AtEnd
    <3> QED BY <1>0, <3>1, <3>3 DEF Reached
  <2> QED BY <1>0, <2>2, <2>3
<1>7. Reached(h, K, K, last)
  <2>1. K = K \cap (1..N)
    <3>1. \A x \in K : x \in 1..N
      BY <1>0 DEF Files
    <3> QED BY <3>1
  <2> QED BY <1>0, <1>3, <2>1 DEF Reached
<1> QED BY <1>5, <1>6, <1>7 DEF last

\* The last files of a chain are taken away.
LEMMA Trimmed ==
    ASSUME NEW g, NEW C, NEW D, Chain(g, C, D), C \subseteq Files, NEW K \in SUBSET C,
           \A x \in C \ K : \A y \in K : y < x
    PROVE  \E h : /\ Chain(h, K, D)
                  /\ \A A, s : Reached(g, C, A, s) /\ A \subseteq K => Reached(h, K, A, s)
<1>0. MaxFiles \in Nat
  BY MigrationsAssumption
<1>1. CASE C = K
  BY <1>1
<1>2. CASE C # K
  <2>1. C \ K # {} /\ C \ K \in SUBSET Nat
    <3>1. \A x \in Files : x \in Nat
      BY <1>0 DEF Files
    <3> QED BY <1>2, <3>1
  <2>2. PICK r \in C \ K : \A y \in C \ K : r <= y
    <3>1. PICK T : T = C \ K
      OBVIOUS
    <3> QED BY <2>1, <3>1, Least
  <2>3. r \in 1..MaxFiles /\ r - 1 \in 0..MaxFiles
    BY <1>0, <2>2 DEF Files
  <2>4. PICK m \in 0..MaxFiles : m = r - 1
    BY <2>3
  <2>5. \A x \in C : x \in K <=> x <= m
    BY <1>0, <2>2, <2>3, <2>4 DEF Files
  <2> DEFINE h == [i \in 0..MaxFiles |-> IF i <= m THEN g[i] ELSE g[m]]
  <2>6. /\ h \in [0..MaxFiles -> Schemas] /\ h[0] = Empty
        /\ \A i \in 0..MaxFiles : h[i] = IF i <= m THEN g[i] ELSE g[m]
    BY <1>0, <2>4 DEF Chain
  <2> HIDE DEF h
  <2>7. ASSUME NEW f \in Files
        PROVE  IF f \in K THEN Fits(D[f], h[f - 1]) /\ h[f] = up(D[f], h[f - 1])
               ELSE h[f] = h[f - 1]
    <3>0. f \in 1..MaxFiles /\ f - 1 \in 0..MaxFiles /\ f \in 0..MaxFiles
      BY <1>0 DEF Files
    <3>1. CASE f <= m
      <4>1. h[f] = g[f] /\ h[f - 1] = g[f - 1] /\ (f \in K <=> f \in C)
        BY <1>0, <2>5, <2>6, <3>0, <3>1
      <4> QED BY <4>1 DEF Chain
    <3>2. CASE f > m
      <4>1. h[f] = g[m] /\ h[f - 1] = g[m] /\ f \notin K
        <5>1. f - 1 <= m => f - 1 = m
          BY <3>0, <3>2
        <5> QED BY <1>0, <2>5, <2>6, <3>0, <3>2, <5>1
      <4> QED BY <4>1
    <3> QED BY <2>4, <3>0, <3>1, <3>2
  <2>8. Chain(h, K, D)
    BY <2>6, <2>7 DEF Chain
  <2>9. ASSUME NEW A, NEW s, Reached(g, C, A, s), A \subseteq K PROVE Reached(h, K, A, s)
    <3>1. PICK n \in 0..MaxFiles : A = C \cap (1..n) /\ s = g[n]
      BY <2>9 DEF Reached
    <3>2. CASE n <= m
      <4>1. A = K \cap (1..n) /\ s = h[n]
        BY <1>0, <2>5, <2>6, <2>9, <3>1, <3>2
      <4> QED BY <4>1 DEF Reached
    <3>3. CASE n > m
      <4>1. \A f \in (m + 1)..n : f \notin C
        <5>1. SUFFICES ASSUME NEW f \in (m + 1)..n, f \in C PROVE FALSE
          OBVIOUS
        <5>2. f \in 1..n /\ f > m
          BY <1>0
        <5>3. f \in K
          BY <2>9, <3>1, <5>1, <5>2
        <5> QED BY <2>5, <5>1, <5>2, <5>3
      <4>2. g[n] = g[m]
        BY <3>3, <4>1, Constant
      <4>3. s = h[m]
        BY <2>6, <3>1, <4>2
      <4>4. A = K \cap (1..m)
        <5>1. \A x \in C : x \in 1..n <=> x \in 1..m
          BY <1>0, <2>5, <3>1, <3>3, <4>1 DEF Files
        <5>2. \A x \in C : x \in K <=> x \in 1..m
          BY <1>0, <2>5 DEF Files
        <5> QED BY <3>1, <5>1, <5>2
      <4> QED BY <4>3, <4>4 DEF Reached
    <3> QED BY <3>2, <3>3
  <2> QED BY <2>8, <2>9
<1> QED BY <1>1, <1>2

\* Everything a file was recorded, is being recorded or waits for.
Chained == Applied \cup Range(tx.hist) \cup disk

\* The files explain the database, and what it is about to become.
Explained ==
    \E g : /\ Chain(g, Chained, content) /\ Reached(g, Chained, Applied, schema)
           /\ tx.open => Reached(g, Chained, Range(tx.hist), tx.schema)

\* History is in the order of the names.
Sorted(h) == \A i, j \in DOMAIN h : i < j => h[i] < h[j]

\* A row the transaction takes away has its file; a row it adds whose file is
\* gone is the newest.
Backed ==
    /\ tx.open => Applied \ Range(tx.hist) \subseteq disk
    /\ \A f \in Range(tx.hist) \ (Applied \cup disk) : \A x \in Chained : x <= f

\* What an actor generated is there, is its own, and as long as it is not
\* applied nothing newer exists.
Newest(a) ==
    /\ mine[a] \subseteq disk
    /\ \A f \in mine[a] \ Applied : \A x \in Chained : x > f => x \in mine[a]
    /\ \A b \in Actors \ {a} : mine[a] \cap mine[b] = {}
    /\ op[a] = "snapshot" => \A f, x \in mine[a] : f = x

\* The list of a runner that applies: everything pending, oldest first.
Rising(a) ==
    /\ todo[a] \in Seq(Files) /\ Sorted(todo[a]) /\ disk \ Applied \subseteq Range(todo[a])
    /\ pc[a] # "batch" => todo[a] # <<>>
    /\ pc[a] \in {"commit", "await"} =>
          Applied \subseteq Range(tx.hist) /\ todo[a][1] \in Range(tx.hist)
    /\ pc[a] = "acked" => todo[a][1] \in Applied

\* The list of a runner that reverts: the newest rows, newest first.
Falling(a) ==
    /\ todo[a] \in Seq(Files)
    /\ \A i, j \in DOMAIN todo[a] : i < j => todo[a][j] < todo[a][i]
    /\ \A f \in Applied : \A x \in Range(todo[a]) : f > x => f \in Range(todo[a])
    /\ \A i \in DOMAIN todo[a] : i # 1 => todo[a][i] \in Applied
    /\ pc[a] # "batch" => todo[a] # <<>>
    /\ pc[a] = "batch" => Range(todo[a]) \subseteq Applied
    /\ pc[a] \in {"commit", "await"} => Range(tx.hist) = Applied \ {todo[a][1]}
    /\ pc[a] = "acked" => todo[a][1] \notin Applied

\* What the runner that holds the lock has left to do.
Plan(a) ==
    Holds(a) /\ pc[a] \in {"batch", "commit", "await", "acked", "unclear"} =>
        (op[a] = "up" => Rising(a)) /\ (op[a] = "down" => Falling(a))

\* Only the holder of the lock, between its statements and its COMMIT, has a
\* transaction.
Guarded ==
    /\ todo = [a \in Actors |-> todo[a]]
    /\ ~tx.open => tx.hist = <<>> /\ ~tx.committing
    /\ lock = NoOne => ~tx.open
    /\ attached /\ tx.open => pc[lock] \in {"commit", "await"}
    /\ \A a \in Actors : Holds(a) /\ pc[a] \in {"commit", "await"} => tx.open

\* What holds as long as the history is linear.
LInv ==
    /\ Explained /\ Backed /\ Sorted(hist) /\ Sorted(tx.hist)
    /\ \A a \in Actors : Newest(a) /\ Plan(a)

\* The inductive invariant of the replay, beside FInv.
RInv == Guarded /\ (linear => LInv)

\* The transaction is the same, but for its COMMIT.
SameTx == tx'.hist = tx.hist /\ tx'.schema = tx.schema /\ tx'.open = tx.open
\* It was rolled back, or it has landed.
TxGone == tx'.hist = <<>> /\ ~tx'.open

\* An empty history records nothing.
LEMMA RangeEmpty == Range(<<>>) = {}
BY DEF Range

\* The files that are chained are files.
LEMMA ChainedFiles ==
    ASSUME FInv PROVE Chained \subseteq Generated /\ Generated \subseteq Files
BY DEF FInv, Chained, Applied, Accounted, Numbered, Generated

\* What takes nothing but its newest pending files from the chain keeps it.
LEMMA Kept ==
    ASSUME FInv, LInv, UNCHANGED <<content, hist, schema>>, NEW m, disk' = disk \ m,
           m \cap Applied = {}, \A f \in m : \A x \in Chained : x > f => x \in m,
           m \cap Range(tx.hist) = {} \/ \A f, x \in m : f = x, SameTx \/ TxGone
    PROVE  Explained' /\ Backed' /\ Sorted(hist)' /\ Sorted(tx.hist)' /\ Chained' \subseteq Chained
<1>0. Chained \subseteq Files /\ Applied' = Applied /\ \A x \in Files : x \in Nat
  BY ChainedFiles, MigrationsAssumption DEF Applied, Files
<1>1. PICK g : /\ Chain(g, Chained, content) /\ Reached(g, Chained, Applied, schema)
               /\ tx.open => Reached(g, Chained, Range(tx.hist), tx.schema)
  BY DEF LInv, Explained
<1>2. PICK K : K = Chained'
  OBVIOUS
<1>3. Range(tx'.hist) = Range(tx.hist) \/ Range(tx'.hist) = {}
  BY RangeEmpty DEF SameTx, TxGone
<1>4. K = Applied \cup Range(tx'.hist) \cup (disk \ m)
  BY <1>0, <1>2 DEF Chained
<1>5. K \in SUBSET Chained
  BY <1>3, <1>4 DEF Chained
<1>6. ASSUME NEW x \in Chained \ K, NEW y \in K PROVE y < x
  <2>1. CASE x \in m
    <3>1. SUFFICES ASSUME ~(y < x) PROVE FALSE
      OBVIOUS
    <3>2. y > x
      BY <1>0, <1>5, <3>1
    <3>3. y \in m
      BY <1>5, <2>1, <3>2
    <3>4. y \in Range(tx.hist)
      BY <1>3, <1>4, <3>3
    <3> QED BY <1>0, <1>5, <2>1, <3>2, <3>3, <3>4
  <2>2. CASE x \notin m
    <3>1. x \in Range(tx.hist) \ (Applied \cup disk)
      BY <1>4, <2>2 DEF Chained
    <3>2. y <= x
      BY <1>5, <3>1 DEF LInv, Backed
    <3> QED BY <1>0, <1>5, <3>2
  <2> QED BY <2>1, <2>2
<1>7. PICK h : /\ Chain(h, K, content)
               /\ \A A, s : Reached(g, Chained, A, s) /\ A \subseteq K => Reached(h, K, A, s)
  BY <1>0, <1>1, <1>5, <1>6, Trimmed
<1>8. Reached(h, K, Applied, schema)
  BY <1>1, <1>4, <1>7
<1>9. tx'.open => Reached(h, K, Range(tx'.hist), tx'.schema)
  <2>1. SUFFICES ASSUME tx'.open PROVE Reached(h, K, Range(tx'.hist), tx'.schema)
    OBVIOUS
  <2>2. SameTx
    BY <2>1 DEF TxGone
  <2>3. Reached(g, Chained, Range(tx.hist), tx.schema) /\ Range(tx.hist) \subseteq K
    BY <1>1, <1>4, <2>1, <2>2 DEF SameTx
  <2> QED BY <1>7, <2>2, <2>3 DEF SameTx
<1>10. Explained'
  BY <1>0, <1>2, <1>7, <1>8, <1>9 DEF Explained
<1>11. Backed'
  <2>1. tx'.open => Applied \ Range(tx'.hist) \subseteq disk \ m
    <3>1. SUFFICES ASSUME tx'.open PROVE Applied \ Range(tx'.hist) \subseteq disk \ m
      OBVIOUS
    <3>2. SameTx
      BY <3>1 DEF TxGone
    <3> QED BY <3>1, <3>2 DEF SameTx, LInv, Backed
  <2>2. ASSUME NEW f \in Range(tx'.hist) \ (Applied \cup (disk \ m)), NEW x \in K PROVE x <= f
    <3>1. f \in Range(tx.hist) /\ f \in Chained /\ x \in Chained
      BY <1>3, <1>5 DEF Chained
    <3>2. CASE f \in m
      <4>1. x > f => x \in m
        BY <3>1, <3>2
      <4>2. x \in m => x = f
        BY <3>1, <3>2
      <4> QED BY <1>0, <3>1, <4>1, <4>2
    <3>3. CASE f \notin m
      BY <3>1, <3>3 DEF LInv, Backed
    <3> QED BY <3>2, <3>3
  <2> QED BY <1>0, <1>2, <2>1, <2>2 DEF Backed
<1>12. Sorted(hist)' /\ Sorted(tx.hist)'
  BY DEF LInv, Sorted, SameTx, TxGone
<1> QED BY <1>2, <1>5, <1>10, <1>11, <1>12

\* A list is kept by a step that leaves it and its transaction alone.
LEMMA PlanKept ==
    ASSUME NEW b \in Actors, Plan(b), pc'[b] = pc[b], op'[b] = op[b], todo'[b] = todo[b],
           hist' = hist, disk' \subseteq disk, Holds(b)' => Holds(b) /\ tx'.hist = tx.hist
    PROVE  Plan(b)'
<1>1. SUFFICES ASSUME Holds(b)', pc'[b] \in {"batch", "commit", "await", "acked", "unclear"}
      PROVE  (op[b] = "up" => Rising(b)') /\ (op[b] = "down" => Falling(b)')
  BY DEF Plan
<1>2. tx'.hist = tx.hist /\ Holds(b) /\ Applied' = Applied
  BY <1>1 DEF Applied
<1>3. (op[b] = "up" => Rising(b)) /\ (op[b] = "down" => Falling(b))
  BY <1>1, <1>2 DEF Plan
<1>4. ASSUME Rising(b) PROVE Rising(b)'
  BY <1>2, <1>4 DEF Rising, Sorted
<1>5. ASSUME Falling(b) PROVE Falling(b)'
  BY <1>2, <1>5 DEF Falling
<1> QED BY <1>3, <1>4, <1>5

\* A step of an actor that at most takes back everything it generated.
TakesBack(a, m) ==
    /\ disk' = disk \ m
    /\ \/ m = {} /\ (mine'[a] = mine[a] \/ mine'[a] = {})
       \/ /\ m = mine[a] /\ mine'[a] = {} /\ m \cap Applied = {}
          /\ m \cap Range(tx.hist) = {} \/ op[a] = "snapshot"

\* A step of a leaves the other actors alone.
OthersStay(a) ==
    \A b \in Actors \ {a} :
        /\ pc'[b] = pc[b] /\ op'[b] = op[b] /\ todo'[b] = todo[b] /\ mine'[b] = mine[b]
        /\ Holds(b)' => Holds(b) /\ SameTx

\* A step that commits nothing keeps the replay.
LEMMA StepKept ==
    ASSUME FInv, LInv, NEW a \in Actors, NEW m, UNCHANGED <<content, hist, schema>>,
           TakesBack(a, m), OthersStay(a), SameTx \/ TxGone, op'[a] = op[a] \/ mine'[a] = {},
           Plan(a)'
    PROVE  LInv'
<1>0. Applied' = Applied /\ \A b \in Actors : Newest(b) /\ Plan(b)
  BY DEF Applied, LInv
<1>1. /\ m \cap Applied = {} /\ \A f \in m : \A x \in Chained : x > f => x \in m
      /\ m \cap Range(tx.hist) = {} \/ \A f, x \in m : f = x
      /\ disk' = disk \ m
  BY <1>0 DEF TakesBack, Newest
<1>2. Explained' /\ Backed' /\ Sorted(hist)' /\ Sorted(tx.hist)' /\ Chained' \subseteq Chained
  BY <1>1, Kept
<1>3. \A b \in Actors : mine'[b] = mine[b] \/ mine'[b] = {}
  BY DEF TakesBack, OthersStay
<1>4. ASSUME NEW b \in Actors PROVE Newest(b)'
  <2>1. op'[b] = op[b] \/ mine'[b] = {}
    BY DEF OthersStay
  <2>2. m \cap mine'[b] = {}
    <3>1. CASE b = a
      BY <3>1 DEF TakesBack
    <3>2. CASE b # a
      BY <1>0, <3>2 DEF TakesBack, OthersStay, Newest
    <3> QED BY <3>1, <3>2
  <2>3. mine'[b] \subseteq disk'
    BY <1>0, <1>1, <1>3, <2>2 DEF Newest
  <2>4. \A f \in mine'[b] \ Applied : \A x \in Chained' : x > f => x \in mine'[b]
    BY <1>0, <1>2, <1>3 DEF Newest
  <2>5. \A c \in Actors \ {b} : mine'[b] \cap mine'[c] = {}
    BY <1>0, <1>3 DEF Newest
  <2>6. op'[b] = "snapshot" => \A f, x \in mine'[b] : f = x
    BY <1>0, <1>3, <2>1 DEF Newest
  <2> QED BY <1>0, <2>3, <2>4, <2>5, <2>6 DEF Newest
<1>5. ASSUME NEW b \in Actors PROVE Plan(b)'
  <2>1. CASE b # a
    <3>1. /\ pc'[b] = pc[b] /\ op'[b] = op[b] /\ todo'[b] = todo[b]
          /\ Holds(b)' => Holds(b) /\ SameTx
      BY <2>1 DEF OthersStay
    <3>2. Holds(b)' => Holds(b) /\ tx'.hist = tx.hist
      BY <3>1 DEF SameTx
    <3> QED BY <1>0, <1>1, <3>1, <3>2, PlanKept
  <2> QED BY <2>1
<1> QED BY <1>2, <1>4, <1>5 DEF LInv

\* An actor moves on; it has no transaction, or gives it up.
LEMMA GuardKept ==
    ASSUME FInv, Guarded, NEW a \in Actors, NEW p, NEW t, FreeLock(a) \/ UNCHANGED session,
           pc[a] # "await" \/ ~(lock = a /\ tx.committing),
           pc[a] \notin {"commit", "await"} \/ FreeLock(a),
           pc' = [pc EXCEPT ![a] = p], todo' = [todo EXCEPT ![a] = t],
           p \notin {"commit", "await"} \/ p = pc[a]
    PROVE  /\ Guarded' /\ (SameTx \/ TxGone)
           /\ todo'[a] = t
           /\ \A b \in Actors \ {a} : todo'[b] = todo[b] /\ (Holds(b)' => Holds(b) /\ SameTx)
<1>1. Session
  BY DEF FInv
<1>2. /\ pc'[a] = p /\ todo'[a] = t
      /\ \A b \in Actors \ {a} : pc'[b] = pc[b] /\ todo'[b] = todo[b]
      /\ todo' = [b \in Actors |-> todo'[b]]
  BY <1>1 DEF Session, Guarded
<1>3. CASE lock' = NoOne /\ attached' = FALSE /\ tx' = NoTx
  <2>1. tx'.hist = <<>> /\ ~tx'.committing /\ ~tx'.open
    BY <1>3 DEF NoTx
  <2>2. \A b \in Actors : ~Holds(b)'
    BY <1>3 DEF Holds
  <2> QED BY <1>2, <1>3, <2>1, <2>2 DEF Guarded, TxGone
<1>4. CASE UNCHANGED session /\ ~(FreeLock(a) /\ lock = a /\ ~tx.committing)
  <2>1. UNCHANGED <<lock, attached, tx>> /\ SameTx
    BY <1>4 DEF session, SameTx
  <2>2. \A b \in Actors : Holds(b)' <=> Holds(b)
    BY <2>1 DEF Holds
  <2>3. attached /\ tx.open => pc'[lock] \in {"commit", "await"}
    <3>1. SUFFICES ASSUME attached, tx.open, lock = a PROVE FALSE
      BY <1>1, <1>2 DEF Session, Guarded
    <3>2. pc[a] \in {"commit", "await"} /\ ~tx.committing
      BY <1>1, <3>1 DEF Session, Guarded
    <3> QED BY <1>4, <3>1, <3>2
  <2>4. \A b \in Actors : Holds(b) /\ pc'[b] \in {"commit", "await"} => tx.open
    BY <1>2 DEF Guarded
  <2> QED BY <1>2, <2>1, <2>2, <2>3, <2>4 DEF Guarded
<1> QED BY <1>3, <1>4 DEF FreeLock

\* A step of an actor that changes neither the files nor what is committed.
LEMMA MoveKept ==
    ASSUME FInv, RInv, NEW a \in Actors, NEW p, NEW o, NEW t, NEW m,
           FreeLock(a) \/ UNCHANGED session,
           pc[a] # "await" \/ ~(lock = a /\ tx.committing),
           pc[a] \notin {"commit", "await"} \/ FreeLock(a),
           pc' = [pc EXCEPT ![a] = p], todo' = [todo EXCEPT ![a] = t],
           op' = [op EXCEPT ![a] = o], mine' = [mine EXCEPT ![a] = m],
           p \notin {"commit", "await"} \/ p = pc[a],
           m = {} \/ (m = mine[a] /\ o = op[a]),
           UNCHANGED <<disk, content, hist, schema>>, linear' => linear,
           LInv => Plan(a)'
    PROVE  RInv'
<1>1. /\ Guarded' /\ (SameTx \/ TxGone)
      /\ \A b \in Actors \ {a} : todo'[b] = todo[b] /\ (Holds(b)' => Holds(b) /\ SameTx)
  BY GuardKept DEF RInv
<1>2. Session
  BY DEF FInv
<1>3. /\ op'[a] = o /\ mine'[a] = m
      /\ \A b \in Actors \ {a} : pc'[b] = pc[b] /\ op'[b] = op[b] /\ mine'[b] = mine[b]
  BY <1>2 DEF Session
<1>4. OthersStay(a)
  BY <1>1, <1>3 DEF OthersStay
<1>5. TakesBack(a, {})
  BY <1>3 DEF TakesBack
<1>6. PICK none : none = {}
  OBVIOUS
<1>7. ASSUME linear' PROVE LInv'
  <2>1. LInv /\ Plan(a)'
    BY <1>7 DEF RInv
  <2>2. op'[a] = op[a] \/ mine'[a] = {}
    BY <1>3
  <2>3. TakesBack(a, none)
    BY <1>5, <1>6
  <2> QED BY <1>1, <1>4, <2>1, <2>2, <2>3, StepKept
<1> QED BY <1>1, <1>7 DEF RInv

\* An operation that ends without taking anything back.
LEMMA EndKept ==
    ASSUME FInv, RInv, NEW a \in Actors, NEW what, Leave(a, what),
           FreeLock(a) \/ UNCHANGED session,
           pc[a] # "await" \/ ~(lock = a /\ tx.committing),
           pc[a] \notin {"commit", "await"} \/ FreeLock(a),
           UNCHANGED <<disk, content, hist, schema>>, linear' => linear
    PROVE  RInv'
<1>1. /\ pc' = [pc EXCEPT ![a] = "idle"] /\ op' = [op EXCEPT ![a] = "none"]
      /\ mine' = [mine EXCEPT ![a] = {}] /\ todo' = [todo EXCEPT ![a] = <<>>]
  BY DEF Leave
<1>2. Plan(a)'
  <2>1. pc'[a] = "idle"
    BY <1>1 DEF FInv, Session
  <2> QED BY <2>1 DEF Plan
<1>3. PICK p, o, t, m : p = "idle" /\ o = "none" /\ t = <<>> /\ m = {}
  OBVIOUS
<1> QED BY <1>1, <1>2, <1>3, MoveKept

\* A list that is not touched is the same.
LEMMA SameTodo ==
    ASSUME RInv, NEW a \in Actors
    PROVE  todo = [todo EXCEPT ![a] = todo[a]]
BY DEF RInv, Guarded

\* The list without its first entry.
LEMMA Shorter ==
    ASSUME NEW t \in Seq(Files), t # <<>>
    PROVE  /\ Tail(t) \in Seq(Files) /\ t[1] = Head(t) /\ t[1] \in Files
           /\ \A i \in DOMAIN Tail(t) : i + 1 \in DOMAIN t /\ Tail(t)[i] = t[i + 1] /\ i + 1 # 1
           /\ \A i \in DOMAIN Tail(t) : i \in Nat
           /\ Range(t) = Range(Tail(t)) \cup {t[1]}
<1>1. /\ Tail(t) \in Seq(Files) /\ t[1] = Head(t) /\ Len(t) \in Nat /\ Len(t) # 0
      /\ Len(Tail(t)) = Len(t) - 1 /\ DOMAIN t = 1..Len(t) /\ DOMAIN Tail(t) = 1..(Len(t) - 1)
      /\ \A i \in 1..(Len(t) - 1) : Tail(t)[i] = t[i + 1]
  OBVIOUS
<1>2. \A i \in DOMAIN Tail(t) : i + 1 \in DOMAIN t /\ Tail(t)[i] = t[i + 1] /\ i + 1 # 1 /\ i \in Nat
  BY <1>1
<1>3. 1 \in DOMAIN t
  BY <1>1
<1>4. \A i \in DOMAIN t : i = 1 \/ (i - 1 \in DOMAIN Tail(t) /\ Tail(t)[i - 1] = t[i])
  BY <1>1
<1>5. Range(t) \subseteq Range(Tail(t)) \cup {t[1]}
  BY <1>4 DEF Range
<1>6. Range(Tail(t)) \cup {t[1]} \subseteq Range(t)
  BY <1>2, <1>3 DEF Range
<1>7. t[1] \in Files
  BY <1>3
<1> QED BY <1>1, <1>2, <1>5, <1>6, <1>7

\* The runner goes on with the next entry of its list.
LEMMA NextEntry ==
    ASSUME FInv, RInv, LInv, NEW a \in Actors, pc[a] = "acked", op[a] \in {"up", "down"},
           todo' = [todo EXCEPT ![a] = Tail(todo[a])], pc' = [pc EXCEPT ![a] = "batch"],
           UNCHANGED <<lock, attached, tx, op, hist, disk>>
    PROVE  Plan(a)'
<1>1. SUFFICES ASSUME Holds(a)'
      PROVE  (op[a] = "up" => Rising(a)') /\ (op[a] = "down" => Falling(a)')
  BY DEF Plan
<1>2. Holds(a) /\ Applied' = Applied
  BY <1>1 DEF Holds, Applied
<1>3. pc'[a] = "batch" /\ todo'[a] = Tail(todo[a])
  BY DEF FInv, Session, RInv, Guarded
<1>4. PICK t, u : t = todo[a] /\ u = Tail(t)
  OBVIOUS
<1>5. CASE op[a] = "up"
  <2>1. Rising(a)
    BY <1>2, <1>5 DEF LInv, Plan
  <2>2. t \in Seq(Files) /\ t # <<>> /\ t[1] \in Applied /\ Sorted(t) /\ disk \ Applied \subseteq Range(t)
    BY <1>4, <2>1 DEF Rising
  <2>3. /\ u \in Seq(Files) /\ Range(t) = Range(u) \cup {t[1]}
        /\ \A i \in DOMAIN u : i + 1 \in DOMAIN t /\ u[i] = t[i + 1]
        /\ \A i \in DOMAIN u : i \in Nat
    BY <1>4, <2>2, Shorter
  <2>4. Sorted(u)
    <3>1. ASSUME NEW i \in DOMAIN u, NEW j \in DOMAIN u, i < j PROVE u[i] < u[j]
      <4>1. i + 1 < j + 1
        BY <2>3, <3>1
      <4> QED BY <2>2, <2>3, <4>1 DEF Sorted
    <3> QED BY <3>1 DEF Sorted
  <2>5. disk \ Applied \subseteq Range(u)
    BY <2>2, <2>3
  <2> QED BY <1>2, <1>3, <1>4, <1>5, <2>3, <2>4, <2>5 DEF Rising
<1>6. CASE op[a] = "down"
  <2>1. Falling(a)
    BY <1>2, <1>6 DEF LInv, Plan
  <2>2. /\ t \in Seq(Files) /\ t # <<>> /\ t[1] \notin Applied
        /\ \A i, j \in DOMAIN t : i < j => t[j] < t[i]
        /\ \A f \in Applied : \A x \in Range(t) : f > x => f \in Range(t)
        /\ \A i \in DOMAIN t : i # 1 => t[i] \in Applied
    BY <1>4, <2>1 DEF Falling
  <2>3. /\ u \in Seq(Files) /\ Range(t) = Range(u) \cup {t[1]}
        /\ \A i \in DOMAIN u : i + 1 \in DOMAIN t /\ u[i] = t[i + 1] /\ i + 1 # 1
        /\ \A i \in DOMAIN u : i \in Nat
    BY <1>4, <2>2, Shorter
  <2>4. ASSUME NEW i \in DOMAIN u, NEW j \in DOMAIN u, i < j PROVE u[j] < u[i]
    <3>1. i + 1 < j + 1
      BY <2>3, <2>4
    <3> QED BY <2>2, <2>3, <3>1
  <2>5. \A f \in Applied : \A x \in Range(u) : f > x => f \in Range(u)
    BY <2>2, <2>3
  <2>6. \A i \in DOMAIN u : u[i] \in Applied
    BY <2>2, <2>3
  <2>7. Range(u) \subseteq Applied
    BY <2>6 DEF Range
  <2>8. todo'[a] = u
    BY <1>3, <1>4
  <2>9. /\ todo'[a] \in Seq(Files)
        /\ \A i, j \in DOMAIN todo'[a] : i < j => todo'[a][j] < todo'[a][i]
        /\ \A f \in Applied' : \A x \in Range(todo'[a]) : f > x => f \in Range(todo'[a])
        /\ \A i \in DOMAIN todo'[a] : i # 1 => todo'[a][i] \in Applied'
        /\ Range(todo'[a]) \subseteq Applied'
    BY <1>2, <2>3, <2>4, <2>5, <2>6, <2>7, <2>8
  <2> QED BY <1>3, <1>6, <2>9 DEF Falling
<1> QED BY <1>5, <1>6

\* An actor asks for the lock, gives up, is refused, fails, loses its session,
\* or goes on.
LEMMA RequestsReplay ==
    ASSUME FInv, RInv, NEW a \in Actors,
           \/ apply_migrations(a) \/ revert_migrations(a) \/ generate_snapshot(a)
           \/ _lock_migration_producer(a) \/ import_collections(a) \/ LockTimeout(a)
           \/ Refuse(a) \/ MigrationFails(a) \/ BatchDone(a) \/ Acked(a)
           \/ ReconcileFails(a) \/ SessionLost(a)
    PROVE  RInv'
<1>1. /\ pc = [pc EXCEPT ![a] = pc[a]] /\ op = [op EXCEPT ![a] = op[a]]
      /\ mine = [mine EXCEPT ![a] = mine[a]] /\ todo = [todo EXCEPT ![a] = todo[a]]
      /\ Owns(a) /\ Session
  BY SameMap, SameTodo DEF FInv
<1>2. ASSUME NEW o, Start(a, o) PROVE RInv'
  <2>1. /\ mine[a] = {} /\ pc[a] = "idle" /\ pc' = [pc EXCEPT ![a] = "locking"]
        /\ op' = [op EXCEPT ![a] = o]
        /\ UNCHANGED <<disk, content, hist, schema, linear, session, todo, mine>>
    BY <1>1, <1>2 DEF Start, Owns, durable
  <2>2. pc'[a] = "locking"
    BY <1>1, <2>1 DEF Session
  <2>3. Plan(a)'
    BY <2>2 DEF Plan
  <2>4. PICK p, t, m : p = "locking" /\ t = todo[a] /\ m = mine[a]
    OBVIOUS
  <2>5. mine' = [mine EXCEPT ![a] = m] /\ todo' = [todo EXCEPT ![a] = t] /\ m = {}
    BY <1>1, <2>1, <2>4
  <2> QED BY <2>1, <2>3, <2>4, <2>5, MoveKept
<1>3. CASE \/ LockTimeout(a) \/ Refuse(a) \/ BatchDone(a) \/ ReconcileFails(a) \/ MigrationFails(a)
  <2>1. /\ pc[a] \notin {"commit", "await"} /\ (FreeLock(a) \/ UNCHANGED session)
        /\ UNCHANGED <<disk, content, hist, schema, linear>>
    BY <1>3 DEF LockTimeout, Refuse, BatchDone, ReconcileFails, MigrationFails, durable
  <2>2. Leave(a, "refused") \/ Leave(a, "ok") \/ Leave(a, "unknown") \/ Leave(a, "failed")
    BY <1>3 DEF LockTimeout, Refuse, BatchDone, ReconcileFails, MigrationFails
  <2> QED BY <2>1, <2>2, EndKept
<1>4. CASE Acked(a)
  <2>1. pc[a] = "acked" /\ UNCHANGED <<disk, content, hist, schema, linear>>
    BY <1>4 DEF Acked, durable
  <2>2. CASE op[a] \in {"up", "down"}
    <3>1. /\ pc' = [pc EXCEPT ![a] = "batch"] /\ op' = op /\ mine' = mine
          /\ todo' = [todo EXCEPT ![a] = Tail(todo[a])] /\ UNCHANGED session
          /\ UNCHANGED <<lock, attached, tx>>
      BY <1>4, <2>2 DEF Acked, session
    <3>2. LInv => Plan(a)'
      BY <2>1, <2>2, <3>1, NextEntry
    <3>3. PICK p, o, t, m : p = "batch" /\ o = op[a] /\ t = Tail(todo[a]) /\ m = mine[a]
      OBVIOUS
    <3>4. op' = [op EXCEPT ![a] = o] /\ mine' = [mine EXCEPT ![a] = m]
      BY <1>1, <3>1, <3>3
    <3> QED BY <2>1, <3>1, <3>2, <3>3, <3>4, MoveKept
  <2>3. CASE op[a] \notin {"up", "down"}
    <3>1. FreeLock(a) /\ Leave(a, "ok")
      BY <1>4, <2>3 DEF Acked
    <3> QED BY <2>1, <3>1, EndKept
  <2> QED BY <2>2, <2>3
<1>5. CASE SessionLost(a)
  <2>1. /\ pc[a] # "await" /\ FreeLock(a) /\ Holds(a)
        /\ UNCHANGED <<disk, content, hist, schema, linear, pc, op, todo, mine>>
    BY <1>5 DEF SessionLost, durable
  <2>2. ~Holds(a)'
    <3>1. ~tx.committing
      BY <1>1, <2>1 DEF Session, Holds
    <3> QED BY <2>1, <3>1 DEF FreeLock, Holds
  <2>3. Plan(a)'
    BY <2>2 DEF Plan
  <2>4. PICK p, o, t, m : p = pc[a] /\ o = op[a] /\ t = todo[a] /\ m = mine[a]
    OBVIOUS
  <2>5. /\ pc' = [pc EXCEPT ![a] = p] /\ op' = [op EXCEPT ![a] = o]
        /\ mine' = [mine EXCEPT ![a] = m] /\ todo' = [todo EXCEPT ![a] = t]
    BY <1>1, <2>1, <2>4
  <2>6. /\ pc[a] # "await" /\ FreeLock(a) /\ (m = mine[a] /\ o = op[a]) /\ p = pc[a]
        /\ UNCHANGED <<disk, content, hist, schema>> /\ (linear' => linear)
    BY <2>1, <2>4
  <2> QED BY <2>3, <2>5, <2>6, MoveKept
<1> QED BY <1>2, <1>3, <1>4, <1>5
        DEF apply_migrations, revert_migrations, generate_snapshot, _lock_migration_producer,
        import_collections

\* The pending files are listed in the order of their names.
LEMMA PendingList ==
    ASSUME NEW D \in SUBSET Files, NEW t \in _list_migration_files(D)
    PROVE  t \in Seq(Files) /\ Range(t) = D /\ Sorted(t)
<1>1. /\ t \in [1..Cardinality(D) -> D] /\ \A d \in D : \E i \in 1..Cardinality(D) : t[i] = d
      /\ \A i, j \in DOMAIN t : i < j => t[i] < t[j]
  BY DEF _list_migration_files, Bijection, Injection, Surjection
<1>2. Cardinality(D) \in Nat
  <2>1. IsFiniteSet(Files)
    BY FS_Interval, MigrationsAssumption DEF Files
  <2> QED BY <2>1, FS_Subset, FS_CardinalityType
<1>3. t \in Seq(Files)
  BY <1>1, <1>2
<1>4. Range(t) = D
  BY <1>1 DEF Range
<1> QED BY <1>1, <1>3, <1>4 DEF Sorted

\* The newest rows, newest first.
LatestRows(h, k) == SubSeq(Reverse(h), 1, k)

\* They are rows of the history, and no newer row is left out.
LEMMA LatestList ==
    ASSUME NEW h \in Seq(Files), Sorted(h), NEW k \in Nat, k <= Len(h),
           NEW t, t = LatestRows(h, k)
    PROVE  /\ t \in Seq(Files) /\ Range(t) \subseteq Range(h)
           /\ \A i, j \in DOMAIN t : i < j => t[j] < t[i]
           /\ \A f \in Range(h) : \A x \in Range(t) : f > x => f \in Range(t)
           /\ \A i \in DOMAIN t : t[i] \in Range(h)
<1>0. Len(h) \in Nat /\ DOMAIN h = 1..Len(h) /\ \A i \in 1..Len(h) : h[i] \in Files
  OBVIOUS
<1>1. PICK r : r = Reverse(h)
  OBVIOUS
<1>2. /\ DOMAIN r = 1..Len(h) /\ \A i \in 1..Len(h) : r[i] = h[(Len(h) - i) + 1]
  BY <1>1 DEF Reverse
<1>3. \A i \in 1..Len(h) : (Len(h) - i) + 1 \in 1..Len(h)
  BY <1>0
<1>4. r \in Seq(Files) /\ Len(r) = Len(h)
  <2>1. \A i \in 1..Len(h) : r[i] \in Files
    BY <1>0, <1>2, <1>3
  <2>2. r = [i \in 1..Len(h) |-> r[i]]
    BY <1>0, <1>1 DEF Reverse
  <2> QED BY <1>0, <1>2, <2>1, <2>2
<1>5. t = SubSeq(r, 1, k) /\ t \in Seq(Files) /\ Len(t) = k /\ DOMAIN t = 1..k
      /\ \A i \in 1..k : t[i] = r[i]
  BY <1>0, <1>1, <1>4 DEF LatestRows
<1>6. \A i \in 1..k : i \in 1..Len(h) /\ (Len(h) - i) + 1 \in DOMAIN h /\ t[i] = h[(Len(h) - i) + 1]
  BY <1>0, <1>2, <1>3, <1>5
<1>7. \A i \in DOMAIN t : t[i] \in Range(h)
  BY <1>5, <1>6 DEF Range
<1>8. ASSUME NEW i \in DOMAIN t, NEW j \in DOMAIN t, i < j PROVE t[j] < t[i]
  <2>1. (Len(h) - j) + 1 < (Len(h) - i) + 1
    BY <1>0, <1>5, <1>8
  <2> QED BY <1>5, <1>6, <2>1 DEF Sorted
<1>9. ASSUME NEW f \in Range(h), NEW x \in Range(t), f > x PROVE f \in Range(t)
  <2>1. PICK l \in 1..Len(h), i \in 1..k : f = h[l] /\ x = t[i]
    BY <1>0, <1>5 DEF Range
  <2>2. x = h[(Len(h) - i) + 1] /\ (Len(h) - i) + 1 \in DOMAIN h
    BY <1>6, <2>1
  <2>3. ~(l < (Len(h) - i) + 1)
    <3>1. SUFFICES ASSUME l < (Len(h) - i) + 1 PROVE FALSE
      OBVIOUS
    <3>2. f < x
      BY <1>0, <2>1, <2>2, <3>1 DEF Sorted
    <3>3. f \in Nat /\ x \in Nat
      BY <1>0, <2>1, <2>2, MigrationsAssumption DEF Files
    <3> QED BY <1>9, <3>2, <3>3
  <2>4. PICK n : n = (Len(h) - l) + 1
    OBVIOUS
  <2>5. n \in 1..k /\ (Len(h) - n) + 1 = l
    BY <1>0, <2>1, <2>3, <2>4
  <2>6. t[n] = f
    BY <1>6, <2>1, <2>5
  <2> QED BY <1>5, <2>5, <2>6 DEF Range
<1> QED BY <1>5, <1>7, <1>8, <1>9 DEF Range

\* A runner lists what it has to do.
LEMMA ListReplay ==
    ASSUME FInv, RInv, NEW a \in Actors, ListPending(a) \/ ListLatest(a)
    PROVE  RInv'
<1>1. /\ op = [op EXCEPT ![a] = op[a]] /\ mine = [mine EXCEPT ![a] = mine[a]]
      /\ Session /\ hist \in Seq(Files) /\ disk \subseteq Files
  BY SameMap DEF FInv, Accounted, Numbered, Generated
<1>2. /\ pc[a] = "locked" /\ pc' = [pc EXCEPT ![a] = "batch"]
      /\ UNCHANGED <<disk, content, hist, schema, linear, session, op, mine>>
  BY DEF ListPending, ListLatest, durable
<1>3. PICK t : todo' = [todo EXCEPT ![a] = t]
  BY DEF ListPending, ListLatest
<1>4. todo'[a] = t /\ pc'[a] = "batch" /\ Applied' = Applied
  BY <1>1, <1>2, <1>3 DEF Session, RInv, Guarded, Applied
<1>5. LInv => Plan(a)'
  <2>1. CASE ListPending(a)
    <3>1. PICK u \in _list_migration_files(get_pending_migrations) :
            todo' = [todo EXCEPT ![a] = u] /\ op[a] = "up"
      BY <2>1 DEF ListPending
    <3>2. u = t
      BY <1>4, <3>1 DEF RInv, Guarded
    <3>3. t \in Seq(Files) /\ Range(t) = disk \ Applied /\ Sorted(t)
      BY <1>1, <3>1, <3>2, PendingList DEF get_pending_migrations
    <3>4. Rising(a)'
      BY <1>2, <1>4, <3>3 DEF Rising
    <3> QED BY <1>2, <3>1, <3>4 DEF Plan
  <2>2. CASE ListLatest(a)
    <3>1. PICK count \in 1..2 :
            /\ op[a] = "down"
            /\ todo' = [todo EXCEPT ![a] = SubSeq(Reverse(hist), 1,
                            IF count < Len(hist) THEN count ELSE Len(hist))]
      BY <2>2 DEF ListLatest
    <3>2. PICK k : k = IF count < Len(hist) THEN count ELSE Len(hist)
      OBVIOUS
    <3>3. k \in Nat /\ k <= Len(hist)
      <4>1. Len(hist) \in Nat
        BY <1>1
      <4> QED BY <3>2, <4>1
    <3>4. t = SubSeq(Reverse(hist), 1, k)
      BY <1>4, <3>1, <3>2 DEF RInv, Guarded
    <3>5. SUFFICES ASSUME LInv PROVE Falling(a)'
      BY <1>2, <3>1 DEF Plan
    <3>6. Sorted(hist)
      BY <3>5 DEF LInv
    <3>7. /\ t \in Seq(Files) /\ Range(t) \subseteq Range(hist)
          /\ \A i, j \in DOMAIN t : i < j => t[j] < t[i]
          /\ \A f \in Range(hist) : \A x \in Range(t) : f > x => f \in Range(t)
          /\ \A i \in DOMAIN t : t[i] \in Range(hist)
      <4>1. PICK h : h = hist
        OBVIOUS
      <4> HIDE DEF Sorted
      <4>2. h \in Seq(Files) /\ Sorted(h) /\ k <= Len(h) /\ t = LatestRows(h, k)
        BY <1>1, <3>3, <3>4, <3>6, <4>1 DEF LatestRows
      <4>3. /\ t \in Seq(Files) /\ Range(t) \subseteq Range(h)
            /\ \A i, j \in DOMAIN t : i < j => t[j] < t[i]
            /\ \A f \in Range(h) : \A x \in Range(t) : f > x => f \in Range(t)
            /\ \A i \in DOMAIN t : t[i] \in Range(h)
        BY <3>3, <4>2, LatestList
      <4> QED BY <4>1, <4>3
    <3> QED BY <1>2, <1>4, <3>7 DEF Falling, Applied
  <2> QED BY <2>1, <2>2
<1>6. PICK p, o, m : p = "batch" /\ o = op[a] /\ m = mine[a]
  OBVIOUS
<1>7. op' = [op EXCEPT ![a] = o] /\ mine' = [mine EXCEPT ![a] = m]
  BY <1>1, <1>2, <1>6
<1> QED BY <1>2, <1>3, <1>5, <1>6, <1>7, MoveKept

\* The lock is taken, or a transaction is left to PostgreSQL.
LEMMA SessionReplay ==
    ASSUME FInv, RInv, NEW a \in Actors,
           \/ AcquireLock(a) \/ _commit_with_generated_migrations(a)
           \/ ConnectionLost(a) \/ Crash(a)
    PROVE  RInv'
<1>0. Session /\ Guarded
  BY DEF FInv, RInv
<1>1. ASSUME NEW p, pc' = [pc EXCEPT ![a] = p], UNCHANGED <<disk, content, hist, schema, linear, op, todo, mine>>,
             SameTx, \A b \in Actors \ {a} : Holds(b)' => Holds(b), LInv => Plan(a)'
      PROVE  linear' => LInv'
  <2>1. \A b \in Actors \ {a} : pc'[b] = pc[b]
    BY <1>0, <1>1 DEF Session
  <2>2. OthersStay(a)
    BY <1>1, <2>1 DEF OthersStay
  <2>3. PICK none : none = {}
    OBVIOUS
  <2>4. TakesBack(a, none)
    BY <1>1, <2>3 DEF TakesBack
  <2>5. op'[a] = op[a] \/ mine'[a] = {}
    BY <1>1
  <2>6. ASSUME LInv PROVE LInv'
    <3>1. Plan(a)' /\ UNCHANGED <<content, hist, schema>>
      BY <1>1, <2>6
    <3>2. SameTx \/ TxGone
      BY <1>1
    <3> QED BY <2>2, <2>4, <2>5, <2>6, <3>1, <3>2, StepKept
  <2> QED BY <1>1, <2>6 DEF RInv
<1>2. CASE AcquireLock(a)
  <2>1. /\ lock' = a /\ attached' = TRUE /\ lock = NoOne /\ pc[a] = "locking"
        /\ pc' = [pc EXCEPT ![a] = "locked"]
        /\ UNCHANGED <<disk, content, hist, schema, linear, tx, op, todo, mine>>
    BY <1>2 DEF AcquireLock, durable
  <2>2. pc'[a] = "locked" /\ ~tx.open /\ SameTx
    BY <1>0, <2>1 DEF Session, Guarded, SameTx
  <2>3. \A b \in Actors \ {a} : ~Holds(b)'
    BY <2>1 DEF Holds
  <2>4. Guarded'
    BY <1>0, <2>1, <2>2, <2>3, MigrationsAssumption DEF Guarded
  <2>5. Plan(a)'
    BY <2>2 DEF Plan
  <2>6. linear' => LInv'
    BY <1>1, <2>1, <2>2, <2>3, <2>5
  <2> QED BY <2>4, <2>6 DEF RInv
<1>3. CASE _commit_with_generated_migrations(a)
  <2>1. /\ pc[a] = "commit"
        /\ UNCHANGED <<disk, content, hist, schema, linear, lock, attached, op, todo, mine>>
    BY <1>3 DEF _commit_with_generated_migrations, durable
  <2>2. \A b \in Actors : Holds(b)' <=> Holds(b)
    BY <2>1 DEF Holds
  <2>3. CASE Holds(a)
    <3>1. /\ tx' = [tx EXCEPT !.committing = TRUE] /\ pc' = [pc EXCEPT ![a] = "await"]
          /\ lock = a /\ attached
      BY <1>3, <2>3 DEF _commit_with_generated_migrations, Holds
    <3>2. SameTx
      BY <1>0, <3>1 DEF Session, IsTx, SameTx
    <3>3. pc'[a] = "await" /\ \A b \in Actors \ {a} : pc'[b] = pc[b]
      BY <1>0, <3>1 DEF Session
    <3>4. tx.open /\ tx'.open
      BY <1>0, <2>1, <2>3, <3>2 DEF Guarded, SameTx
    <3>5. Guarded'
      BY <1>0, <2>1, <2>2, <3>1, <3>3, <3>4, MigrationsAssumption DEF Guarded
    <3>6. LInv => Plan(a)'
      <4>1. SUFFICES ASSUME LInv
            PROVE  (op[a] = "up" => Rising(a)') /\ (op[a] = "down" => Falling(a)')
        BY <2>1 DEF Plan
      <4>2. (op[a] = "up" => Rising(a)) /\ (op[a] = "down" => Falling(a))
        BY <2>1, <2>3, <4>1 DEF LInv, Plan
      <4>3. tx'.hist = tx.hist /\ Applied' = Applied /\ todo'[a] = todo[a] /\ disk' = disk
        BY <2>1, <3>2 DEF SameTx, Applied
      <4>4. ASSUME Rising(a) PROVE Rising(a)'
        BY <2>1, <3>3, <4>3, <4>4 DEF Rising, Sorted
      <4>5. ASSUME Falling(a) PROVE Falling(a)'
        BY <2>1, <3>3, <4>3, <4>5 DEF Falling
      <4> QED BY <4>2, <4>4, <4>5
    <3>7. linear' => LInv'
      BY <1>1, <2>1, <2>2, <3>1, <3>2, <3>6
    <3> QED BY <3>5, <3>7 DEF RInv
  <2>4. CASE ~Holds(a)
    <3>1. tx' = tx /\ pc' = [pc EXCEPT ![a] = "unclear"]
      BY <1>3, <2>4 DEF _commit_with_generated_migrations
    <3>2. SameTx /\ pc'[a] = "unclear" /\ \A b \in Actors \ {a} : pc'[b] = pc[b]
      BY <1>0, <3>1 DEF Session, SameTx
    <3>3. attached /\ tx.open => lock \in Actors \ {a}
      BY <1>0, <2>4 DEF Session, Guarded, Holds
    <3>4. Guarded'
      BY <1>0, <2>1, <2>2, <3>1, <3>2, <3>3 DEF Guarded
    <3>5. Plan(a)'
      BY <2>2, <2>4 DEF Plan
    <3>6. linear' => LInv'
      BY <1>1, <2>1, <2>2, <3>1, <3>2, <3>5
    <3> QED BY <3>4, <3>6 DEF RInv
  <2> QED BY <2>3, <2>4
<1>4. CASE ConnectionLost(a)
  <2>1. /\ attached' = FALSE /\ pc' = [pc EXCEPT ![a] = "unclear"]
        /\ UNCHANGED <<disk, content, hist, schema, linear, lock, tx, op, todo, mine>>
    BY <1>4 DEF ConnectionLost, durable
  <2>2. \A b \in Actors : ~Holds(b)'
    BY <2>1 DEF Holds
  <2>3. Guarded' /\ SameTx
    BY <1>0, <2>1, <2>2 DEF Guarded, SameTx
  <2>4. Plan(a)'
    BY <2>2 DEF Plan
  <2>5. linear' => LInv'
    BY <1>1, <2>1, <2>2, <2>3, <2>4
  <2> QED BY <2>3, <2>5 DEF RInv
<1>5. CASE Crash(a)
  <2>1. UNCHANGED <<disk, content, hist, schema, linear>> /\ Leave(a, "unknown")
    BY <1>5 DEF Crash, durable
  <2>2. CASE lock = a /\ tx.committing
    <3>1. attached' = FALSE /\ UNCHANGED <<lock, tx>>
      BY <1>5, <2>2 DEF Crash
    <3>2. /\ pc' = [pc EXCEPT ![a] = "idle"] /\ op' = [op EXCEPT ![a] = "none"]
          /\ mine' = [mine EXCEPT ![a] = {}] /\ todo' = [todo EXCEPT ![a] = <<>>]
      BY <2>1 DEF Leave
    <3>3. /\ mine'[a] = {} /\ todo' = [b \in Actors |-> todo'[b]]
          /\ \A b \in Actors \ {a} : /\ pc'[b] = pc[b] /\ op'[b] = op[b]
                                     /\ mine'[b] = mine[b] /\ todo'[b] = todo[b]
      BY <1>0, <3>2 DEF Session, Guarded
    <3>4. \A b \in Actors : ~Holds(b)'
      BY <3>1 DEF Holds
    <3>5. Guarded' /\ SameTx
      BY <1>0, <3>1, <3>3, <3>4 DEF Guarded, SameTx
    <3>6. OthersStay(a) /\ Plan(a)'
      BY <3>3, <3>4 DEF OthersStay, Plan
    <3>7. PICK none : none = {}
      OBVIOUS
    <3>8. TakesBack(a, none)
      BY <2>1, <3>3, <3>7 DEF TakesBack
    <3>9. ASSUME LInv PROVE LInv'
      BY <2>1, <3>3, <3>5, <3>6, <3>8, <3>9, StepKept
    <3> QED BY <2>1, <3>5, <3>9 DEF RInv
  <2>3. CASE ~(lock = a /\ tx.committing)
    <3>1. FreeLock(a)
      BY <1>5, <2>3 DEF Crash
    <3> QED BY <2>1, <2>3, <3>1, EndKept
  <2> QED BY <2>2, <2>3
<1> QED BY <1>2, <1>3, <1>4, <1>5

\* An operation that ends and takes back what it generated, or nothing.
LEMMA WithdrawKept ==
    ASSUME FInv, RInv, NEW a \in Actors, NEW what, Leave(a, what),
           FreeLock(a) \/ UNCHANGED session, pc[a] \notin {"commit", "await"},
           UNCHANGED <<content, hist, schema>>, linear' => linear,
           LInv /\ linear' =>
               \/ disk' = disk
               \/ /\ disk' = disk \ mine[a] /\ mine[a] \cap Applied = {}
                  /\ mine[a] \cap Range(tx.hist) = {} \/ op[a] = "snapshot"
    PROVE  RInv'
<1>0. Session /\ Guarded
  BY DEF FInv, RInv
<1>1. /\ pc' = [pc EXCEPT ![a] = "idle"] /\ op' = [op EXCEPT ![a] = "none"]
      /\ mine' = [mine EXCEPT ![a] = {}] /\ todo' = [todo EXCEPT ![a] = <<>>]
  BY DEF Leave
<1>2. /\ pc'[a] = "idle" /\ mine'[a] = {}
      /\ \A b \in Actors \ {a} : pc'[b] = pc[b] /\ op'[b] = op[b] /\ mine'[b] = mine[b]
  BY <1>0, <1>1 DEF Session
<1>3. /\ Guarded' /\ (SameTx \/ TxGone)
      /\ \A b \in Actors \ {a} : todo'[b] = todo[b] /\ (Holds(b)' => Holds(b) /\ SameTx)
  <2>1. PICK p, t : p = "idle" /\ t = <<>>
    OBVIOUS
  <2> QED BY <1>0, <1>1, <2>1, GuardKept
<1>4. OthersStay(a) /\ Plan(a)'
  BY <1>2, <1>3 DEF OthersStay, Plan
<1>5. ASSUME LInv, linear' PROVE LInv'
  <2>1. PICK m : TakesBack(a, m)
    <3>1. CASE disk' = disk
      <4>1. TakesBack(a, {})
        BY <1>2, <3>1 DEF TakesBack
      <4> QED BY <4>1
    <3>2. CASE /\ disk' = disk \ mine[a] /\ mine[a] \cap Applied = {}
               /\ mine[a] \cap Range(tx.hist) = {} \/ op[a] = "snapshot"
      <4>1. TakesBack(a, mine[a])
        BY <1>2, <3>2 DEF TakesBack
      <4> QED BY <4>1
    <3> QED BY <1>5, <3>1, <3>2
  <2> QED BY <1>2, <1>3, <1>4, <1>5, <2>1, StepKept
<1> QED BY <1>3, <1>5 DEF RInv

\* Files are taken back under the lock, by an import that failed, or by a
\* snapshot.
LEMMA UnlinkReplay ==
    ASSUME FInv, RInv, NEW a \in Actors,
           \/ _cleanup_generated_migrations(a) \/ _reconcile_generated_migrations(a)
           \/ commit_migration_transaction(a)
    PROVE  RInv'
<1>0. Session /\ Owns(a) /\ Guarded
  BY DEF FInv, RInv
<1>1. CASE _cleanup_generated_migrations(a)
  <2>1. /\ disk' = disk \ mine[a] /\ UNCHANGED <<content, hist, schema>> /\ UNCHANGED session
        /\ pc[a] = "cleanup" /\ Leave(a, "failed")
        /\ linear' = (linear /\ \A f \in mine[a] : ~PickedUp(f))
    BY <1>1 DEF _cleanup_generated_migrations
  <2>2. linear' => linear /\ mine[a] \cap Applied = {} /\ mine[a] \cap Range(tx.hist) = {}
    BY <2>1 DEF PickedUp
  <2> QED BY <2>1, <2>2, WithdrawKept
<1>2. CASE _reconcile_generated_migrations(a)
  <2>1. PICK what :
        /\ UNCHANGED <<content, hist, schema, linear>> /\ UNCHANGED session
        /\ pc[a] = "unclear" /\ lock = NoOne /\ Leave(a, what)
        /\ disk' = IF mine[a] \cap Applied = {} THEN disk \ mine[a] ELSE disk
    BY <1>2 DEF _reconcile_generated_migrations
  <2>2. Range(tx.hist) = {}
    BY <1>0, <2>1, RangeEmpty DEF Session
  <2>3. \/ disk' = disk
        \/ /\ disk' = disk \ mine[a] /\ mine[a] \cap Applied = {}
           /\ mine[a] \cap Range(tx.hist) = {} \/ op[a] = "snapshot"
    BY <2>1, <2>2
  <2> QED BY <2>1, <2>3, WithdrawKept
<1>3. CASE commit_migration_transaction(a)
  <2>1. /\ pc[a] = "unclear" /\ op[a] \in {"up", "down", "snapshot"}
        /\ UNCHANGED <<content, hist, schema, linear>>
    BY <1>3 DEF commit_migration_transaction
  <2>2. PICK f :
          /\ op[a] = "snapshot" => f = CHOOSE g \in mine[a] : TRUE
          /\ op[a] # "snapshot" => f = Head(todo[a])
          /\ \/ /\ (f \in Applied) <=> (op[a] # "down")
                /\ pc' = [pc EXCEPT ![a] = "acked"] /\ Holds(a)
                /\ UNCHANGED <<disk, session, op, mine, todo>>
             \/ Leave(a, "unknown") /\ UNCHANGED <<disk, session>>
             \/ /\ ~((f \in Applied) <=> (op[a] # "down"))
                /\ disk' = IF op[a] = "snapshot" THEN disk \ {f} ELSE disk
                /\ FreeLock(a) /\ Leave(a, "failed")
    BY <1>3 DEF commit_migration_transaction
  <2>3. CASE /\ (f \in Applied) <=> (op[a] # "down")
             /\ pc' = [pc EXCEPT ![a] = "acked"] /\ Holds(a)
             /\ UNCHANGED <<disk, session, op, mine, todo>>
    <3>1. PICK p, o, t, m : p = "acked" /\ o = op[a] /\ t = todo[a] /\ m = mine[a]
      OBVIOUS
    <3>2. /\ op' = [op EXCEPT ![a] = o] /\ mine' = [mine EXCEPT ![a] = m]
          /\ todo' = [todo EXCEPT ![a] = t]
      BY <2>3, <3>1, SameMap, SameTodo
    <3>3. pc'[a] = "acked" /\ Applied' = Applied /\ todo'[a] = todo[a]
      BY <1>0, <2>1, <2>3 DEF Session, Applied
    <3>4. LInv => Plan(a)'
      <4>1. SUFFICES ASSUME LInv
            PROVE  (op[a] = "up" => Rising(a)') /\ (op[a] = "down" => Falling(a)')
        BY <2>3 DEF Plan
      <4>2. (op[a] = "up" => Rising(a)) /\ (op[a] = "down" => Falling(a))
        BY <2>1, <2>3, <4>1 DEF LInv, Plan
      <4>3. ASSUME op[a] = "up" PROVE Rising(a)'
        <5>1. Rising(a) /\ todo[a] \in Seq(Files) /\ todo[a] # <<>>
          BY <2>1, <4>2, <4>3 DEF Rising
        <5>2. todo[a][1] \in Applied
          BY <2>2, <2>3, <4>3, <5>1
        <5> QED BY <2>3, <3>3, <5>1, <5>2 DEF Rising, Sorted
      <4>4. ASSUME op[a] = "down" PROVE Falling(a)'
        <5>1. Falling(a) /\ todo[a] \in Seq(Files) /\ todo[a] # <<>>
          BY <2>1, <4>2, <4>4 DEF Falling
        <5>2. todo[a][1] \notin Applied
          BY <2>2, <2>3, <4>4, <5>1
        <5> QED BY <2>3, <3>3, <5>1, <5>2 DEF Falling
      <4> QED BY <4>3, <4>4
    <3>5. /\ UNCHANGED session /\ pc[a] \notin {"commit", "await"} /\ UNCHANGED <<disk, content, hist, schema>>
          /\ (linear' => linear)
      BY <2>1, <2>3
    <3> QED BY <2>3, <3>1, <3>2, <3>4, <3>5, MoveKept
  <2>4. CASE Leave(a, "unknown") /\ UNCHANGED <<disk, session>>
    BY <2>1, <2>4, EndKept
  <2>5. CASE /\ ~((f \in Applied) <=> (op[a] # "down"))
             /\ disk' = IF op[a] = "snapshot" THEN disk \ {f} ELSE disk
             /\ FreeLock(a) /\ Leave(a, "failed")
    <3>1. LInv => \/ disk' = disk
                  \/ /\ disk' = disk \ mine[a] /\ mine[a] \cap Applied = {}
                     /\ mine[a] \cap Range(tx.hist) = {} \/ op[a] = "snapshot"
      <4>1. SUFFICES ASSUME LInv, op[a] = "snapshot"
            PROVE  disk' = disk \ mine[a] /\ mine[a] \cap Applied = {}
        BY <2>5
      <4>2. mine[a] # {}
        BY <1>0, <2>1, <4>1 DEF Owns
      <4>3. f \in mine[a]
        BY <2>2, <4>1, <4>2
      <4>4. mine[a] = {f}
        BY <4>1, <4>3 DEF LInv, Newest
      <4> QED BY <2>5, <4>1, <4>4
    <3> QED BY <2>1, <2>5, <3>1, WithdrawKept
  <2> QED BY <2>2, <2>3, <2>4, <2>5
<1> QED BY <1>1, <1>2, <1>3

\* PostgreSQL decides a COMMIT: what the transaction had reached is reached.
LEMMA CommitReplay ==
    ASSUME FInv, RInv, CommitLands \/ CommitAborts
    PROVE  RInv'
<1>0. Session /\ Guarded /\ tx.committing
  BY DEF FInv, RInv, CommitLands, CommitAborts
<1>1. /\ UNCHANGED <<disk, content, op, todo, mine>> /\ tx' = NoTx
      /\ \/ UNCHANGED <<lock, attached>> \/ (lock' = NoOne /\ attached' = FALSE)
  BY DEF CommitLands, CommitAborts, Decided, durable
<1>2. lock \in Actors /\ tx.open
  BY <1>0 DEF Session, Guarded
<1>3. \/ pc' = pc /\ ~attached
      \/ attached /\ (pc' = [pc EXCEPT ![lock] = "unclear"] \/ pc' = [pc EXCEPT ![lock] = "acked"])
  <2>1. CASE CommitLands
    <3>1. PICK raised \in BOOLEAN :
            pc' = IF attached THEN [pc EXCEPT ![lock] = IF raised THEN "unclear" ELSE "acked"] ELSE pc
      BY <2>1 DEF CommitLands
    <3> QED BY <3>1
  <2>2. CASE CommitAborts
    BY <2>2 DEF CommitAborts
  <2> QED BY <2>1, <2>2
<1>4. tx'.hist = <<>> /\ ~tx'.committing /\ ~tx'.open
  BY <1>1 DEF NoTx
<1>5. \A b \in Actors : Holds(b)' => Holds(b) /\ b = lock /\ pc[b] = "await" /\ pc'[b] \in {"unclear", "acked"}
  BY <1>0, <1>1, <1>2, <1>3, MigrationsAssumption DEF Holds, Session
<1>6. \A b \in Actors : b # lock => pc'[b] = pc[b]
  BY <1>0, <1>2, <1>3 DEF Session
<1>7. Guarded'
  BY <1>0, <1>1, <1>4, <1>5 DEF Guarded
<1>8. CASE CommitAborts
  <2>1. UNCHANGED <<disk, content, hist, schema, linear>>
    BY <1>8 DEF CommitAborts, durable
  <2>2. PICK a \in Actors : a = lock
    BY <1>2
  <2>3. OthersStay(a)
    BY <1>1, <1>5, <1>6, <2>2 DEF OthersStay
  <2>4. PICK none : none = {}
    OBVIOUS
  <2>5. TakesBack(a, none)
    BY <1>1, <2>1, <2>4 DEF TakesBack
  <2>6. LInv => Plan(a)'
    <3>1. SUFFICES ASSUME LInv, Holds(a)'
          PROVE  (op[a] = "up" => Rising(a)') /\ (op[a] = "down" => Falling(a)')
      BY <1>1 DEF Plan
    <3>2. Holds(a) /\ pc[a] = "await" /\ pc'[a] = "unclear"
      BY <1>0, <1>3, <1>5, <1>8, <2>2, <3>1 DEF CommitAborts, Session
    <3>3. (op[a] = "up" => Rising(a)) /\ (op[a] = "down" => Falling(a))
      BY <3>1, <3>2 DEF LInv, Plan
    <3>4. Applied' = Applied /\ todo'[a] = todo[a] /\ disk' = disk
      BY <1>1, <2>1 DEF Applied
    <3>5. ASSUME Rising(a) PROVE Rising(a)'
      BY <3>2, <3>4, <3>5 DEF Rising, Sorted
    <3>6. ASSUME Falling(a) PROVE Falling(a)'
      BY <3>2, <3>4, <3>6 DEF Falling
    <3> QED BY <3>3, <3>5, <3>6
  <2>7. ASSUME LInv PROVE LInv'
    <3>1. TxGone /\ op'[a] = op[a]
      BY <1>1, <1>4 DEF TxGone
    <3> QED BY <2>1, <2>3, <2>5, <2>6, <2>7, <3>1, StepKept
  <2> QED BY <1>7, <2>1, <2>7 DEF RInv
<1>9. CASE CommitLands
  <2>1. schema' = tx.schema /\ hist' = tx.hist /\ linear' = (linear /\ ~RevertsUnsettled)
    BY <1>9 DEF CommitLands
  <2>2. SUFFICES ASSUME linear' PROVE LInv'
    BY <1>7 DEF RInv
  <2>3. LInv /\ ~RevertsUnsettled
    BY <2>1, <2>2 DEF RInv
  <2>4. Applied' = Range(tx.hist) /\ Range(tx'.hist) = {}
    BY <1>4, <2>1, RangeEmpty DEF Applied
  <2>5. Applied \ Range(tx.hist) \subseteq disk
    BY <1>2, <2>3 DEF LInv, Backed
  <2>6. Chained' = Chained
    BY <1>1, <2>4, <2>5 DEF Chained
  <2>7. Explained'
    <3>1. PICK g : /\ Chain(g, Chained, content)
                   /\ Reached(g, Chained, Range(tx.hist), tx.schema)
      BY <1>2, <2>3 DEF LInv, Explained
    <3>2. Chain(g, Chained', content') /\ Reached(g, Chained', Applied', schema')
      BY <1>1, <2>1, <2>4, <2>6, <3>1
    <3> QED BY <1>4, <3>2 DEF Explained
  <2>8. Backed'
    BY <1>4, <2>4 DEF Backed
  <2>9. Sorted(hist)' /\ Sorted(tx.hist)'
    BY <1>4, <2>1, <2>3 DEF LInv, Sorted
  <2>10. ASSUME NEW b \in Actors PROVE Newest(b)'
    <3>1. Newest(b) /\ mine'[b] = mine[b] /\ op'[b] = op[b]
      BY <1>1, <2>3 DEF LInv
    <3>2. \A f \in mine[b] \ Range(tx.hist) : f \notin Applied
      BY <2>3 DEF RevertsUnsettled
    <3> QED BY <1>1, <2>4, <2>6, <3>1, <3>2 DEF Newest
  <2>11. ASSUME NEW b \in Actors PROVE Plan(b)'
    <3>1. SUFFICES ASSUME Holds(b)'
          PROVE  (op[b] = "up" => Rising(b)') /\ (op[b] = "down" => Falling(b)')
      BY <1>1 DEF Plan
    <3>2. Holds(b) /\ pc[b] = "await" /\ pc'[b] \in {"unclear", "acked"} /\ todo'[b] = todo[b]
      BY <1>1, <1>5, <3>1
    <3>3. (op[b] = "up" => Rising(b)) /\ (op[b] = "down" => Falling(b))
      BY <2>3, <3>2 DEF LInv, Plan
    <3>4. ASSUME Rising(b) PROVE Rising(b)'
      BY <1>1, <2>4, <3>2, <3>4 DEF Rising, Sorted
    <3>5. ASSUME Falling(b) PROVE Falling(b)'
      <4>1. PICK t : t = todo[b]
        OBVIOUS
      <4>2. /\ t \in Seq(Files) /\ t # <<>> /\ Applied' = Applied \ {t[1]}
            /\ \A i, j \in DOMAIN t : i < j => t[j] < t[i]
            /\ \A f \in Applied : \A x \in Range(t) : f > x => f \in Range(t)
            /\ \A i \in DOMAIN t : i # 1 => t[i] \in Applied
        BY <2>4, <3>2, <3>5, <4>1 DEF Falling
      <4>3. \A i \in DOMAIN t : i # 1 => t[i] # t[1]
        <5>1. SUFFICES ASSUME NEW i \in DOMAIN t, i # 1 PROVE t[i] < t[1] /\ t[i] \in Nat /\ t[1] \in Nat
          OBVIOUS
        <5>2. 1 \in DOMAIN t /\ 1 < i
          BY <4>2, <5>1
        <5>3. \A f \in Files : f \in Nat
          BY MigrationsAssumption DEF Files
        <5> QED BY <4>2, <5>2, <5>3
      <4> QED BY <3>2, <4>1, <4>2, <4>3 DEF Falling
    <3> QED BY <3>3, <3>4, <3>5
  <2> QED BY <2>7, <2>8, <2>9, <2>10, <2>11 DEF LInv
<1> QED BY <1>8, <1>9

\* One row of a history that is in order is taken away.
LEMMA RowTaken ==
    ASSUME NEW h \in Seq(Files), NEW f \in Range(h), Sorted(h), NEW w, w = Without(h, f)
    PROVE  w \in Seq(Files) /\ Range(w) = Range(h) \ {f} /\ Sorted(w)
<1>0. DOMAIN h = 1..Len(h) /\ Len(h) \in Nat /\ \A i \in 1..Len(h) : h[i] \in Nat /\ h[i] \in Files
  <2>1. \A x \in Files : x \in Nat
    BY MigrationsAssumption DEF Files
  <2> QED BY <2>1
<1>1. PICK k \in DOMAIN h : w = RemoveAt(h, k) /\ h[k] = f
  <2>1. \E i \in DOMAIN h : h[i] = f
    BY DEF Range
  <2>2. PICK k : k = CHOOSE i \in DOMAIN h : h[i] = f
    OBVIOUS
  <2>3. k \in DOMAIN h /\ h[k] = f
    BY <2>1, <2>2
  <2> QED BY <2>2, <2>3 DEF Without
<1>2. k \in 1..Len(h)
  BY <1>0
<1> DEFINE l == SubSeq(h, 1, k - 1)
           r == SubSeq(h, k + 1, Len(h))
<1>3. l \in Seq(Files) /\ Len(l) = k - 1 /\ \A i \in 1..(k - 1) : l[i] = h[i]
  BY <1>0, <1>2
<1>4. r \in Seq(Files) /\ Len(r) = Len(h) - k /\ \A i \in 1..(Len(h) - k) : r[i] = h[k + i]
  BY <1>0, <1>2
<1> HIDE DEF l, r
<1>5. w = l \o r
  BY <1>1 DEF l, r, RemoveAt
<1>6. /\ w \in Seq(Files) /\ DOMAIN w = 1..(Len(l) + Len(r))
      /\ \A i \in 1..(Len(l) + Len(r)) : w[i] = IF i <= Len(l) THEN l[i] ELSE r[i - Len(l)]
  BY <1>3, <1>4, <1>5
<1>7. DOMAIN w = 1..(Len(h) - 1)
  BY <1>0, <1>2, <1>3, <1>4, <1>6
<1>8. \A i \in 1..(Len(h) - 1) :
        /\ i < k => i \in DOMAIN h /\ w[i] = h[i]
        /\ i >= k => i + 1 \in DOMAIN h /\ w[i] = h[i + 1]
  <2>1. SUFFICES ASSUME NEW i \in 1..(Len(h) - 1)
        PROVE  /\ i < k => i \in DOMAIN h /\ w[i] = h[i]
               /\ i >= k => i + 1 \in DOMAIN h /\ w[i] = h[i + 1]
    OBVIOUS
  <2>2. i \in 1..(Len(l) + Len(r))
    BY <1>6, <1>7
  <2>3. CASE i < k
    <3>1. i <= Len(l) /\ i \in 1..(k - 1) /\ i \in DOMAIN h
      BY <1>0, <1>2, <1>3, <2>3
    <3> QED BY <1>3, <1>6, <2>2, <2>3, <3>1
  <2>4. CASE i >= k
    <3>1. /\ ~(i <= Len(l)) /\ i - Len(l) \in 1..(Len(h) - k) /\ k + (i - Len(l)) = i + 1
          /\ i + 1 \in DOMAIN h
      BY <1>0, <1>2, <1>3, <2>4
    <3>2. w[i] = r[i - Len(l)] /\ r[i - Len(l)] = h[k + (i - Len(l))]
      BY <1>4, <1>6, <2>2, <3>1
    <3> QED BY <1>2, <2>4, <3>1, <3>2
  <2> QED BY <1>0, <1>2, <2>3, <2>4
<1>9. \A i \in DOMAIN h : i # k => h[i] # f
  BY <1>0, <1>1 DEF Sorted
<1>10. Range(w) \subseteq Range(h) \ {f}
  <2>1. SUFFICES ASSUME NEW i \in 1..(Len(h) - 1) PROVE w[i] \in Range(h) /\ w[i] # f
    BY <1>7 DEF Range
  <2>2. CASE i < k
    <3>1. w[i] = h[i] /\ i \in DOMAIN h /\ i # k
      BY <1>0, <1>2, <1>8, <2>2
    <3> QED BY <1>9, <3>1 DEF Range
  <2>3. CASE i >= k
    <3>1. w[i] = h[i + 1] /\ i + 1 \in DOMAIN h /\ i + 1 # k
      BY <1>0, <1>2, <1>8, <2>3
    <3> QED BY <1>9, <3>1 DEF Range
  <2> QED BY <1>0, <1>2, <2>2, <2>3
<1>11. Range(h) \ {f} \subseteq Range(w)
  <2>1. SUFFICES ASSUME NEW i \in DOMAIN h, i # k PROVE h[i] \in Range(w)
    BY <1>1 DEF Range
  <2>2. CASE i < k
    <3>1. i \in 1..(Len(h) - 1)
      BY <1>0, <1>2, <2>2
    <3>2. w[i] = h[i] /\ i \in DOMAIN w
      BY <1>7, <1>8, <2>2, <3>1
    <3> QED BY <3>2 DEF Range
  <2>3. CASE i > k
    <3>1. i - 1 \in 1..(Len(h) - 1) /\ i - 1 >= k /\ (i - 1) + 1 = i
      BY <1>0, <1>2, <2>3
    <3>2. w[i - 1] = h[i] /\ i - 1 \in DOMAIN w
      BY <1>7, <1>8, <3>1
    <3> QED BY <3>2 DEF Range
  <2> QED BY <1>0, <1>2, <2>1, <2>2, <2>3
<1>12. Sorted(w)
  <2>1. SUFFICES ASSUME NEW i \in 1..(Len(h) - 1), NEW j \in 1..(Len(h) - 1), i < j PROVE w[i] < w[j]
    BY <1>7 DEF Sorted
  <2>2. CASE i < k /\ j < k
    BY <1>8, <2>1, <2>2 DEF Sorted
  <2>3. CASE i < k /\ j >= k
    <3>1. i < j + 1
      BY <1>0, <2>1
    <3> QED BY <1>8, <2>3, <3>1 DEF Sorted
  <2>4. CASE i >= k /\ j >= k
    <3>1. i + 1 < j + 1
      BY <1>0, <2>1
    <3> QED BY <1>8, <2>4, <3>1 DEF Sorted
  <2> QED BY <1>0, <1>2, <2>1, <2>2, <2>3, <2>4
<1> QED BY <1>6, <1>10, <1>11, <1>12

\* A newer row is added to a history that is in order.
LEMMA RowAdded ==
    ASSUME NEW h \in Seq(Files), Sorted(h), NEW f \in Files, \A x \in Range(h) : x < f,
           NEW w, w = Append(h, f)
    PROVE  w \in Seq(Files) /\ Range(w) = Range(h) \cup {f} /\ Sorted(w)
<1>1. w \in Seq(Files) /\ Range(w) = Range(h) \cup {f}
  BY Recorded
<1>2. /\ Len(h) \in Nat /\ DOMAIN h = 1..Len(h) /\ DOMAIN w = 1..(Len(h) + 1)
      /\ \A i \in 1..Len(h) : w[i] = h[i]
      /\ w[Len(h) + 1] = f
  OBVIOUS
<1>3. ASSUME NEW i \in DOMAIN w, NEW j \in DOMAIN w, i < j PROVE w[i] < w[j]
  <2>1. i \in 1..Len(h) /\ w[i] = h[i] /\ h[i] \in Range(h)
    BY <1>2, <1>3 DEF Range
  <2>2. CASE j = Len(h) + 1
    BY <1>2, <2>1, <2>2
  <2>3. CASE j \in 1..Len(h)
    BY <1>2, <1>3, <2>1, <2>3 DEF Sorted
  <2> QED BY <1>2, <2>2, <2>3
<1> QED BY <1>1, <1>3 DEF Sorted

\* The holder of the lock that has not begun has no transaction, and only its
\* own file is about to be recorded.
LEMMA NoneOpen ==
    ASSUME FInv, RInv, NEW a \in Actors, Holds(a), pc[a] \in {"locked", "batch"}
    PROVE  /\ ~tx.open /\ ~tx.committing /\ Range(tx.hist) = {} /\ Chained = Applied \cup disk
           /\ lock = a /\ attached
<1>1. ~tx.open /\ lock = a /\ attached
  BY DEF RInv, Guarded, Holds
<1>2. tx.hist = <<>> /\ ~tx.committing
  BY <1>1 DEF RInv, Guarded
<1> QED BY <1>1, <1>2, RangeEmpty DEF Chained

\* A transaction is opened by the holder of the lock.
LEMMA OpenGuard ==
    ASSUME FInv, RInv, NEW a \in Actors, Holds(a), UNCHANGED <<lock, attached, todo>>,
           NEW s, NEW h, tx' = [open |-> TRUE, committing |-> FALSE, schema |-> s, hist |-> h],
           pc' = [pc EXCEPT ![a] = "commit"]
    PROVE  Guarded' /\ pc'[a] = "commit" /\ (\A b \in Actors : Holds(b)' => b = a) /\ tx'.open
           /\ tx'.hist = h /\ tx'.schema = s
<1>1. pc'[a] = "commit" /\ tx'.open /\ tx'.hist = h /\ tx'.schema = s
  BY DEF FInv, Session
<1>2. \A b \in Actors : Holds(b)' => b = a
  BY DEF Holds
<1>3. Guarded'
  BY <1>1, <1>2, MigrationsAssumption DEF RInv, Guarded, Holds
<1> QED BY <1>1, <1>2, <1>3

\* A runner opens a transaction for one of the files.
LEMMA RunKept ==
    ASSUME FInv, RInv, LInv, NEW a \in Actors, pc[a] = "batch", Holds(a),
           UNCHANGED <<disk, content, hist, schema, lock, attached, op, todo, mine>>,
           NEW s, NEW h, tx' = [open |-> TRUE, committing |-> FALSE, schema |-> s, hist |-> h],
           pc' = [pc EXCEPT ![a] = "commit"],
           Range(h) \subseteq Chained, Applied \ Range(h) \subseteq disk, Sorted(h),
           \A g : Chain(g, Chained, content) /\ Reached(g, Chained, Applied, schema)
                     => Reached(g, Chained, Range(h), s),
           Plan(a)'
    PROVE  LInv'
<1>1. Range(tx.hist) = {} /\ Chained = Applied \cup disk
  BY NoneOpen
<1>2. tx'.open /\ tx'.hist = h /\ tx'.schema = s /\ \A b \in Actors : Holds(b)' => b = a
  BY OpenGuard
<1>3. Applied' = Applied /\ Chained' = Chained
  BY <1>1, <1>2 DEF Chained, Applied
<1>4. PICK g : Chain(g, Chained, content) /\ Reached(g, Chained, Applied, schema)
  BY DEF LInv, Explained
<1>5. Explained'
  BY <1>2, <1>3, <1>4 DEF Explained
<1>6. Backed'
  BY <1>1, <1>2, <1>3 DEF Backed
<1>7. Sorted(hist)' /\ Sorted(tx.hist)'
  BY <1>2 DEF LInv, Sorted
<1>8. \A b \in Actors : Newest(b)'
  BY <1>3 DEF LInv, Newest
<1>9. \A b \in Actors : Plan(b)'
  BY <1>2 DEF Plan
<1> QED BY <1>5, <1>6, <1>7, <1>8, <1>9 DEF LInv

\* The oldest pending file continues what history has reached.
LEMMA AppliedNext ==
    ASSUME FInv, NEW g, NEW C \in SUBSET Files, NEW A \in SUBSET C, NEW s, NEW f \in C \ A,
           Chain(g, C, content), Reached(g, C, A, s), \A x \in C \ A : f <= x
    PROVE  Reached(g, C, A \cup {f}, up(content[f], s)) /\ \A x \in A : x < f
<1>0. MaxFiles \in Nat /\ f \in 1..MaxFiles /\ f - 1 \in 0..MaxFiles /\ f \in 0..MaxFiles
      /\ \A x \in C : x \in 1..MaxFiles
  BY MigrationsAssumption DEF Files
<1>1. PICK n \in 0..MaxFiles : A = C \cap (1..n) /\ s = g[n]
  BY DEF Reached
<1>2. n < f
  BY <1>0, <1>1
<1>3. \A x \in (n + 1)..(f - 1) : x \notin C
  BY <1>0, <1>1
<1>4. g[f - 1] = g[n]
  BY <1>0, <1>2, <1>3, Constant
<1>5. g[f] = up(content[f], s)
  BY <1>1, <1>4 DEF Chain
<1>6. A \cup {f} = C \cap (1..f)
  <2>1. \A x \in C : x \in A \cup {f} <=> x \in 1..f
    BY <1>0, <1>1, <1>2
  <2> QED BY <2>1
<1>7. \A x \in A : x < f
  BY <1>0, <1>1, <1>2
<1> QED BY <1>0, <1>5, <1>6, <1>7 DEF Reached

\* Reverting the newest row leads back to where its file started.
LEMMA RevertedLast ==
    ASSUME FInv, NEW g, NEW C \in SUBSET Files, NEW A \in SUBSET C, NEW s, NEW f \in A,
           Chain(g, C, content), Reached(g, C, A, s), \A x \in A : x <= f
    PROVE  Reached(g, C, A \ {f}, down(content[f], s))
<1>0. MaxFiles \in Nat /\ f \in 1..MaxFiles /\ f - 1 \in 0..MaxFiles /\ f \in 0..MaxFiles
      /\ f \in Files /\ \A x \in C : x \in 1..MaxFiles
  BY MigrationsAssumption DEF Files
<1>1. PICK n \in 0..MaxFiles : A = C \cap (1..n) /\ s = g[n]
  BY DEF Reached
<1>2. f <= n
  BY <1>0, <1>1
<1>3. \A x \in (f + 1)..n : x \notin C
  BY <1>0, <1>1
<1>4. g[n] = g[f]
  BY <1>0, <1>2, <1>3, Constant
<1>5. Fits(content[f], g[f - 1]) /\ g[f] = up(content[f], g[f - 1]) /\ g[f - 1] \in Schemas
  BY <1>0 DEF Chain
<1>6. down(content[f], s) = g[f - 1]
  BY <1>1, <1>4, <1>5, UpDown
<1>7. A \ {f} = C \cap (1..(f - 1))
  <2>1. \A x \in C : x \in A \ {f} <=> x \in 1..(f - 1)
    BY <1>0, <1>1, <1>2
  <2> QED BY <2>1
<1> QED BY <1>0, <1>6, <1>7 DEF Reached

\* A runner applies the oldest pending file, or reverts the newest row.
LEMMA RunReplay ==
    ASSUME FInv, RInv, NEW a \in Actors, apply_migration(a) \/ revert_migration(a)
    PROVE  RInv'
<1>0. Session /\ Guarded /\ hist \in Seq(Files) /\ Chained \subseteq Files
  BY ChainedFiles DEF FInv, RInv, Accounted
<1>1. /\ pc[a] = "batch" /\ Holds(a) /\ todo[a] # <<>> /\ pc' = [pc EXCEPT ![a] = "commit"]
      /\ UNCHANGED <<disk, content, hist, schema, linear, lock, attached, op, todo, mine>>
  BY DEF apply_migration, revert_migration, durable
<1>2. PICK s, h : tx' = [open |-> TRUE, committing |-> FALSE, schema |-> s, hist |-> h]
  BY DEF apply_migration, revert_migration
<1>3. /\ Guarded' /\ pc'[a] = "commit" /\ tx'.hist = h /\ tx'.schema = s
  BY <1>1, <1>2, OpenGuard
<1>4. SUFFICES ASSUME LInv PROVE LInv'
  BY <1>1, <1>3 DEF RInv
<1>5. Chained = Applied \cup disk /\ Applied' = Applied /\ Applied \subseteq Chained
  BY <1>1, NoneOpen DEF Applied
<1>6. PICK t : t = todo[a]
  OBVIOUS
<1>7. PICK f : f = Head(t)
  OBVIOUS
<1>8. \A x \in Files : x \in Nat
  BY MigrationsAssumption DEF Files
<1>9. CASE apply_migration(a)
  <2>1. /\ op[a] = "up" /\ f \in disk /\ f \notin Applied
        /\ tx' = [open |-> TRUE, committing |-> FALSE,
                  schema |-> up(content[f], schema), hist |-> Append(hist, f)]
    BY <1>6, <1>7, <1>9 DEF apply_migration
  <2>2. s = up(content[f], schema) /\ h = Append(hist, f)
    BY <1>2, <2>1
  <2>3. Rising(a)
    BY <1>1, <1>4, <2>1 DEF LInv, Plan
  <2>4. t \in Seq(Files) /\ t # <<>> /\ Sorted(t) /\ disk \ Applied \subseteq Range(t)
    BY <1>1, <1>6, <2>3 DEF Rising
  <2>5. f = t[1] /\ 1 \in DOMAIN t /\ \A i \in DOMAIN t : i \in Nat /\ i >= 1
    BY <1>7, <2>4
  <2>6. f \in Chained \ Applied /\ f \in Files
    BY <1>0, <1>5, <2>1
  <2>7. \A x \in Chained \ Applied : f <= x
    <3>1. SUFFICES ASSUME NEW i \in DOMAIN t PROVE f <= t[i]
      BY <1>5, <2>4 DEF Range
    <3>2. t[i] \in Nat /\ f \in Nat
      BY <1>8, <2>4, <2>5, <2>6
    <3>3. i = 1 \/ 1 < i
      BY <2>5
    <3> QED BY <2>4, <2>5, <3>2, <3>3 DEF Sorted
  <2>8. \A g : Chain(g, Chained, content) /\ Reached(g, Chained, Applied, schema)
            => Reached(g, Chained, Applied \cup {f}, s) /\ \A x \in Applied : x < f
    <3>1. PICK C, A : C = Chained /\ A = Applied
      OBVIOUS
    <3>2. C \in SUBSET Files /\ A \in SUBSET C /\ f \in C \ A /\ \A x \in C \ A : f <= x
      BY <1>0, <1>5, <2>6, <2>7, <3>1
    <3>3. ASSUME NEW g, Chain(g, C, content), Reached(g, C, A, schema)
          PROVE  Reached(g, C, A \cup {f}, s) /\ \A x \in A : x < f
      BY <2>2, <3>2, <3>3, AppliedNext
    <3> QED BY <3>1, <3>3
  <2>9. \A x \in Range(hist) : x < f
    BY <1>4, <2>8 DEF LInv, Explained, Applied
  <2>10. h \in Seq(Files) /\ Range(h) = Applied \cup {f} /\ Sorted(h)
    <3>1. PICK q : q = hist
      OBVIOUS
    <3>2. q \in Seq(Files) /\ Sorted(q) /\ (\A x \in Range(q) : x < f) /\ h = Append(q, f)
      BY <1>0, <1>4, <2>2, <2>9, <3>1 DEF LInv
    <3>3. h \in Seq(Files) /\ Range(h) = Range(q) \cup {f} /\ Sorted(h)
      BY <2>6, <3>2, RowAdded
    <3> QED BY <3>1, <3>3 DEF Applied
  <2>11. Plan(a)'
    <3>1. Rising(a)'
      BY <1>1, <1>3, <1>5, <1>6, <2>3, <2>5, <2>10 DEF Rising, Sorted
    <3> QED BY <1>1, <2>1, <3>1 DEF Plan
  <2>12. Range(h) \subseteq Chained /\ Applied \ Range(h) \subseteq disk
    BY <1>5, <2>6, <2>10
  <2>13. \A g : Chain(g, Chained, content) /\ Reached(g, Chained, Applied, schema)
             => Reached(g, Chained, Range(h), s)
    BY <2>8, <2>10
  <2> QED BY <1>1, <1>2, <1>4, <2>10, <2>11, <2>12, <2>13, RunKept
<1>10. CASE revert_migration(a)
  <2>1. /\ op[a] = "down" /\ f \in disk
        /\ tx' = [open |-> TRUE, committing |-> FALSE,
                  schema |-> down(content[f], schema), hist |-> Without(hist, f)]
    BY <1>6, <1>7, <1>10 DEF revert_migration
  <2>2. s = down(content[f], schema) /\ h = Without(hist, f)
    BY <1>2, <2>1
  <2>3. Falling(a)
    BY <1>1, <1>4, <2>1 DEF LInv, Plan
  <2>4. /\ t \in Seq(Files) /\ t # <<>> /\ Range(t) \subseteq Applied
        /\ \A i, j \in DOMAIN t : i < j => t[j] < t[i]
        /\ \A x \in Applied : \A y \in Range(t) : x > y => x \in Range(t)
    BY <1>1, <1>6, <2>3 DEF Falling
  <2>5. f = t[1] /\ 1 \in DOMAIN t /\ \A i \in DOMAIN t : i \in Nat /\ i >= 1
    BY <1>7, <2>4
  <2>6. f \in Applied /\ f \in Range(t) /\ f \in Files
    BY <1>0, <1>5, <2>4, <2>5 DEF Range
  <2>7. \A x \in Applied : x <= f
    <3>1. SUFFICES ASSUME NEW x \in Applied, x > f PROVE FALSE
      BY <1>0, <1>5, <1>8, <2>6
    <3>2. PICK i \in DOMAIN t : x = t[i]
      BY <2>4, <2>6, <3>1 DEF Range
    <3>3. i = 1 \/ 1 < i
      BY <2>5
    <3>4. x \in Nat /\ f \in Nat
      BY <1>0, <1>5, <1>8, <2>6, <3>1
    <3> QED BY <2>4, <2>5, <3>1, <3>2, <3>3, <3>4
  <2>8. h \in Seq(Files) /\ Range(h) = Applied \ {f} /\ Sorted(h)
    <3>1. PICK q : q = hist
      OBVIOUS
    <3>2. q \in Seq(Files) /\ Sorted(q) /\ f \in Range(q) /\ h = Without(q, f)
      BY <1>0, <1>4, <2>2, <2>6, <3>1 DEF LInv, Applied
    <3>3. h \in Seq(Files) /\ Range(h) = Range(q) \ {f} /\ Sorted(h)
      BY <3>2, RowTaken
    <3> QED BY <3>1, <3>3 DEF Applied
  <2>9. \A g : Chain(g, Chained, content) /\ Reached(g, Chained, Applied, schema)
            => Reached(g, Chained, Range(h), s)
    <3>1. PICK C, A : C = Chained /\ A = Applied
      OBVIOUS
    <3>2. C \in SUBSET Files /\ A \in SUBSET C /\ f \in A /\ \A x \in A : x <= f
      BY <1>0, <1>5, <2>6, <2>7, <3>1
    <3>3. ASSUME NEW g, Chain(g, C, content), Reached(g, C, A, schema)
          PROVE  Reached(g, C, A \ {f}, s)
      BY <2>2, <3>2, <3>3, RevertedLast
    <3> QED BY <2>8, <3>1, <3>3
  <2>10. Plan(a)'
    <3>1. Falling(a)'
      BY <1>1, <1>3, <1>5, <1>6, <2>3, <2>5, <2>8 DEF Falling
    <3> QED BY <1>1, <2>1, <3>1 DEF Plan
  <2>11. Range(h) \subseteq Chained /\ Applied \ Range(h) \subseteq disk
    BY <1>5, <2>1, <2>8
  <2> QED BY <1>1, <1>2, <1>4, <2>8, <2>9, <2>10, <2>11, RunKept
<1> QED BY <1>9, <1>10

\* The next file follows those that were generated.
LEMMA NextNumber ==
    ASSUME FInv
    PROVE  \E n \in 0..MaxFiles : Generated = 1..n /\ n \in Nat /\ NextFile = n + 1
<1>1. PICK n \in 0..MaxFiles : Generated = 1..n
  BY DEF FInv, Numbered
<1>2. n \in Nat /\ Cardinality(Generated) = n
  BY <1>1, FS_Interval, MigrationsAssumption
<1> QED BY <1>1, <1>2 DEF NextFile

\* A producer that finds nothing pending continues the whole chain.
LEMMA NothingPending ==
    ASSUME FInv, RInv, NEW a \in Actors, Holds(a), pc[a] = "locked", NEW changes,
           Publish(a, changes), linear'
    PROVE  /\ linear /\ LInv /\ disk \subseteq Applied /\ Range(tx.hist) = {}
           /\ \E g : Chain(g, Applied, content) /\ Reached(g, Applied, Applied, schema)
           /\ schema \in Schemas
<1>1. linear /\ disk \ Applied = {} /\ LInv
  BY DEF Publish, get_pending_migrations, RInv
<1>2. Range(tx.hist) = {} /\ Chained = Applied
  BY <1>1, NoneOpen
<1>3. PICK g : Chain(g, Applied, content) /\ Reached(g, Applied, Applied, schema)
  BY <1>1, <1>2 DEF LInv, Explained
<1>4. schema \in Schemas
  BY <1>3 DEF Chain, Reached
<1> QED BY <1>1, <1>2, <1>3, <1>4

\* The fresh files of one step are the newest, and their producer's.
LEMMA PublishKept ==
    ASSUME FInv, RInv, NEW a \in Actors, NEW changes, NEW k \in 1..2, DOMAIN changes = 1..k,
           \A i \in 1..k : changes[i] # Blank, NextFile + k - 1 <= MaxFiles,
           Publish(a, changes), linear', pc[a] = "locked", Holds(a), op' = op,
           op[a] \notin {"up", "down"}, op[a] = "snapshot" => k = 1,
           \A b \in Actors : Holds(b)' => b = a,
           Explained', Sorted(tx'.hist),
           \/ TxGone
           \/ tx'.open /\ Range(tx'.hist) = Applied \cup NextFile..(NextFile + k - 1)
    PROVE  LInv'
<1> DEFINE fs == NextFile..(NextFile + k - 1)
<1>1. /\ fs \cap Generated = {} /\ fs # {} /\ fs \subseteq Files /\ NextFile \in Files
      /\ disk' = disk \cup fs /\ mine' = [mine EXCEPT ![a] = fs] /\ hist' = hist
  BY FreshFiles
<1>2. linear /\ LInv /\ disk \subseteq Applied /\ Range(tx.hist) = {}
  BY NothingPending
<1>3. Applied' = Applied /\ Applied \subseteq Generated
  BY <1>1 DEF Applied, FInv, Accounted
<1>4. Range(tx'.hist) = {} \/ Range(tx'.hist) = Applied \cup fs
  BY RangeEmpty DEF TxGone
<1>5. Chained' = Applied \cup fs
  BY <1>1, <1>2, <1>3, <1>4 DEF Chained
<1>6. Backed'
  BY <1>1, <1>3, <1>4 DEF Backed, TxGone
<1>7. Sorted(hist)' /\ Sorted(tx.hist)'
  BY <1>1, <1>2 DEF LInv, Sorted
<1>8. mine'[a] = fs /\ \A b \in Actors \ {a} : mine'[b] = mine[b]
  BY <1>1 DEF FInv, Session
<1>9. \A x \in Applied : \A f \in fs : x < f
  <2>1. PICK n \in 0..MaxFiles : Generated = 1..n /\ n \in Nat /\ NextFile = n + 1
    BY NextNumber
  <2> QED BY <1>3, <2>1
<1>10. ASSUME NEW b \in Actors PROVE Newest(b)'
  <2>1. \A c \in Actors : Newest(c) /\ mine[c] \subseteq Generated
    BY <1>2 DEF LInv, FInv, Owns
  <2>2. CASE b = a
    <3>1. \A f \in fs \ Applied : \A x \in Applied \cup fs : x > f => x \in fs
      <4>1. SUFFICES ASSUME NEW f \in fs, NEW x \in Applied, x > f PROVE FALSE
        OBVIOUS
      <4>2. x < f /\ x \in Nat /\ f \in Nat
        <5>1. \A y \in Files : y \in Nat
          BY MigrationsAssumption DEF Files
        <5>2. x \in Files /\ f \in Files
          BY <1>1, <1>3, <4>1 DEF Generated
        <5> QED BY <1>9, <4>1, <5>1, <5>2
      <4> QED BY <4>1, <4>2
    <3>2. op[a] = "snapshot" => \A f, x \in fs : f = x
      <4>1. NextFile \in Nat
        BY <1>1, MigrationsAssumption DEF Files
      <4>2. SUFFICES ASSUME op[a] = "snapshot", NEW f \in fs, NEW x \in fs PROVE f = x
        OBVIOUS
      <4>3. k = 1
        BY <4>2
      <4> QED BY <4>1, <4>2, <4>3
    <3>3. \A c \in Actors \ {a} : fs \cap mine[c] = {}
      BY <1>1, <2>1
    <3>4. /\ mine'[a] \subseteq disk' /\ \A c \in Actors \ {a} : mine'[a] \cap mine'[c] = {}
      BY <1>1, <1>8, <3>3
    <3>5. \A f \in mine'[a] \ Applied' : \A x \in Chained' : x > f => x \in mine'[a]
      BY <1>3, <1>5, <1>8, <3>1
    <3>6. op'[a] = "snapshot" => \A f, x \in mine'[a] : f = x
      BY <1>8, <3>2
    <3> QED BY <2>2, <3>4, <3>5, <3>6 DEF Newest
  <2>3. CASE b # a
    <3>1. mine'[b] = mine[b] /\ mine[b] \subseteq Applied /\ mine[b] \subseteq disk
      BY <1>2, <1>8, <2>1, <2>3 DEF Newest
    <3>2. \A c \in Actors \ {b} : mine[b] \cap mine'[c] = {}
      <4>1. SUFFICES ASSUME NEW c \in Actors \ {b} PROVE mine[b] \cap mine'[c] = {}
        OBVIOUS
      <4>2. CASE c = a
        BY <1>1, <1>8, <2>1, <4>2
      <4>3. CASE c # a
        BY <1>8, <2>1, <4>3 DEF Newest
      <4> QED BY <4>2, <4>3
    <3>3. op'[b] = "snapshot" => \A f, x \in mine'[b] : f = x
      BY <2>1, <3>1 DEF Newest
    <3> QED BY <1>1, <1>3, <3>1, <3>2, <3>3 DEF Newest
  <2> QED BY <2>2, <2>3
<1>11. \A b \in Actors : Plan(b)'
  BY DEF Plan
<1> QED BY <1>2, <1>6, <1>7, <1>10, <1>11 DEF LInv

\* One file is published, in a transaction or in none.
LEMMA OnePublished ==
    ASSUME FInv, RInv, NEW a \in Actors, NEW m, m # Blank, NextFile <= MaxFiles,
           Publish(a, <<m>>), pc[a] = "locked", Holds(a), op' = op,
           op[a] \notin {"up", "down"}, \A b \in Actors : Holds(b)' => b = a,
           schema \in Schemas => Fits(m, schema),
           \/ TxGone
           \/ tx'.open /\ tx'.hist = Append(hist, NextFile) /\ tx'.schema = up(m, schema)
    PROVE  linear' => LInv'
<1>1. SUFFICES ASSUME linear' PROVE LInv'
  OBVIOUS
<1>2. PICK N : N = NextFile
  OBVIOUS
<1>3. PICK n \in 0..MaxFiles : Generated = 1..n /\ n \in Nat /\ NextFile = n + 1
  BY NextNumber
<1>4. n \in Nat /\ N = n + 1 /\ N..(N + 1 - 1) = {N} /\ MaxFiles \in Nat /\ N \in Nat
  <2>1. n \in Nat /\ N = n + 1 /\ MaxFiles \in Nat
    BY <1>2, <1>3, MigrationsAssumption
  <2> QED BY <2>1
<1>5. PICK ch : ch = <<m>>
  OBVIOUS
<1>6. /\ DOMAIN ch = 1..1 /\ (\A i \in 1..1 : ch[i] # Blank) /\ NextFile + 1 - 1 <= MaxFiles
      /\ Publish(a, ch) /\ ch[1] = m /\ 1 \in 1..2
  BY <1>2, <1>4, <1>5
<1>7. /\ NextFile \in Files /\ disk' = disk \cup NextFile..(NextFile + 1 - 1)
      /\ \A f \in Generated : content'[f] = content[f]
      /\ \A f \in NextFile..(NextFile + 1 - 1) : content'[f] = ch[f - NextFile + 1]
      /\ hist' = hist
  BY <1>6, FreshFiles
<1>8. N \in Files /\ disk' = disk \cup {N} /\ content'[N] = m
  <2>1. N - N + 1 = 1
    BY <1>4
  <2> QED BY <1>2, <1>4, <1>6, <1>7, <2>1
<1>9. /\ disk \subseteq Applied /\ Range(tx.hist) = {} /\ LInv /\ schema \in Schemas
      /\ \E g : Chain(g, Applied, content) /\ Reached(g, Applied, Applied, schema)
  BY <1>1, NothingPending
<1>10. PICK g : Chain(g, Applied, content) /\ Reached(g, Applied, Applied, schema)
  BY <1>9
<1>11. Applied \subseteq Files /\ Applied \subseteq Generated /\ Applied' = Applied
       /\ \A x \in Applied : x < N
  <2>1. Applied \subseteq Generated /\ Generated \subseteq Files /\ Applied' = Applied
    BY <1>7 DEF FInv, Accounted, Applied, Generated
  <2>2. \A x \in 1..n : x < N
    BY <1>4
  <2> QED BY <1>3, <2>1, <2>2
<1>12. PICK C, E : C = Applied /\ E = content'
  OBVIOUS
<1>13. schema = g[N - 1]
  BY <1>8, <1>10, <1>11, AtEnd
<1>14. Fits(E[N], g[N - 1]) /\ \A f \in C : E[f] = content[f]
  BY <1>7, <1>8, <1>9, <1>11, <1>12, <1>13
<1>15. PICK h : /\ Chain(h, C \cup {N}, E)
                /\ \A A, s : Reached(g, C, A, s) => Reached(h, C \cup {N}, A, s)
                /\ Reached(h, C \cup {N}, C \cup {N}, up(E[N], g[N - 1]))
  <2>1. PICK D : D = content
    OBVIOUS
  <2>2. /\ Chain(g, C, D) /\ C \subseteq Files /\ (\A x \in C : x < N)
        /\ \A f \in C : E[f] = D[f]
    BY <1>10, <1>11, <1>12, <1>14, <2>1
  <2>3. N \in Files /\ Fits(E[N], g[N - 1])
    BY <1>8, <1>14
  <2> QED BY <2>2, <2>3, Grown
<1>16. /\ Chain(h, Applied \cup {N}, content') /\ Reached(h, Applied \cup {N}, Applied, schema)
       /\ Reached(h, Applied \cup {N}, Applied \cup {N}, up(m, schema))
  BY <1>8, <1>10, <1>12, <1>13, <1>15
<1>17. tx'.open /\ ~TxGone =>
         Range(tx'.hist) = Applied \cup {N} /\ Sorted(tx'.hist) /\ tx'.schema = up(m, schema)
  <2>1. SUFFICES ASSUME tx'.hist = Append(hist, N), tx'.schema = up(m, schema)
        PROVE  Range(tx'.hist) = Applied \cup {N} /\ Sorted(tx'.hist)
    BY <1>2
  <2>2. PICK q, w : q = hist /\ w = Append(q, N)
    OBVIOUS
  <2>3. q \in Seq(Files) /\ Sorted(q) /\ \A x \in Range(q) : x < N
    BY <1>9, <1>11, <2>2 DEF FInv, Accounted, LInv, Applied
  <2>4. w \in Seq(Files) /\ Range(w) = Range(q) \cup {N} /\ Sorted(w)
    BY <1>8, <2>2, <2>3, RowAdded
  <2> QED BY <2>1, <2>2, <2>4 DEF Applied
<1>18. TxGone \/ (tx'.open /\ Range(tx'.hist) = Applied \cup {N})
  BY <1>17
<1>19. Chained' = Applied \cup {N}
  BY <1>8, <1>9, <1>11, <1>18, RangeEmpty DEF Chained, TxGone
<1>20. Explained'
  <2>1. tx'.open => Reached(h, Applied \cup {N}, Range(tx'.hist), tx'.schema)
    BY <1>16, <1>17 DEF TxGone
  <2>2. schema' = schema
    BY DEF Publish
  <2> QED BY <1>11, <1>16, <1>19, <2>1, <2>2 DEF Explained
<1>21. Sorted(tx'.hist)
  BY <1>17 DEF TxGone, Sorted
<1>22. TxGone \/ (tx'.open /\ Range(tx'.hist) = Applied \cup NextFile..(NextFile + 1 - 1))
  BY <1>2, <1>4, <1>18
<1> QED BY <1>1, <1>6, <1>20, <1>21, <1>22, PublishKept

\* An import publishes two files in one transaction.
LEMMA TwoPublished ==
    ASSUME FInv, RInv, NEW a \in Actors, NEW m, NEW n, m # Blank, n # Blank, NextFile + 1 <= MaxFiles,
           Publish(a, <<m, n>>), pc[a] = "locked", Holds(a), op' = op,
           op[a] = "import", \A b \in Actors : Holds(b)' => b = a,
           schema \in Schemas => Fits(m, schema),
           up(m, schema) \in Schemas => Fits(n, up(m, schema)),
           tx'.open, tx'.hist = hist \o <<NextFile, NextFile + 1>>,
           tx'.schema = up(n, up(m, schema))
    PROVE  linear' => LInv'
<1>1. SUFFICES ASSUME linear' PROVE LInv'
  OBVIOUS
<1>2. PICK N, M : N = NextFile /\ M = N + 1
  OBVIOUS
<1>3. PICK l \in 0..MaxFiles : Generated = 1..l /\ l \in Nat /\ NextFile = l + 1
  BY NextNumber
<1>4. l \in Nat /\ N = l + 1 /\ N..(N + 2 - 1) = {N, M} /\ MaxFiles \in Nat /\ N \in Nat
  <2>1. l \in Nat /\ N = l + 1 /\ MaxFiles \in Nat
    BY <1>2, <1>3, MigrationsAssumption
  <2> QED BY <1>2, <2>1
<1>5. PICK ch : ch = <<m, n>>
  OBVIOUS
<1>6. /\ DOMAIN ch = 1..2 /\ (\A i \in 1..2 : ch[i] # Blank) /\ NextFile + 2 - 1 <= MaxFiles
      /\ Publish(a, ch) /\ ch[1] = m /\ ch[2] = n /\ 2 \in 1..2
  BY <1>2, <1>4, <1>5
<1>7. /\ NextFile \in Files /\ disk' = disk \cup NextFile..(NextFile + 2 - 1)
      /\ \A f \in Generated : content'[f] = content[f]
      /\ \A f \in NextFile..(NextFile + 2 - 1) : content'[f] = ch[f - NextFile + 1]
      /\ hist' = hist
  BY <1>6, FreshFiles
<1>8. N \in Files /\ M \in Files /\ disk' = disk \cup {N, M} /\ content'[N] = m /\ content'[M] = n
  <2>1. N - N + 1 = 1 /\ M - N + 1 = 2 /\ M \in Files
    BY <1>2, <1>4 DEF Files
  <2>2. \A f \in {N, M} : content'[f] = ch[f - N + 1]
    BY <1>2, <1>4, <1>7
  <2>3. content'[N] = m /\ content'[M] = n
    BY <1>6, <2>1, <2>2
  <2> QED BY <1>2, <1>4, <1>7, <2>1, <2>3
<1>9. /\ disk \subseteq Applied /\ Range(tx.hist) = {} /\ LInv /\ schema \in Schemas
      /\ \E g : Chain(g, Applied, content) /\ Reached(g, Applied, Applied, schema)
  BY <1>1, NothingPending
<1>10. PICK g : Chain(g, Applied, content) /\ Reached(g, Applied, Applied, schema)
  BY <1>9
<1>11. Applied \subseteq Files /\ Applied \subseteq Generated /\ Applied' = Applied
       /\ \A x \in Applied : x < N
  <2>1. Applied \subseteq Generated /\ Generated \subseteq Files /\ Applied' = Applied
    BY <1>7 DEF FInv, Accounted, Applied, Generated
  <2>2. \A x \in 1..l : x < N
    BY <1>4
  <2> QED BY <1>3, <2>1, <2>2
<1>12. PICK C, E, B : C = Applied /\ E = content' /\ B = C \cup {N}
  OBVIOUS
<1>13. schema = g[N - 1]
  BY <1>8, <1>10, <1>11, AtEnd
<1>14. Fits(E[N], g[N - 1]) /\ \A f \in C : E[f] = content[f]
  BY <1>7, <1>8, <1>9, <1>11, <1>12, <1>13
<1>15. PICK h : /\ Chain(h, B, E)
                /\ \A A, s : Reached(g, C, A, s) => Reached(h, B, A, s)
                /\ Reached(h, B, B, up(E[N], g[N - 1]))
  <2>1. PICK h : /\ Chain(h, C \cup {N}, E)
                 /\ \A A, s : Reached(g, C, A, s) => Reached(h, C \cup {N}, A, s)
                 /\ Reached(h, C \cup {N}, C \cup {N}, up(E[N], g[N - 1]))
    <3>1. PICK D : D = content
      OBVIOUS
    <3>2. /\ Chain(g, C, D) /\ C \subseteq Files /\ (\A x \in C : x < N)
          /\ \A f \in C : E[f] = D[f]
      BY <1>10, <1>11, <1>12, <1>14, <3>1
    <3>3. N \in Files /\ Fits(E[N], g[N - 1])
      BY <1>8, <1>14
    <3> QED BY <3>2, <3>3, Grown
  <2> QED BY <1>12, <2>1
<1>16. Reached(h, B, B, up(m, schema)) /\ up(m, schema) \in Schemas
  <2>1. Reached(h, B, B, up(m, schema))
    BY <1>8, <1>12, <1>13, <1>15
  <2> QED BY <1>15, <2>1 DEF Reached, Chain
<1>17. B \subseteq Files /\ \A x \in B : x < M
  BY <1>2, <1>4, <1>8, <1>11, <1>12 DEF Files
<1>18. up(m, schema) = h[M - 1]
  BY <1>8, <1>15, <1>16, <1>17, AtEnd
<1>19. Fits(E[M], h[M - 1]) /\ \A f \in B : E[f] = E[f]
  BY <1>8, <1>12, <1>16, <1>18
<1>20. PICK k : /\ Chain(k, B \cup {M}, E)
                /\ \A A, s : Reached(h, B, A, s) => Reached(k, B \cup {M}, A, s)
                /\ Reached(k, B \cup {M}, B \cup {M}, up(E[M], h[M - 1]))
  BY <1>8, <1>15, <1>17, <1>19, Grown
<1>21. PICK K : K = B \cup {M}
  OBVIOUS
<1>22. /\ Chain(k, K, content') /\ Reached(k, K, Applied, schema)
       /\ Reached(k, K, K, up(n, up(m, schema)))
  BY <1>8, <1>10, <1>12, <1>15, <1>18, <1>20, <1>21
<1>23. K = Applied \cup {N, M}
  BY <1>12, <1>21
<1>24. Range(tx'.hist) = K /\ Sorted(tx'.hist)
  <2>1. PICK q, v, w : q = hist /\ v = Append(q, N) /\ w = Append(v, M)
    OBVIOUS
  <2>2. q \in Seq(Files) /\ Sorted(q) /\ \A x \in Range(q) : x < N
    BY <1>9, <1>11, <2>1 DEF FInv, Accounted, LInv, Applied
  <2>3. v \in Seq(Files) /\ Range(v) = Range(q) \cup {N} /\ Sorted(v)
    BY <1>8, <2>1, <2>2, RowAdded
  <2>4. \A x \in Range(v) : x < M
    BY <1>12, <1>17, <2>1, <2>3 DEF Applied
  <2>5. w \in Seq(Files) /\ Range(w) = Range(v) \cup {M} /\ Sorted(w)
    BY <1>8, <2>1, <2>3, <2>4, RowAdded
  <2>6. tx'.hist = w
    <3>1. q \o <<N, M>> = Append(Append(q, N), M)
      BY <1>8, <2>2
    <3> QED BY <1>2, <2>1, <3>1
  <2> QED BY <1>23, <2>1, <2>3, <2>5, <2>6 DEF Applied
<1>25. Chained' = K
  BY <1>8, <1>9, <1>11, <1>23, <1>24 DEF Chained
<1>26. Explained'
  <2>1. schema' = schema
    BY DEF Publish
  <2> QED BY <1>11, <1>22, <1>24, <1>25, <2>1 DEF Explained
<1>27. tx'.open /\ Range(tx'.hist) = Applied \cup NextFile..(NextFile + 2 - 1)
  BY <1>2, <1>4, <1>23, <1>24
<1> QED BY <1>1, <1>6, <1>24, <1>26, <1>27, PublishKept

\* A change of a collection publishes its file before the transaction ends.
LEMMA GenerateReplay ==
    ASSUME FInv, RInv, NEW a \in Actors,
           \/ CreateCollection(a) \/ UpdateCollection(a) \/ DeleteCollection(a)
           \/ _import_collections_impl(a) \/ ImportFails(a) \/ create_migration_snapshot(a)
    PROVE  RInv'
<1>0. \A m : m.kind # "blank" => m # Blank
  BY DEF Blank
<1>1. ASSUME NEW s, NEW m \in Mutations(s)
      PROVE  m # Blank /\ (s \in Schemas => Fits(m, s) /\ up(m, s) = Changed(m, s))
  <2>1. m.kind # "blank"
    BY DEF Mutations, Creations, Updates, Deletions, generate_create_migration,
           generate_update_migration, generate_delete_migration
  <2> QED BY <1>0, <2>1, MutationsFit
<1>2. ASSUME NEW changes \in SUBSET Mutations(schema), Mutate(a, changes) PROVE RInv'
  <2>1. PICK m \in changes :
          /\ Publish(a, <<m>>)
          /\ tx' = [open |-> TRUE, committing |-> FALSE, schema |-> Changed(m, schema),
                    hist |-> Append(hist, NextFile)]
    BY <1>2 DEF Mutate
  <2>2. /\ pc[a] = "locked" /\ op[a] = "mutate" /\ Holds(a) /\ NextFile <= MaxFiles
        /\ pc' = [pc EXCEPT ![a] = "commit"] /\ UNCHANGED <<lock, attached, op, todo>>
    BY <1>2 DEF Mutate
  <2>3. PICK s, h : s = Changed(m, schema) /\ h = Append(hist, NextFile)
    OBVIOUS
  <2>4. tx' = [open |-> TRUE, committing |-> FALSE, schema |-> s, hist |-> h]
    BY <2>1, <2>3
  <2>5. /\ Guarded' /\ (\A b \in Actors : Holds(b)' => b = a) /\ tx'.open
        /\ tx'.hist = h /\ tx'.schema = s
    BY <2>2, <2>4, OpenGuard
  <2>6. m # Blank /\ (schema \in Schemas => Fits(m, schema) /\ up(m, schema) = Changed(m, schema))
    BY <1>1
  <2>7. linear' => LInv'
    <3>1. SUFFICES ASSUME linear' PROVE linear' => LInv'
      OBVIOUS
    <3>2. schema \in Schemas
      BY <2>1, <2>2, <3>1, NothingPending
    <3>3. tx'.open /\ tx'.hist = Append(hist, NextFile) /\ tx'.schema = up(m, schema)
      BY <2>3, <2>5, <2>6, <3>2
    <3> QED BY <2>1, <2>2, <2>5, <2>6, <3>3, OnePublished
  <2> QED BY <2>5, <2>7 DEF RInv
<1>3. CASE CreateCollection(a) \/ UpdateCollection(a) \/ DeleteCollection(a)
  BY <1>2, <1>3 DEF CreateCollection, UpdateCollection, DeleteCollection, Mutations
<1>4. CASE _import_collections_impl(a)
  <2>1. PICK m \in Mutations(schema) : \E n \in Mutations(Changed(m, schema)) :
          /\ Publish(a, <<m, n>>)
          /\ tx' = [open |-> TRUE, committing |-> FALSE,
                    schema |-> Changed(n, Changed(m, schema)),
                    hist |-> hist \o <<NextFile, NextFile + 1>>]
    BY <1>4 DEF _import_collections_impl
  <2>2. PICK n \in Mutations(Changed(m, schema)) :
          /\ Publish(a, <<m, n>>)
          /\ tx' = [open |-> TRUE, committing |-> FALSE,
                    schema |-> Changed(n, Changed(m, schema)),
                    hist |-> hist \o <<NextFile, NextFile + 1>>]
    BY <2>1
  <2>3. /\ pc[a] = "locked" /\ op[a] = "import" /\ Holds(a) /\ NextFile < MaxFiles
        /\ pc' = [pc EXCEPT ![a] = "commit"] /\ UNCHANGED <<lock, attached, op, todo>>
    BY <1>4 DEF _import_collections_impl
  <2>4. PICK s, h : s = Changed(n, Changed(m, schema)) /\ h = hist \o <<NextFile, NextFile + 1>>
    OBVIOUS
  <2>5. tx' = [open |-> TRUE, committing |-> FALSE, schema |-> s, hist |-> h]
    BY <2>2, <2>4
  <2>6. /\ Guarded' /\ (\A b \in Actors : Holds(b)' => b = a) /\ tx'.open
        /\ tx'.hist = h /\ tx'.schema = s
    BY <2>3, <2>5, OpenGuard
  <2>7. linear' => LInv'
    <3>1. SUFFICES ASSUME linear' PROVE linear' => LInv'
      OBVIOUS
    <3>2. schema \in Schemas
      <4>1. PICK ch : ch = <<m, n>>
        OBVIOUS
      <4> QED BY <2>2, <2>3, <3>1, <4>1, NothingPending
    <3>3. m # Blank /\ Fits(m, schema) /\ up(m, schema) = Changed(m, schema) /\ up(m, schema) \in Schemas
      BY <1>1, <3>2, UpDown
    <3>4. n # Blank /\ Fits(n, up(m, schema)) /\ up(n, up(m, schema)) = s
      <4>1. PICK u : u = Changed(m, schema)
        OBVIOUS
      <4>2. n \in Mutations(u) /\ u \in Schemas
        BY <3>3, <4>1
      <4>3. n # Blank /\ Fits(n, u) /\ up(n, u) = Changed(n, u)
        BY <1>1, <4>2
      <4> QED BY <2>4, <3>3, <4>1, <4>3
    <3>5. NextFile + 1 <= MaxFiles
      <4>1. PICK l \in 0..MaxFiles : l \in Nat /\ NextFile = l + 1
        BY NextNumber
      <4>2. NextFile \in Nat /\ MaxFiles \in Nat
        BY <4>1, MigrationsAssumption
      <4> QED BY <2>3, <4>2
    <3>6. tx'.open /\ tx'.hist = hist \o <<NextFile, NextFile + 1>> /\ tx'.schema = up(n, up(m, schema))
      BY <2>4, <2>6, <3>4
    <3> QED BY <2>2, <2>3, <2>6, <3>3, <3>4, <3>5, <3>6, TwoPublished
  <2> QED BY <2>6, <2>7 DEF RInv
<1>5. CASE ImportFails(a)
  <2>1. PICK m \in Mutations(schema) : Publish(a, <<m>>)
    BY <1>5 DEF ImportFails
  <2>2. /\ pc[a] = "locked" /\ op[a] = "import" /\ Holds(a) /\ NextFile <= MaxFiles
        /\ FreeLock(a) /\ pc' = [pc EXCEPT ![a] = "cleanup"] /\ UNCHANGED <<op, todo>>
    BY <1>5 DEF ImportFails
  <2>3. lock = a /\ ~tx.committing
    BY <2>2, NoneOpen
  <2>4. lock' = NoOne /\ attached' = FALSE /\ tx' = NoTx
    BY <2>2, <2>3 DEF FreeLock
  <2>5. TxGone /\ ~tx'.committing /\ \A b \in Actors : ~Holds(b)'
    BY <2>4 DEF NoTx, TxGone, Holds
  <2>6. Guarded'
    BY <2>2, <2>4, <2>5 DEF RInv, Guarded, TxGone
  <2>7. m # Blank /\ (schema \in Schemas => Fits(m, schema))
    BY <1>1
  <2>8. linear' => LInv'
    BY <2>1, <2>2, <2>5, <2>7, OnePublished
  <2> QED BY <2>6, <2>8 DEF RInv
<1>6. CASE create_migration_snapshot(a)
  <2>1. /\ Publish(a, <<generate_snapshot_migration(schema)>>)
        /\ tx' = [open |-> TRUE, committing |-> FALSE, schema |-> schema,
                  hist |-> Append(hist, NextFile)]
        /\ pc[a] = "locked" /\ op[a] = "snapshot" /\ Holds(a) /\ NextFile <= MaxFiles
        /\ pc' = [pc EXCEPT ![a] = "commit"] /\ UNCHANGED <<lock, attached, op, todo>>
    BY <1>6 DEF create_migration_snapshot
  <2>2. PICK m, s, h : m = generate_snapshot_migration(schema) /\ s = schema /\ h = Append(hist, NextFile)
    OBVIOUS
  <2>3. m.kind = "snapshot" /\ m.all = schema /\ Publish(a, <<m>>)
    BY <2>1, <2>2 DEF generate_snapshot_migration
  <2>4. tx' = [open |-> TRUE, committing |-> FALSE, schema |-> s, hist |-> h]
    BY <2>1, <2>2
  <2>5. /\ Guarded' /\ (\A b \in Actors : Holds(b)' => b = a) /\ tx'.open
        /\ tx'.hist = h /\ tx'.schema = s
    <3>1. /\ Holds(a) /\ UNCHANGED <<lock, attached, todo>> /\ pc' = [pc EXCEPT ![a] = "commit"]
      BY <2>1
    <3> QED BY <2>4, <3>1, OpenGuard
  <2>6. m # Blank /\ Fits(m, schema)
    BY <1>0, <2>3 DEF Fits
  <2>7. linear' => LInv'
    <3>1. SUFFICES ASSUME linear' PROVE linear' => LInv'
      OBVIOUS
    <3>2. schema \in Schemas
      BY <2>1, <3>1, NothingPending
    <3>3. up(m, schema) = schema
      BY <2>3, <3>2 DEF up, save_collection, Schemas
    <3>4. tx'.open /\ tx'.hist = Append(hist, NextFile) /\ tx'.schema = up(m, schema)
      BY <2>2, <2>5, <3>3
    <3> QED BY <2>1, <2>3, <2>5, <2>6, <3>4, OnePublished
  <2> QED BY <2>5, <2>7 DEF RInv
<1> QED BY <1>3, <1>4, <1>5, <1>6

\* At the start at most one hand-written file waits for an empty database.
LEMMA ReplayInit == Init => RInv
<1>1. SUFFICES ASSUME Init PROVE RInv
  OBVIOUS
<1>2. /\ hist = <<>> /\ schema = Empty /\ lock = NoOne /\ attached = FALSE /\ tx = NoTx
      /\ todo = [a \in Actors |-> <<>>] /\ mine = [a \in Actors |-> {}]
  BY <1>1 DEF Init, Empty
<1>3. tx.hist = <<>> /\ ~tx.open /\ ~tx.committing
  BY <1>2 DEF NoTx
<1>4. Applied = {} /\ Range(tx.hist) = {} /\ Chained = disk
  BY <1>2, <1>3, RangeEmpty DEF Applied, Chained
<1>5. \A a \in Actors : ~Holds(a)
  BY <1>2 DEF Holds
<1>6. Guarded
  BY <1>2, <1>3, <1>5 DEF Guarded
<1>7. PICK first \in {Blank} \cup {m \in Change : m.kind = "create" /\ m.old = Absent /\ m.new = Fresh} :
          /\ content = [f \in Files |-> IF f = 1 THEN first ELSE Blank]
          /\ disk = IF first = Blank THEN {} ELSE {1}
  BY <1>1 DEF Init
<1>8. MaxFiles \in Nat /\ 1 \in Files /\ content[1] = first /\ \A f \in Files : f \in 1..MaxFiles
  BY <1>7, MigrationsAssumption DEF Files
<1>9. Empty \in Schemas
  BY DEF Empty, Schemas
<1>10. PICK e : e = [i \in 0..MaxFiles |-> Empty]
  OBVIOUS
<1>11. /\ \A i \in 0..MaxFiles : e[i] = Empty
       /\ Chain(e, {}, content) /\ Reached(e, {}, {}, Empty)
  <2>1. e \in [0..MaxFiles -> Schemas] /\ \A i \in 0..MaxFiles : e[i] = Empty
    BY <1>9, <1>10
  <2>2. \A f \in Files : f \in 0..MaxFiles /\ f - 1 \in 0..MaxFiles
    BY <1>8
  <2>3. Chain(e, {}, content)
    BY <1>8, <2>1, <2>2 DEF Chain
  <2> QED BY <1>8, <2>1, <2>3 DEF Reached
<1>12. Explained
  <2>1. CASE first = Blank
    BY <1>2, <1>3, <1>4, <1>7, <1>11, <2>1 DEF Explained
  <2>2. CASE first # Blank
    <3>1. disk = {1} /\ first \in Change /\ first.kind = "create" /\ first.new = Fresh
      BY <1>7, <2>2
    <3>2. Fresh \in Defs
      <4>1. (CHOOSE v \in Vals : TRUE) \in Vals
        BY MigrationsAssumption
      <4> QED BY <4>1 DEF Fresh, Defs
    <3>3. first.coll \in Colls
      BY <3>1 DEF Change
    <3>4. Fits(content[1], e[1 - 1])
      BY <1>8, <1>11, <3>1, <3>2, <3>3 DEF Fits, Empty
    <3>5. PICK C, N, D : C = {} /\ N = 1 /\ D = content
      OBVIOUS
    <3>6. PICK h : /\ Chain(h, C \cup {N}, D)
                   /\ \A A, s : Reached(e, C, A, s) => Reached(h, C \cup {N}, A, s)
      <4>1. /\ Chain(e, C, D) /\ C \subseteq Files /\ N \in Files /\ (\A x \in C : x < N)
            /\ (\A f \in C : D[f] = D[f]) /\ Fits(D[N], e[N - 1])
        BY <1>8, <1>11, <3>4, <3>5
      <4> QED BY <4>1, Grown
    <3>7. Chain(h, {1}, content) /\ Reached(h, {1}, {}, Empty)
      BY <1>11, <3>5, <3>6
    <3> QED BY <1>2, <1>3, <1>4, <3>1, <3>7 DEF Explained
  <2> QED BY <2>1, <2>2
<1>13. Backed /\ Sorted(hist) /\ Sorted(tx.hist)
  BY <1>2, <1>3, <1>4 DEF Backed, Sorted
<1>14. \A a \in Actors : Newest(a) /\ Plan(a)
  BY <1>2, <1>5 DEF Newest, Plan
<1> QED BY <1>6, <1>12, <1>13, <1>14 DEF RInv, LInv

\* Every step keeps the invariant.
LEMMA ReplayNext ==
    ASSUME FInv, RInv, [Next]_vars PROVE RInv'
<1>1. CASE \E a \in Actors : ActorStep(a)
  BY <1>1, RequestsReplay, ListReplay, SessionReplay, UnlinkReplay, RunReplay, GenerateReplay DEF ActorStep
<1>2. CASE CommitLands \/ CommitAborts
  BY <1>2, CommitReplay
<1>3. CASE UNCHANGED vars
  <2>1. UNCHANGED <<disk, content, hist, schema, lock, attached, tx, pc, op, todo, mine, linear>>
    BY <1>3 DEF vars
  <2>2. Applied' = Applied /\ Chained' = Chained /\ (\A a \in Actors : Holds(a)' <=> Holds(a))
    BY <2>1 DEF Applied, Chained, Holds
  <2>3. Guarded'
    BY <2>1, <2>2 DEF RInv, Guarded
  <2>4. ASSUME LInv PROVE LInv'
    <3>1. Explained' /\ Backed' /\ Sorted(hist)' /\ Sorted(tx.hist)'
      BY <2>1, <2>2, <2>4 DEF LInv, Explained, Backed, Sorted
    <3>2. \A a \in Actors : Newest(a)'
      BY <2>1, <2>2, <2>4 DEF LInv, Newest
    <3>3. ASSUME NEW a \in Actors PROVE Plan(a)'
      BY <2>1, <2>2, <2>4, PlanKept DEF LInv
    <3> QED BY <3>1, <3>2, <3>3 DEF LInv
  <2> QED BY <2>1, <2>3, <2>4 DEF RInv
<1> QED BY <1>1, <1>2, <1>3 DEF Next

\* Replaying the recorded files one by one follows the chain.
LEMMA Replays ==
    ASSUME FInv, RInv PROVE ReplayReproduces
<1>0. MaxFiles \in Nat /\ Files = 1..MaxFiles
  BY MigrationsAssumption DEF Files
<1>1. SUFFICES ASSUME LInv PROVE Replay = schema
  BY DEF ReplayReproduces, RInv
<1>2. PICK g : Chain(g, Chained, content) /\ Reached(g, Chained, Applied, schema)
  BY <1>1 DEF LInv, Explained
<1>3. PICK n \in 0..MaxFiles : Applied = Chained \cap (1..n) /\ schema = g[n]
  BY <1>2 DEF Reached
<1> DEFINE Step(r, f) == IF f = 0 THEN Empty
                         ELSE IF f \notin Applied THEN r[f - 1]
                         ELSE IF r[f - 1] # Absent /\ CanUp(content[f], r[f - 1])
                              THEN up(content[f], r[f - 1])
                         ELSE Absent
           w == [f \in 0..MaxFiles |-> IF f <= n THEN g[f] ELSE g[n]]
<1>4. /\ w \in [0..MaxFiles -> Schemas]
      /\ \A f \in 0..MaxFiles : w[f] = IF f <= n THEN g[f] ELSE g[n]
  BY <1>2, <1>3 DEF Chain
<1>5. w[MaxFiles] = schema
  BY <1>0, <1>3
<1> HIDE DEF w
<1>6. ASSUME NEW f \in 0..MaxFiles PROVE w[f] = Step(w, f)
  <2>1. CASE f = 0
    BY <1>0, <1>2, <1>3, <1>4, <2>1 DEF Chain
  <2>2. CASE f # 0
    <3>0. f \in Files /\ f - 1 \in 0..MaxFiles /\ w[f - 1] \in Schemas
      BY <1>0, <1>4, <2>2
    <3>1. CASE f \in Applied
      <4>1. f \in Chained /\ f <= n /\ f - 1 <= n
        BY <1>0, <1>3, <3>0, <3>1
      <4>2. w[f] = g[f] /\ w[f - 1] = g[f - 1]
        BY <1>4, <3>0, <4>1
      <4>3. Fits(content[f], w[f - 1]) /\ w[f] = up(content[f], w[f - 1])
        BY <1>2, <3>0, <4>1, <4>2 DEF Chain
      <4>4. CanUp(content[f], w[f - 1]) /\ w[f - 1] # Absent
        BY <3>0, <4>3, UpDown, AbsentAssumption
      <4> QED BY <2>2, <3>1, <4>3, <4>4
    <3>2. CASE f \notin Applied
      <4>1. w[f] = w[f - 1]
        <5>1. CASE f <= n
          <6>1. f \notin Chained /\ f - 1 <= n
            BY <1>0, <1>3, <3>0, <3>2, <5>1
          <6>2. g[f] = g[f - 1]
            BY <1>2, <3>0, <6>1 DEF Chain
          <6> QED BY <1>4, <3>0, <5>1, <6>1, <6>2
        <5>2. CASE f > n
          <6>1. f - 1 <= n => f - 1 = n
            BY <1>0, <3>0, <5>2
          <6> QED BY <1>0, <1>4, <3>0, <5>2, <6>1
        <5> QED BY <1>0, <3>0, <5>1, <5>2
      <4> QED BY <2>2, <3>2, <4>1
    <3> QED BY <3>1, <3>2
  <2> QED BY <2>1, <2>2
<1>7. w = [f \in 0..MaxFiles |-> Step(w, f)]
  BY <1>4, <1>6
<1>8. replayed = CHOOSE r : r = [f \in 0..MaxFiles |-> Step(r, f)]
  BY DEF replayed, Empty
<1>9. replayed = [f \in 0..MaxFiles |-> Step(replayed, f)]
  BY <1>7, <1>8
<1>10. \A f \in 0..MaxFiles : replayed[f] = Step(replayed, f)
  BY <1>9
<1>11. replayed[MaxFiles] = w[MaxFiles]
  <2> DEFINE T == {f \in 0..MaxFiles : replayed[f] # w[f]}
  <2>1. SUFFICES ASSUME T # {} PROVE FALSE
    BY <1>0
  <2>2. T \in SUBSET Nat
    BY <1>0
  <2>3. PICK k \in T : \A l \in T : k <= l
    BY <2>1, <2>2, Least
  <2>4. k \in 0..MaxFiles /\ k # 0
    BY <1>6, <1>10, <2>3
  <2>5. k - 1 \in 0..MaxFiles /\ k - 1 \notin T
    BY <1>0, <2>3, <2>4
  <2>6. replayed[k - 1] = w[k - 1]
    BY <2>5
  <2> QED BY <1>6, <1>10, <2>3, <2>4, <2>6
<1> QED BY <1>5, <1>11 DEF Replay

\* The migrations directory reproduces the database, as long as no file was
\* generated while another was pending, none was reverted before its producer
\* had settled and none of a failed import was applied.
THEOREM ReplayStaysFaithful == Spec => []ReplayReproduces
<1>1. Init => FInv /\ RInv
  BY FilesInit, ReplayInit
<1>2. FInv /\ RInv /\ [Next]_vars => (FInv /\ RInv)'
  BY FilesNext, ReplayNext
<1> QED BY <1>1, <1>2, Replays, PTL DEF Spec
=============================================================================
