---------------------------- MODULE MCMigrations ----------------------------
(***************************************************************************)
(* What superusers administer: collections and their migrations            *)
(* (Migrations), their own accounts (Superusers), the accounts that sign   *)
(* in through a provider (OAuth2SignIn) and hook files (HookManager).  The *)
(* parts share no state, so a behaviour is about one of them: which one is *)
(* chosen in the initial state, the others stay in their own.              *)
(***************************************************************************)
EXTENDS Migrations, TLC

CONSTANTS Supers, Pws, Keys, Accounts, Identities, Emails, HookFiles, MaxBindings, NoRow, Idle

VARIABLES part,
          admins, setup, sessions, adminReq, spent, reused, raced,
          account, links, signIn, made, dropped,
          dir, files, bound, disabled, served, saved, patch, strays, unsaved

superusers == <<admins, setup, sessions, adminReq, spent, reused, raced>>
oauth2 == <<account, links, signIn, made, dropped>>
hooks == <<dir, files, bound, disabled, served, saved, patch, strays, unsaved>>

S == INSTANCE Superusers WITH
    Requests <- Actors, row <- admins, session <- sessions, req <- adminReq
O == INSTANCE OAuth2SignIn WITH
    Requests <- Actors, Users <- Accounts, row <- account, req <- signIn
H == INSTANCE HookManager WITH
    Requests <- Actors, Files <- HookFiles, Nothing <- NoRow, req <- patch

\* Superusers are finitely many, and the words for "none" are no values.
ASSUME AdministrationAssumption ==
    /\ IsFiniteSet(Supers)
    /\ NoRow \notin Keys \cup Accounts \cup Emails \cup S!Row
    /\ Idle \notin S!Request \cup O!Request
    /\ NoRow \notin H!Source \cup H!FileState \cup H!Handler \cup H!Request
    /\ \A D \in SUBSET HookFiles : NoRow # D

NoAccounts ==
    /\ account = [i \in Accounts |-> NoRow] /\ links = [p \in Identities |-> NoRow]
    /\ signIn = [r \in Actors |-> Idle] /\ made = {} /\ dropped = FALSE

AdministrationInit ==
    /\ part \in {"migrations", "superusers", "oauth2", "hooks"}
    /\ Init /\ S!Init /\ H!Init
    /\ part # "migrations" => disk = {}
    /\ part # "hooks" => dir = [f \in HookFiles |-> NoRow]
    /\ IF part = "oauth2" THEN O!Init ELSE NoAccounts

AdministrationNext ==
    \/ part = "migrations" /\ Next /\ UNCHANGED <<part, superusers, oauth2, hooks>>
    \/ part = "superusers" /\ S!Next /\ UNCHANGED <<part, vars, oauth2, hooks>>
    \/ part = "oauth2" /\ O!Next /\ UNCHANGED <<part, vars, superusers, hooks>>
    \/ part = "hooks" /\ H!Next /\ UNCHANGED <<part, vars, superusers, oauth2>>

AdministrationSpec ==
    AdministrationInit /\ [][AdministrationNext]_<<part, vars, superusers, oauth2, hooks>>

Sym == Permutations(Actors) \cup Permutations(Colls)

\* A change of a superuser's password (update_admin) ends the sessions that go
\* back to the old one, the setup token that created a superuser (init_admin)
\* is refused to every request that reads it later, delete_admin leaves a
\* superuser, unless two deletions overlapped, and link_or_create_oauth_user
\* links every account it created, unless it was cut off or another sign-in
\* linked the identity first.
AccountsAreSound ==
    /\ S!SuperuserSessions /\ S!SetupTokenOnce /\ S!AdminRemains
    /\ O!MadeIsLinked

\* A handler that runs belongs to an enabled file that can take it away again,
\* a file reported as loaded has its routes served, and a disabled hook is
\* still disabled after a restart (rescan, _load_file, disable_hook,
\* _persist_hooks_runtime).
HooksAreSound == H!HandlersAreOwned /\ H!LoadedIsServed /\ H!DisabledSurvives
=============================================================================
