---------------------------- MODULE OAuth2SignIn ----------------------------
(***************************************************************************)
(* Sign-in with an OAuth2 provider (services/oauth2_service.py,            *)
(* api/record_auth.py).  An identity of the provider is linked to a record *)
(* by a row of _externalAuths, unique for the identity.  The record is     *)
(* found by its link, then by its address, or created; create_record       *)
(* commits on a connection of its own before the link is inserted.         *)
(***************************************************************************)
EXTENDS Integers, FiniteSets

CONSTANTS Users,      \* record ids, chosen when a record is created
          Identities, \* accounts at the provider
          Emails,
          Requests, NoRow, Idle

VARIABLES row,     \* address of each record
          links,   \* _externalAuths
          req,
          made,    \* history: records created by a sign-in that has ended
          dropped  \* history: a sign-in that created a record could not link it

vars == <<row, links, req, made, dropped>>

Request == [identity : Identities, email : Emails, id : Users \cup {NoRow},
            at : {"linked", "link", "create"}, new : BOOLEAN]

ByEmail(e) == {i \in Users : row[i] = e}

Begin(r, p, e, i, at) ==
    req' = [req EXCEPT ![r] = [identity |-> p, email |-> e, id |-> i, at |-> at, new |-> FALSE]]
End(r) == req' = [req EXCEPT ![r] = Idle]
At(r, at) == req[r] # Idle /\ req[r].at = at

\* exchange_code and get_user_info: the provider may report another address
\* than last time.
get_user_info == Identities \X Emails

\* First statements: the link, then the address.
api_auth_with_oauth2(r) ==
    /\ req[r] = Idle
    /\ \E info \in get_user_info : LET p == info[1] e == info[2] IN
          \/ /\ links[p] # NoRow /\ row[links[p]] # NoRow
             /\ Begin(r, p, e, links[p], "linked")
          \/ /\ links[p] = NoRow
             /\ \E i \in ByEmail(e) : Begin(r, p, e, i, "link")
          \/ /\ links[p] = NoRow /\ ByEmail(e) = {}
             /\ Begin(r, p, e, NoRow, "create")
    /\ UNCHANGED <<row, links, made, dropped>>

\* A record with a generated password; the address index may refuse it.
create_oauth_record(r) ==
    /\ At(r, "create")
    /\ IF ByEmail(req[r].email) = {}
       THEN \E i \in Users :
               /\ row[i] = NoRow /\ i \notin {links[p] : p \in Identities}
               /\ \A q \in Requests : req[q] # Idle => req[q].id # i
               /\ row' = [row EXCEPT ![i] = req[r].email]
               /\ req' = [req EXCEPT ![r].id = i, ![r].at = "link", ![r].new = TRUE]
       ELSE End(r) /\ UNCHANGED row
    /\ UNCHANGED <<links, made, dropped>>

\* INSERT of the link; the unique identity refuses it when another sign-in
\* was first, and the request fails.
link_or_create_oauth_user(r) ==
    /\ At(r, "link")
    /\ links' = [links EXCEPT ![req[r].identity] = IF @ = NoRow THEN req[r].id ELSE @]
    /\ made' = IF req[r].new THEN made \cup {req[r].id} ELSE made
    /\ dropped' = (dropped \/ (req[r].new /\ links[req[r].identity] # NoRow))
    /\ End(r)
    /\ UNCHANGED row

\* authRule, generate_record_auth_token on the row as it is now.
Finish(r) ==
    /\ At(r, "linked") /\ End(r)
    /\ UNCHANGED <<row, links, made, dropped>>

\* The request is cancelled or the process dies between two statements.
Abort(r) ==
    /\ req[r] # Idle /\ End(r)
    /\ dropped' = (dropped \/ req[r].new)
    /\ UNCHANGED <<row, links, made>>

\* Deleting a record leaves the rows of _externalAuths alone.
delete_record(i) ==
    /\ row[i] # NoRow
    /\ row' = [row EXCEPT ![i] = NoRow]
    /\ made' = made \ {i}
    /\ UNCHANGED <<links, req, dropped>>

\* The address index refuses an address another record has.
update_record(i) ==
    /\ row[i] # NoRow
    /\ \E e \in Emails : ByEmail(e) = {} /\ row' = [row EXCEPT ![i] = e]
    /\ UNCHANGED <<links, req, made, dropped>>

Init ==
    /\ \E u \in Users, e \in Emails : row = [i \in Users |-> IF i = u THEN e ELSE NoRow]
    /\ links = [p \in Identities |-> NoRow]
    /\ req = [r \in Requests |-> Idle]
    /\ made = {} /\ dropped = FALSE

Next ==
    \/ \E r \in Requests : \/ api_auth_with_oauth2(r) \/ create_oauth_record(r)
                           \/ link_or_create_oauth_user(r) \/ Finish(r) \/ Abort(r)
    \/ \E i \in Users : delete_record(i) \/ update_record(i)

Spec == Init /\ [][Next]_vars

\* An account made for an identity is reachable through a link afterwards,
\* unless the sign-in was cut off or lost the race to link it.
MadeIsLinked ==
    \A i \in made : i \in {links[p] : p \in Identities} \/ dropped
=============================================================================
