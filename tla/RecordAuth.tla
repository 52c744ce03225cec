----------------------------- MODULE RecordAuth -----------------------------
(***************************************************************************)
(* Sign-in, sessions and one-time credentials of auth records             *)
(* (api/record_auth.py, services/record_auth_service.py, auth_service.py,  *)
(* file_tokens.py, api/deps.py) for the records of one auth collection;    *)
(* Superusers and OAuth2SignIn model the others.  A token is signed with   *)
(* the token key of its record, so writing a new key ends every token signed   *)
(* with the old one.  A request reads the row, decides and writes in       *)
(* separate statements; nothing locks the row in between.                  *)
(***************************************************************************)
EXTENDS Integers, FiniteSets, FiniteSetsExt

CONSTANTS Users,      \* ids of an auth collection
          Emails, Pws,
          Keys,       \* token keys (a finite pool; a forgotten one is reused)
          Requests,   \* requests in flight
          MaxTokens,  \* bound: sessions, and mailed links, in circulation
          MaxOtps,    \* bound: rows of _otps
          NoRow, Idle

ASSUME RecordAuthAssumption ==
    /\ NoRow \notin Keys
    /\ NoRow \notin [email : Emails, verified : BOOLEAN, pw : Pws, key : Keys]
    /\ MaxTokens \in Nat /\ MaxOtps \in Nat

VARIABLES row,     \* the auth records
          otps,    \* rows of _otps
          tokens,  \* tokens that clients hold
          req,     \* requests between two statements, Idle when there is none
          spent,   \* history: one-time credentials already honoured
          reused   \* history: a credential read after it was spent was honoured

vars == <<row, otps, tokens, req, spent, reused>>

Row == [email : Emails, verified : BOOLEAN, pw : Pws, key : Keys]
Types == {"auth", "file", "verification", "passwordReset", "emailChange"}
Sessions == [type : {"auth", "file"}, id : Users, key : Keys, refreshable : BOOLEAN,
             pw : Pws,          \* history: the password the session goes back to
             raced : BOOLEAN]   \* history: renewed while the key changed
Links == [type : Types \ {"auth", "file"}, id : Users, key : Keys, email : Emails, new : Emails]
Otp == [n : 1..MaxOtps, id : Users, age : {"fresh", "cooled", "expired"}]
Lineages == [pw : Pws, raced : BOOLEAN]
Req == [op : {"refresh", "file", "otp request", "otp"} \cup (Types \ {"auth", "file"}),
        cred : Links \cup Otp \cup {NoRow}, id : Users,
        val : Lineages \cup Emails \cup Pws \cup {NoRow}, key : Keys \cup {NoRow}, late : BOOLEAN]
ASSUME IdleAssumption == Idle \notin Req

Exists(i) == row[i] # NoRow
UsedKeys ==
    {row[i].key : i \in {j \in Users : Exists(j)}} \cup {t.key : t \in tokens}
    \cup {req[r].key : r \in {q \in Requests : req[q] # Idle}}
\* generate_token_key: a value nobody holds.
generate_token_key == Keys \ UsedKeys

_get_raw_record_by_field(e) == {i \in Users : Exists(i) /\ row[i].email = e}

----------------------------------------------------------------------------
\* Tokens.

create_token(type, i, rec, refreshable, pw, late) ==
    [type |-> type, id |-> i, key |-> rec.key, refreshable |-> refreshable,
     pw |-> pw, raced |-> late]

create_record_auth_token(i, rec, refreshable, pw, late) ==
    create_token("auth", i, rec, refreshable, pw, late)

create_link_token(type, i, rec, new) ==
    [type |-> type, id |-> i, key |-> rec.key, email |-> rec.email, new |-> new]

\* Mutant: a mailed link serves for any purpose.
AnyLink(t, rec, type) ==
    rec # NoRow /\ t.key = rec.key /\ (t \in Links) = (type \notin {"auth", "file"})

\* Signed with the key the row has now, and made for this purpose.
verify_purpose_token(t, rec, type) ==
    rec # NoRow /\ t.key = rec.key /\ t.type = type

get_optional_auth(t) == verify_purpose_token(t, row[t.id], "auth")
verify_record_auth_token(t) == get_optional_auth(t)
verify_file_token(t) == verify_purpose_token(t, row[t.id], "file")
Issue(t) ==
    /\ tokens' = tokens \cup {t}
    /\ Cardinality({x \in tokens' : (x \in Sessions) = (t \in Sessions)}) <= MaxTokens

\* A token passes its expiry or its client forgets it.
TokenExpires ==
    \E t \in tokens :
        /\ tokens' = tokens \ {t}
        /\ spent' = spent \ {t}
        /\ UNCHANGED <<row, otps, req, reused>>

----------------------------------------------------------------------------
\* Requests of more than one statement: the first reads, the last writes.

Begin(r, op, cred, i, val) ==
    /\ req[r] = Idle
    /\ req' = [req EXCEPT ![r] =
                 [op |-> op, cred |-> cred, id |-> i, val |-> val,
                  key |-> IF op \in {"refresh", "file", "otp"} THEN row[i].key ELSE NoRow,
                  late |-> cred \in spent]]

End(r) == req' = [req EXCEPT ![r] = Idle]

Lineage(t) == [pw |-> t.pw, raced |-> t.raced]

\* The row changed its key while a session was being renewed.
Raced(r) == req[r].val.raced \/ row[req[r].id].key # req[r].key

\* A one-time credential was honoured.
Honour(r) ==
    /\ spent' = spent \cup ({req[r].cred} \cap (tokens \cup Otp))
    /\ reused' = (reused \/ req[r].late)

\* The record is gone, the authRule or a unique index refuses: no effect.
Refused(r) ==
    /\ req[r] # Idle
    /\ End(r)
    /\ UNCHANGED <<row, otps, tokens, spent, reused>>

\* UPDATE of some columns; a row deleted meanwhile is not recreated.
_update_record_columns(i, updates) ==
    /\ "email" \in DOMAIN updates =>
          _get_raw_record_by_field(updates.email) \subseteq {i}
    /\ row' = [row EXCEPT ![i] =
                 IF @ = NoRow THEN NoRow
                 ELSE [c \in DOMAIN @ |-> IF c \in DOMAIN updates THEN updates[c] ELSE @[c]]]

----------------------------------------------------------------------------
\* Sign-in with a password.  The token is made from the row that was read.

auth_with_password(i, e, pw) == Exists(i) /\ row[i].email = e /\ row[i].pw = pw

api_auth_with_password(r) ==
    /\ req[r] = Idle
    /\ \E i \in Users, pw \in Pws :
          /\ Exists(i) /\ auth_with_password(i, row[i].email, pw)
          /\ Issue(create_record_auth_token(i, row[i], TRUE, pw, FALSE))
    /\ UNCHANGED <<row, otps, req, spent, reused>>

impersonate_auth_record(i) ==
    create_record_auth_token(i, row[i], FALSE, row[i].pw, FALSE)

api_impersonate_record(r) ==
    /\ req[r] = Idle
    /\ \E i \in Users : Exists(i) /\ Issue(impersonate_auth_record(i))
    /\ UNCHANGED <<row, otps, req, spent, reused>>

\* The token is verified against the row, which auth_refresh reads again.
api_auth_refresh(r) ==
    \E t \in tokens :
        /\ verify_record_auth_token(t) /\ t.refreshable
        /\ Begin(r, "refresh", NoRow, t.id, Lineage(t))
        /\ UNCHANGED <<row, otps, tokens, spent, reused>>

auth_refresh(r) ==
    /\ req[r] # Idle /\ req[r].op = "refresh" /\ Exists(req[r].id)
    /\ LET i == req[r].id IN
       Issue(create_record_auth_token(i, row[i], TRUE, req[r].val.pw, Raced(r)))
    /\ End(r)
    /\ UNCHANGED <<row, otps, spent, reused>>

----------------------------------------------------------------------------
\* File tokens.

FileTokenAuth(r) ==
    \E t \in tokens :
        /\ get_optional_auth(t)
        /\ Begin(r, "file", NoRow, t.id, Lineage(t))
        /\ UNCHANGED <<row, otps, tokens, spent, reused>>

create_file_token_for_auth(r) ==
    /\ req[r] # Idle /\ req[r].op = "file" /\ Exists(req[r].id)
    /\ LET i == req[r].id
       IN Issue(create_token("file", i, row[i], FALSE, req[r].val.pw, Raced(r)))
    /\ End(r)
    /\ UNCHANGED <<row, otps, spent, reused>>

----------------------------------------------------------------------------
\* One-time passwords.

api_request_otp(r) ==
    \E e \in Emails : \E i \in _get_raw_record_by_field(e) :
        /\ ~\E o \in otps : o.id = i /\ o.age = "fresh"
        /\ Begin(r, "otp request", NoRow, i, NoRow)
        /\ UNCHANGED <<row, otps, tokens, spent, reused>>

\* Prune, insert, mail.
request_otp(r) ==
    /\ req[r] # Idle /\ req[r].op = "otp request"
    /\ LET i == req[r].id
           kept == {o \in otps : ~(o.id = i /\ o.age = "expired")}
           free == (1..MaxOtps) \ ({o.n : o \in otps}
                       \cup {req[q].cred.n : q \in {p \in Requests : req[p] # Idle /\ req[p].op = "otp"}})
       IN /\ free # {}
          /\ otps' = kept \cup {[n |-> Min(free), id |-> i, age |-> "fresh"]}
          /\ spent' = {c \in spent : c \notin Otp \/ c.n # Min(free)}
    /\ End(r)
    /\ UNCHANGED <<row, tokens, reused>>

OtpAges ==
    \E o \in otps :
        /\ o.age # "expired"
        /\ otps' = (otps \ {o}) \cup
                   {[o EXCEPT !.age = IF @ = "fresh" THEN "cooled" ELSE "expired"]}
        /\ UNCHANGED <<row, tokens, req, spent, reused>>

\* Reads the row of _otps, then the record; an expired row is removed.
api_auth_with_otp(r) ==
    \E o \in otps :
        IF o.age = "expired"
        THEN /\ req[r] = Idle
             /\ otps' = otps \ {o}
             /\ UNCHANGED <<row, tokens, req, spent, reused>>
        ELSE /\ Exists(o.id)
             /\ Begin(r, "otp", [o EXCEPT !.age = "fresh"], o.id, row[o.id].pw)
             /\ UNCHANGED <<row, otps, tokens, spent, reused>>

\* Mutant: the one-time password stays after its use.
OtpKept(r) ==
    /\ req[r] # Idle /\ req[r].op = "otp"
    /\ Issue(create_record_auth_token(req[r].id, req[r], TRUE, req[r].val, FALSE))
    /\ Honour(r) /\ End(r)
    /\ UNCHANGED <<row, otps>>

auth_with_otp(r) ==
    /\ req[r] # Idle /\ req[r].op = "otp"
    /\ otps' = {o \in otps : o.n # req[r].cred.n}
    /\ \/ /\ Issue(create_record_auth_token(req[r].id, req[r], TRUE, req[r].val, FALSE))
          /\ Honour(r)
       \/ UNCHANGED <<tokens, spent, reused>>     \* the authRule refuses
    /\ End(r)
    /\ UNCHANGED row

----------------------------------------------------------------------------
\* Links sent by mail.

Mail(type, i, new) ==
    /\ Issue(create_link_token(type, i, row[i], new))
    /\ UNCHANGED <<row, otps, req, spent, reused>>

request_verification(i) ==
    Exists(i) /\ ~row[i].verified /\ Mail("verification", i, row[i].email)

api_request_verification(r) == req[r] = Idle /\ \E i \in Users : request_verification(i)

request_password_reset(i) == Exists(i) /\ Mail("passwordReset", i, row[i].email)

api_request_password_reset(r) == req[r] = Idle /\ \E i \in Users : request_password_reset(i)

request_email_change(i, e) ==
    _get_raw_record_by_field(e) \subseteq {i} /\ Mail("emailChange", i, e)

api_request_email_change(r) ==
    /\ req[r] = Idle
    /\ \E t \in tokens, e \in Emails :
          verify_record_auth_token(t) /\ request_email_change(t.id, e)

Mailed == {t \in tokens : t.type \notin {"auth", "file"}}

\* The link is checked against the row that is read first.
OpenLink(r, type, t, val) ==
    /\ verify_purpose_token(t, row[t.id], type)
    /\ t.email = row[t.id].email
    /\ Begin(r, type, t, t.id, val)
    /\ UNCHANGED <<row, otps, tokens, spent, reused>>

api_confirm_verification(r) ==
    \E t \in Mailed : OpenLink(r, "verification", t, t.email)

confirm_verification(r) ==
    /\ req[r] # Idle /\ req[r].op = "verification"
    /\ _update_record_columns(req[r].id, [verified |-> TRUE])
    /\ End(r)
    /\ UNCHANGED <<otps, tokens, spent, reused>>

api_confirm_password_reset(r) ==
    \E t \in Mailed, pw \in Pws : OpenLink(r, "passwordReset", t, pw)

\* Mutant: a password reset does not rotate the token key.
ResetKeepsKey(r) ==
    /\ req[r] # Idle /\ req[r].op = "passwordReset"
    /\ _update_record_columns(req[r].id, [pw |-> req[r].val])
    /\ Honour(r) /\ End(r)
    /\ UNCHANGED <<otps, tokens>>

confirm_password_reset(r) ==
    /\ req[r] # Idle /\ req[r].op = "passwordReset"
    /\ \E k \in generate_token_key :
          _update_record_columns(req[r].id, [pw |-> req[r].val, key |-> k])
    /\ Honour(r) /\ End(r)
    /\ UNCHANGED <<otps, tokens>>

api_confirm_email_change(r) ==
    \E t \in Mailed, pw \in Pws :
        /\ Exists(t.id) /\ row[t.id].pw = pw
        /\ _get_raw_record_by_field(t.new) \subseteq {t.id}
        /\ OpenLink(r, "emailChange", t, t.new)

confirm_email_change(r) ==
    /\ req[r] # Idle /\ req[r].op = "emailChange"
    /\ \E k \in generate_token_key :
          _update_record_columns(req[r].id,
              [email |-> req[r].val, verified |-> TRUE, key |-> k])
    /\ Honour(r) /\ End(r)
    /\ UNCHANGED <<otps, tokens>>

----------------------------------------------------------------------------
\* The record API on the columns this module is about.

update_record(i) ==
    /\ Exists(i)
    /\ \/ \E pw \in Pws, k \in generate_token_key :
             _update_record_columns(i, [pw |-> pw, key |-> k])
       \/ \E e \in Emails : _update_record_columns(i, [email |-> e])
    /\ UNCHANGED <<otps, tokens, req, spent, reused>>

delete_record(i) ==
    /\ Exists(i)
    /\ row' = [row EXCEPT ![i] = NoRow]
    /\ UNCHANGED <<otps, tokens, req, spent, reused>>

----------------------------------------------------------------------------
Init ==
    /\ \E u \in Users, e \in Emails, pw \in Pws, k \in Keys :
          row = [i \in Users |-> IF i = u THEN [email |-> e, verified |-> FALSE, pw |-> pw,
                                              key |-> k] ELSE NoRow]
    /\ otps = {} /\ tokens = {} /\ spent = {}
    /\ req = [r \in Requests |-> Idle]
    /\ reused = FALSE

SignIn(r) ==
    \/ api_auth_with_password(r) \/ api_impersonate_record(r)
    \/ api_auth_refresh(r) \/ auth_refresh(r)
    \/ FileTokenAuth(r) \/ create_file_token_for_auth(r)
    \/ api_request_otp(r) \/ request_otp(r) \/ api_auth_with_otp(r) \/ auth_with_otp(r)

Confirm(r) ==
    \/ api_request_verification(r) \/ api_request_password_reset(r) \/ api_request_email_change(r)
    \/ api_confirm_verification(r) \/ confirm_verification(r)
    \/ api_confirm_password_reset(r) \/ confirm_password_reset(r)
    \/ api_confirm_email_change(r) \/ confirm_email_change(r)

Next ==
    \/ \E r \in Requests : SignIn(r) \/ Confirm(r) \/ Refused(r)
    \/ \E i \in Users : update_record(i) \/ delete_record(i)
    \/ TokenExpires \/ OtpAges

Spec == Init /\ [][Next]_vars

----------------------------------------------------------------------------
TypeOK ==
    /\ row \in [Users -> Row \cup {NoRow}]
    /\ otps \subseteq Otp /\ tokens \subseteq Sessions \cup Links
    /\ req \in [Requests -> Req \cup {Idle}]
    /\ spent \subseteq Links \cup Otp
    /\ reused \in BOOLEAN

Acceptable(t) == get_optional_auth(t) \/ verify_file_token(t)

\* A change of password ends every session and file token that goes back to
\* the old one, refreshed ones included, except a session whose own refresh
\* was overlapped by the change: that one reads the row twice.
SessionsFollowPassword ==
    \A t \in tokens :
        t.type \in {"auth", "file"} /\ Acceptable(t) /\ ~t.raced => t.pw = row[t.id].pw

\* A one-time password, a reset link, and an email-change link
\* are honoured for no request that reads them after another request's
\* use was committed.
SpentStaysSpent == ~reused

\* A record becomes verified only for an address that received the link: the
\* one the record had when the link was opened, or the one it now gets.
VerifiedByProof ==
    [][\A i \in Users :
        Exists(i) /\ Exists(i)' /\ ~row[i].verified /\ row'[i].verified =>
            \E r \in Requests :
                /\ req[r] # Idle /\ req[r].id = i
                /\ \/ req[r].op = "verification" /\ req[r].cred.new = req[r].val
                   \/ req[r].op = "emailChange" /\ req[r].cred.new = row'[i].email]_vars

=============================================================================
