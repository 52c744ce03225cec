-------------------------- MODULE RecordAuth_proofs --------------------------
(***************************************************************************)
(* Proofs about the sessions and the one-time credentials of RecordAuth,   *)
(* for any sets of records, addresses, passwords, keys and concurrent      *)
(* requests.                                                               *)
(*                                                                         *)
(* Every argument goes back to the token key.  A change of password writes *)
(* a key that no token and no request in flight holds (UnusedKey), so a    *)
(* session or a half-done renewal that still has the key of the row was    *)
(* made under the password of the row (Follows, Renews).  A link that was  *)
(* honoured has a key the row no longer has, and a one-time password that  *)
(* was honoured has no row of _otps with its number (Void); so a request   *)
(* that reads a credential never reads a spent one (Renews and Opened:     *)
(* ~late), which is what makes SpentStaysSpent inductive.                  *)
(***************************************************************************)
EXTENDS RecordAuth, WellFoundedInduction, TLAPS

\* A session is bound to the password while the row has its key.
Follows(t) ==
    t.type \in {"auth", "file"} /\ row[t.id] # NoRow /\ t.key = row[t.id].key /\ ~t.raced
        => t.pw = row[t.id].pw

\* A verification link is for the address it was sent to.
OwnAddress(t) == t.type = "verification" => t.new = t.email

\* A request that renews a session or signs in with a one-time password.
Renews(q) ==
    /\ q.op \in {"refresh", "file"} =>
          /\ q.val \in Lineages /\ q.key \in Keys
          /\ row[q.id] # NoRow /\ q.key = row[q.id].key /\ ~q.val.raced => q.val.pw = row[q.id].pw
    /\ q.op = "otp" =>
          /\ q.cred \in Otp /\ q.val \in Pws /\ q.key \in Keys /\ ~q.late
          /\ row[q.id] # NoRow /\ q.key = row[q.id].key => q.val = row[q.id].pw

\* A request that opened a mailed link.
Opened(q) ==
    /\ q.op = "verification" => q.cred \in Links /\ q.val = q.cred.new
    /\ q.op = "passwordReset" => q.cred \in Links /\ q.id = q.cred.id /\ q.val \in Pws /\ ~q.late
    /\ q.op = "emailChange" => /\ q.cred \in Links /\ q.id = q.cred.id /\ ~q.late
                               /\ q.val \in Emails /\ q.val = q.cred.new

\* A spent credential cannot be presented again.
Void(c) ==
    \/ c \in Otp /\ \A o \in otps : o.n # c.n
    \/ c \in tokens /\ c \in Links /\ (row[c.id] = NoRow \/ row[c.id].key # c.key)

AInv ==
    /\ TypeOK
    /\ \A t \in tokens : Follows(t) /\ OwnAddress(t)
    /\ \A r \in Requests : req[r] # Idle => Renews(req[r]) /\ Opened(req[r])
    /\ \A c \in spent : Void(c)
    /\ ~reused

\* A one-time password is not a token.
LEMMA Distinct == \A x \in Otp : x \notin Links /\ x \notin Sessions
<1>1. \A x \in Otp : "type" \notin DOMAIN x BY DEF Otp
<1>2. \A x \in Links \cup Sessions : "type" \in DOMAIN x BY DEF Links, Sessions
<1> QED BY <1>1, <1>2

\* What the members of the typed sets have.
LEMMA Fields ==
    /\ \A t \in Sessions : /\ t.type \in {"auth", "file"} /\ t.id \in Users /\ t.key \in Keys
                           /\ t.pw \in Pws /\ t.raced \in BOOLEAN
    /\ \A t \in Links : /\ t.type \in Types \ {"auth", "file"} /\ t.id \in Users /\ t.key \in Keys
                        /\ t.email \in Emails /\ t.new \in Emails
    /\ \A o \in Otp : o.n \in 1..MaxOtps /\ o.id \in Users
    /\ \A q \in Req : q.id \in Users /\ q.key \in Keys \cup {NoRow} /\ q # Idle
    /\ \A w \in Row : /\ w.email \in Emails /\ w.verified \in BOOLEAN /\ w.pw \in Pws
                      /\ w.key \in Keys /\ w # NoRow
    /\ \A v \in Lineages : v.pw \in Pws /\ v.raced \in BOOLEAN
  BY RecordAuthAssumption, IdleAssumption DEF Sessions, Links, Otp, Req, Row, Lineages

\* Membership has a Boolean value.
LEMMA Membership == ASSUME NEW x, NEW S PROVE \E b \in BOOLEAN : b = (x \in S)
<1>1. CASE x \in S
  <2>1. (x \in S) = TRUE BY <1>1
  <2> QED BY <2>1
<1>2. CASE ~(x \in S)
  <2>1. (x \in S) = FALSE BY <1>2
  <2> QED BY <2>1
<1> QED BY <1>1, <1>2

\* generate_token_key: nobody holds a new key.
LEMMA UnusedKey ==
    ASSUME AInv, NEW k \in generate_token_key
    PROVE  /\ k \in Keys
           /\ \A t \in tokens : t.key # k
           /\ \A r \in Requests : req[r] # Idle => req[r].key # k
           /\ \A i \in Users : row[i] # NoRow => row[i].key # k
  BY DEF generate_token_key, UsedKeys, Exists

\* The least number of a non-empty set of naturals is one of them.
LEMMA Least == ASSUME NEW S \in SUBSET Nat, S # {} PROVE Min(S) \in S
<1>1. PICK x \in S : \A y \in S : ~(<<y, x>> \in OpToRel(<, Nat))
  BY NatLessThanWellFounded, WFMin
<1>2. \A y \in S : x <= y
  <2> SUFFICES ASSUME NEW y \in S, ~(x <= y) PROVE FALSE
    OBVIOUS
  <2>1. y \in Nat /\ x \in Nat /\ y < x
    OBVIOUS
  <2>2. <<y, x>> \in OpToRel(<, Nat)
    BY <2>1 DEF OpToRel
  <2> QED BY <1>1, <2>2
<1> QED BY <1>2 DEF Min

\* A step that issues a token, and may end requests.
LEMMA TokenStep ==
    ASSUME AInv, NEW t \in Sessions \cup Links, tokens' = tokens \cup {t}, Follows(t),
           OwnAddress(t),
           req' \in [Requests -> Req \cup {Idle}], \A r \in Requests : req'[r] \in {req[r], Idle},
           UNCHANGED <<row, otps, spent, reused>>
    PROVE  AInv'
<1>1. TypeOK' BY DEF AInv, TypeOK
<1>2. \A x \in tokens' : Follows(x)' /\ OwnAddress(x)' BY DEF AInv, Follows, OwnAddress
<1>3. \A r \in Requests : req'[r] # Idle => Renews(req[r])' /\ Opened(req[r])'
  BY DEF AInv, Renews, Opened
<1>4. \A c \in spent' : Void(c)' BY DEF AInv, Void
<1> QED BY <1>1, <1>2, <1>3, <1>4 DEF AInv

\* A step of one request alone.
LEMMA ReqStep ==
    ASSUME AInv, NEW r \in Requests, NEW q \in Req \cup {Idle}, req' = [req EXCEPT ![r] = q],
           q # Idle => Renews(q) /\ Opened(q),
           UNCHANGED <<row, otps, tokens, spent, reused>>
    PROVE  AInv'
<1>1. TypeOK' BY DEF AInv, TypeOK
<1>2. \A x \in tokens' : Follows(x)' /\ OwnAddress(x)' BY DEF AInv, Follows, OwnAddress
<1>3. \A x \in Requests : req'[x] # Idle => Renews(req[x])' /\ Opened(req[x])'
  BY DEF AInv, Renews, Opened, TypeOK
<1>4. \A c \in spent' : Void(c)' BY DEF AInv, Void
<1> QED BY <1>1, <1>2, <1>3, <1>4 DEF AInv

\* A step that writes one row: the key may stay only if the password does, and a
\* new key is an unused one; a credential it spends is a link of the old key.
LEMMA RowStep ==
    ASSUME AInv, NEW i \in Users, NEW w \in Row \cup {NoRow}, row' = [row EXCEPT ![i] = w],
           w # NoRow => /\ row[i] # NoRow
                        /\ w.key = row[i].key \/ w.key \in generate_token_key
                        /\ w.key = row[i].key => w.pw = row[i].pw,
           \A r \in Requests : req'[r] \in {req[r], Idle}, req' \in [Requests -> Req \cup {Idle}],
           \A c \in spent' :
              \/ c \in spent
              \/ /\ c \in tokens /\ c \in Links /\ c.id = i
                 /\ w = NoRow \/ w.key \in generate_token_key,
           UNCHANGED <<otps, tokens, reused>>
    PROVE  AInv'
<1>1. TypeOK' BY DEF AInv, TypeOK
<1>2. \A j \in Users : row'[j] = IF j = i THEN w ELSE row[j]
  BY DEF AInv, TypeOK
<1>k. w # NoRow /\ w.key # row[i].key =>
         (\A t \in tokens : t.key # w.key) /\ (\A r \in Requests : req[r] # Idle => req[r].key # w.key)
  BY UnusedKey
<1>3. ASSUME NEW x \in tokens' PROVE Follows(x)' /\ OwnAddress(x)'
  <2>1. x \in tokens /\ x.id \in Users /\ Follows(x) /\ OwnAddress(x)
    BY Fields DEF AInv, TypeOK
  <2> QED BY <2>1, <1>2, <1>k DEF Follows, OwnAddress
<1>4. ASSUME NEW r \in Requests, req'[r] # Idle PROVE Renews(req[r])' /\ Opened(req[r])'
  <2>1. req'[r] = req[r] /\ req[r] # Idle /\ Renews(req[r]) /\ Opened(req[r]) /\ req[r].id \in Users
    BY <1>4, Fields DEF AInv, TypeOK
  <2>2. Renews(req[r])'
    BY <2>1, <1>2, <1>k DEF Renews
  <2>3. Opened(req[r])'
    BY <2>1 DEF Opened
  <2> QED BY <2>2, <2>3
<1>5. ASSUME NEW c \in spent' PROVE Void(c)'
  <2>1. CASE c \in spent
    <3>1. Void(c) BY <2>1 DEF AInv
    <3>2. CASE c \in Otp /\ \A o \in otps : o.n # c.n
      BY <3>2 DEF Void
    <3>3. CASE c \in tokens /\ c \in Links /\ (row[c.id] = NoRow \/ row[c.id].key # c.key)
      <4>1. c.id \in Users /\ c.key \in Keys BY <3>3, Fields
      <4>2. row'[c.id] = NoRow \/ row'[c.id].key # c.key
        BY <4>1, <3>3, <1>2, <1>k
      <4> QED BY <4>2, <3>3 DEF Void
    <3> QED BY <3>1, <3>2, <3>3 DEF Void
  <2>2. CASE c \in tokens /\ c \in Links /\ c.id = i /\ (w = NoRow \/ w.key \in generate_token_key)
    <3>1. row'[c.id] = w BY <2>2, <1>2
    <3>2. w = NoRow \/ w.key # c.key BY <2>2, UnusedKey
    <3> QED BY <2>2, <3>1, <3>2 DEF Void
  <2> QED BY <2>1, <2>2
<1> QED BY <1>1, <1>3, <1>4, <1>5 DEF AInv

\* The columns of a row after an UPDATE.
Merged(w, updates) == [c \in DOMAIN w |-> IF c \in DOMAIN updates THEN updates[c] ELSE w[c]]

\* What _update_record_columns makes of the columns of a row.
LEMMA Updates ==
    ASSUME NEW w \in Row
    PROVE  /\ \A b \in BOOLEAN : Merged(w, [verified |-> b]) = [email |-> w.email, verified |-> b, pw |-> w.pw, key |-> w.key]
           /\ \A e \in Emails : Merged(w, [email |-> e]) = [email |-> e, verified |-> w.verified, pw |-> w.pw, key |-> w.key]
           /\ \A p \in Pws, k \in Keys :
                 Merged(w, [pw |-> p, key |-> k]) = [email |-> w.email, verified |-> w.verified, pw |-> p, key |-> k]
           /\ \A e \in Emails, k \in Keys :
                 Merged(w, [email |-> e, verified |-> TRUE, key |-> k]) = [email |-> e, verified |-> TRUE, pw |-> w.pw, key |-> k]
<1>0. DOMAIN w = {"email", "verified", "pw", "key"}
  BY DEF Row
<1>1. \A b \in BOOLEAN : Merged(w, [verified |-> b]) = [email |-> w.email, verified |-> b, pw |-> w.pw, key |-> w.key]
  BY <1>0 DEF Merged
<1>2. \A e \in Emails : Merged(w, [email |-> e]) = [email |-> e, verified |-> w.verified, pw |-> w.pw, key |-> w.key]
  BY <1>0 DEF Merged
<1>3. ASSUME NEW p,
             NEW k PROVE Merged(w, [pw |-> p, key |-> k]) = [email |-> w.email, verified |-> w.verified, pw |-> p, key |-> k]
  <2>1. DOMAIN [pw |-> p, key |-> k] = {"pw", "key"}
    OBVIOUS
  <2>2. [pw |-> p, key |-> k]["pw"] = p /\ [pw |-> p, key |-> k]["key"] = k
    OBVIOUS
  <2> QED BY <1>0, <2>1, <2>2 DEF Merged
<1>4. ASSUME NEW e, NEW k, NEW b
      PROVE  Merged(w, [email |-> e, verified |-> b, key |-> k]) = [email |-> e, verified |-> b, pw |-> w.pw, key |-> k]
  <2>1. PICK u : u = [email |-> e, verified |-> b, key |-> k]
    OBVIOUS
  <2>2. /\ DOMAIN u = {"email", "verified", "key"} 
        /\ u["email"] = e /\ u["verified"] = b /\ u["key"] = k
    BY <2>1
  <2>3. Merged(w, u) = [email |-> e, verified |-> b, pw |-> w.pw, key |-> k]
    BY <1>0, <2>2 DEF Merged
  <2> QED BY <2>1, <2>3
<1>5. \A e \in Emails, k \in Keys :
         Merged(w, [email |-> e, verified |-> TRUE, key |-> k]) = [email |-> e, verified |-> TRUE, pw |-> w.pw, key |-> k]
  BY <1>4, Zenon
<1> QED BY <1>1, <1>2, <1>3, <1>5

\* Ending a request.
LEMMA Ended ==
    ASSUME AInv, NEW r \in Requests, End(r)
    PROVE  req' \in [Requests -> Req \cup {Idle}] /\ \A x \in Requests : req'[x] \in {req[x], Idle}
  BY DEF End, AInv, TypeOK

\* Sign-in and tokens: a new session goes back to the password of its row.
LEMMA IssueStep ==
    ASSUME AInv, NEW r \in Requests,
           \/ api_auth_with_password(r) \/ api_impersonate_record(r)
           \/ auth_refresh(r) \/ create_file_token_for_auth(r)
    PROVE  AInv'
<1> USE DEF create_record_auth_token, create_token, Issue, Exists
<1>1. ASSUME NEW i \in Users, row[i] # NoRow, NEW b \in BOOLEAN, NEW pw \in Pws,
             NEW late \in BOOLEAN, NEW type \in {"auth", "file"},
             ~late => pw = row[i].pw,
             tokens' = tokens \cup {[type |-> type, id |-> i, key |-> row[i].key, refreshable |-> b, pw |-> pw, raced |-> late]},
             req' \in [Requests -> Req \cup {Idle}], \A x \in Requests : req'[x] \in {req[x], Idle},
             UNCHANGED <<row, otps, spent, reused>>
      PROVE  AInv'
  <2>1. PICK t : t = [type |-> type, id |-> i, key |-> row[i].key, refreshable |-> b, pw |-> pw, raced |-> late]
    OBVIOUS
  <2>2. t \in Sessions
    BY <1>1, <2>1, Fields DEF AInv, TypeOK, Sessions
  <2>3. Follows(t) /\ OwnAddress(t)
    BY <1>1, <2>1 DEF Follows, OwnAddress
  <2> QED BY <1>1, <2>1, <2>2, <2>3, TokenStep
<1>t. req \in [Requests -> Req \cup {Idle}] /\ \A i \in Users : row[i] # NoRow => row[i] \in Row /\ row[i].pw \in Pws
  BY Fields DEF AInv, TypeOK
<1>2. CASE api_auth_with_password(r)
  BY <1>1, <1>2, <1>t DEF api_auth_with_password, auth_with_password
<1>3. CASE api_impersonate_record(r)
  BY <1>1, <1>3, <1>t DEF api_impersonate_record, impersonate_auth_record
<1>4. ASSUME NEW b \in BOOLEAN, NEW type \in {"auth", "file"}, req[r] # Idle,
             req[r].op \in {"refresh", "file"}, row[req[r].id] # NoRow,
             tokens' = tokens \cup {[type |-> type, id |-> req[r].id, key |-> row[req[r].id].key, refreshable |-> b, pw |-> req[r].val.pw, raced |-> Raced(r)]},
             End(r), UNCHANGED <<row, otps, spent, reused>>
      PROVE  AInv'
  <2>1. req[r] \in Req /\ req[r].id \in Users /\ Renews(req[r])
    BY <1>4, Fields DEF AInv, TypeOK
  <2>2. req[r].val \in Lineages /\ req[r].val.pw \in Pws /\ Raced(r) \in BOOLEAN
    BY <1>4, <2>1, Fields DEF Renews, Raced
  <2>3. ~Raced(r) => req[r].val.pw = row[req[r].id].pw
    BY <1>4, <2>1 DEF Renews, Raced
  <2> QED BY <1>1, <1>4, <2>1, <2>2, <2>3, Ended
<1>5. CASE auth_refresh(r)
  BY <1>4, <1>5 DEF auth_refresh
<1>6. CASE create_file_token_for_auth(r)
  BY <1>4, <1>6 DEF create_file_token_for_auth
<1> QED BY <1>2, <1>3, <1>5, <1>6

\* Mails.
LEMMA MailStep ==
    ASSUME AInv, NEW r \in Requests,
           \/ api_request_verification(r) \/ api_request_password_reset(r) \/ api_request_email_change(r)
    PROVE  AInv'
<1>1. ASSUME NEW type \in Types \ {"auth", "file"}, NEW i \in Users, row[i] # NoRow,
             NEW new \in Emails,
             type = "verification" => new = row[i].email, Mail(type, i, new)
      PROVE  AInv'
  <2>1. PICK t : t = [type |-> type, id |-> i, key |-> row[i].key, email |-> row[i].email, new |-> new]
    OBVIOUS
  <2>2. t \in Links
    BY <1>1, <2>1, Fields DEF AInv, TypeOK, Links
  <2>3. Follows(t) /\ OwnAddress(t)
    BY <1>1, <2>1 DEF Follows, OwnAddress, Types
  <2>4. tokens' = tokens \cup {t} /\ UNCHANGED <<row, otps, req, spent, reused>>
    BY <1>1, <2>1 DEF Mail, Issue, create_link_token
  <2>5. req' \in [Requests -> Req \cup {Idle}]
    BY <2>4 DEF AInv, TypeOK
  <2> QED BY <2>2, <2>3, <2>4, <2>5, TokenStep
<1>2. \A i \in Users : row[i] # NoRow => row[i].email \in Emails
  BY Fields DEF AInv, TypeOK
<1>3. {"verification", "passwordReset", "emailChange"} \subseteq Types \ {"auth", "file"}
  BY DEF Types
<1>4. CASE api_request_verification(r)
  BY <1>1, <1>2, <1>3, <1>4 DEF api_request_verification, request_verification, Exists
<1>5. CASE api_request_password_reset(r)
  BY <1>1, <1>2, <1>3, <1>5 DEF api_request_password_reset, request_password_reset, Exists
<1>6. CASE api_request_email_change(r)
  <2>1. PICK t \in tokens, e \in Emails : verify_record_auth_token(t) /\ request_email_change(t.id, e)
    BY <1>6 DEF api_request_email_change
  <2>2. t.id \in Users /\ row[t.id] # NoRow
    BY <2>1, Fields DEF AInv, TypeOK, verify_record_auth_token, get_optional_auth,
                        verify_purpose_token
  <2> QED BY <1>1, <1>3, <2>1, <2>2 DEF request_email_change
<1> QED BY <1>4, <1>5, <1>6

\* The first statement of a request.
LEMMA BeginStep ==
    ASSUME AInv, NEW r \in Requests,
           \/ api_auth_refresh(r) \/ FileTokenAuth(r) \/ api_request_otp(r)
           \/ api_confirm_verification(r) \/ api_confirm_password_reset(r) \/ api_confirm_email_change(r)
    PROVE  AInv'
<1>1. ASSUME NEW op \in {"refresh", "file", "otp request"} \cup (Types \ {"auth", "file"}),
             NEW cred \in Links \cup {NoRow}, NEW i \in Users,
             NEW val \in Lineages \cup Emails \cup Pws \cup {NoRow}, Begin(r, op, cred, i, val),
             row[i] # NoRow,
             op \in {"refresh", "file"} => val \in Lineages /\ (~val.raced => val.pw = row[i].pw),
             op = "verification" => cred \in Links /\ val = cred.new,
             op = "passwordReset" => cred \in Links /\ i = cred.id /\ val \in Pws /\ cred \notin spent,
             op = "emailChange" => cred \in Links /\ i = cred.id /\ val \in Emails /\ val = cred.new /\ cred \notin spent,
             UNCHANGED <<row, otps, tokens, spent, reused>>
      PROVE  AInv'
  <2>1. PICK q : q = [op |-> op, cred |-> cred, id |-> i, val |-> val,
                      key |-> IF op \in {"refresh", "file", "otp"} THEN row[i].key ELSE NoRow,
                      late |-> cred \in spent]
    OBVIOUS
  <2>2. row[i].key \in Keys
    BY <1>1, Fields DEF AInv, TypeOK
  <2>3. q \in Req
    <3>1. PICK b \in BOOLEAN : b = (cred \in spent)
      BY Membership
    <3>2. PICK k \in Keys \cup {NoRow} : k = IF op \in {"refresh", "file", "otp"} THEN row[i].key ELSE NoRow
      BY <2>2
    <3>3. q = [op |-> op, cred |-> cred, id |-> i, val |-> val, key |-> k, late |-> b]
      BY <2>1, <3>1, <3>2
    <3> QED BY <1>1, <3>3 DEF Req
  <2>4. Renews(q)
    BY <1>1, <2>1, <2>2 DEF Renews, Types
  <2>5. Opened(q)
    BY <1>1, <2>1 DEF Opened
  <2>6. req' = [req EXCEPT ![r] = q]
    BY <1>1, <2>1 DEF Begin
  <2> QED BY <1>1, <2>3, <2>4, <2>5, <2>6, ReqStep
<1>2. ASSUME NEW t \in tokens, get_optional_auth(t), NEW op \in {"refresh", "file"},
             Begin(r, op, NoRow, t.id, Lineage(t)),
             UNCHANGED <<row, otps, tokens, spent, reused>>
      PROVE  AInv'
  <2>1. t.type = "auth" /\ row[t.id] # NoRow /\ t.key = row[t.id].key
    BY <1>2 DEF get_optional_auth, verify_purpose_token
  <2>2. t \in Sessions /\ t.id \in Users /\ t.pw \in Pws /\ t.raced \in BOOLEAN
    BY <2>1, Fields DEF AInv, TypeOK
  <2>3. Lineage(t) \in Lineages /\ Lineage(t).raced = t.raced /\ Lineage(t).pw = t.pw
    BY <2>2 DEF Lineage, Lineages
  <2>4. ~t.raced => t.pw = row[t.id].pw
    BY <2>1 DEF AInv, Follows
  <2> HIDE DEF Lineage
  <2> QED BY <1>1, <1>2, <2>1, <2>2, <2>3, <2>4 DEF Types
<1>3. ASSUME NEW t \in Mailed, NEW type \in Types \ {"auth", "file"}, NEW val \in Emails \cup Pws,
             OpenLink(r, type, t, val),
             type = "verification" => val = t.email,
             type = "passwordReset" => val \in Pws,
             type = "emailChange" => val = t.new
      PROVE  AInv'
  <2>1. /\ row[t.id] # NoRow /\ t.key = row[t.id].key /\ t.type = type /\ Begin(r, type, t, t.id, val)
        /\ UNCHANGED <<row, otps, tokens, spent, reused>>
    BY <1>3 DEF OpenLink, verify_purpose_token
  <2>2. t \in Links /\ t \in tokens /\ t.id \in Users /\ t.new \in Emails /\ t.email \in Emails
    BY Fields DEF AInv, TypeOK, Mailed
  <2>3. t \notin spent
    BY <2>1, <2>2, Distinct DEF AInv, Void
  <2>4. type = "verification" => val = t.new
    BY <1>3, <2>1, <2>2 DEF AInv, OwnAddress
  <2> QED BY <1>1, <1>3, <2>1, <2>2, <2>3, <2>4 DEF Types
<1>4. CASE api_auth_refresh(r)
  BY <1>2, <1>4 DEF api_auth_refresh, verify_record_auth_token
<1>5. CASE FileTokenAuth(r)
  BY <1>2, <1>5 DEF FileTokenAuth
<1>6. CASE api_request_otp(r)
  <2>1. PICK e \in Emails : \E i \in _get_raw_record_by_field(e) :
           Begin(r, "otp request", NoRow, i, NoRow) /\ UNCHANGED <<row, otps, tokens, spent, reused>>
    BY <1>6 DEF api_request_otp
  <2>2. PICK i \in Users : /\ row[i] # NoRow /\ Begin(r, "otp request", NoRow, i, NoRow)
                           /\ UNCHANGED <<row, otps, tokens, spent, reused>>
    BY <2>1 DEF _get_raw_record_by_field, Exists
  <2> QED BY <1>1, <2>2 DEF Types
<1>7. CASE api_confirm_verification(r)
  <2>1. \A t \in Mailed : t.email \in Emails
    BY Fields DEF AInv, TypeOK, Mailed
  <2> QED BY <1>3, <1>7, <2>1 DEF api_confirm_verification, Types
<1>8. CASE api_confirm_password_reset(r)
  BY <1>3, <1>8 DEF api_confirm_password_reset, Types
<1>9. CASE api_confirm_email_change(r)
  <2>1. \A t \in Mailed : t.new \in Emails
    BY Fields DEF AInv, TypeOK, Mailed
  <2> QED BY <1>3, <1>9, <2>1 DEF api_confirm_email_change, Types
<1> QED BY <1>4, <1>5, <1>6, <1>7, <1>8, <1>9

\* A step of the one-time passwords that leaves the rows and the tokens alone.
LEMMA OtpsMove ==
    ASSUME AInv, otps' \subseteq Otp, \A o \in otps' : \A c \in spent' : c \in Otp => o.n # c.n,
           spent' \subseteq spent,
           \A x \in Requests : req'[x] \in {req[x], Idle}, req' \in [Requests -> Req \cup {Idle}],
           UNCHANGED <<row, tokens, reused>>
    PROVE  AInv'
<1>1. TypeOK' BY DEF AInv, TypeOK
<1>2. \A x \in tokens' : Follows(x)' /\ OwnAddress(x)' BY DEF AInv, Follows, OwnAddress
<1>3. \A x \in Requests : req'[x] # Idle => Renews(req[x])' /\ Opened(req[x])'
  BY DEF AInv, Renews, Opened
<1>4. \A c \in spent' : Void(c)' BY DEF AInv, Void
<1> QED BY <1>1, <1>2, <1>3, <1>4 DEF AInv

\* The requests about one-time passwords, and their ageing.
LEMMA OtpStep ==
    ASSUME AInv,
           \/ OtpAges
           \/ \E r \in Requests : request_otp(r) \/ api_auth_with_otp(r) \/ auth_with_otp(r)
    PROVE  AInv'
<1>t. req \in [Requests -> Req \cup {Idle}] /\ otps \subseteq Otp
  BY DEF AInv, TypeOK
<1>s. \A c \in spent : c \in Otp => \A o \in otps : o.n # c.n
  BY Distinct DEF AInv, Void
<1>1. ASSUME NEW r \in Requests, request_otp(r) PROVE AInv'
  <2> DEFINE free == (1..MaxOtps) \ ({o.n : o \in otps}
                        \cup {req[q].cred.n : q \in {p \in Requests : req[p] # Idle /\ req[p].op = "otp"}})
             kept == {o \in otps : ~(o.id = req[r].id /\ o.age = "expired")}
  <2>0. /\ free # {}
        /\ otps' = kept \cup {[n |-> Min(free), id |-> req[r].id, age |-> "fresh"]}
        /\ spent' = {c \in spent : c \notin Otp \/ c.n # Min(free)}
    BY <1>1, Zenon DEF request_otp
  <2>f. free \subseteq 1..MaxOtps /\ kept \subseteq otps
    OBVIOUS
  <2> HIDE DEF free, kept
  <2>1. PICK n : n = Min(free)
    OBVIOUS
  <2>2. n \in 1..MaxOtps
    <3>1. free \in SUBSET Nat
      BY <2>f, RecordAuthAssumption
    <3> QED BY <2>0, <2>1, <2>f, <3>1, Least
  <2>3. req[r] \in Req /\ req[r].id \in Users /\ End(r) /\ UNCHANGED <<row, tokens, reused>>
    BY <1>1, Fields DEF request_otp, AInv, TypeOK
  <2>4. [n |-> n, id |-> req[r].id, age |-> "fresh"] \in Otp
    BY <2>2, <2>3 DEF Otp
  <2>5. otps' \subseteq Otp
    BY <1>t, <2>0, <2>1, <2>f, <2>4
  <2>6. \A o \in otps' : \A c \in spent' : c \in Otp => o.n # c.n
    BY <1>s, <2>0, <2>1, <2>f
  <2> QED BY OtpsMove, <2>0, <2>3, <2>5, <2>6, Ended
<1>2. ASSUME NEW r \in Requests, api_auth_with_otp(r) PROVE AInv'
  <2>1. PICK o \in otps :
        IF o.age = "expired"
        THEN /\ req[r] = Idle
             /\ otps' = otps \ {o}
             /\ UNCHANGED <<row, tokens, req, spent, reused>>
        ELSE /\ Exists(o.id)
             /\ Begin(r, "otp", [o EXCEPT !.age = "fresh"], o.id, row[o.id].pw)
             /\ UNCHANGED <<row, otps, tokens, spent, reused>>
    BY <1>2 DEF api_auth_with_otp
  <2>2. CASE o.age = "expired"
    BY OtpsMove, <1>s, <1>t, <2>1, <2>2
  <2>3. CASE o.age # "expired"
    <3>1. PICK c : c = [o EXCEPT !.age = "fresh"]
      OBVIOUS
    <3>2. c \in Otp /\ c.n = o.n /\ o.id \in Users
      BY <1>t, <3>1 DEF Otp
    <3>3. c \notin spent
      BY <1>s, <3>2
    <3>4. row[o.id] # NoRow /\ Begin(r, "otp", c, o.id, row[o.id].pw) /\ UNCHANGED <<row, otps, tokens, spent, reused>>
      BY <2>1, <2>3, <3>1 DEF Exists
    <3>5. row[o.id].key \in Keys /\ row[o.id].pw \in Pws
      BY <3>2, <3>4, Fields DEF AInv, TypeOK
    <3>6. PICK q : q = [op |-> "otp", cred |-> c, id |-> o.id, val |-> row[o.id].pw, key |-> row[o.id].key, late |-> FALSE]
      OBVIOUS
    <3>f. (c \in spent) = FALSE
      BY <3>3
    <3>7. req' = [req EXCEPT ![r] = q]
      BY <3>f, <3>4, <3>6 DEF Begin
    <3>8. q \in Req
      BY <3>2, <3>5, <3>6 DEF Req
    <3>9. Renews(q) /\ Opened(q)
      BY <3>2, <3>5, <3>6 DEF Renews, Opened
    <3> QED BY <3>4, <3>7, <3>8, <3>9, ReqStep
  <2> QED BY <2>2, <2>3
<1>3. ASSUME NEW r \in Requests, auth_with_otp(r) PROVE AInv'
  <2>1. /\ req[r] \in Req /\ req[r].op = "otp" /\ req[r].id \in Users /\ Renews(req[r])
        /\ otps' = {o \in otps : o.n # req[r].cred.n} /\ End(r) /\ UNCHANGED row
    BY <1>3, Fields DEF auth_with_otp, AInv, TypeOK
  <2>2. req[r].cred \in Otp /\ req[r].val \in Pws /\ req[r].key \in Keys /\ ~req[r].late
    BY <2>1 DEF Renews
  <2>3. CASE UNCHANGED <<tokens, spent, reused>>
    BY OtpsMove, <1>s, <1>t, <2>1, <2>3, Ended
  <2>4. CASE Issue(create_record_auth_token(req[r].id, req[r], TRUE, req[r].val, FALSE)) /\ Honour(r)
    <3>1. PICK t : t = [type |-> "auth", id |-> req[r].id, key |-> req[r].key, refreshable |-> TRUE,
                        pw |-> req[r].val, raced |-> FALSE]
      OBVIOUS
    <3>2. t \in Sessions
      BY <2>1, <2>2, <3>1 DEF Sessions
    <3>3. Follows(t) /\ OwnAddress(t)
      BY <2>1, <3>1 DEF Follows, OwnAddress, Renews
    <3>4. tokens' = tokens \cup {t} /\ ~reused' /\ spent' \subseteq spent \cup {req[r].cred}
      BY <2>2, <2>4, <3>1 DEF Issue, create_record_auth_token, create_token, Honour, AInv
    <3>5. TypeOK'
      <4>1. tokens' \subseteq Sessions \cup Links /\ spent' \subseteq Links \cup Otp
        BY <2>2, <3>2, <3>4 DEF AInv, TypeOK
      <4>2. otps' \subseteq Otp /\ row' \in [Users -> Row \cup {NoRow}] /\ reused' \in BOOLEAN
        BY <1>t, <2>1, <2>4 DEF AInv, TypeOK, Honour
      <4> QED BY <4>1, <4>2, <2>1, Ended DEF TypeOK
    <3>6. \A x \in tokens' : Follows(x)' /\ OwnAddress(x)'
      BY <2>1, <3>3, <3>4 DEF AInv, Follows, OwnAddress
    <3>7. \A x \in Requests : req'[x] # Idle => Renews(req[x])' /\ Opened(req[x])'
      BY <2>1, Ended DEF AInv, Renews, Opened
    <3>8. \A c \in spent' : Void(c)'
      BY <2>1, <2>2, <3>4 DEF AInv, Void
    <3> QED BY <3>4, <3>5, <3>6, <3>7, <3>8 DEF AInv
  <2> QED BY <1>3, <2>3, <2>4 DEF auth_with_otp
<1>4. CASE OtpAges
  <2>1. PICK o \in otps, a \in {"cooled", "expired"} :
           otps' = (otps \ {o}) \cup {[o EXCEPT !.age = a]} /\ UNCHANGED <<row, tokens, req, spent, reused>>
    BY <1>4 DEF OtpAges
  <2>2. [o EXCEPT !.age = a] \in Otp /\ [o EXCEPT !.age = a].n = o.n
    BY <1>t DEF Otp
  <2> QED BY OtpsMove, <1>s, <1>t, <2>1, <2>2
<1> QED BY <1>1, <1>2, <1>3, <1>4

\* What an UPDATE makes of a row.
LEMMA Written ==
    ASSUME AInv, NEW j \in Users, NEW u, _update_record_columns(j, u)
    PROVE  \E w : /\ row' = [row EXCEPT ![j] = w]
                  /\ row[j] = NoRow => w = NoRow
                  /\ row[j] # NoRow => row[j] \in Row /\ w = Merged(row[j], u)
<1>1. row[j] # NoRow => row[j] \in Row
  BY DEF AInv, TypeOK
<1>2. row' = [row EXCEPT ![j] = IF row[j] = NoRow THEN NoRow ELSE Merged(row[j], u)]
  BY DEF _update_record_columns, Merged
<1> QED BY <1>1, <1>2

\* A new password and a new key.
LEMMA Rekeyed ==
    ASSUME AInv, NEW j \in Users, NEW p \in Pws, NEW k \in generate_token_key,
           _update_record_columns(j, [pw |-> p, key |-> k])
    PROVE  \E w \in Row \cup {NoRow} :
              /\ row' = [row EXCEPT ![j] = w]
              /\ w # NoRow => row[j] # NoRow /\ w.key = k /\ w.key # row[j].key /\ w.verified = row[j].verified
<1>1. PICK w : /\ row' = [row EXCEPT ![j] = w]
               /\ row[j] = NoRow => w = NoRow
               /\ row[j] # NoRow => row[j] \in Row /\ w = Merged(row[j], [pw |-> p, key |-> k])
  BY Written
<1>2. k \in Keys /\ (row[j] # NoRow => row[j].key # k)
  BY UnusedKey
<1>3. CASE row[j] = NoRow BY <1>1, <1>3
<1>4. CASE row[j] # NoRow
  <2>1. w = [email |-> row[j].email, verified |-> row[j].verified, pw |-> p, key |-> k]
    BY <1>1, <1>2, <1>4, Updates
  <2>2. w \in Row /\ w.key = k /\ w.verified = row[j].verified
    BY <1>1, <1>2, <1>4, <2>1, Fields DEF Row
  <2> QED BY <1>1, <1>2, <1>4, <2>2
<1> QED BY <1>3, <1>4

\* A new address, verified, and a new key.
LEMMA Readdressed ==
    ASSUME AInv, NEW j \in Users, NEW e \in Emails, NEW k \in generate_token_key,
           _update_record_columns(j, [email |-> e, verified |-> TRUE, key |-> k])
    PROVE  \E w \in Row \cup {NoRow} :
              /\ row' = [row EXCEPT ![j] = w]
              /\ w # NoRow => row[j] # NoRow /\ w.key = k /\ w.key # row[j].key /\ w.email = e
<1>1. PICK w : /\ row' = [row EXCEPT ![j] = w]
               /\ row[j] = NoRow => w = NoRow
               /\ row[j] # NoRow => row[j] \in Row /\ w = Merged(row[j], [email |-> e, verified |-> TRUE, key |-> k])
  BY Written
<1>2. k \in Keys /\ (row[j] # NoRow => row[j].key # k)
  BY UnusedKey
<1>3. CASE row[j] = NoRow BY <1>1, <1>3
<1>4. CASE row[j] # NoRow
  <2>1. w = [email |-> e, verified |-> TRUE, pw |-> row[j].pw, key |-> k]
    BY <1>1, <1>2, <1>4, Updates
  <2>2. w \in Row /\ w.key = k /\ w.email = e
    BY <1>1, <1>2, <1>4, <2>1, Fields DEF Row
  <2> QED BY <1>1, <1>2, <1>4, <2>2
<1> QED BY <1>3, <1>4

\* A write that keeps the key keeps the password.
LEMMA Touched ==
    ASSUME AInv, NEW j \in Users, NEW u,
           u = [verified |-> TRUE] \/ \E e \in Emails : u = [email |-> e],
           _update_record_columns(j, u)
    PROVE  \E w \in Row \cup {NoRow} :
              /\ row' = [row EXCEPT ![j] = w]
              /\ w # NoRow => row[j] # NoRow /\ w.key = row[j].key /\ w.pw = row[j].pw
              /\ w # NoRow /\ u # [verified |-> TRUE] => w.verified = row[j].verified
<1>1. PICK w : /\ row' = [row EXCEPT ![j] = w]
               /\ row[j] = NoRow => w = NoRow
               /\ row[j] # NoRow => row[j] \in Row /\ w = Merged(row[j], u)
  BY Written
<1>3. CASE row[j] = NoRow BY <1>1, <1>3
<1>4. CASE row[j] # NoRow /\ u = [verified |-> TRUE]
  <2>1. w = [email |-> row[j].email, verified |-> TRUE, pw |-> row[j].pw, key |-> row[j].key]
    BY <1>1, <1>4, Updates
  <2>2. w \in Row /\ w.key = row[j].key /\ w.pw = row[j].pw
    BY <1>1, <1>4, <2>1, Fields DEF Row
  <2> QED BY <1>1, <1>4, <2>2
<1>5. ASSUME row[j] # NoRow, NEW e \in Emails, u = [email |-> e]
      PROVE  w \in Row /\ w.key = row[j].key /\ w.pw = row[j].pw /\ w.verified = row[j].verified
  <2>1. w = [email |-> e, verified |-> row[j].verified, pw |-> row[j].pw, key |-> row[j].key]
    BY <1>1, <1>5, Updates
  <2> QED BY <1>1, <1>5, <2>1, Fields DEF Row
<1> QED BY <1>1, <1>3, <1>4, <1>5

\* The writes of a record: a new password comes with a key nobody holds.
LEMMA ConfirmStep ==
    ASSUME AInv, NEW r \in Requests,
           confirm_verification(r) \/ confirm_password_reset(r) \/ confirm_email_change(r)
    PROVE  AInv'
<1>t. req \in [Requests -> Req \cup {Idle}]
  BY DEF AInv, TypeOK
\* The answer of a request that honours a link.
<1>h. ASSUME req[r] # Idle, req[r].op \in {"passwordReset", "emailChange"}, Honour(r), End(r)
      PROVE  /\ req[r].id \in Users /\ req[r].cred \in Links /\ req[r].cred.id = req[r].id
             /\ UNCHANGED reused /\ ~reused
             /\ \A c \in spent' : c \in spent \/ (c \in tokens /\ c \in Links /\ c.id = req[r].id)
             /\ req[r].op = "passwordReset" => req[r].val \in Pws
             /\ req[r].op = "emailChange" => req[r].val \in Emails
  <2>1. req[r] \in Req /\ req[r].id \in Users /\ Opened(req[r])
    BY <1>h, <1>t, Fields DEF AInv
  <2>2. req[r].cred \in Links /\ req[r].cred.id = req[r].id /\ ~req[r].late
    BY <1>h, <2>1 DEF Opened
  <2>3. ~reused /\ UNCHANGED reused
    <3>1. ~reused /\ reused \in BOOLEAN
      BY DEF AInv, TypeOK
    <3>2. (reused \/ req[r].late) = FALSE
      BY <2>2, <3>1
    <3>3. reused' = FALSE /\ reused = FALSE
      BY <1>h, <3>1, <3>2 DEF Honour
    <3> QED BY <3>3
  <2>4. \A c \in spent' : c \in spent \/ (c \in tokens /\ c \in Links /\ c.id = req[r].id)
    BY <1>h, <2>2, Distinct DEF Honour
  <2> QED BY <1>h, <2>1, <2>2, <2>3, <2>4 DEF Opened
<1>1. CASE confirm_verification(r)
  <2>1. /\ req[r].id \in Users /\ _update_record_columns(req[r].id, [verified |-> TRUE])
        /\ End(r) /\ UNCHANGED <<otps, tokens, spent, reused>>
    BY <1>1, <1>t, Fields DEF confirm_verification
  <2>2. PICK w \in Row \cup {NoRow} :
           /\ row' = [row EXCEPT ![req[r].id] = w]
           /\ w # NoRow => /\ row[req[r].id] # NoRow /\ w.key = row[req[r].id].key
                           /\ w.pw = row[req[r].id].pw
    BY <2>1, Touched
  <2> QED BY <2>1, <2>2, RowStep, Ended
<1>2. CASE confirm_password_reset(r)
  <2>1. PICK k \in generate_token_key : _update_record_columns(req[r].id, [pw |-> req[r].val, key |-> k])
    BY <1>2 DEF confirm_password_reset
  <2>2. /\ req[r] # Idle /\ req[r].op = "passwordReset" /\ Honour(r) /\ End(r) /\ UNCHANGED <<otps, tokens>>
    BY <1>2 DEF confirm_password_reset
  <2>3. PICK w \in Row \cup {NoRow} :
           /\ row' = [row EXCEPT ![req[r].id] = w]
           /\ w # NoRow => row[req[r].id] # NoRow /\ w.key = k /\ w.key # row[req[r].id].key
    BY <1>h, <2>1, <2>2, Rekeyed
  <2> QED BY <1>h, <2>2, <2>3, RowStep, Ended
<1>3. CASE confirm_email_change(r)
  <2>1. PICK k \in generate_token_key :
           _update_record_columns(req[r].id, [email |-> req[r].val, verified |-> TRUE, key |-> k])
    BY <1>3 DEF confirm_email_change
  <2>2. /\ req[r] # Idle /\ req[r].op = "emailChange" /\ Honour(r) /\ End(r) /\ UNCHANGED <<otps, tokens>>
    BY <1>3 DEF confirm_email_change
  <2>3. PICK w \in Row \cup {NoRow} :
           /\ row' = [row EXCEPT ![req[r].id] = w]
           /\ w # NoRow => row[req[r].id] # NoRow /\ w.key = k /\ w.key # row[req[r].id].key
    BY <1>h, <2>1, <2>2, Readdressed
  <2> QED BY <1>h, <2>2, <2>3, RowStep, Ended
<1> QED BY <1>1, <1>2, <1>3

\* The record API on the auth columns.
LEMMA RecordStep ==
    ASSUME AInv, NEW i \in Users, update_record(i) \/ delete_record(i)
    PROVE  AInv'
<1>t. req \in [Requests -> Req \cup {Idle}]
  BY DEF AInv, TypeOK
<1>1. CASE update_record(i)
  <2>1. UNCHANGED <<otps, tokens, req, spent, reused>>
    BY <1>1 DEF update_record
  <2>2. ASSUME NEW pw \in Pws, NEW k \in generate_token_key,
               _update_record_columns(i, [pw |-> pw, key |-> k])
        PROVE  AInv'
    <3>1. PICK w \in Row \cup {NoRow} :
             /\ row' = [row EXCEPT ![i] = w]
             /\ w # NoRow => row[i] # NoRow /\ w.key = k /\ w.key # row[i].key
      BY <2>2, Rekeyed
    <3> QED BY <1>t, <2>1, <3>1, RowStep
  <2>3. ASSUME NEW e \in Emails, _update_record_columns(i, [email |-> e])
        PROVE  AInv'
    <3>1. PICK w \in Row \cup {NoRow} :
             /\ row' = [row EXCEPT ![i] = w]
             /\ w # NoRow => row[i] # NoRow /\ w.key = row[i].key /\ w.pw = row[i].pw
      BY <2>3, Touched
    <3> QED BY <1>t, <2>1, <3>1, RowStep
  <2> QED BY <1>1, <2>2, <2>3 DEF update_record
<1>2. CASE delete_record(i)
  BY <1>2, <1>t, RowStep DEF delete_record
<1> QED BY <1>1, <1>2

\* A token or a request that ends without effect.
LEMMA ForgetStep ==
    ASSUME AInv, TokenExpires \/ \E r \in Requests : Refused(r)
    PROVE  AInv'
<1>1. CASE TokenExpires
  <2>1. PICK t \in tokens : tokens' = tokens \ {t} /\ spent' = spent \ {t} /\ UNCHANGED <<row, otps, req, reused>>
    BY <1>1 DEF TokenExpires
  <2>2. TypeOK' BY <2>1 DEF AInv, TypeOK
  <2>3. \A x \in tokens' : Follows(x)' /\ OwnAddress(x)' BY <2>1 DEF AInv, Follows, OwnAddress
  <2>4. \A r \in Requests : req'[r] # Idle => Renews(req[r])' /\ Opened(req[r])' BY <2>1 DEF AInv, Renews, Opened
  <2>5. \A c \in spent' : Void(c)' BY <2>1 DEF AInv, Void
  <2> QED BY <2>1, <2>2, <2>3, <2>4, <2>5 DEF AInv
<1>2. ASSUME NEW r \in Requests, Refused(r) PROVE AInv'
  BY <1>2, ReqStep DEF Refused, End
<1> QED BY <1>1, <1>2

\* The inductive invariant of the auth service holds in every reachable state;
\* its first part is TypeOK.
THEOREM AuthInductive == Spec => []AInv
<1>1. Init => AInv
  <2> SUFFICES ASSUME Init PROVE AInv
    OBVIOUS
  <2>1. row \in [Users -> Row \cup {NoRow}]
    BY DEF Init, Row
  <2> QED BY <2>1 DEF Init, AInv, TypeOK
<1>2. AInv /\ [Next]_vars => AInv'
  <2> SUFFICES ASSUME AInv, [Next]_vars PROVE AInv'
    OBVIOUS
  <2>1. CASE UNCHANGED vars
    BY <2>1 DEF vars, AInv, TypeOK, Follows, OwnAddress, Renews, Opened, Void
  <2>2. ASSUME NEW r \in Requests, SignIn(r) PROVE AInv'
    BY <2>2, IssueStep, BeginStep, OtpStep DEF SignIn
  <2>3. ASSUME NEW r \in Requests, Confirm(r) PROVE AInv'
    BY <2>3, MailStep, BeginStep, ConfirmStep DEF Confirm
  <2> QED BY <2>1, <2>2, <2>3, ForgetStep, RecordStep, OtpStep DEF Next
<1> QED BY <1>1, <1>2, PTL DEF Spec

\* After confirm_password_reset or an update of the password, no session, file
\* token or renewal that goes back to the old password is accepted, except a
\* session whose own renewal the change overlapped (auth_refresh reads twice).
THEOREM PasswordEndsSessions == Spec => []SessionsFollowPassword
<1>1. AInv => SessionsFollowPassword
  BY DEF AInv, Follows, SessionsFollowPassword, Acceptable, get_optional_auth, verify_file_token,
         verify_purpose_token
<1> QED BY <1>1, AuthInductive, PTL

\* auth_with_otp, confirm_password_reset and confirm_email_change honour no
\* credential that was read after another request had spent it.
THEOREM CredentialsSpentOnce == Spec => []SpentStaysSpent
<1>1. AInv => SpentStaysSpent
  BY DEF AInv, SpentStaysSpent
<1> QED BY <1>1, AuthInductive, PTL

\* A step that makes a record verified is the answer to a link sent to the
\* address (confirm_verification, confirm_email_change), whatever ran in between.
THEOREM VerifiedOnlyByLink == Spec => VerifiedByProof
<1> DEFINE Proof(i) == \E r \in Requests :
                          /\ req[r] # Idle /\ req[r].id = i
                          /\ \/ req[r].op = "verification" /\ req[r].cred.new = req[r].val
                             \/ req[r].op = "emailChange" /\ req[r].cred.new = row'[i].email
           Proven == \A i \in Users :
                        Exists(i) /\ Exists(i)' /\ ~row[i].verified /\ row'[i].verified => Proof(i)
<1>1. AInv /\ [Next]_vars => [Proven]_vars
  <2> SUFFICES ASSUME AInv, Next, NEW i \in Users, row[i] # NoRow, row'[i] # NoRow,
                      ~row[i].verified, row'[i].verified
               PROVE  Proof(i)
    BY DEF Exists
  <2>0. row \in [Users -> Row \cup {NoRow}] /\ req \in [Requests -> Req \cup {Idle}]
    BY DEF AInv, TypeOK
  <2>u. CASE UNCHANGED row
    BY <2>u
  <2>1. ASSUME NEW r \in Requests, confirm_verification(r) PROVE Proof(i)
    <3>1. /\ req[r] # Idle /\ req[r].op = "verification" /\ req[r].id \in Users /\ Opened(req[r])
          /\ _update_record_columns(req[r].id, [verified |-> TRUE])
      BY <2>0, <2>1, Fields DEF confirm_verification, AInv
    <3>2. \A j \in Users : j # req[r].id => row'[j] = row[j]
      BY <2>0, <3>1 DEF _update_record_columns
    <3>3. req[r].id = i /\ req[r].cred.new = req[r].val
      BY <3>1, <3>2 DEF Opened
    <3> QED BY <3>1, <3>3
  <2>2. ASSUME NEW r \in Requests, confirm_email_change(r) PROVE Proof(i)
    <3>1. /\ req[r] # Idle /\ req[r].op = "emailChange" /\ req[r].id \in Users /\ Opened(req[r])
      BY <2>0, <2>2, Fields DEF confirm_email_change, AInv
    <3>2. PICK k \in generate_token_key :
             _update_record_columns(req[r].id, [email |-> req[r].val, verified |-> TRUE, key |-> k])
      BY <2>2 DEF confirm_email_change
    <3>3. PICK w \in Row \cup {NoRow} :
             row' = [row EXCEPT ![req[r].id] = w] /\ (w # NoRow => w.email = req[r].val)
      BY <3>1, <3>2, Readdressed DEF Opened
    <3>4. req[r].id = i /\ row'[i] = w
      BY <2>0, <3>1, <3>3
    <3>5. req[r].cred.new = row'[i].email
      BY <3>1, <3>3, <3>4 DEF Opened
    <3> QED BY <3>1, <3>4, <3>5
  \* No other write verifies a record.
  <2>k. ASSUME NEW j \in Users, NEW w \in Row \cup {NoRow}, row' = [row EXCEPT ![j] = w],
               w # NoRow => w.verified = row[j].verified
        PROVE  Proof(i)
    BY <2>0, <2>k
  <2>3. ASSUME NEW r \in Requests, confirm_password_reset(r) PROVE Proof(i)
    <3>1. /\ req[r].id \in Users /\ req[r].val \in Pws
      BY <2>0, <2>3, Fields DEF confirm_password_reset, AInv, Opened
    <3> QED BY <2>k, <2>3, <3>1, Rekeyed DEF confirm_password_reset
  <2>4. ASSUME NEW j \in Users, update_record(j) PROVE Proof(i)
    <3>1. ASSUME NEW e \in Emails PROVE [email |-> e] # [verified |-> TRUE]
      <4>1. "email" \in DOMAIN [email |-> e] /\ "email" \notin DOMAIN [verified |-> TRUE]
        OBVIOUS
      <4> QED BY <4>1
    <3>2. ASSUME NEW e \in Emails, _update_record_columns(j, [email |-> e]) PROVE Proof(i)
      BY <2>k, <3>1, <3>2, Touched
    <3>3. ASSUME NEW pw \in Pws, NEW k \in generate_token_key,
                 _update_record_columns(j, [pw |-> pw, key |-> k])
          PROVE  Proof(i)
      BY <2>k, <3>3, Rekeyed
    <3> QED BY <2>4, <3>2, <3>3 DEF update_record
  <2>5. ASSUME NEW j \in Users, delete_record(j) PROVE Proof(i)
    BY <2>0, <2>5 DEF delete_record
  <2>6. ASSUME NEW r \in Requests, SignIn(r) PROVE UNCHANGED row
    BY <2>6 DEF SignIn, api_auth_with_password, api_impersonate_record, api_auth_refresh,
                auth_refresh,
         FileTokenAuth, create_file_token_for_auth, api_request_otp, request_otp,
         api_auth_with_otp, auth_with_otp
  <2>7. ASSUME NEW r \in Requests, Confirm(r)
        PROVE  UNCHANGED row \/ confirm_verification(r) \/ confirm_email_change(r) \/ confirm_password_reset(r)
    BY <2>7 DEF Confirm, api_request_verification, request_verification,
                api_request_password_reset, request_password_reset,
         api_request_email_change, request_email_change, Mail, api_confirm_verification,
         api_confirm_password_reset,
         api_confirm_email_change, OpenLink
  <2>8. ASSUME OtpAges \/ TokenExpires \/ \E r \in Requests : Refused(r) PROVE UNCHANGED row
    BY <2>8 DEF OtpAges, TokenExpires, Refused
  <2> QED BY <2>u, <2>1, <2>2, <2>3, <2>4, <2>5, <2>6, <2>7, <2>8 DEF Next
<1> QED BY <1>1, AuthInductive, PTL DEF Spec, VerifiedByProof, Proven, Proof

==============================================================================
