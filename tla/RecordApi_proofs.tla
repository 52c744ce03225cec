-------------------------- MODULE RecordApi_proofs --------------------------
(***************************************************************************)
(* Proofs about RecordApi, for any number of concurrent requests, users    *)
(* and posts, any length of a batch and any rules.                         *)
(*                                                                         *)
(* The four properties are about what a request knows when it writes,      *)
(* commits or answers, and rules are judged by statements of their own     *)
(* before that.  The inductive invariant PInv therefore says, for each     *)
(* stage of a request, how what was read at an earlier stage relates to    *)
(* what is committed now: a row it saw is still its view or is counted     *)
(* among the rows it could have seen (InSight, Judged), a post is still    *)
(* what the cascade's SELECT saw or somebody moved it (Cascaded), and the  *)
(* row it will show is the committed one or has moved (Shows).  Only the   *)
(* commit of another request disturbs these, and it accounts for every     *)
(* row it touches.                                                         *)
(***************************************************************************)
EXTENDS RecordApi, TLAPS

(* A request that has not begun its transaction, or that reads, has        *)
(* written nothing.                                                        *)
Empty(t) ==
    \/ req[t].at \in {"idle", "arrived", "read", "checked", "answered"}
    \/ req[t].at = "resolved" /\ req[t].op = "view"
    => DOMAIN writes[t] = {}

(* The row a rule is judged on is one the request could see; and what a    *)
(* request names and sets stays what it was resolved with.                 *)
InSight(t) ==
    /\ req[t].at \in {"resolved", "judged", "managed", "inserted", "cascade"} => req[t].rec \in Records
    /\ req[t].at \in {"resolved", "judged"} /\ req[t].op # "view" => View(t, req[t].rec) \in seen[t]
    /\ req[t].op = "delete" => req[t].body = Gone
    /\ req[t].at = "done" => req[t].op = "none"
    /\ req[t].at \in {"resolved", "judged", "managed", "inserted", "cascade", "done"} => req[t].ops < MaxOps
    /\ req[t].at \in {"resolved", "judged", "managed", "inserted"} /\ req[t].rec \in Posts
          /\ req[t].op \in {"create", "update", "upsert"} => req[t].body \in Users

(* What was judged at an earlier stage still entitles the later ones.      *)
Judged(t) ==
    /\ req[t].at = "judged" =>
          req[t].op \in {"update", "delete"} /\ Permitted(t, req[t].op)
    /\ req[t].at = "managed" =>
          /\ req[t].op = "update" /\ Permitted(t, "update")
          /\ req[t].body = "verified" => Permitted(t, "manage")
    /\ req[t].at = "cascade" => req[t].op = "delete" /\ Permitted(t, "delete")
    /\ req[t].at = "inserted" =>
          /\ req[t].op = "create" /\ req[t].rec \in DOMAIN writes[t]
          /\ writes[t][req[t].rec] = NewRow(req[t].rec, req[t].body)

(* Posts nobody else changed and the request itself did not give to a user *)
(* that was gone.                                                          *)
Left(t) == Posts \ (moved[t] \cup req[t].adrift)
Refers(t, p, u) == View(t, p) # Gone /\ View(t, p).author = u

(* No such post refers to a user the request has deleted, and those that   *)
(* refer to the one it is deleting are still on the cascade's list.        *)
Cascaded(t) ==
    /\ \A u \in Users : u \in DOMAIN writes[t] /\ writes[t][u] = Gone
          => \A p \in Left(t) : ~Refers(t, p, u)
    /\ req[t].at = "cascade" =>
          /\ req[t].related \subseteq Posts
          /\ \A p \in Left(t) : Refers(t, p, req[t].rec) => p \in req[t].related

(* A view shows the committed row of a post, or one that has moved since.  *)
Yes(t) == check_rule(rules["posts"].view, req[t].auth) = "yes"
Owned(t) == \A row \in req[t].shown : row.author = req[t].auth
Shows(t) ==
    /\ req[t].at = "resolved" /\ req[t].op = "view" => req[t].rec \in Posts
    /\ req[t].at = "read" =>
          req[t].rec \in Posts /\ (req[t].rec \in moved[t] \/ req[t].shown = {db[req[t].rec]})
    /\ req[t].at = "checked" =>
          req[t].rec \in Posts /\ (req[t].rec \in moved[t] \/ Yes(t) \/ Owned(t))
    /\ req[t].at = "answered" => (req[t].rec # Gone /\ req[t].rec \in moved[t]) \/ Yes(t) \/ Owned(t)

(* Everything an open request relies on. *)
Sound(t) == Empty(t) /\ InSight(t) /\ Judged(t) /\ Cascaded(t) /\ Shows(t)

(* The inductive invariant. *)
PInv == TypeOK /\ \A t \in Tasks : Sound(t)

-----------------------------------------------------------------------------
(* Types *)

(* The fields of a request. *)
LEMMA Fields ==
    ASSUME NEW q \in Requests
    PROVE  /\ q.at \in States /\ q.auth \in Callers \cup {Guest} /\ q.batch \in BOOLEAN /\ q.ops \in 0 .. MaxOps
           /\ q.op \in {"none", "create", "update", "delete", "upsert", "view"}
           /\ q.rec \in Records \cup {Gone} /\ q.body \in Users \cup {"verified", "password", Gone}
           /\ q.related \subseteq Records /\ q.adrift \subseteq Posts /\ q.shown \subseteq AnyRow
  BY DEF Requests

(* The fields of a task that serves none. *)
LEMMA IdleFields ==
    /\ Idle \in Requests /\ Idle.at = "idle" /\ Idle.adrift = {} /\ Idle.op = "none" /\ Idle.rec = Gone
    /\ Idle.body = Gone /\ Idle.related = {} /\ Idle.shown = {} /\ Idle.batch = FALSE
  BY RecordApiAssumption DEF Idle, Requests, States

(* A statement adds one row to what a transaction has written. *)
LEMMA WriteFacts ==
    /\ <<>> \in WriteSets /\ DOMAIN <<>> = {}
    /\ \A w \in WriteSets : DOMAIN w \subseteq Records /\ \A x \in DOMAIN w : w[x] \in AnyRow
    /\ \A w \in WriteSets, r \in Records, row \in AnyRow :
          [x \in DOMAIN w \cup {r} |-> IF x = r THEN row ELSE w[x]] \in WriteSets
<1>1. DOMAIN <<>> = {}
  OBVIOUS
<1>2. <<>> \in [{} -> AnyRow]
  BY <1>1
<1>3. <<>> \in WriteSets
  BY <1>2 DEF WriteSets
<1>4. ASSUME NEW w \in WriteSets PROVE DOMAIN w \subseteq Records /\ \A x \in DOMAIN w : w[x] \in AnyRow
  BY DEF WriteSets
<1>5. ASSUME NEW w \in WriteSets, NEW r \in Records, NEW row \in AnyRow
      PROVE  [x \in DOMAIN w \cup {r} |-> IF x = r THEN row ELSE w[x]] \in WriteSets
  <2>1. [x \in DOMAIN w \cup {r} |-> IF x = r THEN row ELSE w[x]] \in [DOMAIN w \cup {r} -> AnyRow]
    BY <1>4
  <2>2. DOMAIN w \cup {r} \in SUBSET Records
    BY <1>4
  <2> QED BY <2>1, <2>2 DEF WriteSets
<1> QED BY <1>1, <1>3, <1>4, <1>5

(* What the invariant says of each variable and of each request. *)
LEMMA Typed ==
    ASSUME PInv
    PROVE  /\ db \in [Records -> AnyRow] /\ \A r \in Records : db[r] \in RowsOf(r) \cup {Gone}
           /\ rules \in [Collections -> [Actions -> Rule]]
           /\ req \in [Tasks -> Requests] /\ writes \in [Tasks -> WriteSets]
           /\ served \in 0 .. MaxServed
           /\ moved \in [Tasks -> SUBSET Records] /\ seen \in [Tasks -> SUBSET AnyRow]
           /\ \A t \in Tasks : \A r \in DOMAIN writes[t] : writes[t][r] \in RowsOf(r) \cup {Gone}
           /\ \A t \in Tasks : Sound(t)
  BY DEF PInv, TypeOK, Sound

-----------------------------------------------------------------------------
(* Steps *)

(* A step of one request that commits nothing leaves what the others rely on. *)
LEMMA Step ==
    ASSUME PInv, NEW t \in Tasks, NEW q \in Requests, NEW w \in WriteSets,
           NEW m \in SUBSET Records, NEW z \in SUBSET AnyRow,
           req' = [req EXCEPT ![t] = q], writes' = [writes EXCEPT ![t] = w],
           moved' = [moved EXCEPT ![t] = m], seen' = [seen EXCEPT ![t] = z],
           UNCHANGED <<db, rules>>, served' \in 0 .. MaxServed,
           \A r \in DOMAIN w : w[r] \in RowsOf(r) \cup {Gone},
           Sound(t)'
    PROVE  PInv'
<1>1. TypeOK'
  <2>1. \A s \in Tasks : writes'[s] = IF s = t THEN w ELSE writes[s]
    BY Typed
  <2>2. \A s \in Tasks : \A r \in DOMAIN writes'[s] : writes'[s][r] \in RowsOf(r) \cup {Gone}
    BY Typed, <2>1
  <2> QED BY Typed, <2>2 DEF TypeOK
<1>2. ASSUME NEW s \in Tasks, s # t PROVE Sound(s)'
  <2>1. /\ req'[s] = req[s] /\ writes'[s] = writes[s] /\ moved'[s] = moved[s] /\ seen'[s] = seen[s]
        /\ Sound(s) /\ db' = db /\ rules' = rules
    BY <1>2, Typed
  <2>2. Empty(s)' BY <2>1 DEF Sound, Empty
  <2>3. InSight(s)' BY <2>1 DEF Sound, InSight, View
  <2>4. Judged(s)' BY <2>1 DEF Sound, Judged, Permitted, RuleFor
  <2>5. Cascaded(s)' BY <2>1 DEF Sound, Cascaded, Left, Refers, View
  <2>6. Shows(s)' BY <2>1 DEF Sound, Shows, Yes, Owned
  <2> QED BY <2>2, <2>3, <2>4, <2>5, <2>6 DEF Sound
<1> QED BY <1>1, <1>2 DEF PInv, Sound

(* A step of the request alone. *)
LEMMA ReqStep ==
    ASSUME PInv, NEW t \in Tasks, NEW q \in Requests, req' = [req EXCEPT ![t] = q],
           UNCHANGED <<db, rules, writes, moved, seen, served>>,
           Sound(t)'
    PROVE  PInv'
<1>1. /\ writes' = [writes EXCEPT ![t] = writes[t]] /\ writes[t] \in WriteSets
      /\ moved' = [moved EXCEPT ![t] = moved[t]] /\ moved[t] \in SUBSET Records
      /\ seen' = [seen EXCEPT ![t] = seen[t]] /\ seen[t] \in SUBSET AnyRow
      /\ \A r \in DOMAIN writes[t] : writes[t][r] \in RowsOf(r) \cup {Gone}
      /\ served' \in 0 .. MaxServed
  BY Typed
<1> QED BY <1>1, Step

(* Where nothing but the transaction is left to end or to go on. *)
LEMMA Rests ==
    ASSUME PInv, NEW t \in Tasks, NEW q \in Requests, req' = [req EXCEPT ![t] = q],
           q.at \in {"next", "done", "refused"}, q.op # "delete", q.adrift = req[t].adrift,
           q.at = "done" => q.op = "none" /\ q.ops < MaxOps,
           UNCHANGED <<db, rules, writes, moved, seen, served>>
    PROVE  PInv'
<1>1. req'[t] = q /\ Sound(t)
  BY Typed
<1>2. Empty(t)' /\ InSight(t)' /\ Judged(t)' /\ Shows(t)'
  BY <1>1 DEF Empty, InSight, Judged, Shows
<1>3. Cascaded(t)'
  BY <1>1 DEF Sound, Cascaded, Left, Refers, View
<1> QED BY <1>2, <1>3, ReqStep DEF Sound

(* A refused request has nothing left to do but to end. *)
LEMMA Refused ==
    ASSUME PInv, NEW t \in Tasks, Refuse(t), UNCHANGED quiet
    PROVE  PInv'
<1>1. PICK q : q = [req[t] EXCEPT !.at = "refused", !.rec = Gone, !.op = "none", !.body = Gone]
  OBVIOUS
<1>0. req[t] \in Requests
  BY Typed
<1>2. q \in Requests /\ q.at = "refused" /\ q.op = "none" /\ q.adrift = req[t].adrift
  BY <1>0, <1>1 DEF Requests, States
<1> QED BY <1>1, <1>2, Rests DEF Refuse, quiet


(* A request that is rolled back, or that has answered a read. *)
LEMMA Ended ==
    ASSUME PInv, NEW t \in Tasks, \/ Discards(t) /\ Ends(t)
                                  \/ Answered(t)
    PROVE  PInv'
<1>1. /\ req' = [req EXCEPT ![t] = Idle]
      /\ moved' = [moved EXCEPT ![t] = {}] /\ seen' = [seen EXCEPT ![t] = {}]
      /\ UNCHANGED <<db, rules, served>>
  BY DEF Discards, Ends, Answered
<1>2. PICK w \in WriteSets : writes' = [writes EXCEPT ![t] = w] /\ DOMAIN w = {}
  <2>1. CASE Ends(t)
    BY <2>1, WriteFacts DEF Ends
  <2>2. CASE Answered(t)
    <3>1. writes' = writes /\ req[t].at = "answered" /\ Sound(t) /\ writes[t] \in WriteSets
      BY <2>2, Typed DEF Answered
    <3>2. DOMAIN writes[t] = {} /\ writes' = [writes EXCEPT ![t] = writes[t]]
      BY <3>1, Typed DEF Sound, Empty
    <3> QED BY <3>1, <3>2
  <2> QED BY <2>1, <2>2
<1>3. /\ req'[t] = Idle /\ writes'[t] = w /\ served' \in 0 .. MaxServed
  BY <1>1, <1>2, Typed
<1>4. Empty(t)' /\ InSight(t)' /\ Judged(t)' /\ Shows(t)'
  BY <1>2, <1>3, IdleFields DEF Empty, InSight, Judged, Shows
<1>5. Cascaded(t)'
  BY <1>2, <1>3, IdleFields DEF Cascaded
<1> QED BY <1>1, <1>2, <1>3, <1>4, <1>5, Step, IdleFields DEF Sound

(* A request arrives, or begins its transaction. *)
LEMMA ArriveStep ==
    ASSUME PInv, NEW t \in Tasks,
           \/ BeginTransaction(t) \/ NextInBatch(t)
           \/ \E a \in Callers : _get_mutation_auth(t, a) \/ api_batch_records(t, a)
    PROVE  PInv'
<1>0. req[t] \in Requests /\ Sound(t)
  BY Typed
<1>1. CASE BeginTransaction(t)
  <2>1. PICK q : q = [req[t] EXCEPT !.at = "next"]
    OBVIOUS
  <2>2. q \in Requests /\ q.at = "next" /\ q.op = req[t].op /\ q.body = req[t].body
    BY <1>0, <2>1 DEF Requests, States
  <2>3. /\ req' = [req EXCEPT ![t] = q] /\ moved' = [moved EXCEPT ![t] = {}]
        /\ writes' = [writes EXCEPT ![t] = writes[t]] /\ seen' = [seen EXCEPT ![t] = seen[t]]
        /\ UNCHANGED <<db, rules>> /\ served' \in 0 .. MaxServed
        /\ DOMAIN writes[t] = {} /\ writes[t] \in WriteSets /\ seen[t] \in SUBSET AnyRow
    BY <1>0, <1>1, <2>1, Typed DEF BeginTransaction, Goes, Sound, Empty
  <2>4. req'[t] = q /\ writes'[t] = writes[t]
    BY <2>3, Typed
  <2>5. Sound(t)'
    BY <1>0, <2>2, <2>3, <2>4 DEF Sound, Empty, InSight, Judged, Cascaded, Shows
  <2> QED BY <2>2, <2>3, <2>5, Step
<1>2. CASE NextInBatch(t)
  <2>1. PICK q : q = [req[t] EXCEPT !.at = "next", !.ops = req[t].ops + 1]
    OBVIOUS
  <2>0. req[t].op = "none" /\ req[t].ops < MaxOps /\ req[t].ops \in 0 .. MaxOps /\ MaxOps \in Nat
    BY <1>0, <1>2, Fields, RecordApiAssumption DEF NextInBatch, Sound, InSight
  <2>3. req[t].ops + 1 \in 0 .. MaxOps
    BY <2>0
  <2>2. q \in Requests /\ q.at = "next" /\ q.op = "none" /\ q.adrift = req[t].adrift
    BY <1>0, <2>0, <2>1, <2>3 DEF Requests, States
  <2> QED BY <1>2, <2>1, <2>2, Rests DEF NextInBatch, quiet
<1>3. ASSUME NEW a \in Callers, NEW b \in BOOLEAN, Arrives(t, a, b) PROVE PInv'
  <2>1. PICK q : q = [Idle EXCEPT !.at = "arrived", !.auth = a, !.batch = b]
    OBVIOUS
  <2>2. /\ q \in Requests /\ q.at = "arrived" /\ q.op = "none"
    BY <2>1, IdleFields DEF Idle, Requests, States
  <2>3. /\ req' = [req EXCEPT ![t] = q] /\ DOMAIN writes[t] = {}
        /\ UNCHANGED <<db, rules, served, moved, seen, writes>>
    BY <1>0, <1>3, <2>1 DEF Arrives, quiet, Sound, Empty
  <2>4. req'[t] = q
    BY <2>3, Typed
  <2>5. Sound(t)'
    BY <2>2, <2>3, <2>4 DEF Sound, Empty, InSight, Judged, Cascaded, Shows
  <2> QED BY <2>2, <2>3, <2>5, ReqStep
<1> QED BY <1>1, <1>2, <1>3 DEF _get_mutation_auth, api_batch_records

(* The request resolves its collection: what it sees is remembered. *)
LEMMA ResolveStep ==
    ASSUME PInv, NEW t \in Tasks, NEW r \in Records,
           NEW op \in {"create", "update", "upsert", "delete"},
           NEW body, (body \in Bodies(r) /\ op # "delete") \/ (body = Gone /\ op = "delete"),
           resolve_collection(t, op, r, body)
    PROVE  PInv'
<1>0. req[t] \in Requests /\ Sound(t) /\ writes[t] \in WriteSets
  BY Typed
<1>1. PICK q : q = [req[t] EXCEPT !.at = "resolved", !.op = op, !.rec = r, !.body = body, !.related = {}]
  OBVIOUS
<1>2. body \in Users \cup {"verified", "password", Gone} /\ (r \in Posts /\ op # "delete" => body \in Users)
  BY IdsAssumption DEF Bodies
<1>3. q \in Requests
  BY <1>0, <1>1, <1>2 DEF Requests, States
<1>4. /\ q.at = "resolved" /\ q.op = op /\ q.rec = r /\ q.body = body /\ q.related = {}
      /\ q.adrift = req[t].adrift /\ q.ops = req[t].ops
  BY <1>0, <1>1 DEF Requests
<1>5. View(t, r) \in AnyRow
  BY <1>0, Typed, WriteFacts DEF View
<1>6. /\ req' = [req EXCEPT ![t] = q] /\ seen' = [seen EXCEPT ![t] = {View(t, r)}]
      /\ writes' = [writes EXCEPT ![t] = writes[t]] /\ moved' = [moved EXCEPT ![t] = moved[t]]
      /\ moved[t] \in SUBSET Records
      /\ UNCHANGED <<db, rules, writes, moved>> /\ req[t].at = "next"
  BY <1>1, Typed DEF resolve_collection
<1>s. served' \in 0 .. MaxServed
  BY Typed, RecordApiAssumption DEF resolve_collection
<1>t. \A x \in DOMAIN writes[t] : writes[t][x] \in RowsOf(x) \cup {Gone}
  BY Typed
<1>7. req[t].ops < MaxOps
  BY <1>0, RecordApiAssumption, Fields DEF resolve_collection, _get_batch_settings
<1>8. req'[t] = q /\ seen'[t] = {View(t, r)}
  BY <1>6, Typed
<1>9. Empty(t)' /\ Judged(t)' /\ Shows(t)'
  BY <1>4, <1>8 DEF Empty, Judged, Shows
<1>10. InSight(t)'
  BY <1>2, <1>4, <1>6, <1>7, <1>8 DEF InSight, View
<1>11. Cascaded(t)'
  BY <1>0, <1>4, <1>6, <1>8 DEF Sound, Cascaded, Left, Refers, View
<1>12. Sound(t)' BY <1>9, <1>10, <1>11 DEF Sound
<1>13. {View(t, r)} \in SUBSET AnyRow BY <1>5
<1> HIDE DEF Sound, View
<1> QED BY <1>0, <1>3, <1>6, <1>s, <1>t, <1>12, <1>13, Step

(* A request goes on to another stage with the same record. *)
LEMMA StageStep ==
    ASSUME PInv, NEW t \in Tasks, NEW q \in Requests, req' = [req EXCEPT ![t] = q],
           q.rec = req[t].rec, q.body = req[t].body, q.adrift = req[t].adrift, q.auth = req[t].auth,
           q.ops = req[t].ops, q.at \in {"judged", "managed", "cascade", "resolved"}, q.op # "view",
           req[t].at \in {"resolved", "judged"}, req[t].op # "view",
           q.op = "delete" => req[t].op = "delete",
           q.at = "resolved" => q.op \in {"create", "update"} /\ req[t].op = "upsert",
           q.at # "resolved" => q.op = req[t].op,
           q.at \in {"judged", "cascade", "managed"} => q.op \in {"update", "delete"} /\ Permitted(t, q.op),
           q.at = "cascade" => q.op = "delete" /\ q.related \subseteq Posts
                               /\ \A p \in Posts : Refers(t, p, q.rec) => p \in q.related,
           q.at = "managed" => q.op = "update" /\ (q.body = "verified" => Permitted(t, "manage")),
           UNCHANGED <<db, rules, writes, moved, seen, served>>
    PROVE  PInv'
<1>1. req'[t] = q /\ Sound(t)
  BY Typed
<1>2. Empty(t)' /\ Shows(t)'
  BY <1>1 DEF Empty, Shows
<1>3. InSight(t)'
  <2>1. InSight(t) BY <1>1 DEF Sound
  <2> QED BY <1>1, <2>1 DEF InSight, View
<1>4. Judged(t)'
  BY <1>1 DEF Sound, Judged, Permitted, RuleFor
<1>5. Cascaded(t)'
  BY <1>1 DEF Sound, Cascaded, Left, Refers, View
<1> QED BY <1>2, <1>3, <1>4, <1>5, ReqStep DEF Sound

(* The stages that judge a rule, refuse, or look for related records. *)
LEMMA JudgeStep ==
    ASSUME PInv, NEW t \in Tasks,
           \/ _execute_batch_upsert(t) \/ HookRefuses(t) \/ JudgeCreated(t) \/ JudgeUpdate(t)
           \/ JudgeExisting(t, "delete", "judged") \/ JudgeManaged(t) \/ _cascade_delete(t)
    PROVE  PInv'
<1>0. req[t] \in Requests /\ Sound(t)
  BY Typed
<1>1. CASE _execute_batch_upsert(t)
  <2>1. PICK q, op : q = [req[t] EXCEPT !.op = op] /\ op \in {"update", "create"} /\ req' = [req EXCEPT ![t] = q]
    BY <1>1 DEF _execute_batch_upsert
  <2>2. /\ req[t].at = "resolved" /\ req[t].op = "upsert" /\ UNCHANGED <<db, rules, writes, moved, seen, served>>
    BY <1>1 DEF _execute_batch_upsert, quiet
  <2>3. q \in Requests
    BY <1>0, <2>1 DEF Requests
  <2>4. /\ q.at = req[t].at /\ q.op = op /\ q.rec = req[t].rec /\ q.body = req[t].body /\ q.adrift = req[t].adrift
        /\ q.auth = req[t].auth /\ q.ops = req[t].ops
    BY <1>0, <2>1 DEF Requests
  <2> QED BY <2>1, <2>2, <2>3, <2>4, StageStep
<1>2. CASE HookRefuses(t)
  BY <1>2, Refused DEF HookRefuses
<1>3. CASE JudgeCreated(t)
  <2>1. UNCHANGED quiet /\ (Refuse(t) \/ (Done(t) /\ UNCHANGED writes))
    BY <1>3 DEF JudgeCreated
  <2>2. CASE Refuse(t) BY <2>1, <2>2, Refused
  <2>3. CASE Done(t) /\ UNCHANGED writes
    <3>1. PICK q : q = [req[t] EXCEPT !.at = "done", !.op = "none", !.rec = Gone, !.body = Gone]
      OBVIOUS
    <3>2. q \in Requests /\ q.at = "done" /\ q.op = "none" /\ q.adrift = req[t].adrift /\ q.ops = req[t].ops
      BY <1>0, <3>1 DEF Requests, States
    <3>3. req[t].ops < MaxOps BY <1>0, <1>3 DEF JudgeCreated, Sound, InSight
    <3>4. req' = [req EXCEPT ![t] = q] /\ UNCHANGED <<db, rules, writes, moved, seen, served>>
      BY <1>0, <2>1, <2>3, <3>1 DEF Done, quiet, Requests
    <3> QED BY <3>2, <3>3, <3>4, Rests
  <2> QED BY <2>1, <2>2, <2>3
<1>4. ASSUME NEW op \in {"update", "delete"}, NEW next \in {"judged", "managed"},
             JudgeExisting(t, op, next),
             op = "delete" => next = "judged", next = "managed" => req[t].rec \notin Users
      PROVE  PInv'
  <2>1. UNCHANGED quiet /\ req[t].at = "resolved" /\ req[t].op = op
    BY <1>4 DEF JudgeExisting
  <2>2. CASE Refuse(t) BY <2>1, <2>2, Refused
  <2>3. CASE ~Refuse(t)
    <3>1. Goes(t, next) /\ UNCHANGED writes /\ Allows(RuleFor(t)[op], req[t].auth, req[t].rec, View(t, req[t].rec))
      BY <1>4, <2>3 DEF JudgeExisting
    <3>2. View(t, req[t].rec) \in seen[t] /\ req[t].rec \in Records
      BY <1>0, <2>1 DEF Sound, InSight
    <3>3. Permitted(t, op)
      BY <2>1, <3>1, <3>2 DEF Permitted
    <3>4. PICK q : q = [req[t] EXCEPT !.at = next]
      OBVIOUS
    <3>5. q \in Requests
      BY <1>0, <3>4 DEF Requests, States
    <3>6. /\ q.at = next /\ q.op = op /\ q.rec = req[t].rec /\ q.body = req[t].body /\ q.adrift = req[t].adrift
          /\ q.auth = req[t].auth /\ q.ops = req[t].ops
      BY <1>0, <2>1, <3>4 DEF Requests
    <3>7. next = "managed" => q.body # "verified"
      BY <1>0, <1>4, <2>1, <3>2, <3>6, IdsAssumption DEF Sound, InSight, Records
    <3> HIDE DEF Permitted
    <3> QED BY <1>4, <2>1, <3>1, <3>3, <3>4, <3>5, <3>6, <3>7, StageStep DEF Goes, quiet
  <2> QED BY <2>2, <2>3
<1>5. CASE JudgeManaged(t)
  <2>1. UNCHANGED quiet /\ req[t].at = "judged" /\ req[t].op = "update"
    BY <1>5 DEF JudgeManaged
  <2>2. CASE Refuse(t) BY <2>1, <2>2, Refused
  <2>3. CASE ~Refuse(t)
    <3>1. /\ Goes(t, "managed") /\ UNCHANGED writes
          /\ req[t].body = "verified" => Allows(RuleFor(t).manage, req[t].auth, req[t].rec, View(t, req[t].rec))
      BY <1>5, <2>3 DEF JudgeManaged, _has_manage_access_for_auth_record
    <3>2. View(t, req[t].rec) \in seen[t] /\ Permitted(t, "update")
      BY <1>0, <2>1 DEF Sound, InSight, Judged
    <3>3. req[t].body = "verified" => Permitted(t, "manage")
      BY <2>1, <3>1, <3>2 DEF Permitted
    <3>4. PICK q : q = [req[t] EXCEPT !.at = "managed"]
      OBVIOUS
    <3>5. q \in Requests
      BY <1>0, <3>4 DEF Requests, States
    <3>6. /\ q.at = "managed" /\ q.op = "update" /\ q.rec = req[t].rec /\ q.body = req[t].body /\ q.adrift = req[t].adrift
          /\ q.auth = req[t].auth /\ q.ops = req[t].ops
      BY <1>0, <2>1, <3>4 DEF Requests
    <3> HIDE DEF Permitted
    <3> QED BY <2>1, <3>1, <3>2, <3>3, <3>4, <3>5, <3>6, StageStep DEF Goes, quiet
  <2> QED BY <2>2, <2>3
<1>6. CASE _cascade_delete(t)
  <2>1. UNCHANGED quiet /\ req[t].at = "judged" /\ req[t].op = "delete"
    BY <1>6 DEF _cascade_delete
  <2>2. CASE Refuse(t) BY <2>1, <2>2, Refused
  <2>3. CASE ~Refuse(t)
    <3>1. PICK q, related :
             /\ related = {p \in Posts : View(t, p) # Gone /\ View(t, p).author = req[t].rec}
             /\ q = [req[t] EXCEPT !.at = "cascade", !.related = related]
             /\ req' = [req EXCEPT ![t] = q]
             /\ UNCHANGED writes
      BY <1>6, <2>3 DEF _cascade_delete
    <3>2. Permitted(t, "delete")
      BY <1>0, <2>1 DEF Sound, Judged
    <3>3. related \subseteq Posts /\ related \subseteq Records
      BY <3>1 DEF Records
    <3>5. q \in Requests
      BY <1>0, <3>1, <3>3 DEF Requests, States
    <3>6. /\ q.at = "cascade" /\ q.op = "delete" /\ q.rec = req[t].rec /\ q.body = req[t].body /\ q.adrift = req[t].adrift
          /\ q.auth = req[t].auth /\ q.ops = req[t].ops /\ q.related = related
      BY <1>0, <2>1, <3>1 DEF Requests
    <3>7. \A p \in Posts : Refers(t, p, q.rec) => p \in q.related
      BY <3>1, <3>6 DEF Refers
    <3> HIDE DEF Permitted
    <3> QED BY <2>1, <3>1, <3>2, <3>3, <3>5, <3>6, <3>7, StageStep DEF quiet
  <2> QED BY <2>2, <2>3
<1> QED BY <1>1, <1>2, <1>3, <1>4, <1>5, <1>6 DEF JudgeUpdate

(* A statement of the transaction sets a row. *)
LEMMA WriteStep ==
    ASSUME PInv, NEW t \in Tasks, NEW r, NEW row, Writes(t, r, row)
    PROVE  /\ DOMAIN writes'[t] = DOMAIN writes[t] \cup {r}
           /\ writes'[t] = [x \in DOMAIN writes[t] \cup {r} |-> IF x = r THEN row ELSE writes[t][x]]
  BY Typed DEF Writes

(* Its transaction is well formed after it. *)
LEMMA WriteKeeps ==
    ASSUME PInv, NEW t \in Tasks, NEW q \in Requests, NEW r \in Records,
           NEW row \in RowsOf(r) \cup {Gone},
           req' = [req EXCEPT ![t] = q], Writes(t, r, row), UNCHANGED quiet, Sound(t)'
    PROVE  PInv'
<1>0. writes[t] \in WriteSets /\ Sound(t)
  BY Typed
<1>1. PICK w : w = [x \in DOMAIN writes[t] \cup {r} |-> IF x = r THEN row ELSE writes[t][x]]
  OBVIOUS
<1>2. row \in AnyRow
  BY DEF AnyRow, RowsOf
<1>3. w \in WriteSets
  BY <1>0, <1>1, <1>2, WriteFacts
<1>4. /\ DOMAIN w = DOMAIN writes[t] \cup {r} /\ w[r] = row
      /\ \A x \in DOMAIN writes[t] : x # r => w[x] = writes[t][x]
  BY <1>1
<1>5. /\ writes' = [writes EXCEPT ![t] = w]
  BY <1>1 DEF Writes
<1>6. writes'[t] = w /\ req'[t] = q /\ UNCHANGED <<db, rules, moved, seen, served>>
  BY <1>5, Typed DEF quiet
<1>7. \A x \in DOMAIN w : w[x] \in RowsOf(x) \cup {Gone}
  BY <1>4, Typed
<1>9. /\ moved' = [moved EXCEPT ![t] = moved[t]] /\ moved[t] \in SUBSET Records
      /\ seen' = [seen EXCEPT ![t] = seen[t]] /\ seen[t] \in SUBSET AnyRow
      /\ served' \in 0 .. MaxServed
  BY <1>6, Typed
<1> HIDE DEF Sound
<1> QED BY <1>3, <1>5, <1>6, <1>7, <1>9, Step

(* A row is given a new content: what was swept stays swept. *)
LEMMA GivenStep ==
    ASSUME PInv, NEW t \in Tasks, NEW q \in Requests, NEW r \in Records, NEW row \in RowsOf(r),
           req' = [req EXCEPT ![t] = q], Writes(t, r, row), UNCHANGED quiet,
           req[t].at \in {"resolved", "managed"}, req[t].op \in {"create", "update"}, r = req[t].rec,
           r \in Posts => row = [author |-> req[t].body],
           q.adrift = req[t].adrift \cup Strays(t, r),
           q.ops = req[t].ops,
           \/ /\ q.at = "inserted" /\ q.op = "create" /\ q.rec = r /\ q.body = req[t].body
              /\ row = NewRow(r, q.body)
           \/ q.at = "done" /\ q.op = "none"
    PROVE  PInv'
<1>0. Sound(t) /\ row # Gone /\ req[t] \in Requests
  BY Typed, IdsAssumption DEF RowsOf
<1>1. /\ req'[t] = q /\ db' = db /\ rules' = rules
      /\ moved'[t] = moved[t] /\ seen'[t] = seen[t]
      /\ DOMAIN writes'[t] = DOMAIN writes[t] \cup {r}
      /\ writes'[t][r] = row
      /\ \A x \in DOMAIN writes[t] : x # r => writes'[t][x] = writes[t][x]
  <2>1. row \in RowsOf(r) \cup {Gone} OBVIOUS
  <2>2. /\ DOMAIN writes'[t] = DOMAIN writes[t] \cup {r} /\ writes'[t][r] = row
        /\ \A x \in DOMAIN writes[t] : x # r => writes'[t][x] = writes[t][x]
    <3>1. writes'[t] = [x \in DOMAIN writes[t] \cup {r} |-> IF x = r THEN row ELSE writes[t][x]]
      BY Typed DEF Writes
    <3> QED BY <3>1
  <2> QED BY <2>2, Typed DEF quiet
<1>w. ASSUME Sound(t)' PROVE PInv'
  <2>1. row \in RowsOf(r) \cup {Gone} OBVIOUS
  <2> QED BY <1>w, <2>1, WriteKeeps
<1>v. \A x : View(t, x)' = IF x = r THEN row ELSE View(t, x)
  BY <1>1 DEF View
<1>2. Empty(t)' /\ Judged(t)' /\ Shows(t)'
  BY <1>1 DEF Empty, Judged, Shows
<1>3. InSight(t)'
  <2>1. InSight(t) BY <1>0 DEF Sound
  <2> QED BY <1>1, <2>1 DEF InSight
<1>4. Cascaded(t)'
  <2>1. SUFFICES ASSUME NEW u \in Users, u \in DOMAIN writes'[t], writes'[t][u] = Gone,
                        NEW p \in Left(t)', Refers(t, p, u)'
                 PROVE  FALSE
    BY <1>1 DEF Cascaded
  <2>2. u # r /\ u \in DOMAIN writes[t] /\ writes[t][u] = Gone /\ p \in Posts /\ p \notin Strays(t, r)
    BY <1>0, <1>1, <2>1 DEF Left
  <2>3. p \in Left(t) /\ (p # r => View(t, p)' = View(t, p))
    BY <1>0, <1>1, <1>v, <2>1 DEF Left
  <2>4. ~Refers(t, p, u)
    BY <1>0, <2>2, <2>3 DEF Sound, Cascaded
  <2>5. p = r
    BY <2>1, <2>3, <2>4 DEF Refers
  <2>6. row.author = u /\ row = [author |-> req[t].body]
    BY <1>1, <1>v, <2>1, <2>2, <2>5 DEF Refers
  <2>7. View(t, req[t].body) = Gone
    BY <2>2, <2>6 DEF View
  <2> QED BY <2>2, <2>5, <2>7 DEF Strays
<1>5. Sound(t)' BY <1>2, <1>3, <1>4 DEF Sound
<1> QED BY <1>5, <1>w

(* The statements that insert and update. *)
LEMMA GiveSteps ==
    ASSUME PInv, NEW t \in Tasks, create_record(t) \/ update_record(t)
    PROVE  PInv'
<1>0. req[t] \in Requests /\ Sound(t) /\ UNCHANGED quiet
  BY Typed DEF create_record, update_record
<1>1. CASE Refuse(t) BY <1>0, <1>1, Refused
<1>s. Strays(t, req[t].rec) \subseteq Posts
  BY DEF Strays
<1>2. CASE create_record(t) /\ ~Refuse(t)
  <2>1. PICK r, q : /\ r = req[t].rec
                    /\ q = [req[t] EXCEPT !.at = "inserted", !.adrift = @ \cup Strays(t, r)]
    OBVIOUS
  <2>2. /\ req[t].at = "resolved" /\ req[t].op = "create"
        /\ Writes(t, r, NewRow(r, req[t].body)) /\ req' = [req EXCEPT ![t] = q]
    BY <1>2, <2>1 DEF create_record
  <2>3. q \in Requests
    BY <1>0, <1>s, <2>1 DEF Requests, States
  <2>4. /\ q.at = "inserted" /\ q.op = "create" /\ q.rec = r /\ q.body = req[t].body /\ q.ops = req[t].ops
        /\ q.adrift = req[t].adrift \cup Strays(t, r)
    BY <1>0, <2>1, <2>2 DEF Requests
  <2>5. r \in Records /\ (r \in Posts => req[t].body \in Users)
    BY <1>0, <2>1, <2>2 DEF Sound, InSight
  <2>6. /\ r \in Posts => r \notin Users /\ NewRow(r, req[t].body) = [author |-> req[t].body]
        /\ NewRow(r, req[t].body) \in RowsOf(r)
    BY <2>5, IdsAssumption DEF NewRow, RowsOf, UserRow, PostRow, Records
  <2> QED BY <1>0, <2>1, <2>2, <2>3, <2>4, <2>5, <2>6, GivenStep
<1>3. CASE update_record(t) /\ ~Refuse(t)
  <2>1. PICK r, q : /\ r = req[t].rec
                    /\ q = [req[t] EXCEPT !.at = "done", !.op = "none", !.rec = Gone, !.body = Gone,
                                          !.adrift = @ \cup Strays(t, r)]
    OBVIOUS
  <2>2. /\ req[t].at = "managed" /\ View(t, r) # Gone
        /\ Writes(t, r, NewValue(t, r)) /\ req' = [req EXCEPT ![t] = q]
    BY <1>3, <2>1 DEF update_record
  <2>3. q \in Requests
    BY <1>0, <1>s, <2>1 DEF Requests, States
  <2>4. /\ q.at = "done" /\ q.op = "none" /\ q.ops = req[t].ops
        /\ q.adrift = req[t].adrift \cup Strays(t, r)
    BY <1>0, <2>1, <2>2 DEF Requests
  <2>5. req[t].op = "update" /\ r \in Records /\ (r \in Posts => req[t].body \in Users)
    BY <1>0, <2>1, <2>2 DEF Sound, InSight, Judged
  <2>6. View(t, r) \in RowsOf(r)
    BY <2>2, <2>5, Typed DEF View
  <2>7. r \in Users => View(t, r).verified \in BOOLEAN
    BY <2>6 DEF RowsOf, UserRow
  <2>8. r \in Users => NewValue(t, r) \in RowsOf(r)
    BY <2>1, <2>7, IdsAssumption DEF NewValue, RowsOf, UserRow
  <2>9. r \in Posts => NewValue(t, r) = [author |-> req[t].body] /\ NewValue(t, r) \in RowsOf(r)
    BY <2>5, IdsAssumption DEF NewValue, RowsOf, PostRow
  <2>10. NewValue(t, r) \in RowsOf(r)
    BY <2>5, <2>8, <2>9 DEF Records
  <2> QED BY <1>0, <2>1, <2>2, <2>3, <2>4, <2>5, <2>9, <2>10, GivenStep
<1> QED BY <1>1, <1>2, <1>3

(* The statements that delete. *)
LEMMA DeleteSteps ==
    ASSUME PInv, NEW t \in Tasks, (\E p \in Posts : DeleteRelated(t, p)) \/ delete_record(t)
    PROVE  PInv'
<1>0. req[t] \in Requests /\ Sound(t) /\ UNCHANGED quiet /\ req[t].at = "cascade" /\ req[t].op = "delete"
      /\ req[t].ops < MaxOps /\ req[t].body = Gone /\ req[t].rec \in Records
  <2>1. req[t] \in Requests /\ Sound(t) /\ UNCHANGED quiet /\ req[t].at = "cascade"
    BY Typed DEF DeleteRelated, delete_record
  <2> QED BY <2>1 DEF Sound, Judged, InSight
<1>1. ASSUME NEW p \in Posts, DeleteRelated(t, p) PROVE PInv'
  <2>1. PICK q : q = [req[t] EXCEPT !.related = @ \ {p}]
    OBVIOUS
  <2>2. /\ q \in Requests /\ q.at = "cascade" /\ q.op = "delete" /\ q.rec = req[t].rec /\ q.body = req[t].body
        /\ q.ops = req[t].ops /\ q.adrift = req[t].adrift /\ q.related = req[t].related \ {p} /\ q.auth = req[t].auth
    BY <1>0, <2>1 DEF Requests
  <2>3. req' = [req EXCEPT ![t] = q] /\ p \in Records /\ p \notin Users
    BY <1>1, <2>1, IdsAssumption DEF DeleteRelated, Records
  <2>4. /\ req'[t] = q /\ db' = db /\ rules' = rules
        /\ moved'[t] = moved[t] /\ seen'[t] = seen[t]
        /\ DOMAIN writes'[t] \subseteq DOMAIN writes[t] \cup {p}
        /\ \A x \in DOMAIN writes'[t] : x # p => x \in DOMAIN writes[t] /\ writes'[t][x] = writes[t][x]
        /\ \A x : View(t, x)' = IF x = p THEN Gone ELSE View(t, x)
        /\ Sound(t)' => PInv'
    <3>1. CASE View(t, p) = Gone
      <4>1. UNCHANGED <<db, rules, writes, moved, seen, served>> /\ req'[t] = q
        BY <1>0, <1>1, <2>3, <3>1, Typed DEF DeleteRelated, quiet
      <4>2. Sound(t)' => PInv'
        <5> HIDE DEF Sound
        <5> QED BY <2>2, <2>3, <4>1, ReqStep
      <4> QED BY <3>1, <4>1, <4>2 DEF View
    <3>2. CASE View(t, p) # Gone
      <4>1. Writes(t, p, Gone)
        BY <1>1, <3>2 DEF DeleteRelated
      <4>2. Gone \in RowsOf(p) \cup {Gone} OBVIOUS
      <4>3. /\ DOMAIN writes'[t] = DOMAIN writes[t] \cup {p}
            /\ \A x \in DOMAIN writes[t] : x # p => writes'[t][x] = writes[t][x]
            /\ writes'[t][p] = Gone
        <5>1. writes'[t] = [x \in DOMAIN writes[t] \cup {p} |-> IF x = p THEN Gone ELSE writes[t][x]]
          BY <4>1, WriteStep
        <5> QED BY <5>1
      <4>7. /\ req'[t] = q /\ db' = db /\ rules' = rules
            /\ moved'[t] = moved[t] /\ seen'[t] = seen[t]
        BY <1>0, <2>3, Typed DEF quiet
      <4>6. ASSUME Sound(t)' PROVE PInv'
        BY <1>0, <2>2, <2>3, <4>1, <4>2, <4>6, WriteKeeps
      <4>5. \A x : View(t, x)' = IF x = p THEN Gone ELSE View(t, x)
        BY <4>3, <4>7 DEF View
      <4> QED BY <4>3, <4>5, <4>6, <4>7
    <3> QED BY <3>1, <3>2
  <2>5. Empty(t)' /\ Shows(t)'
    BY <2>2, <2>4 DEF Empty, Shows
  <2>6. InSight(t)'
    BY <1>0, <2>2, <2>4 DEF InSight
  <2>7. Judged(t)'
    BY <1>0, <2>2, <2>4 DEF Sound, Judged, Permitted, RuleFor
  <2>8. Cascaded(t)'
    <3>1. Left(t)' = Left(t) /\ Left(t) \subseteq Posts
      BY <2>2, <2>4 DEF Left
    <3>2. \A x \in Posts : \A u : Refers(t, x, u)' => x # p /\ Refers(t, x, u)
      BY <2>4 DEF Refers
    <3>3. ASSUME NEW u \in Users, u \in DOMAIN writes'[t], writes'[t][u] = Gone
          PROVE  \A x \in Left(t)' : ~Refers(t, x, u)'
      <4>1. u \in DOMAIN writes[t] /\ writes[t][u] = Gone
        BY <2>3, <2>4, <3>3
      <4> QED BY <1>0, <3>1, <3>2, <4>1 DEF Sound, Cascaded
    <3>4. (/\ req[t].related \subseteq Posts
           /\ \A x \in Left(t) : Refers(t, x, req[t].rec) => x \in req[t].related)'
      <4>1. Cascaded(t) BY <1>0 DEF Sound
      <4>2. \A x \in Left(t) : Refers(t, x, req[t].rec) => x \in req[t].related
        BY <1>0, <4>1 DEF Cascaded
      <4>3. req[t].related \subseteq Posts
        BY <1>0, <4>1 DEF Cascaded
      <4>4. req'[t].rec = req[t].rec /\ req'[t].related = req[t].related \ {p}
        BY <2>2, <2>4
      <4> QED BY <3>1, <3>2, <4>2, <4>3, <4>4
    <3> QED BY <3>3, <3>4 DEF Cascaded
  <2> QED BY <2>4, <2>5, <2>6, <2>7, <2>8 DEF Sound
<1>2. CASE delete_record(t)
  <2>1. PICK q, r : /\ q = [req[t] EXCEPT !.at = "done", !.op = "none", !.rec = Gone, !.body = Gone]
                    /\ r = req[t].rec
    OBVIOUS
  <2>2. /\ q \in Requests /\ q.at = "done" /\ q.op = "none" /\ q.adrift = req[t].adrift /\ q.ops = req[t].ops
    BY <1>0, <2>1 DEF Requests, States
  <2>3. req' = [req EXCEPT ![t] = q] /\ req[t].related = {}
    BY <1>0, <1>2, <2>1 DEF delete_record, Done, Requests
  <2>4. CASE View(t, r) = Gone
    <3>1. UNCHANGED <<db, rules, writes, moved, seen, served>>
      BY <1>0, <1>2, <2>1, <2>4 DEF delete_record, quiet
    <3> QED BY <1>0, <2>2, <2>3, <3>1, Rests
  <2>5. CASE View(t, r) # Gone
    <3>1. Writes(t, r, Gone)
      BY <1>2, <2>1, <2>5 DEF delete_record
    <3>2. /\ req'[t] = q /\ db' = db /\ rules' = rules
          /\ moved'[t] = moved[t] /\ seen'[t] = seen[t]
          /\ DOMAIN writes'[t] = DOMAIN writes[t] \cup {r}
          /\ \A x \in DOMAIN writes[t] : x # r => writes'[t][x] = writes[t][x]
          /\ writes'[t][r] = Gone
      <4>1. Gone \in RowsOf(r) \cup {Gone} /\ r \in Records BY <1>0, <2>1
      <4>2. /\ DOMAIN writes'[t] = DOMAIN writes[t] \cup {r} /\ writes'[t][r] = Gone
            /\ \A x \in DOMAIN writes[t] : x # r => writes'[t][x] = writes[t][x]
        <5>1. writes'[t] = [x \in DOMAIN writes[t] \cup {r} |-> IF x = r THEN Gone ELSE writes[t][x]]
          BY <3>1, WriteStep
        <5> QED BY <5>1
      <4> QED BY <1>0, <2>3, <4>2, Typed DEF quiet
    <3>3. Empty(t)' /\ Shows(t)' /\ InSight(t)' /\ Judged(t)'
      BY <1>0, <2>2, <3>2 DEF Empty, Shows, InSight, Judged
    <3>4. Cascaded(t)'
      <4>1. Left(t)' = Left(t)
        BY <2>2, <3>2 DEF Left
      <4>2. \A x, u : Refers(t, x, u)' => Refers(t, x, u)
        BY <3>2 DEF Refers, View
      <4>3. ASSUME NEW u \in Users, u \in DOMAIN writes'[t], writes'[t][u] = Gone
            PROVE  \A x \in Left(t)' : ~Refers(t, x, u)'
        <5>1. CASE u = r
          <6>1. \A x \in Left(t) : ~Refers(t, x, r)
            BY <1>0, <2>1, <2>3 DEF Sound, Cascaded
          <6> QED BY <4>1, <4>2, <5>1, <6>1
        <5>2. CASE u # r
          <6>1. u \in DOMAIN writes[t] /\ writes[t][u] = Gone
            BY <3>2, <4>3, <5>2
          <6> QED BY <1>0, <4>1, <4>2, <6>1 DEF Sound, Cascaded
        <5> QED BY <5>1, <5>2
      <4> QED BY <2>2, <3>2, <4>3 DEF Cascaded
    <3>5. Sound(t)' BY <3>3, <3>4 DEF Sound
    <3>6. Gone \in RowsOf(r) \cup {Gone} /\ r \in Records BY <1>0, <2>1
    <3> QED BY <1>0, <2>2, <2>3, <3>1, <3>5, <3>6, WriteKeeps
  <2> QED BY <2>4, <2>5
<1> QED BY <1>1, <1>2

(* A list or a view is asked for: nothing is written by it. *)
LEMMA ReadStep ==
    ASSUME PInv, NEW t \in Tasks, NEW q \in Requests, req' = [req EXCEPT ![t] = q],
           moved' = [moved EXCEPT ![t] = {}], served' = served + 1, served < MaxServed,
           UNCHANGED <<db, rules, writes, seen>>, req[t].at = "idle",
           q.op = "view",
           \/ q.at = "resolved" /\ q.rec \in Posts /\ q.ops = 0
           \/ q.at = "answered" /\ ((check_rule(rules["posts"].view, q.auth) = "yes")
                                    \/ \A row \in q.shown : row.author = q.auth)
    PROVE  PInv'
<1>1. /\ req'[t] = q /\ writes'[t] = writes[t] /\ DOMAIN writes[t] = {} /\ rules' = rules
      /\ writes' = [writes EXCEPT ![t] = writes[t]] /\ seen' = [seen EXCEPT ![t] = seen[t]]
      /\ writes[t] \in WriteSets /\ seen[t] \in SUBSET AnyRow /\ {} \in SUBSET Records
      /\ \A r \in DOMAIN writes[t] : writes[t][r] \in RowsOf(r) \cup {Gone}
  BY Typed DEF Sound, Empty
<1>2. served' \in 0 .. MaxServed
  BY Typed, RecordApiAssumption
<1>3. Empty(t)' /\ Judged(t)' /\ Cascaded(t)'
  BY <1>1 DEF Empty, Judged, Cascaded
<1>4. InSight(t)'
  BY <1>1, RecordApiAssumption DEF InSight, Records
<1>5. Shows(t)'
  BY <1>1 DEF Shows, Yes, Owned
<1>6. Sound(t)' BY <1>3, <1>4, <1>5 DEF Sound
<1> HIDE DEF Sound
<1> QED BY <1>1, <1>2, <1>6, Step

(* The stages of a view, and a list. *)
LEMMA ViewSteps ==
    ASSUME PInv, NEW t \in Tasks,
           \/ \E a \in Callers, p \in Posts : ViewRequest(t, a, p)
           \/ get_record(t) \/ _default_view_handler(t) \/ expand_records(t)
           \/ \E a \in Callers, f \in Filters : list_records(t, a, f)
    PROVE  PInv'
<1>0. req[t] \in Requests /\ Sound(t)
  BY Typed
<1>1. ASSUME NEW a \in Callers, NEW p \in Posts, ViewRequest(t, a, p) PROVE PInv'
  <2>1. PICK q : q = [Idle EXCEPT !.at = "resolved", !.auth = a, !.op = "view", !.rec = p]
    OBVIOUS
  <2>2. q \in Requests /\ q.at = "resolved" /\ q.op = "view" /\ q.rec = p /\ q.ops = 0
    BY <2>1, IdleFields DEF Idle, Requests, States, Records
  <2>3. /\ req' = [req EXCEPT ![t] = q] /\ moved' = [moved EXCEPT ![t] = {}] /\ served' = served + 1
        /\ served < MaxServed /\ UNCHANGED <<db, rules, writes, seen>> /\ req[t].at = "idle"
    BY <1>1, <2>1 DEF ViewRequest
  <2> QED BY <2>2, <2>3, ReadStep
<1>2. ASSUME NEW a \in Callers, NEW f \in Filters, list_records(t, a, f) PROVE PInv'
  <2>1. PICK rows, shown, q :
           /\ rows = {p \in Posts : db[p] # Gone /\ effective_filter(rules["posts"].view, a, f, p)}
           /\ shown = IF check_rule(rules["posts"].view, a) = "no" THEN {} ELSE {db[p] : p \in rows}
           /\ q = [Idle EXCEPT !.at = "answered", !.auth = a, !.op = "view", !.shown = shown]
    OBVIOUS
  <2>2. /\ req' = [req EXCEPT ![t] = q] /\ moved' = [moved EXCEPT ![t] = {}] /\ served' = served + 1
        /\ served < MaxServed /\ UNCHANGED <<db, rules, writes, seen>> /\ req[t].at = "idle"
    BY <1>2, <2>1 DEF list_records
  <2>3. \A p \in rows : p \in Posts /\ p \in Records /\ p \notin Users /\ db[p] \in AnyRow
    BY <2>1, Typed, IdsAssumption DEF Records
  <2>4. shown \subseteq AnyRow
    BY <2>1, <2>3
  <2>5. q \in Requests /\ q.at = "answered" /\ q.op = "view" /\ q.auth = a /\ q.shown = shown
    BY <2>1, <2>4, IdleFields DEF Idle, Requests, States
  <2>6. \/ check_rule(rules["posts"].view, a) = "yes"
        \/ \A row \in shown : row.author = a
    BY <2>1, <2>3 DEF effective_filter, Allows, check_record_rule
  <2>7. \/ check_rule(rules["posts"].view, q.auth) = "yes"
        \/ \A row \in q.shown : row.author = q.auth
    BY <2>5, <2>6
  <2> HIDE DEF check_rule
  <2> QED BY <2>2, <2>5, <2>7, ReadStep
<1>3. CASE Discards(t) /\ Ends(t)
  BY <1>3, Ended
<1>4. ASSUME NEW q \in Requests, req' = [req EXCEPT ![t] = q],
             q.at \in {"read", "checked", "answered"},
             q.op = req[t].op, q.body = req[t].body,
             req[t].at \in {"read", "checked"} \/ (req[t].at = "resolved" /\ req[t].op = "view"),
             UNCHANGED <<db, rules, served, moved, seen, writes>>, Shows(t)'
      PROVE  PInv'
  <2>1. req'[t] = q /\ DOMAIN writes[t] = {} /\ writes' = writes
    BY <1>0, <1>4, Typed DEF Sound, Empty
  <2>2. Empty(t)' /\ InSight(t)' /\ Judged(t)' /\ Cascaded(t)'
    BY <1>0, <1>4, <2>1 DEF Sound, Empty, InSight, Judged, Cascaded
  <2>3. Sound(t)' BY <1>4, <2>2 DEF Sound
  <2> HIDE DEF Sound
  <2> QED BY <1>4, <2>3, ReqStep
<1>5. CASE get_record(t) /\ ~(Discards(t) /\ Ends(t))
  <2>1. PICK q : q = [req[t] EXCEPT !.at = "read", !.shown = {db[req[t].rec]}]
    OBVIOUS
  <2>2. /\ req' = [req EXCEPT ![t] = q] /\ UNCHANGED <<db, rules, served, moved, seen, writes>>
        /\ req[t].at = "resolved" /\ req[t].op = "view"
    BY <1>5, <2>1 DEF get_record, quiet
  <2>3. req[t].rec \in Posts /\ req[t].rec \in Records
    BY <1>0, <2>2 DEF Sound, Shows, Records
  <2>4. {db[req[t].rec]} \in SUBSET AnyRow
    BY <2>3, Typed
  <2>5. /\ q \in Requests
    BY <1>0, <2>1, <2>4 DEF Requests, States
  <2>6. q.at = "read" /\ q.op = req[t].op /\ q.body = req[t].body /\ q.rec = req[t].rec /\ q.shown = {db[req[t].rec]}
    BY <1>0, <2>1, <2>2 DEF Requests
  <2>7. req'[t] = q BY <2>2, Typed
  <2>8. Shows(t)' BY <2>2, <2>3, <2>6, <2>7 DEF Shows
  <2> QED BY <1>4, <2>2, <2>5, <2>6, <2>8
<1>6. CASE _default_view_handler(t) /\ ~(Discards(t) /\ Ends(t))
  <2>1. PICK q : q = [req[t] EXCEPT !.at = "checked"]
    OBVIOUS
  <2>2. /\ req' = [req EXCEPT ![t] = q] /\ UNCHANGED <<db, rules, served, moved, seen, writes>>
        /\ req[t].at = "read" /\ Allows(RuleFor(t).view, req[t].auth, req[t].rec, db[req[t].rec])
    BY <1>6, <2>1 DEF _default_view_handler, quiet, Goes
  <2>3. /\ req[t].rec \in Posts /\ req[t].rec \notin Users /\ RuleFor(t) = rules["posts"]
        /\ req[t].rec \in moved[t] \/ req[t].shown = {db[req[t].rec]}
    BY <1>0, <2>2, IdsAssumption DEF Sound, Shows, RuleFor, CollectionOf
  <2>4. req[t].rec \in moved[t] \/ Yes(t) \/ Owned(t)
    BY <2>2, <2>3 DEF Yes, Owned, Allows, check_record_rule
  <2>5. q \in Requests
    BY <1>0, <2>1 DEF Requests, States
  <2>6. /\ q.at = "checked" /\ q.op = req[t].op /\ q.rec = req[t].rec /\ q.shown = req[t].shown
        /\ q.auth = req[t].auth /\ q.body = req[t].body
    BY <1>0, <2>1 DEF Requests
  <2>7. req'[t] = q BY <2>2, Typed
  <2>8. Shows(t)' BY <2>2, <2>3, <2>4, <2>6, <2>7 DEF Shows, Yes, Owned
  <2> QED BY <1>4, <2>2, <2>5, <2>6, <2>8
<1>7. CASE expand_records(t)
  <2>1. PICK q : q = [req[t] EXCEPT !.at = "answered", !.related = _expand_path(req[t].shown)]
    OBVIOUS
  <2>2. /\ req' = [req EXCEPT ![t] = q] /\ UNCHANGED <<db, rules, served, moved, seen, writes>>
        /\ req[t].at = "checked"
    BY <1>7, <2>1 DEF expand_records, quiet
  <2>3. req[t].rec \in Posts /\ (req[t].rec \in moved[t] \/ Yes(t) \/ Owned(t)) /\ req[t].rec # Gone
    BY <1>0, <2>2, IdsAssumption DEF Sound, Shows, Records
  <2>4. _expand_path(req[t].shown) \in SUBSET Records
    BY DEF _expand_path, Records
  <2>5. q \in Requests
    BY <1>0, <2>1, <2>4 DEF Requests, States
  <2>6. /\ q.at = "answered" /\ q.op = req[t].op /\ q.rec = req[t].rec /\ q.shown = req[t].shown
        /\ q.auth = req[t].auth /\ q.body = req[t].body
    BY <1>0, <2>1 DEF Requests
  <2>7. req'[t] = q BY <2>2, Typed
  <2>8. Shows(t)' BY <2>2, <2>3, <2>6, <2>7 DEF Shows, Yes, Owned
  <2> QED BY <1>4, <2>2, <2>5, <2>6, <2>8
<1> QED BY <1>1, <1>2, <1>3, <1>5, <1>6, <1>7

(* A commit: what another request sees of the record it names is counted   *)
(* among what it could see, and every other row that changes has moved.    *)
LEMMA CommitStep ==
    ASSUME PInv, NEW t \in Tasks, Commits(t), Ends(t)
    PROVE  PInv'
<1>1. PICK touched : touched = {r \in DOMAIN writes[t] : writes[t][r] # db[r]}
  OBVIOUS
<1>2. /\ db' = [r \in Records |-> View(t, r)]
      /\ moved' = [s \in Tasks |-> IF s = t \/ req[s].at = "idle" THEN {} ELSE moved[s] \cup touched]
      /\ seen' = [s \in Tasks |-> IF s = t THEN {} ELSE
                      seen[s] \cup {writes[t][r] : r \in touched \cap {req[s].rec}}]
  BY <1>1 DEF Commits
<1>3. /\ req' = [req EXCEPT ![t] = Idle] /\ writes' = [writes EXCEPT ![t] = <<>>]
      /\ rules' = rules /\ served' = served
  BY DEF Ends
<1>4. /\ touched \subseteq Records
      /\ \A r \in touched : writes[t][r] \in AnyRow
  BY <1>1, Typed, WriteFacts
<1>5. \A r \in Records : /\ View(t, r) \in RowsOf(r) \cup {Gone}
                         /\ View(t, r) \in AnyRow
  <2>1. \A r \in Records : View(t, r) \in RowsOf(r) \cup {Gone}
    BY Typed DEF View
  <2> QED BY <2>1 DEF AnyRow, RowsOf
<1>6. /\ db' \in [Records -> AnyRow]
      /\ \A r \in Records : db'[r] = View(t, r) /\ db'[r] \in RowsOf(r) \cup {Gone}
  BY <1>2, <1>5
<1>7. moved' \in [Tasks -> SUBSET Records]
  BY <1>2, <1>4, Typed
<1>8. seen' \in [Tasks -> SUBSET AnyRow]
  <2>1. \A s \in Tasks : seen[s] \cup {writes[t][r] : r \in touched \cap {req[s].rec}} \in SUBSET AnyRow
    BY <1>4, Typed
  <2> QED BY <1>2, <2>1
<1>9. \A s \in Tasks : /\ writes'[s] = IF s = t THEN <<>> ELSE writes[s]
                       /\ req'[s] = IF s = t THEN Idle ELSE req[s]
  BY <1>3, Typed
<1>10. TypeOK'
  <2>1. req' \in [Tasks -> Requests]
    BY <1>3, Typed, IdleFields
  <2>2. writes' \in [Tasks -> WriteSets]
    BY <1>3, Typed, WriteFacts
  <2>3. \A s \in Tasks : \A r \in DOMAIN writes'[s] : writes'[s][r] \in RowsOf(r) \cup {Gone}
    BY <1>9, Typed, WriteFacts
  <2> QED BY <1>3, <1>6, <1>7, <1>8, <2>1, <2>2, <2>3, Typed DEF TypeOK
<1>11. Sound(t)'
  <2>1. req'[t] = Idle /\ DOMAIN writes'[t] = {}
    BY <1>9, WriteFacts
  <2> QED BY <2>1, IdleFields DEF Sound, Empty, InSight, Judged, Cascaded, Shows
<1>12. ASSUME NEW s \in Tasks, s # t PROVE Sound(s)'
  <2>1. /\ req'[s] = req[s] /\ writes'[s] = writes[s] /\ Sound(s) /\ rules' = rules
    BY <1>3, <1>9, <1>12, Typed
  <2>2. /\ req[s].at # "idle" => moved'[s] = moved[s] \cup touched
        /\ seen'[s] = seen[s] \cup {writes[t][r] : r \in touched \cap {req[s].rec}}
    BY <1>2, <1>12
  <2>3. \A r \in Records : r \notin touched => db'[r] = db[r]
    BY <1>1, <1>6 DEF View
  <2>4. \A r \in touched : db'[r] = writes[t][r]
    BY <1>1, <1>4, <1>6 DEF View
  <2>5. Empty(s)' BY <2>1 DEF Sound, Empty
  <2>6. InSight(s)'
    <3>1. InSight(s) BY <2>1 DEF Sound
    <3>2. ASSUME req[s].at \in {"resolved", "judged"}, req[s].op # "view"
          PROVE  View(s, req[s].rec)' \in seen'[s]
      <4>1. View(s, req[s].rec) \in seen[s] /\ req[s].rec \in Records
        BY <3>1, <3>2 DEF InSight
      <4>2. CASE req[s].rec \in DOMAIN writes[s]
        BY <2>1, <2>2, <4>1, <4>2 DEF View
      <4>3. CASE req[s].rec \notin DOMAIN writes[s] /\ req[s].rec \in touched
        <5>1. writes[t][req[s].rec] \in seen'[s] BY <2>2, <4>3
        <5> QED BY <2>1, <2>4, <4>3, <5>1 DEF View
      <4>4. CASE req[s].rec \notin DOMAIN writes[s] /\ req[s].rec \notin touched
        BY <2>1, <2>2, <2>3, <4>1, <4>4 DEF View
      <4> QED BY <4>2, <4>3, <4>4
    <3> QED BY <2>1, <3>1, <3>2 DEF InSight
  <2>7. Judged(s)'
    BY <2>1, <2>2 DEF Sound, Judged, Permitted, RuleFor
  <2>8. Cascaded(s)'
    <3>1. CASE req[s].at = "idle"
      BY <2>1, <3>1 DEF Sound, Empty, Cascaded
    <3>2. CASE req[s].at # "idle"
      <4>1. \A p \in Left(s)' : p \in Left(s) /\ p \in Records /\ p \notin touched
        BY <2>1, <2>2, <3>2 DEF Left, Records
      <4>2. \A p \in Left(s)' : \A u : Refers(s, p, u)' => Refers(s, p, u)
        BY <2>1, <2>3, <4>1 DEF Refers, View
      <4> QED BY <2>1, <4>1, <4>2 DEF Sound, Cascaded
    <3> QED BY <3>1, <3>2
  <2>9. Shows(s)'
    <3>1. Shows(s) BY <2>1 DEF Sound
    <3>2. req[s].rec \in Posts => req[s].rec \in Records BY DEF Records
    <3> QED BY <2>1, <2>2, <2>3, <3>1, <3>2 DEF Shows, Yes, Owned
  <2> QED BY <2>5, <2>6, <2>7, <2>8, <2>9 DEF Sound
<1> QED BY <1>10, <1>11, <1>12 DEF PInv, Sound

(* The initial states. *)
LEMMA Begins == Init => PInv
<1> SUFFICES ASSUME Init PROVE PInv
  OBVIOUS
<1>1. PICK u \in Users, p \in SUBSET Posts :
         db = [r \in Records |-> IF r \in Users THEN [verified |-> FALSE] ELSE
                                 IF r \in p THEN [author |-> u] ELSE Gone]
  BY DEF Init
<1>2. db \in [Records -> AnyRow] /\ \A r \in Records : db[r] \in RowsOf(r) \cup {Gone}
  BY <1>1 DEF AnyRow, RowsOf, UserRow, PostRow
<1>3. TypeOK
  BY <1>2, IdleFields, WriteFacts, RecordApiAssumption, RulesAssumption DEF Init, TypeOK
<1>4. ASSUME NEW t \in Tasks PROVE Sound(t)
  <2>1. req[t] = Idle /\ DOMAIN writes[t] = {}
    BY WriteFacts DEF Init
  <2> QED BY <2>1, IdleFields DEF Sound, Empty, InSight, Judged, Cascaded, Shows
<1> QED BY <1>3, <1>4 DEF PInv, Sound

(* One step of one request. *)
LEMMA TaskStep ==
    ASSUME PInv, NEW t \in Tasks, TaskNext(t)
    PROVE  PInv'
<1>1. CASE \/ BeginTransaction(t) \/ NextInBatch(t)
           \/ \E a \in Callers : _get_mutation_auth(t, a) \/ api_batch_records(t, a)
  BY <1>1, ArriveStep
<1>2. ASSUME NEW r \in Records, NEW body \in Bodies(r), NEW op \in {"create", "update", "upsert"},
             resolve_collection(t, op, r, body)
      PROVE  PInv'
  BY <1>2, ResolveStep
<1>3. ASSUME NEW r \in Records, resolve_collection(t, "delete", r, Gone) PROVE PInv'
  BY <1>3, ResolveStep
<1>4. CASE \/ _execute_batch_upsert(t) \/ HookRefuses(t) \/ JudgeCreated(t) \/ JudgeUpdate(t)
           \/ JudgeExisting(t, "delete", "judged") \/ JudgeManaged(t) \/ _cascade_delete(t)
  BY <1>4, JudgeStep
<1>5. CASE create_record(t) \/ update_record(t)
  BY <1>5, GiveSteps
<1>6. CASE (\E p \in Posts : DeleteRelated(t, p)) \/ delete_record(t)
  BY <1>6, DeleteSteps
<1>7. CASE Commits(t) /\ Ends(t)
  BY <1>7, CommitStep
<1>8. CASE (Discards(t) /\ Ends(t)) \/ Answered(t)
  BY <1>8, Ended
<1>9. CASE \/ \E a \in Callers, p \in Posts : ViewRequest(t, a, p)
           \/ get_record(t) \/ _default_view_handler(t) \/ expand_records(t)
           \/ \E a \in Callers, f \in Filters : list_records(t, a, f)
  BY <1>9, ViewSteps
<1>10. _run_storage_transaction(t) \/ _run_batch(t) \/ RequestFails(t)
       => (Commits(t) /\ Ends(t)) \/ (Discards(t) /\ Ends(t))
  BY DEF _run_storage_transaction, _run_batch, RequestFails
<1>11. _default_create_handler(t) \/ _apply_batch_create(t) => JudgeCreated(t)
  BY DEF _default_create_handler, _apply_batch_create
<1>12. _default_update_handler(t) \/ _apply_batch_update(t) => JudgeUpdate(t)
  BY DEF _default_update_handler, _apply_batch_update
<1>13. _default_delete_handler(t) \/ _apply_batch_delete(t) => JudgeExisting(t, "delete", "judged")
  BY DEF _default_delete_handler, _apply_batch_delete
<1> QED BY <1>1, <1>2, <1>3, <1>4, <1>5, <1>6, <1>7, <1>8, <1>9, <1>10, <1>11, <1>12, <1>13 DEF TaskNext

(* Every step keeps the invariant. *)
LEMMA StepKeeps == PInv /\ [Next]_vars => PInv'
<1>1. ASSUME PInv, Next PROVE PInv'
  BY <1>1, TaskStep DEF Next
<1>2. ASSUME PInv, UNCHANGED vars PROVE PInv'
  <2>1. UNCHANGED <<db, rules, req, writes, served, moved, seen>>
    BY <1>2 DEF vars
  <2>2. TypeOK' BY <1>2, <2>1 DEF PInv, TypeOK
  <2>3. ASSUME NEW t \in Tasks PROVE Sound(t)'
    <3>1. Sound(t) BY <1>2, Typed
    <3> QED BY <2>1, <3>1 DEF Sound, Empty, InSight, Judged, Cascaded, Shows, View, Permitted,
                              RuleFor, Left,
                              Refers, Yes, Owned
  <2> QED BY <2>2, <2>3 DEF PInv, Sound
<1> QED BY <1>1, <1>2

-----------------------------------------------------------------------------
(* Results *)

(* PInv holds throughout. *)
THEOREM ApiInductive == Spec => []PInv
  BY Begins, StepKeeps, PTL DEF Spec

(* What a list or a view answers (_default_view_handler, list_records) is  *)
(* a row its rule allows the caller, or one that moved between the two     *)
(* reads of a view: ShownIsPermitted for every instance.                   *)
THEOREM ShowsOnlyPermitted == Spec => []ShownIsPermitted
<1>1. PInv => ShownIsPermitted
  BY Typed DEF Sound, Shows, Yes, Owned, ShownIsPermitted
<1> QED BY <1>1, ApiInductive, PTL

(* Which steps change rows, and which answer with success. *)
LEMMA StepKinds ==
    ASSUME PInv, NEW t \in Tasks, TaskNext(t)
    PROVE  /\ \A s \in Tasks \ {t} : req'[s] = req[s]
           /\ \/ db' = db
              \/ Commits(t) /\ Ends(t) /\ req[t].at \in {"done", "next"}
           /\ \/ req'[t].at = req[t].at
              \/ req'[t].at # "done"
              \/ JudgeCreated(t) /\ Done(t)
              \/ update_record(t) /\ req[t].at = "managed"
              \/ delete_record(t)
<1>0. req \in [Tasks -> Requests] /\ req[t] \in Requests /\ Idle.at = "idle"
  BY Typed, IdleFields
<1>1. CASE \E a \in Callers : _get_mutation_auth(t, a) \/ api_batch_records(t, a)
  <2>1. PICK a, b : Arrives(t, a, b)
    BY <1>1 DEF _get_mutation_auth, api_batch_records
  <2>2. req'[t] = [Idle EXCEPT !.at = "arrived", !.auth = a, !.batch = b]
    BY <1>0, <2>1 DEF Arrives
  <2>3. req'[t].at = "arrived"
    BY <2>2 DEF Idle
  <2> QED BY <1>0, <2>1, <2>3 DEF Arrives, quiet
<1>2. CASE BeginTransaction(t) \/ NextInBatch(t)
  BY <1>0, <1>2 DEF BeginTransaction, NextInBatch, Goes, quiet, Requests
<1>3. CASE \E op, r, body : resolve_collection(t, op, r, body)
  BY <1>0, <1>3 DEF resolve_collection, Requests
<1>4. CASE _execute_batch_upsert(t) \/ HookRefuses(t)
  BY <1>0, <1>4 DEF _execute_batch_upsert, HookRefuses, Refuse, quiet, Requests
<1>5. CASE create_record(t)
  BY <1>0, <1>5 DEF create_record, Refuse, quiet, Requests
<1>6. CASE JudgeCreated(t)
  <2>1. UNCHANGED quiet /\ (Refuse(t) \/ Done(t))
    BY <1>6 DEF JudgeCreated
  <2>2. CASE Refuse(t)
    BY <1>0, <2>1, <2>2 DEF Refuse, quiet, Requests
  <2>3. CASE Done(t)
    <3>1. \A s \in Tasks \ {t} : req'[s] = req[s]
      BY <1>0, <2>3 DEF Done
    <3> QED BY <1>6, <2>1, <2>3, <3>1 DEF quiet
  <2> QED BY <2>1, <2>2, <2>3
<1>7. CASE JudgeUpdate(t) \/ JudgeExisting(t, "delete", "judged") \/ JudgeManaged(t)
  BY <1>0, <1>7 DEF JudgeUpdate, JudgeExisting, JudgeManaged, Goes, Refuse, quiet, Requests
<1>8. CASE update_record(t)
  BY <1>0, <1>8 DEF update_record, Refuse, quiet, Requests
<1>9. CASE _cascade_delete(t)
  <2>1. UNCHANGED quiet
    BY <1>9 DEF _cascade_delete
  <2>2. CASE Refuse(t)
    BY <1>0, <2>1, <2>2 DEF Refuse, quiet, Requests
  <2>3. CASE ~Refuse(t)
    <3>1. PICK related : req' = [req EXCEPT ![t].at = "cascade", ![t].related = related]
      BY <1>9, <2>3 DEF _cascade_delete
    <3> QED BY <1>0, <2>1, <3>1 DEF quiet, Requests
  <2> QED BY <2>2, <2>3
<1>16. ASSUME NEW p \in Posts, DeleteRelated(t, p)
       PROVE  (\A s \in Tasks \ {t} : req'[s] = req[s]) /\ db' = db /\ req'[t].at = req[t].at
  BY <1>0, <1>16 DEF DeleteRelated, quiet, Requests
<1>10. CASE delete_record(t)
  BY <1>0, <1>10 DEF delete_record, Done, quiet, Requests
<1>11. CASE _run_storage_transaction(t) \/ _run_batch(t) \/ RequestFails(t) \/ Answered(t)
  BY <1>0, <1>11 DEF _run_storage_transaction, _run_batch, RequestFails, Answered, Ends, Discards,
                     Requests
<1>12. CASE \E a \in Callers, p \in Posts : ViewRequest(t, a, p)
  BY <1>0, <1>12 DEF ViewRequest, Idle, Requests
<1>13. CASE get_record(t) \/ _default_view_handler(t)
  BY <1>0, <1>13 DEF get_record, _default_view_handler, Goes, Ends, Discards, quiet, Requests
<1>14. CASE expand_records(t)
  BY <1>0, <1>14 DEF expand_records, quiet, Requests
<1>15. CASE \E a \in Callers, f \in Filters : list_records(t, a, f)
  BY <1>0, <1>15 DEF list_records, Idle, Requests
<1> HIDE DEF JudgeUpdate, JudgeCreated
<1> QED BY <1>1, <1>2, <1>3, <1>4, <1>5, <1>6, <1>7, <1>8, <1>9, <1>10, <1>11, <1>12, <1>13, <1>14, <1>15, <1>16 DEF TaskNext, _default_create_handler, _apply_batch_create,
       _default_update_handler, _apply_batch_update, _default_delete_handler, _apply_batch_delete

(* A request or batch that is refused, fails or is cancelled leaves no row *)
(* changed (_run_storage_transaction, _run_batch): RefusedLeavesNothing.   *)
THEOREM RefusedLeaves == Spec => RefusedLeavesNothing
<1> DEFINE P == db' # db => \E t \in Tasks : /\ req[t].at \in {"done", "next"}
                                             /\ req'[t].at = "idle"
<1>1. ASSUME PInv, NEW t \in Tasks, TaskNext(t) PROVE P
  BY <1>1, StepKinds, Typed, IdleFields DEF Ends
<1>2. PInv /\ [Next]_vars => [P]_vars
  BY <1>1 DEF Next, vars
<1> QED BY <1>2, ApiInductive, PTL DEF Spec, RefusedLeavesNothing

(* A create, update, delete or upsert is answered with success only if its *)
(* own rule, and manage access for a managed field, allowed it on a row    *)
(* the request could see (_default_create_handler and the others):         *)
(* PermittedDuringRequest.                                                 *)
THEOREM PermittedThroughout == Spec => PermittedDuringRequest
<1> DEFINE P == \A t \in Tasks : req'[t].at = "done" /\ req[t].at # "done"
                   => /\ Permitted(t, req[t].op)
                      /\ req[t].body = "verified" => Permitted(t, "manage")
<1>1. ASSUME PInv, NEW s \in Tasks, TaskNext(s), NEW t \in Tasks, req'[t].at = "done",
             req[t].at # "done"
      PROVE  /\ Permitted(t, req[t].op)
             /\ req[t].body = "verified" => Permitted(t, "manage")
  <2>1. t = s
    BY <1>1, StepKinds
  <2>2. \/ JudgeCreated(t) /\ Done(t)
        \/ update_record(t) /\ req[t].at = "managed"
        \/ delete_record(t)
    BY <1>1, <2>1, StepKinds
  <2>0. Sound(t) /\ req[t] \in Requests
    BY <1>1, Typed
  <2>3. CASE JudgeCreated(t) /\ Done(t)
    <3>1. /\ req[t].op = "create" /\ req[t].rec \in DOMAIN writes[t] /\ req[t].at = "inserted"
          /\ writes[t][req[t].rec] = NewRow(req[t].rec, req[t].body)
      BY <2>0, <2>3 DEF Sound, Judged, JudgeCreated
    <3>2. ~Refuse(t)
      <4>1. ASSUME Refuse(t) PROVE req'[t].at = "refused"
        BY <2>0, <4>1, <1>1, Typed DEF Refuse, Requests
      <4> QED BY <1>1, <4>1
    <3>3. /\ Allows(RuleFor(t).create, req[t].auth, req[t].rec, View(t, req[t].rec))
          /\ req[t].body = "verified"
               => Allows(RuleFor(t).manage, req[t].auth, req[t].rec, View(t, req[t].rec))
      BY <2>3, <3>2 DEF JudgeCreated, _has_manage_access_for_auth_record
    <3>4. View(t, req[t].rec) = NewRow(req[t].rec, req[t].body)
      BY <3>1 DEF View
    <3> QED BY <3>1, <3>3, <3>4 DEF Permitted
  <2>4. CASE req[t].at = "managed"
    BY <2>0, <2>4 DEF Sound, Judged
  <2>5. CASE delete_record(t)
    <3>1. req[t].at = "cascade" BY <2>5 DEF delete_record
    <3>2. req[t].op = "delete" /\ Permitted(t, "delete") /\ req[t].body = Gone
      BY <2>0, <3>1 DEF Sound, Judged, InSight
    <3> QED BY <3>2, IdsAssumption
  <2> QED BY <2>2, <2>3, <2>4, <2>5
<1>2. PInv /\ [Next]_vars => [P]_vars
  BY <1>1 DEF Next, vars
<1> QED BY <1>2, ApiInductive, PTL DEF Spec, PermittedDuringRequest

(* A committed deletion of a user leaves no post that referred to it,      *)
(* except one changed by somebody else meanwhile or one the same batch     *)
(* gave to the user it had deleted (_cascade_delete): CascadeComplete.     *)
THEOREM CascadesCompletely == Spec => CascadeComplete
<1> DEFINE P == \A u \in Users, t \in Tasks :
                   /\ db[u] # Gone /\ db'[u] = Gone
                   /\ req[t].at # "idle" /\ req'[t].at = "idle"
                   => \A p \in Posts \ (moved[t] \cup req[t].adrift) :
                        db[p] # Gone /\ db[p].author = u
                          => db'[p] = Gone \/ db'[p].author # u
<1>1. ASSUME PInv, NEW s \in Tasks, TaskNext(s), NEW u \in Users, NEW t \in Tasks,
             db[u] # Gone, db'[u] = Gone, req[t].at # "idle", req'[t].at = "idle",
             NEW p \in Posts \ (moved[t] \cup req[t].adrift)
      PROVE  db'[p] = Gone \/ db'[p].author # u
  <2>1. t = s /\ Commits(t)
    BY <1>1, StepKinds
  <2>2. /\ db'[u] = View(t, u) /\ db'[p] = View(t, p)
    BY <2>1 DEF Commits, Records
  <2>3. u \in DOMAIN writes[t] /\ writes[t][u] = Gone
    BY <1>1, <2>2 DEF View
  <2>4. ~Refers(t, p, u)
    BY <1>1, <2>3, Typed DEF Sound, Cascaded, Left
  <2> QED BY <2>2, <2>4 DEF Refers
<1>2. PInv /\ [Next]_vars => [P]_vars
  BY <1>1 DEF Next, vars
<1> QED BY <1>2, ApiInductive, PTL DEF Spec, CascadeComplete
=============================================================================
