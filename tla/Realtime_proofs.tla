---------------------------- MODULE Realtime_proofs ----------------------------
(***************************************************************************)
(* Proofs about the realtime events of Realtime, for any sets of clients,  *)
(* users and records and any bounds.                                       *)
(*                                                                         *)
(* Identity: a session's identity is fixed by its first subscribe request, *)
(* before that request awaits.  So whatever was allowed under an identity  *)
(* (a request being resolved, the subscriptions a callback copied from the *)
(* session, a message it is about to queue) names the identity of its      *)
(* session, and keeps doing so while the sessions and the callbacks move.  *)
(*                                                                         *)
(* Freshness: the row of a record is never older than a notification about *)
(* it that is still on the wire or in a callback (Newest), because a       *)
(* change numbers the row and its notification together; whenever the      *)
(* callback reads the row, what it reads is recent enough (Fresh).         *)
(***************************************************************************)
EXTENDS Realtime, TLAPS

\* The record is not older than its change number n.
Behind(n, x) == n <= changes /\ (row[x] # NoRow => row[x].v >= n)

Newest ==
    /\ \A x \in Records : row[x] # NoRow => row[x].v <= changes
    /\ \A i \in 1..Len(wire) : Behind(wire[i].n, wire[i].id)
    /\ \A t \in task : Behind(t.n, t.id)

\* A callback's or an event's copy of the record.
Fresh(e) == e.data # NoRow => e.action # "delete" /\ e.data.v >= e.n

\* A request, a subscription or an event of the session's own identity.
Mine(c, e) == e.auth = session[c].key

Held(t) ==
    /\ t.subs # {} => t.client \in Clients /\ \A s \in t.subs : Mine(t.client, s)
    /\ t.at = "put" => t.client \in Clients /\ t.sub \in Subs /\ Mine(t.client, t.sub)

Asked == \A a \in asking : Mine(a.client, a)
Callback == \A t \in task : Fresh(t) /\ Held(t)
Stream ==
    \A c \in Clients :
        /\ \A s \in session[c].subs : Mine(c, s)
        /\ \A e \in got[c] : Mine(c, e) /\ Fresh(e)
        /\ \A i \in 1..Len(session[c].queue) :
              Mine(c, session[c].queue[i]) /\ Fresh(session[c].queue[i])

RInv == TypeOK /\ Newest /\ Asked /\ Callback /\ Stream

----------------------------------------------------------------------------
\* What the members of the typed sets have; an identity is never Unset.
LEMMA Fields ==
    /\ \A s \in Sessions : /\ s.open \in BOOLEAN /\ s.key \in Users \cup {Unset}
                           /\ s.subs \subseteq Subs /\ s.queue \in Seq(Events)
    /\ \A t \in Callbacks : /\ t.n \in 1..MaxChanges /\ t.id \in Records /\ t.action \in Actions
                            /\ t.at \in {"read", "send", "put"} /\ t.data \in Rows \cup {NoRow}
                            /\ t.todo \subseteq Clients /\ t.subs \subseteq Subs
                            /\ t.client \in Clients \cup {NoRow} /\ t.sub \in Subs \cup {NoRow}
    /\ \A e \in Events : e.auth \in Users /\ e.auth # Unset
    /\ \A s \in Subs : s.auth \in Users /\ s.auth # Unset /\ s.topic \in Topics
    /\ \A w \in Notices : w.n \in 1..MaxChanges /\ w.id \in Records /\ w.action \in Actions
    /\ \A a \in Requests : a.client \in Clients /\ a.auth \in Users /\ a.auth # Unset /\ a.topics \subseteq Topics
    /\ \A r \in Rows : r.v \in 1..MaxChanges /\ r.v \in Int /\ r # NoRow
  BY IdentityAssumption, RowAssumption, BoundsAssumption
     DEF Sessions, Callbacks, Events, Subs, Notices, Requests, Rows, Unset

\* The writes of the code to a session leave a session.
LEMMA Built ==
    /\ \A s \in Sessions : /\ \A b \in BOOLEAN : [s EXCEPT !.open = b] \in Sessions
                           /\ [s EXCEPT !.open = FALSE, !.subs = {}] \in Sessions
                           /\ \A k \in Users : [s EXCEPT !.key = k] \in Sessions
                           /\ \A ss \in SUBSET Subs, k \in Users : [s EXCEPT !.subs = ss, !.key = k] \in Sessions
                           /\ \A q \in Seq(Events) : [s EXCEPT !.queue = q] \in Sessions
  BY DEF Sessions

\* A step that writes one session, keeping or first setting its identity, keeps
\* the invariant when what it puts there is of that identity and fresh; the
\* callbacks and requests it adds must be sound as well.
LEMMA SessionStep ==
    ASSUME RInv, NEW c \in Clients, NEW s \in Sessions,
           session' = [session EXCEPT ![c] = s],
           s.key = session[c].key \/ session[c].key = Unset,
           \A x \in s.subs : x.auth = s.key,
           got' \in [Clients -> SUBSET Events],
           \A d \in Clients : \A e \in got'[d] : e \in got[d] \/ (d = c /\ e.auth = s.key /\ Fresh(e)),
           \A i \in 1..Len(s.queue) : s.queue[i].auth = s.key /\ Fresh(s.queue[i]),
           task' \subseteq Callbacks,
           \A u \in task' : \/ u \in task
                            \/ (Fresh(u) /\ Behind(u.n, u.id) /\ Held(u)),
           asking' \subseteq Requests,
           \A a \in asking' : a \in asking \/ (a.client = c /\ a.auth = s.key),
           subscribes' \in 0..MaxSubscribes,
           UNCHANGED <<rule, row, changes, wire, listening>>
    PROVE  RInv'
<1> USE Fields
<1>k. \A d \in Clients : session'[d].key = session[d].key \/ session[d].key = Unset
  BY DEF RInv, TypeOK
<1>1. TypeOK'
  BY DEF RInv, TypeOK
<1>2. Newest'
  BY DEF RInv, Newest, Behind
<1>3. Asked'
  BY <1>k DEF RInv, Asked, Mine, TypeOK
<1>4. ASSUME NEW u \in task' PROVE Fresh(u) /\ Held(u)'
  <2>1. Fresh(u) /\ Held(u)
    BY DEF RInv, Callback
  <2>2. u.subs # {} => Held(u)!1'
    BY <2>1, <1>k DEF Held, Mine
  <2>3. u.at = "put" => u.client \in Clients /\ u.sub \in Subs /\ Mine(u.client, u.sub)'
    BY <2>1, <1>k DEF Held, Mine
  <2> QED BY <2>1, <2>2, <2>3 DEF Held
<1>5. ASSUME NEW d \in Clients
      PROVE /\ \A x \in session'[d].subs : Mine(d, x)'
            /\ \A e \in got'[d] : Mine(d, e)' /\ Fresh(e)
            /\ \A i \in 1..Len(session'[d].queue) : Mine(d, session[d].queue[i])' /\ Fresh(session'[d].queue[i])
  <2>1. CASE d = c
    <3>1. session'[d] = s BY <2>1 DEF RInv, TypeOK
    <3>2. \A e \in got[d] : e.auth = s.key /\ Fresh(e)
      BY <2>1 DEF RInv, Stream, Mine, TypeOK
    <3> QED BY <3>1, <3>2, <2>1 DEF Mine
  <2>2. CASE d # c
    <3>1. session'[d] = session[d] BY <2>2 DEF RInv, TypeOK
    <3> QED BY <3>1, <2>2 DEF RInv, Stream, Mine
  <2> QED BY <2>1, <2>2
<1>6. Callback' BY <1>4 DEF Callback, Fresh
<1>7. Stream' BY <1>5 DEF Stream, Fresh
<1> QED BY <1>1, <1>2, <1>3, <1>6, <1>7 DEF RInv

\* A step of the callbacks and the wire alone.
LEMMA TaskStep ==
    ASSUME RInv, task' \subseteq Callbacks,
           \A u \in task' : \/ u \in task
                            \/ (Fresh(u) /\ Behind(u.n, u.id) /\ Held(u)),
           wire' \in Seq(Notices),
           \A i \in 1..Len(wire') : \E j \in 1..Len(wire) : wire'[i] = wire[j],
           UNCHANGED <<rule, row, changes, subscribes, session, asking, got>>
    PROVE  RInv'
<1>1. TypeOK' BY DEF RInv, TypeOK
<1>2. Newest' BY DEF RInv, Newest, Behind
<1>3. Asked' BY DEF RInv, Asked, Mine
<1>4. Callback' BY DEF RInv, Callback, Fresh, Held, Mine
<1>5. Stream' BY DEF RInv, Stream, Fresh, Mine
<1> QED BY <1>1, <1>2, <1>3, <1>4, <1>5 DEF RInv

\* A committed change: the row gets the number of its notification, which is
\* above every earlier one.
LEMMA ChangeStep ==
    ASSUME RInv, NEW x \in Records, NEW action \in Actions, NEW new \in Rows \cup {NoRow},
           new # NoRow => new.v = changes + 1,
           _notify_record_change(x, action, new)
    PROVE  RInv'
<1>0. PICK w :
        /\ w = [n |-> changes + 1, id |-> x, action |-> action]
        /\ changes' = changes + 1 /\ changes' \in 0..MaxChanges /\ changes \in Int
        /\ row' = [row EXCEPT ![x] = new] /\ wire' \in {Append(wire, w), wire}
        /\ UNCHANGED <<rule, subscribes, listening, task, session, asking, got>>
  BY BoundsAssumption DEF RInv, TypeOK, _notify_record_change
<1>1. w \in Notices /\ w.n = changes + 1 /\ w.id = x
  <2>1. changes + 1 \in 1..MaxChanges
    BY <1>0, BoundsAssumption DEF RInv, TypeOK
  <2> QED BY <1>0, <2>1 DEF Notices
<1>2. TypeOK'
  <2>1. row' \in [Records -> Rows \cup {NoRow}]
    BY <1>0 DEF RInv, TypeOK
  <2>2. wire' \in Seq(Notices)
    BY <1>0, <1>1 DEF RInv, TypeOK
  <2> QED BY <1>0, <2>1, <2>2 DEF RInv, TypeOK
<1>3. ASSUME NEW n \in Int, NEW y \in Records, Behind(n, y) PROVE Behind(n, y)'
  BY <1>0, <1>3 DEF Behind, RInv, TypeOK
<1>4. Newest'
  <2>1. \A y \in Records : row'[y] # NoRow => row'[y].v <= changes'
    BY <1>0, Fields DEF RInv, TypeOK, Newest
  <2>2. \A t \in task' : Behind(t.n, t.id)'
    BY <1>0, <1>3, Fields, BoundsAssumption DEF RInv, TypeOK, Newest
  <2>3. Behind(w.n, w.id)'
    BY <1>0, <1>1 DEF Behind, RInv, TypeOK
  <2>4. \A i \in 1..Len(wire') : wire'[i] = w \/ (i \in 1..Len(wire) /\ wire'[i] = wire[i])
    BY <1>0 DEF RInv, TypeOK
  <2>5. \A i \in 1..Len(wire) : wire[i] \in Notices
    BY DEF RInv, TypeOK
  <2>6. \A i \in 1..Len(wire') : Behind(wire[i].n, wire[i].id)'
    BY <2>3, <2>4, <2>5, <1>3, Fields, BoundsAssumption DEF RInv, Newest
  <2> QED BY <2>1, <2>2, <2>6 DEF Newest
<1>5. Asked' BY <1>0 DEF RInv, Asked, Mine
<1>6. Callback' BY <1>0 DEF RInv, Callback, Fresh, Held, Mine
<1>7. Stream' BY <1>0 DEF RInv, Stream, Fresh, Mine
<1> QED BY <1>2, <1>4, <1>5, <1>6, <1>7 DEF RInv

\* The streams and the subscribe requests (api/realtime.py).
LEMMA ClientStep ==
    ASSUME RInv,
           \/ register_client \/ realtime_subscribe \/ replace_subscriptions \/ disconnect_client
           \/ \E c \in Clients : event_generator(c)
    PROVE  RInv'
<1> USE Fields DEF RInv, TypeOK
<1>1. CASE register_client
  <2>1. PICK c \in Clients :
           session[c] = NoSession /\ session' = [session EXCEPT ![c] = [session[c] EXCEPT !.open = TRUE]]
    BY <1>1 DEF register_client
  <2>2. PICK s \in Sessions : s = [session[c] EXCEPT !.open = TRUE]
    BY Built
  <2>3. session[c].key = Unset /\ s.key = Unset /\ s.subs = {} /\ Len(s.queue) = 0
    BY <2>1, <2>2 DEF NoSession
  <2>4. UNCHANGED <<rule, row, changes, subscribes, wire, listening, task, asking, got>>
    BY <1>1 DEF register_client
  <2>5. session' = [session EXCEPT ![c] = s]
    BY <2>1, <2>2
  <2>6. \A i \in 1..Len(s.queue) : FALSE
    BY <2>3
  <2>7. /\ task' \subseteq Callbacks /\ got' \in [Clients -> SUBSET Events] /\ subscribes' \in 0..MaxSubscribes
        /\ asking' \subseteq Requests
    BY <2>4
  <2> HIDE DEF RInv, TypeOK
  <2> QED BY <2>3, <2>4, <2>5, <2>6, <2>7, SessionStep
<1>2. CASE realtime_subscribe
  <2>1. PICK c \in Clients, u \in Users, ts \in SUBSET Topics :
           /\ session[c].key \in {Unset, u}
           /\ session' = [session EXCEPT ![c] = [session[c] EXCEPT !.key = u]]
           /\ asking' = asking \cup {[client |-> c, auth |-> u, topics |-> ts]}
    <3> HIDE Fields DEF RInv, TypeOK
    <3> QED BY <1>2, Zenon DEF realtime_subscribe
  <2>2. PICK s \in Sessions : s = [session[c] EXCEPT !.key = u]
    BY Built
  <2>3. s.key = u /\ s.subs = session[c].subs /\ s.queue = session[c].queue
    BY <2>2 DEF Sessions
  <2>4. /\ \A x \in s.subs : x.auth = s.key
        /\ \A i \in 1..Len(s.queue) : s.queue[i].auth = s.key /\ Fresh(s.queue[i])
    BY <2>1, <2>3 DEF Stream, Mine
  <2>5. asking' \subseteq Requests /\ \A a \in asking' : a \in asking \/ (a.client = c /\ a.auth = u)
    BY <2>1 DEF Requests
  <2>6. UNCHANGED <<rule, row, changes, wire, listening, task, got>> /\ subscribes' \in 0..MaxSubscribes
    BY <1>2, BoundsAssumption DEF realtime_subscribe
  <2>7. s.key = session[c].key \/ session[c].key = Unset
    BY <2>1, <2>3
  <2>8. session' = [session EXCEPT ![c] = s]
    BY <2>1, <2>2
  <2> HIDE DEF RInv, TypeOK
  <2>9. task' \subseteq Callbacks /\ got' \in [Clients -> SUBSET Events]
    BY <2>6 DEF RInv, TypeOK
  <2> QED BY <2>3, <2>4, <2>5, <2>6, <2>7, <2>8, <2>9, SessionStep
<1>3. CASE replace_subscriptions
  <2>1. PICK a \in asking :
           /\ asking' = asking \ {a}
           /\ IF session[a.client].open
              THEN session' = [session EXCEPT ![a.client].subs = {[topic |-> t, auth |-> a.auth] : t \in a.topics},
                                              ![a.client].key = IF @ = Unset THEN a.auth ELSE @]
              ELSE UNCHANGED session
    BY <1>3 DEF replace_subscriptions
  <2>2. /\ UNCHANGED <<rule, row, changes, subscribes, wire, listening, task, got>>
        /\ a \in Requests /\ a.client \in Clients /\ a.auth \in Users /\ a.auth # Unset /\ a.topics \subseteq Topics
        /\ session[a.client].key = a.auth
    BY <1>3 DEF replace_subscriptions, Asked, Mine
  <2>3. CASE session[a.client].open
    <3>1. PICK ss \in SUBSET Subs : ss = {[topic |-> t, auth |-> a.auth] : t \in a.topics}
      <4>1. \A t \in a.topics : [topic |-> t, auth |-> a.auth] \in Subs
        BY <2>2 DEF Subs
      <4> QED BY <4>1
    <3>2. PICK s \in Sessions : s = [session[a.client] EXCEPT !.subs = ss, !.key = a.auth]
      BY <2>2, Built
    <3>3. session' = [session EXCEPT ![a.client] = s]
      BY <2>1, <2>2, <2>3, <3>1, <3>2
    <3>4. s.key = a.auth /\ s.subs = ss /\ s.queue = session[a.client].queue
      BY <3>2 DEF Sessions
    <3>5. \A x \in ss : x.auth = a.auth
      BY <3>1
    <3>6. \A i \in 1..Len(s.queue) : s.queue[i].auth = s.key /\ Fresh(s.queue[i])
      BY <2>2, <3>4 DEF Stream, Mine
    <3> HIDE DEF RInv, TypeOK
    <3>7. /\ task' \subseteq Callbacks /\ got' \in [Clients -> SUBSET Events] /\ subscribes' \in 0..MaxSubscribes
          /\ asking' \subseteq Requests /\ asking' \subseteq asking
      BY <2>1, <2>2 DEF RInv, TypeOK
    <3> QED BY <2>1, <2>2, <3>3, <3>4, <3>5, <3>6, <3>7, SessionStep
  <2>4. CASE ~session[a.client].open
    <3>1. UNCHANGED session /\ asking' \subseteq asking BY <2>1, <2>4
    <3> QED BY <2>2, <3>1 DEF Newest, Behind, Asked, Callback, Held, Stream, Fresh, Mine
  <2> QED BY <2>3, <2>4
<1>4. CASE disconnect_client
  <2>1. PICK c \in Clients :
           session' = [session EXCEPT ![c] = [session[c] EXCEPT !.open = FALSE, !.subs = {}]]
    BY <1>4 DEF disconnect_client
  <2>2. PICK s \in Sessions : s = [session[c] EXCEPT !.open = FALSE, !.subs = {}]
    BY Built
  <2>3. s.key = session[c].key /\ s.subs = {} /\ s.queue = session[c].queue
    BY <2>2 DEF Sessions
  <2>4. \A i \in 1..Len(s.queue) : s.queue[i].auth = s.key /\ Fresh(s.queue[i])
    BY <2>3 DEF Stream, Mine
  <2>5. UNCHANGED <<rule, row, changes, subscribes, wire, listening, task, asking, got>>
    BY <1>4 DEF disconnect_client
  <2>6. session' = [session EXCEPT ![c] = s]
    BY <2>1, <2>2
  <2> QED BY <2>3, <2>4, <2>5, <2>6, SessionStep
<1>5. ASSUME NEW c \in Clients, event_generator(c) PROVE RInv'
  <2>1. PICK q : q = session[c].queue
    OBVIOUS
  <2>2. /\ q \in Seq(Events) /\ q # <<>> /\ got' = [got EXCEPT ![c] = got[c] \cup {Head(q)}]
        /\ session' = [session EXCEPT ![c] = [session[c] EXCEPT !.queue = Tail(q)]]
        /\ UNCHANGED <<rule, row, changes, subscribes, wire, listening, task, asking>>
    BY <1>5, <2>1 DEF event_generator
  <2>3. /\ Head(q) = q[1] /\ 1 \in 1..Len(q) /\ q[1] \in Events /\ Tail(q) \in Seq(Events)
        /\ \A i \in 1..Len(Tail(q)) : i + 1 \in 1..Len(q) /\ Tail(q)[i] = q[i + 1]
    BY <2>2
  <2>4. PICK s \in Sessions : s = [session[c] EXCEPT !.queue = Tail(q)]
    BY <2>3, Built
  <2>5. s.key = session[c].key /\ s.subs = session[c].subs /\ s.queue = Tail(q)
    BY <2>4 DEF Sessions
  <2>6. \A i \in 1..Len(q) : q[i].auth = session[c].key /\ Fresh(q[i])
    BY <2>1 DEF Stream, Mine
  <2>7. /\ \A i \in 1..Len(s.queue) : s.queue[i].auth = s.key /\ Fresh(s.queue[i])
        /\ \A x \in s.subs : x.auth = s.key
    BY <2>3, <2>5, <2>6 DEF Stream, Mine
  <2>8. /\ got' \in [Clients -> SUBSET Events]
        /\ \A d \in Clients : \A e \in got'[d] : e \in got[d] \/ (d = c /\ e.auth = s.key /\ Fresh(e))
    BY <2>2, <2>3, <2>5, <2>6
  <2>9. session' = [session EXCEPT ![c] = s]
    BY <2>2, <2>4
  <2>10. /\ task' \subseteq Callbacks /\ task' = task /\ asking' = asking
         /\ subscribes' \in 0..MaxSubscribes /\ asking' \subseteq Requests
    BY <2>2
  <2>11. UNCHANGED <<rule, row, changes, wire, listening>>
    BY <2>2
  <2> HIDE Fields DEF RInv, TypeOK
  <2> QED BY <2>5, <2>7, <2>8, <2>9, <2>10, <2>11, SessionStep
<1> QED BY <1>1, <1>2, <1>3, <1>4, <1>5

\* The three writers of a record.
LEMMA RecordStep ==
    ASSUME RInv, create_record \/ update_record \/ delete_record
    PROVE  RInv'
<1>1. ASSUME NEW x \in Records, NEW u \in Users, NEW action \in {"create", "update"},
             _notify_record_change(x, action, [v |-> changes + 1, owner |-> u])
      PROVE  RInv'
  <2>1. changes + 1 \in 1..MaxChanges
    BY <1>1, BoundsAssumption DEF _notify_record_change, RInv, TypeOK
  <2>2. [v |-> changes + 1, owner |-> u] \in Rows /\ action \in Actions
    BY <2>1 DEF Rows, Actions
  <2> QED BY <1>1, <2>2, ChangeStep
<1>2. ASSUME NEW x \in Records, _notify_record_change(x, "delete", NoRow) PROVE RInv'
  BY <1>2, ChangeStep DEF Actions
<1> QED BY <1>1, <1>2 DEF create_record, update_record, delete_record

\* The callbacks of on_notification, from the read to the queue.
LEMMA TaskMoves ==
    ASSUME RInv, TaskSteps
    PROVE  RInv'
<1>0. PICK t \in task : get_record(t) \/ NextSession(t) \/ CheckSubscription(t) \/ _send_realtime_message(t)
  BY DEF TaskSteps
<1>t. t \in Callbacks /\ Fresh(t) /\ Held(t) /\ Behind(t.n, t.id)
  BY DEF RInv, TypeOK, Callback, Newest
<1>w. wire \in Seq(Notices) /\ task \subseteq Callbacks
  BY DEF RInv, TypeOK
\* A callback that keeps its notification.
<1>m. ASSUME NEW u \in Callbacks, u.n = t.n, u.id = t.id, Fresh(u), Held(u),
             task' \subseteq (task \ {t}) \cup {u},
             UNCHANGED <<rule, row, changes, subscribes, wire, listening, session, asking, got>>
      PROVE  RInv'
  <2>1. /\ task' \subseteq Callbacks
        /\ \A x \in task' : x \in task \/ (Fresh(x) /\ Behind(x.n, x.id) /\ Held(x))
    BY <1>m, <1>t, <1>w
  <2> QED BY <2>1, <1>m, <1>w, TaskStep
<1>1. CASE get_record(t)
  <2>1. PICK d : d = IF t.action = "delete" THEN NoRow ELSE row[t.id]
    OBVIOUS
  <2>2. PICK u : u = [t EXCEPT !.at = "send", !.todo = Open, !.data = d]
    OBVIOUS
  <2>3. d \in Rows \cup {NoRow} /\ (d # NoRow => t.action # "delete" /\ d.v >= t.n)
    BY <1>t, <2>1, Fields DEF RInv, TypeOK, Behind
  <2>4. u \in Callbacks
    BY <1>t, <2>2, <2>3 DEF Callbacks, Open
  <2>5. /\ u.n = t.n /\ u.id = t.id /\ u.action = t.action /\ u.data = d /\ u.at = "send"
        /\ u.subs = t.subs /\ u.client = t.client
    BY <1>t, <2>2 DEF Callbacks
  <2>6. /\ task' \subseteq (task \ {t}) \cup {u}
        /\ UNCHANGED <<rule, row, changes, subscribes, wire, listening, session, asking, got>>
    BY <1>1, <2>1, <2>2 DEF get_record
  <2>7. Fresh(u) /\ Held(u)
    BY <1>t, <2>3, <2>5 DEF Fresh, Held
  <2> QED BY <1>m, <2>4, <2>5, <2>6, <2>7
<1>2. CASE NextSession(t)
  <2>0. /\ t.at = "send" /\ t.subs = {}
        /\ UNCHANGED <<rule, row, changes, subscribes, wire, listening, session, asking, got>>
    BY <1>2 DEF NextSession
  <2>1. CASE t.todo = {}
    <3>1. task' = task \ {t}
      BY <1>2, <2>1 DEF NextSession
    <3> QED BY <1>m, <1>t, <2>0, <3>1
  <2>2. CASE t.todo # {}
    <3>1. PICK c \in t.todo :
             task' = (task \ {t}) \cup
                {[t EXCEPT !.todo = t.todo \ {c}, !.client = c,
                           !.subs = {s \in session[c].subs : s.topic \in {"*", t.id}}]}
      BY <1>2, <2>2 DEF NextSession
    <3>2. c \in Clients /\ session[c].subs \subseteq Subs /\ \A s \in session[c].subs : Mine(c, s)
      BY <1>t, Fields DEF RInv, TypeOK, Stream
    <3>3. PICK ss \in SUBSET session[c].subs : ss = {s \in session[c].subs : s.topic \in {"*", t.id}}
      OBVIOUS
    <3>4. PICK u : u = [t EXCEPT !.todo = t.todo \ {c}, !.client = c, !.subs = ss]
      OBVIOUS
    <3>5. u \in Callbacks
      BY <1>t, <3>2, <3>4 DEF Callbacks
    <3>6. /\ u.n = t.n /\ u.id = t.id /\ u.action = t.action /\ u.data = t.data /\ u.at = "send"
          /\ u.subs = ss /\ u.client = c
      BY <1>t, <2>0, <3>4 DEF Callbacks
    <3>7. task' \subseteq (task \ {t}) \cup {u}
      BY <3>1, <3>3, <3>4
    <3>8. Fresh(u) /\ Held(u)
      BY <1>t, <3>2, <3>3, <3>6 DEF Fresh, Held
    <3> QED BY <1>m, <2>0, <3>5, <3>6, <3>7, <3>8
  <2> QED BY <2>1, <2>2
<1>3. CASE CheckSubscription(t)
  <2>0. UNCHANGED <<rule, row, changes, subscribes, wire, listening, session, asking, got>>
    BY <1>3 DEF CheckSubscription
  <2>1. PICK s, u :
           /\ s \in t.subs
           /\ task' = (task \ {t}) \cup {u}
           /\ u \in {[t EXCEPT !.at = "put", !.subs = t.subs \ {s}, !.sub = s], [t EXCEPT !.subs = t.subs \ {s}]}
           /\ t.at = "send"
    BY <1>3 DEF CheckSubscription
  <2>2. s \in Subs /\ t.client \in Clients /\ \A x \in t.subs : Mine(t.client, x)
    BY <1>t, <2>1, Fields DEF Held
  <2>3. u \in Callbacks
    BY <1>t, <2>1, <2>2 DEF Callbacks
  <2>4. /\ u.n = t.n /\ u.id = t.id /\ u.action = t.action /\ u.data = t.data
        /\ u.subs \subseteq t.subs /\ u.client = t.client
        /\ u.at = "put" => u.sub = s
    BY <1>t, <2>1 DEF Callbacks
  <2>5. Fresh(u) /\ Held(u)
    BY <1>t, <2>1, <2>2, <2>4 DEF Fresh, Held
  <2> QED BY <1>m, <2>0, <2>1, <2>3, <2>4, <2>5
<1>4. CASE _send_realtime_message(t)
  <2>1. /\ t.at = "put" /\ t.client \in Clients /\ t.sub \in Subs /\ t.sub.auth = session[t.client].key
        /\ UNCHANGED <<rule, row, changes, subscribes, wire, listening, asking, got>>
    BY <1>4, <1>t DEF _send_realtime_message, Held, Mine
  <2>2. PICK e : e = [n |-> t.n, action |-> t.action, data |-> t.data, auth |-> t.sub.auth, topic |-> t.sub.topic]
    OBVIOUS
  <2>3. e \in Events /\ e.auth = session[t.client].key /\ e.data = t.data /\ e.n = t.n /\ e.action = t.action
    BY <1>t, <2>1, <2>2, Fields DEF Events
  <2>4. Fresh(e)
    BY <1>t, <2>3 DEF Fresh
  <2>5. PICK q : q = session[t.client].queue
    OBVIOUS
  <2>6. q \in Seq(Events) /\ \A i \in 1..Len(q) : q[i].auth = session[t.client].key /\ Fresh(q[i])
    BY <2>1, <2>5, Fields DEF RInv, TypeOK, Stream, Mine
  <2>7. /\ Append(q, e) \in Seq(Events)
        /\ \A i \in 1..Len(Append(q, e)) : Append(q, e)[i] = e \/ (i \in 1..Len(q) /\ Append(q, e)[i] = q[i])
    BY <2>3, <2>6
  <2>8. PICK s \in Sessions : s = [session[t.client] EXCEPT !.queue = Append(q, e)]
    BY <2>1, <2>7, Built DEF RInv, TypeOK
  <2>9. s.key = session[t.client].key /\ s.subs = session[t.client].subs /\ s.queue = Append(q, e)
    BY <2>1, <2>8 DEF Sessions, RInv, TypeOK
  <2>10. session' = [session EXCEPT ![t.client] = s]
    BY <1>4, <2>2, <2>5, <2>8 DEF _send_realtime_message
  <2>11. \A i \in 1..Len(s.queue) : s.queue[i].auth = s.key /\ Fresh(s.queue[i])
    BY <2>3, <2>4, <2>6, <2>7, <2>9
  <2>12. \A x \in s.subs : x.auth = s.key
    BY <2>1, <2>9 DEF RInv, Stream, Mine
  <2>13. PICK u : u = [t EXCEPT !.at = "send", !.sub = NoRow]
    OBVIOUS
  <2>14. task' = (task \ {t}) \cup {u} /\ u \in Callbacks
    BY <1>4, <1>t, <2>13 DEF _send_realtime_message, Callbacks
  <2>15. /\ u.n = t.n /\ u.id = t.id /\ u.action = t.action /\ u.data = t.data
         /\ u.subs = t.subs /\ u.client = t.client /\ u.at = "send"
    BY <1>t, <2>13 DEF Callbacks
  <2>16. Fresh(u) /\ Held(u) /\ Behind(u.n, u.id)
    BY <1>t, <2>15 DEF Fresh, Held
  <2>17. task' \subseteq Callbacks /\ \A x \in task' : x \in task \/ (Fresh(x) /\ Behind(x.n, x.id) /\ Held(x))
    BY <1>w, <2>14, <2>16
  <2>18. subscribes' \in 0..MaxSubscribes /\ asking' \subseteq Requests /\ got' \in [Clients -> SUBSET Events]
    BY <2>1 DEF RInv, TypeOK
  <2> QED BY <2>1, <2>9, <2>10, <2>11, <2>12, <2>17, <2>18, SessionStep
<1> QED BY <1>0, <1>1, <1>2, <1>3, <1>4

\* The LISTEN connection.
LEMMA ListenerStep ==
    ASSUME RInv, on_notification \/ ListenLost
    PROVE  RInv'
<1>0. wire \in Seq(Notices) /\ task \subseteq Callbacks
  BY DEF RInv, TypeOK
<1>1. CASE on_notification
  <2>1. PICK u : u = [n |-> Head(wire).n, id |-> Head(wire).id, action |-> Head(wire).action,
                      at |-> "read", data |-> NoRow, todo |-> {}, subs |-> {}, client |-> NoRow, sub |-> NoRow]
    OBVIOUS
  <2>2. /\ wire # <<>> /\ wire' = Tail(wire) /\ task' = task \cup {u}
        /\ UNCHANGED <<rule, row, changes, subscribes, session, asking, got>>
    BY <1>1, <2>1 DEF on_notification
  <2>3. /\ Head(wire) = wire[1] /\ 1 \in 1..Len(wire) /\ wire[1] \in Notices /\ Tail(wire) \in Seq(Notices)
        /\ \A i \in 1..Len(Tail(wire)) : i + 1 \in 1..Len(wire) /\ Tail(wire)[i] = wire[i + 1]
    BY <1>0, <2>2
  <2>4. Behind(wire[1].n, wire[1].id)
    BY <2>3 DEF RInv, Newest
  <2>5. u \in Callbacks
    BY <2>1, <2>3, Fields DEF Callbacks
  <2>6. Fresh(u) /\ Held(u) /\ Behind(u.n, u.id)
    BY <2>1, <2>3, <2>4 DEF Fresh, Held
  <2>7. task' \subseteq Callbacks /\ \A x \in task' : x \in task \/ (Fresh(x) /\ Behind(x.n, x.id) /\ Held(x))
    BY <1>0, <2>2, <2>5, <2>6
  <2>8. wire' \in Seq(Notices) /\ \A i \in 1..Len(wire') : \E j \in 1..Len(wire) : wire'[i] = wire[j]
    BY <2>2, <2>3
  <2> QED BY <2>2, <2>7, <2>8, TaskStep
<1>2. CASE ListenLost
  <2>1. /\ wire' = <<>> /\ UNCHANGED <<rule, row, changes, subscribes, task, session, asking, got>>
    BY <1>2 DEF ListenLost
  <2>2. wire' \in Seq(Notices) /\ \A i \in 1..Len(wire') : \E j \in 1..Len(wire) : wire'[i] = wire[j]
    BY <2>1
  <2> QED BY <1>0, <2>1, <2>2, TaskStep
<1> QED BY <1>1, <1>2

\* The inductive invariant of the realtime service holds in every reachable
\* state; its first part is TypeOK.
THEOREM RealtimeInductive == Spec => []RInv
<1>1. Init => RInv
  <2> SUFFICES ASSUME Init PROVE RInv
    OBVIOUS
  <2>1. NoSession \in Sessions /\ NoSession.subs = {} /\ NoSession.queue = <<>>
    BY DEF NoSession, Sessions
  <2>2. TypeOK
    BY <2>1, BoundsAssumption DEF Init, TypeOK
  <2>3. Stream
    BY <2>1 DEF Init, Stream
  <2> QED BY <2>2, <2>3 DEF Init, RInv, Newest, Asked, Callback
<1>2. RInv /\ [Next]_vars => RInv'
  <2> SUFFICES ASSUME RInv, [Next]_vars PROVE RInv'
    OBVIOUS
  <2>1. CASE UNCHANGED vars
    BY <2>1 DEF vars, RInv, TypeOK, Newest, Behind, Asked, Callback, Held, Stream, Fresh, Mine
  <2> QED BY <2>1, ClientStep, RecordStep, TaskMoves, ListenerStep DEF Next
<1> QED BY <1>1, <1>2, PTL DEF Spec

\* A client id never holds a subscription of, nor receives an event allowed to,
\* another identity (realtime_subscribe and broadcast_record_change): for any
\* number of clients, identities and racing requests.
THEOREM IdentityKept == Spec => []OneIdentity
<1>1. ASSUME RInv PROVE OneIdentity
  <2> SUFFICES ASSUME NEW c \in Clients
               PROVE  /\ \A s \in session[c].subs : s.auth = session[c].key
                      /\ \A e \in Pending(c) : e.auth = session[c].key
    BY DEF OneIdentity
  <2>1. \A s \in session[c].subs : s.auth = session[c].key
    BY <1>1 DEF RInv, Stream, Mine
  <2>2. \A e \in got[c] : e.auth = session[c].key
    BY <1>1 DEF RInv, Stream, Mine
  <2>3. /\ session[c].queue \in Seq(Events)
        /\ \A i \in 1..Len(session[c].queue) : session[c].queue[i].auth = session[c].key
    BY <1>1, Fields DEF RInv, Stream, Mine, TypeOK
  <2>4. \A e \in ToSet(session[c].queue) : e.auth = session[c].key
    BY <2>3 DEF ToSet
  <2> QED BY <2>1, <2>2, <2>4 DEF Pending
<1> QED BY <1>1, RealtimeInductive, PTL

\* No event that broadcast_record_change queues carries a record older than the
\* change it announces, however the callbacks of several changes interleave.
THEOREM EventsFresh == Spec => []NotOlderThanChange
<1>1. ASSUME RInv PROVE NotOlderThanChange
  <2> SUFFICES ASSUME NEW c \in Clients, NEW e \in Pending(c)
               PROVE  IF e.action = "delete" THEN e.data = NoRow ELSE e.data = NoRow \/ e.data.v >= e.n
    BY DEF NotOlderThanChange
  <2>1. session[c].queue \in Seq(Events) /\ \A i \in 1..Len(session[c].queue) : Fresh(session[c].queue[i])
    BY <1>1, Fields DEF RInv, Stream, TypeOK
  <2>2. \A x \in got[c] : Fresh(x)
    BY <1>1 DEF RInv, Stream
  <2>3. Fresh(e)
    BY <2>1, <2>2 DEF Pending, ToSet
  <2> QED BY <2>3 DEF Fresh
<1> QED BY <1>1, RealtimeInductive, PTL

=============================================================================
