------------------------------ MODULE Realtime ------------------------------
(***************************************************************************)
(* Realtime events (services/realtime_service.py, api/realtime.py and the  *)
(* NOTIFY of services/record_service.py) for one collection.  PostgreSQL   *)
(* delivers notifications in commit order; each one starts a task, and the *)
(* tasks interleave at every read of the database.                         *)
(***************************************************************************)
EXTENDS Integers, Sequences, SequencesExt

CONSTANTS Clients,      \* SSE connections; a client id is used once
          Users,        \* identities of subscribe requests
          Admin,        \* a superuser among them
          Records,
          MaxChanges,   \* bound: committed changes
          MaxSubscribes,\* bound: subscribe requests
          NoRow

ASSUME BoundsAssumption == MaxChanges \in Nat /\ MaxSubscribes \in Nat
\* What stands for the absence of an identity or a row is neither.
ASSUME IdentityAssumption == "unset" \notin Users
ASSUME RowAssumption == NoRow \notin [v : 1..MaxChanges, owner : Users]

VARIABLES rule,      \* list_rule and view_rule: "locked", "public" or an expression
          row,       \* the table: [v, owner], v numbers the changes
          changes, subscribes,
          wire,      \* notifications on the LISTEN connection
          listening, \* the listener task is alive
          task,      \* running callbacks of on_notification
          session,   \* SubscriptionManager.sessions, and the ones that tasks still hold
          asking,    \* subscribe requests between their checks and replace_subscriptions
          got        \* events that a client's stream yielded

vars == <<rule, row, changes, subscribes, wire, listening, task, session, asking, got>>

Unset == "unset"
\* A topic is the whole collection or one record.
Topics == {"*"} \cup Records
NoSession == [open |-> FALSE, key |-> Unset, subs |-> {}, queue |-> <<>>]

Actions == {"create", "update", "delete"}
Rows == [v : 1..MaxChanges, owner : Users]
Subs == [topic : Topics, auth : Users]
Notices == [n : 1..MaxChanges, id : Records, action : Actions]
Events == [n : 1..MaxChanges, action : Actions, data : Rows \cup {NoRow}, auth : Users, topic : Topics]
Sessions == [open : BOOLEAN, key : Users \cup {Unset}, subs : SUBSET Subs, queue : Seq(Events)]
Callbacks == [n : 1..MaxChanges, id : Records, action : Actions, at : {"read", "send", "put"},
              data : Rows \cup {NoRow}, todo : SUBSET Clients, subs : SUBSET Subs,
              client : Clients \cup {NoRow}, sub : Subs \cup {NoRow}]
Requests == [client : Clients, auth : Users, topics : SUBSET Topics]

TypeOK ==
    /\ changes \in 0..MaxChanges /\ subscribes \in 0..MaxSubscribes
    /\ row \in [Records -> Rows \cup {NoRow}]
    /\ wire \in Seq(Notices)
    /\ task \subseteq Callbacks
    /\ session \in [Clients -> Sessions]
    /\ asking \subseteq Requests
    /\ got \in [Clients -> SUBSET Events]

Init ==
    /\ rule \in {[list |-> "public", view |-> "owner"], [list |-> "owner", view |-> "locked"]}
    /\ row = [x \in Records |-> NoRow]
    /\ changes = 0 /\ subscribes = 0 /\ wire = <<>> /\ listening = TRUE /\ task = {}
    /\ session = [c \in Clients |-> NoSession]
    /\ asking = {}
    /\ got = [c \in Clients |-> {}]

----------------------------------------------------------------------------
\* A record transaction commits and its pg_notify with it.
_notify_record_change(x, action, new) ==
    /\ changes < MaxChanges /\ changes' = changes + 1
    /\ row' = [row EXCEPT ![x] = new]
    /\ wire' = IF listening THEN Append(wire, [n |-> changes + 1, id |-> x, action |-> action]) ELSE wire
    /\ UNCHANGED <<rule, subscribes, listening, task, session, asking, got>>

create_record == \E x \in Records, u \in Users :
    row[x] = NoRow /\ _notify_record_change(x, "create", [v |-> changes + 1, owner |-> u])
update_record == \E x \in Records, u \in Users :
    row[x] # NoRow /\ _notify_record_change(x, "update", [v |-> changes + 1, owner |-> u])
delete_record == \E x \in Records :
    row[x] # NoRow /\ _notify_record_change(x, "delete", NoRow)

----------------------------------------------------------------------------
\* register_client, for a stream that was never open.
register_client ==
    /\ \E c \in Clients :
          /\ session[c] = NoSession /\ got[c] = {} /\ ~\E a \in asking : a.client = c
          /\ session' = [session EXCEPT ![c].open = TRUE]
    /\ UNCHANGED <<rule, row, changes, subscribes, wire, listening, task, asking, got>>

\* The identity is only stored with the subscriptions.
SubscribeKeyLate ==
    /\ subscribes < MaxSubscribes /\ subscribes' = subscribes + 1
    /\ \E c \in Clients, u \in Users, ts \in SUBSET Topics :
          /\ session[c].open /\ session[c].key \in {Unset, u}
          /\ asking' = asking \cup {[client |-> c, auth |-> u, topics |-> ts]}
    /\ UNCHANGED <<rule, row, changes, wire, listening, task, session, got>>

\* realtime_subscribe up to its first await: the session takes the identity of
\* its first request and refuses every other one.
realtime_subscribe ==
    /\ subscribes < MaxSubscribes /\ subscribes' = subscribes + 1
    /\ \E c \in Clients, u \in Users, ts \in SUBSET Topics :
          /\ session[c].open /\ session[c].key \in {Unset, u}
          /\ session' = [session EXCEPT ![c].key = u]
          /\ asking' = asking \cup {[client |-> c, auth |-> u, topics |-> ts]}
    /\ UNCHANGED <<rule, row, changes, wire, listening, task, got>>

\* The collections are resolved, the subscriptions of the session replaced; a
\* session that is gone by now is an error.
replace_subscriptions ==
    /\ \E a \in asking :
          /\ asking' = asking \ {a}
          /\ IF session[a.client].open
             THEN session' = [session EXCEPT ![a.client].subs = {[topic |-> t, auth |-> a.auth] : t \in a.topics},
                                             ![a.client].key = IF @ = Unset THEN a.auth ELSE @]
             ELSE UNCHANGED session
    /\ UNCHANGED <<rule, row, changes, subscribes, wire, listening, task, got>>

\* The stream ends.  Tasks that hold the session go on filling its queue.
disconnect_client ==
    /\ \E c \in Clients :
          /\ session[c].open
          /\ session' = [session EXCEPT ![c].open = FALSE, ![c].subs = {}]
    /\ UNCHANGED <<rule, row, changes, subscribes, wire, listening, task, asking, got>>

\* event_generator yields the next message.
event_generator(c) ==
    /\ session[c].open /\ session[c].queue # <<>>
    /\ got' = [got EXCEPT ![c] = @ \cup {Head(session[c].queue)}]
    /\ session' = [session EXCEPT ![c].queue = Tail(@)]
    /\ UNCHANGED <<rule, row, changes, subscribes, wire, listening, task, asking>>

----------------------------------------------------------------------------
\* One callback at a time, the others are dropped.
NotificationDropped ==
    /\ wire # <<>> /\ listening
    /\ task' = IF task # {} THEN task ELSE
          {[n |-> Head(wire).n, id |-> Head(wire).id, action |-> Head(wire).action,
            at |-> "read", data |-> NoRow, todo |-> {}, subs |-> {}, client |-> NoRow, sub |-> NoRow]}
    /\ wire' = Tail(wire)
    /\ UNCHANGED <<rule, row, changes, subscribes, listening, session, asking, got>>

\* asyncpg calls the listener in order; the callback is a task of its own and
\* resolves the collection first.
on_notification ==
    /\ wire # <<>> /\ listening
    /\ task' = task \cup {[n |-> Head(wire).n, id |-> Head(wire).id, action |-> Head(wire).action,
                           at |-> "read", data |-> NoRow, todo |-> {}, subs |-> {}, client |-> NoRow, sub |-> NoRow]}
    /\ wire' = Tail(wire)
    /\ UNCHANGED <<rule, row, changes, subscribes, listening, session, asking, got>>

Open == {c \in Clients : session[c].open}

\* A read that another callback already made is used again.
GetRecordShared(t) ==
    /\ t.at = "read"
    /\ \E o \in task :
          /\ o.id = t.id /\ (o = t \/ o.data # NoRow)
          /\ task' = (task \ {t}) \cup
                {[t EXCEPT !.at = "send", !.todo = Open,
                           !.data = IF t.action = "delete" THEN NoRow ELSE IF o = t THEN row[t.id] ELSE o.data]}
    /\ UNCHANGED <<rule, row, changes, subscribes, wire, listening, session, asking, got>>

\* The record as it is now, not as it was notified; then the sessions are listed.
get_record(t) ==
    /\ t.at = "read"
    /\ task' = (task \ {t}) \cup
          {[t EXCEPT !.at = "send", !.todo = Open, !.data = IF t.action = "delete" THEN NoRow ELSE row[t.id]]}
    /\ UNCHANGED <<rule, row, changes, subscribes, wire, listening, session, asking, got>>

\* broadcast_record_change: the next session's subscriptions, or the end.
NextSession(t) ==
    /\ t.at = "send" /\ t.subs = {}
    /\ IF t.todo = {}
       THEN task' = task \ {t}
       ELSE \E c \in t.todo :
               task' = (task \ {t}) \cup
                  {[t EXCEPT !.todo = @ \ {c}, !.client = c,
                             !.subs = {s \in session[c].subs : s.topic \in {"*", t.id}}]}
    /\ UNCHANGED <<rule, row, changes, subscribes, wire, listening, session, asking, got>>

\* check_rule, then check_record_rule against the row as it is now; a deleted
\* record has no row to check.
_is_subscription_allowed_for_event(t, s) ==
    LET r == IF s.topic = "*" THEN rule.list ELSE rule.view IN
    \/ s.auth = Admin
    \/ r = "public"
    \/ r = "owner" /\ t.action # "delete" /\ row[t.id] # NoRow /\ row[t.id].owner = s.auth

CheckSubscription(t) ==
    /\ t.at = "send"
    /\ \E s \in t.subs :
          task' = (task \ {t}) \cup
             {IF _is_subscription_allowed_for_event(t, s)
              THEN [t EXCEPT !.at = "put", !.subs = @ \ {s}, !.sub = s]
              ELSE [t EXCEPT !.subs = @ \ {s}]}
    /\ UNCHANGED <<rule, row, changes, subscribes, wire, listening, session, asking, got>>

\* _send_realtime_message, after the hooks that an extension may have added.
_send_realtime_message(t) ==
    /\ t.at = "put"
    /\ session' = [session EXCEPT ![t.client].queue =
          Append(@, [n |-> t.n, action |-> t.action, data |-> t.data, auth |-> t.sub.auth, topic |-> t.sub.topic])]
    /\ task' = (task \ {t}) \cup {[t EXCEPT !.at = "send", !.sub = NoRow]}
    /\ UNCHANGED <<rule, row, changes, subscribes, wire, listening, asking, got>>

\* listen_for_db_events ends when its connection does; what was on the wire is gone.
ListenLost ==
    /\ listening /\ listening' = FALSE /\ wire' = <<>>
    /\ UNCHANGED <<rule, row, changes, subscribes, task, session, asking, got>>

TaskSteps == \E t \in task : get_record(t) \/ NextSession(t) \/ CheckSubscription(t) \/ _send_realtime_message(t)

Next ==
    \/ create_record \/ update_record \/ delete_record
    \/ register_client \/ realtime_subscribe \/ replace_subscriptions \/ disconnect_client
    \/ \E c \in Clients : event_generator(c)
    \/ on_notification \/ TaskSteps \/ ListenLost

\* The event loop runs every task that is ready, and a stream that is read.
Fairness ==
    /\ WF_vars(on_notification) /\ WF_vars(TaskSteps)
    /\ \A c \in Clients : WF_vars(event_generator(c))

Spec == Init /\ [][Next]_vars /\ Fairness

----------------------------------------------------------------------------
Pending(c) == got[c] \cup ToSet(session[c].queue)

\* A client id never receives what another identity was allowed to see, also
\* when requests of two identities race for a new session.
OneIdentity ==
    \A c \in Clients :
        /\ \A s \in session[c].subs : s.auth = session[c].key
        /\ \A e \in Pending(c) : e.auth = session[c].key

\* An event carries the record as its change left it or a later state, never
\* an older one; a delete event carries none.
NotOlderThanChange ==
    \A c \in Clients : \A e \in Pending(c) :
        IF e.action = "delete" THEN e.data = NoRow ELSE e.data = NoRow \/ e.data.v >= e.n

\* While the listener lives, a change reaches every client that was subscribed
\* to the collection when it committed and stays so.
Subscribed(c) == \E s \in session[c].subs : s.topic = "*"
ChangeArrives ==
    \A c \in Clients, n \in 1..MaxChanges :
        rule.list = "public" /\ changes = n /\ Subscribed(c) /\ (wire # <<>> /\ Last(wire).n = n)
            ~> (\E e \in got[c] : e.n = n) \/ ~Subscribed(c) \/ ~listening

=============================================================================
