------------------------------ MODULE LocalBus ------------------------------
(***************************************************************************)
(* The local-bus (NATS) request/reply server once Start has returned:     *)
(* the subscription table setupSubscriptions installed on each NATS       *)
(* connection, requests from local clients, and the eight handlers with   *)
(* the paths on which they reply and on which they return without a       *)
(* reply; SetLegacy from Run, and the MQTT connection the status handler  *)
(* reports.                                                                *)
(*                                                                         *)
(* Core NATS delivers a request once to every subscription on its         *)
(* subject, so a table installed twice (Run's double Start) handles it    *)
(* twice.  A table whose Subscribe failed for a subject never sees it.    *)
(* snapd calls succeed or fail nondeterministically.                      *)
(***************************************************************************)
EXTENDS Naturals, Sequences, FiniteSets

CONSTANTS
    Ids,        \* request ids (reply inboxes)
    Requests,   \* the requests local clients may send
    Tables      \* how many times the subscription table was installed

(* The subjects of setupSubscriptions; the v0 and v1 handlers of a pair   *)
(* run the same code on different message types.                          *)
Subjects == {"assertions", "assertions.v1", "snaps", "snaps.v1", "apps",
             "apps.v1", "snapsnap.v1", "status"}

(* The action field of AppsRequest and SnapsSnapRequest.                  *)
ReqActions == {"start", "stop", "switch", "other"}

Request == [id : Ids, subject : Subjects, action : ReqActions]

ASSUME RequestsAssumption == Requests \subseteq Request
ASSUME TablesAssumption == Tables \in Nat \ {0}

(* A published reply: to which request, from which table, whether it     *)
(* carries an error, and the connected flag of a status reply.            *)
Reply == [id : Ids, table : 1..Tables, err : BOOLEAN, connected : BOOLEAN]

VARIABLES
    subs,        \* subs[t]: the subjects table t subscribed
    sent,        \* ids of the requests sent so far
    todo,        \* <<t, r>>: request r delivered to table t, not yet handled
    handled,     \* <<t, r>> pairs whose handler has run (history)
    replies,     \* every reply published, in order
    legacySet,   \* SetLegacy has run
    mqttOpen     \* IsConnectionOpen of the MQTT client

vars == <<subs, sent, todo, handled, replies, legacySet, mqttOpen>>

-----------------------------------------------------------------------------
(* setupSubscriptions logs a failed Subscribe and goes on; in one table   *)
(* at most one subject fails.                                              *)
Init ==
    /\ subs \in [1..Tables -> {Subjects} \cup {Subjects \ {s} : s \in Subjects}]
    /\ sent = {}
    /\ todo = {}
    /\ handled = {}
    /\ replies = <<>>
    /\ legacySet = FALSE
    /\ mqttOpen \in BOOLEAN

(* A local client sends request r; each table subscribed to its subject   *)
(* receives it.                                                            *)
Send(r) ==
    /\ r.id \notin sent
    /\ sent' = sent \cup {r.id}
    /\ todo' = todo \cup {<<t, r>> : t \in {u \in 1..Tables : r.subject \in subs[u]}}
    /\ UNCHANGED <<subs, handled, replies, legacySet, mqttOpen>>

(* encodedConn.Publish(reply, response).                                   *)
Publish(t, r, err, connected) ==
    replies' = Append(replies, [id |-> r.id, table |-> t, err |-> err,
                                connected |-> connected])

(* Table t takes request r off its subscription: the handler's common     *)
(* frame around Body, the handler proper.                                  *)
Handling(t, r, subjects) ==
    /\ <<t, r>> \in todo
    /\ r.subject \in subjects
    /\ todo' = todo \ {<<t, r>>}
    /\ handled' = handled \cup {<<t, r>>}
    /\ UNCHANGED <<subs, sent, legacySet, mqttOpen>>

(* handleAssertionsGet(v1) and handleSnapsGet(v1): on a snapd error they *)
(* log and return; otherwise they reply (these schemas have no error      *)
(* field).                                                                 *)
HandleGet(t, r) ==
    /\ Handling(t, r, {"assertions", "assertions.v1", "snaps", "snaps.v1"})
    /\ \/ Publish(t, r, FALSE, FALSE)
       \/ UNCHANGED replies

(* Mutant: the snapd-error path replies with the error and falls through *)
(* to the success reply (a missing return).                                *)
HandleAppsPostNoReturn(t, r) ==
    /\ Handling(t, r, {"apps", "apps.v1"})
    /\ IF r.action \notin {"start", "stop"}
         THEN UNCHANGED replies
         ELSE \/ Publish(t, r, FALSE, FALSE)
              \/ replies' = replies \o
                   <<[id |-> r.id, table |-> t, err |-> TRUE, connected |-> FALSE],
                     [id |-> r.id, table |-> t, err |-> FALSE, connected |-> FALSE]>>

(* handleAppsPost(v1): an action other than start or stop is logged and  *)
(* dropped; otherwise snapd.Start/Stop, and a reply with the change id or *)
(* with the error.                                                         *)
HandleAppsPost(t, r) ==
    /\ Handling(t, r, {"apps", "apps.v1"})
    /\ IF r.action \notin {"start", "stop"}
         THEN UNCHANGED replies
         ELSE \E ok \in BOOLEAN : Publish(t, r, ~ok, FALSE)

(* handleSnapsSnapPostv1: the deferred Publish replies on every path; an *)
(* action other than switch is an error, and so is a failing snapd.Switch.*)
(* (The subject-length check cannot fail: the subscription's "*" matches  *)
(* exactly one token, so the subject always has six.)                      *)
HandleSnapsSnapPost(t, r) ==
    /\ Handling(t, r, {"snapsnap.v1"})
    /\ IF r.action # "switch"
         THEN Publish(t, r, TRUE, FALSE)
         ELSE \E ok \in BOOLEAN : Publish(t, r, ~ok, FALSE)

(* Mutant: the status handler returns without a reply while no           *)
(* LegacyInterface is set.                                                 *)
HandleStatusEarlyReturn(t, r) ==
    /\ Handling(t, r, {"status"})
    /\ IF legacySet THEN Publish(t, r, FALSE, mqttOpen)
                    ELSE UNCHANGED replies

(* handleMqttConnectionStatus: before SetLegacy, connected=false with an *)
(* error; afterwards the dispatcher's IsConnected (IsConnectionOpen).      *)
(* LegacyInterface is written by Run and read here without a lock; the    *)
(* read sees the pointer either before or after the write, which is the  *)
(* interleaving of SetLegacy and this step.                                *)
HandleStatus(t, r) ==
    /\ Handling(t, r, {"status"})
    /\ IF legacySet THEN Publish(t, r, FALSE, mqttOpen)
                    ELSE Publish(t, r, TRUE, FALSE)

(* natsServer.SetLegacy(&s.legacy), from Run after enrollment.            *)
SetLegacy ==
    /\ ~legacySet
    /\ legacySet' = TRUE
    /\ UNCHANGED <<subs, sent, todo, handled, replies, mqttOpen>>

(* The MQTT connection opens or drops (auto-reconnect).                    *)
MqttChange ==
    /\ mqttOpen' = ~mqttOpen
    /\ UNCHANGED <<subs, sent, todo, handled, replies, legacySet>>

Next ==
    \/ \E r \in Requests : Send(r)
    \/ \E t \in 1..Tables, r \in Requests :
          \/ HandleGet(t, r)
          \/ HandleAppsPost(t, r)
          \/ HandleSnapsSnapPost(t, r)
          \/ HandleStatus(t, r)
    \/ SetLegacy
    \/ MqttChange

Spec == Init /\ [][Next]_vars

-----------------------------------------------------------------------------
(* Type correctness.                                                       *)
TypeOK ==
    /\ subs \in [1..Tables -> SUBSET Subjects]
    /\ sent \subseteq Ids
    /\ todo \subseteq (1..Tables) \X Requests
    /\ handled \subseteq (1..Tables) \X Requests
    /\ replies \in Seq(Reply)
    /\ legacySet \in BOOLEAN
    /\ mqttOpen \in BOOLEAN

(* The replies published to request id i.                                 *)
RepliesTo(i) == {k \in DOMAIN replies : replies[k].id = i}

(* The status and snap-switch handlers reply on every path, the status   *)
(* one also before SetLegacy: once a table has handled such a request,   *)
(* that table's reply is out.                                              *)
AlwaysReplyingAnswered ==
    \A p \in handled :
        p[2].subject \in {"status", "snapsnap.v1"} =>
            \E k \in RepliesTo(p[2].id) : replies[k].table = p[1]

(* Each installed table answers a request at most once: no two replies   *)
(* carry the same request id and the same table, with the table          *)
(* installed twice as Run does.  Every handler path publishes at most     *)
(* once (the reply inbox of a NATS request takes the first reply; a       *)
(* second from the same handler would be a stray).                        *)
OneReplyPerTable ==
    \A k1, k2 \in DOMAIN replies :
        /\ replies[k1].id = replies[k2].id
        /\ replies[k1].table = replies[k2].table
        => k1 = k2

(* The inductive invariant behind OneReplyPerTable and                    *)
(* AlwaysReplyingAnswered: every id delivered or answered was sent; a     *)
(* table holds at most one delivery per id (Send takes a fresh id); and a *)
(* delivery still to handle has no reply from its table yet.               *)
ReplyInv ==
    /\ TypeOK
    /\ \A p \in todo \cup handled : p[2].id \in sent
    /\ \A k \in DOMAIN replies : replies[k].id \in sent
    /\ \A p, q \in todo \cup handled : p[1] = q[1] /\ p[2].id = q[2].id => p = q
    /\ \A p \in todo, k \in DOMAIN replies :
          ~(replies[k].id = p[2].id /\ replies[k].table = p[1])
    /\ OneReplyPerTable
    /\ AlwaysReplyingAnswered

(* The spec: handler errors are embedded in the reply wherever the reply  *)
(* schema has an error field (apps, snap switch, status), never dropped.  *)
ErrorsReplied ==
    \A p \in handled :
        p[2].subject \in {"apps", "apps.v1", "snapsnap.v1", "status"} =>
            \E k \in RepliesTo(p[2].id) : replies[k].table = p[1]
=============================================================================
