----------------------------- MODULE Dispatcher -----------------------------
(***************************************************************************)
(* The action dispatcher of the agent (pkg/legacy) together with the MQTT  *)
(* connection it publishes on (mqtt/mqtt.go), from the moment the agent is *)
(* enrolled and subscribed to devices/sub/<id>.                            *)
(*                                                                         *)
(* paho invokes the subscription callback on one goroutine (the client's   *)
(* default is ordered delivery), so at most one subscribeHandler runs at a *)
(* time; the callback's three steps are decode + performAction, Publish,  *)
(* and the unregister exit check.  paho's network goroutine drains the     *)
(* outbound queue while the connection is open.  The client was built     *)
(* with AutoReconnect and a clean session and no OnConnect handler, so a  *)
(* reconnect does not restore the subscription.  The periodic ticker of    *)
(* the orchestrator publishes health and metrics concurrently (Service).  *)
(*                                                                         *)
(* Requests are abstracted to what the control flow of performAction and  *)
(* the SubscribeAction methods tells apart: whether the payload decodes,   *)
(* the action name, whether "snap" is non-empty, whether "data" is usable *)
(* by the action (well-formed JSON, a non-empty channel, valid service    *)
(* names) and whether the upload URL in it parses.  The provider (snapd)  *)
(* answers each call with success or failure, chosen nondeterministically. *)
(***************************************************************************)
EXTENDS Naturals, Sequences, FiniteSets

CONSTANTS
    Ids,          \* correlation ids of the requests the cloud sends
    Requests,     \* the requests the cloud may send (records, see Request)
    NoId,         \* the id field of a record that carries none
    MaxConnLoss,  \* bound on the number of broker connection losses
    MaxHealth     \* bound on the number of service ticks

(* The action names of performAction, and one it does not know.            *)
KnownActions == {"device", "list", "install", "remove", "refresh", "revert",
                 "enable", "disable", "start", "stop", "restart", "conf",
                 "setconf", "info", "ack", "server", "switch", "unregister",
                 "logs", "snapshot"}
Actions == KnownActions \cup {"unknown"}

Request == [id : Ids, decodes : BOOLEAN, action : Actions,
            snap : BOOLEAN, data : BOOLEAN, url : BOOLEAN]

ASSUME IdsAssumption == Ids # {} /\ NoId \notin Ids
ASSUME RequestsAssumption == Requests \subseteq Request
ASSUME BoundsAssumption == MaxConnLoss \in Nat /\ MaxHealth \in Nat

(* What goes out on the broker: an action response, the nil payload       *)
(* published for an unhandled action, a health record or a metric.        *)
Message == [kind : {"response", "empty", "health", "memory", "cpu"},
            id : Ids \cup {NoId},
            action : Actions \cup {"none"}, success : BOOLEAN]

VARIABLES
    alive,        \* the agent process has not exited
    connected,    \* Client.IsConnectionOpen()
    subscribed,   \* the broker session holds the devices/sub/<id> subscription
    toDevice,     \* QoS 1 requests the broker holds for the device session
    hpc,          \* where the callback is: idle, publish, exit, panic
    cur,          \* the request the callback is handling
    resp,         \* the response performAction returned for it
    outbox,       \* the client's outbound queue
    fromDevice,   \* what the broker has received from the device (history)
    issued,       \* every Publish the dispatcher issued (history)
    handled,      \* ids of decoded requests with a known action (history)
    sent,         \* ids the cloud has sent (history)
    sentConn,     \* requests the cloud sent while the agent was connected
    params,       \* the params file exists
    creds,        \* the credentials file exists
    losses,       \* connection losses so far
    healths       \* service ticks so far

vars == <<alive, connected, subscribed, toDevice, hpc, cur, resp, outbox,
          fromDevice, issued, handled, sent, sentConn, params, creds, losses, healths>>

NoRequest == [id |-> CHOOSE i \in Ids : TRUE, decodes |-> FALSE,
              action |-> "unknown", snap |-> FALSE, data |-> FALSE,
              url |-> TRUE]

Response(r, ok) == [kind |-> "response", id |-> r.id, action |-> r.action,
                    success |-> ok]
EmptyPayload == [kind |-> "empty", id |-> NoId, action |-> "none",
                 success |-> FALSE]
HealthRecord == [kind |-> "health", id |-> NoId, action |-> "none",
                 success |-> TRUE]
MemoryRecord == [kind |-> "memory", id |-> NoId, action |-> "none",
                 success |-> TRUE]
CpuRecord == [kind |-> "cpu", id |-> NoId, action |-> "none",
              success |-> TRUE]

(* Handler.Metrics: memory() and cpu() each publish on metrics/<org>, or  *)
(* log and return when gopsutil fails; the publishes that can result.     *)
MetricsPublished == {<<>>, <<MemoryRecord>>, <<CpuRecord>>,
                     <<MemoryRecord, CpuRecord>>}

-----------------------------------------------------------------------------
(* The validation each SubscribeAction method does before it calls snapd. *)

(* Methods that fail with "No snap name provided for ..." on an empty snap. *)
SnapTargetActions == {"install", "remove", "refresh", "revert", "enable",
                      "disable", "start", "stop", "restart", "conf",
                      "setconf", "info", "switch"}

(* Methods that fail without calling snapd when data is unusable: switch   *)
(* needs a channel, start/stop/restart go through validateServices,       *)
(* setconf, logs and snapshot unmarshal it.                               *)
DataActions == {"switch", "start", "stop", "restart", "setconf", "logs",
                "snapshot"}

Validates(r) ==
    /\ r.action \in SnapTargetActions => r.snap
    /\ r.action \in DataActions => r.data

-----------------------------------------------------------------------------
(* config.ReadParameters, run by server.New before enrollment: the params *)
(* file is read when it exists; otherwise StoreParameters writes the       *)
(* defaults, and only os.Create failing leaves no file (a failed Write or  *)
(* Chmod leaves one behind).                                               *)
ReadParameters(p) == \E exists, created \in BOOLEAN : p = (exists \/ created)

Init ==
    /\ alive = TRUE
    /\ connected = TRUE
    /\ subscribed = TRUE
    /\ toDevice = <<>>
    /\ hpc = "idle"
    /\ cur = NoRequest
    /\ resp = EmptyPayload
    /\ outbox = <<>>
    /\ fromDevice = <<>>
    /\ issued = <<>>
    /\ handled = {}
    /\ sent = {}
    /\ sentConn = {}
    /\ ReadParameters(params)
    /\ creds = TRUE
    /\ losses = 0
    /\ healths = 0

(* The cloud publishes r on devices/sub/<id>.  The broker queues it for    *)
(* the device only if the session holds the subscription.                 *)
CloudSend(r) ==
    /\ r.id \notin sent
    /\ sent' = sent \cup {r.id}
    /\ toDevice' = IF connected /\ subscribed THEN Append(toDevice, r)
                                              ELSE toDevice
    /\ sentConn' = IF alive /\ connected THEN sentConn \cup {r}
                                         ELSE sentConn
    /\ UNCHANGED <<alive, connected, subscribed, hpc, cur, resp, outbox,
                   fromDevice, issued, handled, params, creds, losses, healths>>

(* config.RemoveParameters: remove the params file if it exists, return  *)
(* the error if that fails; then remove the credentials file if it exists *)
(* and return that error.  ok is whether the call returned nil.           *)
RemoveParameters(ok) ==
    \/ /\ params                                     \* os.Remove(params) fails
       /\ ~ok
       /\ UNCHANGED <<params, creds>>
    \/ /\ params' = FALSE
       /\ \E removed \in BOOLEAN :                   \* os.Remove(credentials)
            /\ creds' = (creds /\ ~removed)
            /\ ok = (~creds \/ removed)

(* Mutant: the error of RemoveParameters is not returned, so the          *)
(* unregister answers success with the files still there.                  *)
UnregisterIgnoringRemoveError(r) ==
    \/ /\ resp' = Response(r, FALSE)
       /\ UNCHANGED <<params, creds>>
    \/ \E ok \in BOOLEAN : RemoveParameters(ok) /\ resp' = Response(r, TRUE)

(* SubscribeAction.Unregister: DeviceInfo, then RemoveParameters.          *)
Unregister(r) ==
    \/ /\ resp' = Response(r, FALSE)                \* DeviceInfo fails
       /\ UNCHANGED <<params, creds>>
    \/ \E ok \in BOOLEAN : RemoveParameters(ok) /\ resp' = Response(r, ok)

(* What a known SubscribeAction method reports: failure when its          *)
(* validation fails (SnapInfo on an empty snap name) or when the snapd     *)
(* call returns an error (SnapInfo, SnapAck, serverVersion); ok is whether *)
(* snapd succeeded.                                                        *)
ActionSucceeds(r, ok) == Validates(r) /\ ok

(* RetrieveLogs and SnapSnapshot set req.ContentLength before they check  *)
(* the error of http.NewRequest: once snapd has answered, a data.Url that *)
(* does not parse dereferences a nil request, and the panic on paho's     *)
(* callback goroutine, recovered nowhere, ends the process.                *)
UploadPanics(r) == r.action \in {"logs", "snapshot"} /\ r.data /\ ~r.url

(* The method returned: the callback goes on to its Publish.               *)
Returns == hpc' = "publish" /\ UNCHANGED <<alive, connected>>

(* performAction: an unknown action returns (nil, error); every known      *)
(* action copies id and action into its response, and a validation or     *)
(* snapd failure gives success = false; an upload to a bad URL panics.    *)
PerformAction(r) ==
    \/ /\ r.action = "unknown"
       /\ resp' = EmptyPayload
       /\ Returns
       /\ UNCHANGED <<params, creds>>
    \/ /\ r.action \in KnownActions \ {"unregister"}
       /\ \E ok \in BOOLEAN : /\ ~(ok /\ UploadPanics(r))
                             /\ resp' = Response(r, ActionSucceeds(r, ok))
       /\ Returns
       /\ UNCHANGED <<params, creds>>
    \/ /\ UploadPanics(r)                  \* snapd answered, then the panic
       /\ hpc' = "panic"
       /\ alive' = FALSE
       /\ connected' = FALSE
       /\ UNCHANGED <<resp, params, creds>>
    \/ /\ r.action = "unregister"
       /\ Unregister(r)
       /\ Returns

(* Mutant: the decode error is ignored and the zero-value SubscribeAction *)
(* (empty id, empty action) is handled.                                    *)
HandleMessageIgnoringDecodeError ==
    /\ alive
    /\ connected
    /\ hpc = "idle"
    /\ toDevice # <<>>
    /\ LET r == IF Head(toDevice).decodes THEN Head(toDevice)
                ELSE [Head(toDevice) EXCEPT !.id = NoId, !.action = "unknown"]
       IN /\ toDevice' = Tail(toDevice)
          /\ cur' = r
          /\ handled' = IF r.action \in KnownActions
                          THEN handled \cup {r.id} ELSE handled
          /\ PerformAction(r)
    /\ UNCHANGED <<subscribed, outbox, fromDevice, issued, sent, sentConn,
                   losses, healths>>

(* subscribeHandler up to its Publish: deserializePayload drops a payload *)
(* that does not decode; otherwise performAction.                          *)
HandleMessage ==
    /\ alive
    /\ connected
    /\ hpc = "idle"
    /\ toDevice # <<>>
    /\ LET r == Head(toDevice) IN
         /\ toDevice' = Tail(toDevice)
         /\ IF r.decodes
              THEN /\ cur' = r
                   /\ handled' = IF r.action \in KnownActions
                                   THEN handled \cup {r.id} ELSE handled
                   /\ PerformAction(r)
              ELSE UNCHANGED <<alive, connected, hpc, cur, resp, handled,
                               params, creds>>
    /\ UNCHANGED <<subscribed, outbox, fromDevice, issued, sent, sentConn,
                   losses, healths>>

(* Mutant: the callback returns early on a failed action, as the NATS     *)
(* handlers do, and publishes nothing.                                     *)
PublishResponseOnlySuccess ==
    /\ alive
    /\ hpc = "publish"
    /\ outbox' = IF resp.success THEN Append(outbox, resp) ELSE outbox
    /\ issued' = IF resp.success THEN Append(issued, resp) ELSE issued
    /\ hpc' = IF cur.action = "unregister" THEN "exit" ELSE "idle"
    /\ UNCHANGED <<alive, connected, subscribed, toDevice, cur, resp,
                   fromDevice, handled, sent, sentConn, params, creds, losses,
                   healths>>

(* client.Publish(devices/pub/<id>, QoS 1, response): queued, not awaited. *)
(* The exit check then tests performAction's error, which for an          *)
(* unregister is serializeResponse's (json.Marshal of a PublishDevice,    *)
(* never an error): every unregister, a failed one too, goes on to exit.  *)
PublishResponse ==
    /\ alive
    /\ hpc = "publish"
    /\ outbox' = Append(outbox, resp)
    /\ issued' = Append(issued, resp)
    /\ hpc' = IF cur.action = "unregister" THEN "exit" ELSE "idle"
    /\ UNCHANGED <<alive, connected, subscribed, toDevice, cur, resp,
                   fromDevice, handled, sent, sentConn, params, creds, losses,
                   healths>>

(* os.Exit(0) after an unregister, whatever its outcome.                   *)
ExitAfterUnregister ==
    /\ alive
    /\ hpc = "exit"
    /\ alive' = FALSE
    /\ connected' = FALSE
    /\ UNCHANGED <<subscribed, toDevice, hpc, cur, resp, outbox, fromDevice,
                   issued, handled, sent, sentConn, params, creds, losses, healths>>

(* Server.Service on the service ticker: Handler.Health publishes QoS 0   *)
(* on devices/health/<id> (its Marshal of a fixed struct cannot fail),    *)
(* then Handler.Metrics publishes what it measured, QoS 0.                *)
Service ==
    /\ alive
    /\ healths < MaxHealth
    /\ healths' = healths + 1
    /\ \E m \in MetricsPublished :
          /\ outbox' = outbox \o (<<HealthRecord>> \o m)
          /\ issued' = issued \o (<<HealthRecord>> \o m)
    /\ UNCHANGED <<alive, connected, subscribed, toDevice, hpc, cur, resp,
                   fromDevice, handled, sent, sentConn, params, creds, losses>>

(* Mutant: outbound messages wait for the subscription, not the socket.   *)
FlushWhenSubscribed ==
    /\ alive
    /\ connected
    /\ subscribed
    /\ outbox # <<>>
    /\ fromDevice' = Append(fromDevice, Head(outbox))
    /\ outbox' = Tail(outbox)
    /\ UNCHANGED <<alive, connected, subscribed, toDevice, hpc, cur, resp,
                   issued, handled, sent, sentConn, params, creds, losses, healths>>

(* paho's network goroutine writes the head of the outbound queue.         *)
Flush ==
    /\ alive
    /\ connected
    /\ outbox # <<>>
    /\ fromDevice' = Append(fromDevice, Head(outbox))
    /\ outbox' = Tail(outbox)
    /\ UNCHANGED <<alive, connected, subscribed, toDevice, hpc, cur, resp,
                   issued, handled, sent, sentConn, params, creds, losses, healths>>

(* The broker connection drops.  With a clean session the broker discards *)
(* the subscription and what it queued for the device.                    *)
ConnectionLost ==
    /\ alive
    /\ connected
    /\ losses < MaxConnLoss
    /\ losses' = losses + 1
    /\ connected' = FALSE
    /\ subscribed' = FALSE
    /\ toDevice' = <<>>
    /\ UNCHANGED <<alive, hpc, cur, resp, outbox, fromDevice, issued,
                   handled, sent, sentConn, params, creds, healths>>

(* AutoReconnect: paho reconnects; no OnConnect handler re-subscribes.    *)
Reconnect ==
    /\ alive
    /\ ~connected
    /\ connected' = TRUE
    /\ UNCHANGED <<alive, subscribed, toDevice, hpc, cur, resp, outbox,
                   fromDevice, issued, handled, sent, sentConn, params, creds,
                   losses, healths>>

Next ==
    \/ \E r \in Requests : CloudSend(r)
    \/ HandleMessage
    \/ PublishResponse
    \/ ExitAfterUnregister
    \/ Service
    \/ Flush
    \/ ConnectionLost
    \/ Reconnect

(* The callback goroutine, the network goroutine and the reconnect loop   *)
(* keep running while the process is alive; the cloud and the network    *)
(* failures are not obliged to act.                                        *)
Fairness ==
    /\ WF_vars(HandleMessage)
    /\ WF_vars(PublishResponse)
    /\ WF_vars(ExitAfterUnregister)
    /\ WF_vars(Flush)
    /\ WF_vars(Reconnect)

Spec == Init /\ [][Next]_vars
FairSpec == Spec /\ Fairness

-----------------------------------------------------------------------------
(* Type correctness.                                                       *)
TypeOK ==
    /\ alive \in BOOLEAN
    /\ connected \in BOOLEAN
    /\ subscribed \in BOOLEAN
    /\ toDevice \in Seq(Request)
    /\ hpc \in {"idle", "publish", "exit", "panic"}
    /\ cur \in Request
    /\ resp \in Message
    /\ outbox \in Seq(Message)
    /\ fromDevice \in Seq(Message)
    /\ issued \in Seq(Message)
    /\ handled \subseteq Ids
    /\ sent \subseteq Ids
    /\ sentConn \subseteq Request
    /\ params \in BOOLEAN
    /\ creds \in BOOLEAN
    /\ losses \in 0..MaxConnLoss
    /\ healths \in 0..MaxHealth

-----------------------------------------------------------------------------
(* The responses to request i that the dispatcher issued / the broker got. *)
Issued(i) == {k \in DOMAIN issued : issued[k].kind = "response"
                                    /\ issued[k].id = i}
Answered(i) == \E k \in DOMAIN fromDevice : fromDevice[k].kind = "response"
                                           /\ fromDevice[k].id = i

(* Every decoded request with a known action gets exactly one response     *)
(* Publish from subscribeHandler: none before it is handled, one once the  *)
(* callback is past its Publish, never a second (the spec's "published    *)
(* exactly once"); the one request whose upload panicked gets none.        *)
AnsweredExactlyOnce ==
    \A i \in Ids :
        Cardinality(Issued(i)) =
            IF i \in handled /\ ~(hpc \in {"publish", "panic"} /\ cur.id = i)
              THEN 1 ELSE 0

(* The refinement mapping onto AbstractDispatcher: the accepted ids are   *)
(* the handled ones, an answer is a response Publish, the files are       *)
(* cleared when both are gone, an unregister is answered once a response  *)
(* to one, of either outcome, was issued, and released once a successful  *)
(* one was.                                                                *)
UnregisterAnswered ==
    \E k \in DOMAIN issued : /\ issued[k].kind = "response"
                             /\ issued[k].action = "unregister"

(* A successful unregister response was issued.                           *)
UnregisterSucceeded ==
    \E k \in DOMAIN issued : /\ issued[k].kind = "response"
                             /\ issued[k].action = "unregister"
                             /\ issued[k].success

Abs == INSTANCE AbstractDispatcher WITH
           accepted <- handled,
           answers <- [i \in Ids |-> Cardinality(Issued(i))],
           cleared <- ~params /\ ~creds,
           unregistered <- UnregisterAnswered,
           released <- UnregisterSucceeded,
           running <- alive

(* subscribeHandler implements the dispatcher's contract: every step of   *)
(* the callback, the network and the service ticker is a step of          *)
(* AbstractDispatcher or leaves its view unchanged.                        *)
AbstractSpec == Abs!Spec

(* Spec 3: the process ends only as the direct result of a successfully  *)
(* processed unregister, which removed the params and the credentials     *)
(* file, and after its success response was issued.  The code also ends  *)
(* it by os.Exit after a failed unregister and by the upload panic.       *)
ExitOnlyAfterUnregister ==
    ~alive => /\ cur.action = "unregister"
              /\ ~params /\ ~creds
              /\ \E k \in DOMAIN issued : issued[k] = Response(cur, TRUE)

(* What the callback holds around an unregister: while it holds one its   *)
(* response is the response to cur, a successful one means both files are *)
(* gone, the exit state is reached only from an unregister with its       *)
(* response issued, and only the exit and the panic stop the process.     *)
UnregisterInv ==
    /\ TypeOK
    /\ hpc \in {"publish", "exit"} /\ cur.action = "unregister"
           => resp = Response(cur, resp.success)
    /\ hpc \in {"publish", "exit"} /\ cur.action = "unregister" /\ resp.success
           => ~params /\ ~creds
    /\ hpc = "exit" => /\ cur.action = "unregister"
                       /\ \E k \in DOMAIN issued : issued[k] = resp
    /\ ~alive => hpc \in {"exit", "panic"}
    /\ hpc = "panic" => ~alive

(* Every handled request is eventually answered at the broker, across     *)
(* connection losses and auto-reconnects, unless the process has exited.  *)
HandledEventuallyAnswered ==
    \A i \in Ids : (i \in handled) ~> (Answered(i) \/ ~alive)

(* Spec 3 and 4.3: the process exits only after the response to the       *)
(* unregister has been published.  subscribeHandler calls os.Exit right    *)
(* after a QoS 1 Publish whose token it does not wait on.                 *)
UnregisterResponseDelivered ==
    ~alive /\ hpc = "exit" => \E k \in DOMAIN fromDevice : fromDevice[k] = resp

(* Spec 4.3: an unknown action yields no response upstream.  performAction *)
(* returns a nil payload and subscribeHandler publishes it regardless.     *)
NoEmptyPublish ==
    \A k \in DOMAIN issued : issued[k].kind # "empty"

(* The broker connection is resilient: a request with a known action that *)
(* the cloud sends while the agent is connected is eventually answered.   *)
(* After an auto-reconnect nothing re-subscribes devices/sub/<id>.         *)
Answerable(r) == r.decodes /\ r.action \in KnownActions
ConnectedRequestsAnswered ==
    \A r \in Requests :
        Answerable(r) => ((r \in sentConn) ~> (Answered(r.id) \/ ~alive))
=============================================================================
