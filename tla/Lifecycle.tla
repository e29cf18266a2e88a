------------------------------ MODULE Lifecycle ------------------------------
(***************************************************************************)
(* The agent's start-up and shutdown: server.Run on the main goroutine,    *)
(* with the two calls of the NATS server's Start it makes (the direct one *)
(* and the one inside AddServer), the enrollment loop (Enroll, which runs *)
(* identity.CheckEnrollment and createLegacySubscriber), SetLegacy, the    *)
(* signal wait and Stop; and the operating system delivering SIGINT or     *)
(* SIGTERM.                                                                 *)
(*                                                                         *)
(* Go's signal.Notify makes the runtime send each signal, without         *)
(* blocking, to every channel registered for it (a full channel misses    *)
(* it), and disables the default action (process termination) once any    *)
(* channel is registered.  Every quit channel here has capacity 1 and is   *)
(* never unregistered.                                                     *)
(*                                                                         *)
(* External calls (NATS connect, snapd assertions, the identity service,  *)
(* file writes, the MQTT connect and subscribe) succeed or fail            *)
(* nondeterministically.                                                   *)
(***************************************************************************)
EXTENDS Naturals

CONSTANT MaxSignals   \* bound on the signals the operating system delivers

ASSUME MaxSignalsAssumption == MaxSignals \in Nat

(* The quit channels: one per call of getInitialNATSConnection, and Run's. *)
Chans == {"nats1", "nats2", "run"}

(* Where the main goroutine is.                                            *)
PCs == {"start1", "retry1", "start2", "retry2", "enroll", "setlegacy",
        "notify", "wait", "stop", "done", "killed"}

(* s.legacy: nil, a handler whose subscription failed, or a subscribed one. *)
LegacyStates == {"nil", "unsubscribed", "subscribed"}

VARIABLES
    pc,           \* the main goroutine
    chan,         \* messages buffered in each quit channel (capacity 1)
    registered,   \* the channels signal.Notify has registered
    natsConns,    \* NATS connections with the subscription table set up
    servers,      \* len(s.otherServers)
    creds,        \* the credentials file exists
    ddSent,       \* the identity service returned device data (history)
    ddWritten,    \* device-data.bin holds it
    noAssert,     \* an enrollment POST carried no assertions (history)
    client,       \* the package-global MQTT conn/client exists
    clients,      \* MQTT clients created so far
    open,         \* the MQTT connection is open
    legacy,       \* s.legacy
    shared,       \* SetLegacy has handed &s.legacy to the NATS server
    closed,       \* Stop closed the MQTT connection
    signals       \* signals delivered so far

vars == <<pc, chan, registered, natsConns, servers, creds, ddSent, ddWritten,
          noAssert, client, clients, open, legacy, shared, closed, signals>>

enrollVars == <<creds, ddSent, ddWritten, noAssert>>
mqttVars == <<client, clients, open, legacy>>

-----------------------------------------------------------------------------
Init ==
    /\ pc = "start1"
    /\ chan = [c \in Chans |-> 0]
    /\ registered = {}
    /\ natsConns = 0
    /\ servers = 0
    /\ creds \in BOOLEAN          \* enrolled in an earlier run, or not
    /\ ddSent = FALSE
    /\ ddWritten = FALSE
    /\ noAssert = FALSE
    /\ client = FALSE
    /\ clients = 0
    /\ open = FALSE
    /\ legacy = "nil"
    /\ shared = FALSE
    /\ closed = FALSE
    /\ signals = 0

(* The channel of each Start call, and where Run goes when it returns:    *)
(* after the first, AddServer calls Start again; after the second,        *)
(* AddServer appends the server and Run enters the enrollment loop.        *)
StartChan(p) == IF p \in {"start1", "retry1"} THEN "nats1" ELSE "nats2"
AfterStart(p) == IF p \in {"start1", "retry1"} THEN "start2" ELSE "enroll"

(* Mutant: the server is appended after each Start.                      *)
StartReturnsAppendingEach ==
    /\ pc' = AfterStart(pc)
    /\ servers' = servers + 1

(* Start returns (connected or not).                                       *)
StartReturns ==
    /\ pc' = AfterStart(pc)
    /\ servers' = IF AfterStart(pc) = "enroll" THEN servers + 1 ELSE servers

(* getInitialNATSConnection: createQuitSignalChannel registers a new      *)
(* channel, then the first natsgo.Connect.  On success Start sets up the   *)
(* subscriptions; on failure it enters the retry loop.                     *)
NatsStart ==
    /\ pc \in {"start1", "start2"}
    /\ registered' = registered \cup {StartChan(pc)}
    /\ \/ /\ natsConns' = natsConns + 1
          /\ StartReturns
       \/ /\ pc' = IF pc = "start1" THEN "retry1" ELSE "retry2"
          /\ UNCHANGED <<natsConns, servers>>
    /\ UNCHANGED <<chan, signals, shared, closed>>
    /\ UNCHANGED enrollVars
    /\ UNCHANGED mqttVars

(* A tick of the retry loop whose natsgo.Connect succeeds (a failing one   *)
(* changes nothing).                                                       *)
NatsRetry ==
    /\ pc \in {"retry1", "retry2"}
    /\ natsConns' = natsConns + 1
    /\ StartReturns
    /\ UNCHANGED <<chan, registered, signals, shared, closed>>
    /\ UNCHANGED enrollVars
    /\ UNCHANGED mqttVars

(* The retry loop receives from its quit channel: Start returns an error, *)
(* which Run and AddServer log.                                            *)
NatsQuit ==
    /\ pc \in {"retry1", "retry2"}
    /\ chan[StartChan(pc)] = 1
    /\ chan' = [chan EXCEPT ![StartChan(pc)] = 0]
    /\ StartReturns
    /\ UNCHANGED <<registered, natsConns, signals, shared, closed>>
    /\ UNCHANGED enrollVars
    /\ UNCHANGED mqttVars

-----------------------------------------------------------------------------
(* sendEnrollmentRequest: url.Parse, the POST, decoding the reply as JSON *)
(* and a non-empty error code in it each fail the request.                 *)
EnrollOutcomes == {"badURL", "postFailed", "undecodable", "rejected",
                   "enrolled"}

(* identity.CheckEnrollment; ok is whether it returned no error.  Stored   *)
(* credentials are returned as they are.  Otherwise enrollDevice:          *)
(* getEncodedAssertions (snapd error, no assertion, or both found), the    *)
(* POST, storeCredentials, then storeDeviceData when the response carries *)
(* device data.                                                            *)
EnrollDevice(ok) ==
    \E asserts \in {"error", "empty", "found"}, post \in EnrollOutcomes,
      stored \in BOOLEAN :
        IF asserts = "error"
        THEN ~ok /\ UNCHANGED enrollVars
        ELSE /\ noAssert' = (noAssert \/ asserts = "empty")
             /\ IF post # "enrolled" \/ ~stored
                  THEN ~ok /\ UNCHANGED <<creds, ddSent, ddWritten>>
                  ELSE /\ creds' = TRUE
                       /\ \E dd, written \in BOOLEAN :
                            /\ ddSent' = dd
                            /\ ddWritten' = (dd /\ written)
                            /\ ok = (~dd \/ written)

CheckEnrollment(ok) ==
    \/ creds /\ ok /\ UNCHANGED enrollVars
    \/ ~creds /\ EnrollDevice(ok)

(* SubscribeToActions; the handler becomes s.legacy whatever the result.   *)
Subscribe(ok) == legacy' = IF ok THEN "subscribed" ELSE "unsubscribed"

(* Mutant: SubscribeToActions' error is logged and not returned.         *)
CreateLegacySubscriberIgnoringSubscribe(ok) ==
    \/ /\ ~client
       /\ ~ok
       /\ legacy' = "nil"
       /\ UNCHANGED <<client, clients, open>>
    \/ /\ client' = TRUE
       /\ clients' = IF client THEN clients ELSE clients + 1
       /\ \/ /\ open
             /\ UNCHANGED open
             /\ ok
             /\ legacy' \in {"subscribed", "unsubscribed"}
          \/ /\ ~open
             /\ \E connected \in BOOLEAN :
                  /\ open' = connected
                  /\ IF connected
                       THEN ok /\ legacy' \in {"subscribed", "unsubscribed"}
                       ELSE ~ok /\ legacy' = "nil"

(* Mutant: GetConnection builds a new client on every call.               *)
CreateLegacySubscriberFresh(ok) ==
    \/ /\ ~ok
       /\ legacy' = "nil"
       /\ UNCHANGED <<client, clients, open>>
    \/ /\ client' = TRUE
       /\ clients' = clients + 1
       /\ \E connected \in BOOLEAN :
            /\ open' = connected
            /\ IF connected THEN Subscribe(ok) ELSE ~ok /\ legacy' = "nil"

(* createLegacySubscriber: mqtt.GetConnection creates the global client    *)
(* only while conn is nil (newClient fails on a bad key pair), connects    *)
(* it unless it is open, then legacy.New and SubscribeToActions.  When     *)
(* GetConnection fails, s.legacy becomes nil.                              *)
CreateLegacySubscriber(ok) ==
    \/ /\ ~client                               \* newClient fails
       /\ ~ok
       /\ legacy' = "nil"
       /\ UNCHANGED <<client, clients, open>>
    \/ /\ client' = TRUE
       /\ clients' = IF client THEN clients ELSE clients + 1
       /\ \/ /\ open                             \* IsConnectionOpen
             /\ UNCHANGED open
             /\ Subscribe(ok)
          \/ /\ ~open                            \* Connect
             /\ \E connected \in BOOLEAN :
                  /\ open' = connected
                  /\ IF connected THEN Subscribe(ok)
                                  ELSE ~ok /\ legacy' = "nil"

(* Mutant: the loop stops the ticker on success but does not break.      *)
EnrollWithoutBreak ==
    /\ pc = "enroll"
    /\ \E checked \in BOOLEAN :
         /\ CheckEnrollment(checked)
         /\ IF checked
              THEN \E ok \in BOOLEAN : CreateLegacySubscriber(ok)
              ELSE UNCHANGED mqttVars
    /\ pc' = "enroll"
    /\ UNCHANGED <<chan, registered, natsConns, servers, shared, closed,
                   signals>>

(* One tick of the enrollment loop: Enroll, and leaving the loop when it   *)
(* returns nil.                                                            *)
Enroll ==
    /\ pc = "enroll"
    /\ \E checked \in BOOLEAN :
         /\ CheckEnrollment(checked)
         /\ IF checked
              THEN \E ok \in BOOLEAN :
                     /\ CreateLegacySubscriber(ok)
                     /\ pc' = IF ok THEN "setlegacy" ELSE "enroll"
              ELSE /\ pc' = "enroll"
                   /\ UNCHANGED mqttVars
    /\ UNCHANGED <<chan, registered, natsConns, servers, shared, closed,
                   signals>>

(* The enrollment tick that leaves the loop.                               *)
EnrollSucceeds == Enroll /\ pc' = "setlegacy"

-----------------------------------------------------------------------------
(* natsServer.SetLegacy(&s.legacy).                                        *)
SetLegacy ==
    /\ pc = "setlegacy"
    /\ pc' = "notify"
    /\ shared' = TRUE
    /\ UNCHANGED <<chan, registered, natsConns, servers, closed, signals>>
    /\ UNCHANGED enrollVars
    /\ UNCHANGED mqttVars

(* signal.Notify(quitSignals, SIGINT, SIGTERM) in Run.                     *)
NotifyRun ==
    /\ pc = "notify"
    /\ pc' = "wait"
    /\ registered' = registered \cup {"run"}
    /\ UNCHANGED <<chan, natsConns, servers, shared, closed, signals>>
    /\ UNCHANGED enrollVars
    /\ UNCHANGED mqttVars

(* Mutant: Run returns without waiting on its quit channel.               *)
ReceiveSignalNotAwaited ==
    /\ pc = "wait"
    /\ pc' = "stop"
    /\ UNCHANGED <<chan, registered, natsConns, servers, shared, closed, signals>>
    /\ UNCHANGED enrollVars
    /\ UNCHANGED mqttVars

(* sig := <-quitSignals.                                                   *)
ReceiveSignal ==
    /\ pc = "wait"
    /\ chan["run"] = 1
    /\ chan' = [chan EXCEPT !["run"] = 0]
    /\ pc' = "stop"
    /\ UNCHANGED <<registered, natsConns, servers, shared, closed, signals>>
    /\ UNCHANGED enrollVars
    /\ UNCHANGED mqttVars

(* The deferred Stop: stop and drop the add-on servers, close s.legacy.   *)
(* Run then returns and the process ends.                                  *)
Stop ==
    /\ pc = "stop"
    /\ pc' = "done"
    /\ servers' = 0
    /\ closed' = (legacy # "nil")
    /\ UNCHANGED <<chan, registered, natsConns, shared, signals>>
    /\ UNCHANGED enrollVars
    /\ UNCHANGED mqttVars

(* The operating system delivers SIGINT or SIGTERM: the default action     *)
(* ends the process if no channel is registered; otherwise each           *)
(* registered channel with room receives it.                              *)
Signal ==
    /\ pc \notin {"done", "killed"}
    /\ signals < MaxSignals
    /\ signals' = signals + 1
    /\ IF registered = {}
         THEN pc' = "killed" /\ UNCHANGED chan
         ELSE /\ chan' = [c \in Chans |-> IF c \in registered THEN 1
                                                           ELSE chan[c]]
              /\ UNCHANGED pc
    /\ UNCHANGED <<registered, natsConns, servers, shared, closed>>
    /\ UNCHANGED enrollVars
    /\ UNCHANGED mqttVars

Next ==
    \/ NatsStart
    \/ NatsRetry
    \/ NatsQuit
    \/ Enroll
    \/ SetLegacy
    \/ NotifyRun
    \/ ReceiveSignal
    \/ Stop
    \/ Signal

Spec == Init /\ [][Next]_vars

(* The main goroutine runs; its tickers fire.  That the identity service,  *)
(* the files and the MQTT broker eventually let an enrollment tick succeed *)
(* is an assumption about the environment (strong fairness: the tick that *)
(* succeeds is enabled again and again).                                   *)
FairSpec ==
    /\ Spec
    /\ WF_vars(NatsStart)
    /\ WF_vars(NatsQuit)
    /\ WF_vars(SetLegacy)
    /\ WF_vars(NotifyRun)
    /\ WF_vars(ReceiveSignal)
    /\ WF_vars(Stop)
    /\ SF_vars(EnrollSucceeds)

(* FairSpec, and the local NATS server eventually accepts a connection.    *)
FairSpecNatsUp == FairSpec /\ WF_vars(NatsRetry)

-----------------------------------------------------------------------------
(* Type correctness.                                                       *)
TypeOK ==
    /\ pc \in PCs
    /\ chan \in [Chans -> 0..1]
    /\ registered \subseteq Chans
    /\ natsConns \in 0..2
    /\ servers \in 0..1
    /\ creds \in BOOLEAN
    /\ ddSent \in BOOLEAN
    /\ ddWritten \in BOOLEAN
    /\ noAssert \in BOOLEAN
    /\ client \in BOOLEAN
    /\ clients \in Nat
    /\ open \in BOOLEAN
    /\ legacy \in LegacyStates
    /\ shared \in BOOLEAN
    /\ closed \in BOOLEAN
    /\ signals \in 0..MaxSignals

(* Safety of enrollment (Run, Enroll, createLegacySubscriber): whenever    *)
(* the main goroutine has left the enrollment loop, the credentials are   *)
(* stored, the MQTT connection is open and s.legacy holds the actions      *)
(* subscription, however the ticks before it failed.                       *)
RunningImpliesEnrolled ==
    pc \in {"setlegacy", "notify", "wait"} =>
        /\ creds
        /\ client
        /\ open
        /\ legacy = "subscribed"

(* GetConnection reuses the package-global connection: across all the     *)
(* enrollment retries, at most one MQTT client is ever created.           *)
SingleBrokerClient == clients <= 1

(* Once the identity service and the local bus become reachable, Run     *)
(* leaves the enrollment loop and waits for signals (or was stopped).    *)
EventuallyRunning == <>(pc \in {"wait", "stop", "done", "killed"})

(* Where the main goroutine is, in the terms of AbstractLifecycle: before *)
(* the first Start registers a quit channel, inside the two Start calls,  *)
(* in the enrollment loop, running (SetLegacy to the deferred Stop), after *)
(* Stop, or ended by the default signal action.                            *)
PhaseOf(p) ==
    CASE p = "start1" -> "init"
      [] p \in {"retry1", "start2", "retry2"} -> "localbus"
      [] p = "enroll" -> "enroll"
      [] p \in {"setlegacy", "notify", "wait", "stop"} -> "run"
      [] p = "done" -> "stopped"
      [] p = "killed" -> "killed"

AbsLifecycle == INSTANCE AbstractLifecycle
    WITH phase <- PhaseOf(pc), enrolled <- creds, signalled <- signals > 0

(* Run implements the lifecycle contract: the local bus is started, then   *)
(* the device enrolls, then the agent runs with credentials stored; it     *)
(* stops only after a signal, and a signal ends the process only before   *)
(* the first signal.Notify.                                                *)
LifecycleContract == AbsLifecycle!Spec

LocalBusStartedOnce == natsConns <= 1

(* The spec: device data the identity service returns is written before  *)
(* the enrollment counts as done and the agent runs.                      *)
DeviceDataStored == pc \in {"setlegacy", "notify", "wait"} /\ ddSent => ddWritten

(* The spec: enrollment fails fast, without a POST, when the model or    *)
(* serial assertion is unavailable.                                       *)
NoEnrollWithoutAssertions == ~noAssert
=============================================================================
