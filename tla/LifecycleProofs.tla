-------------------------- MODULE LifecycleProofs ---------------------------
(***************************************************************************)
(* Proofs about the agent's start-up: type correctness, that Run leaves   *)
(* the enrollment loop only fully enrolled, and that one MQTT client is    *)
(* ever built, for every bound on the signals.                             *)
(***************************************************************************)
EXTENDS Lifecycle, TLAPS

(* TypeOK is not inductive: the NATS connection count and the server list *)
(* stay in range only because each Start runs once, in order.  Phase ties *)
(* them to where the main goroutine is.                                    *)
Phase ==
    /\ pc \in {"start1", "retry1"} => natsConns = 0 /\ servers = 0
    /\ pc \in {"start2", "retry2"} => natsConns <= 1 /\ servers = 0

(* The client count follows the global client.                            *)
ClientCount == clients = IF client THEN 1 ELSE 0

LInv == TypeOK /\ Phase /\ ClientCount /\ RunningImpliesEnrolled

(* The boolean part of TypeOK.  The SMT backend cannot combine a fact     *)
(* x = FALSE about an untyped x with arithmetic, so this part is proved   *)
(* first, with Zenon, and handed to the rest.                              *)
BoolPart ==
    /\ creds \in BOOLEAN /\ ddSent \in BOOLEAN /\ ddWritten \in BOOLEAN
    /\ noAssert \in BOOLEAN /\ client \in BOOLEAN /\ open \in BOOLEAN
    /\ shared \in BOOLEAN /\ closed \in BOOLEAN

LEMMA InitLInv == Init => LInv
  <1> SUFFICES ASSUME Init PROVE LInv
    OBVIOUS
  <1>1. BoolPart
    BY Zenon DEF Init, BoolPart
  <1>2. TypeOK
    BY <1>1, MaxSignalsAssumption
    DEF Init, TypeOK, BoolPart, PCs, LegacyStates, Chans
  <1>3. QED
    BY <1>2 DEF Init, LInv, Phase, ClientCount, RunningImpliesEnrolled

(* What CheckEnrollment leaves: the enrollment files stay booleans, and a *)
(* successful check leaves the credentials stored.                         *)
LEMMA CheckEnrollmentType ==
    ASSUME TypeOK, NEW ok \in BOOLEAN, CheckEnrollment(ok)
    PROVE  /\ creds' \in BOOLEAN /\ ddSent' \in BOOLEAN
           /\ ddWritten' \in BOOLEAN /\ noAssert' \in BOOLEAN
           /\ ok => creds'
  BY Zenon DEF CheckEnrollment, EnrollDevice, TypeOK, enrollVars

(* What createLegacySubscriber leaves: the client count follows the       *)
(* client, and success means an open, subscribed connection.               *)
LEMMA CreateLegacySubscriberType ==
    ASSUME TypeOK, ClientCount, NEW ok \in BOOLEAN, CreateLegacySubscriber(ok)
    PROVE  /\ client' \in BOOLEAN /\ open' \in BOOLEAN
           /\ legacy' \in LegacyStates
           /\ clients' = IF client' THEN 1 ELSE 0
           /\ ok => client' /\ open' /\ legacy' = "subscribed"
  <1>1. client' \in BOOLEAN /\ open' \in BOOLEAN
    BY Zenon DEF CreateLegacySubscriber, Subscribe, TypeOK
  <1>2. legacy' \in LegacyStates /\ (ok => client' /\ open' /\ legacy' = "subscribed")
    BY DEF CreateLegacySubscriber, Subscribe, TypeOK, LegacyStates
  <1>3. clients' = IF client' THEN 1 ELSE 0
    <2>1. \/ ~client /\ client' = client /\ clients' = clients
          \/ client' = TRUE /\ clients' = IF client THEN clients ELSE clients + 1
      BY DEF CreateLegacySubscriber
    <2>2. (clients = IF client THEN 1 ELSE 0) /\ client \in BOOLEAN
      BY DEF ClientCount, TypeOK
    <2>3. QED
      BY <2>1, <2>2
  <1>4. QED
    BY <1>1, <1>2, <1>3

(* A step that leaves the enrollment files and the MQTT state alone keeps *)
(* ClientCount and, while it stays out of the running phase or keeps its  *)
(* pc, RunningImpliesEnrolled.                                             *)
LEMMA StepLInv == LInv /\ [Next]_vars => LInv'
  <1> SUFFICES ASSUME LInv, [Next]_vars PROVE LInv'
    OBVIOUS
  <1> USE DEF LInv
  <1>1. CASE NatsStart
    <2>1. BoolPart'
      BY <1>1, Zenon DEF NatsStart, BoolPart, TypeOK, enrollVars, mqttVars
    <2>2. QED
      BY <1>1, <2>1 DEF NatsStart, StartReturns, StartChan, AfterStart, TypeOK,
              BoolPart, Phase, ClientCount, RunningImpliesEnrolled, Chans, PCs,
              enrollVars, mqttVars
  <1>2. CASE NatsRetry
    <2>1. BoolPart'
      BY <1>2, Zenon DEF NatsRetry, BoolPart, TypeOK, enrollVars, mqttVars
    <2>2. QED
      BY <1>2, <2>1 DEF NatsRetry, StartReturns, AfterStart, TypeOK, BoolPart,
              Phase, ClientCount, RunningImpliesEnrolled, PCs, enrollVars,
              mqttVars
  <1>3. CASE NatsQuit
    <2>1. BoolPart'
      BY <1>3, Zenon DEF NatsQuit, BoolPart, TypeOK, enrollVars, mqttVars
    <2>2. QED
      BY <1>3, <2>1 DEF NatsQuit, StartReturns, StartChan, AfterStart, TypeOK,
              BoolPart, Phase, ClientCount, RunningImpliesEnrolled, Chans, PCs,
              enrollVars, mqttVars
  <1>4. CASE Enroll
    <2>1. PICK checked \in BOOLEAN :
              /\ CheckEnrollment(checked)
              /\ IF checked
                   THEN \E ok \in BOOLEAN :
                          /\ CreateLegacySubscriber(ok)
                          /\ pc' = IF ok THEN "setlegacy" ELSE "enroll"
                   ELSE /\ pc' = "enroll"
                        /\ UNCHANGED mqttVars
      BY <1>4 DEF Enroll
    <2>2. /\ creds' \in BOOLEAN /\ ddSent' \in BOOLEAN
          /\ ddWritten' \in BOOLEAN /\ noAssert' \in BOOLEAN
          /\ checked => creds'
      BY <2>1, CheckEnrollmentType
    <2>3. /\ shared' = shared /\ closed' = closed /\ chan' = chan
          /\ registered' = registered /\ natsConns' = natsConns
          /\ servers' = servers /\ signals' = signals /\ pc = "enroll"
      BY <1>4 DEF Enroll
    <2>4. CASE checked
      <3>1. PICK ok \in BOOLEAN :
                /\ CreateLegacySubscriber(ok)
                /\ pc' = IF ok THEN "setlegacy" ELSE "enroll"
        BY <2>1, <2>4
      <3>2. /\ client' \in BOOLEAN /\ open' \in BOOLEAN
            /\ legacy' \in LegacyStates
            /\ clients' = IF client' THEN 1 ELSE 0
            /\ ok => client' /\ open' /\ legacy' = "subscribed"
        BY <3>1, CreateLegacySubscriberType
      <3>3. BoolPart'
        BY <2>2, <2>3, <3>2, Zenon DEF BoolPart, TypeOK
      <3>4. QED
        BY <2>2, <2>3, <2>4, <3>1, <3>2, <3>3
        DEF TypeOK, BoolPart, Phase, ClientCount, RunningImpliesEnrolled, PCs
    <2>5. CASE ~checked
      <3>1. pc' = "enroll" /\ UNCHANGED mqttVars
        BY <2>1, <2>5
      <3>2. BoolPart'
        BY <2>2, <2>3, <3>1, Zenon DEF BoolPart, TypeOK, mqttVars
      <3>3. QED
        BY <2>2, <2>3, <3>1, <3>2
        DEF TypeOK, BoolPart, Phase, ClientCount, RunningImpliesEnrolled, PCs,
            mqttVars
    <2>6. QED
      BY <2>4, <2>5
  <1>5. CASE SetLegacy
    <2>1. BoolPart'
      BY <1>5, Zenon DEF SetLegacy, BoolPart, TypeOK, enrollVars, mqttVars
    <2>2. QED
      BY <1>5, <2>1 DEF SetLegacy, TypeOK, BoolPart, Phase, ClientCount,
              RunningImpliesEnrolled, PCs, enrollVars, mqttVars
  <1>6. CASE NotifyRun
    <2>1. BoolPart'
      BY <1>6, Zenon DEF NotifyRun, BoolPart, TypeOK, enrollVars, mqttVars
    <2>2. QED
      BY <1>6, <2>1 DEF NotifyRun, TypeOK, BoolPart, Phase, ClientCount,
              RunningImpliesEnrolled, Chans, PCs, enrollVars, mqttVars
  <1>7. CASE ReceiveSignal
    <2>1. BoolPart'
      BY <1>7, Zenon DEF ReceiveSignal, BoolPart, TypeOK, enrollVars, mqttVars
    <2>2. QED
      BY <1>7, <2>1 DEF ReceiveSignal, TypeOK, BoolPart, Phase, ClientCount,
              RunningImpliesEnrolled, Chans, PCs, enrollVars, mqttVars
  <1>8. CASE Stop
    <2>1. BoolPart'
      BY <1>8, Zenon DEF Stop, BoolPart, TypeOK, enrollVars, mqttVars
    <2>2. QED
      BY <1>8, <2>1 DEF Stop, TypeOK, BoolPart, Phase, ClientCount,
              RunningImpliesEnrolled, PCs, enrollVars, mqttVars
  <1>9. CASE Signal
    <2>1. BoolPart'
      BY <1>9, Zenon DEF Signal, BoolPart, TypeOK, enrollVars, mqttVars
    <2>2. QED
      BY <1>9, <2>1, MaxSignalsAssumption
      DEF Signal, TypeOK, BoolPart, Phase, ClientCount, RunningImpliesEnrolled,
          Chans, PCs, enrollVars, mqttVars
  <1>10. CASE UNCHANGED vars
    BY <1>10 DEF vars, TypeOK, Phase, ClientCount, RunningImpliesEnrolled
  <1>11. QED
    BY <1>1, <1>2, <1>3, <1>4, <1>5, <1>6, <1>7, <1>8, <1>9, <1>10 DEF Next

(* Lifecycle states are well typed in every behaviour.                     *)
THEOREM TypeCorrect == Spec => []TypeOK
  BY InitLInv, StepLInv, PTL DEF Spec, LInv

(* Run reaches SetLegacy, signal.Notify and the signal wait only with the *)
(* credentials stored, the MQTT connection open and the actions topic     *)
(* subscribed, whatever failed on the enrollment ticks before.            *)
THEOREM EnrolledSafety == Spec => []RunningImpliesEnrolled
  BY InitLInv, StepLInv, PTL DEF Spec, LInv

(* GetConnection builds the MQTT client at most once, across every         *)
(* enrollment retry.                                                       *)
THEOREM SingleClient == Spec => []SingleBrokerClient
  <1>1. LInv => SingleBrokerClient
    BY DEF LInv, ClientCount, SingleBrokerClient
  <1>2. QED
    BY InitLInv, StepLInv, <1>1, PTL DEF Spec
=============================================================================
