-------------------------- MODULE DispatcherProofs --------------------------
(***************************************************************************)
(* Proofs about the dispatcher, for every set of ids, requests and        *)
(* bounds: type correctness, and the invariant UnregisterInv of what the  *)
(* callback holds around an unregister and what ends the process, which   *)
(* the proofs of DispatcherRefinement rest on.                            *)
(***************************************************************************)
EXTENDS Dispatcher, TLAPS

(* The records the dispatcher builds are messages.                        *)
LEMMA ResponseType ==
    ASSUME NEW r \in Request, NEW ok \in BOOLEAN
    PROVE  Response(r, ok) \in Message
  BY DEF Response, Message, Request, Actions

LEMMA ConstantMessages ==
    /\ EmptyPayload \in Message
    /\ HealthRecord \in Message
    /\ NoRequest \in Request
  BY IdsAssumption DEF EmptyPayload, HealthRecord, Message, Actions,
                       NoRequest, Request

(* A service tick publishes a health record followed by messages.         *)
LEMMA ServicePublishes ==
    ASSUME NEW m \in MetricsPublished
    PROVE  <<HealthRecord>> \o m \in Seq(Message)
  <1>1. MemoryRecord \in Message /\ CpuRecord \in Message
    BY DEF MemoryRecord, CpuRecord, Message, Actions
  <1>2. m \in Seq(Message)
    <2>1. /\ <<>> \in Seq(Message)
          /\ <<MemoryRecord>> \in Seq(Message) /\ <<CpuRecord>> \in Seq(Message)
          /\ <<MemoryRecord, CpuRecord>> \in Seq(Message)
      BY <1>1
    <2>2. QED
      BY <2>1, Zenon DEF MetricsPublished
  <1>3. QED
    BY <1>2, ConstantMessages

(* Appending to a sequence keeps what was there.                           *)
LEMMA ConcatKeeps ==
    ASSUME NEW S, NEW s \in Seq(S), NEW t \in Seq(S)
    PROVE  \A k \in DOMAIN s : k \in DOMAIN (s \o t) /\ (s \o t)[k] = s[k]
  OBVIOUS

(* Type correctness of every reachable state.                              *)
LEMMA TypeInit == Init => TypeOK
  BY ConstantMessages, BoundsAssumption DEF Init, ReadParameters, TypeOK

LEMMA TypeStep == TypeOK /\ [Next]_vars => TypeOK'
  <1> SUFFICES ASSUME TypeOK, [Next]_vars PROVE TypeOK'
    OBVIOUS
  <1>1. ASSUME NEW r \in Requests, CloudSend(r) PROVE TypeOK'
    <2>1. r \in Request /\ r.id \in Ids
      BY RequestsAssumption DEF Request
    <2>2. QED
      BY <1>1, <2>1 DEF CloudSend, TypeOK
  <1>2. CASE HandleMessage
    <2> DEFINE h == Head(toDevice)
    <2>1. h \in Request
      BY <1>2 DEF HandleMessage, TypeOK
    <2>2. \A ok \in BOOLEAN : Response(h, ok) \in Message
      BY <2>1, ResponseType
    <2>3. PerformAction(h) => /\ resp' \in Message /\ params' \in BOOLEAN
                              /\ creds' \in BOOLEAN
                              /\ hpc' \in {"publish", "panic"}
                              /\ alive' \in BOOLEAN /\ connected' \in BOOLEAN
      BY <2>2, ConstantMessages DEF PerformAction, Returns, ActionSucceeds,
                                    Unregister, RemoveParameters, TypeOK
    <2>4. h.id \in Ids /\ Tail(toDevice) \in Seq(Request)
      BY <1>2, <2>1 DEF HandleMessage, TypeOK, Request
    <2>5. CASE h.decodes
      <3>1. /\ cur' = h /\ PerformAction(h) /\ toDevice' = Tail(toDevice)
            /\ handled' \subseteq handled \cup {h.id}
            /\ UNCHANGED <<subscribed, outbox, fromDevice, issued, sent,
                           sentConn, losses, healths>>
        BY <1>2, <2>5 DEF HandleMessage
      <3>2. QED
        BY <2>1, <2>3, <2>4, <3>1 DEF TypeOK
    <2>6. CASE ~h.decodes
      BY <1>2, <2>4, <2>6 DEF HandleMessage, TypeOK
    <2>7. QED
      BY <2>5, <2>6
  <1>3. CASE PublishResponse
    BY <1>3 DEF PublishResponse, TypeOK
  <1>4. CASE ExitAfterUnregister
    BY <1>4 DEF ExitAfterUnregister, TypeOK
  <1>5. CASE Service
    <2>1. PICK m \in MetricsPublished :
              /\ outbox' = outbox \o (<<HealthRecord>> \o m)
              /\ issued' = issued \o (<<HealthRecord>> \o m)
      BY <1>5 DEF Service
    <2>2. outbox' \in Seq(Message) /\ issued' \in Seq(Message)
      BY <2>1, ServicePublishes DEF TypeOK
    <2>3. QED
      BY <1>5, <2>2, BoundsAssumption DEF Service, TypeOK
  <1>6. CASE Flush
    BY <1>6 DEF Flush, TypeOK
  <1>7. CASE ConnectionLost
    <2>1. losses' \in 0..MaxConnLoss
      BY <1>7, BoundsAssumption DEF ConnectionLost, TypeOK
    <2>2. toDevice' \in Seq(Request)
      BY <1>7 DEF ConnectionLost
    <2>3. QED
      BY <1>7, <2>1, <2>2 DEF ConnectionLost, TypeOK
  <1>8. CASE Reconnect
    BY <1>8 DEF Reconnect, TypeOK
  <1>9. CASE UNCHANGED vars
    BY <1>9 DEF vars, TypeOK
  <1>10. QED
    BY <1>1, <1>2, <1>3, <1>4, <1>5, <1>6, <1>7, <1>8, <1>9 DEF Next

(* Dispatcher states are well typed in every behaviour.                    *)
THEOREM TypeCorrect == Spec => []TypeOK
  BY TypeInit, TypeStep, PTL DEF Spec

-----------------------------------------------------------------------------
(* What the callback holds around an unregister.                          *)

LEMMA UnregisterInit == Init => UnregisterInv
  BY TypeInit DEF Init, UnregisterInv

LEMMA UnregisterStep == UnregisterInv /\ [Next]_vars => UnregisterInv'
  <1> SUFFICES ASSUME UnregisterInv, [Next]_vars PROVE UnregisterInv'
    OBVIOUS
  <1>0. TypeOK /\ TypeOK'
    BY TypeStep DEF UnregisterInv
  <1>1. ASSUME NEW r \in Requests, CloudSend(r) PROVE UnregisterInv'
    BY <1>0, <1>1 DEF CloudSend, UnregisterInv
  <1>2. CASE HandleMessage
    <2> DEFINE h == Head(toDevice)
    <2>1. hpc = "idle" /\ alive /\ UNCHANGED issued
      BY <1>2 DEF HandleMessage
    <2>2. CASE ~h.decodes
      BY <1>0, <1>2, <2>1, <2>2 DEF HandleMessage, UnregisterInv
    <2>3. CASE h.decodes /\ h.action # "unregister"
      <3>1. cur' = h /\ PerformAction(h)
        BY <1>2, <2>3 DEF HandleMessage
      <3>2. \/ hpc' = "publish" /\ alive'
            \/ hpc' = "panic" /\ ~alive'
        BY <2>1, <2>3, <3>1 DEF PerformAction, Returns
      <3>3. QED
        BY <1>0, <2>3, <3>1, <3>2 DEF UnregisterInv
    <2>4. CASE h.decodes /\ h.action = "unregister"
      <3>1. cur' = h /\ hpc' = "publish" /\ alive' /\ Unregister(h)
        BY <1>2, <2>1, <2>4 DEF HandleMessage, PerformAction, Returns, UploadPanics
      <3>2. resp' = Response(cur', resp'.success)
        BY <3>1 DEF Unregister, RemoveParameters, Response
      <3>3. resp'.success => ~params' /\ ~creds'
        BY <3>1, <1>0 DEF Unregister, RemoveParameters, Response, TypeOK
      <3>4. QED
        BY <1>0, <3>1, <3>2, <3>3 DEF UnregisterInv
    <2>5. QED
      BY <2>2, <2>3, <2>4
  <1>3. CASE PublishResponse
    <2>1. /\ issued' = Append(issued, resp) /\ resp' = resp /\ cur' = cur
          /\ alive /\ alive' /\ params' = params /\ creds' = creds
          /\ hpc = "publish"
          /\ hpc' = IF cur.action = "unregister" THEN "exit" ELSE "idle"
      BY <1>3 DEF PublishResponse
    <2>2. \E k \in DOMAIN issued' : issued'[k] = resp'
      <3>1. issued \in Seq(Message) /\ resp \in Message
        BY <1>0 DEF TypeOK
      <3>2. Len(issued) + 1 \in DOMAIN issued'
            /\ issued'[Len(issued) + 1] = resp
        BY <2>1, <3>1
      <3>3. QED
        BY <2>1, <3>2
    <2>3. QED
      BY <1>0, <2>1, <2>2 DEF UnregisterInv
  <1>4. CASE ExitAfterUnregister
    BY <1>0, <1>4 DEF ExitAfterUnregister, UnregisterInv
  <1>5. CASE Service
    <2>1. PICK m \in MetricsPublished :
              issued' = issued \o (<<HealthRecord>> \o m)
      BY <1>5 DEF Service
    <2>2. \A k \in DOMAIN issued : k \in DOMAIN issued' /\ issued'[k] = issued[k]
      BY <1>0, <2>1, ServicePublishes, ConcatKeeps DEF TypeOK
    <2>3. QED
      BY <1>0, <1>5, <2>2 DEF Service, UnregisterInv
  <1>6. CASE Flush
    BY <1>0, <1>6 DEF Flush, UnregisterInv
  <1>7. CASE ConnectionLost
    BY <1>0, <1>7 DEF ConnectionLost, UnregisterInv
  <1>8. CASE Reconnect
    BY <1>0, <1>8 DEF Reconnect, UnregisterInv
  <1>9. CASE UNCHANGED vars
    BY <1>0, <1>9 DEF vars, UnregisterInv
  <1>10. QED
    BY <1>1, <1>2, <1>3, <1>4, <1>5, <1>6, <1>7, <1>8, <1>9 DEF Next

=============================================================================
