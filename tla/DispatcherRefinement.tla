------------------------ MODULE DispatcherRefinement ------------------------
(***************************************************************************)
(* Proofs that every decoded request with a known action gets exactly one *)
(* response Publish, and that the dispatcher implements                    *)
(* AbstractDispatcher under the mapping Abs of module Dispatcher, for      *)
(* every set of ids and requests and every bound.                          *)
(***************************************************************************)
EXTENDS DispatcherProofs, FiniteSetTheorems

(* The response records to id i in a sequence of messages.                *)
IssuedIn(s, i) == {k \in DOMAIN s : s[k].kind = "response" /\ s[k].id = i}

(* m is an unregister response, successful when okOnly.                   *)
IsUnreg(m, okOnly) ==
    m.kind = "response" /\ m.action = "unregister" /\ (okOnly => m.success)

(* An unregister response in a sequence of messages; when okOnly, a      *)
(* successful one.                                                         *)
UnregIn(s, okOnly) == \E k \in DOMAIN s : IsUnreg(s[k], okOnly)

LEMMA IssuedFinite ==
    ASSUME NEW s \in Seq(Message), NEW i
    PROVE  IsFiniteSet(IssuedIn(s, i))
  <1>1. IssuedIn(s, i) \subseteq 1..Len(s)
    BY DEF IssuedIn
  <1>2. IsFiniteSet(1..Len(s))
    BY FS_Interval
  <1>3. QED
    BY <1>1, <1>2, FS_Subset

(* Appending a message adds its index to the responses of its id.        *)
LEMMA IssuedAppend ==
    ASSUME NEW s \in Seq(Message), NEW m \in Message, NEW i
    PROVE  /\ IssuedIn(Append(s, m), i) =
                 IF m.kind = "response" /\ m.id = i
                   THEN IssuedIn(s, i) \cup {Len(s) + 1} ELSE IssuedIn(s, i)
           /\ Cardinality(IssuedIn(Append(s, m), i)) =
                 IF m.kind = "response" /\ m.id = i
                   THEN Cardinality(IssuedIn(s, i)) + 1
                   ELSE Cardinality(IssuedIn(s, i))
           /\ \A b \in BOOLEAN :
                 UnregIn(Append(s, m), b) <=> (UnregIn(s, b) \/ IsUnreg(m, b))
  <1>1. IssuedIn(Append(s, m), i) =
           IF m.kind = "response" /\ m.id = i
             THEN IssuedIn(s, i) \cup {Len(s) + 1} ELSE IssuedIn(s, i)
    BY DEF IssuedIn
  <1>2. Len(s) + 1 \notin IssuedIn(s, i)
    BY DEF IssuedIn
  <1>3. Cardinality(IssuedIn(Append(s, m), i)) =
           IF m.kind = "response" /\ m.id = i
             THEN Cardinality(IssuedIn(s, i)) + 1
             ELSE Cardinality(IssuedIn(s, i))
    <2>1. IsFiniteSet(IssuedIn(s, i))
      BY IssuedFinite
    <2>2. Cardinality(IssuedIn(s, i) \cup {Len(s) + 1}) =
             Cardinality(IssuedIn(s, i)) + 1
      BY <1>2, <2>1, FS_AddElement
    <2>3. QED
      BY <1>1, <2>2
  <1>4. ASSUME NEW b \in BOOLEAN
        PROVE  UnregIn(Append(s, m), b) <=> (UnregIn(s, b) \/ IsUnreg(m, b))
    <2> DEFINE P(x) == IsUnreg(x, b)
    <2>1. UnregIn(Append(s, m), b) <=> \E k \in DOMAIN Append(s, m) : P(Append(s, m)[k])
      BY DEF UnregIn, IsUnreg
    <2>2. UnregIn(s, b) <=> \E k \in DOMAIN s : P(s[k])
      BY DEF UnregIn, IsUnreg
    <2>3. (\E k \in DOMAIN Append(s, m) : P(Append(s, m)[k]))
            <=> (\E k \in DOMAIN s : P(s[k])) \/ P(m)
      <3>1. DOMAIN Append(s, m) = DOMAIN s \cup {Len(s) + 1}
        OBVIOUS
      <3>2. \A k \in DOMAIN s : Append(s, m)[k] = s[k]
        OBVIOUS
      <3>3. Append(s, m)[Len(s) + 1] = m
        OBVIOUS
      <3>4. QED
        BY <3>1, <3>2, <3>3, Zenon
    <2>4. QED
      BY <2>1, <2>2, <2>3, Zenon
  <1>5. QED
    BY <1>1, <1>3, <1>4

(* Appending messages that are not responses changes neither.             *)
LEMMA IssuedConcat ==
    ASSUME NEW s \in Seq(Message), NEW t \in Seq(Message), NEW i,
           \A k \in DOMAIN t : t[k].kind # "response"
    PROVE  /\ IssuedIn(s \o t, i) = IssuedIn(s, i)
           /\ \A b \in BOOLEAN : UnregIn(s \o t, b) <=> UnregIn(s, b)
  BY DEF IssuedIn, UnregIn, IsUnreg

(* A service tick publishes no response.                                   *)
LEMMA ServiceNoResponse ==
    ASSUME NEW m \in MetricsPublished
    PROVE  \A k \in DOMAIN (<<HealthRecord>> \o m) :
               (<<HealthRecord>> \o m)[k].kind # "response"
  <1>1. /\ HealthRecord.kind # "response"
        /\ \A k \in DOMAIN m : m[k].kind # "response"
        /\ m \in Seq(Message)
    <2>1. m \in Seq(Message)
      BY ServicePublishes
    <2>2. HealthRecord.kind # "response" /\ MemoryRecord.kind # "response"
          /\ CpuRecord.kind # "response"
      BY DEF HealthRecord, MemoryRecord, CpuRecord
    <2>3. \A k \in DOMAIN m : m[k] \in {MemoryRecord, CpuRecord}
      BY DEF MetricsPublished
    <2>4. QED
      BY <2>1, <2>2, <2>3
  <1>2. QED
    BY <1>1, ConstantMessages

-----------------------------------------------------------------------------
(* Exactly one response per handled request.                               *)

(* Ids are fresh: the cloud never reuses one, so a queued request is not  *)
(* handled yet, queued ids are distinct, and none is the request the      *)
(* callback is publishing for.                                             *)
Fresh ==
    /\ handled \subseteq sent
    /\ \A k \in DOMAIN toDevice : toDevice[k].id \in sent
                                 /\ toDevice[k].id \notin handled
    /\ \A k, l \in DOMAIN toDevice : k # l => toDevice[k].id # toDevice[l].id
    /\ hpc = "publish" => /\ cur.id \in sent
                          /\ \A k \in DOMAIN toDevice : toDevice[k].id # cur.id

(* What the callback holds between performAction and its Publish: the     *)
(* response to a handled request, or the nil payload of an unknown one.   *)
RespShape ==
    hpc = "publish" =>
        \/ /\ cur.action \in KnownActions /\ cur.id \in handled
           /\ resp = Response(cur, resp.success)
        \/ /\ cur.action = "unknown" /\ cur.id \notin handled
           /\ resp = EmptyPayload

ExactInv == UnregisterInv /\ Fresh /\ RespShape /\ AnsweredExactlyOnce

LEMMA ExactInit == Init => ExactInv
  <1> SUFFICES ASSUME Init PROVE ExactInv
    OBVIOUS
  <1>1. UnregisterInv
    BY UnregisterInit
  <1>2. \A i \in Ids : Issued(i) = {}
    BY DEF Init, Issued
  <1>3. Fresh /\ RespShape
    BY DEF Init, Fresh, RespShape
  <1>4. AnsweredExactlyOnce
    <2>1. \A i \in Ids : Cardinality(Issued(i)) = 0
      BY <1>2, FS_EmptySet
    <2>2. handled = {}
      BY DEF Init
    <2>3. QED
      BY <2>1, <2>2 DEF AnsweredExactlyOnce
  <1>5. QED
    BY <1>1, <1>3, <1>4 DEF ExactInv

(* Issued, UnregisterAnswered and UnregisterSucceeded in terms of the     *)
(* operators above.                                                        *)
LEMMA IssuedIsIn ==
    /\ \A i : Issued(i) = IssuedIn(issued, i)
    /\ \A i : Issued(i)' = IssuedIn(issued', i)
    /\ UnregisterAnswered <=> UnregIn(issued, FALSE)
    /\ UnregisterAnswered' <=> UnregIn(issued', FALSE)
    /\ UnregisterSucceeded <=> UnregIn(issued, TRUE)
    /\ UnregisterSucceeded' <=> UnregIn(issued', TRUE)
  BY DEF Issued, IssuedIn, UnregisterAnswered, UnregisterSucceeded, UnregIn,
         IsUnreg

(* A step that leaves the history of publishes, the handled ids, the      *)
(* queue and the callback alone keeps Fresh, RespShape and the counts.    *)
LEMMA QuietStep ==
    ASSUME ExactInv, UnregisterInv',
           UNCHANGED <<issued, handled, hpc, cur, resp, sent>>,
           toDevice' = toDevice
    PROVE  ExactInv'
  BY DEF ExactInv, Fresh, RespShape, AnsweredExactlyOnce, Issued

LEMMA ExactStep == ExactInv /\ [Next]_vars => ExactInv'
  <1> SUFFICES ASSUME ExactInv, [Next]_vars PROVE ExactInv'
    OBVIOUS
  <1>0. /\ TypeOK /\ TypeOK' /\ UnregisterInv'
    BY UnregisterStep, TypeStep DEF ExactInv, UnregisterInv
  <1>1. ASSUME NEW r \in Requests, CloudSend(r) PROVE ExactInv'
    <2>1. r \in Request /\ r.id \notin sent /\ sent' = sent \cup {r.id}
      BY <1>1, RequestsAssumption DEF CloudSend
    <2>2. \/ toDevice' = toDevice
          \/ toDevice' = Append(toDevice, r)
      BY <1>1 DEF CloudSend
    <2>3. UNCHANGED <<issued, handled, hpc, cur, resp>>
      BY <1>1 DEF CloudSend
    <2>4. Fresh'
      <3>1. Fresh /\ toDevice \in Seq(Request)
        BY <1>0 DEF ExactInv, TypeOK
      <3>2. CASE toDevice' = toDevice
        BY <2>1, <2>3, <3>1, <3>2 DEF Fresh
      <3>3. CASE toDevice' = Append(toDevice, r)
        <4>1. /\ DOMAIN toDevice' = DOMAIN toDevice \cup {Len(toDevice) + 1}
              /\ Len(toDevice) + 1 \notin DOMAIN toDevice
              /\ \A k \in DOMAIN toDevice : toDevice'[k] = toDevice[k]
              /\ toDevice'[Len(toDevice) + 1] = r
          BY <3>1, <3>3
        <4>2. r.id \notin handled /\ (hpc = "publish" => r.id # cur.id)
              /\ \A k \in DOMAIN toDevice : toDevice[k].id # r.id
          BY <2>1, <3>1 DEF Fresh
        <4>3. QED
          BY <2>1, <2>3, <3>1, <4>1, <4>2 DEF Fresh
      <3>4. QED
        BY <2>2, <3>2, <3>3
    <2>5. QED
      BY <1>0, <2>3, <2>4 DEF ExactInv, RespShape, AnsweredExactlyOnce, Issued
  <1>2. CASE HandleMessage
    <2> DEFINE h == Head(toDevice)
    <2>1. /\ hpc = "idle" /\ toDevice # <<>> /\ toDevice' = Tail(toDevice)
          /\ UNCHANGED <<issued, sent>>
      BY <1>2 DEF HandleMessage
    <2>2. /\ h.id \in sent /\ h.id \notin handled
          /\ \A k \in DOMAIN Tail(toDevice) : /\ Tail(toDevice)[k].id \in sent
                                             /\ Tail(toDevice)[k].id \notin handled
                                             /\ Tail(toDevice)[k].id # h.id
          /\ \A k, l \in DOMAIN Tail(toDevice) :
                 k # l => Tail(toDevice)[k].id # Tail(toDevice)[l].id
      <3>1. toDevice \in Seq(Request) /\ Len(toDevice) > 0
        BY <1>0, <2>1 DEF TypeOK
      <3>2. /\ 1 \in DOMAIN toDevice /\ h = toDevice[1]
            /\ \A k \in DOMAIN Tail(toDevice) :
                  /\ k + 1 \in DOMAIN toDevice /\ k + 1 # 1
                  /\ Tail(toDevice)[k] = toDevice[k + 1]
        BY <3>1
      <3>3. Fresh
        BY DEF ExactInv
      <3>4. QED
        BY <3>2, <3>3 DEF Fresh
    <2>3. CASE ~h.decodes
      <3>1. UNCHANGED <<hpc, cur, resp, handled>>
        BY <1>2, <2>3 DEF HandleMessage
      <3>2. QED
        BY <1>0, <2>1, <2>2, <3>1
        DEF ExactInv, Fresh, RespShape, AnsweredExactlyOnce, Issued
    <2>4. CASE h.decodes
      <3>1. /\ hpc' \in {"publish", "panic"} /\ cur' = h
            /\ handled' = IF h.action \in KnownActions THEN handled \cup {h.id}
                                                        ELSE handled
            /\ PerformAction(h)
        BY <1>2, <2>4 DEF HandleMessage, PerformAction, Returns
      <3>2. h \in Request
        BY <1>0, <2>1 DEF TypeOK
      <3>3. Fresh'
        <4>1. handled \subseteq sent
          BY DEF ExactInv, Fresh
        <4>2. QED
          BY <2>1, <2>2, <3>1, <3>2, <4>1 DEF Fresh
      <3>4. RespShape'
        <4>1. CASE h.action = "unknown"
          BY <2>2, <3>1, <4>1 DEF PerformAction, Returns, UploadPanics,
                                  RespShape, KnownActions
        <4>2. CASE h.action \in KnownActions
          <5>1. hpc' = "publish" => \E ok \in BOOLEAN : resp' = Response(h, ok)
            BY <3>1, <4>2 DEF PerformAction, Returns, ActionSucceeds, Unregister,
                              KnownActions
          <5>2. QED
            BY <3>1, <4>2, <5>1 DEF RespShape, Response
        <4>3. QED
          BY <3>2, <4>1, <4>2 DEF Request, Actions
      <3>5. AnsweredExactlyOnce'
        BY <1>0, <2>1, <2>2, <3>1 DEF ExactInv, AnsweredExactlyOnce, Issued
      <3>6. QED
        BY <1>0, <3>3, <3>4, <3>5 DEF ExactInv
    <2>5. QED
      BY <2>3, <2>4
  <1>3. CASE PublishResponse
    <2>1. /\ hpc = "publish" /\ hpc' \notin {"publish", "panic"}
          /\ issued' = Append(issued, resp)
          /\ UNCHANGED <<handled, toDevice, sent, cur, resp>>
      BY <1>3 DEF PublishResponse
    <2>2. \A i \in Ids :
            Cardinality(IssuedIn(issued', i)) =
              IF resp.kind = "response" /\ resp.id = i
                THEN Cardinality(IssuedIn(issued, i)) + 1
                ELSE Cardinality(IssuedIn(issued, i))
      BY <1>0, <2>1, IssuedAppend DEF TypeOK
    <2>3. \/ cur.id \in handled /\ resp.kind = "response" /\ resp.id = cur.id
          \/ cur.id \notin handled /\ resp.kind = "empty"
      BY <2>1 DEF ExactInv, RespShape, Response, EmptyPayload
    <2>4. AnsweredExactlyOnce'
      BY <2>1, <2>2, <2>3, IssuedIsIn DEF ExactInv, AnsweredExactlyOnce
    <2>5. QED
      BY <1>0, <2>1, <2>4 DEF ExactInv, Fresh, RespShape
  <1>4. CASE ExitAfterUnregister
    BY <1>0, <1>4, QuietStep DEF ExitAfterUnregister
  <1>5. CASE Service
    <2>1. PICK m \in MetricsPublished :
              issued' = issued \o (<<HealthRecord>> \o m)
      BY <1>5 DEF Service
    <2>2. \A i : IssuedIn(issued', i) = IssuedIn(issued, i)
      BY <1>0, <2>1, ServicePublishes, ServiceNoResponse, IssuedConcat DEF TypeOK
    <2>3. UNCHANGED <<handled, toDevice, sent, hpc, cur, resp>>
      BY <1>5 DEF Service
    <2>4. QED
      BY <1>0, <2>2, <2>3, IssuedIsIn
      DEF ExactInv, Fresh, RespShape, AnsweredExactlyOnce
  <1>6. CASE Flush
    BY <1>0, <1>6, QuietStep DEF Flush
  <1>7. CASE ConnectionLost
    <2>1. toDevice' = <<>>
          /\ UNCHANGED <<issued, handled, hpc, cur, resp, sent>>
      BY <1>7 DEF ConnectionLost
    <2>2. QED
      BY <1>0, <2>1 DEF ExactInv, Fresh, RespShape, AnsweredExactlyOnce, Issued
  <1>8. CASE Reconnect
    BY <1>0, <1>8, QuietStep DEF Reconnect
  <1>9. CASE UNCHANGED vars
    BY <1>0, <1>9, QuietStep DEF vars
  <1>10. QED
    BY <1>1, <1>2, <1>3, <1>4, <1>5, <1>6, <1>7, <1>8, <1>9 DEF Next

(* Every decoded request with a known action gets exactly one response    *)
(* Publish from subscribeHandler, once the callback is past its Publish,  *)
(* and none before.                                                        *)
THEOREM ExactlyOnce == Spec => []AnsweredExactlyOnce
  BY ExactInit, ExactStep, PTL DEF Spec, ExactInv

-----------------------------------------------------------------------------
(* The dispatcher implements AbstractDispatcher.                           *)

(* The answer counts of the mapping.                                       *)
Answers == [i \in Ids |-> Cardinality(Issued(i))]

LEMMA RefInit == Init => Abs!Init
  <1> SUFFICES ASSUME Init PROVE Abs!Init
    OBVIOUS
  <1>1. \A i \in Ids : Cardinality(Issued(i)) = 0
    <2>1. \A i \in Ids : Issued(i) = {}
      BY DEF Init, Issued
    <2>2. QED
      BY <2>1, FS_EmptySet
  <1>2. ~UnregisterAnswered /\ ~UnregisterSucceeded
    BY DEF Init, UnregisterAnswered, UnregisterSucceeded
  <1>3. QED
    BY <1>1, <1>2 DEF Init, Abs!Init

(* A step that changes none of the mapped state is a stutter of the        *)
(* abstract specification.                                                 *)
LEMMA RefStutter ==
    ASSUME UNCHANGED <<handled, issued, params, creds, alive>>
    PROVE  UNCHANGED Abs!vars
  BY DEF Abs!vars, Issued, UnregisterAnswered, UnregisterSucceeded

LEMMA RefStep == ExactInv /\ [Next]_vars => [Abs!Next]_Abs!vars
  <1> SUFFICES ASSUME ExactInv, [Next]_vars PROVE [Abs!Next]_Abs!vars
    OBVIOUS
  <1>0. TypeOK /\ UnregisterInv /\ Fresh /\ RespShape /\ AnsweredExactlyOnce
    BY DEF ExactInv, UnregisterInv
  <1>1. ASSUME NEW r \in Requests, CloudSend(r) PROVE UNCHANGED Abs!vars
    BY <1>1, RefStutter DEF CloudSend
  <1>2. CASE HandleMessage
    <2> DEFINE h == Head(toDevice)
    <2>1. /\ alive /\ hpc = "idle" /\ toDevice # <<>>
          /\ UNCHANGED issued
      BY <1>2 DEF HandleMessage
    <2>2. CASE ~h.decodes \/ h.action \notin KnownActions
      <3>1. UNCHANGED <<handled, params, creds, alive>>
        <4>1. CASE ~h.decodes
          BY <1>2, <4>1 DEF HandleMessage
        <4>2. CASE h.decodes /\ h.action \notin KnownActions
          <5>0. h \in Request
            BY <1>0, <2>1 DEF TypeOK
          <5>1. h.action = "unknown"
            BY <4>2, <5>0 DEF Request, Actions
          <5>2. QED
            BY <1>2, <4>2, <5>1 DEF HandleMessage, PerformAction, Returns,
                                    UploadPanics, KnownActions
        <4>3. QED
          BY <2>2, <4>1, <4>2
      <3>2. QED
        BY <2>1, <3>1, RefStutter
    <2>3. CASE h.decodes /\ h.action \in KnownActions
      <3>1. handled' = handled \cup {h.id} /\ PerformAction(h)
        BY <1>2, <2>3 DEF HandleMessage
      <3>2. h.id \notin handled /\ h.id \in Ids
        BY <1>0, <2>1 DEF Fresh, TypeOK, Request
      <3>3. CASE UploadPanics(h) /\ hpc' = "panic"
        <4>1. ~alive' /\ UNCHANGED <<params, creds>>
          BY <3>1, <3>3 DEF PerformAction, Returns
        <4>2. Abs!Crash(h.id)
          BY <2>1, <3>1, <3>2, <4>1 DEF Abs!Crash, Issued, UnregisterAnswered,
                                         UnregisterSucceeded
        <4>3. QED
          BY <3>2, <4>2 DEF Abs!Next
      <3>4. CASE ~(UploadPanics(h) /\ hpc' = "panic")
        <4>1. alive' = alive
          BY <3>1, <3>4 DEF PerformAction, Returns
        <4>2. (~params' /\ ~creds') \in {~params /\ ~creds, TRUE}
          <5>1. params \in BOOLEAN /\ creds \in BOOLEAN
            BY <1>0 DEF TypeOK
          <5>2. \/ params' = params /\ creds' = creds
                \/ params' = FALSE /\ (creds' = creds \/ creds' = FALSE)
            BY <3>1, Zenon DEF PerformAction, Unregister, RemoveParameters
          <5>3. QED
            BY <5>2, <5>1
        <4>3. Abs!Accept(h.id)
          BY <2>1, <3>1, <3>2, <4>1, <4>2 DEF Abs!Accept, Issued, UnregisterAnswered,
                                                UnregisterSucceeded
        <4>4. QED
          BY <3>2, <4>3 DEF Abs!Next
      <3>5. QED
        BY <3>3, <3>4
    <2>4. QED
      BY <2>2, <2>3
  <1>3. CASE PublishResponse
    <2>1. /\ alive /\ hpc = "publish"
          /\ issued' = Append(issued, resp)
          /\ UNCHANGED <<handled, params, creds, alive>>
      BY <1>3 DEF PublishResponse
    <2>2. \A i \in Ids :
            Cardinality(IssuedIn(issued', i)) =
              IF resp.kind = "response" /\ resp.id = i
                THEN Cardinality(IssuedIn(issued, i)) + 1
                ELSE Cardinality(IssuedIn(issued, i))
      BY <1>0, <2>1, IssuedAppend DEF TypeOK
    <2>3. \A b \in BOOLEAN :
            UnregIn(issued', b) <=> (UnregIn(issued, b) \/ IsUnreg(resp, b))
      BY <1>0, <2>1, IssuedAppend DEF TypeOK
    <2>4. CASE cur.action = "unknown"
      <3>1. resp = EmptyPayload
        BY <1>0, <2>1, <2>4 DEF RespShape, KnownActions
      <3>2. \A i \in Ids : Cardinality(Issued(i)') = Cardinality(Issued(i))
        BY <2>2, <3>1, IssuedIsIn DEF EmptyPayload
      <3>3. /\ UnregisterAnswered' <=> UnregisterAnswered
            /\ UnregisterSucceeded' <=> UnregisterSucceeded
        BY <2>3, <3>1, IssuedIsIn DEF EmptyPayload, IsUnreg
      <3>4. UNCHANGED <<UnregisterAnswered, UnregisterSucceeded>>
        BY <3>3, Zenon DEF UnregisterAnswered, UnregisterSucceeded
      <3>5. QED
        BY <2>1, <3>2, <3>4 DEF Abs!vars
    <2>5. CASE cur.action # "unknown"
      <3> DEFINE unreg == cur.action = "unregister"
      <3>1. /\ cur.id \in handled /\ cur.id \in Ids
            /\ resp = Response(cur, resp.success)
        BY <1>0, <2>1, <2>5 DEF RespShape, TypeOK, Request
      <3>2. resp.kind = "response" /\ resp.id = cur.id /\ resp.action = cur.action
        BY <3>1 DEF Response
      <3>3. Cardinality(Issued(cur.id)) = 0
        BY <1>0, <2>1, <3>1 DEF AnsweredExactlyOnce
      <3>4. unreg /\ resp.success => ~params /\ ~creds
        BY <1>0, <2>1, <3>1 DEF UnregisterInv
      <3>5. [i \in Ids |-> Cardinality(Issued(i))'] =
              [[i \in Ids |-> Cardinality(Issued(i))] EXCEPT ![cur.id] = 1]
        <4>1. \A i \in Ids : Cardinality(Issued(i)') =
                  IF i = cur.id THEN 1 ELSE Cardinality(Issued(i))
          BY <2>2, <3>2, <3>3, IssuedIsIn
        <4>2. QED
          BY <3>1, <4>1
      <3>6. /\ UnregisterAnswered' <=> (UnregisterAnswered \/ unreg)
            /\ UnregisterSucceeded' <=> (UnregisterSucceeded \/ (unreg /\ resp.success))
        BY <2>3, <3>2, IssuedIsIn DEF IsUnreg
      <3>7. resp.success \in BOOLEAN
        BY <1>0 DEF TypeOK, Message
      <3>8. /\ UnregisterAnswered' = (UnregisterAnswered \/ unreg)
            /\ UnregisterSucceeded' = (UnregisterSucceeded \/ (unreg /\ resp.success))
        BY <3>6, Zenon DEF UnregisterAnswered, UnregisterSucceeded
      <3>9. Abs!Answer(cur.id, unreg, resp.success)
        BY <2>1, <3>1, <3>3, <3>4, <3>5, <3>8 DEF Abs!Answer
      <3>10. QED
        BY <3>1, <3>7, <3>9 DEF Abs!Next
    <2>6. QED
      BY <2>4, <2>5
  <1>4. CASE ExitAfterUnregister
    <2>1. /\ alive /\ hpc = "exit" /\ alive' = FALSE
          /\ UNCHANGED <<handled, issued, params, creds>>
      BY <1>4 DEF ExitAfterUnregister
    <2>2. UnregisterAnswered
      <3>1. /\ cur.action = "unregister"
            /\ resp = Response(cur, resp.success)
            /\ \E k \in DOMAIN issued : issued[k] = resp
        BY <1>0, <2>1 DEF UnregisterInv
      <3>2. QED
        BY <3>1 DEF UnregisterAnswered, Response
    <2>3. UNCHANGED <<UnregisterAnswered, UnregisterSucceeded>>
      BY <2>1 DEF UnregisterAnswered, UnregisterSucceeded
    <2>4. Abs!Exit
      BY <2>1, <2>2, <2>3 DEF Abs!Exit, Issued
    <2>5. QED
      BY <2>4 DEF Abs!Next
  <1>5. CASE Service
    <2>1. PICK m \in MetricsPublished :
              issued' = issued \o (<<HealthRecord>> \o m)
      BY <1>5 DEF Service
    <2>2. /\ \A i : IssuedIn(issued', i) = IssuedIn(issued, i)
          /\ \A b \in BOOLEAN : UnregIn(issued', b) <=> UnregIn(issued, b)
      <3> DEFINE t == <<HealthRecord>> \o m
      <3>1. /\ issued \in Seq(Message) /\ t \in Seq(Message)
            /\ \A k \in DOMAIN t : t[k].kind # "response"
        BY <1>0, ServicePublishes, ServiceNoResponse DEF TypeOK
      <3>2. \A i : IssuedIn(issued \o t, i) = IssuedIn(issued, i)
        BY <3>1, IssuedConcat
      <3>3. \A b \in BOOLEAN : UnregIn(issued \o t, b) <=> UnregIn(issued, b)
        BY <3>1, IssuedConcat
      <3>4. QED
        BY <2>1, <3>2, <3>3
    <2>3. UNCHANGED <<handled, params, creds, alive>>
      BY <1>5 DEF Service
    <2>4. \A i : Issued(i)' = Issued(i)
      BY <2>2, IssuedIsIn
    <2>5. /\ UnregisterAnswered' <=> UnregisterAnswered
          /\ UnregisterSucceeded' <=> UnregisterSucceeded
      BY <2>2, IssuedIsIn
    <2>6. UNCHANGED <<UnregisterAnswered, UnregisterSucceeded>>
      BY <2>5, Zenon DEF UnregisterAnswered, UnregisterSucceeded
    <2>7. QED
      BY <2>3, <2>4, <2>6 DEF Abs!vars
  <1>6. CASE Flush
    BY <1>6, RefStutter DEF Flush
  <1>7. CASE ConnectionLost
    BY <1>7, RefStutter DEF ConnectionLost
  <1>8. CASE Reconnect
    BY <1>8, RefStutter DEF Reconnect
  <1>9. CASE UNCHANGED vars
    BY <1>9, RefStutter DEF vars
  <1>10. QED
    BY <1>1, <1>2, <1>3, <1>4, <1>5, <1>6, <1>7, <1>8, <1>9 DEF Next

(* subscribeHandler, with paho's queue, the reconnects and the service    *)
(* ticker around it, implements the dispatcher's contract                 *)
(* AbstractDispatcher: each accepted request answered at most once, a     *)
(* successful unregister answer only with the files gone, and the process *)
(* ended only after an unregister answer or by a request it never answers.*)
THEOREM Refinement == Spec => AbstractSpec
  BY ExactInit, ExactStep, RefInit, RefStep, PTL DEF Spec, AbstractSpec, Abs!Spec
=============================================================================
