---------------------------- MODULE LocalBusProofs ----------------------------
(***************************************************************************)
(* Proofs about the local-bus request/reply server, for every set of ids   *)
(* and requests and every number of installed subscription tables: type    *)
(* correctness, that each table answers a request at most once, and that  *)
(* the status and snap-switch handlers always answer.                      *)
(***************************************************************************)
EXTENDS LocalBus, TLAPS

-----------------------------------------------------------------------------
(* What one Publish does to the reply history.                             *)
LEMMA PublishFacts ==
    ASSUME replies \in Seq(Reply), NEW t \in 1..Tables, NEW r \in Request,
           NEW err \in BOOLEAN, NEW c \in BOOLEAN, Publish(t, r, err, c)
    PROVE  /\ replies' \in Seq(Reply)
           /\ DOMAIN replies' = DOMAIN replies \cup {Len(replies) + 1}
           /\ Len(replies) + 1 \notin DOMAIN replies
           /\ \A k \in DOMAIN replies : replies'[k] = replies[k]
           /\ replies'[Len(replies) + 1].id = r.id
           /\ replies'[Len(replies) + 1].table = t
  <1>1. [id |-> r.id, table |-> t, err |-> err, connected |-> c] \in Reply
    BY DEF Request, Reply
  <1>2. QED
    BY <1>1 DEF Publish

(* A handler step: table t takes r off todo and publishes at most once,    *)
(* exactly once when r is a status or snap-switch request.                 *)
HandlerStep(t, r) ==
    /\ <<t, r>> \in todo
    /\ todo' = todo \ {<<t, r>>}
    /\ handled' = handled \cup {<<t, r>>}
    /\ UNCHANGED <<subs, sent, legacySet, mqttOpen>>
    /\ \/ replies' = replies
       \/ \E err, c \in BOOLEAN : Publish(t, r, err, c)
    /\ r.subject \in {"status", "snapsnap.v1"} =>
          \E err, c \in BOOLEAN : Publish(t, r, err, c)

LEMMA HandlersAreSteps ==
    ASSUME mqttOpen \in BOOLEAN, NEW t \in 1..Tables, NEW r \in Requests,
           \/ HandleGet(t, r)
           \/ HandleAppsPost(t, r)
           \/ HandleSnapsSnapPost(t, r)
           \/ HandleStatus(t, r)
    PROVE  HandlerStep(t, r)
  <1>1. CASE HandleGet(t, r)
    BY <1>1 DEF HandleGet, Handling, HandlerStep
  <1>2. CASE HandleAppsPost(t, r)
    BY <1>2 DEF HandleAppsPost, Handling, HandlerStep
  <1>3. CASE HandleSnapsSnapPost(t, r)
    <2>1. \E err, c \in BOOLEAN : Publish(t, r, err, c)
      BY <1>3 DEF HandleSnapsSnapPost
    <2>2. QED
      BY <1>3, <2>1 DEF HandleSnapsSnapPost, Handling, HandlerStep
  <1>4. CASE HandleStatus(t, r)
    <2>1. \E err, c \in BOOLEAN : Publish(t, r, err, c)
      BY <1>4 DEF HandleStatus
    <2>2. QED
      BY <1>4, <2>1 DEF HandleStatus, Handling, HandlerStep
  <1>5. QED
    BY <1>1, <1>2, <1>3, <1>4

-----------------------------------------------------------------------------
(* Type correctness.                                                       *)

LEMMA TypeInit == Init => TypeOK
  <1> SUFFICES ASSUME Init PROVE TypeOK
    OBVIOUS
  <1>1. {Subjects} \cup {Subjects \ {s} : s \in Subjects} \subseteq SUBSET Subjects
    OBVIOUS
  <1>2. subs \in [1..Tables -> SUBSET Subjects]
    BY <1>1 DEF Init
  <1>3. replies \in Seq(Reply)
    BY DEF Init
  <1>4. legacySet \in BOOLEAN /\ mqttOpen \in BOOLEAN
    BY DEF Init
  <1>5. QED
    BY <1>2, <1>3, <1>4 DEF Init, TypeOK

LEMMA HandlerType ==
    ASSUME TypeOK, NEW t \in 1..Tables, NEW r \in Requests, HandlerStep(t, r)
    PROVE  TypeOK'
  <1>1. r \in Request
    BY RequestsAssumption
  <1>2. replies' \in Seq(Reply)
    BY <1>1, PublishFacts DEF HandlerStep, TypeOK
  <1>3. QED
    BY <1>2 DEF HandlerStep, TypeOK

LEMMA TypeStep == TypeOK /\ [Next]_vars => TypeOK'
  <1> SUFFICES ASSUME TypeOK, [Next]_vars PROVE TypeOK'
    OBVIOUS
  <1>1. ASSUME NEW r \in Requests, Send(r) PROVE TypeOK'
    BY <1>1, RequestsAssumption DEF Send, TypeOK, Request
  <1>2. ASSUME NEW t \in 1..Tables, NEW r \in Requests, HandlerStep(t, r)
        PROVE  TypeOK'
    BY <1>2, HandlerType
  <1>3. CASE SetLegacy
    BY <1>3 DEF SetLegacy, TypeOK
  <1>4. CASE MqttChange
    BY <1>4 DEF MqttChange, TypeOK
  <1>5. CASE UNCHANGED vars
    BY <1>5 DEF vars, TypeOK
  <1>6. QED
    BY <1>1, <1>2, <1>3, <1>4, <1>5, HandlersAreSteps DEF Next, TypeOK

(* Every reachable state of the local bus is well typed.                   *)
THEOREM TypeCorrect == Spec => []TypeOK
  BY TypeInit, TypeStep, PTL DEF Spec

-----------------------------------------------------------------------------
(* The reply invariant.                                                    *)

LEMMA ReplyInit == Init => ReplyInv
  <1> SUFFICES ASSUME Init PROVE ReplyInv
    OBVIOUS
  <1>1. TypeOK
    BY TypeInit
  <1>2. DOMAIN replies = {}
    BY DEF Init
  <1>3. QED
    BY <1>1, <1>2 DEF Init, ReplyInv, OneReplyPerTable, AlwaysReplyingAnswered

(* A Send delivers a fresh id, so it clashes with no delivery and no reply. *)
LEMMA SendStep ==
    ASSUME ReplyInv, NEW r \in Requests, Send(r)
    PROVE  ReplyInv'
  <1>0. TypeOK /\ TypeOK'
    BY TypeStep DEF ReplyInv, Next
  <1> DEFINE New == {<<u, r>> : u \in {v \in 1..Tables : r.subject \in subs[v]}}
  <1>1. todo' = todo \cup New /\ UNCHANGED <<handled, replies, sent \ {r.id}>>
    BY DEF Send
  <1>2. r.id \notin sent /\ sent' = sent \cup {r.id}
    BY DEF Send
  <1>3. \A p \in New : p[2] = r /\ p[1] \in 1..Tables
    OBVIOUS
  <1>4. \A p \in todo' \cup handled' : p[2].id \in sent'
    BY <1>1, <1>2, <1>3 DEF ReplyInv
  <1>5. \A k \in DOMAIN replies' : replies'[k].id \in sent'
    BY <1>1, <1>2 DEF ReplyInv
  <1>6. \A p, q \in todo' \cup handled' : p[1] = q[1] /\ p[2].id = q[2].id => p = q
    <2> SUFFICES ASSUME NEW p \in todo' \cup handled', NEW q \in todo' \cup handled',
                        p[1] = q[1], p[2].id = q[2].id
                 PROVE  p = q
      OBVIOUS
    <2>1. CASE p \in New /\ q \in New
      <3>1. p = <<p[1], r>> /\ q = <<q[1], r>>
        BY <2>1
      <3>2. QED
        BY <3>1
    <2>2. CASE p \in todo \cup handled /\ q \in todo \cup handled
      BY <2>2 DEF ReplyInv
    <2>3. CASE p \in New /\ q \in todo \cup handled
      BY <2>3, <1>2, <1>3 DEF ReplyInv
    <2>4. CASE p \in todo \cup handled /\ q \in New
      BY <2>4, <1>2, <1>3 DEF ReplyInv
    <2>5. QED
      BY <1>1, <2>1, <2>2, <2>3, <2>4
  <1>7. \A p \in todo', k \in DOMAIN replies' :
          ~(replies'[k].id = p[2].id /\ replies'[k].table = p[1])
    BY <1>1, <1>2, <1>3 DEF ReplyInv
  <1>8. OneReplyPerTable' /\ AlwaysReplyingAnswered'
    BY <1>1 DEF ReplyInv, OneReplyPerTable, AlwaysReplyingAnswered, RepliesTo
  <1>9. QED
    BY <1>0, <1>4, <1>5, <1>6, <1>7, <1>8 DEF ReplyInv

(* A handler step that publishes nothing.                                  *)
LEMMA SilentStep ==
    ASSUME ReplyInv, NEW t \in 1..Tables, NEW r \in Requests, HandlerStep(t, r),
           replies' = replies
    PROVE  ReplyInv'
  <1>0. TypeOK'
    BY HandlerType DEF ReplyInv
  <1>1. todo' \cup handled' = todo \cup handled /\ todo' \subseteq todo
    BY DEF HandlerStep
  <1>2. r.subject \notin {"status", "snapsnap.v1"}
    <2>1. replies \in Seq(Reply) /\ r \in Request
      BY RequestsAssumption DEF ReplyInv, TypeOK
    <2>2. ASSUME NEW err \in BOOLEAN, NEW c \in BOOLEAN, Publish(t, r, err, c)
          PROVE  FALSE
      <3>1. Len(replies) + 1 \in DOMAIN replies' /\ Len(replies) + 1 \notin DOMAIN replies
        BY <2>1, <2>2, PublishFacts
      <3>2. QED
        BY <3>1
    <2>3. QED
      BY <2>2 DEF HandlerStep
  <1>3. AlwaysReplyingAnswered'
    BY <1>2 DEF HandlerStep, ReplyInv, AlwaysReplyingAnswered, RepliesTo
  <1>4. QED
    BY <1>0, <1>1, <1>3 DEF HandlerStep, ReplyInv, OneReplyPerTable

(* A handler step that publishes its reply: the first from table t to     *)
(* r.id, since <<t, r>> was still to handle.                               *)
LEMMA PublishingStep ==
    ASSUME ReplyInv, NEW t \in 1..Tables, NEW r \in Requests, HandlerStep(t, r),
           NEW err \in BOOLEAN, NEW c \in BOOLEAN, Publish(t, r, err, c)
    PROVE  ReplyInv'
  <1> DEFINE n == Len(replies) + 1
  <1>0. TypeOK'
    BY HandlerType DEF ReplyInv
  <1>1. /\ DOMAIN replies' = DOMAIN replies \cup {n}
        /\ n \notin DOMAIN replies
        /\ \A k \in DOMAIN replies : replies'[k] = replies[k]
        /\ replies'[n].id = r.id /\ replies'[n].table = t
    BY PublishFacts, RequestsAssumption DEF ReplyInv, TypeOK
  <1>2. todo' \cup handled' = todo \cup handled /\ todo' = todo \ {<<t, r>>}
        /\ handled' = handled \cup {<<t, r>>} /\ sent' = sent /\ <<t, r>> \in todo
    BY DEF HandlerStep
  <1>3. r.id \in sent
    BY <1>2 DEF ReplyInv
  <1>4. \A k \in DOMAIN replies' : replies'[k].id \in sent'
    BY <1>1, <1>2, <1>3 DEF ReplyInv
  <1>5. \A p \in todo', k \in DOMAIN replies' :
          ~(replies'[k].id = p[2].id /\ replies'[k].table = p[1])
    <2> SUFFICES ASSUME NEW p \in todo', NEW k \in DOMAIN replies'
                 PROVE  ~(replies'[k].id = p[2].id /\ replies'[k].table = p[1])
      OBVIOUS
    <2>1. p \in todo /\ p # <<t, r>>
      BY <1>2
    <2>2. CASE k \in DOMAIN replies
      BY <2>1, <2>2, <1>1 DEF ReplyInv
    <2>3. CASE k = n
      <3>1. ~(p[1] = t /\ p[2].id = r.id)
        <4>1. p \in (1..Tables) \X Requests
          BY <2>1 DEF ReplyInv, TypeOK
        <4>2. p = <<p[1], p[2]>>
          BY <4>1
        <4>3. QED
          BY <2>1, <1>2, <4>2 DEF ReplyInv
      <3>2. QED
        BY <2>3, <3>1, <1>1
    <2>4. QED
      BY <1>1, <2>2, <2>3
  <1>6. OneReplyPerTable'
    <2> SUFFICES ASSUME NEW k1 \in DOMAIN replies', NEW k2 \in DOMAIN replies',
                        replies'[k1].id = replies'[k2].id,
                        replies'[k1].table = replies'[k2].table
                 PROVE  k1 = k2
      BY DEF OneReplyPerTable
    <2>1. ASSUME NEW k \in DOMAIN replies
          PROVE  ~(replies'[k].id = r.id /\ replies'[k].table = t)
      BY <2>1, <1>1, <1>2 DEF ReplyInv
    <2>2. CASE k1 \in DOMAIN replies /\ k2 \in DOMAIN replies
      BY <2>2, <1>1 DEF ReplyInv, OneReplyPerTable
    <2>3. CASE k1 = n /\ k2 \in DOMAIN replies
      BY <2>3, <2>1, <1>1
    <2>4. CASE k1 \in DOMAIN replies /\ k2 = n
      BY <2>4, <2>1, <1>1
    <2>5. QED
      BY <1>1, <2>2, <2>3, <2>4
  <1>7. AlwaysReplyingAnswered'
    <2> SUFFICES ASSUME NEW p \in handled',
                        p[2].subject \in {"status", "snapsnap.v1"}
                 PROVE  \E k \in RepliesTo(p[2].id)' : replies'[k].table = p[1]
      BY DEF AlwaysReplyingAnswered
    <2>1. CASE p = <<t, r>>
      <3>1. n \in RepliesTo(p[2].id)' /\ replies'[n].table = p[1]
        BY <2>1, <1>1 DEF RepliesTo
      <3>2. QED
        BY <3>1
    <2>2. CASE p \in handled
      <3>1. PICK k \in RepliesTo(p[2].id) : replies[k].table = p[1]
        BY <2>2 DEF ReplyInv, AlwaysReplyingAnswered
      <3>2. k \in RepliesTo(p[2].id)' /\ replies'[k].table = p[1]
        BY <3>1, <1>1 DEF RepliesTo
      <3>3. QED
        BY <3>2
    <2>3. QED
      BY <1>2, <2>1, <2>2
  <1>8. QED
    BY <1>0, <1>2, <1>4, <1>5, <1>6, <1>7 DEF ReplyInv

LEMMA ReplyStep == ReplyInv /\ [Next]_vars => ReplyInv'
  <1> SUFFICES ASSUME ReplyInv, [Next]_vars PROVE ReplyInv'
    OBVIOUS
  <1>1. ASSUME NEW t \in 1..Tables, NEW r \in Requests, HandlerStep(t, r)
        PROVE  ReplyInv'
    BY <1>1, SilentStep, PublishingStep DEF HandlerStep
  <1>2. ASSUME NEW t \in 1..Tables, NEW r \in Requests,
               \/ HandleGet(t, r)
               \/ HandleAppsPost(t, r)
               \/ HandleSnapsSnapPost(t, r)
               \/ HandleStatus(t, r)
        PROVE  ReplyInv'
    BY <1>1, <1>2, HandlersAreSteps DEF ReplyInv, TypeOK
  <1>3. CASE SetLegacy \/ MqttChange \/ UNCHANGED vars
    <2>1. TypeOK'
      BY <1>3, TypeStep DEF ReplyInv, Next
    <2>2. QED
      BY <1>3, <2>1 DEF SetLegacy, MqttChange, vars, ReplyInv, OneReplyPerTable,
                        AlwaysReplyingAnswered, RepliesTo
  <1>4. QED
    BY <1>1, <1>2, <1>3, SendStep DEF Next

(* Each installed table answers a local request at most once: no handler  *)
(* path of handleAssertionsGet, handleSnapsGet, handleAppsPost,           *)
(* handleSnapsSnapPostv1 or handleMqttConnectionStatus publishes twice.    *)
THEOREM OncePerTable == Spec => []OneReplyPerTable
  BY ReplyInit, ReplyStep, PTL DEF Spec, ReplyInv

(* handleMqttConnectionStatus and handleSnapsSnapPostv1 reply on every     *)
(* path, the status handler also before SetLegacy.                         *)
THEOREM StatusAndSwitchAnswered == Spec => []AlwaysReplyingAnswered
  BY ReplyInit, ReplyStep, PTL DEF Spec, ReplyInv

=============================================================================
