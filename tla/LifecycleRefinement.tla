------------------------ MODULE LifecycleRefinement ------------------------
(***************************************************************************)
(* Proof that Lifecycle implements AbstractLifecycle under the mapping of  *)
(* Lifecycle.tla: the main goroutine's pc to a phase, the credentials file *)
(* to enrolled, and the signal count to signalled.                          *)
(***************************************************************************)
EXTENDS LifecycleProofs

(* What the refinement needs beyond LInv.  A signal kills the process     *)
(* exactly while no quit channel is registered, which is before the first *)
(* Start (Registration).  Buffered signals, the deferred Stop and the end  *)
(* after it all come after a delivered signal, and none was delivered      *)
(* before the first Start, since it would have killed the process          *)
(* (SignalSeen).                                                           *)
Registration == (registered = {}) <=> (pc \in {"start1", "killed"})

SignalSeen ==
    /\ \A c \in Chans : chan[c] = 1 => signals > 0
    /\ pc \in {"stop", "done", "killed"} => signals > 0
    /\ pc = "start1" => signals = 0

RInv == LInv /\ Registration /\ SignalSeen

(* The phase of each pc.                                                   *)
LEMMA PhaseValues ==
    /\ PhaseOf("start1") = "init"
    /\ \A p \in {"retry1", "start2", "retry2"} : PhaseOf(p) = "localbus"
    /\ PhaseOf("enroll") = "enroll"
    /\ \A p \in {"setlegacy", "notify", "wait", "stop"} : PhaseOf(p) = "run"
    /\ PhaseOf("done") = "stopped"
    /\ PhaseOf("killed") = "killed"
  BY DEF PhaseOf

LEMMA RInit == Init => RInv
  <1> SUFFICES ASSUME Init PROVE RInv
    OBVIOUS
  <1>1. LInv
    BY InitLInv
  <1>2. QED
    BY <1>1 DEF Init, RInv, Registration, SignalSeen, Chans

LEMMA RStep == RInv /\ [Next]_vars => RInv'
  <1> SUFFICES ASSUME RInv, [Next]_vars PROVE RInv'
    OBVIOUS
  <1>0. LInv' /\ TypeOK /\ TypeOK'
    BY StepLInv DEF RInv, LInv
  <1>1. CASE NatsStart
    BY <1>0, <1>1 DEF NatsStart, StartReturns, StartChan, AfterStart, RInv,
                      Registration, SignalSeen, TypeOK
  <1>2. CASE NatsRetry
    BY <1>0, <1>2 DEF NatsRetry, StartReturns, AfterStart, RInv, Registration,
                      SignalSeen
  <1>3. CASE NatsQuit
    BY <1>0, <1>3 DEF NatsQuit, StartReturns, StartChan, AfterStart, RInv,
                      Registration, SignalSeen, TypeOK, Chans
  <1>4. CASE Enroll
    <2>1. pc = "enroll" /\ pc' \in {"enroll", "setlegacy"}
          /\ UNCHANGED <<chan, registered, signals>>
      BY <1>4 DEF Enroll
    <2>2. QED
      BY <1>0, <2>1 DEF RInv, Registration, SignalSeen
  <1>5. CASE SetLegacy \/ NotifyRun
    BY <1>0, <1>5 DEF SetLegacy, NotifyRun, RInv, Registration, SignalSeen
  <1>6. CASE ReceiveSignal
    BY <1>0, <1>6 DEF ReceiveSignal, RInv, Registration, SignalSeen, TypeOK, Chans
  <1>7. CASE Stop
    BY <1>0, <1>7 DEF Stop, RInv, Registration, SignalSeen
  <1>8. CASE Signal
    <2>1. signals' = signals + 1 /\ signals \in Nat /\ UNCHANGED registered
      BY <1>8, <1>0 DEF Signal, TypeOK
    <2>2. CASE registered = {}
      BY <1>0, <1>8, <2>1, <2>2 DEF Signal, RInv, Registration, SignalSeen
    <2>3. CASE registered # {}
      <3>1. pc' = pc /\ pc \notin {"start1", "killed", "done"}
        BY <1>8, <2>3 DEF Signal, RInv, Registration
      <3>2. \A c \in Chans : chan'[c] = 1 => signals' > 0
        BY <1>8, <2>1, <2>3 DEF Signal
      <3>3. QED
        BY <1>0, <2>1, <2>3, <3>1, <3>2 DEF RInv, Registration, SignalSeen
    <2>4. QED
      BY <2>2, <2>3
  <1>9. CASE UNCHANGED vars
    BY <1>0, <1>9 DEF vars, RInv, Registration, SignalSeen
  <1>10. QED
    BY <1>0, <1>1, <1>2, <1>3, <1>4, <1>5, <1>6, <1>7, <1>8, <1>9 DEF Next, RInv

-----------------------------------------------------------------------------
(* The refinement.                                                         *)

LEMMA RefInit == Init => AbsLifecycle!Init
  <1> SUFFICES ASSUME Init PROVE AbsLifecycle!Init
    OBVIOUS
  <1>1. creds \in BOOLEAN
    BY Zenon DEF Init
  <1>2. QED
    BY <1>1, PhaseValues DEF Init, AbsLifecycle!Init

(* An enrollment tick leaves the credentials as they were or stores them; *)
(* nothing removes them.                                                   *)
LEMMA CheckEnrollmentKeeps ==
    ASSUME NEW ok, CheckEnrollment(ok)
    PROVE  creds' = creds \/ creds' = TRUE
  BY Zenon DEF CheckEnrollment, EnrollDevice, enrollVars

LEMMA RefStep == RInv /\ RInv' /\ [Next]_vars => [AbsLifecycle!Next]_AbsLifecycle!vars
  <1> SUFFICES ASSUME RInv, RInv', [Next]_vars
               PROVE  [AbsLifecycle!Next]_AbsLifecycle!vars
    OBVIOUS
  <1>0. TypeOK /\ TypeOK'
    BY DEF RInv, LInv
  <1> DEFINE Stutter == UNCHANGED <<PhaseOf(pc), creds, signals > 0>>
  <1>s. Stutter => [AbsLifecycle!Next]_AbsLifecycle!vars
    BY DEF AbsLifecycle!vars
  <1>1. CASE NatsStart
    <2>1. UNCHANGED <<creds, signals>>
      BY <1>1 DEF NatsStart, enrollVars
    <2>2. CASE pc = "start1"
      <3>1. pc' \in {"retry1", "start2"}
        BY <1>1, <2>2 DEF NatsStart, StartReturns, AfterStart
      <3>2. AbsLifecycle!StartLocalBus
        BY <2>1, <2>2, <3>1, PhaseValues DEF AbsLifecycle!StartLocalBus
      <3>3. QED
        BY <3>2 DEF AbsLifecycle!Next
    <2>3. CASE pc = "start2"
      <3>1. pc' \in {"retry2", "enroll"}
        BY <1>1, <2>3 DEF NatsStart, StartReturns, AfterStart
      <3>2. CASE pc' = "retry2"
        BY <2>1, <2>3, <3>2, <1>s, PhaseValues
      <3>3. CASE pc' = "enroll"
        <4>1. AbsLifecycle!BeginEnroll
          BY <2>1, <2>3, <3>3, PhaseValues DEF AbsLifecycle!BeginEnroll
        <4>2. QED
          BY <4>1 DEF AbsLifecycle!Next
      <3>4. QED
        BY <3>1, <3>2, <3>3
    <2>4. QED
      BY <1>1, <2>2, <2>3 DEF NatsStart
  <1>2. CASE NatsRetry \/ NatsQuit
    <2>1. UNCHANGED <<creds, signals>> /\ pc \in {"retry1", "retry2"}
          /\ pc' = AfterStart(pc)
      BY <1>2 DEF NatsRetry, NatsQuit, StartReturns, enrollVars
    <2>2. CASE pc = "retry1"
      BY <2>1, <2>2, <1>s, PhaseValues DEF AfterStart
    <2>3. CASE pc = "retry2"
      <3>1. AbsLifecycle!BeginEnroll
        BY <2>1, <2>3, PhaseValues DEF AbsLifecycle!BeginEnroll, AfterStart
      <3>2. QED
        BY <3>1 DEF AbsLifecycle!Next
    <2>4. QED
      BY <2>1, <2>2, <2>3
  <1>3. CASE Enroll
    <2>1. PICK checked \in BOOLEAN : CheckEnrollment(checked)
      BY <1>3 DEF Enroll
    <2>2. creds' = creds \/ creds' = TRUE
      BY <2>1, CheckEnrollmentKeeps
    <2>3. pc = "enroll" /\ pc' \in {"enroll", "setlegacy"} /\ signals' = signals
      BY <1>3 DEF Enroll
    <2>4. CASE pc' = "enroll"
      <3>1. AbsLifecycle!EnrollAttempt
        BY <2>2, <2>3, <2>4, PhaseValues DEF AbsLifecycle!EnrollAttempt
      <3>2. QED
        BY <3>1 DEF AbsLifecycle!Next
    <2>5. CASE pc' = "setlegacy"
      <3>1. creds' = TRUE
        BY <2>5, <1>0 DEF RInv, LInv, RunningImpliesEnrolled, TypeOK
      <3>2. AbsLifecycle!Run
        BY <2>3, <2>5, <3>1, PhaseValues DEF AbsLifecycle!Run
      <3>3. QED
        BY <3>2 DEF AbsLifecycle!Next
    <2>6. QED
      BY <2>3, <2>4, <2>5
  <1>4. CASE SetLegacy \/ NotifyRun \/ ReceiveSignal
    <2>1. /\ pc \in {"setlegacy", "notify", "wait"}
          /\ pc' \in {"notify", "wait", "stop"}
          /\ UNCHANGED <<creds, signals>>
      BY <1>4 DEF SetLegacy, NotifyRun, ReceiveSignal, enrollVars
    <2>2. QED
      BY <2>1, <1>s, PhaseValues
  <1>5. CASE Stop
    <2>1. pc = "stop" /\ pc' = "done" /\ UNCHANGED <<creds, signals>>
      BY <1>5 DEF Stop, enrollVars
    <2>2. signals > 0
      BY <2>1 DEF RInv, SignalSeen
    <2>3. AbsLifecycle!Shutdown
      BY <2>1, <2>2, PhaseValues DEF AbsLifecycle!Shutdown
    <2>4. QED
      BY <2>3 DEF AbsLifecycle!Next
  <1>6. CASE Signal
    <2>1. /\ signals' = signals + 1 /\ signals \in Nat /\ creds' = creds
          /\ pc \notin {"done", "killed"}
      BY <1>6, <1>0 DEF Signal, TypeOK, enrollVars
    <2>2. CASE registered = {}
      <3>1. pc = "start1" /\ pc' = "killed"
        BY <1>6, <2>1, <2>2 DEF Signal, RInv, Registration
      <3>2. AbsLifecycle!Killed
        BY <2>1, <3>1, PhaseValues DEF AbsLifecycle!Killed
      <3>3. QED
        BY <3>2 DEF AbsLifecycle!Next
    <2>3. CASE registered # {}
      <3>1. pc' = pc /\ pc \in {"retry1", "start2", "retry2", "enroll",
                                "setlegacy", "notify", "wait", "stop"}
        BY <1>6, <2>1, <2>3, <1>0 DEF Signal, RInv, Registration, TypeOK, PCs
      <3>2. PhaseOf(pc) \in {"localbus", "enroll", "run"}
        BY <3>1, PhaseValues
      <3>3. AbsLifecycle!Signal
        BY <2>1, <3>1, <3>2 DEF AbsLifecycle!Signal
      <3>4. QED
        BY <3>3 DEF AbsLifecycle!Next
    <2>4. QED
      BY <2>2, <2>3
  <1>7. CASE UNCHANGED vars
    BY <1>7, <1>s DEF vars
  <1>8. QED
    BY <1>1, <1>2, <1>3, <1>4, <1>5, <1>6, <1>7 DEF Next

(* The main goroutine implements the lifecycle contract: local bus, then  *)
(* enrollment, then running with credentials stored; it stops only after *)
(* a signal, and a signal kills it only before the first Start registers  *)
(* a quit channel.                                                         *)
THEOREM Refinement == Spec => LifecycleContract
  <1>1. Spec => []RInv
    BY RInit, RStep, PTL DEF Spec
  <1>2. QED
    BY <1>1, RefInit, RefStep, PTL DEF Spec, LifecycleContract, AbsLifecycle!Spec

=============================================================================
