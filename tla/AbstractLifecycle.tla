------------------------- MODULE AbstractLifecycle -------------------------
(***************************************************************************)
(* What the agent's main goroutine promises, without channels, tickers,   *)
(* connections or files: it starts the local bus, then enrolls, then runs *)
(* until a termination signal stops it.  It runs only once enrolled, and   *)
(* stops only after a signal.  A signal that arrives before anything has   *)
(* registered for it ends the process (the operating system's default);   *)
(* later signals are only recorded.  It does not promise that a signal    *)
(* stops the agent.                                                        *)
(***************************************************************************)

Phases == {"init", "localbus", "enroll", "run", "stopped", "killed"}

VARIABLES
    phase,       \* where the agent is
    enrolled,    \* the device holds enrollment credentials
    signalled    \* a termination signal has been delivered

vars == <<phase, enrolled, signalled>>

Init ==
    /\ phase = "init"
    /\ enrolled \in BOOLEAN
    /\ signalled = FALSE

(* The local-bus server is being started.                                  *)
StartLocalBus ==
    /\ phase = "init"
    /\ phase' = "localbus"
    /\ UNCHANGED <<enrolled, signalled>>

(* The local-bus start is over, connected or not.                          *)
BeginEnroll ==
    /\ phase = "localbus"
    /\ phase' = "enroll"
    /\ UNCHANGED <<enrolled, signalled>>

(* A failed enrollment attempt, which may still have stored credentials.   *)
EnrollAttempt ==
    /\ phase = "enroll"
    /\ enrolled' \in {enrolled, TRUE}
    /\ UNCHANGED <<phase, signalled>>

(* The enrollment that succeeds: the agent runs, enrolled.                 *)
Run ==
    /\ phase = "enroll"
    /\ phase' = "run"
    /\ enrolled' = TRUE
    /\ UNCHANGED signalled

(* The agent shuts down, only after a signal.                              *)
Shutdown ==
    /\ phase = "run"
    /\ signalled
    /\ phase' = "stopped"
    /\ UNCHANGED <<enrolled, signalled>>

(* A signal before any handler is registered ends the process.             *)
Killed ==
    /\ phase = "init"
    /\ phase' = "killed"
    /\ signalled' = TRUE
    /\ UNCHANGED enrolled

(* A signal once a handler is registered is recorded.                      *)
Signal ==
    /\ phase \in {"localbus", "enroll", "run"}
    /\ signalled' = TRUE
    /\ UNCHANGED <<phase, enrolled>>

Next ==
    \/ StartLocalBus
    \/ BeginEnroll
    \/ EnrollAttempt
    \/ Run
    \/ Shutdown
    \/ Killed
    \/ Signal

Spec == Init /\ [][Next]_vars
=============================================================================
