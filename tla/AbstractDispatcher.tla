------------------------- MODULE AbstractDispatcher -------------------------
(***************************************************************************)
(* What the action dispatcher promises, without the broker, the queues and *)
(* the callback's steps: a request it accepts is answered at most once; a *)
(* successful unregister answer is given only once the stored parameters  *)
(* and credentials are gone; and the process ends only after an           *)
(* unregister was answered, whatever its outcome, or while it takes on a  *)
(* request it then never answers (a handler that panics).  Requests that  *)
(* do not decode or name no known action are not accepted and get no      *)
(* answer here.                                                            *)
(***************************************************************************)
EXTENDS Naturals

CONSTANT Ids        \* correlation ids of the requests

VARIABLES
    accepted,       \* ids of the requests the dispatcher took on
    answers,        \* answers[i]: how many responses to i were issued
    cleared,        \* the parameters and the credentials are removed
    unregistered,   \* a response to an unregister has been issued
    released,       \* a successful unregister response has been issued
    running         \* the process is alive

vars == <<accepted, answers, cleared, unregistered, released, running>>

Init ==
    /\ accepted = {}
    /\ answers = [i \in Ids |-> 0]
    /\ cleared = FALSE
    /\ unregistered = FALSE
    /\ released = FALSE
    /\ running = TRUE

(* The dispatcher takes request i on.  Handling an unregister may remove  *)
(* the stored files; nothing else does.                                    *)
Accept(i) ==
    /\ running
    /\ i \notin accepted
    /\ accepted' = accepted \cup {i}
    /\ cleared' \in {cleared, TRUE}
    /\ UNCHANGED <<answers, unregistered, released, running>>

(* Taking request i on ends the process before it is answered.            *)
Crash(i) ==
    /\ running
    /\ i \notin accepted
    /\ accepted' = accepted \cup {i}
    /\ running' = FALSE
    /\ UNCHANGED <<answers, cleared, unregistered, released>>

(* The one response to an accepted request; unreg marks an unregister     *)
(* answer and ok its success, which needs the files gone.                 *)
Answer(i, unreg, ok) ==
    /\ running
    /\ i \in accepted
    /\ answers[i] = 0
    /\ unreg /\ ok => cleared
    /\ answers' = [answers EXCEPT ![i] = 1]
    /\ unregistered' = (unregistered \/ unreg)
    /\ released' = (released \/ (unreg /\ ok))
    /\ UNCHANGED <<accepted, cleared, running>>

(* The process ends, only after an unregister was answered.               *)
Exit ==
    /\ running
    /\ unregistered
    /\ running' = FALSE
    /\ UNCHANGED <<accepted, answers, cleared, unregistered, released>>

Next ==
    \/ \E i \in Ids : Accept(i) \/ Crash(i)
    \/ \E i \in Ids, unreg, ok \in BOOLEAN : Answer(i, unreg, ok)
    \/ Exit

Spec == Init /\ [][Next]_vars
=============================================================================
