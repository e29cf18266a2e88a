----------------------------- MODULE MC_LocalBus -----------------------------
(* The local bus with two requests: r1 on any subject, r2 as a second     *)
(* request racing it.  The actions cover the valid and invalid inputs of  *)
(* each handler.                                                           *)
EXTENDS LocalBus

CONSTANTS r1, r2

MC_Ids == {r1, r2}

(* The actions each handler tells apart, per subject.                    *)
InputActions(s) ==
    IF s \in {"apps", "apps.v1"} THEN {"start", "other"}
    ELSE IF s = "snapsnap.v1" THEN {"switch", "other"}
    ELSE {"other"}

MC_Requests ==
    UNION {{[id |-> r1, subject |-> s, action |-> a] : a \in InputActions(s)} :
              s \in Subjects}
    \cup {[id |-> r2, subject |-> "status", action |-> "other"]}
=============================================================================
