----------------------------- MODULE AtLeastOnce -----------------------------
(***************************************************************************)
(* What a work queue that acknowledges after the work promises: a job that *)
(* is published stays queued until it is done, it is done only after an    *)
(* attempt, and it is attempted only while it is queued - once, or several *)
(* times when an attempt is interrupted.                                   *)
(***************************************************************************)
EXTENDS Integers

CONSTANT Requests

VARIABLES
    stage,   \* "none", "queued" or "done"
    runs     \* attempts begun

Init ==
    /\ stage = [r \in Requests |-> "none"]
    /\ runs = [r \in Requests |-> 0]

Publish(r) ==
    /\ stage[r] = "none"
    /\ stage' = [stage EXCEPT ![r] = "queued"]
    /\ UNCHANGED runs

Attempt(r) ==
    /\ stage[r] = "queued"
    /\ runs' = [runs EXCEPT ![r] = @ + 1]
    /\ UNCHANGED stage

Finish(r) ==
    /\ stage[r] = "queued"
    /\ runs[r] > 0
    /\ stage' = [stage EXCEPT ![r] = "done"]
    /\ UNCHANGED runs

Next == \E r \in Requests : Publish(r) \/ Attempt(r) \/ Finish(r)

Spec == Init /\ [][Next]_<<stage, runs>>

\* Every published job is attempted and done in the end.
FairSpec == Spec /\ \A r \in Requests :
    WF_<<stage, runs>>(IF runs[r] = 0 THEN Attempt(r) ELSE Finish(r))
=============================================================================
