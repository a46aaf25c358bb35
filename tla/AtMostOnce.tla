------------------------------ MODULE AtMostOnce ------------------------------
(***************************************************************************)
(* What is left of a promise when a message is acknowledged before it is   *)
(* handled: what is sent is handled once or not at all.  Handling takes    *)
(* several messages, each of which is sent when the one before it has been *)
(* handled, so that only the beginning, the end and the losses show.       *)
(***************************************************************************)
EXTENDS Integers

VARIABLES
    sent,   \* what was asked for
    open,   \* how much of it may still be done
    done    \* how much was done

Init == sent = 0 /\ open = 0 /\ done = 0

Send ==
    /\ sent' = sent + 1
    /\ open' = open + 1
    /\ UNCHANGED done

Lose ==
    /\ \E n \in 0 .. open : open' = n
    /\ UNCHANGED <<sent, done>>

Finish ==
    /\ open > 0
    /\ open' = open - 1
    /\ done' = done + 1
    /\ UNCHANGED sent

Next == Send \/ Lose \/ Finish

Spec == Init /\ [][Next]_<<sent, open, done>>

Balance == {sent, open, done} \subseteq Nat /\ done + open <= sent
=============================================================================
