---------------------------- MODULE MCLogViewer -----------------------------
(* Finite instances of LogViewer.                                          *)
EXTENDS LogViewer

\* An error and a result no box hides at first, and a row the box of the queues hides.
ThreeKinds ==
    {[type |-> "ERROR", origin |-> "openai"], [type |-> "RESULT", origin |-> "openai"],
     [type |-> "INFO", origin |-> "queues"]}
=============================================================================
