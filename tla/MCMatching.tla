----------------------------- MODULE MCMatching -----------------------------
(* Finite instances of Matching.                                           *)
EXTENDS Matching, TLC

CONSTANTS Junk   \* a text that holds no number

Object(p, r) == [form |-> "object", probability |-> p, response |-> r]
Short(v) == [form |-> "short", value |-> v]

\* An answer above the threshold, one below, with an average above, and no number.
ThreeAnswers == {Short(90), Object(82, None), Object(Junk, None)}

\* Every way an answer is read: a short number and a short text; an object with
\* a probability, with a probability of 0, with a response; and the rest.
AllAnswers ==
    {Short(90), Short(Junk), Object(100, None), Object(0, None), Object(0, 70),
     Object(None, None), [form |-> "number", value |-> 100], [form |-> "other"], [form |-> "empty"]}

Symmetry == Permutations(Candidates) \cup Permutations(Checks)
=============================================================================
