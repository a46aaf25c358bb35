--------------------------- MODULE MatchingProofs ---------------------------
(***************************************************************************)
(* Theorems about Matching, for every set of candidates, checks, verify    *)
(* calls and edits, every threshold, and whatever OpenAI answers.          *)
(***************************************************************************)
EXTENDS Matching, TLAPS

-----------------------------------------------------------------------------
(* Types.                                                                  *)

\* An answer gives a number, NaN, or no probability at all.
LEMMA ProbabilityType ==
    ASSUME NEW r
    PROVE  Probability(r) \in Scores \cup {None}
  BY DEF Probability, ParseInt, Scores

\* A list of scores stays one when a score is added.
LEMMA EntryWithScore ==
    ASSUME NEW e, IsEntry(e), NEW p \in Procs, NEW v \in Scores
    PROVE  /\ IsEntry([e EXCEPT !.scores = WithScore(@, p, v)])
           /\ IsEntry([e EXCEPT !.scores = WithScore(NoScores, p, v)])
           /\ IsEntry([e EXCEPT !.kind = "copy"])
  BY DEF IsEntry, WithScore, NoScores, Kinds

\* The arrays the handlers write are arrays.
LEMMA ArrayTypes ==
    /\ IsArray(NoArray)
    /\ \A a, m, p, v : IsArray(a) /\ p \in Procs /\ v \in Scores =>
           IsArray(Scored(a, m, p, v)) /\ IsArray(Verified(a, m, p))
    /\ \A a : IsArray(a) => IsArray(Populated(a))
  <1>1. IsArray(NoArray)
    BY DEF IsArray, IsEntry, NoArray, Unlisted, NoScores, Kinds
  <1>2. ASSUME NEW a, NEW m, NEW p, NEW v, IsArray(a), p \in Procs, v \in Scores
        PROVE  IsArray(Scored(a, m, p, v)) /\ IsArray(Verified(a, m, p))
    <2>1. 100 \in Scores
      BY DEF Scores
    <2>2. ASSUME NEW c \in Candidates
          PROVE  IsEntry(Scored(a, m, p, v)[c]) /\ IsEntry(Verified(a, m, p)[c])
      <3>1. IsEntry(a[c])
        BY <1>2 DEF IsArray
      <3>2. /\ IsEntry([a[c] EXCEPT !.scores = WithScore(@, p, v)])
            /\ IsEntry([a[c] EXCEPT !.scores = WithScore(NoScores, p, 100)])
        BY <1>2, <2>1, <3>1, EntryWithScore
      <3>. QED BY <3>1, <3>2 DEF Scored, Verified
    <2>3. /\ Scored(a, m, p, v) = [c \in Candidates |-> Scored(a, m, p, v)[c]]
          /\ Verified(a, m, p) = [c \in Candidates |-> Verified(a, m, p)[c]]
      BY DEF Scored, Verified
    <2>. QED BY <2>2, <2>3 DEF IsArray
  <1>3. ASSUME NEW a, IsArray(a) PROVE IsArray(Populated(a))
    <2>1. ASSUME NEW c \in Candidates PROVE IsEntry([a[c] EXCEPT !.kind = "copy"])
      BY <1>3 DEF IsArray, IsEntry, Kinds
    <2>. QED BY <1>3, <2>1 DEF IsArray, Populated
  <1>. QED BY <1>1, <1>2, <1>3

\* The initial state is typed.
LEMMA TypeInit == Init => TypeOK
  <1>1. \A p \in Procs : IsArray([q \in Procs |-> NoArray][p])
    BY ArrayTypes
  <1>. QED
    BY <1>1, ArrayTypes, ConstantsAssumption DEF Init, TypeOK, Pcs, Procs

\* Putting an array in a process keeps the snapshots typed.
LEMMA SnapType ==
    ASSUME TypeOK, NEW p \in Procs, NEW a, IsArray(a), snap' = [snap EXCEPT ![p] = a]
    PROVE  DOMAIN snap' = Procs /\ \A q \in Procs : IsArray(snap'[q])
  BY DEF TypeOK

\* Every step keeps the state typed.
LEMMA TypeStep == TypeOK /\ [Next]_vars => TypeOK'
  <1>. SUFFICES ASSUME TypeOK, [Next]_vars PROVE TypeOK'
    OBVIOUS
  <1>. USE DEF TypeOK
  <1>t. /\ \A p \in Checks : p \in Procs /\ p \notin Verifies /\ p \notin Edits
        /\ \A p \in Verifies : p \in Procs /\ p \notin Checks /\ p \notin Edits
        /\ \A p \in Edits : p \in Procs /\ p \notin Checks /\ p \notin Verifies
    BY ConstantsAssumption DEF Procs
  <1>g. ASSUME NEW p \in Procs, NEW next \in Pcs, Goto(p, next)
        PROVE  /\ pc' \in [Procs -> Pcs]
               /\ DOMAIN snap' = Procs /\ \A q \in Procs : IsArray(snap'[q])
    BY <1>g, ArrayTypes, SnapType DEF Goto
  <1>r. ASSUME NEW p \in Procs, NEW next \in Pcs, Read(p, next)
        PROVE  /\ pc' \in [Procs -> Pcs]
               /\ DOMAIN snap' = Procs /\ \A q \in Procs : IsArray(snap'[q])
    BY <1>r, SnapType DEF Read
  <1>1. CASE UNCHANGED vars
    BY <1>1 DEF vars
  <1>2. ASSUME NEW found \in SUBSET (Candidates \ pushed), Push(found) PROVE TypeOK'
    <2>1. IsArray(matches')
      BY <1>2 DEF Push, IsArray, IsEntry, NoScores, Kinds
    <2>. QED BY <1>2, <2>1 DEF Push, handling, reviews
  <1>3. ASSUME NEW k \in Checks, NEW m \in Candidates, SendCheck(k, m) PROVE TypeOK'
    BY <1>3, <1>t DEF SendCheck, reviews, Pcs
  <1>4. ASSUME NEW k \in Checks, StartCheck(k) PROVE TypeOK'
    BY <1>4, <1>t, <1>r DEF StartCheck, Read, reviews, Pcs
  <1>5. ASSUME NEW k \in Checks, RejectCheck(k) \/ GiveUp(k) \/ RecordNothing(k) PROVE TypeOK'
    BY <1>5, <1>t, <1>g DEF RejectCheck, GiveUp, RecordNothing, Goto, reviews, Pcs
  <1>6. ASSUME NEW k \in Checks, NEW v \in Scores, Record(k, v) PROVE TypeOK'
    <2>1. IsArray(matches')
      BY <1>6, <1>t, ArrayTypes DEF Record
    <2>2. PICK next \in {"creating", "ended"} : Goto(k, next)
      BY <1>6 DEF Record
    <2>. QED BY <1>6, <1>t, <1>g, <2>1, <2>2 DEF Record, Goto, reviews, Pcs
  <1>7. ASSUME NEW v \in Verifies, NEW m \in Candidates, VerifyRead(v, m) PROVE TypeOK'
    BY <1>7, <1>t, <1>r DEF VerifyRead, Read, reviews, Pcs
  <1>8. ASSUME NEW v \in Verifies, VerifyWrite(v) PROVE TypeOK'
    <2>1. 100 \in Scores
      BY DEF Scores
    <2>2. IsArray(matches')
      BY <1>8, <1>t, <2>1, ArrayTypes DEF VerifyWrite
    <2>. QED BY <1>8, <1>t, <1>g, <2>1, <2>2 DEF VerifyWrite, Goto, reviews, Pcs
  <1>9. ASSUME NEW v \in Verifies, VerifyNothing(v) PROVE TypeOK'
    BY <1>9, <1>t, <1>g DEF VerifyNothing, Goto, reviews, Pcs
  <1>10. ASSUME NEW p \in Checks \cup Verifies, FindPending(p) PROVE TypeOK'
    <2>1. PICK next \in {"inserting", "ended"} : Goto(p, next)
      BY <1>10 DEF FindPending
    <2>. QED BY <1>10, <1>t, <1>g, <2>1 DEF FindPending, Goto, reviews, Pcs
  <1>11. ASSUME NEW p \in Checks \cup Verifies, InsertRequest(p) PROVE TypeOK'
    <2>1. about[p] \in Candidates /\ p \in Procs /\ "ended" \in Pcs
      BY <1>11, <1>t DEF InsertRequest, Pcs
    <2>2. pending' \in [Candidates -> Nat] /\ made' \in [Candidates -> Nat]
      BY <1>11, <2>1 DEF InsertRequest
    <2>3. /\ pc' = [pc EXCEPT ![p] = "ended"]
          /\ UNCHANGED <<exists, matches, pushed, about, answer, lost, failures>>
      BY <1>11 DEF InsertRequest, Goto
    <2>4. pc' \in [Procs -> Pcs] /\ DOMAIN snap' = Procs /\ \A q \in Procs : IsArray(snap'[q])
      BY <1>11, <1>g, <2>1 DEF InsertRequest
    <2>. QED BY <1>11, <1>t, <2>1, <2>2, <2>3, <2>4 DEF InsertRequest
  <1>12. ASSUME NEW m \in Candidates, LeavePending(m) PROVE TypeOK'
    BY <1>12 DEF LeavePending, handling
  <1>13. ASSUME NEW e \in Edits, EditLoad(e) PROVE TypeOK'
    <2>1. DOMAIN snap' = Procs /\ \A q \in Procs : IsArray(snap'[q])
      BY <1>13, <1>t, ArrayTypes, SnapType DEF EditLoad
    <2>. QED BY <1>13, <1>t, <2>1 DEF EditLoad, reviews, Pcs
  <1>14. ASSUME NEW e \in Edits, EditSave(e) PROVE TypeOK'
    BY <1>14, <1>t, <1>g DEF EditSave, Update, Goto, reviews, Pcs
  <1>15. CASE RemoveProduct
    BY <1>15 DEF RemoveProduct, handling, reviews
  <1>16. ASSUME NEW k \in Checks, CallFails(k) \/ SendFails(k) PROVE TypeOK'
    <2>1. /\ k \in Procs /\ "ended" \in Pcs /\ Goto(k, "ended") /\ failures' \in Nat
          /\ pc[k] \in {"asking", "creating"}
      BY <1>16, <1>t DEF CallFails, SendFails, Pcs
    <2>2. lost' \subseteq Candidates
      BY <1>16, <1>t DEF CallFails, SendFails
    <2>3. UNCHANGED <<exists, matches, pushed, about, answer, pending, made>>
      BY <1>16 DEF CallFails, SendFails, reviews
    <2>. QED BY <1>t, <1>g, <2>1, <2>2, <2>3 DEF Goto
  <1>17. CASE ApiCrash
    <2>1. DOMAIN snap' = Procs /\ \A q \in Procs : IsArray(snap'[q])
      BY <1>17, ArrayTypes DEF ApiCrash
    <2>2. pc' \in [Procs -> Pcs] /\ failures' \in Nat
      BY <1>17 DEF ApiCrash, Pcs
    <2>3. lost' \subseteq Candidates
      BY <1>17, <1>t DEF ApiCrash
    <2>. QED BY <1>17, <1>t, <2>1, <2>2, <2>3 DEF ApiCrash, InApi, reviews
  <1>18. \A k \in Checks : Answered(k) => \E v \in Scores : Record(k, v)
    BY ProbabilityType DEF Answered
  <1>. QED
    BY <1>1, <1>2, <1>3, <1>4, <1>5, <1>6, <1>7, <1>8, <1>9, <1>10, <1>11, <1>12,
       <1>13, <1>14, <1>15, <1>16, <1>17, <1>18 DEF Next, Begin, Finish, Create

\* Every reachable state has the declared types.
THEOREM TypeCorrect == Spec => []TypeOK
  BY TypeInit, TypeStep, PTL DEF Spec

-----------------------------------------------------------------------------
(* Reviews of every match above the threshold.                             *)

\* Every array there is, in the product or in a handler that will write it
\* back, shows above the threshold only what is settled; and a pending request
\* is one that was made.
JudgedInv ==
    /\ \A m \in Candidates : pending[m] > 0 => made[m] > 0
    /\ \A m \in Candidates : Above(matches[m].scores) => Settled(m)
    /\ \A p \in Procs, m \in Candidates : Above(snap[p][m].scores) => Settled(m)

\* No scores, no average.
LEMMA NothingAbove ==
    /\ ~Above(NoScores)
    /\ \A m \in Candidates : NoArray[m].scores = NoScores
  BY DEF Above, Exceeds, NoScores, NoArray, Unlisted

\* Initially there is no score.
LEMMA JudgedInit == Init => JudgedInv
  BY NothingAbove DEF Init, JudgedInv

\* What is settled stays settled.
LEMMA SettledStays ==
    ASSUME TypeOK, JudgedInv, [Next]_vars, NEW m \in Candidates, Settled(m)
    PROVE  Settled(m)'
  <1>. USE DEF TypeOK, Settled
  <1>t. Checks \subseteq Procs /\ Verifies \subseteq Procs /\ Edits \subseteq Procs
        /\ (\A e \in Edits : e \notin Checks \cup Verifies)
    BY ConstantsAssumption DEF Procs
  <1>1. CASE UNCHANGED vars
    BY <1>1 DEF vars
  <1>2. ASSUME NEW found, Push(found) PROVE Settled(m)'
    BY <1>2 DEF Push, handling, reviews
  <1>3. ASSUME NEW p \in Procs, NEW next, Goto(p, next), pc[p] \notin {"creating", "inserting"},
               UNCHANGED <<about, made, lost>>
        PROVE  Settled(m)'
    BY <1>3, <1>t DEF Goto
  <1>4. ASSUME NEW p \in Procs, NEW next, Read(p, next), pc[p] \notin {"creating", "inserting"},
               UNCHANGED <<about, made, lost>>
        PROVE  Settled(m)'
    BY <1>4, <1>t DEF Read
  <1>5. ASSUME NEW k \in Checks, NEW c \in Candidates, SendCheck(k, c) PROVE Settled(m)'
    BY <1>5, <1>t DEF SendCheck, reviews
  <1>6. ASSUME NEW k \in Checks, Begin(k) \/ Finish(k) PROVE Settled(m)'
    BY <1>6, <1>3, <1>4, <1>t
       DEF Begin, Finish, StartCheck, RejectCheck, Answered, Record, GiveUp, RecordNothing, reviews
  <1>7. ASSUME NEW v \in Verifies, NEW c \in Candidates, VerifyRead(v, c) PROVE Settled(m)'
    BY <1>7, <1>t DEF VerifyRead, Read, reviews
  <1>8. ASSUME NEW v \in Verifies, VerifyWrite(v) \/ VerifyNothing(v) PROVE Settled(m)'
    BY <1>8, <1>3, <1>t DEF VerifyWrite, VerifyNothing, reviews
  <1>9. ASSUME NEW p \in Checks \cup Verifies, FindPending(p) PROVE Settled(m)'
    <2>1. p \in Procs /\ about[p] \in Candidates /\ UNCHANGED <<about, made, lost>>
      BY <1>9, <1>t DEF FindPending, reviews
    <2>2. CASE pending[about[p]] > 0
      <3>1. about[p] = m => made[m] > 0
        BY <2>1, <2>2 DEF JudgedInv
      <3>2. pc' = [pc EXCEPT ![p] = "ended"]
        BY <1>9, <2>2 DEF FindPending, Goto
      <3>. QED BY <2>1, <3>1, <3>2
    <2>3. CASE ~(pending[about[p]] > 0)
      <3>1. pc' = [pc EXCEPT ![p] = "inserting"]
        BY <1>9, <2>3 DEF FindPending, Goto
      <3>. QED BY <2>1, <3>1
    <2>. QED BY <2>2, <2>3
  <1>10. ASSUME NEW p \in Checks \cup Verifies, InsertRequest(p) PROVE Settled(m)'
    <2>1. /\ p \in Procs /\ about[p] \in Candidates
          /\ UNCHANGED <<about, lost>>
          /\ made' = [made EXCEPT ![about[p]] = @ + 1]
          /\ pc' = [pc EXCEPT ![p] = "ended"]
      BY <1>10, <1>t DEF InsertRequest, Goto
    <2>2. CASE about[p] = m
      BY <2>1, <2>2
    <2>3. CASE about[p] # m
      BY <2>1, <2>3, <1>t
    <2>. QED BY <2>2, <2>3
  <1>11. ASSUME NEW c \in Candidates, LeavePending(c) PROVE Settled(m)'
    BY <1>11 DEF LeavePending, handling
  <1>12. ASSUME NEW e \in Edits, EditLoad(e) \/ EditSave(e) PROVE Settled(m)'
    BY <1>12, <1>t DEF EditLoad, EditSave, Update, Goto, reviews
  <1>13. CASE RemoveProduct
    BY <1>13 DEF RemoveProduct, handling, reviews
  <1>14. ASSUME NEW k \in Checks, CallFails(k) \/ SendFails(k) PROVE Settled(m)'
    BY <1>14, <1>t DEF CallFails, SendFails, Goto, reviews
  <1>15. CASE ApiCrash
    BY <1>15 DEF ApiCrash, reviews
  <1>. QED
    BY <1>1, <1>2, <1>5, <1>6, <1>7, <1>8, <1>9, <1>10, <1>11, <1>12, <1>13, <1>14, <1>15
       DEF Next, Create

\* The scores a process holds after a step are none, or those it held before,
\* or those of the product.
LEMMA SnapStep ==
    ASSUME TypeOK, [Next]_vars, NEW p \in Procs, NEW m \in Candidates
    PROVE  snap'[p][m].scores \in {NoScores, snap[p][m].scores, matches[m].scores}
  <1>. USE DEF TypeOK
  <1>t. Checks \subseteq Procs /\ Verifies \subseteq Procs /\ Edits \subseteq Procs
    BY DEF Procs
  <1>n. NoArray[m].scores = NoScores
    BY NothingAbove
  <1>c. Populated(matches)[m].scores = matches[m].scores
    BY DEF Populated, IsArray, IsEntry
  <1>1. ASSUME NEW q \in Procs, NEW next, Goto(q, next) \/ Read(q, next)
        PROVE  snap'[p][m].scores \in {NoScores, snap[p][m].scores, matches[m].scores}
    BY <1>1, <1>n DEF Goto, Read
  <1>2. CASE UNCHANGED snap
    BY <1>2
  <1>3. ASSUME NEW k \in Checks, Begin(k) \/ Finish(k) \/ CallFails(k) \/ SendFails(k)
        PROVE  snap'[p][m].scores \in {NoScores, snap[p][m].scores, matches[m].scores}
    BY <1>3, <1>1, <1>t
       DEF Begin, Finish, StartCheck, RejectCheck, Answered, Record, GiveUp, RecordNothing,
           CallFails, SendFails
  <1>4. ASSUME NEW v \in Verifies, NEW c, VerifyRead(v, c) \/ VerifyWrite(v) \/ VerifyNothing(v)
        PROVE  snap'[p][m].scores \in {NoScores, snap[p][m].scores, matches[m].scores}
    BY <1>4, <1>1, <1>t DEF VerifyRead, VerifyWrite, VerifyNothing
  <1>5. ASSUME NEW q \in Checks \cup Verifies, Create(q)
        PROVE  snap'[p][m].scores \in {NoScores, snap[p][m].scores, matches[m].scores}
    BY <1>5, <1>1, <1>t DEF Create, FindPending, InsertRequest
  <1>6. ASSUME NEW e \in Edits, EditLoad(e) \/ EditSave(e)
        PROVE  snap'[p][m].scores \in {NoScores, snap[p][m].scores, matches[m].scores}
    BY <1>6, <1>1, <1>c, <1>t DEF EditLoad, EditSave, Update
  <1>7. CASE ApiCrash
    BY <1>7, <1>n DEF ApiCrash
  <1>8. CASE \/ \E found \in SUBSET (Candidates \ pushed) : Push(found)
             \/ \E k \in Checks, c \in Candidates : SendCheck(k, c)
             \/ \E c \in Candidates : LeavePending(c)
             \/ RemoveProduct
             \/ UNCHANGED vars
    BY <1>8, <1>2 DEF Push, SendCheck, LeavePending, RemoveProduct, handling, vars
  <1>9. CASE \/ \E v \in Verifies, c \in Candidates : VerifyRead(v, c)
             \/ \E v \in Verifies : VerifyWrite(v) \/ VerifyNothing(v)
    BY <1>9, <1>4
  <1>. QED BY <1>3, <1>5, <1>6, <1>7, <1>8, <1>9 DEF Next

\* The scores of a match after a step are none, or those of an array that was
\* there, or they were written for it by a handler that then judges them.
LEMMA MatchesStep ==
    ASSUME TypeOK, [Next]_vars, NEW m \in Candidates
    PROVE  \/ matches'[m].scores \in {NoScores, matches[m].scores}
           \/ \E p \in Procs : matches'[m].scores = snap[p][m].scores
           \/ /\ Above(matches'[m].scores)
              /\ \E p \in Checks \cup Verifies : about'[p] = m /\ pc'[p] = "creating"
           \/ ~Above(matches'[m].scores)
  <1>. USE DEF TypeOK
  <1>t. Checks \subseteq Procs /\ Verifies \subseteq Procs /\ Edits \subseteq Procs
    BY DEF Procs
  <1>. DEFINE Goal == \/ matches'[m].scores \in {NoScores, matches[m].scores}
                      \/ \E p \in Procs : matches'[m].scores = snap[p][m].scores
                      \/ /\ Above(matches'[m].scores)
                         /\ \E p \in Checks \cup Verifies : about'[p] = m /\ pc'[p] = "creating"
                      \/ ~Above(matches'[m].scores)
  <1>1. CASE UNCHANGED matches
    BY <1>1
  <1>2. ASSUME NEW found, Push(found) PROVE Goal
    BY <1>2 DEF Push
  <1>3. ASSUME NEW k \in Checks, NEW v, Record(k, v) PROVE Goal
    <2>1. CASE about[k] = m /\ snap[k][m].kind = "ref"
      <3>1. matches'[m].kind = "ref"
        BY <1>3, <2>1, <1>t DEF Record, Scored, IsArray, IsEntry
      <3>2. CASE Above(matches'[m].scores)
        <4>1. Deserves(k, matches')
          BY <2>1, <3>1, <3>2 DEF Deserves
        <4>2. pc'[k] = "creating" /\ about'[k] = m
          BY <1>3, <2>1, <4>1, <1>t DEF Record, Goto
        <4>. QED BY <3>2, <4>2
      <3>. QED BY <3>2
    <2>2. CASE ~(about[k] = m /\ snap[k][m].kind = "ref")
      <3>1. matches'[m] = snap[k][m]
        BY <1>3, <2>2 DEF Record, Scored
      <3>. QED BY <3>1, <1>t
    <2>. QED BY <2>1, <2>2
  <1>4. ASSUME NEW v \in Verifies, VerifyWrite(v) PROVE Goal
    <2>1. CASE about[v] = m
      <3>1. pc'[v] = "creating" /\ about'[v] = m
        BY <1>4, <2>1, <1>t DEF VerifyWrite, Goto
      <3>. QED BY <3>1
    <2>2. CASE about[v] # m
      <3>1. matches'[m] = snap[v][m]
        BY <1>4, <2>2 DEF VerifyWrite, Verified
      <3>. QED BY <3>1, <1>t
    <2>. QED BY <2>1, <2>2
  <1>5. ASSUME NEW e \in Edits, EditSave(e) PROVE Goal
    BY <1>5, <1>t DEF EditSave, Update
  <1>6. CASE \/ \E k \in Checks, c \in Candidates : SendCheck(k, c)
             \/ \E k \in Checks : Begin(k) \/ GiveUp(k) \/ RecordNothing(k)
             \/ \E k \in Checks : CallFails(k) \/ SendFails(k)
             \/ \E v \in Verifies, c \in Candidates : VerifyRead(v, c)
             \/ \E v \in Verifies : VerifyNothing(v)
             \/ \E p \in Checks \cup Verifies : Create(p)
             \/ \E c \in Candidates : LeavePending(c)
             \/ \E e \in Edits : EditLoad(e)
             \/ RemoveProduct \/ ApiCrash \/ UNCHANGED vars
    BY <1>6, <1>1
       DEF SendCheck, Begin, StartCheck, RejectCheck, GiveUp, RecordNothing, CallFails, SendFails,
           VerifyRead,
           VerifyNothing, Create, FindPending, InsertRequest, LeavePending, EditLoad, RemoveProduct,
           ApiCrash, vars
  <1>. QED BY <1>2, <1>3, <1>4, <1>5, <1>6 DEF Next, Finish, Answered

\* A pending request stays one that was made.
LEMMA PendingMade ==
    ASSUME TypeOK, JudgedInv, [Next]_vars, NEW m \in Candidates, pending'[m] > 0
    PROVE  made'[m] > 0
  <1>. USE DEF TypeOK, JudgedInv
  <1>1. CASE UNCHANGED <<pending, made>>
    BY <1>1
  <1>2. ASSUME NEW p \in Checks \cup Verifies, InsertRequest(p) PROVE made'[m] > 0
    BY <1>2 DEF InsertRequest
  <1>3. ASSUME NEW c \in Candidates, LeavePending(c) PROVE made'[m] > 0
    BY <1>3 DEF LeavePending
  <1>. QED
    BY <1>1, <1>2, <1>3
       DEF Next, Push, SendCheck, Begin, StartCheck, RejectCheck, Finish, Answered, Record, GiveUp,
           RecordNothing, CallFails, SendFails, VerifyRead, VerifyWrite, VerifyNothing, Create,
           FindPending, EditLoad, EditSave, Update, RemoveProduct, ApiCrash, reviews, vars

\* Every step keeps the arrays judged.
LEMMA JudgedStep == TypeOK /\ JudgedInv /\ [Next]_vars => JudgedInv'
  <1>. SUFFICES ASSUME TypeOK, JudgedInv, [Next]_vars PROVE JudgedInv'
    OBVIOUS
  <1>1. ASSUME NEW m \in Candidates, Above(matches'[m].scores) PROVE Settled(m)'
    <2>1. CASE \/ matches'[m].scores \in {NoScores, matches[m].scores}
               \/ \E p \in Procs : matches'[m].scores = snap[p][m].scores
      <3>1. Settled(m)
        BY <1>1, <2>1, NothingAbove DEF JudgedInv
      <3>. QED BY <3>1, SettledStays
    <2>2. CASE \E p \in Checks \cup Verifies : about'[p] = m /\ pc'[p] = "creating"
      BY <2>2 DEF Settled
    <2>. QED BY <1>1, <2>1, <2>2, MatchesStep
  <1>2. ASSUME NEW p \in Procs, NEW m \in Candidates, Above(snap'[p][m].scores)
        PROVE  Settled(m)'
    <2>1. Settled(m)
      BY <1>2, SnapStep, NothingAbove DEF JudgedInv
    <2>. QED BY <2>1, SettledStays
  <1>3. \A m \in Candidates : pending'[m] > 0 => made'[m] > 0
    BY PendingMade
  <1>. QED BY <1>1, <1>2, <1>3 DEF JudgedInv

\* The invariant behind AboveRequested holds in every reachable state.
THEOREM JudgedCorrect == Spec => []JudgedInv
  BY JudgedInit, JudgedStep, TypeCorrect, PTL DEF Spec

\* Whatever the handlers write over each other, a match that shows an average
\* above the threshold has its reviews requested, is about to, or lost the
\* request to a failure.
THEOREM AboveRequestedCorrect == Spec => []AboveRequested
  <1>1. JudgedInv => AboveRequested
    BY DEF JudgedInv, AboveRequested, Listed
  <1>. QED BY <1>1, JudgedCorrect, PTL

-----------------------------------------------------------------------------
(* What leaves the array.                                                  *)

\* Nothing knows a candidate before the scrapper pushed it.
FreshInv ==
    \A m \in Candidates \ pushed :
        /\ matches[m] = Unlisted
        /\ \A p \in Procs : snap[p][m] = Unlisted

\* Initially no array lists anything.
LEMMA FreshInit == Init => FreshInv
  BY DEF Init, FreshInv, NoArray

\* No handler lists a candidate that its array did not list.
LEMMA UnlistedStays ==
    ASSUME NEW a, NEW m \in Candidates, a[m] = Unlisted
    PROVE  /\ Populated(a)[m] = Unlisted
           /\ \A c, p, v : Scored(a, c, p, v)[m] = Unlisted
  BY DEF Populated, Scored, Unlisted

\* Every step keeps the candidates not pushed unknown.
LEMMA FreshStep == TypeOK /\ FreshInv /\ [Next]_vars => FreshInv'
  <1>. SUFFICES ASSUME TypeOK, FreshInv, [Next]_vars, NEW m \in Candidates, m \notin pushed'
                PROVE  matches'[m] = Unlisted /\ \A p \in Procs : snap'[p][m] = Unlisted
    BY DEF FreshInv
  <1>. USE DEF TypeOK
  <1>t. Checks \subseteq Procs /\ Verifies \subseteq Procs /\ Edits \subseteq Procs
    BY DEF Procs
  <1>f. m \notin pushed
    BY DEF Next, Push, SendCheck, Begin, StartCheck, RejectCheck, Finish, Answered, Record, GiveUp,
           RecordNothing, CallFails, SendFails, VerifyRead, VerifyWrite, VerifyNothing, Create,
           FindPending,
           InsertRequest, LeavePending, EditLoad, EditSave, Update, RemoveProduct, ApiCrash, vars
  <1>i. /\ matches[m] = Unlisted /\ (\A p \in Procs : snap[p][m] = Unlisted)
        /\ NoArray[m] = Unlisted /\ Populated(matches)[m] = Unlisted
    BY <1>f, UnlistedStays DEF FreshInv, NoArray
  <1>1. matches'[m] = Unlisted
    <2>1. ASSUME NEW found, Push(found) PROVE matches'[m] = Unlisted
      BY <2>1, <1>i DEF Push
    <2>2. ASSUME NEW k \in Checks, NEW v, Record(k, v) PROVE matches'[m] = Unlisted
      <3>1. snap[k][m] = Unlisted
        BY <1>i, <1>t
      <3>2. Scored(snap[k], about[k], k, v)[m] = Unlisted
        BY <3>1, UnlistedStays
      <3>. QED BY <2>2, <3>2 DEF Record
    <2>3. ASSUME NEW v \in Verifies, VerifyWrite(v) PROVE matches'[m] = Unlisted
      <3>1. snap[v][m] = Unlisted
        BY <1>i, <1>t
      <3>2. Verified(snap[v], about[v], v)[m] = Unlisted
        BY <3>1 DEF Verified, Unlisted
      <3>. QED BY <2>3, <3>2 DEF VerifyWrite
    <2>4. ASSUME NEW e \in Edits, EditSave(e) PROVE matches'[m] = Unlisted
      BY <2>4, <1>i, <1>t DEF EditSave, Update
    <2>5. CASE UNCHANGED matches
      BY <2>5, <1>i
    <2>. QED
      BY <2>1, <2>2, <2>3, <2>4, <2>5
         DEF Next, SendCheck, Begin, StartCheck, RejectCheck, Finish, Answered, GiveUp,
             RecordNothing, CallFails, SendFails, VerifyRead, VerifyNothing, Create, FindPending,
             InsertRequest, LeavePending, EditLoad, RemoveProduct, ApiCrash, vars
  <1>2. ASSUME NEW p \in Procs PROVE snap'[p][m] = Unlisted
    <2>1. ASSUME NEW q \in Procs, NEW next, Goto(q, next) \/ Read(q, next)
          PROVE  snap'[p][m] = Unlisted
      BY <2>1, <1>i DEF Goto, Read
    <2>2. CASE UNCHANGED snap
      BY <2>2, <1>i
    <2>3. ASSUME NEW e \in Edits, EditLoad(e) PROVE snap'[p][m] = Unlisted
      BY <2>3, <1>i, <1>t DEF EditLoad
    <2>4. CASE ApiCrash
      BY <2>4, <1>i DEF ApiCrash
    <2>5. ASSUME NEW k \in Checks, Begin(k) \/ Finish(k) \/ CallFails(k) \/ SendFails(k)
          PROVE  snap'[p][m] = Unlisted
      BY <2>5, <2>1, <1>t
         DEF Begin, StartCheck, RejectCheck, Finish, Answered, Record, GiveUp, RecordNothing,
             CallFails, SendFails
    <2>6. CASE \/ \E v \in Verifies, c \in Candidates : VerifyRead(v, c)
               \/ \E v \in Verifies : VerifyWrite(v) \/ VerifyNothing(v)
               \/ \E q \in Checks \cup Verifies : Create(q)
               \/ \E e \in Edits : EditSave(e)
      BY <2>6, <2>1, <1>t
         DEF VerifyRead, VerifyWrite, VerifyNothing, Create, FindPending, InsertRequest, EditSave, Update
    <2>. QED
      BY <2>2, <2>3, <2>4, <2>5, <2>6
         DEF Next, Push, SendCheck, LeavePending, RemoveProduct, handling, vars
  <1>. QED BY <1>1, <1>2

\* What EntriesKept says of one step and one match.
Kept(m) ==
    \/ m \in Listed(matches) \ Listed(matches')
    \/ ~(DOMAIN matches[m].scores \subseteq DOMAIN matches'[m].scores)
    => \E p \in Procs :
           /\ pc[p] \in {"asking", "verifying", "editing"}
           /\ pc'[p] # pc[p]
           /\ \/ m \notin Listed(snap[p])
              \/ snap[p][m].scores # matches[m].scores
              \/ p \in Verifies /\ about[p] = m

\* A process that writes an array with at least the entries and the scores of
\* what it read.
LEMMA WriteKeeps ==
    ASSUME TypeOK, NEW m \in Candidates, NEW p \in Procs,
           pc[p] \in {"asking", "verifying", "editing"}, pc'[p] # pc[p],
           m \in Listed(snap[p]) => m \in Listed(matches'),
           \/ DOMAIN snap[p][m].scores \subseteq DOMAIN matches'[m].scores
           \/ p \in Verifies /\ about[p] = m
    PROVE  Kept(m)
  BY DEF Kept

\* Every step keeps every entry and every score, up to stale writes.
LEMMA KeptStep ==
    ASSUME TypeOK, FreshInv, [Next]_vars, NEW m \in Candidates
    PROVE  Kept(m)
  <1>. USE DEF TypeOK
  <1>t. Checks \subseteq Procs /\ Verifies \subseteq Procs /\ Edits \subseteq Procs
    BY DEF Procs
  <1>1. CASE UNCHANGED matches
    BY <1>1 DEF Kept, Listed
  <1>2. ASSUME NEW found \in SUBSET (Candidates \ pushed), Push(found) PROVE Kept(m)
    <2>1. CASE m \in found
      <3>1. matches[m] = Unlisted
        BY <2>1 DEF FreshInv
      <3>. QED BY <3>1 DEF Kept, Listed, Unlisted, NoScores
    <2>2. CASE m \notin found
      <3>1. matches'[m] = matches[m]
        BY <1>2, <2>2 DEF Push
      <3>. QED BY <3>1 DEF Kept, Listed
    <2>. QED BY <2>1, <2>2
  <1>3. ASSUME NEW k \in Checks, NEW v, Record(k, v) PROVE Kept(m)
    <2>1. pc[k] = "asking" /\ pc'[k] # pc[k]
      BY <1>3, <1>t DEF Record, Goto
    <2>2. matches'[m].kind = snap[k][m].kind
      BY <1>3, <1>t DEF Record, Scored, IsArray, IsEntry
    <2>3. DOMAIN snap[k][m].scores \subseteq DOMAIN matches'[m].scores
      BY <1>3, <1>t DEF Record, Scored, WithScore, IsArray, IsEntry
    <2>. QED BY <2>1, <2>2, <2>3, <1>t, WriteKeeps DEF Listed
  <1>4. ASSUME NEW v \in Verifies, VerifyWrite(v) PROVE Kept(m)
    <2>1. pc[v] = "verifying" /\ pc'[v] # pc[v]
      BY <1>4, <1>t DEF VerifyWrite, Goto
    <2>2. matches'[m].kind = snap[v][m].kind
      BY <1>4, <1>t DEF VerifyWrite, Verified, IsArray, IsEntry
    <2>3. about[v] = m \/ matches'[m] = snap[v][m]
      BY <1>4 DEF VerifyWrite, Verified
    <2>. QED BY <2>1, <2>2, <2>3, <1>t, WriteKeeps DEF Listed
  <1>5. ASSUME NEW e \in Edits, EditSave(e) PROVE Kept(m)
    <2>1. pc[e] = "editing" /\ pc'[e] # pc[e] /\ matches' = snap[e]
      BY <1>5, <1>t DEF EditSave, Update, Goto
    <2>. QED BY <2>1, <1>t, WriteKeeps DEF Listed
  <1>. QED
    BY <1>1, <1>2, <1>3, <1>4, <1>5
       DEF Next, SendCheck, Begin, StartCheck, RejectCheck, Finish, Answered, GiveUp,
           RecordNothing, CallFails, SendFails, VerifyRead, VerifyNothing, Create, FindPending,
           InsertRequest, LeavePending, EditLoad, RemoveProduct, ApiCrash, vars

\* An entry or a score leaves the array only by a write of what was read before
\* it was there, or by a verification of the match.
THEOREM EntriesKeptCorrect == Spec => EntriesKept
  <1>1. Spec => []FreshInv
    BY FreshInit, FreshStep, TypeCorrect, PTL DEF Spec
  <1>2. TypeOK /\ FreshInv /\ [Next]_vars => [\A m \in Candidates : Kept(m)]_vars
    BY KeptStep
  <1>3. [][\A m \in Candidates : Kept(m)]_vars => EntriesKept
    BY PTL DEF EntriesKept, Kept
  <1>. QED BY <1>1, <1>2, <1>3, TypeCorrect, PTL DEF Spec

-----------------------------------------------------------------------------
(* What one writer at a time would lose.                                   *)

\* A process has read the array and is to write it.
Holding(p) == pc[p] \in {"asking", "verifying", "editing"}

Alone == \A p, q \in Procs : Holding(p) /\ Holding(q) => p = q

\* The scores a process has read are those of the document.
HeldInv ==
    \A p \in Procs : Holding(p) =>
        \A m \in Candidates : snap[p][m].scores = matches[m].scores

\* Who holds an array has just read it, or held it before.
LEMMA HoldStep ==
    ASSUME TypeOK, [Next]_vars, NEW p \in Procs, Holding(p)'
    PROVE  \/ Holding(p) /\ snap'[p] = snap[p]
           \/ matches' = matches /\ snap'[p] \in {matches, Populated(matches)}
  <1>. USE DEF TypeOK, Holding
  <1>t. Checks \subseteq Procs /\ Verifies \subseteq Procs /\ Edits \subseteq Procs
    BY DEF Procs
  <1>1. CASE UNCHANGED <<pc, snap>>
    BY <1>1
  <1>2. ASSUME NEW q \in Procs, NEW next \in {"creating", "inserting", "ended"}, Goto(q, next)
        PROVE  Holding(p) /\ snap'[p] = snap[p]
    BY <1>2 DEF Goto
  <1>3. ASSUME NEW k \in Checks, NEW m, SendCheck(k, m) PROVE Holding(p) /\ snap'[p] = snap[p]
    BY <1>3, <1>t DEF SendCheck
  <1>4. ASSUME NEW q \in Procs, NEW next, Read(q, next), matches' = matches
        PROVE  \/ Holding(p) /\ snap'[p] = snap[p]
               \/ matches' = matches /\ snap'[p] = matches
    BY <1>4 DEF Read
  <1>5. ASSUME NEW e \in Edits, EditLoad(e)
        PROVE  \/ Holding(p) /\ snap'[p] = snap[p]
               \/ matches' = matches /\ snap'[p] = Populated(matches)
    BY <1>5, <1>t DEF EditLoad
  <1>6. CASE ApiCrash
    BY <1>6 DEF ApiCrash, InApi
  <1>7. ASSUME NEW k \in Checks, Begin(k) \/ Finish(k) \/ CallFails(k) \/ SendFails(k)
        PROVE  \/ Holding(p) /\ snap'[p] = snap[p]
               \/ matches' = matches /\ snap'[p] = matches
    BY <1>7, <1>2, <1>4, <1>t
       DEF Begin, StartCheck, RejectCheck, Finish, Answered, Record, GiveUp, RecordNothing,
           CallFails, SendFails
  <1>8. CASE \/ \E v \in Verifies, c \in Candidates : VerifyRead(v, c)
             \/ \E v \in Verifies : VerifyWrite(v) \/ VerifyNothing(v)
             \/ \E q \in Checks \cup Verifies : Create(q)
             \/ \E e \in Edits : EditSave(e)
    BY <1>8, <1>2, <1>4, <1>t
       DEF VerifyRead, VerifyWrite, VerifyNothing, Create, FindPending, InsertRequest, EditSave
  <1>. QED
    BY <1>1, <1>3, <1>5, <1>6, <1>7, <1>8
       DEF Next, Push, LeavePending, RemoveProduct, handling, vars

\* The scores of a match change only when a process writes what it held, and lets
\* go of it; none is lost of those it held, unless it verified the match.
LEMMA WriteStep ==
    ASSUME TypeOK, FreshInv, [Next]_vars, NEW m \in Candidates
    PROVE  \/ matches'[m].scores = matches[m].scores
           \/ \E p \in Procs :
                  /\ Holding(p) /\ ~Holding(p)'
                  /\ \/ DOMAIN snap[p][m].scores \subseteq DOMAIN matches'[m].scores
                     \/ p \in Verifies /\ about[p] = m /\ VerifyWrite(p)
  <1>. USE DEF TypeOK
  <1>t. Checks \subseteq Procs /\ Verifies \subseteq Procs /\ Edits \subseteq Procs
    BY DEF Procs
  <1>1. CASE UNCHANGED matches
    BY <1>1
  <1>2. ASSUME NEW found \in SUBSET (Candidates \ pushed), Push(found)
        PROVE  matches'[m].scores = matches[m].scores
    <2>1. CASE m \in found
      BY <1>2, <2>1 DEF Push, FreshInv, Unlisted
    <2>2. CASE m \notin found
      BY <1>2, <2>2 DEF Push
    <2>. QED BY <2>1, <2>2
  <1>3. ASSUME NEW k \in Checks, NEW v, Record(k, v)
        PROVE  /\ Holding(k) /\ ~Holding(k)'
               /\ DOMAIN snap[k][m].scores \subseteq DOMAIN matches'[m].scores
    <2>1. Holding(k) /\ ~Holding(k)'
      BY <1>3, <1>t DEF Record, Goto, Holding
    <2>2. DOMAIN snap[k][m].scores \subseteq DOMAIN matches'[m].scores
      BY <1>3, <1>t DEF Record, Scored, WithScore, IsArray, IsEntry
    <2>. QED BY <2>1, <2>2
  <1>4. ASSUME NEW v \in Verifies, VerifyWrite(v)
        PROVE  /\ Holding(v) /\ ~Holding(v)'
               /\ about[v] = m \/ matches'[m] = snap[v][m]
    <2>1. Holding(v) /\ ~Holding(v)'
      BY <1>4, <1>t DEF VerifyWrite, Goto, Holding
    <2>2. about[v] = m \/ matches'[m] = snap[v][m]
      BY <1>4 DEF VerifyWrite, Verified
    <2>. QED BY <2>1, <2>2
  <1>5. ASSUME NEW e \in Edits, EditSave(e)
        PROVE  /\ Holding(e) /\ ~Holding(e)'
               /\ matches' = snap[e]
    BY <1>5, <1>t DEF EditSave, Update, Goto, Holding
  <1>. QED
    BY <1>1, <1>2, <1>3, <1>4, <1>5, <1>t
       DEF Next, SendCheck, Begin, StartCheck, RejectCheck, Finish, Answered, GiveUp,
           RecordNothing, CallFails, SendFails, VerifyRead, VerifyNothing, Create, FindPending,
           InsertRequest, LeavePending, EditLoad, RemoveProduct, ApiCrash, vars

\* While no two processes hold an array, the one that does holds the last scores.
LEMMA HeldStep == TypeOK /\ FreshInv /\ Alone /\ HeldInv /\ [Next]_vars => HeldInv'
  <1>. SUFFICES ASSUME TypeOK, FreshInv, Alone, HeldInv, [Next]_vars,
                       NEW p \in Procs, Holding(p)', NEW m \in Candidates
                PROVE  snap'[p][m].scores = matches'[m].scores
    BY DEF HeldInv
  <1>1. CASE matches' = matches /\ snap'[p] \in {matches, Populated(matches)}
    <2>1. Populated(matches)[m].scores = matches[m].scores
      BY DEF TypeOK, IsArray, IsEntry, Populated
    <2>. QED BY <1>1, <2>1
  <1>2. CASE Holding(p) /\ snap'[p] = snap[p]
    <2>1. \A q \in Procs : Holding(q) => q = p
      BY <1>2 DEF Alone
    <2>2. matches'[m].scores = matches[m].scores
      BY <2>1, WriteStep
    <2>. QED BY <1>2, <2>2 DEF HeldInv
  <1>. QED BY <1>1, <1>2, HoldStep

\* If no two of the checks, verifications and edit pages held the array at once, the
\* score of a match would be lost to nothing but its verification, whatever the
\* scrapper pushes meanwhile: checkProductMatches loses scores only by overlapping.
THEOREM OneAtATimeKeepsScores ==
    Spec /\ []Alone =>
        [][\A m \in Candidates :
              \/ DOMAIN matches[m].scores \subseteq DOMAIN matches'[m].scores
              \/ \E v \in Verifies : about[v] = m /\ VerifyWrite(v)]_vars
  <1>1. Init => HeldInv
    BY DEF Init, HeldInv, Holding
  <1>2. TypeOK /\ FreshInv /\ HeldInv /\ [Next]_vars =>
            [\A m \in Candidates :
                \/ DOMAIN matches[m].scores \subseteq DOMAIN matches'[m].scores
                \/ \E v \in Verifies : about[v] = m /\ VerifyWrite(v)]_vars
    BY WriteStep DEF HeldInv
  <1>. QED BY <1>1, <1>2, HeldStep, FreshInit, FreshStep, TypeCorrect, PTL DEF Spec

-----------------------------------------------------------------------------
(* Reviews only of what was found to match.                                *)

\* The scores of an array are answers, each of a check or a verification of
\* the match it is listed with.
Genuine(a) ==
    \A m \in Candidates : \A q \in DOMAIN a[m].scores :
        /\ q \in Checks \cup Verifies
        /\ about[q] = m
        /\ answer[q] = a[m].scores[q]

\* A process records one answer, about the candidate it was given; arrays hold
\* such answers only; and a request was made, or will be, for a reason.
GenuineInv ==
    /\ \A p \in Procs : pc[p] \in {"new", "queued", "asking", "verifying"} => answer[p] = None
    /\ \A p \in Procs : pc[p] = "new" => about[p] = None
    /\ Genuine(matches)
    /\ \A p \in Procs : Genuine(snap[p])
    /\ \A m \in Candidates : made[m] > 0 => Justified(m)
    /\ \A p \in Checks \cup Verifies :
           pc[p] \in {"creating", "inserting"} => Justified(about[p])

\* Initially there are no scores.
LEMMA GenuineInit == Init => GenuineInv
  BY NothingAbove DEF Init, GenuineInv, Genuine, NoScores, Procs

\* Answers, and what they are about, stay.
LEMMA AnswersStay ==
    ASSUME TypeOK, GenuineInv, [Next]_vars, NEW q \in Procs
    PROVE  /\ answer[q] # None => answer'[q] = answer[q] /\ about'[q] = about[q]
           /\ about[q] # None => about'[q] = about[q]
  <1>. USE DEF TypeOK, GenuineInv
  <1>t. Checks \subseteq Procs /\ Verifies \subseteq Procs /\ Edits \subseteq Procs
    BY DEF Procs
  <1>. DEFINE Goal == /\ answer[q] # None => answer'[q] = answer[q] /\ about'[q] = about[q]
                      /\ about[q] # None => about'[q] = about[q]
  <1>1. CASE UNCHANGED <<about, answer>>
    BY <1>1
  <1>2. ASSUME NEW k \in Checks, NEW m \in Candidates, SendCheck(k, m) PROVE Goal
    BY <1>2, <1>t DEF SendCheck
  <1>3. ASSUME NEW k \in Checks, NEW v, Record(k, v) PROVE Goal
    BY <1>3, <1>t DEF Record
  <1>4. ASSUME NEW v \in Verifies, NEW m \in Candidates, VerifyRead(v, m) PROVE Goal
    BY <1>4, <1>t DEF VerifyRead
  <1>5. ASSUME NEW v \in Verifies, VerifyWrite(v) PROVE Goal
    BY <1>5, <1>t DEF VerifyWrite
  <1>. QED
    BY <1>1, <1>2, <1>3, <1>4, <1>5
       DEF Next, Push, Begin, StartCheck, RejectCheck, Finish, Answered, GiveUp, RecordNothing,
           CallFails, SendFails, VerifyNothing, Create, FindPending, InsertRequest, LeavePending,
           EditLoad,
           EditSave, Update, RemoveProduct, ApiCrash, handling, vars

\* What is justified stays justified.
LEMMA JustifiedStays ==
    ASSUME TypeOK, GenuineInv, [Next]_vars, NEW m \in Candidates, Justified(m)
    PROVE  Justified(m)'
  <1>t. /\ Checks \subseteq Procs /\ Verifies \subseteq Procs /\ m # None
    BY ConstantsAssumption DEF Procs
  <1>1. CASE \E v \in Verifies : about[v] = m
    <2>1. PICK v \in Verifies : about[v] = m
      BY <1>1
    <2>2. about'[v] = m
      BY <2>1, <1>t, AnswersStay
    <2>. QED BY <2>2 DEF Justified
  <1>2. CASE \E S \in SUBSET {k \in Checks : about[k] = m /\ answer[k] # None} :
                Above([k \in S |-> answer[k]])
    <2>1. PICK S \in SUBSET {k \in Checks : about[k] = m /\ answer[k] # None} :
              Above([k \in S |-> answer[k]])
      BY <1>2
    <2>2. \A k \in S : k \in Checks /\ about'[k] = m /\ answer'[k] = answer[k] /\ answer'[k] # None
      BY <2>1, <1>t, AnswersStay
    <2>3. [k \in S |-> answer'[k]] = [k \in S |-> answer[k]]
      BY <2>2
    <2>4. S \in SUBSET {k \in Checks : about'[k] = m /\ answer'[k] # None}
      BY <2>2
    <2>. QED BY <2>1, <2>3, <2>4 DEF Justified
  <1>. QED BY <1>1, <1>2 DEF Justified

\* An array of genuine answers stays one.
LEMMA GenuineStays ==
    ASSUME TypeOK, GenuineInv, [Next]_vars, NEW a, IsArray(a), Genuine(a),
           NEW m \in Candidates, NEW q \in DOMAIN a[m].scores
    PROVE  q \in Checks \cup Verifies /\ about'[q] = m /\ answer'[q] = a[m].scores[q]
  <1>1. /\ q \in Checks \cup Verifies /\ about[q] = m /\ answer[q] = a[m].scores[q]
        /\ answer[q] \in Scores
    BY DEF Genuine, IsArray, IsEntry
  <1>2. answer[q] # None
    BY <1>1, ConstantsAssumption DEF Scores
  <1>. QED BY <1>1, <1>2, AnswersStay DEF Procs

\* Justified(m), for the abouts and the answers of any state.
Backed(ab, an, m) ==
    \/ \E v \in Verifies : ab[v] = m
    \/ \E S \in SUBSET {k \in Checks : ab[k] = m /\ an[k] # None} :
           Above([k \in S |-> an[k]])

\* A match whose scores are genuine and above the threshold is justified.
LEMMA AboveJustified ==
    ASSUME NEW ab, NEW an, NEW m \in Candidates, NEW e, IsEntry(e), Above(e.scores),
           \A q \in DOMAIN e.scores :
               q \in Checks \cup Verifies /\ ab[q] = m /\ an[q] = e.scores[q]
    PROVE  Backed(ab, an, m)
  <1>. USE DEF Backed
  <1>1. CASE ~\E q \in DOMAIN e.scores : q \in Verifies
    <2>. DEFINE S == DOMAIN e.scores
    <2>1. \A q \in S : an[q] \in Scores /\ an[q] # None
      BY ConstantsAssumption DEF IsEntry, Scores
    <2>2. S \in SUBSET {k \in Checks : ab[k] = m /\ an[k] # None}
      BY <1>1, <2>1
    <2>3. [k \in S |-> an[k]] = e.scores
      BY DEF IsEntry
    <2>. QED BY <2>2, <2>3
  <1>. QED BY <1>1

\* Every array is one of genuine answers after a step.
LEMMA GenuineArrays ==
    ASSUME TypeOK, GenuineInv, [Next]_vars, NEW m \in Candidates
    PROVE  /\ \A q \in DOMAIN matches'[m].scores :
                  /\ q \in Checks \cup Verifies
                  /\ about'[q] = m
                  /\ answer'[q] = matches'[m].scores[q]
           /\ \A p \in Procs : \A q \in DOMAIN snap'[p][m].scores :
                  /\ q \in Checks \cup Verifies
                  /\ about'[q] = m
                  /\ answer'[q] = snap'[p][m].scores[q]
  <1>. USE DEF TypeOK
  <1>t. Checks \subseteq Procs /\ Verifies \subseteq Procs /\ Edits \subseteq Procs
    BY DEF Procs
  <1>. DEFINE Good(f) == \A q \in DOMAIN f :
                             /\ q \in Checks \cup Verifies
                             /\ about'[q] = m
                             /\ answer'[q] = f[q]
  <1>n. Good(NoScores)
    BY DEF NoScores
  <1>m. Good(matches[m].scores)
    BY GenuineStays DEF GenuineInv
  <1>s. \A p \in Procs : Good(snap[p][m].scores)
    BY GenuineStays DEF GenuineInv
  <1>1. Good(matches'[m].scores)
    <2>1. CASE UNCHANGED matches
      BY <2>1, <1>m
    <2>2. ASSUME NEW found, Push(found) PROVE Good(matches'[m].scores)
      <3>1. matches'[m].scores \in {NoScores, matches[m].scores}
        BY <2>2 DEF Push
      <3>. QED BY <3>1, <1>n, <1>m
    <2>3. ASSUME NEW k \in Checks, NEW v, Record(k, v) PROVE Good(matches'[m].scores)
      <3>1. CASE about[k] = m /\ snap[k][m].kind = "ref"
        <4>1. matches'[m].scores = WithScore(snap[k][m].scores, k, v)
          BY <2>3, <3>1, <1>t DEF Record, Scored, IsArray, IsEntry
        <4>2. answer'[k] = v /\ about'[k] = m
          BY <2>3, <3>1, <1>t DEF Record
        <4>3. Good(snap[k][m].scores)
          BY <1>s, <1>t
        <4>. QED BY <4>1, <4>2, <4>3 DEF WithScore
      <3>2. CASE ~(about[k] = m /\ snap[k][m].kind = "ref")
        <4>1. matches'[m] = snap[k][m]
          BY <2>3, <3>2 DEF Record, Scored
        <4>. QED BY <4>1, <1>s, <1>t
      <3>. QED BY <3>1, <3>2
    <2>4. ASSUME NEW v \in Verifies, VerifyWrite(v) PROVE Good(matches'[m].scores)
      <3>1. CASE about[v] = m /\ snap[v][m].kind = "ref"
        <4>1. matches'[m].scores = WithScore(NoScores, v, 100)
          BY <2>4, <3>1, <1>t DEF VerifyWrite, Verified, IsArray, IsEntry
        <4>2. answer'[v] = 100 /\ about'[v] = m
          BY <2>4, <3>1, <1>t DEF VerifyWrite
        <4>. QED BY <4>1, <4>2 DEF WithScore, NoScores
      <3>2. CASE ~(about[v] = m /\ snap[v][m].kind = "ref")
        <4>1. matches'[m] = snap[v][m]
          BY <2>4, <3>2 DEF VerifyWrite, Verified
        <4>. QED BY <4>1, <1>s, <1>t
      <3>. QED BY <3>1, <3>2
    <2>5. ASSUME NEW e \in Edits, EditSave(e) PROVE Good(matches'[m].scores)
      <3>1. matches'[m].scores = snap[e][m].scores
        BY <2>5 DEF EditSave, Update
      <3>. QED BY <3>1, <1>s, <1>t
    <2>. QED
      BY <2>1, <2>2, <2>3, <2>4, <2>5
         DEF Next, SendCheck, Begin, StartCheck, RejectCheck, Finish, Answered, GiveUp,
             RecordNothing, CallFails, SendFails, VerifyRead, VerifyNothing, Create, FindPending,
             InsertRequest, LeavePending, EditLoad, RemoveProduct, ApiCrash, vars
  <1>2. ASSUME NEW p \in Procs PROVE Good(snap'[p][m].scores)
    <2>1. snap'[p][m].scores \in {NoScores, snap[p][m].scores, matches[m].scores}
      BY SnapStep
    <2>. QED BY <2>1, <1>n, <1>m, <1>s
  <1>. QED BY <1>1, <1>2

\* A process that is on its way to a request after a step was on it before,
\* or has just verified the match, or wrote scores above the threshold for it.
LEMMA CreatingJustified ==
    ASSUME TypeOK, GenuineInv, [Next]_vars, NEW p \in Checks \cup Verifies,
           pc'[p] \in {"creating", "inserting"}
    PROVE  Justified(about[p])'
  <1>. USE DEF TypeOK
  <1>t. Checks \subseteq Procs /\ Verifies \subseteq Procs /\ Edits \subseteq Procs
        /\ (\A e \in Edits : e \notin Checks \cup Verifies)
    BY ConstantsAssumption DEF Procs
  <1>1. CASE pc[p] \in {"creating", "inserting"}
    <2>1. about[p] \in Candidates
      BY <1>1
    <2>2. about'[p] = about[p]
      BY <2>1, <1>t, ConstantsAssumption, AnswersStay
    <2>3. Justified(about[p])
      BY <1>1 DEF GenuineInv
    <2>4. \A m \in Candidates : Justified(m) => Justified(m)'
      BY JustifiedStays
    <2>. QED BY <2>1, <2>2, <2>3, <2>4 DEF Justified
  <1>2. ASSUME pc[p] \notin {"creating", "inserting"}, NEW k \in Checks, NEW v \in Scores, Record(k, v)
        PROVE  Justified(about[p])'
    <2>1. p = k /\ about' = about /\ Deserves(k, matches') /\ about[k] \in Candidates
      BY <1>2, <1>t DEF Record, Goto
    <2>. DEFINE m == about[k]
    <2>2. IsEntry(matches'[m]) /\ Above(matches'[m].scores)
      <3>1. IsArray(matches')
        BY TypeStep
      <3>. QED BY <2>1, <3>1 DEF IsArray, Deserves
    <2>3. \A q \in DOMAIN matches'[m].scores :
              /\ q \in Checks \cup Verifies
              /\ about'[q] = m
              /\ answer'[q] = matches'[m].scores[q]
      BY <2>1, GenuineArrays
    <2>4. Backed(about', answer', m)
      <3>1. PICK ab, an, e : ab = about' /\ an = answer' /\ e = matches'[m]
        OBVIOUS
      <3>2. /\ m \in Candidates /\ IsEntry(e) /\ Above(e.scores)
            /\ \A q \in DOMAIN e.scores :
                   q \in Checks \cup Verifies /\ ab[q] = m /\ an[q] = e.scores[q]
        BY <2>1, <2>2, <2>3, <3>1
      <3>. HIDE DEF m
      <3>3. Backed(ab, an, m)
        BY <3>2, AboveJustified
      <3>. QED BY <3>1, <3>3
    <2>. QED BY <2>1, <2>4 DEF Justified, Backed
  <1>3. ASSUME NEW v \in Verifies, VerifyWrite(v), p = v PROVE Justified(about[p])'
    BY <1>3 DEF VerifyWrite, Justified
  <1>4. ASSUME pc[p] \notin {"creating", "inserting"},
               ~\E k \in Checks, v \in Scores : Record(k, v),
               ~(p \in Verifies /\ VerifyWrite(p))
        PROVE  FALSE
    <2>1. ASSUME NEW q \in Procs, NEW next \in Pcs \ {"creating", "inserting"},
                 Goto(q, next) \/ Read(q, next)
          PROVE  FALSE
      BY <2>1, <1>4, <1>t DEF Goto, Read
    <2>2. CASE UNCHANGED pc
      BY <2>2, <1>4
    <2>3. ASSUME NEW k \in Checks, NEW m, SendCheck(k, m) PROVE FALSE
      BY <2>3, <1>4, <1>t DEF SendCheck
    <2>4. ASSUME NEW k \in Checks,
                 Begin(k) \/ GiveUp(k) \/ RecordNothing(k) \/ CallFails(k) \/ SendFails(k)
          PROVE  FALSE
      BY <2>4, <2>1, <1>t
         DEF Begin, StartCheck, RejectCheck, GiveUp, RecordNothing, CallFails, SendFails, Pcs
    <2>5. ASSUME NEW v \in Verifies, NEW m, VerifyRead(v, m) \/ VerifyNothing(v) PROVE FALSE
      BY <2>5, <2>1, <1>t DEF VerifyRead, VerifyNothing, Pcs
    <2>6. ASSUME NEW v \in Verifies, VerifyWrite(v) PROVE FALSE
      BY <2>6, <1>4, <1>t DEF VerifyWrite, Goto
    <2>7. ASSUME NEW q \in Checks \cup Verifies, Create(q) PROVE FALSE
      BY <2>7, <1>4, <1>t DEF Create, FindPending, InsertRequest, Goto
    <2>8. ASSUME NEW e \in Edits, EditLoad(e) \/ EditSave(e) PROVE FALSE
      BY <2>8, <1>4, <1>t DEF EditLoad, EditSave, Update, Goto
    <2>9. CASE ApiCrash
      BY <2>9, <1>4, <1>t DEF ApiCrash, InApi
    <2>10. \A k \in Checks : ~Answered(k)
      BY <1>4, ProbabilityType DEF Answered
    <2>11. CASE \/ \E k \in Checks, m \in Candidates : SendCheck(k, m)
                \/ \E k \in Checks : Begin(k) \/ Finish(k) \/ CallFails(k) \/ SendFails(k)
      BY <2>11, <2>3, <2>4, <2>10 DEF Finish
    <2>12. CASE \/ \E v \in Verifies, m \in Candidates : VerifyRead(v, m)
                \/ \E v \in Verifies : VerifyWrite(v) \/ VerifyNothing(v)
      BY <2>12, <2>5, <2>6
    <2>. QED
      BY <2>2, <2>7, <2>8, <2>9, <2>11, <2>12
         DEF Next, Push, LeavePending, RemoveProduct, handling, vars
  <1>. QED BY <1>1, <1>2, <1>3, <1>4

\* Every step keeps the answers genuine and the requests justified.
LEMMA GenuineStep == TypeOK /\ GenuineInv /\ [Next]_vars => GenuineInv'
  <1>. SUFFICES ASSUME TypeOK, GenuineInv, [Next]_vars PROVE GenuineInv'
    OBVIOUS
  <1>. USE DEF TypeOK
  <1>t. /\ \A p \in Checks : p \in Procs /\ p \notin Verifies /\ p \notin Edits
        /\ \A p \in Verifies : p \in Procs /\ p \notin Checks /\ p \notin Edits
        /\ \A p \in Edits : p \in Procs /\ p \notin Checks /\ p \notin Verifies
    BY ConstantsAssumption DEF Procs
  <1>1. ASSUME NEW p \in Procs
        PROVE  /\ pc'[p] \in {"new", "queued", "asking", "verifying"} => answer'[p] = None
               /\ pc'[p] = "new" => about'[p] = None
    <2>. USE DEF GenuineInv
    <2>1. CASE UNCHANGED <<pc, about, answer>>
      BY <2>1
    <2>2. ASSUME NEW k \in Checks, NEW m, SendCheck(k, m)
          PROVE  /\ pc'[p] \in {"new", "queued", "asking", "verifying"} => answer'[p] = None
                 /\ pc'[p] = "new" => about'[p] = None
      BY <2>2, <1>t DEF SendCheck
    <2>3. ASSUME NEW k \in Checks, Begin(k) \/ Finish(k) \/ CallFails(k) \/ SendFails(k)
          PROVE  /\ pc'[p] \in {"new", "queued", "asking", "verifying"} => answer'[p] = None
                 /\ pc'[p] = "new" => about'[p] = None
      BY <2>3, <1>t
         DEF Begin, StartCheck, RejectCheck, Finish, Answered, Record, GiveUp, RecordNothing,
             CallFails, SendFails, Goto, Read
    <2>4. ASSUME NEW v \in Verifies, NEW m, VerifyRead(v, m) \/ VerifyWrite(v) \/ VerifyNothing(v)
          PROVE  /\ pc'[p] \in {"new", "queued", "asking", "verifying"} => answer'[p] = None
                 /\ pc'[p] = "new" => about'[p] = None
      BY <2>4, <1>t DEF VerifyRead, VerifyWrite, VerifyNothing, Goto, Read
    <2>5. ASSUME NEW q \in Checks \cup Verifies, Create(q)
          PROVE  /\ pc'[p] \in {"new", "queued", "asking", "verifying"} => answer'[p] = None
                 /\ pc'[p] = "new" => about'[p] = None
      BY <2>5, <1>t DEF Create, FindPending, InsertRequest, Goto
    <2>6. ASSUME NEW e \in Edits, EditLoad(e) \/ EditSave(e)
          PROVE  /\ pc'[p] \in {"new", "queued", "asking", "verifying"} => answer'[p] = None
                 /\ pc'[p] = "new" => about'[p] = None
      BY <2>6, <1>t DEF EditLoad, EditSave, Update, Goto
    <2>7. CASE ApiCrash
      BY <2>7, <1>t DEF ApiCrash
    <2>8. CASE \/ \E k \in Checks, m \in Candidates : SendCheck(k, m)
               \/ \E v \in Verifies, m \in Candidates : VerifyRead(v, m)
               \/ \E v \in Verifies : VerifyWrite(v) \/ VerifyNothing(v)
      BY <2>8, <2>2, <2>4
    <2>. QED
      BY <2>1, <2>3, <2>5, <2>6, <2>7, <2>8
         DEF Next, Push, LeavePending, RemoveProduct, handling, vars
  <1>2. Genuine(matches)' /\ \A p \in Procs : Genuine(snap[p])'
    BY GenuineArrays DEF Genuine
  <1>3. ASSUME NEW m \in Candidates, made'[m] > 0 PROVE Justified(m)'
    <2>1. CASE made[m] > 0
      BY <2>1, JustifiedStays DEF GenuineInv
    <2>2. CASE ~(made[m] > 0)
      <3>1. PICK p \in Checks \cup Verifies : InsertRequest(p) /\ about[p] = m
        BY <1>3, <2>2
           DEF Next, Push, SendCheck, Begin, StartCheck, RejectCheck, Finish, Answered, Record,
               GiveUp, RecordNothing, CallFails, SendFails, VerifyRead, VerifyWrite, VerifyNothing,
               Create,
               FindPending, InsertRequest, LeavePending, EditLoad, EditSave, Update, RemoveProduct,
               ApiCrash, reviews, vars
      <3>2. Justified(m)
        BY <3>1 DEF InsertRequest, GenuineInv
      <3>. QED BY <3>2, JustifiedStays
    <2>. QED BY <2>1, <2>2
  <1>4. ASSUME NEW p \in Checks \cup Verifies, pc'[p] \in {"creating", "inserting"}
        PROVE  Justified(about[p])'
    BY <1>4, CreatingJustified
  <1>. QED BY <1>1, <1>2, <1>3, <1>4 DEF GenuineInv

\* Reviews are requested only for a candidate that was verified, or that answers
\* about it put above the threshold.
THEOREM RequestedJustifiedCorrect == Spec => []RequestedJustified
  <1>1. Spec => []GenuineInv
    BY GenuineInit, GenuineStep, TypeCorrect, PTL DEF Spec
  <1>2. GenuineInv => RequestedJustified
    BY DEF GenuineInv, RequestedJustified
  <1>. QED BY <1>1, <1>2, PTL
=============================================================================
