------------------------ MODULE PipelineStatusProofs ------------------------
(* Theorems about module PipelineStatus, for any searches, matches and      *)
(* handlers, and any length of the queue.                                   *)
EXTENDS PipelineStatus, TLAPS

LEMMA FlagsType == ASSUME NEW p, NEW b PROVE Flags(p, b) \in Pipeline
  <1>. DEFINE some == p.listed # {}
              matched == some /\ p.listed \subseteq p.scored
              built == some /\ p.facts
  <1>1. (~b) \in BOOLEAN /\ matched \in BOOLEAN /\ built \in BOOLEAN
    OBVIOUS
  <1>. HIDE DEF matched, built
  <1>2. Flags(p, b) = [findInMarketplaces |-> ~b, matching |-> matched,
                       buildFacts |-> built, done |-> FALSE]
    BY DEF Flags, matched, built
  <1>. QED BY <1>1, <1>2 DEF Pipeline

LEMMA TypeInit == Init => TypeOK
  <1>1. NoFlags \in Pipeline /\ Nothing \in Product /\ Empty \in Array
    BY DEF NoFlags, Pipeline, Nothing, Product, Empty, Array
  <1>2. Init => facts \in BOOLEAN /\ generated \in BOOLEAN /\ stale \in BOOLEAN
    BY DEF Init
  <1>3. Init => queue \in Seq(Searches \cup {UpdatePipeline})
    BY DEF Init
  <1>. QED BY <1>1, <1>2, <1>3 DEF Init, TypeOK

LEMMA TypeStep == TypeOK /\ [Next]_vars => TypeOK'
  <1>. SUFFICES ASSUME TypeOK, [Next]_vars PROVE TypeOK'
    OBVIOUS
  <1>n. NoFlags \in Pipeline /\ Nothing \in Product /\ Empty \in Array
    BY DEF NoFlags, Pipeline, Nothing, Product, Empty, Array
  <1>. USE DEF TypeOK, handler, documents, writer
  <1>c. Call => calls' \in Nat
    BY DEF Call
  <1>f. Failure => failures' \in Nat
    BY DEF Failure
  <1>s. ASSUME NEW e \in Searches \cup {UpdatePipeline}, Send(e)
        PROVE  queue' \in Seq(Searches \cup {UpdatePipeline})
    BY <1>s DEF Send
  <1>1. ASSUME NEW h \in Handlers, NEW s \in Searches, Find(h, s) PROVE TypeOK'
    BY <1>1, <1>n, <1>c DEF Find
  <1>2. ASSUME NEW s \in Searches, Cancel(s) \/ Remove(s) PROVE TypeOK'
    BY <1>2, <1>c DEF Cancel, Remove, WriteQuietly
  <1>3. ASSUME NEW s \in Searches, Look(s) \/ Insert(s) \/ Publish(s) PROVE TypeOK'
    BY <1>3 DEF Look, Insert, Publish, Silently
  <1>4. CASE BuildFacts
    BY <1>4, <1>c DEF BuildFacts, Silently
  <1>5. ASSUME NEW s \in Searches, Begin(s) \/ End(s) PROVE TypeOK'
    BY <1>5 DEF Begin, End, Update
  <1>6. ASSUME NEW s \in Searches, List(s) PROVE TypeOK'
    BY <1>6 DEF List
  <1>7. ASSUME NEW s \in Searches, Announce(s) PROVE TypeOK'
    BY <1>7, <1>s DEF Announce
  <1>8. ASSUME NEW s \in Searches, AnnounceFails(s) \/ ReplicaDies(s) PROVE TypeOK'
    BY <1>8, <1>f DEF AnnounceFails, ReplicaDies
  <1>9. ASSUME NEW c \in Writers, NEW what \in {"check", "verify", "edit"}, ReadMatches(c, what)
        PROVE  TypeOK'
    <2>1. [listed |-> listed, scored |-> scored] \in Array
      BY DEF Array
    <2>. QED BY <1>9, <1>c, <2>1 DEF ReadMatches
  <1>10. ASSUME NEW c \in Writers, GiveUp(c) PROVE TypeOK'
    BY <1>10, <1>n DEF GiveUp
  <1>11. ASSUME NEW c \in Writers, NEW ms \in SUBSET Matches, NEW next \in {"idle", "sending"},
                WriteMatches(c, ms, next), stale' \in BOOLEAN, calls' = calls
         PROVE  TypeOK'
    BY <1>11, <1>n DEF WriteMatches, Array
  <1>12. ASSUME NEW c \in Writers, NEW m \in Matches, Score(c, m) \/ Verify(c, m)
         PROVE  TypeOK'
    <2>1. {m} \in SUBSET Matches /\ stale' \in BOOLEAN /\ calls' = calls
      BY <1>12 DEF Score, Verify, Silently, WriteMatches
    <2>. QED BY <1>11, <1>12, <2>1 DEF Score, Verify
  <1>13. ASSUME NEW c \in Writers, Edit(c) PROVE TypeOK'
    <2>1. {} \in SUBSET Matches /\ stale' \in BOOLEAN /\ calls' = calls
      BY <1>13 DEF Edit, Silently, WriteMatches
    <2>. QED BY <1>11, <1>13, <2>1 DEF Edit
  <1>14. ASSUME NEW c \in Writers, SendPipeline(c) PROVE TypeOK'
    BY <1>14, <1>s DEF SendPipeline
  <1>15. ASSUME NEW c \in Writers, SendPipelineFails(c) PROVE TypeOK'
    BY <1>15, <1>f DEF SendPipelineFails
  <1>16. CASE AskFacts \/ ReadPipeline \/ NoFacts
    BY <1>16, <1>c DEF AskFacts, ReadPipeline, NoFacts
  <1>17. CASE WriteFacts
    <2>1. [copy EXCEPT !.buildFacts = TRUE] \in Pipeline
      BY <1>17 DEF WriteFacts, Pipeline
    <2>. QED BY <1>17, <2>1 DEF WriteFacts, WriteFlags
  <1>18. CASE GenerateReviews
    <2>1. [pipeline EXCEPT !.done = TRUE] \in Pipeline
      BY DEF Pipeline
    <2>. QED BY <1>18, <1>c, <2>1 DEF GenerateReviews
  <1>19. CASE Deliver
    <2>1. queue' \in Seq(Searches \cup {UpdatePipeline})
      BY <1>19 DEF Deliver
    <2>2. at' \in [Handlers -> {"idle", "product", "origin", "requests", "write"}]
      BY <1>19 DEF Deliver
    <2>. QED BY <1>19, <2>1, <2>2 DEF Deliver
  <1>20. ASSUME NEW h \in Handlers, ReadProduct(h) PROVE TypeOK'
    <2>1. Now \in Product
      BY DEF Now, Product
    <2>. QED BY <1>20, <2>1 DEF ReadProduct
  <1>21. ASSUME NEW h \in Handlers, ReadRequestsOrigin(h) PROVE TypeOK'
    BY <1>21 DEF ReadRequestsOrigin, Searching
  <1>22. ASSUME NEW h \in Handlers, ReadRequests(h) PROVE TypeOK'
    BY <1>22, <1>n, FlagsType DEF ReadRequests
  <1>23. ASSUME NEW h \in Handlers, Write(h) PROVE TypeOK'
    BY <1>23, <1>n DEF Write, WriteFlags
  <1>24. CASE Crash
    BY <1>24, <1>n, <1>f DEF Crash
  <1>25. CASE UNCHANGED vars
    BY <1>25 DEF vars
  <1>. QED
    BY <1>1, <1>2, <1>3, <1>4, <1>5, <1>6, <1>7, <1>8, <1>9, <1>10, <1>12, <1>13, <1>14,
       <1>15, <1>16, <1>17, <1>18, <1>19, <1>20, <1>21, <1>22, <1>23, <1>24, <1>25
       DEF Next, User, Create, Replica, Arrays, OpenAI, CheckPipeline

\* Every reachable state has the declared types.
THEOREM TypeCorrect == Spec => []TypeOK
  BY TypeInit, TypeStep, PTL DEF Spec

-----------------------------------------------------------------------------
(* done.                                                                    *)

DoneInv == DoneMeansGenerated /\ \A h \in Handlers : ~computed[h].done

LEMMA DoneStep == TypeOK /\ DoneInv /\ [Next]_vars => DoneInv'
  <1>. SUFFICES ASSUME TypeOK, DoneInv, [Next]_vars PROVE DoneInv'
    OBVIOUS
  <1>n. ~NoFlags.done
    BY DEF NoFlags
  <1>. USE DEF TypeOK, DoneInv, DoneMeansGenerated, handler, documents
  <1>1. ASSUME UNCHANGED <<pipeline, copy, computed, generated>> PROVE DoneInv'
    BY <1>1
  <1>2. ASSUME NEW h \in Handlers, NEW s \in Searches, Find(h, s) PROVE DoneInv'
    BY <1>2, <1>n DEF Find
  <1>3. CASE AskFacts \/ ReadPipeline \/ NoFacts
    BY <1>3, ConstantsAssumption DEF AskFacts, ReadPipeline, NoFacts
  <1>4. CASE WriteFacts
    BY <1>4, ConstantsAssumption DEF WriteFacts, WriteFlags, Pipeline
  <1>5. CASE GenerateReviews
    BY <1>5 DEF GenerateReviews
  <1>6. ASSUME NEW h \in Handlers, ReadRequests(h) PROVE DoneInv'
    BY <1>6 DEF ReadRequests, Flags
  <1>7. ASSUME NEW h \in Handlers, Write(h) PROVE DoneInv'
    BY <1>7, <1>n DEF Write, WriteFlags
  <1>8. CASE Crash
    BY <1>8, <1>n, ConstantsAssumption DEF Crash
  <1>9. ASSUME NEW s \in Searches, Cancel(s) \/ Remove(s) \/ Look(s) \/ Insert(s) \/ Publish(s)
        PROVE DoneInv'
    BY <1>1, <1>9 DEF Cancel, Remove, WriteQuietly, Look, Insert, Publish
  <1>10. ASSUME NEW s \in Searches,
                Begin(s) \/ End(s) \/ List(s) \/ Announce(s) \/ AnnounceFails(s) \/ ReplicaDies(s)
         PROVE DoneInv'
    BY <1>1, <1>10 DEF Begin, End, Update, List, Announce, AnnounceFails, ReplicaDies
  <1>11. ASSUME NEW c \in Writers, NEW m \in Matches, NEW what,
                \/ ReadMatches(c, what) \/ Score(c, m) \/ Verify(c, m)
         PROVE DoneInv'
    BY <1>1, <1>11 DEF ReadMatches, Score, Verify, WriteMatches
  <1>12. ASSUME NEW c \in Writers, GiveUp(c) \/ Edit(c) \/ SendPipeline(c) \/ SendPipelineFails(c)
         PROVE DoneInv'
    BY <1>1, <1>12 DEF GiveUp, Edit, WriteMatches, SendPipeline, SendPipelineFails
  <1>13. ASSUME NEW h \in Handlers, ReadProduct(h) \/ ReadRequestsOrigin(h) PROVE DoneInv'
    BY <1>1, <1>13 DEF ReadProduct, ReadRequestsOrigin
  <1>14. ASSUME NEW c \in Writers, NEW what, ReadMatches(c, what) PROVE DoneInv'
    BY <1>1, <1>14 DEF ReadMatches
  <1>15. CASE Deliver \/ BuildFacts \/ UNCHANGED vars
    BY <1>1, <1>15 DEF Deliver, BuildFacts, vars
  <1>. QED
    BY <1>2, <1>3, <1>4, <1>5, <1>6, <1>7, <1>8, <1>9, <1>10, <1>11, <1>12, <1>13, <1>14, <1>15
       DEF Next, User, Create, Replica, Arrays, OpenAI, CheckPipeline

\* done is never written without a generation, by whatever getFacts read before a reset.
THEOREM DoneMeansGeneratedCorrect == Spec => []DoneMeansGenerated
  <1>1. Init => DoneInv
    BY ConstantsAssumption DEF Init, DoneInv, DoneMeansGenerated, NoFlags
  <1>2. DoneInv => DoneMeansGenerated
    BY DEF DoneInv
  <1>. QED BY <1>1, <1>2, DoneStep, TypeCorrect, PTL DEF Spec

-----------------------------------------------------------------------------
(* The flags at rest.                                                       *)

\* An event that is sent will be checked, if it can be.
LEMMA Sent ==
    ASSUME TypeOK, NEW e \in Searches \cup {UpdatePipeline}, Send(e), Checks(e)'
    PROVE  ~AtRest'
  <1>1. Len(queue') = Len(queue) + 1 /\ queue'[Len(queue) + 1] = e /\ Len(queue) \in Nat
    BY DEF TypeOK, Send
  <1>. QED BY <1>1 DEF AtRest

FlagsAgree == AtRest /\ ~stale => Agree(pipeline, Current)

\* A silent change keeps the flags right, or is remembered.
LEMMA SilentStep ==
    ASSUME Silently, UNCHANGED pipeline, AtRest' => AtRest, FlagsAgree
    PROVE  FlagsAgree'
  BY DEF Silently, FlagsAgree, Agree

\* What changes neither the flags nor what they summarise.
LEMMA SameStep ==
    ASSUME UNCHANGED documents, ~stale' => ~stale, AtRest' => AtRest, FlagsAgree
    PROVE  FlagsAgree'
  BY DEF FlagsAgree, Agree, documents, Current, Flags, Now, Searching

LEMMA FlagsStep == TypeOK /\ FlagsAgree /\ [Next]_vars => FlagsAgree'
  <1>. SUFFICES ASSUME TypeOK, FlagsAgree, [Next]_vars PROVE FlagsAgree'
    OBVIOUS
  <1>r. ASSUME ~AtRest' PROVE FlagsAgree'
    BY <1>r DEF FlagsAgree
  <1>w. ASSUME NEW f, WriteFlags(f) PROVE FlagsAgree'
    BY <1>w DEF WriteFlags, FlagsAgree, Agree
  <1>x. ASSUME stale' PROVE FlagsAgree'
    BY <1>x DEF FlagsAgree
  <1>1. ASSUME NEW h \in Handlers, NEW s \in Searches, Find(h, s) PROVE FlagsAgree'
    <2>1. at'[h] = "write"
      BY <1>1 DEF Find, TypeOK
    <2>. QED BY <1>r, <2>1 DEF AtRest
  <1>2. ASSUME NEW s \in Searches, NEW new, WriteQuietly(s, new)
        PROVE FlagsAgree'
    <2>. SUFFICES ASSUME ~stale', AtRest' PROVE Agree(pipeline, Current)'
      BY DEF FlagsAgree
    <2>1. Agree(Current, Current') /\ ~stale /\ ~Queued(s)
      BY <1>2 DEF WriteQuietly, TypeOK
    <2>2. AtRest
      BY <1>2, <2>1 DEF WriteQuietly, handler, writer, AtRest, Checks, Queued, TypeOK
    <2>3. Agree(pipeline, Current)
      BY <2>1, <2>2 DEF FlagsAgree
    <2>. QED BY <1>2, <2>1, <2>3 DEF WriteQuietly, Agree
  <1>3. ASSUME NEW s \in Searches, Look(s) \/ Publish(s) PROVE FlagsAgree'
    <2>1. \A z \in Searches : stage'[z] \in {"begun", "running", "ended", "failed"} <=>
                              stage[z] \in {"begun", "running", "ended", "failed"}
      BY <1>3 DEF Look, Publish, TypeOK
    <2>2. UNCHANGED <<documents, queue, at, doing, stale>>
      BY <1>3 DEF Look, Publish, handler, writer
    <2>3. AtRest' => AtRest
      BY <2>1, <2>2 DEF AtRest, Checks, documents
    <2>. QED BY <2>2, <2>3, SameStep
  <1>4. ASSUME NEW s \in Searches, Insert(s) PROVE FlagsAgree'
    <2>1. \A z \in Searches : stage'[z] \in {"begun", "running", "ended", "failed"} <=>
                              stage[z] \in {"begun", "running", "ended", "failed"}
      BY <1>4 DEF Insert, TypeOK
    <2>2. UNCHANGED <<queue, at, doing, pipeline>> /\ Silently
      BY <1>4 DEF Insert, handler, writer
    <2>3. \A e : Checks(e) => Checks(e)'
      BY <1>4 DEF Checks, Insert, TypeOK
    <2>4. AtRest' => AtRest
      BY <2>1, <2>2, <2>3 DEF AtRest
    <2>. QED BY <2>2, <2>4, SilentStep
  <1>5. CASE BuildFacts
    <2>1. UNCHANGED <<queue, at, doing, stage, status, pipeline>> /\ Silently
      BY <1>5 DEF BuildFacts, handler, writer
    <2>2. AtRest' => AtRest
      BY <2>1 DEF AtRest, Checks
    <2>. QED BY <2>1, <2>2, SilentStep
  <1>6. ASSUME NEW s \in Searches, Begin(s) \/ End(s) \/ List(s) PROVE FlagsAgree'
    <2>1. stage'[s] \in {"begun", "running", "ended"}
      BY <1>6 DEF Begin, End, List, Update, TypeOK
    <2>. QED BY <1>r, <2>1 DEF AtRest
  <1>7. ASSUME NEW s \in Searches, Announce(s) PROVE FlagsAgree'
    <2>1. CASE status[s] = "absent"
      BY <1>x, <1>7, <2>1 DEF Announce
    <2>2. CASE status[s] # "absent"
      <3>1. Send(s) /\ Checks(s)'
        BY <1>7, <2>2 DEF Announce, Checks, documents
      <3>. QED BY <1>r, <3>1, Sent
    <2>. QED BY <2>1, <2>2
  <1>8. ASSUME NEW s \in Searches, AnnounceFails(s) \/ ReplicaDies(s) PROVE FlagsAgree'
    BY <1>x, <1>8 DEF AnnounceFails, ReplicaDies
  <1>9. ASSUME NEW c \in Writers, NEW what, what # "sending", ReadMatches(c, what) \/ GiveUp(c)
        PROVE  FlagsAgree'
    <2>1. \A z \in Writers : doing'[z] = "sending" <=> doing[z] = "sending"
      BY <1>9 DEF ReadMatches, GiveUp, TypeOK
    <2>2. UNCHANGED <<documents, queue, at, stage, stale>>
      BY <1>9 DEF ReadMatches, GiveUp, handler
    <2>3. AtRest' => AtRest
      BY <2>1, <2>2 DEF AtRest, Checks, documents
    <2>. QED BY <2>2, <2>3, SameStep
  <1>10. ASSUME NEW c \in Writers, NEW m \in Matches, Score(c, m) PROVE FlagsAgree'
    <2>1. doing'[c] = "sending"
      BY <1>10 DEF Score, WriteMatches, TypeOK
    <2>. QED BY <1>r, <2>1 DEF AtRest
  <1>11. ASSUME NEW c \in Writers, NEW ms, doing[c] # "sending", WriteMatches(c, ms, "idle"), Silently
         PROVE  FlagsAgree'
    <2>1. \A z \in Writers : doing'[z] = "sending" <=> doing[z] = "sending"
      BY <1>11 DEF WriteMatches, TypeOK
    <2>2. UNCHANGED <<queue, at, stage, status, pipeline>>
      BY <1>11 DEF WriteMatches, handler
    <2>3. AtRest' => AtRest
      BY <2>1, <2>2 DEF AtRest, Checks
    <2>. QED BY <1>11, <2>2, <2>3, SilentStep
  <1>12. ASSUME NEW c \in Writers, NEW m \in Matches, Verify(c, m) PROVE FlagsAgree'
    BY <1>11, <1>12 DEF Verify
  <1>13. ASSUME NEW c \in Writers, Edit(c) PROVE FlagsAgree'
    BY <1>11, <1>13 DEF Edit
  <1>14. ASSUME NEW c \in Writers, SendPipeline(c) PROVE FlagsAgree'
    <2>1. Send(UpdatePipeline) /\ Checks(UpdatePipeline)'
      BY <1>14 DEF SendPipeline, Checks
    <2>. QED BY <1>r, <2>1, Sent
  <1>15. ASSUME NEW c \in Writers, SendPipelineFails(c) PROVE FlagsAgree'
    BY <1>x, <1>15 DEF SendPipelineFails
  <1>16. CASE WriteFacts
    BY <1>16, <1>w DEF WriteFacts
  <1>17. CASE AskFacts \/ ReadPipeline \/ NoFacts \/ UNCHANGED vars
    <2>1. UNCHANGED <<documents, queue, at, stage, doing, stale>>
      BY <1>17 DEF AskFacts, ReadPipeline, NoFacts, vars, handler, writer
    <2>2. AtRest' => AtRest
      BY <2>1 DEF AtRest, Checks, documents
    <2>. QED BY <2>1, <2>2, SameStep
  <1>18. CASE GenerateReviews
    <2>1. AtRest' = AtRest /\ stale' = stale /\ Current' = Current
      BY <1>18 DEF GenerateReviews, handler, writer, AtRest, Checks, Current, Flags, Now, Searching
    <2>2. Agree(pipeline, Current) => Agree(pipeline', Current)
      BY <1>18 DEF GenerateReviews, TypeOK, Pipeline, Agree
    <2>. QED BY <2>1, <2>2 DEF FlagsAgree, Agree
  <1>19. CASE Deliver
    <2>1. CASE Checks(Head(queue))
      <3>1. PICK h \in Handlers : at' = [at EXCEPT ![h] = "product"]
        BY <1>19, <2>1 DEF Deliver
      <3>2. at'[h] # "idle"
        BY <3>1 DEF TypeOK
      <3>. QED BY <1>r, <3>2 DEF AtRest
    <2>2. CASE ~Checks(Head(queue))
      <3>1. UNCHANGED <<documents, at, stage, doing, stale>> /\ queue' = Tail(queue)
        BY <1>19, <2>2 DEF Deliver, writer
      <3>2. ASSUME \A i \in 1 .. Len(queue') : ~Checks(queue'[i])
            PROVE  \A i \in 1 .. Len(queue) : ~Checks(queue[i])
        <4>. SUFFICES ASSUME NEW i \in 1 .. Len(queue), i # 1 PROVE ~Checks(queue[i])
          BY <2>2, <1>19 DEF Deliver, TypeOK
        <4>1. queue'[i - 1] = queue[i] /\ i - 1 \in 1 .. Len(queue')
          BY <1>19 DEF Deliver, TypeOK
        <4>. QED BY <3>2, <4>1
      <3>3. \A e : Checks(e)' <=> Checks(e)
        BY <3>1 DEF Checks, documents
      <3>4. AtRest' => AtRest
        BY <3>1, <3>2, <3>3 DEF AtRest
      <3>. QED BY <3>1, <3>4, SameStep
    <2>. QED BY <2>1, <2>2
  <1>20. ASSUME NEW h \in Handlers, ReadProduct(h) \/ ReadRequestsOrigin(h) \/ ReadRequests(h)
        PROVE FlagsAgree'
    <2>1. at'[h] # "idle"
      BY <1>20 DEF ReadProduct, ReadRequestsOrigin, ReadRequests, TypeOK
    <2>. QED BY <1>r, <2>1 DEF AtRest
  <1>21. ASSUME NEW h \in Handlers, Write(h) PROVE FlagsAgree'
    BY <1>21, <1>w DEF Write
  <1>22. CASE Crash
    <2>1. CASE at' # at \/ \E c \in Writers : doing[c] = "sending"
      BY <1>x, <1>22, <2>1 DEF Crash
    <2>2. CASE at' = at /\ \A c \in Writers : doing[c] # "sending"
      <3>1. UNCHANGED <<documents, queue, at>> /\ (~stale' => ~stale)
        BY <1>22, <2>2 DEF Crash
      <3>2. \A z \in Searches : stage'[z] \in {"begun", "running", "ended", "failed"} <=>
                                stage[z] \in {"begun", "running", "ended", "failed"}
        BY <1>22 DEF Crash, TypeOK
      <3>3. AtRest' => AtRest
        BY <2>2, <3>1, <3>2 DEF AtRest, Checks, documents
      <3>. QED BY <3>1, <3>3, SameStep
    <2>. QED BY <2>1, <2>2
  <1>23. ASSUME NEW s \in Searches, Cancel(s) \/ Remove(s) PROVE FlagsAgree'
    BY <1>2, <1>23 DEF Cancel, Remove
  <1>. QED
    BY <1>1, <1>3, <1>4, <1>5, <1>6, <1>7, <1>8, <1>9, <1>10, <1>12, <1>13, <1>14, <1>15,
       <1>16, <1>17, <1>18, <1>19, <1>20, <1>21, <1>22, <1>23
       DEF Next, User, Create, Replica, Arrays, OpenAI, CheckPipeline

\* The list of products calls a search over when no request of it is PENDING or
\* IN_PROGRESS.
LEMMA ListAgrees == (ListStatus = "DONE") <=> ~Searching
  BY DEF ListStatus, Searching

\* Whoever wrote the flags last, at rest they are those of the documents, and the
\* list of products agrees with them, but for the named races and failures.
THEOREM FlagsSettleCorrect == Spec => []FlagsSettle
  <1>1. Init => FlagsAgree
    BY DEF Init, FlagsAgree
  <1>2. TypeOK /\ FlagsAgree => FlagsSettle
    <2>1. Current.findInMarketplaces = ~Searching
      BY DEF Current, Flags
    <2>2. TypeOK => pipeline.findInMarketplaces \in BOOLEAN
      BY DEF TypeOK, Pipeline
    <2>. QED BY <2>1, <2>2, ListAgrees DEF FlagsAgree, FlagsSettle, Agree
  <1>. QED BY <1>1, <1>2, FlagsStep, TypeCorrect, PTL DEF Spec
=============================================================================
