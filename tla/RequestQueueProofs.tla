------------------------- MODULE RequestQueueProofs -------------------------
(***************************************************************************)
(* Theorems about RequestQueue, for every set of requests, jobs, calls and *)
(* replicas and every bound on failures.                                   *)
(***************************************************************************)
EXTENDS RequestQueue, FiniteSetTheorems, TLAPS

-----------------------------------------------------------------------------
(* Types.                                                                  *)

\* A status write keeps the collection typed.
LEMMA SetStatusType ==
    ASSUME status \in [Requests -> DocStates], NEW r, NEW s \in Statuses \cup {"removed"},
           SetStatus(r, s)
    PROVE  status' \in [Requests -> DocStates]
  BY DEF SetStatus, Exists, Statuses, DocStates

\* A requeue keeps the broker's variables typed.
LEMMA TakeBackType ==
    ASSUME TypeOK, NEW w \in Workers, TakeBack(w)
    PROVE  /\ amazonQ' \subseteq Requests
           /\ delivered' \in [Workers -> SUBSET Requests]
           /\ connected' \in [Workers -> BOOLEAN]
           /\ requeued' \in [Requests -> Nat]
  BY DEF TypeOK, TakeBack, CountRequeue

\* The initial state is typed.
LEMMA TypeInit == Init => TypeOK
  BY ConstantsAssumption DEF Init, TypeOK, DocStates, CallPcs, WorkPcs

\* The API's actions keep every variable typed.
LEMMA TypeApi ==
    ASSUME TypeOK,
           \/ \E c \in Calls, j \in Jobs : CreateCheck(c, j)
           \/ \E c \in Calls : CreateProceeds(c)
           \/ \E r \in Requests : Cancel(r) \/ Remove(r) \/ HandleUpdate(r)
           \/ \E handling \in SUBSET apiQ : ApiCrash(handling)
    PROVE  TypeOK'
  <1>. USE ConstantsAssumption DEF TypeOK
  <1>1. ASSUME NEW c \in Calls, NEW j \in Jobs, CreateCheck(c, j) PROVE TypeOK'
    BY <1>1 DEF CreateCheck, CallPcs, docs, broker, work, events, budgets
  <1>2. ASSUME NEW c \in Calls, NEW r \in Requests, CreateInsert(c, r) PROVE TypeOK'
    BY <1>2 DEF CreateInsert, CallPcs, DocStates, Statuses, broker, work, events, budgets
  <1>3. ASSUME NEW c \in Calls, CreateSend(c) PROVE TypeOK'
    BY <1>3 DEF CreateSend, CallReturns, CallPcs, docs, work, events, budgets
  <1>4. ASSUME NEW c \in Calls, CreateSendFails(c) PROVE TypeOK'
    BY <1>4 DEF CreateSendFails, CallReturns, Fault, Abandon, CallPcs, docs, broker, work, events
  <1>5. ASSUME NEW r \in Requests, Cancel(r) PROVE TypeOK'
    BY <1>5, SetStatusType DEF Cancel, Statuses, calls, broker, work, events, budgets
  <1>6. ASSUME NEW r \in Requests, Remove(r) PROVE TypeOK'
    BY <1>6, SetStatusType DEF Remove, Statuses, calls, broker, work, events, budgets
  <1>7. ASSUME NEW r \in Requests, HandleUpdate(r) PROVE TypeOK'
    BY <1>7 DEF HandleUpdate, docs, calls, broker, work, budgets
  <1>8. ASSUME NEW handling \in SUBSET apiQ, ApiCrash(handling) PROVE TypeOK'
    BY <1>8 DEF ApiCrash, CallPcs, docs, broker, work
  <1>. QED BY <1>1, <1>2, <1>3, <1>4, <1>5, <1>6, <1>7, <1>8 DEF CreateProceeds

\* The steps of a callback keep every variable typed.
LEMMA TypeCallback ==
    ASSUME TypeOK, NEW w \in Workers, Callback(w)
    PROVE  TypeOK'
  <1>. USE ConstantsAssumption DEF TypeOK
  <1>1. ASSUME NEW r \in Requests, Take(w, r) PROVE TypeOK'
    BY <1>1 DEF Take, WorkPcs, docs, calls, broker, events, budgets
  <1>2. CASE Start(w)
    BY <1>2, SetStatusType DEF Start, Write, Goto, Statuses, WorkPcs, calls, broker, events, budgets
  <1>3. CASE StartFails(w)
    BY <1>3 DEF StartFails, Fault, Abandon, Goto, WorkPcs, calls, broker, events
  <1>4. CASE Complete(w)
    BY <1>4, SetStatusType
       DEF Complete, Write, Goto, Statuses, WorkPcs, calls, broker, events, budgets
  <1>5. CASE CompleteFails(w)
    BY <1>5 DEF CompleteFails, Fault, Goto, WorkPcs, calls, broker, events
  <1>6. CASE ScrapeFails(w)
    BY <1>6 DEF ScrapeFails, Goto, WorkPcs, calls, broker, events, budgets
  <1>7. CASE Error(w)
    BY <1>7, SetStatusType DEF Error, Write, Goto, Statuses, WorkPcs, calls, broker, events, budgets
  <1>8. CASE ErrorFails(w)
    BY <1>8 DEF ErrorFails, Fault, Abandon, Goto, WorkPcs, calls, broker, events
  <1>9. CASE Ack(w)
    BY <1>9 DEF Ack, WorkPcs, docs, calls, events, budgets
  <1>10. CASE AckFails(w)
    BY <1>10 DEF AckFails, Stop, WorkPcs, docs, calls, broker, events, budgets
  <1>11. CASE Announce(w)
    BY <1>11 DEF Announce, Announcing, Announced, Goto, WorkPcs, calls, broker, budgets
  <1>12. CASE AnnounceFails(w)
    BY <1>12 DEF AnnounceFails, Announcing, Unfinished, Fault, Goto, WorkPcs, calls, broker
  <1>. QED
    BY <1>1, <1>2, <1>3, <1>4, <1>5, <1>6, <1>7, <1>8, <1>9, <1>10, <1>11, <1>12 DEF Callback

\* Deliveries, requeues, crashes and restarts keep every variable typed.
LEMMA TypeBroker ==
    ASSUME TypeOK, NEW w \in Workers,
           (\E r \in Requests : Deliver(w, r)) \/ Drop(w) \/ Crash(w) \/ Restart(w)
    PROVE  TypeOK'
  <1>. USE ConstantsAssumption DEF TypeOK
  <1>1. ASSUME NEW r \in Requests, Deliver(w, r) PROVE TypeOK'
    BY <1>1 DEF Deliver, docs, calls, work, events, budgets
  <1>2. CASE Drop(w)
    BY <1>2, TakeBackType DEF Drop, docs, calls, work, events
  <1>3. CASE Crash(w)
    BY <1>3, TakeBackType DEF Crash, Stop, Announcing, WorkPcs, docs, calls
  <1>4. CASE Restart(w)
    BY <1>4 DEF Restart, WorkPcs, docs, calls, events, budgets
  <1>. QED BY <1>1, <1>2, <1>3, <1>4

\* Every step keeps the state typed.
LEMMA TypeStep == TypeOK /\ [Next]_vars => TypeOK'
  <1>. SUFFICES ASSUME TypeOK, [Next]_vars PROVE TypeOK'
    OBVIOUS
  <1>1. CASE UNCHANGED vars
    BY <1>1 DEF vars, TypeOK
  <1>2. CASE Next
    BY <1>2, TypeApi, TypeCallback, TypeBroker DEF Next
  <1>. QED BY <1>1, <1>2

\* Every variable keeps its type: a request's status is one of those the two
\* programs know, and a call about to publish or a callback always has a request.
THEOREM TypeCorrect == Spec => []TypeOK
  BY TypeInit, TypeStep, PTL DEF Spec

-----------------------------------------------------------------------------
(* Who holds a message.                                                    *)

\* The part of the inductive invariant about messages: a connected callback
\* still holds its message, a closed connection holds none, and a request is
\* published by one call, once, after it was inserted.
BrokerInv ==
    /\ OneHolder
    /\ \A w \in Workers : Executing(w) /\ connected[w] => workReq[w] \in delivered[w]
    /\ \A w \in Workers : ~connected[w] => delivered[w] = {} /\ workPc[w] # "idle"
    /\ \A w \in Workers : Executing(w) => runs[workReq[w]] > 0
    /\ \A r \in Requests : InBroker(r) \/ runs[r] > 0 => status[r] # "absent" /\ ~Publishing(r)
    /\ \A r \in Requests : Publishing(r) => status[r] # "absent"
    /\ \A c, d \in Calls :
           callPc[c] = "send" /\ callPc[d] = "send" /\ callReq[c] = callReq[d] => c = d

\* The initial state satisfies the broker's invariant.
LEMMA BrokerInit == Init => BrokerInv
  BY DEF Init, BrokerInv, OneHolder, Executing, InBroker, Publishing

\* A status write does not make a document absent.
LEMMA SetStatusAbsent ==
    ASSUME status \in [Requests -> DocStates], NEW r \in Requests,
           NEW s \in Statuses \cup {"removed"}, SetStatus(r, s)
    PROVE  \A q \in Requests : status'[q] = "absent" <=> status[q] = "absent"
  BY DEF SetStatus, Exists, Statuses, DocStates

\* The API's actions.
LEMMA BrokerApi ==
    ASSUME TypeOK, BrokerInv,
           \/ \E c \in Calls, j \in Jobs : CreateCheck(c, j)
           \/ \E c \in Calls : CreateProceeds(c)
           \/ \E r \in Requests : Cancel(r) \/ Remove(r) \/ HandleUpdate(r)
           \/ \E handling \in SUBSET apiQ : ApiCrash(handling)
    PROVE  BrokerInv'
  <1>. USE DEF TypeOK, BrokerInv, OneHolder, Executing, InBroker, Publishing
  <1>1. ASSUME NEW c \in Calls, NEW j \in Jobs, CreateCheck(c, j) PROVE BrokerInv'
    BY <1>1 DEF CreateCheck, docs, broker, work
  <1>2. ASSUME NEW c \in Calls, NEW r \in Requests, CreateInsert(c, r) PROVE BrokerInv'
    BY <1>2 DEF CreateInsert, broker, work
  <1>3. ASSUME NEW c \in Calls, CreateSend(c) PROVE BrokerInv'
    BY <1>3 DEF CreateSend, CallReturns, docs, work
  <1>4. ASSUME NEW c \in Calls, CreateSendFails(c) PROVE BrokerInv'
    BY <1>4 DEF CreateSendFails, CallReturns, docs, broker, work
  <1>5. ASSUME NEW r \in Requests, Cancel(r) PROVE BrokerInv'
    BY <1>5, SetStatusAbsent DEF Cancel, Statuses, calls, broker, work
  <1>6. ASSUME NEW r \in Requests, Remove(r) PROVE BrokerInv'
    BY <1>6, SetStatusAbsent DEF Remove, Statuses, calls, broker, work
  <1>7. ASSUME NEW r \in Requests, HandleUpdate(r) PROVE BrokerInv'
    BY <1>7 DEF HandleUpdate, docs, calls, broker, work
  <1>8. ASSUME NEW handling \in SUBSET apiQ, ApiCrash(handling) PROVE BrokerInv'
    BY <1>8 DEF ApiCrash, docs, broker, work
  <1>. QED BY <1>1, <1>2, <1>3, <1>4, <1>5, <1>6, <1>7, <1>8 DEF CreateProceeds

\* The steps of a callback between its delivery and its acknowledgement.
Inside(w) ==
    \/ Start(w) \/ StartFails(w)
    \/ Complete(w) \/ CompleteFails(w)
    \/ ScrapeFails(w)
    \/ Error(w) \/ ErrorFails(w)
    \/ Announce(w) \/ AnnounceFails(w)

\* They move the callback on and may write a status: nothing else here.
LEMMA InsideStep ==
    ASSUME NEW w \in Workers, Inside(w)
    PROVE  /\ Executing(w)
           /\ \E pc \in WorkPcs \ {"idle", "dead", "starting"} : Goto(w, pc)
           /\ (UNCHANGED status) \/ \E s \in Statuses \ {"PENDING"} : SetStatus(workReq[w], s)
  <1>. USE DEF Executing, WorkPcs, Statuses
  <1>1. CASE Start(w) \/ Complete(w) \/ Error(w)
    BY <1>1 DEF Start, Complete, Error, Write
  <1>2. CASE StartFails(w) \/ CompleteFails(w) \/ ScrapeFails(w) \/ ErrorFails(w)
    BY <1>2 DEF StartFails, CompleteFails, ScrapeFails, ErrorFails
  <1>3. CASE Announce(w) \/ AnnounceFails(w)
    BY <1>3 DEF Announce, AnnounceFails, Announcing, Announced
  <1>. QED BY <1>1, <1>2, <1>3 DEF Inside

\* A step inside a callback keeps the broker's invariant.
LEMMA BrokerInside ==
    ASSUME TypeOK, BrokerInv, NEW w \in Workers, Inside(w)
    PROVE  BrokerInv'
  <1>1. \A q \in Requests : status'[q] = "absent" <=> status[q] = "absent"
    BY InsideStep, SetStatusAbsent DEF TypeOK, Executing
  <1>2. PICK pc \in WorkPcs \ {"idle", "dead", "starting"} : Goto(w, pc)
    BY InsideStep
  <1>3. Executing(w)
    BY InsideStep
  <1>. QED
    BY <1>1, <1>2, <1>3 DEF TypeOK, BrokerInv, OneHolder, Executing, InBroker, Publishing,
                            Goto, WorkPcs, calls, broker

\* The steps of a callback.
LEMMA BrokerCallback ==
    ASSUME TypeOK, BrokerInv, NEW w \in Workers, Callback(w)
    PROVE  BrokerInv'
  <1>1. ASSUME NEW r \in Requests, Take(w, r) PROVE BrokerInv'
    BY <1>1 DEF Take, docs, calls, broker,
                TypeOK, BrokerInv, OneHolder, Executing, InBroker, Publishing
  <1>2. CASE Inside(w)
    BY <1>2, BrokerInside
  <1>3. CASE Ack(w)
    BY <1>3 DEF Ack, docs, calls, TypeOK, BrokerInv, OneHolder, Executing, InBroker, Publishing
  <1>4. CASE AckFails(w)
    BY <1>4 DEF AckFails, Stop, docs, calls, broker,
                TypeOK, BrokerInv, OneHolder, Executing, InBroker, Publishing
  <1>. QED BY <1>1, <1>2, <1>3, <1>4 DEF Callback, Inside

\* Deliveries, requeues, crashes and restarts.
LEMMA BrokerBroker ==
    ASSUME TypeOK, BrokerInv, NEW w \in Workers,
           (\E r \in Requests : Deliver(w, r)) \/ Drop(w) \/ Crash(w) \/ Restart(w)
    PROVE  BrokerInv'
  <1>. USE DEF TypeOK, BrokerInv, OneHolder, Executing, InBroker, Publishing
  <1>1. ASSUME NEW r \in Requests, Deliver(w, r) PROVE BrokerInv'
    BY <1>1 DEF Deliver, docs, calls, work
  <1>2. CASE Drop(w)
    BY <1>2 DEF Drop, TakeBack, docs, calls, work
  <1>3. CASE Crash(w)
    BY <1>3 DEF Crash, Stop, TakeBack, docs, calls
  <1>4. CASE Restart(w)
    BY <1>4 DEF Restart, docs, calls
  <1>. QED BY <1>1, <1>2, <1>3, <1>4

\* The broker's invariant holds in every reachable state.
THEOREM BrokerCorrect == Spec => []BrokerInv
  <1>1. TypeOK /\ BrokerInv /\ [Next]_vars => BrokerInv'
    <2>. SUFFICES ASSUME TypeOK, BrokerInv, [Next]_vars PROVE BrokerInv'
      OBVIOUS
    <2>1. CASE UNCHANGED vars
      BY <2>1 DEF vars, BrokerInv, OneHolder, Executing, InBroker, Publishing
    <2>2. CASE Next
      BY <2>2, BrokerApi, BrokerCallback, BrokerBroker DEF Next
    <2>. QED BY <2>1, <2>2
  <1>. QED BY BrokerInit, TypeCorrect, <1>1, PTL DEF Spec

\* The broker never holds the message of a request twice.
THEOREM OneHolderCorrect == Spec => []OneHolder
  <1>1. BrokerInv => OneHolder
    BY DEF BrokerInv
  <1>. QED BY <1>1, BrokerCorrect, PTL

\* Two replicas execute one request at once only when the broker has given up
\* the connection of one of them.
THEOREM SingleConnectedExecutorCorrect == Spec => []SingleConnectedExecutor
  <1>1. TypeOK /\ BrokerInv => SingleConnectedExecutor
    BY DEF TypeOK, BrokerInv, OneHolder, SingleConnectedExecutor, Executing
  <1>. QED BY <1>1, TypeCorrect, BrokerCorrect, PTL

-----------------------------------------------------------------------------
(* How often a request is executed.                                        *)

\* The message of r is somewhere a callback may still begin on it.
Waiting(r) ==
    \/ r \in amazonQ
    \/ \E w \in Workers : r \in delivered[w] /\ ~(Executing(w) /\ workReq[w] = r)

\* A waiting message has had one execution less than it may have.
RunsInv ==
    \A r \in Requests :
        /\ runs[r] <= 1 + requeued[r]
        /\ Waiting(r) => runs[r] <= requeued[r]

\* Steps by what they do to the broker and to the replicas.
LEMMA StepCases ==
    ASSUME [Next]_vars
    PROVE  \/ UNCHANGED <<broker, work, runs, requeued>>
           \/ \E c \in Calls : CreateSend(c)
           \/ \E w \in Workers :
                 \/ \E r \in Requests : Deliver(w, r) \/ Take(w, r)
                 \/ Inside(w)
                 \/ Ack(w) \/ AckFails(w) \/ Drop(w) \/ Crash(w) \/ Restart(w)
  <1>1. CASE UNCHANGED vars
    BY <1>1 DEF vars, broker, work
  <1>2. CASE Next
    <2>1. ASSUME NEW c \in Calls, NEW j \in Jobs, CreateCheck(c, j)
          PROVE UNCHANGED <<broker, work, runs, requeued>>
      BY <2>1 DEF CreateCheck
    <2>2. ASSUME NEW c \in Calls, CreateProceeds(c)
          PROVE CreateSend(c) \/ UNCHANGED <<broker, work, runs, requeued>>
      BY <2>2 DEF CreateProceeds, CreateInsert, CreateSendFails
    <2>3. ASSUME NEW r \in Requests, Cancel(r) \/ Remove(r) \/ HandleUpdate(r)
          PROVE UNCHANGED <<broker, work, runs, requeued>>
      BY <2>3 DEF Cancel, Remove, HandleUpdate
    <2>4. ASSUME NEW handling \in SUBSET apiQ, ApiCrash(handling)
          PROVE UNCHANGED <<broker, work, runs, requeued>>
      BY <2>4 DEF ApiCrash
    <2>. QED BY <1>2, <2>1, <2>2, <2>3, <2>4 DEF Next, Callback, Inside
  <1>. QED BY <1>1, <1>2

\* No request has been executed initially.
LEMMA RunsInit == Init => RunsInv
  BY DEF Init, RunsInv, Waiting

\* A step that begins an execution either is the first or follows a requeue.
LEMMA RunsStep == TypeOK /\ BrokerInv /\ RunsInv /\ [Next]_vars => RunsInv'
  <1>. SUFFICES ASSUME TypeOK, BrokerInv, RunsInv, [Next]_vars PROVE RunsInv'
    OBVIOUS
  <1>. USE DEF TypeOK, RunsInv, Waiting, Executing
  <1>1. ASSUME UNCHANGED <<broker, work, runs, requeued>> PROVE RunsInv'
    BY <1>1 DEF broker, work
  <1>2. ASSUME NEW c \in Calls, CreateSend(c) PROVE RunsInv'
    BY <1>2 DEF CreateSend, work, BrokerInv, InBroker, Publishing
  <1>3. ASSUME NEW w \in Workers, NEW r \in Requests, Deliver(w, r) PROVE RunsInv'
    BY <1>3 DEF Deliver, work
  <1>4. ASSUME NEW w \in Workers, NEW r \in Requests, Take(w, r) PROVE RunsInv'
    BY <1>4 DEF Take, broker, BrokerInv, OneHolder
  <1>5. ASSUME NEW w \in Workers, Inside(w) PROVE RunsInv'
    BY <1>5, InsideStep DEF Goto, broker, WorkPcs
  <1>6. ASSUME NEW w \in Workers, Ack(w) PROVE RunsInv'
    BY <1>6 DEF Ack, BrokerInv, OneHolder
  <1>7. ASSUME NEW w \in Workers, AckFails(w) PROVE RunsInv'
    BY <1>7 DEF AckFails, Stop, broker, BrokerInv
  <1>8. ASSUME NEW w \in Workers, Drop(w) PROVE RunsInv'
    BY <1>8 DEF Drop, TakeBack, CountRequeue, work
  <1>9. ASSUME NEW w \in Workers, Crash(w) PROVE RunsInv'
    BY <1>9 DEF Crash, Stop, TakeBack, CountRequeue
  <1>10. ASSUME NEW w \in Workers, Restart(w) PROVE RunsInv'
    BY <1>10 DEF Restart, BrokerInv
  <1>. QED
    BY StepCases, <1>1, <1>2, <1>3, <1>4, <1>5, <1>6, <1>7, <1>8, <1>9, <1>10

\* The executions counted stay within the requeues counted.
THEOREM RunsCorrect == Spec => []RunsInv
  BY RunsInit, RunsStep, TypeCorrect, BrokerCorrect, PTL DEF Spec

\* A request is executed once, and once more for every time its message was
\* taken back from a begun execution.
THEOREM RedeliveryBoundCorrect == Spec => []RedeliveryBound
  <1>1. RunsInv => RedeliveryBound
    BY DEF RunsInv, RedeliveryBound
  <1>. QED BY <1>1, RunsCorrect, PTL

-----------------------------------------------------------------------------
(* Final statuses.                                                         *)

\* A callback that has no more status to write, but where a publication fails.
Over(w) == workPc[w] \in {"completed", "failed", "acking"}

\* A closed connection means a requeue; a final status means an execution; and
\* a callback that may still write over a final status is a second execution,
\* or one that met a failure.
FinishInv ==
    /\ \A w \in Workers : Executing(w) /\ ~connected[w] => requeued[workReq[w]] > 0
    /\ \A r \in Requests : FinalStatus(r) => runs[r] > 0
    /\ \A w \in Workers : Executing(w) /\ ~Over(w) /\ FinalStatus(workReq[w])
           => requeued[workReq[w]] > 0 \/ faults > 0

\* No request is finished initially.
LEMMA FinishInit == Init => FinishInv
  BY DEF Init, FinishInv, FinalStatus, Executing

\* Two callbacks on one request mean a requeue.
LEMMA TwoExecutors ==
    ASSUME TypeOK, BrokerInv, FinishInv, NEW v \in Workers, NEW w \in Workers, v # w,
           Executing(v), Executing(w), workReq[v] = workReq[w]
    PROVE  requeued[workReq[w]] > 0
  BY DEF TypeOK, BrokerInv, OneHolder, FinishInv, Executing

\* The status writes of the API never make a status final.
LEMMA ApiStatus ==
    ASSUME TypeOK, [Next]_vars
    PROVE  \/ \E w \in Workers : Inside(w)
           \/ \A r \in Requests :
                 \/ status'[r] = status[r]
                 \/ status'[r] \in {"CANCELED", "removed"}
                 \/ status[r] = "absent" /\ status'[r] = "PENDING"
  <1>. USE DEF TypeOK, docs
  <1>1. CASE UNCHANGED vars
    BY <1>1 DEF vars
  <1>2. CASE Next
    <2>1. ASSUME NEW c \in Calls, NEW j \in Jobs, CreateCheck(c, j) PROVE UNCHANGED status
      BY <2>1 DEF CreateCheck
    <2>2. ASSUME NEW c \in Calls, CreateSend(c) \/ CreateSendFails(c) PROVE UNCHANGED status
      BY <2>2 DEF CreateSend, CreateSendFails
    <2>3. ASSUME NEW c \in Calls, NEW r \in Requests, CreateInsert(c, r)
          PROVE \A q \in Requests :
                    \/ status'[q] = status[q]
                    \/ status[q] = "absent" /\ status'[q] = "PENDING"
      BY <2>3 DEF CreateInsert
    <2>4. ASSUME NEW r \in Requests, Cancel(r) \/ Remove(r)
          PROVE \A q \in Requests : status'[q] = status[q] \/ status'[q] \in {"CANCELED", "removed"}
      BY <2>4 DEF Cancel, Remove, SetStatus
    <2>5. ASSUME NEW r \in Requests, HandleUpdate(r) PROVE UNCHANGED status
      BY <2>5 DEF HandleUpdate
    <2>6. ASSUME NEW handling \in SUBSET apiQ, ApiCrash(handling) PROVE UNCHANGED status
      BY <2>6 DEF ApiCrash
    <2>7. ASSUME NEW w \in Workers, NEW r \in Requests, Deliver(w, r) \/ Take(w, r)
          PROVE UNCHANGED status
      BY <2>7 DEF Deliver, Take
    <2>8. ASSUME NEW w \in Workers, Ack(w) \/ AckFails(w) \/ Drop(w) \/ Crash(w) \/ Restart(w)
          PROVE UNCHANGED status
      BY <2>8 DEF Ack, AckFails, Drop, Crash, Restart
    <2>. QED
      BY <1>2, <2>1, <2>2, <2>3, <2>4, <2>5, <2>6, <2>7, <2>8
         DEF Next, Callback, Inside, CreateProceeds
  <1>. QED BY <1>1, <1>2

\* The failures counted never decrease.
LEMMA FaultsGrow ==
    ASSUME TypeOK, [Next]_vars
    PROVE  faults' >= faults /\ faults \in Nat /\ faults' \in Nat
  <1>0. faults \in Nat /\ faults' \in Nat
    BY TypeStep DEF TypeOK
  <1>. USE <1>0
  <1>1. CASE UNCHANGED vars
    BY <1>1 DEF vars
  <1>2. CASE Next
    <2>1. ASSUME NEW c \in Calls, NEW j \in Jobs, CreateCheck(c, j) PROVE UNCHANGED faults
      BY <2>1 DEF CreateCheck, budgets
    <2>2. ASSUME NEW c \in Calls, CreateProceeds(c) PROVE faults' >= faults
      BY <2>2 DEF CreateProceeds, CreateInsert, CreateSend, CreateSendFails, Fault, budgets
    <2>3. ASSUME NEW r \in Requests, Cancel(r) \/ Remove(r) \/ HandleUpdate(r) PROVE UNCHANGED faults
      BY <2>3 DEF Cancel, Remove, HandleUpdate, budgets
    <2>4. ASSUME NEW handling \in SUBSET apiQ, ApiCrash(handling) PROVE UNCHANGED faults
      BY <2>4 DEF ApiCrash
    <2>5. ASSUME NEW w \in Workers, Inside(w) PROVE faults' >= faults
      BY <2>5 DEF Inside, Start, StartFails, Complete, CompleteFails, ScrapeFails, Error, Write,
                  ErrorFails, Announce, AnnounceFails, Fault, budgets
    <2>6. ASSUME NEW w \in Workers, NEW r \in Requests, Deliver(w, r) \/ Take(w, r)
          PROVE UNCHANGED faults
      BY <2>6 DEF Deliver, Take, budgets
    <2>7. ASSUME NEW w \in Workers, Ack(w) \/ AckFails(w) \/ Drop(w) \/ Crash(w) \/ Restart(w)
          PROVE UNCHANGED faults
      BY <2>7 DEF Ack, AckFails, Drop, Crash, Restart, budgets
    <2>. QED
      BY <1>2, <2>1, <2>2, <2>3, <2>4, <2>5, <2>6, <2>7 DEF Next, Callback, Inside
  <1>. QED BY <1>1, <1>2

\* A step outside every callback makes no status final.
LEMMA NotInside ==
    ASSUME TypeOK, [Next]_vars, \A w \in Workers : ~Inside(w)
    PROVE  \A r \in Requests :
             status'[r] \in {"COMPLETED", "ERROR"} => status[r] \in {"COMPLETED", "ERROR"}
  BY ApiStatus

\* A step inside a callback keeps the invariant behind FinishedStays.
LEMMA FinishInside ==
    ASSUME TypeOK, BrokerInv, FinishInv, [Next]_vars, NEW w \in Workers, Inside(w)
    PROVE  FinishInv'
  <1>. DEFINE r == workReq[w]
  <1>. USE DEF TypeOK
  <1>0. faults' >= faults /\ faults \in Nat /\ faults' \in Nat
    BY FaultsGrow
  <1>1. Executing(w) /\ r \in Requests /\ runs[r] > 0
    BY InsideStep DEF BrokerInv, Executing
  <1>2. PICK pc \in WorkPcs \ {"idle", "dead", "starting"} : Goto(w, pc)
    BY InsideStep
  <1>3. \A q \in Requests : q # r => status'[q] = status[q]
    BY InsideStep DEF SetStatus
  <1>4. \A v \in Workers : workPc'[v] \notin {"idle", "dead"} <=> Executing(v)
    BY <1>1, <1>2 DEF Goto, Executing, WorkPcs
  <1>5. UNCHANGED <<connected, requeued, runs, workReq>>
    BY <1>2 DEF Goto, broker
  <1>6. \A v \in Workers : v # w /\ Executing(v) /\ workReq[v] = r => requeued[r] > 0
    BY <1>1, TwoExecutors
  <1>7. workPc'[w] \notin {"completed", "failed", "acking"} /\ status'[r] \in {"COMPLETED", "ERROR"}
          => requeued[r] > 0 \/ faults' > 0
    <2>1. CASE Start(w)
      BY <2>1 DEF Start, Write, SetStatus, Exists, Statuses
    <2>2. CASE StartFails(w) \/ CompleteFails(w) \/ ErrorFails(w) \/ AnnounceFails(w)
      BY <1>0, <2>2 DEF StartFails, CompleteFails, ErrorFails, AnnounceFails, Fault
    <2>3. CASE ScrapeFails(w)
      BY <1>0, <1>1, <2>3 DEF ScrapeFails, FinishInv, FinalStatus, Over
    <2>4. CASE Complete(w) \/ Error(w)
      BY <2>4 DEF Complete, Error, Write, Goto
    <2>5. CASE Announce(w)
      BY <1>0, <1>1, <2>5 DEF Announce, Announcing, Announced, Goto, FinishInv, FinalStatus, Over
    <2>. QED BY <2>1, <2>2, <2>3, <2>4, <2>5 DEF Inside
  <1>8. \A v \in Workers : v # w => workPc'[v] = workPc[v]
    BY <1>2 DEF Goto
  <1>9. \A v \in Workers : workPc'[v] \notin {"idle", "dead"} /\ ~connected'[v]
          => requeued'[workReq'[v]] > 0
    BY <1>4, <1>5 DEF FinishInv
  <1>10. \A q \in Requests : status'[q] \in {"COMPLETED", "ERROR"} => runs'[q] > 0
    BY <1>1, <1>3, <1>5 DEF FinishInv, FinalStatus
  <1>11. ASSUME NEW v \in Workers, workPc'[v] \notin {"idle", "dead", "completed", "failed", "acking"},
                status'[workReq[v]] \in {"COMPLETED", "ERROR"}
         PROVE  requeued[workReq[v]] > 0 \/ faults' > 0
    <2>1. CASE v = w
      BY <1>7, <1>11, <2>1
    <2>2. CASE v # w /\ workReq[v] = r
      BY <1>4, <1>6, <1>11, <2>2
    <2>3. CASE v # w /\ workReq[v] # r
      BY <1>0, <1>3, <1>4, <1>8, <1>11, <2>3 DEF FinishInv, FinalStatus, Executing, Over
    <2>. QED BY <2>1, <2>2, <2>3
  <1>. QED
    BY <1>5, <1>9, <1>10, <1>11 DEF FinishInv, FinalStatus, Executing, Over

\* Every step keeps the invariant behind FinishedStays.
LEMMA FinishStep == TypeOK /\ BrokerInv /\ RunsInv /\ FinishInv /\ [Next]_vars => FinishInv'
  <1>. SUFFICES ASSUME TypeOK, BrokerInv, RunsInv, FinishInv, [Next]_vars PROVE FinishInv'
    OBVIOUS
  <1>1. faults' >= faults /\ faults \in Nat /\ faults' \in Nat
    BY FaultsGrow
  <1>2. ASSUME NEW w \in Workers, Inside(w) PROVE FinishInv'
    BY <1>2, FinishInside
  <1>3. SUFFICES ASSUME \A w \in Workers : ~Inside(w) PROVE FinishInv'
    BY <1>2
  <1>4. \A r \in Requests :
          status'[r] \in {"COMPLETED", "ERROR"} => status[r] \in {"COMPLETED", "ERROR"}
    BY <1>3, NotInside
  <1>. USE <1>1, <1>4 DEF TypeOK, FinishInv, Executing, FinalStatus, Over
  <1>5. CASE UNCHANGED <<broker, work, runs, requeued>>
    BY <1>5 DEF broker, work
  <1>6. ASSUME NEW c \in Calls, CreateSend(c) PROVE FinishInv'
    BY <1>6 DEF CreateSend, work
  <1>7. ASSUME NEW w \in Workers, NEW r \in Requests, Deliver(w, r) PROVE FinishInv'
    BY <1>7 DEF Deliver, work
  <1>8. ASSUME NEW w \in Workers, NEW r \in Requests, Take(w, r) PROVE FinishInv'
    <2>1. Waiting(r) /\ connected[w]
      BY <1>8 DEF Take, Waiting, BrokerInv
    <2>2. FinalStatus(r) => requeued[r] > 0
      BY <2>1 DEF RunsInv
    <2>. QED BY <1>8, <2>1, <2>2 DEF Take, broker
  <1>9. ASSUME NEW w \in Workers, Ack(w) PROVE FinishInv'
    BY <1>9 DEF Ack
  <1>10. ASSUME NEW w \in Workers, AckFails(w) PROVE FinishInv'
    BY <1>10 DEF AckFails, Stop, broker
  <1>11. ASSUME NEW w \in Workers, Drop(w) PROVE FinishInv'
    BY <1>11 DEF Drop, TakeBack, CountRequeue, work, BrokerInv
  <1>12. ASSUME NEW w \in Workers, Crash(w) PROVE FinishInv'
    BY <1>12 DEF Crash, Stop, TakeBack, CountRequeue
  <1>13. ASSUME NEW w \in Workers, Restart(w) PROVE FinishInv'
    BY <1>13 DEF Restart
  <1>. QED
    BY StepCases, <1>3, <1>5, <1>6, <1>7, <1>8, <1>9, <1>10, <1>11, <1>12, <1>13

\* The invariant behind FinishedStays holds in every reachable state.
THEOREM FinishCorrect == Spec => []FinishInv
  BY FinishInit, FinishStep, TypeCorrect, BrokerCorrect, RunsCorrect, PTL DEF Spec

\* A final status is written over by a replica only in the execution of a
\* redelivered message, or where a publication or a write has failed.
THEOREM FinishedStaysCorrect == Spec => FinishedStays
  <1>1. TypeOK /\ FinishInv /\ [Next]_vars =>
          [\A r \in Requests :
              FinalStatus(r) /\ status'[r] # status[r]
                  /\ status'[r] \notin {"CANCELED", "removed"}
                  => requeued[r] > 0 \/ faults > 0]_vars
    <2>. SUFFICES ASSUME TypeOK, FinishInv, [Next]_vars, NEW r \in Requests, FinalStatus(r),
                         status'[r] # status[r], status'[r] \notin {"CANCELED", "removed"}
                  PROVE  requeued[r] > 0 \/ faults > 0
      OBVIOUS
    <2>1. PICK w \in Workers : Inside(w)
      BY ApiStatus DEF FinalStatus
    <2>2. workReq[w] = r /\ Executing(w)
      BY <2>1, InsideStep DEF SetStatus, TypeOK
    <2>3. ~Over(w)
      BY <2>1 DEF Over, Inside, Start, StartFails, Complete, CompleteFails, ScrapeFails, Error,
                  ErrorFails, Announce, AnnounceFails
    <2>. QED BY <2>2, <2>3 DEF FinishInv
  <1>. QED BY <1>1, TypeCorrect, FinishCorrect, PTL DEF Spec, FinishedStays

-----------------------------------------------------------------------------
(* No request is lost but by a failed handler.                             *)

\* The broker has the message of r, and not for a callback that is over but for
\* its announcement and its acknowledgement.
Held(r) ==
    \/ r \in amazonQ
    \/ \E w \in Workers : r \in delivered[w] /\ ~(Over(w) /\ workReq[w] = r)

\* A callback past its first write has left PENDING behind; a request that is
\* IN_PROGRESS has a callback past that write, or a message that will bring one;
\* one that is PENDING has a message or a call about to send it.
LostInv ==
    /\ \A w \in Workers :
          Executing(w) /\ workPc[w] # "starting" /\ status[workReq[w]] = "PENDING"
              => workReq[w] \in lost
    /\ \A r \in Requests : status[r] = "IN_PROGRESS" /\ r \notin lost =>
          \/ \E w \in Workers : workPc[w] \in {"started", "scraping", "failing"} /\ workReq[w] = r
          \/ Held(r)
    /\ \A r \in Requests : status[r] = "PENDING" /\ r \notin lost => Publishing(r) \/ Held(r)

\* No request is lost initially.
LEMMA LostInit == Init => LostInv
  BY DEF Init, LostInv, Executing

\* A step inside a callback: only Start and the failures of its writes can
\* leave the request without a final status.
LEMMA LostInside ==
    ASSUME TypeOK, BrokerInv, LostInv, NEW w \in Workers, Inside(w)
    PROVE  LostInv'
  <1>. DEFINE r == workReq[w]
  <1>. USE DEF TypeOK
  <1>1. Executing(w) /\ r \in Requests
    BY InsideStep DEF Executing
  <1>2. PICK pc \in WorkPcs \ {"idle", "dead", "starting"} : Goto(w, pc)
    BY InsideStep
  <1>3. /\ \A q \in Requests : q # r => status'[q] = status[q]
        /\ \A q \in Requests : status'[q] = "PENDING" => status[q] = "PENDING"
        /\ lost \subseteq lost'
    BY InsideStep DEF SetStatus, Inside, Abandon, Write, Announce, AnnounceFails,
       Start, StartFails, Complete, CompleteFails, ScrapeFails, Error, ErrorFails
  <1>4. /\ UNCHANGED <<callPc, callReq, amazonQ, delivered, workReq>>
        /\ workPc' = [workPc EXCEPT ![w] = pc]
    BY <1>2 DEF Goto, calls, broker
  <1>5. \/ r \in lost'
        \/ status'[r] \notin {"PENDING", "IN_PROGRESS"}
        \/ status'[r] = "IN_PROGRESS" /\ pc \in {"started", "scraping", "failing"}
        \/ status'[r] = "IN_PROGRESS" /\ status[r] = "IN_PROGRESS" /\ r \notin lost /\ Over(w)
        \/ status'[r] = "PENDING" /\ r \in lost
    <2>1. CASE Start(w)
      BY <1>1, <1>4, <2>1 DEF Start, Write, SetStatus, Goto, Exists, Statuses
    <2>2. CASE StartFails(w) \/ ErrorFails(w)
      BY <1>1, <2>2 DEF StartFails, ErrorFails, Abandon
    <2>3. CASE Complete(w) \/ Error(w)
      BY <1>1, <2>3 DEF Complete, Error, Write, SetStatus, Exists, Statuses
    <2>4. CASE CompleteFails(w) \/ ScrapeFails(w)
      BY <1>1, <1>4, <2>4 DEF CompleteFails, ScrapeFails, Goto, LostInv, Executing, DocStates
    <2>5. CASE Announce(w) \/ AnnounceFails(w)
      <3>1. UNCHANGED status /\ workPc[w] \in {"started", "completed", "failed"}
        BY <2>5 DEF Announce, AnnounceFails, Announcing
      <3>2. CASE workPc[w] = "started"
        BY <1>1, <1>3, <1>4, <2>5, <3>1, <3>2
           DEF Announce, AnnounceFails, Announced, Unfinished, Goto, LostInv, Executing, DocStates
      <3>3. CASE workPc[w] # "started"
        BY <1>1, <1>3, <3>1, <3>3 DEF LostInv, Executing, DocStates, Over
      <3>. QED BY <3>2, <3>3
    <2>. QED BY <2>1, <2>2, <2>3, <2>4, <2>5 DEF Inside
  <1>6. \A q \in Requests : (q # r \/ Over(w)) /\ Held(q) => Held(q)'
    BY <1>4 DEF Held, Over
  <1>7. \A q \in Requests : Publishing(q)' <=> Publishing(q)
    BY <1>4 DEF Publishing
  <1>8. \A v \in Workers : v # w => workPc'[v] = workPc[v] /\ workReq'[v] = workReq[v]
    BY <1>4
  <1>9. workPc'[w] = pc /\ workReq'[w] = r /\ pc # "starting"
    BY <1>4 DEF WorkPcs
  <1>10. ASSUME NEW v \in Workers, Executing(v)', workPc'[v] # "starting",
                status'[workReq'[v]] = "PENDING"
         PROVE  workReq'[v] \in lost'
    <2>1. CASE workReq'[v] = r
      BY <1>1, <1>5, <1>3, <2>1, <1>10
    <2>2. CASE workReq'[v] # r
      BY <1>3, <1>8, <1>9, <1>10, <2>2 DEF LostInv, Executing
    <2>. QED BY <2>1, <2>2
  <1>11. ASSUME NEW q \in Requests, status'[q] = "IN_PROGRESS", q \notin lost'
         PROVE  \/ \E v \in Workers :
                      workPc'[v] \in {"started", "scraping", "failing"} /\ workReq'[v] = q
                \/ Held(q)'
    <2>1. CASE q = r /\ pc \in {"started", "scraping", "failing"}
      BY <1>9, <2>1
    <2>2. CASE q # r \/ (Over(w) /\ pc \notin {"started", "scraping", "failing"})
      <3>1. status[q] = "IN_PROGRESS" /\ q \notin lost
        BY <1>3, <1>5, <1>11, <2>2
      <3>2. CASE Held(q)
        BY <1>6, <2>2, <3>2
      <3>3. ASSUME NEW v \in Workers, workPc[v] \in {"started", "scraping", "failing"},
                   workReq[v] = q
            PROVE  v # w
        BY <2>2, <3>3 DEF Over
      <3>. QED BY <1>8, <3>1, <3>2, <3>3 DEF LostInv
    <2>. QED BY <1>3, <1>5, <1>11, <2>1, <2>2
  <1>12. ASSUME NEW q \in Requests, status'[q] = "PENDING", q \notin lost'
         PROVE  Publishing(q)' \/ Held(q)'
    BY <1>3, <1>5, <1>6, <1>7, <1>12 DEF LostInv
  <1>. QED BY <1>10, <1>11, <1>12 DEF LostInv

\* Every step keeps unfinished requests held by somebody.
LEMMA LostStep == TypeOK /\ BrokerInv /\ LostInv /\ [Next]_vars => LostInv'
  <1>. SUFFICES ASSUME TypeOK, BrokerInv, LostInv, [Next]_vars PROVE LostInv'
    OBVIOUS
  <1>. USE DEF TypeOK, LostInv, Held, Over, Publishing, Executing
  <1>1. CASE UNCHANGED vars
    BY <1>1 DEF vars
  <1>2. ASSUME NEW c \in Calls, NEW j \in Jobs, CreateCheck(c, j) PROVE LostInv'
    BY <1>2 DEF CreateCheck, docs, broker, work
  <1>3. ASSUME NEW c \in Calls, NEW r \in Requests, CreateInsert(c, r) PROVE LostInv'
    BY <1>3 DEF CreateInsert, broker, work, BrokerInv, Executing
  <1>4. ASSUME NEW c \in Calls, CreateSend(c) PROVE LostInv'
    BY <1>4 DEF CreateSend, CallReturns, docs, work
  <1>5. ASSUME NEW c \in Calls, CreateSendFails(c) PROVE LostInv'
    BY <1>5 DEF CreateSendFails, CallReturns, Abandon, docs, broker, work
  <1>6. ASSUME NEW r \in Requests, Cancel(r) \/ Remove(r) PROVE LostInv'
    BY <1>6 DEF Cancel, Remove, SetStatus, calls, broker, work
  <1>7. ASSUME NEW r \in Requests, HandleUpdate(r) PROVE LostInv'
    BY <1>7 DEF HandleUpdate, docs, calls, broker, work
  <1>8. ASSUME NEW handling \in SUBSET apiQ, ApiCrash(handling) PROVE LostInv'
    BY <1>8 DEF ApiCrash, docs, broker, work
  <1>9. ASSUME NEW w \in Workers, NEW r \in Requests, Deliver(w, r) PROVE LostInv'
    BY <1>9 DEF Deliver, docs, calls, work, BrokerInv, OneHolder, Executing
  <1>10. ASSUME NEW w \in Workers, NEW r \in Requests, Take(w, r) PROVE LostInv'
    BY <1>10 DEF Take, docs, calls, broker
  <1>11. ASSUME NEW w \in Workers, Inside(w) PROVE LostInv'
    BY <1>11, LostInside
  <1>12. ASSUME NEW w \in Workers, Ack(w) PROVE LostInv'
    BY <1>12 DEF Ack, docs, calls, BrokerInv, OneHolder
  <1>13. ASSUME NEW w \in Workers, AckFails(w) PROVE LostInv'
    BY <1>13 DEF AckFails, Stop, docs, calls, broker, BrokerInv
  <1>14. ASSUME NEW w \in Workers, Drop(w) PROVE LostInv'
    BY <1>14 DEF Drop, TakeBack, docs, calls, work
  <1>15. ASSUME NEW w \in Workers, Crash(w) PROVE LostInv'
    <2>1. \A r \in Requests : Unfinished(w, r) /\ connected[w] => r \in delivered[w]
      BY DEF BrokerInv, Executing, Unfinished
    <2>. QED BY <1>15, <2>1 DEF Crash, Stop, TakeBack, Unfinished, docs, calls
  <1>16. ASSUME NEW w \in Workers, Restart(w) PROVE LostInv'
    BY <1>16 DEF Restart, docs, calls
  <1>. QED
    BY <1>1, <1>2, <1>3, <1>4, <1>5, <1>6, <1>7, <1>8, <1>9, <1>10, <1>11, <1>12, <1>13,
       <1>14, <1>15, <1>16 DEF Next, CreateProceeds, Callback, Inside

\* The invariant behind NoLostRequest holds in every reachable state.
THEOREM LostCorrect == Spec => []LostInv
  BY LostInit, LostStep, TypeCorrect, BrokerCorrect, PTL DEF Spec

\* A request that shows PENDING or IN_PROGRESS is with a call, with the broker or
\* with a replica, unless a failed handler abandoned it.
THEOREM NoLostRequestCorrect == Spec => []NoLostRequest
  <1>1. LostInv => NoLostRequest
    BY DEF LostInv, NoLostRequest, Held, InBroker, Unfinished
  <1>. QED BY <1>1, LostCorrect, PTL

-----------------------------------------------------------------------------
(* What the API sees.                                                      *)

\* A replica's write is followed by its announcement, or counted as missed.
LEMMA ViewInside ==
    ASSUME TypeOK, ViewFresh, NEW w \in Workers, Inside(w)
    PROVE  ViewFresh'
  <1>. USE DEF TypeOK, ViewFresh, Announcing, events
  <1>0. workReq[w] \in Requests
    BY InsideStep DEF Executing
  <1>1. CASE Start(w) \/ Complete(w) \/ Error(w)
    <2>1. PICK s \in Statuses, pc \in {"started", "completed", "failed"} :
             Write(w, s, pc) /\ workPc[w] \in {"starting", "scraping", "failing"}
      BY <1>1 DEF Start, Complete, Error, Statuses
    <2>. QED BY <1>0, <2>1 DEF Write, SetStatus, Goto
  <1>2. CASE StartFails(w) \/ CompleteFails(w) \/ ErrorFails(w) \/ ScrapeFails(w)
    BY <1>0, <1>2 DEF StartFails, CompleteFails, ErrorFails, ScrapeFails, Goto
  <1>3. CASE Announce(w)
    BY <1>0, <1>3 DEF Announce, Goto
  <1>4. CASE AnnounceFails(w)
    BY <1>0, <1>4 DEF AnnounceFails, Goto
  <1>. QED BY <1>1, <1>2, <1>3, <1>4 DEF Inside

\* Every step keeps what the API read up to date, or an event on its way.
LEMMA ViewStep == TypeOK /\ ViewFresh /\ [Next]_vars => ViewFresh'
  <1>. SUFFICES ASSUME TypeOK, ViewFresh, [Next]_vars PROVE ViewFresh'
    OBVIOUS
  <1>1. ASSUME NEW w \in Workers, Inside(w) PROVE ViewFresh'
    BY <1>1, ViewInside
  <1>2. SUFFICES ASSUME \A w \in Workers : ~Inside(w) PROVE ViewFresh'
    BY <1>1
  <1>3. \A r \in Requests : status'[r] \in {"IN_PROGRESS", "COMPLETED", "ERROR"}
          => status'[r] = status[r]
    BY <1>2, ApiStatus
  <1>. USE <1>3 DEF TypeOK, ViewFresh, Announcing, events
  <1>4. ASSUME NEW r \in Requests, HandleUpdate(r) PROVE ViewFresh'
    BY <1>4 DEF HandleUpdate, docs, work
  <1>5. ASSUME NEW handling \in SUBSET apiQ, ApiCrash(handling) PROVE ViewFresh'
    BY <1>5 DEF ApiCrash, work
  <1>6. ASSUME NEW w \in Workers, Crash(w) PROVE ViewFresh'
    BY <1>6 DEF Crash, Stop
  <1>7. ASSUME UNCHANGED events,
               \A w \in Workers : \A r \in Requests : Announcing(w, r) => Announcing(w, r)'
        PROVE  ViewFresh'
    BY <1>7
  <1>8. CASE UNCHANGED vars
    BY <1>7, <1>8 DEF vars
  <1>9. ASSUME NEW c \in Calls, NEW j \in Jobs, CreateCheck(c, j) PROVE ViewFresh'
    BY <1>7, <1>9 DEF CreateCheck, work
  <1>10. ASSUME NEW c \in Calls, CreateProceeds(c) PROVE ViewFresh'
    <2>1. UNCHANGED <<events, work>>
      BY <1>10 DEF CreateProceeds, CreateInsert, CreateSend, CreateSendFails
    <2>. QED BY <1>7, <2>1 DEF work
  <1>11. ASSUME NEW r \in Requests, Cancel(r) \/ Remove(r) PROVE ViewFresh'
    BY <1>7, <1>11 DEF Cancel, Remove, work
  <1>12. ASSUME NEW w \in Workers, NEW r \in Requests, Deliver(w, r) \/ Take(w, r)
         PROVE  ViewFresh'
    BY <1>7, <1>12 DEF Deliver, Take, work
  <1>13. ASSUME NEW w \in Workers, Ack(w) \/ AckFails(w) \/ Drop(w) \/ Restart(w)
         PROVE  ViewFresh'
    BY <1>7, <1>13 DEF Ack, AckFails, Drop, Restart, Stop, work
  <1>. QED
    BY <1>2, <1>4, <1>5, <1>6, <1>8, <1>9, <1>10, <1>11, <1>12, <1>13 DEF Next, Callback, Inside

\* The status a replica wrote last is the one the API read last, unless a replica
\* is about to announce it, an event that will make the API read again is waiting,
\* or the last one was lost with a publication, a replica or the API.
THEOREM ViewFreshCorrect == Spec => []ViewFresh
  <1>1. Init => ViewFresh
    BY DEF Init, ViewFresh
  <1>. QED BY <1>1, ViewStep, TypeCorrect, PTL DEF Spec

-----------------------------------------------------------------------------
(* The queue's contract.                                                   *)

\* The initial state maps to the queue with nothing published.
LEMMA StageInit == Init => Contract!Init
  BY DEF Init, Contract!Init, Stage, InBroker

\* Every step maps to a step of the contract or to a stutter.
LEMMA StageStep ==
    ASSUME TypeOK, BrokerInv, [Next]_vars
    PROVE  [Contract!Next]_<<[r \in Requests |-> Stage(r)], runs>>
  <1>. DEFINE stage == [r \in Requests |-> Stage(r)]
  <1>. USE DEF TypeOK, Stage, InBroker
  <1>1. ASSUME UNCHANGED runs, \A r \in Requests : InBroker(r)' <=> InBroker(r)
        PROVE  UNCHANGED <<stage, runs>>
    BY <1>1
  <1>2. ASSUME NEW c \in Calls, CreateSend(c) PROVE Contract!Next
    <2>1. PICK r \in Requests : r = callReq[c]
      BY <1>2 DEF CreateSend
    <2>2. Contract!Publish(r)
      BY <1>2, <2>1 DEF CreateSend, Contract!Publish, BrokerInv, Publishing
    <2>. QED BY <2>2 DEF Contract!Next
  <1>3. ASSUME NEW w \in Workers, NEW r \in Requests, Take(w, r) PROVE Contract!Next
    <2>1. Contract!Attempt(r)
      BY <1>3 DEF Take, broker, Contract!Attempt
    <2>. QED BY <2>1 DEF Contract!Next
  <1>4. ASSUME NEW w \in Workers, Ack(w) PROVE Contract!Next
    <2>1. PICK r \in Requests : r = workReq[w]
      BY <1>4 DEF Ack
    <2>2. r \in delivered[w] /\ runs[r] > 0 /\ UNCHANGED runs
      BY <1>4, <2>1 DEF Ack, BrokerInv, Executing
    <2>3. /\ amazonQ' = amazonQ
          /\ \A q \in Requests, v \in Workers :
                q \in delivered'[v] <=> q \in delivered[v] /\ ~(v = w /\ q = r)
      BY <1>4, <2>1 DEF Ack
    <2>4. ~(r \in amazonQ' \/ \E v \in Workers : r \in delivered'[v])
      BY <2>2, <2>3 DEF BrokerInv, OneHolder
    <2>5. \A q \in Requests : q # r =>
            ((q \in amazonQ' \/ \E v \in Workers : q \in delivered'[v]) <=> InBroker(q))
      BY <2>3
    <2>6. stage[r] = "queued" /\ stage' = [stage EXCEPT ![r] = "done"]
      BY <2>2, <2>4, <2>5
    <2>7. Contract!Finish(r)
      BY <2>2, <2>6 DEF Contract!Finish
    <2>. QED BY <2>7 DEF Contract!Next
  <1>5. ASSUME NEW w \in Workers, NEW r \in Requests, Deliver(w, r)
        PROVE  UNCHANGED <<stage, runs>>
    BY <1>5 DEF Deliver
  <1>6. ASSUME NEW w \in Workers, Inside(w) PROVE UNCHANGED <<stage, runs>>
    BY <1>6, InsideStep DEF Goto, broker
  <1>7. ASSUME NEW w \in Workers, AckFails(w) \/ Restart(w) PROVE UNCHANGED <<stage, runs>>
    BY <1>7 DEF AckFails, Restart, broker
  <1>8. ASSUME NEW w \in Workers, Drop(w) \/ Crash(w) PROVE UNCHANGED <<stage, runs>>
    BY <1>8 DEF Drop, Crash, TakeBack
  <1>9. CASE UNCHANGED <<broker, work, runs, requeued>>
    BY <1>9 DEF broker
  <1>. QED
    BY StepCases, <1>2, <1>3, <1>4, <1>5, <1>6, <1>7, <1>8, <1>9

\* AMAZON_QUEUE and the replicas are a queue that acknowledges after the work:
\* what is published is attempted, possibly again after an interruption, and
\* leaves the queue only after an attempt.
THEOREM ContractCorrect == Spec => ImplementsContract
  BY StageInit, StageStep, TypeCorrect, BrokerCorrect, PTL
     DEF Spec, ImplementsContract, Contract!Spec

-----------------------------------------------------------------------------
(* How many equal PENDING requests there may be.                           *)

\* The bound and the finiteness its counts rest on.
PendingInv ==
    \A j \in Jobs :
        /\ IsFiniteSet(PendingFor(j))
        /\ Cardinality(PendingFor(j)) + Cardinality(Inserting(j)) <= Cardinality(Calls)

\* The calls between their findOne and their insertion are finitely many.
LEMMA InsertingFinite ==
    \A j \in Jobs : /\ IsFiniteSet(Inserting(j))
                    /\ Cardinality(Inserting(j)) \in Nat
                    /\ Cardinality(Inserting(j)) <= Cardinality(Calls)
                    /\ Cardinality(Calls) \in Nat
  BY ConstantsAssumption, FS_Subset, FS_CardinalityType DEF Inserting

\* Nothing is pending initially.
LEMMA PendingInit == Init => PendingInv
  <1>. SUFFICES ASSUME Init, NEW j \in Jobs
                PROVE  /\ IsFiniteSet(PendingFor(j))
                       /\ Cardinality(PendingFor(j)) + Cardinality(Inserting(j)) <= Cardinality(Calls)
    BY DEF PendingInv
  <1>1. PendingFor(j) = {}
    BY DEF Init, PendingFor
  <1>. QED BY <1>1, FS_EmptySet, InsertingFinite

\* Fewer PENDING requests and no more inserting calls keep the bound.
LEMMA PendingShrinks ==
    ASSUME PendingInv, NEW j \in Jobs, PendingFor(j)' \subseteq PendingFor(j),
           Inserting(j)' \subseteq Inserting(j)
    PROVE  /\ IsFiniteSet(PendingFor(j)')
           /\ Cardinality(PendingFor(j)') + Cardinality(Inserting(j)') <= Cardinality(Calls)
  <1>. DEFINE P == PendingFor(j)  Q == PendingFor(j)'  I == Inserting(j)  K == Inserting(j)'
  <1>1. IsFiniteSet(P) /\ Cardinality(P) + Cardinality(I) <= Cardinality(Calls)
    BY DEF PendingInv
  <1>2. IsFiniteSet(I) /\ Cardinality(Calls) \in Nat
    BY InsertingFinite
  <1>. HIDE DEF P, Q, I, K
  <1>3. Q \subseteq P /\ K \subseteq I
    BY DEF P, Q, I, K
  <1>4. IsFiniteSet(Q) /\ Cardinality(Q) <= Cardinality(P)
    BY <1>1, <1>3, FS_Subset
  <1>5. IsFiniteSet(K) /\ Cardinality(K) <= Cardinality(I)
    BY <1>2, <1>3, FS_Subset
  <1>6. {Cardinality(P), Cardinality(Q), Cardinality(I), Cardinality(K)} \subseteq Nat
    BY <1>1, <1>2, <1>4, <1>5, FS_CardinalityType
  <1>7. Cardinality(Q) + Cardinality(K) <= Cardinality(Calls)
    BY <1>1, <1>2, <1>4, <1>5, <1>6
  <1>. QED BY <1>4, <1>7 DEF Q, K

\* Only a create call's check and its insertion make either set grow.
LEMMA PendingOthers ==
    ASSUME TypeOK, [Next]_vars, NEW k \in Jobs,
           \A c \in Calls : \A j \in Jobs : ~CreateCheck(c, j),
           \A c \in Calls : \A r \in Requests : ~CreateInsert(c, r)
    PROVE  PendingFor(k)' \subseteq PendingFor(k) /\ Inserting(k)' \subseteq Inserting(k)
  <1>. USE DEF TypeOK, PendingFor, Inserting, docs, calls
  <1>1. CASE UNCHANGED vars
    BY <1>1 DEF vars
  <1>2. ASSUME NEW c \in Calls, CreateSend(c) \/ CreateSendFails(c)
        PROVE  PendingFor(k)' \subseteq PendingFor(k) /\ Inserting(k)' \subseteq Inserting(k)
    BY <1>2 DEF CreateSend, CreateSendFails, CallReturns
  <1>3. ASSUME NEW r \in Requests, Cancel(r) \/ Remove(r) \/ HandleUpdate(r)
        PROVE  PendingFor(k)' \subseteq PendingFor(k) /\ Inserting(k)' \subseteq Inserting(k)
    BY <1>3 DEF Cancel, Remove, HandleUpdate, SetStatus
  <1>4. ASSUME NEW handling \in SUBSET apiQ, ApiCrash(handling)
        PROVE  PendingFor(k)' \subseteq PendingFor(k) /\ Inserting(k)' \subseteq Inserting(k)
    BY <1>4 DEF ApiCrash
  <1>5. ASSUME NEW w \in Workers, NEW r \in Requests, Deliver(w, r) \/ Take(w, r)
        PROVE  PendingFor(k)' \subseteq PendingFor(k) /\ Inserting(k)' \subseteq Inserting(k)
    BY <1>5 DEF Deliver, Take
  <1>6. ASSUME NEW w \in Workers, Inside(w)
        PROVE  PendingFor(k)' \subseteq PendingFor(k) /\ Inserting(k)' \subseteq Inserting(k)
    BY <1>6, InsideStep DEF Goto, SetStatus
  <1>7. ASSUME NEW w \in Workers, Ack(w) \/ AckFails(w) \/ Drop(w) \/ Crash(w) \/ Restart(w)
        PROVE  PendingFor(k)' \subseteq PendingFor(k) /\ Inserting(k)' \subseteq Inserting(k)
    BY <1>7 DEF Ack, AckFails, Drop, Crash, Restart
  <1>. QED
    BY <1>1, <1>2, <1>3, <1>4, <1>5, <1>6, <1>7 DEF Next, CreateProceeds, Callback, Inside

\* A check that finds no equal PENDING request, whatever the other calls do.
LEMMA PendingCheck ==
    ASSUME TypeOK, PendingInv, NEW c \in Calls, NEW j \in Jobs, CreateCheck(c, j)
    PROVE  PendingInv'
  <1>. SUFFICES ASSUME NEW k \in Jobs
                PROVE  /\ IsFiniteSet(PendingFor(k)')
                       /\ Cardinality(PendingFor(k)') + Cardinality(Inserting(k)') <= Cardinality(Calls)
    BY DEF PendingInv
  <1>1. PendingFor(k)' = PendingFor(k)
    BY DEF CreateCheck, PendingFor, docs
  <1>2. CASE k = j
    <2>1. PendingFor(k)' = {}
      BY <1>1, <1>2 DEF CreateCheck
    <2>2. Inserting(k)' \subseteq Calls
      BY DEF Inserting
    <2>3. IsFiniteSet(Inserting(k)') /\ Cardinality(Inserting(k)') <= Cardinality(Calls)
      BY <2>2, ConstantsAssumption, FS_Subset
    <2>4. Cardinality(Inserting(k)') \in Nat
      BY <2>3, FS_CardinalityType
    <2>. QED BY <2>1, <2>3, <2>4, FS_EmptySet
  <1>3. CASE k # j
    <2>1. Inserting(k)' \subseteq Inserting(k)
      BY <1>3 DEF CreateCheck, Inserting, TypeOK
    <2>. QED BY <1>1, <2>1, PendingShrinks
  <1>. QED BY <1>2, <1>3

\* An insertion adds one PENDING request and ends one insertion.
LEMMA PendingInsert ==
    ASSUME TypeOK, PendingInv, NEW c \in Calls, NEW r \in Requests, CreateInsert(c, r)
    PROVE  PendingInv'
  <1>. SUFFICES ASSUME NEW k \in Jobs
                PROVE  /\ IsFiniteSet(PendingFor(k)')
                       /\ Cardinality(PendingFor(k)') + Cardinality(Inserting(k)') <= Cardinality(Calls)
    BY DEF PendingInv
  <1>1. CASE callJob[c] = k
    <2>1. PendingFor(k)' = PendingFor(k) \cup {r} /\ r \notin PendingFor(k)
      BY <1>1 DEF TypeOK, CreateInsert, PendingFor, Inserting
    <2>2. Inserting(k)' = Inserting(k) \ {c} /\ c \in Inserting(k)
      BY <1>1 DEF TypeOK, CreateInsert, PendingFor, Inserting
    <2>3. /\ IsFiniteSet(PendingFor(k)) /\ IsFiniteSet(Inserting(k))
          /\ Cardinality(PendingFor(k)) + Cardinality(Inserting(k)) <= Cardinality(Calls)
      BY InsertingFinite DEF PendingInv
    <2>. DEFINE P == PendingFor(k)  Q == PendingFor(k)'  I == Inserting(k)  K == Inserting(k)'
    <2>. HIDE DEF P, Q, I, K
    <2>4. IsFiniteSet(Q) /\ Cardinality(Q) = Cardinality(P) + 1
      BY <2>1, <2>3, FS_AddElement DEF P, Q
    <2>5. Cardinality(K) = Cardinality(I) - 1
      BY <2>2, <2>3, FS_RemoveElement DEF I, K
    <2>6. Cardinality(P) \in Nat /\ Cardinality(I) \in Nat
      BY <2>3, FS_CardinalityType DEF P, I
    <2>7. Cardinality(P) + Cardinality(I) <= Cardinality(Calls)
      BY <2>3 DEF P, I
    <2>8. Cardinality(Q) + Cardinality(K) <= Cardinality(Calls)
      BY <2>4, <2>5, <2>6, <2>7
    <2>. QED BY <2>4, <2>8 DEF Q, K
  <1>2. CASE callJob[c] # k
    <2>1. PendingFor(k)' \subseteq PendingFor(k) /\ Inserting(k)' \subseteq Inserting(k)
      BY <1>2 DEF TypeOK, CreateInsert, PendingFor, Inserting
    <2>. QED BY <2>1, PendingShrinks
  <1>. QED BY <1>1, <1>2

\* Every step keeps the count of equal pending requests within its bound.
LEMMA PendingStep == TypeOK /\ PendingInv /\ [Next]_vars => PendingInv'
  <1>. SUFFICES ASSUME TypeOK, PendingInv, [Next]_vars PROVE PendingInv'
    OBVIOUS
  <1>1. CASE \E c \in Calls : \E j \in Jobs : CreateCheck(c, j)
    BY <1>1, PendingCheck
  <1>2. CASE \E c \in Calls : \E r \in Requests : CreateInsert(c, r)
    BY <1>2, PendingInsert
  <1>3. CASE /\ \A c \in Calls : \A j \in Jobs : ~CreateCheck(c, j)
             /\ \A c \in Calls : \A r \in Requests : ~CreateInsert(c, r)
    <2>. SUFFICES ASSUME NEW k \in Jobs
                  PROVE  /\ IsFiniteSet(PendingFor(k)')
                         /\ Cardinality(PendingFor(k)') + Cardinality(Inserting(k)') <= Cardinality(Calls)
      BY DEF PendingInv
    <2>1. PendingFor(k)' \subseteq PendingFor(k) /\ Inserting(k)' \subseteq Inserting(k)
      BY <1>3, PendingOthers
    <2>. QED BY <2>1, PendingShrinks
  <1>. QED BY <1>1, <1>2, <1>3

\* create's unguarded check lets overlapping calls insert equal PENDING requests,
\* but never more of them, those about to be inserted included, than there are
\* calls in flight.
THEOREM PendingBoundCorrect == Spec => []PendingBound
  <1>1. PendingInv => PendingBound
    BY DEF PendingInv, PendingBound
  <1>. QED BY <1>1, PendingInit, PendingStep, TypeCorrect, PTL DEF Spec
=============================================================================
