---------------------------- MODULE RequestQueue ----------------------------
(***************************************************************************)
(* The life of a scraping request, from the API call that creates it to    *)
(* the acknowledgement of its message by a scrapper replica.               *)
(*                                                                         *)
(*  - RequestsService.create (API) looks for an equal PENDING request,     *)
(*    inserts a document and publishes it on AMAZON_QUEUE, three awaits    *)
(*    that other calls interleave with;                                    *)
(*  - RabbitMQ pushes messages to the scrapper replicas without a prefetch *)
(*    limit and takes back what a dead connection has not acknowledged;    *)
(*  - a replica (scrapper/main.py) runs one callback at a time: it sets    *)
(*    the request IN_PROGRESS, scrapes, writes COMPLETED or ERROR, and     *)
(*    acknowledges last;                                                   *)
(*  - every status a replica writes is announced by a request_updated      *)
(*    event, on which the API reads the document again.                    *)
(*                                                                         *)
(* A message carries its request document, and create publishes it once,   *)
(* so a message is named by its request.  Queues are sets: no property of  *)
(* this module depends on the order of delivery.                           *)
(***************************************************************************)
EXTENDS Integers, FiniteSets

CONSTANTS
    Requests,    \* document ids of the requests collection
    Jobs,        \* what create compares: productId, type and url together
    Supported,   \* the jobs whose url is an amazon one
    Calls,       \* create calls the API may have in flight at once
    Workers,     \* scrapper replicas
    NoRequest, NoJob,
    MaxCrashes,  \* bound on replica and API crashes
    MaxDrops,    \* bound on connections closed for missed heartbeats
    MaxFaults    \* bound on database writes and publications that fail

ASSUME ConstantsAssumption ==
    /\ Supported \subseteq Jobs
    /\ IsFiniteSet(Calls)
    /\ NoRequest \notin Requests
    /\ NoJob \notin Jobs
    /\ {MaxCrashes, MaxDrops, MaxFaults} \subseteq Nat

VARIABLES
    status,     \* status of each document; "absent" before insertion
    job,        \* job of each document
    callPc,     \* where each create call is
    callJob,    \* the job each create call was given
    callReq,    \* the document each create call has inserted
    amazonQ,    \* messages ready in AMAZON_QUEUE
    delivered,  \* messages each replica holds unacknowledged
    connected,  \* whether the broker still has the replica's connection
    workPc,     \* where each replica's callback is
    workReq,    \* the request each replica's callback is about
    apiQ,       \* requests with a request_updated event not yet handled
    view,       \* status the API read on the last request_updated event
    lost,       \* history: requests abandoned by a failure of their handler
    missed,     \* history: requests with a status the API was never told of
    runs,       \* history: callbacks begun for each request
    requeued,   \* history: times a begun request's message was taken back
    crashes, drops, faults

docs    == <<status, job>>
calls   == <<callPc, callJob, callReq>>
broker  == <<amazonQ, delivered, connected>>
work    == <<workPc, workReq>>
events  == <<apiQ, view, missed>>
budgets == <<crashes, drops, faults>>
vars    == <<status, job, callPc, callJob, callReq, amazonQ, delivered,
             connected, workPc, workReq, apiQ, view, lost, missed, runs,
             requeued, crashes, drops, faults>>

Statuses  == {"PENDING", "IN_PROGRESS", "COMPLETED", "ERROR", "CANCELED"}
DocStates == Statuses \cup {"absent", "removed"}
CallPcs   == {"idle", "insert", "send"}
WorkPcs   == {"idle", "starting", "started", "scraping", "completed", "failing", "failed",
              "acking", "dead"}

TypeOK ==
    /\ status \in [Requests -> DocStates]
    /\ job \in [Requests -> Jobs \cup {NoJob}]
    /\ callPc \in [Calls -> CallPcs]
    /\ callJob \in [Calls -> Jobs \cup {NoJob}]
    /\ callReq \in [Calls -> Requests \cup {NoRequest}]
    /\ amazonQ \subseteq Requests
    /\ delivered \in [Workers -> SUBSET Requests]
    /\ connected \in [Workers -> BOOLEAN]
    /\ workPc \in [Workers -> WorkPcs]
    /\ workReq \in [Workers -> Requests \cup {NoRequest}]
    /\ apiQ \subseteq Requests
    /\ view \in [Requests -> DocStates]
    /\ lost \subseteq Requests
    /\ missed \subseteq Requests
    /\ runs \in [Requests -> Nat]
    /\ requeued \in [Requests -> Nat]
    /\ crashes \in Nat /\ drops \in Nat /\ faults \in Nat
    /\ \A c \in Calls : callPc[c] = "send" => callReq[c] \in Requests
    /\ \A w \in Workers : workPc[w] \notin {"idle", "dead"} => workReq[w] \in Requests

-----------------------------------------------------------------------------
\* A document the collection holds.
Exists(r) == status[r] \in Statuses

\* A replica inside its callback, between a delivery and its acknowledgement.
Executing(w) == workPc[w] \notin {"idle", "dead"}

\* A replica that still owes its request a final status.
Unfinished(w, r) ==
    workReq[w] = r /\ workPc[w] \in {"starting", "started", "scraping", "failing"}

\* A replica that has written a status of r and not announced it yet.
Announcing(w, r) == workReq[w] = r /\ workPc[w] \in {"started", "completed", "failed"}

\* A create call that has inserted r and not published it yet.
Publishing(r) == \E c \in Calls : callPc[c] = "send" /\ callReq[c] = r

\* The broker has the message of r, ready or delivered and unacknowledged.
InBroker(r) == r \in amazonQ \/ \E w \in Workers : r \in delivered[w]

\* update_one({_id}, {$set: {status}}): a document that is gone stays gone.
SetStatus(r, s) ==
    status' = [status EXCEPT ![r] = IF Exists(r) THEN s ELSE @]

Abandon(r) == lost' = lost \cup {r}

Fault == faults < MaxFaults /\ faults' = faults + 1 /\ UNCHANGED <<crashes, drops>>

Init ==
    /\ status = [r \in Requests |-> "absent"]
    /\ job = [r \in Requests |-> NoJob]
    /\ callPc = [c \in Calls |-> "idle"]
    /\ callJob = [c \in Calls |-> NoJob]
    /\ callReq = [c \in Calls |-> NoRequest]
    /\ amazonQ = {}
    /\ delivered = [w \in Workers |-> {}]
    /\ connected = [w \in Workers |-> TRUE]
    /\ workPc = [w \in Workers |-> "idle"]
    /\ workReq = [w \in Workers |-> NoRequest]
    /\ apiQ = {}
    /\ view = [r \in Requests |-> "absent"]
    /\ lost = {}
    /\ missed = {}
    /\ runs = [r \in Requests |-> 0]
    /\ requeued = [r \in Requests |-> 0]
    /\ crashes = 0 /\ drops = 0 /\ faults = 0

-----------------------------------------------------------------------------
(* The API: RequestsService.                                               *)

PendingFor(j) == {r \in Requests : status[r] = "PENDING" /\ job[r] = j}

\* Mutant of CreateCheck: no findOne.
CreateUnchecked(c, j) ==
    /\ callPc[c] = "idle"
    /\ callPc' = [callPc EXCEPT ![c] = "insert"]
    /\ callJob' = [callJob EXCEPT ![c] = j]
    /\ UNCHANGED <<docs, callReq, broker, work, events, lost, runs, requeued, budgets>>

\* create: the findOne that finds no equal PENDING request.  When it finds
\* one, create returns it and changes nothing.
CreateCheck(c, j) ==
    /\ callPc[c] = "idle"
    /\ PendingFor(j) = {}
    /\ callPc' = [callPc EXCEPT ![c] = "insert"]
    /\ callJob' = [callJob EXCEPT ![c] = j]
    /\ UNCHANGED <<docs, callReq, broker, work, events, lost, runs, requeued, budgets>>

\* create: requestModel.create, whatever happened since the findOne.
CreateInsert(c, r) ==
    /\ callPc[c] = "insert"
    /\ status[r] = "absent"
    /\ status' = [status EXCEPT ![r] = "PENDING"]
    /\ job' = [job EXCEPT ![r] = callJob[c]]
    /\ callPc' = [callPc EXCEPT ![c] = "send"]
    /\ callReq' = [callReq EXCEPT ![c] = r]
    /\ UNCHANGED <<callJob, broker, work, events, lost, runs, requeued, budgets>>

CallReturns(c) ==
    /\ callPc' = [callPc EXCEPT ![c] = "idle"]
    /\ callJob' = [callJob EXCEPT ![c] = NoJob]
    /\ callReq' = [callReq EXCEPT ![c] = NoRequest]

\* create: sendToAmazonQueue.  The new_request it then sends to the API's own
\* queue is discarded by the consumer as not recognized.
CreateSend(c) ==
    /\ callPc[c] = "send"
    /\ amazonQ' = amazonQ \cup {callReq[c]}
    /\ CallReturns(c)
    /\ UNCHANGED <<docs, delivered, connected, work, events, lost, runs, requeued, budgets>>

\* create: sendToAmazonQueue throws; the document stays as it was inserted.
CreateSendFails(c) ==
    /\ callPc[c] = "send"
    /\ Fault
    /\ Abandon(callReq[c])
    /\ CallReturns(c)
    /\ UNCHANGED <<docs, broker, work, events, runs, requeued>>

\* updateStatus, called by cancel: any document, whatever its status, no event.
Cancel(r) ==
    /\ Exists(r)
    /\ SetStatus(r, "CANCELED")
    /\ UNCHANGED <<job, calls, broker, work, events, lost, runs, requeued, budgets>>

\* remove: the message of the request, if it has one, stays in the broker.
Remove(r) ==
    /\ Exists(r)
    /\ SetStatus(r, "removed")
    /\ UNCHANGED <<job, calls, broker, work, events, lost, runs, requeued, budgets>>

\* The consumer's request_updated branch: findById, then checkPipeline on what
\* it read (module PipelineStatus).
HandleUpdate(r) ==
    /\ r \in apiQ
    /\ apiQ' = apiQ \ {r}
    /\ view' = [view EXCEPT ![r] = status[r]]
    /\ missed' = missed \ {r}
    /\ UNCHANGED <<docs, calls, broker, work, lost, runs, requeued, budgets>>

\* The API process dies (and is started again): create calls end where they
\* are, and so do the handlers of events, which were acknowledged on arrival.
ApiCrash(handling) ==
    /\ crashes < MaxCrashes
    /\ crashes' = crashes + 1
    /\ callPc' = [c \in Calls |-> "idle"]
    /\ callJob' = [c \in Calls |-> NoJob]
    /\ callReq' = [c \in Calls |-> NoRequest]
    /\ lost' = lost \cup {r \in Requests : Publishing(r)}
    /\ apiQ' = apiQ \ handling
    /\ missed' = missed \cup handling
    /\ UNCHANGED <<docs, broker, work, view, runs, requeued, drops, faults>>

-----------------------------------------------------------------------------
(* The broker, and the scrapper replicas.                                  *)

\* basic_consume without basic_qos: any number of messages to any replica.
Deliver(w, r) ==
    /\ connected[w]
    /\ r \in amazonQ
    /\ amazonQ' = amazonQ \ {r}
    /\ delivered' = [delivered EXCEPT ![w] = @ \cup {r}]
    /\ UNCHANGED <<docs, calls, connected, work, events, lost, runs, requeued, budgets>>

\* Mutant of Take: the message is acknowledged before the work.
TakeAndAck(w, r) ==
    /\ workPc[w] = "idle"
    /\ r \in delivered[w]
    /\ workPc' = [workPc EXCEPT ![w] = "starting"]
    /\ workReq' = [workReq EXCEPT ![w] = r]
    /\ runs' = [runs EXCEPT ![r] = @ + 1]
    /\ delivered' = [delivered EXCEPT ![w] = @ \ {r}]
    /\ UNCHANGED <<docs, calls, amazonQ, connected, events, lost, requeued, budgets>>

\* The callback begins on one of the messages the replica holds.
Take(w, r) ==
    /\ workPc[w] = "idle"
    /\ r \in delivered[w]
    /\ workPc' = [workPc EXCEPT ![w] = "starting"]
    /\ workReq' = [workReq EXCEPT ![w] = r]
    /\ runs' = [runs EXCEPT ![r] = @ + 1]
    /\ UNCHANGED <<docs, calls, broker, events, lost, requeued, budgets>>

Goto(w, pc) ==
    /\ workPc' = [workPc EXCEPT ![w] = pc]
    /\ UNCHANGED <<job, calls, broker, workReq, runs, requeued>>

\* A status is written in two steps, update_one and then sendUpdateRequest, with
\* anything in between: Start, Complete and Error are the writes, which the
\* callback announces next.
Write(w, s, to) ==
    /\ SetStatus(workReq[w], s)
    /\ Goto(w, to)
    /\ UNCHANGED <<events, lost, budgets>>

\* setRequestInProgress: the status the document has is not looked at.
Start(w) == workPc[w] = "starting" /\ Write(w, "IN_PROGRESS", "started")

\* setRequestInProgress raises before its write, outside scrapeUrl's try: the
\* callback's own except swallows it and the message is acknowledged, the job
\* not done.
StartFails(w) ==
    /\ workPc[w] = "starting"
    /\ Fault
    /\ Abandon(workReq[w])
    /\ Goto(w, "acking")
    /\ UNCHANGED <<status, events>>

\* The scraping returned, with results or having given up: completeRequest.
Complete(w) ==
    /\ workPc[w] = "scraping"
    /\ job[workReq[w]] \in Supported
    /\ Write(w, "COMPLETED", "completed")

\* completeRequest raises before its write, inside the try.
CompleteFails(w) ==
    /\ workPc[w] = "scraping"
    /\ job[workReq[w]] \in Supported
    /\ Fault
    /\ Goto(w, "failing")
    /\ UNCHANGED <<status, events, lost>>

\* Mutant of ScrapeFails: the callback ends without errorRequest.
ScrapeFailsQuietly(w) ==
    /\ workPc[w] = "scraping"
    /\ Goto(w, "acking")
    /\ UNCHANGED <<status, events, lost, budgets>>

\* The scraping raised, or the marketplace is not supported.
ScrapeFails(w) ==
    /\ workPc[w] = "scraping"
    /\ Goto(w, "failing")
    /\ UNCHANGED <<status, events, lost, budgets>>

\* Mutant of Error: the scraping is tried again without a bound.
ErrorRetries(w) ==
    /\ workPc[w] = "failing"
    /\ Goto(w, "scraping")
    /\ UNCHANGED <<status, events, lost, budgets>>

\* errorRequest.
Error(w) == workPc[w] = "failing" /\ Write(w, "ERROR", "failed")

\* errorRequest raises before its write: only the callback's except is left.
ErrorFails(w) ==
    /\ workPc[w] = "failing"
    /\ Fault
    /\ Abandon(workReq[w])
    /\ Goto(w, "acking")
    /\ UNCHANGED <<status, events>>

\* Where the callback goes on after a status has been announced.
Announced(w) == IF workPc[w] = "started" THEN "scraping" ELSE "acking"

\* Mutant of Announce: no send.
AnnounceNothing(w) ==
    /\ Announcing(w, workReq[w])
    /\ Goto(w, Announced(w))
    /\ UNCHANGED <<status, events, lost, budgets>>

\* sendUpdateRequest, after the write.
Announce(w) ==
    /\ Announcing(w, workReq[w])
    /\ apiQ' = apiQ \cup {workReq[w]}
    /\ Goto(w, Announced(w))
    /\ UNCHANGED <<status, view, missed, lost, budgets>>

\* The write was made, its publication raises: out of setRequestInProgress and
\* of errorRequest into the callback's except, out of completeRequest into the
\* one of scrapeUrl, which writes ERROR over COMPLETED.
AnnounceFails(w) ==
    /\ Announcing(w, workReq[w])
    /\ Fault
    /\ missed' = missed \cup {workReq[w]}
    /\ lost' = lost \cup {r \in Requests : Unfinished(w, r)}
    /\ Goto(w, IF workPc[w] = "completed" THEN "failing" ELSE "acking")
    /\ UNCHANGED <<status, apiQ, view>>

\* Mutant of Ack: the callback returns without basic_ack.
AckForgotten(w) ==
    /\ workPc[w] = "acking"
    /\ connected[w]
    /\ workPc' = [workPc EXCEPT ![w] = "idle"]
    /\ workReq' = [workReq EXCEPT ![w] = NoRequest]
    /\ UNCHANGED <<docs, calls, broker, events, lost, runs, requeued, budgets>>

\* basic_ack, the last thing the callback does.
Ack(w) ==
    /\ workPc[w] = "acking"
    /\ connected[w]
    /\ delivered' = [delivered EXCEPT ![w] = @ \ {workReq[w]}]
    /\ workPc' = [workPc EXCEPT ![w] = "idle"]
    /\ workReq' = [workReq EXCEPT ![w] = NoRequest]
    /\ UNCHANGED <<docs, calls, amazonQ, connected, events, lost, runs, requeued, budgets>>

Stop(w) ==
    /\ workPc' = [workPc EXCEPT ![w] = "dead"]
    /\ workReq' = [workReq EXCEPT ![w] = NoRequest]

\* basic_ack on a connection the broker has closed raises out of
\* start_consuming: the replica exits.
AckFails(w) ==
    /\ workPc[w] = "acking"
    /\ ~connected[w]
    /\ Stop(w)
    /\ UNCHANGED <<docs, calls, broker, events, lost, runs, requeued, budgets>>

CountRequeue(w) ==
    requeued' = [r \in Requests |->
        IF Executing(w) /\ r = workReq[w] /\ r \in delivered[w]
        THEN requeued[r] + 1 ELSE requeued[r]]

\* The broker gives every message a closed connection held to someone else.
TakeBack(w) ==
    /\ amazonQ' = amazonQ \cup delivered[w]
    /\ delivered' = [delivered EXCEPT ![w] = {}]
    /\ connected' = [connected EXCEPT ![w] = FALSE]
    /\ CountRequeue(w)

\* A callback that scrapes answers no heartbeats: the broker may close the
\* connection of a replica that is alive and goes on.
Drop(w) ==
    /\ Executing(w)
    /\ connected[w]
    /\ drops < MaxDrops
    /\ drops' = drops + 1
    /\ TakeBack(w)
    /\ UNCHANGED <<docs, calls, work, events, lost, runs, crashes, faults>>

Crash(w) ==
    /\ workPc[w] # "dead"
    /\ crashes < MaxCrashes
    /\ crashes' = crashes + 1
    /\ TakeBack(w)
    /\ lost' = lost \cup {r \in Requests : Unfinished(w, r) /\ ~connected[w]}
    /\ missed' = missed \cup {r \in Requests : Announcing(w, r)}
    /\ Stop(w)
    /\ UNCHANGED <<docs, calls, apiQ, view, runs, drops, faults>>

\* Nothing restarts a replica but its operator.
Restart(w) ==
    /\ workPc[w] = "dead"
    /\ workPc' = [workPc EXCEPT ![w] = "idle"]
    /\ connected' = [connected EXCEPT ![w] = TRUE]
    /\ UNCHANGED <<docs, calls, amazonQ, delivered, workReq, events, lost, runs, requeued, budgets>>

-----------------------------------------------------------------------------
Callback(w) ==
    \/ \E r \in Requests : Take(w, r)
    \/ Start(w) \/ StartFails(w)
    \/ Complete(w) \/ CompleteFails(w)
    \/ ScrapeFails(w)
    \/ Error(w) \/ ErrorFails(w)
    \/ Announce(w) \/ AnnounceFails(w)
    \/ Ack(w) \/ AckFails(w)

CreateProceeds(c) ==
    \/ \E r \in Requests : CreateInsert(c, r)
    \/ CreateSend(c) \/ CreateSendFails(c)

Next ==
    \/ \E c \in Calls, j \in Jobs : CreateCheck(c, j)
    \/ \E c \in Calls : CreateProceeds(c)
    \/ \E r \in Requests : Cancel(r) \/ Remove(r) \/ HandleUpdate(r)
    \/ \E handling \in SUBSET apiQ : ApiCrash(handling)
    \/ \E w \in Workers, r \in Requests : Deliver(w, r)
    \/ \E w \in Workers : Callback(w) \/ Drop(w) \/ Crash(w) \/ Restart(w)

Spec == Init /\ [][Next]_vars

\* A create call runs on, the broker hands out what is ready, a callback runs
\* to its end, the API handles its events.  Nobody has to cancel, to remove or
\* to restart anything, and nothing has to fail.  That a callback runs to its end
\* is assumed of the scraping itself: the one search that does not end is the
\* subject of module PageScraping.
Fairness ==
    /\ \A c \in Calls : WF_vars(CreateProceeds(c))
    /\ \A r \in Requests : WF_vars(\E w \in Workers : Deliver(w, r))
    /\ \A r \in Requests : WF_vars(HandleUpdate(r))
    /\ \A w \in Workers : WF_vars(Callback(w))

FairSpec == Spec /\ Fairness
-----------------------------------------------------------------------------
(* Properties.                                                             *)

\* The broker never holds the message of a request twice: it is ready, or it
\* is with exactly one replica (basic_consume and the requeue of main.py's
\* unacknowledged deliveries).
OneHolder ==
    /\ \A w \in Workers : delivered[w] \cap amazonQ = {}
    /\ \A v, w \in Workers : v # w => delivered[v] \cap delivered[w] = {}

\* Two replicas execute the same request at once only when the broker has
\* given up the connection of one of them.
SingleConnectedExecutor ==
    \A v, w \in Workers :
        v # w /\ Executing(v) /\ Executing(w) /\ workReq[v] = workReq[w]
            => ~connected[v] \/ ~connected[w]

\* A request that shows PENDING or IN_PROGRESS is still somebody's: a create
\* call about to publish it, the broker, or a replica that will write its final
\* status - unless a failed handler abandoned it.  A crash of a replica alone
\* abandons nothing, since main.py acknowledges last.
NoLostRequest ==
    \A r \in Requests :
        status[r] \in {"PENDING", "IN_PROGRESS"} /\ r \notin lost =>
            \/ Publishing(r)
            \/ InBroker(r)
            \/ \E w \in Workers : Unfinished(w, r)

\* A request is executed once, and once more for every time its message was
\* taken back from a begun execution: create's dedupe, the replicas and the
\* scrapper's retries add no execution of their own.
RedeliveryBound ==
    \A r \in Requests : runs[r] <= 1 + requeued[r]

\* The calls that have found no PENDING request for j and not inserted yet.
Inserting(j) == {c \in Calls : callPc[c] = "insert" /\ callJob[c] = j}

\* The findOne in create does not keep equal PENDING requests apart when calls
\* overlap: two calls that both found none insert one each.  But those there are,
\* with those that calls are about to insert, are never more than the calls that
\* may be in flight at once: one call after the other makes no second.
PendingBound ==
    \A j \in Jobs :
        Cardinality(PendingFor(j)) + Cardinality(Inserting(j)) <= Cardinality(Calls)

\* The status a replica wrote last is the one the API read last, unless a
\* replica is about to announce it (requests.py writes, then sends), an event
\* that will make the API read again is waiting, or the last one was lost: with
\* a publication that raised, with a replica that died between its write and its
\* send, or with the API process that was handling it.
ViewFresh ==
    \A r \in Requests :
        status[r] \in {"IN_PROGRESS", "COMPLETED", "ERROR"} =>
            \/ view[r] = status[r] \/ r \in apiQ \/ r \in missed
            \/ \E w \in Workers : Announcing(w, r)

\* A final status is written over by another replica status only by the
\* execution of a redelivered message, or where a publication or write failed.
FinalStatus(r) == status[r] \in {"COMPLETED", "ERROR"}
FinishedStays ==
    [][\A r \in Requests :
          FinalStatus(r) /\ status'[r] # status[r]
              /\ status'[r] \notin {"CANCELED", "removed"}
              => requeued[r] > 0 \/ faults > 0]_vars

\* A request that shows PENDING or IN_PROGRESS comes to a final status, or is
\* canceled or removed, or was abandoned.
EverySettles ==
    \A r \in Requests :
        status[r] \in {"PENDING", "IN_PROGRESS"} ~>
            status[r] \notin {"PENDING", "IN_PROGRESS"} \/ r \in lost

\* The API comes to see the final status of every request it was told of.
EverySeen ==
    \A r \in Requests :
        FinalStatus(r) ~> view[r] = status[r] \/ ~FinalStatus(r) \/ r \in missed

\* AMAZON_QUEUE and the replicas together are a queue that acknowledges after
\* the work.
Stage(r) ==
    IF InBroker(r) THEN "queued" ELSE IF runs[r] > 0 THEN "done" ELSE "none"
Contract == INSTANCE AtLeastOnce WITH stage <- [r \in Requests |-> Stage(r)]
ImplementsContract == Contract!Spec
ImplementsFairContract == Contract!FairSpec
=============================================================================
