--------------------------- MODULE PipelineStatus ---------------------------
(***************************************************************************)
(* The pipeline flags of one product of a user: who writes them, and from  *)
(* what it has read.                                                       *)
(*                                                                         *)
(*  - findProductInMarketplaces makes a FIND_PRODUCT request and resets    *)
(*    the flags, both at once: it waits for neither;                       *)
(*  - checkPipeline, called by the consumer for a request_updated and an   *)
(*    update_pipeline event, reads the product and its requests, and       *)
(*    writes all the flags;                                                *)
(*  - getFacts writes all the flags, as it has read them, with buildFacts; *)
(*  - generateReviews writes done.                                         *)
(*                                                                         *)
(* What the flags summarise changes in ways that end in such a check: the  *)
(* replicas write a status and then announce it, checkProductMatches of    *)
(* the openai service writes the matches and then sends update_pipeline.   *)
(* It also changes silently: create inserts, cancel and remove write a     *)
(* request, verifyProduct and update write the matches, buildFacts empties *)
(* the facts, and none of them has the flags checked.                      *)
(*                                                                         *)
(* readProducts and readReviews are left out.  They follow the requests of *)
(* the matches, whose request_updated events make checkPipeline write to   *)
(* the document of the match: nothing brings them up to date in this one.  *)
(*                                                                         *)
(* How requests are executed is in module RequestQueue, how matches are    *)
(* found in Discovery, scored in Matching, facts and reviews made in       *)
(* Generation; what a page shows of all this is in ProductPage.            *)
(***************************************************************************)
EXTENDS Integers, Sequences

CONSTANTS
    Searches,    \* calls of findProductInMarketplaces, and their requests
    Matches,     \* products that a search finds
    Handlers,    \* calls of updatePipeline that run at once: a bound
    Writers,     \* writers of the whole array of matches at once: a bound
    None,
    Asked,       \* getFacts has asked OpenAI
    MaxQueue,    \* bound on the events in the queue
    MaxCalls,    \* bound on the calls of the user, and of what other events call
    MaxFailures  \* bound on crashes and publications that fail

Pipeline == [findInMarketplaces : BOOLEAN, matching : BOOLEAN, buildFacts : BOOLEAN, done : BOOLEAN]

NoFlags == [findInMarketplaces |-> FALSE, matching |-> FALSE, buildFacts |-> FALSE, done |-> FALSE]

UpdatePipeline == "update_pipeline"

ASSUME ConstantsAssumption ==
    /\ UpdatePipeline \notin Searches
    /\ None \notin Pipeline /\ Asked \notin Pipeline /\ None # Asked
    /\ MaxQueue \in Nat
    /\ MaxCalls \in Nat
    /\ MaxFailures \in Nat

VARIABLES
    status,     \* status of each FIND_PRODUCT request; "ended" is any that is final
    stage,      \* what create, and then the replicas, have done of it
    listed,     \* products in the matches of the product
    scored,     \* those with a percentage
    facts,      \* whether the product has facts
    generated,  \* whether reviews were generated from them
    pipeline,   \* the flags of the document
    queue,      \* API_QUEUE: update_pipeline events, or the request updated
    at,         \* where each handler is
    seen,       \* the product as each handler has read it
    pending,    \* whether it has read a FIND_PRODUCT request that is not over
    computed,   \* the flags it writes
    copy,       \* the flags getFacts has read, or Asked, or None
    doing,      \* what each writer of the matches does
    array,      \* the matches as it has read them
    stale,      \* history: the last flags written were not those of the moment,
                \* or what they summarise has changed silently since
    calls,
    failures

documents == <<status, listed, scored, facts, generated, pipeline>>
handler   == <<at, seen, pending, computed>>
writer    == <<doing, array>>
vars      == <<documents, stage, queue, handler, copy, writer, stale, calls, failures>>

Product == [listed : SUBSET Matches, scored : SUBSET Matches, facts : BOOLEAN]
Nothing == [listed |-> {}, scored |-> {}, facts |-> FALSE]

Array == [listed : SUBSET Matches, scored : SUBSET Matches]
Empty == [listed |-> {}, scored |-> {}]

TypeOK ==
    /\ status \in [Searches -> {"absent", "PENDING", "IN_PROGRESS", "ended"}]
    /\ stage \in [Searches -> {"none", "asked", "sought", "inserted", "waiting",
                              "begun", "running", "ended", "failed", "over"}]
    /\ listed \subseteq Matches
    /\ scored \subseteq Matches
    /\ facts \in BOOLEAN
    /\ generated \in BOOLEAN
    /\ pipeline \in Pipeline
    /\ queue \in Seq(Searches \cup {UpdatePipeline})
    /\ at \in [Handlers -> {"idle", "product", "origin", "requests", "write"}]
    /\ seen \in [Handlers -> Product]
    /\ pending \in [Handlers -> BOOLEAN]
    /\ computed \in [Handlers -> Pipeline]
    /\ copy \in Pipeline \cup {None, Asked}
    /\ doing \in [Writers -> {"idle", "check", "verify", "edit", "sending"}]
    /\ array \in [Writers -> Array]
    /\ stale \in BOOLEAN
    /\ calls \in Nat
    /\ failures \in Nat

Init ==
    /\ status = [s \in Searches |-> "absent"]
    /\ stage = [s \in Searches |-> "none"]
    /\ listed = {}
    /\ scored = {}
    /\ facts = FALSE
    /\ generated = FALSE
    /\ pipeline = NoFlags
    /\ queue = <<>>
    /\ at = [h \in Handlers |-> "idle"]
    /\ seen = [h \in Handlers |-> Nothing]
    /\ pending = [h \in Handlers |-> FALSE]
    /\ computed = [h \in Handlers |-> NoFlags]
    /\ copy = None
    /\ doing = [c \in Writers |-> "idle"]
    /\ array = [c \in Writers |-> Empty]
    /\ stale = TRUE
    /\ calls = 0
    /\ failures = 0

-----------------------------------------------------------------------------
(* The flags.                                                              *)

\* Whether a search is PENDING or IN_PROGRESS (findByProduct, filtered).
Searching == \E s \in Searches : status[s] \in {"PENDING", "IN_PROGRESS"}

\* The flags checkPipeline computes.
Flags(p, searching) ==
    LET some == p.listed # {}
    IN  [findInMarketplaces |-> ~searching,
         matching           |-> some /\ p.listed \subseteq p.scored,
         buildFacts         |-> some /\ p.facts,
         done               |-> FALSE]

Now == [listed |-> listed, scored |-> scored, facts |-> facts]

Current == Flags(Now, Searching)

\* The status findAll gives the product in the list, where DONE is ERROR too: a
\* search that ended may have failed.
ListStatus ==
    LET statuses == {status[s] : s \in Searches}
    IN  CASE "IN_PROGRESS" \in statuses -> "PROCESSING"
          [] "IN_PROGRESS" \notin statuses /\ "PENDING" \in statuses -> "PENDING"
          [] OTHER -> "DONE"

\* done is not a flag of the documents: it is what was written last.
Agree(f, g) ==
    /\ f.findInMarketplaces = g.findInMarketplaces
    /\ f.matching = g.matching
    /\ f.buildFacts = g.buildFacts

\* The flags are written: do they fit the moment?
WriteFlags(f) ==
    /\ pipeline' = f
    /\ stale' = ~Agree(f, Current')

\* What the flags summarise may change, and nobody is told to check them.
Silently == stale' = (stale \/ ~Agree(Current, Current'))

\* A call of the user, or of the consumer for an event of another module.
Call == calls < MaxCalls /\ calls' = calls + 1

Failure == failures < MaxFailures /\ failures' = failures + 1

Queued(e) == \E i \in 1 .. Len(queue) : queue[i] = e

Send(e) ==
    /\ Len(queue) < MaxQueue
    /\ queue' = Append(queue, e)

-----------------------------------------------------------------------------
(* Calls of the user.                                                      *)

\* findProductInMarketplaces calls requestsService.create and resetPipeline, and
\* waits for neither.
Find(h, s) ==
    /\ Call
    /\ at[h] = "idle"
    /\ stage[s] = "none"
    /\ stage' = [stage EXCEPT ![s] = "asked"]
    /\ at' = [at EXCEPT ![h] = "write"]
    /\ computed' = [computed EXCEPT ![h] = NoFlags]
    /\ UNCHANGED <<documents, queue, seen, pending, copy, writer, stale, failures>>

\* create: the findOne that looks for an equal PENDING request.
Look(s) ==
    /\ stage[s] = "asked"
    /\ stage' = [stage EXCEPT ![s] = IF \E z \in Searches : status[z] = "PENDING"
                                     THEN "over" ELSE "sought"]
    /\ UNCHANGED <<documents, queue, handler, copy, writer, stale, calls, failures>>

\* create: the document is inserted, whatever has changed since.
Insert(s) ==
    /\ stage[s] = "sought"
    /\ stage' = [stage EXCEPT ![s] = "inserted"]
    /\ status' = [status EXCEPT ![s] = "PENDING"]
    /\ UNCHANGED <<listed, scored, facts, generated, pipeline, queue, handler, copy,
                   writer, calls, failures>>
    /\ Silently

\* create: the request is published.  When that throws, nobody catches it and the
\* process dies: see Crash.
Publish(s) ==
    /\ stage[s] = "inserted"
    /\ stage' = [stage EXCEPT ![s] = "waiting"]
    /\ UNCHANGED <<documents, queue, handler, copy, writer, stale, calls, failures>>

\* cancel and remove write the document; the consumer checks nothing for a
\* request that is no longer there.
WriteQuietly(s, new) ==
    /\ Call
    /\ status' = [status EXCEPT ![s] = new]
    /\ UNCHANGED <<listed, scored, facts, generated, pipeline, stage, queue, handler, copy,
                   writer, failures>>
    /\ stale' = (stale \/ ~Agree(Current, Current') \/ Queued(s))

\* Canceling a request that has ended changes nothing here.
Cancel(s) == status[s] \in {"PENDING", "IN_PROGRESS"} /\ WriteQuietly(s, "ended")

Remove(s) == status[s] = "ended" /\ WriteQuietly(s, "absent")

\* buildFacts empties the facts; that getFacts will make others is another event.
BuildFacts ==
    /\ Call
    /\ facts
    /\ facts' = FALSE
    /\ UNCHANGED <<status, listed, scored, generated, pipeline, stage, queue, handler, copy,
                   writer, failures>>
    /\ Silently

-----------------------------------------------------------------------------
(* The replicas.                                                           *)

\* setRequestInProgress, completeRequest and errorRequest write the document, if
\* it is still there, and announce it next.
Update(s, from, to, new) ==
    /\ stage[s] = from
    /\ stage' = [stage EXCEPT ![s] = to]
    /\ status' = [status EXCEPT ![s] = IF @ = "absent" THEN @ ELSE new]
    /\ UNCHANGED <<listed, scored, facts, generated, pipeline, queue, handler, copy, writer,
                   stale, calls, failures>>

Begin(s) == Update(s, "waiting", "begun", "IN_PROGRESS")

\* addMatchesToProduct.
List(s) ==
    /\ stage[s] = "running"
    /\ \E ms \in SUBSET Matches : listed' = listed \cup ms
    /\ UNCHANGED <<scored, facts, generated, status, stage, pipeline, queue, handler, copy,
                   writer, stale, calls, failures>>

End(s) == Update(s, "running", "ended", "ended")

\* sendUpdateRequest publishes request_updated, for which nothing will be checked
\* if the request was removed.
Announce(s) ==
    /\ stage[s] \in {"begun", "ended", "failed"}
    /\ stage' = [stage EXCEPT ![s] = IF @ = "begun" THEN "running" ELSE "over"]
    /\ Send(s)
    /\ stale' = (stale \/ status[s] = "absent")
    /\ UNCHANGED <<documents, handler, copy, writer, calls, failures>>

\* It raises: a search that began is not executed, one that completed is written
\* again by errorRequest, which announces it once more.
AnnounceFails(s) ==
    /\ stage[s] \in {"begun", "ended", "failed"}
    /\ Failure
    /\ stage' = [stage EXCEPT ![s] = IF @ = "ended" THEN "failed" ELSE "over"]
    /\ status' = [status EXCEPT ![s] =
                      IF stage[s] = "ended" /\ @ # "absent" THEN "ended" ELSE @]
    /\ stale' = TRUE
    /\ UNCHANGED <<listed, scored, facts, generated, pipeline, queue, handler, copy, writer, calls>>

\* The replica dies, and the broker gives the request to another.
ReplicaDies(s) ==
    /\ stage[s] \in {"begun", "running", "ended", "failed"}
    /\ Failure
    /\ stage' = [stage EXCEPT ![s] = "waiting"]
    /\ stale' = TRUE
    /\ UNCHANGED <<documents, queue, handler, copy, writer, calls>>

-----------------------------------------------------------------------------
(* The writers of the matches.  All read the whole array and write it whole.  *)

\* checkProductMatches, called for a match that was listed, verifyProduct, or the
\* edit page, which loads the product.
ReadMatches(c, what) ==
    /\ Call
    /\ doing[c] = "idle"
    /\ listed # {}
    /\ doing' = [doing EXCEPT ![c] = what]
    /\ array' = [array EXCEPT ![c] = [listed |-> listed, scored |-> scored]]
    /\ UNCHANGED <<documents, stage, queue, handler, copy, stale, failures>>

\* The matches are written as they were read, with a percentage for one of them,
\* or for none.
WriteMatches(c, ms, next) ==
    /\ listed' = array[c].listed
    /\ scored' = array[c].scored \cup (ms \cap array[c].listed)
    /\ doing' = [doing EXCEPT ![c] = next]
    /\ array' = [array EXCEPT ![c] = Empty]
    /\ UNCHANGED <<status, facts, generated, pipeline, stage, queue, handler, copy, calls, failures>>

\* OpenAI has answered with a probability: what product_updated and
\* update_pipeline announce comes next.
Score(c, m) ==
    /\ doing[c] = "check"
    /\ WriteMatches(c, {m}, "sending")
    /\ UNCHANGED stale

\* It has answered with none, or the user leaves the edit page.
GiveUp(c) ==
    /\ doing[c] \in {"check", "edit"}
    /\ doing' = [doing EXCEPT ![c] = "idle"]
    /\ array' = [array EXCEPT ![c] = Empty]
    /\ UNCHANGED <<documents, stage, queue, handler, copy, stale, calls, failures>>

\* verifyProduct gives a match 100; update writes what the page sends back.
Verify(c, m) == doing[c] = "verify" /\ WriteMatches(c, {m}, "idle") /\ Silently

Edit(c) == doing[c] = "edit" /\ WriteMatches(c, {}, "idle") /\ Silently

\* Mutant of SendPipeline: product_updated is sent, update_pipeline is not.
SendNothing(c) ==
    /\ doing[c] = "sending"
    /\ doing' = [doing EXCEPT ![c] = "idle"]
    /\ UNCHANGED <<documents, stage, queue, handler, copy, array, stale, calls, failures>>

SendPipeline(c) ==
    /\ doing[c] = "sending"
    /\ doing' = [doing EXCEPT ![c] = "idle"]
    /\ Send(UpdatePipeline)
    /\ UNCHANGED <<documents, stage, handler, copy, array, stale, calls, failures>>

\* One of the two events is not sent: sendToApiQueue throws.
SendPipelineFails(c) ==
    /\ doing[c] = "sending"
    /\ Failure
    /\ doing' = [doing EXCEPT ![c] = "idle"]
    /\ stale' = TRUE
    /\ UNCHANGED <<documents, stage, queue, handler, copy, array, calls>>

-----------------------------------------------------------------------------
(* getFacts and generateReviews.                                           *)

\* getFacts asks OpenAI for the facts of a product that has matches ...
AskFacts ==
    /\ Call
    /\ copy = None
    /\ listed # {}
    /\ copy' = Asked
    /\ UNCHANGED <<documents, stage, queue, handler, writer, stale, failures>>

\* ... reads the product again when it has answered ...
ReadPipeline ==
    /\ copy = Asked
    /\ copy' = pipeline
    /\ UNCHANGED <<documents, stage, queue, handler, writer, stale, calls, failures>>

\* ... and writes the facts with the flags it has read, and buildFacts.
WriteFacts ==
    /\ copy \notin {None, Asked}
    /\ facts' = TRUE
    /\ copy' = None
    /\ UNCHANGED <<status, listed, scored, generated, stage, queue, handler, writer, calls, failures>>
    /\ WriteFlags([copy EXCEPT !.buildFacts = TRUE])

\* The answer is empty, or the call failed.
NoFacts ==
    /\ copy = Asked
    /\ copy' = None
    /\ UNCHANGED <<documents, stage, queue, handler, writer, stale, calls, failures>>

\* generateReviews writes one flag; its test of the facts always passes, as an
\* empty array is true.
GenerateReviews ==
    /\ Call
    /\ generated' = TRUE
    /\ pipeline' = [pipeline EXCEPT !.done = TRUE]
    /\ UNCHANGED <<status, listed, scored, facts, stage, queue, handler, copy, writer,
                   stale, failures>>

-----------------------------------------------------------------------------
(* The consumer, checkPipeline and updatePipeline.                         *)

\* Whether the consumer checks the pipeline for an event: a request_updated
\* only if findById still finds the request.
Checks(e) == e = UpdatePipeline \/ status[e] # "absent"

Deliver ==
    /\ queue # <<>>
    /\ queue' = Tail(queue)
    /\ IF Checks(Head(queue))
       THEN \E h \in Handlers : at[h] = "idle" /\ at' = [at EXCEPT ![h] = "product"]
       ELSE UNCHANGED at
    /\ UNCHANGED <<documents, stage, seen, pending, computed, copy, writer, stale, calls, failures>>

\* productModel.findById.
ReadProduct(h) ==
    /\ at[h] = "product"
    /\ at' = [at EXCEPT ![h] = "origin"]
    /\ seen' = [seen EXCEPT ![h] = Now]
    /\ UNCHANGED <<documents, stage, queue, pending, computed, copy, writer, stale, calls, failures>>

\* requestsService.findByProduct of the original product ...
ReadRequestsOrigin(h) ==
    /\ at[h] = "origin"
    /\ at' = [at EXCEPT ![h] = "requests"]
    /\ pending' = [pending EXCEPT ![h] = Searching]
    /\ UNCHANGED <<documents, stage, queue, seen, computed, copy, writer, stale, calls, failures>>

\* ... and of the product of the event, which is the same here.
ReadRequests(h) ==
    /\ at[h] = "requests"
    /\ at' = [at EXCEPT ![h] = "write"]
    /\ computed' = [computed EXCEPT ![h] = Flags(seen[h], pending[h] \/ Searching)]
    /\ seen' = [seen EXCEPT ![h] = Nothing]
    /\ pending' = [pending EXCEPT ![h] = FALSE]
    /\ UNCHANGED <<documents, stage, queue, copy, writer, stale, calls, failures>>

\* Mutant of Write: checkPipeline ends the pipeline when the facts are there.
WriteDone(h) ==
    /\ at[h] = "write"
    /\ at' = [at EXCEPT ![h] = "idle"]
    /\ computed' = [computed EXCEPT ![h] = NoFlags]
    /\ UNCHANGED <<status, listed, scored, facts, generated, stage, queue, seen, pending, copy,
                   writer, calls, failures>>
    /\ WriteFlags([computed[h] EXCEPT !.done = computed[h].buildFacts])

\* updatePipeline writes the flags.
Write(h) ==
    /\ at[h] = "write"
    /\ at' = [at EXCEPT ![h] = "idle"]
    /\ computed' = [computed EXCEPT ![h] = NoFlags]
    /\ UNCHANGED <<status, listed, scored, facts, generated, stage, queue, seen, pending, copy,
                   writer, calls, failures>>
    /\ WriteFlags(computed[h])

\* The API dies and starts again: its calls and handlers are gone, and the events
\* it handled were acknowledged.  The edit page is not in this process.
Crash ==
    /\ Failure
    /\ stage' = [s \in Searches |->
                    IF stage[s] \in {"asked", "sought", "inserted"} THEN "over" ELSE stage[s]]
    /\ at' = [h \in Handlers |-> "idle"]
    /\ seen' = [h \in Handlers |-> Nothing]
    /\ pending' = [h \in Handlers |-> FALSE]
    /\ computed' = [h \in Handlers |-> NoFlags]
    /\ copy' = None
    /\ doing' = [c \in Writers |-> IF doing[c] = "edit" THEN "edit" ELSE "idle"]
    /\ array' = [c \in Writers |-> IF doing[c] = "edit" THEN array[c] ELSE Empty]
    /\ stale' = (stale \/ at' # at \/ \E c \in Writers : doing[c] = "sending")
    /\ UNCHANGED <<documents, queue, calls>>

-----------------------------------------------------------------------------
CheckPipeline(h) == ReadProduct(h) \/ ReadRequestsOrigin(h) \/ ReadRequests(h) \/ Write(h)

User ==
    \/ \E s \in Searches : Cancel(s) \/ Remove(s) \/ \E h \in Handlers : Find(h, s)
    \/ BuildFacts

Create == \E s \in Searches : Look(s) \/ Insert(s) \/ Publish(s)

Replica ==
    \E s \in Searches :
        Begin(s) \/ List(s) \/ End(s) \/ Announce(s) \/ AnnounceFails(s) \/ ReplicaDies(s)

Arrays ==
    \E c \in Writers :
        \/ \E what \in {"check", "verify", "edit"} : ReadMatches(c, what)
        \/ \E m \in Matches : Score(c, m) \/ Verify(c, m)
        \/ GiveUp(c) \/ Edit(c) \/ SendPipeline(c) \/ SendPipelineFails(c)

OpenAI == AskFacts \/ ReadPipeline \/ WriteFacts \/ NoFacts \/ GenerateReviews

Next ==
    User \/ Create \/ Replica \/ Arrays \/ OpenAI \/ Deliver \/ Crash
        \/ \E h \in Handlers : CheckPipeline(h)

Spec == Init /\ [][Next]_vars

-----------------------------------------------------------------------------
(* Properties.                                                             *)

\* No check of the product's pipeline is under way or to come.
AtRest ==
    /\ \A h \in Handlers : at[h] = "idle"
    /\ \A i \in 1 .. Len(queue) : ~Checks(queue[i])
    /\ \A s \in Searches : stage[s] \notin {"begun", "running", "ended", "failed"}
    /\ \A c \in Writers : doing[c] # "sending"

\* At rest the flags of the search, of the matches and of the facts are those
\* of the documents, whatever order checkPipeline, getFacts and the reset wrote
\* them in, unless the last of them wrote what had changed since it was read, or
\* a change came with nobody told (a new request before its reset, cancel, remove,
\* verifyProduct, update, buildFacts, a failure): the page of the product then
\* says that the search is over when the list of products does.
FlagsSettle ==
    AtRest /\ ~stale =>
        /\ Agree(pipeline, Current)
        /\ pipeline.findInMarketplaces <=> ListStatus = "DONE"

\* done says that reviews were generated, though getFacts writes it back as it
\* has read it, maybe after a reset.
DoneMeansGenerated ==
    /\ pipeline.done => generated
    /\ copy \in Pipeline => (copy.done => generated)
=============================================================================
