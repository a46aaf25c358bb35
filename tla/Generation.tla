----------------------------- MODULE Generation -----------------------------
(***************************************************************************)
(* From scraped reviews to facts, and from facts to new reviews.           *)
(*                                                                         *)
(* Three events of API_QUEUE and two calls of a user drive it:             *)
(*  - new_reviews_scrapped, of a replica that inserted reviews of a match, *)
(*    and generate_product_facts, of buildFacts: getFacts;                 *)
(*  - product_facts_generated, of getFacts, and generate_reviews, of       *)
(*    getNewReviews: generateReviews.                                      *)
(* The API acknowledges an event before it handles it and handles any      *)
(* number at once.  Of the four handlers it awaits two; what one of the    *)
(* other two throws is an unhandled rejection, which ends the process.     *)
(*                                                                         *)
(* There is one product.  Its facts are known by the matches whose reviews *)
(* OpenAI was given to find them.                                          *)
(***************************************************************************)
EXTENDS Integers, FiniteSets, FiniteSetsExt, Functions

CONSTANTS
    Matches,        \* matches whose reviews are requested
    FactsHandlers,  \* getFacts calls at the same time
    ReviewHandlers, \* generateReviews calls at the same time
    Yields,         \* whether a scraping may find reviews, and no reviews
    Numbers,        \* how many reviews a user asks for, or OpenAI writes
    MaxOthers,      \* bound on other requests of the matches, PENDING at once
    MaxBuilds,      \* bound on buildFacts calls
    MaxAsks,        \* bound on getNewReviews calls
    MaxFailures     \* bound on crashes and on calls that fail

Handlers == FactsHandlers \cup ReviewHandlers

ASSUME ConstantsAssumption ==
    /\ IsFiniteSet(Matches) /\ IsFiniteSet(Handlers)
    /\ FactsHandlers \cap ReviewHandlers = {}
    /\ Yields \subseteq BOOLEAN
    /\ Numbers \subseteq Nat
    /\ MaxOthers \in Nat
    /\ MaxBuilds \in Nat /\ MaxAsks \in Nat /\ MaxFailures \in Nat

VARIABLES
    job,            \* where the GET_REVIEWS request of each match is
    scraped,        \* matches with reviews in the database
    others,         \* PENDING requests of the matches that are not for reviews
    facts,          \* the facts of the product
    pendingReviews,
    events,         \* events waiting in API_QUEUE, by kind
    calls,          \* user calls between their write and their event, by kind
    handler,        \* what each handler is doing
    up,             \* whether the API runs
    causes,         \* history: events of replicas and calls of users
    builds, asks,   \* history: buildFacts and getNewReviews calls
    batches,        \* history: arrays of reviews generated
    used,           \* history: matches the generated reviews are based on
    turned,         \* history: the getFacts that counted last will throw for
                    \* requests that are not for reviews
    failures

scraping == <<job, scraped, others>>
product  == <<facts, pendingReviews>>
counts   == <<causes, builds, asks>>
output   == <<batches, used, turned>>
vars == <<scraping, product, events, calls, handler, up, counts, output, failures>>

Jobs == {"none", "PENDING", "scraping", "inserted", "ended"}
FactsEvents  == {"new_reviews_scrapped", "generate_product_facts"}
ReviewEvents == {"product_facts_generated", "generate_reviews"}
EventTypes   == FactsEvents \cup ReviewEvents
Awaited(e)   == e \in {"new_reviews_scrapped", "product_facts_generated"}

NoFacts == [built |-> FALSE, of |-> {}]
Facts == [built : BOOLEAN, of : SUBSET Matches]

Idle == [at |-> "idle", cause |-> "none", requests |-> 0, seen |-> {},
         facts |-> NoFacts, pendingReviews |-> 0]

TypeOK ==
    /\ job \in [Matches -> Jobs]
    /\ scraped \subseteq Matches
    /\ others \in Nat
    /\ facts \in Facts
    /\ pendingReviews \in Nat
    /\ events \in [EventTypes -> Nat]
    /\ calls \in [{"build", "ask"} -> Nat]
    /\ handler \in [Handlers ->
           [at : {"idle", "checking", "asking", "sending", "saving"},
            cause : EventTypes \cup {"none"},
            requests : Nat,          \* pending requests it found
            seen : SUBSET Matches,   \* matches whose reviews it read
            facts : Facts,           \* the facts when it read the product
            pendingReviews : Nat]]   \* the number it read, then the one to write
    /\ up \in BOOLEAN
    /\ causes \in Nat /\ builds \in Nat /\ asks \in Nat
    /\ batches \in Nat
    /\ used \subseteq Matches
    /\ turned \in BOOLEAN
    /\ failures \in Nat

Init ==
    /\ job = [m \in Matches |-> "none"]
    /\ scraped = {}
    /\ others = 0
    /\ facts = NoFacts
    /\ pendingReviews = 0
    /\ events = [e \in EventTypes |-> 0]
    /\ calls = [c \in {"build", "ask"} |-> 0]
    /\ handler = [h \in Handlers |-> Idle]
    /\ up = TRUE
    /\ causes = 0 /\ builds = 0 /\ asks = 0
    /\ batches = 0
    /\ used = {}
    /\ turned = FALSE
    /\ failures = 0

-----------------------------------------------------------------------------
(* The replicas, on AMAZON_QUEUE (module RequestQueue).                    *)

CreateRequest(m) ==
    /\ job[m] = "none"
    /\ job' = [job EXCEPT ![m] = "PENDING"]
    /\ UNCHANGED <<scraped, others, product, events, calls, handler, up, counts, output, failures>>

BeginRequest(m) ==
    /\ job[m] = "PENDING"
    /\ job' = [job EXCEPT ![m] = "scraping"]
    /\ UNCHANGED <<scraped, others, product, events, calls, handler, up, counts, output, failures>>

\* A match may have requests of another type, a GET_PRODUCT_INFO of the search
\* that found it or of a user; one is PENDING until a replica takes it, if one does.
RequestOther ==
    /\ others < MaxOthers
    /\ others' = others + 1
    /\ UNCHANGED <<job, scraped, product, events, calls, handler, up, counts, output, failures>>

BeginOther ==
    /\ others > 0
    /\ others' = others - 1
    /\ UNCHANGED <<job, scraped, product, events, calls, handler, up, counts, output, failures>>

\* getReviewsInAmazon: the reviews found are inserted; if there are none, or
\* the scraping failed four times, the request ends there.
InsertReviews(m) ==
    /\ job[m] = "scraping"
    /\ TRUE \in Yields
    /\ job' = [job EXCEPT ![m] = "inserted"]
    /\ scraped' = scraped \cup {m}
    /\ UNCHANGED <<others, product, events, calls, handler, up, counts, output, failures>>

InsertNothing(m) ==
    /\ job[m] = "scraping"
    /\ FALSE \in Yields
    /\ job' = [job EXCEPT ![m] = "ended"]
    /\ UNCHANGED <<scraped, others, product, events, calls, handler, up, counts, output, failures>>

\* Mutant of SendScraped: the event is left out.
SendScrapedNothing(m) ==
    /\ job[m] = "inserted"
    /\ job' = [job EXCEPT ![m] = "ended"]
    /\ causes' = causes + 1
    /\ UNCHANGED <<scraped, others, product, events, calls, handler, up, builds, asks, output, failures>>

SendScraped(m) ==
    /\ job[m] = "inserted"
    /\ job' = [job EXCEPT ![m] = "ended"]
    /\ events' = [events EXCEPT !["new_reviews_scrapped"] = @ + 1]
    /\ causes' = causes + 1
    /\ UNCHANGED <<scraped, others, product, calls, handler, up, builds, asks, output, failures>>

\* The event cannot be sent, and the request ends in ERROR.
SendScrapedFails(m) ==
    /\ job[m] = "inserted"
    /\ failures < MaxFailures
    /\ failures' = failures + 1
    /\ job' = [job EXCEPT ![m] = "ended"]
    /\ UNCHANGED <<scraped, others, product, events, calls, handler, up, counts, output>>

\* The replica dies before it acknowledges; the request is executed again.
Redeliver(m) ==
    /\ job[m] \in {"inserted", "ended"}
    /\ failures < MaxFailures
    /\ failures' = failures + 1
    /\ job' = [job EXCEPT ![m] = "scraping"]
    /\ UNCHANGED <<scraped, others, product, events, calls, handler, up, counts, output>>

-----------------------------------------------------------------------------
(* The calls of a user.                                                    *)

\* buildFacts: the facts are emptied, then the event is sent.
BuildFacts ==
    /\ up
    /\ builds < MaxBuilds
    /\ facts' = NoFacts
    /\ calls' = [calls EXCEPT !["build"] = @ + 1]
    /\ builds' = builds + 1
    /\ causes' = causes + 1
    /\ UNCHANGED <<scraping, pendingReviews, events, handler, up, asks, output, failures>>

\* getNewReviews: the number is written, then the event is sent.
GetNewReviews(n) ==
    /\ up
    /\ asks < MaxAsks
    /\ pendingReviews' = n
    /\ calls' = [calls EXCEPT !["ask"] = @ + 1]
    /\ asks' = asks + 1
    /\ causes' = causes + 1
    /\ UNCHANGED <<scraping, facts, events, handler, up, builds, output, failures>>

EventOf(c) == IF c = "build" THEN "generate_product_facts" ELSE "generate_reviews"

SendCall(c) ==
    /\ calls[c] > 0
    /\ calls' = [calls EXCEPT ![c] = @ - 1]
    /\ events' = [events EXCEPT ![EventOf(c)] = @ + 1]
    /\ UNCHANGED <<scraping, product, handler, up, counts, output, failures>>

SendCallFails(c) ==
    /\ calls[c] > 0
    /\ failures < MaxFailures
    /\ failures' = failures + 1
    /\ calls' = [calls EXCEPT ![c] = @ - 1]
    /\ UNCHANGED <<scraping, product, events, handler, up, counts, output>>

-----------------------------------------------------------------------------
(* The handlers.                                                           *)

Release(h) == handler' = [handler EXCEPT ![h] = Idle]

\* The API process ends, with everything it was doing.
Die ==
    /\ up' = FALSE
    /\ handler' = [h \in Handlers |-> Idle]
    /\ calls' = [c \in {"build", "ask"} |-> 0]

\* What a handler throws is caught and logged if it is awaited; if not, it is
\* an unhandled rejection.
Throw(h) ==
    \/ Awaited(handler[h].cause) /\ Release(h) /\ UNCHANGED <<up, calls>>
    \/ ~Awaited(handler[h].cause) /\ Die

\* Mutant of Take: the event stays in the queue.
TakeUnacked(h, e) ==
    /\ up
    /\ handler[h].at = "idle"
    /\ events[e] > 0
    /\ UNCHANGED events

\* An event is acknowledged and handed to a handler.
Take(h, e) ==
    /\ up
    /\ handler[h].at = "idle"
    /\ events[e] > 0
    /\ events' = [events EXCEPT ![e] = @ - 1]

PendingJobs == {m \in Matches : job[m] = "PENDING"}

\* The query names the matches and PENDING, and no type.
PendingRequests == Cardinality(PendingJobs) + others

\* getFacts: the product and the requests of its matches are read ...
TakeFacts(h, e) ==
    /\ Take(h, e)
    /\ handler' = [handler EXCEPT ![h] =
          [Idle EXCEPT !.at = "checking", !.cause = e, !.requests = PendingRequests]]
    /\ turned' = (PendingRequests > 1 /\ Cardinality(PendingJobs) <= 1)
    /\ UNCHANGED <<scraping, product, calls, up, counts, batches, used, failures>>

\* ... with more than one of them PENDING it throws ...
RejectFacts(h) ==
    /\ handler[h].at = "checking"
    /\ handler[h].requests > 1
    /\ Throw(h)
    /\ UNCHANGED <<scraping, product, events, counts, output, failures>>

\* Mutant of ReadReviews: the reviews of some matches are missed.
ReadSomeReviews(h) ==
    /\ handler[h].at = "checking"
    /\ handler[h].requests <= 1
    /\ \E S \in SUBSET scraped :
           handler' = [handler EXCEPT ![h].at = "asking", ![h].seen = S, ![h].facts = facts]
    /\ UNCHANGED <<scraping, product, events, calls, up, counts, output, failures>>

\* ... or else reads the scraped reviews of all matches and asks OpenAI ...
ReadReviews(h) ==
    /\ handler[h].at = "checking"
    /\ handler[h].requests <= 1
    /\ handler' = [handler EXCEPT ![h].at = "asking", ![h].seen = scraped, ![h].facts = facts]
    /\ UNCHANGED <<scraping, product, events, calls, up, counts, output, failures>>

\* Mutant of WriteFacts: the facts are not written.
WriteNoFacts(h) ==
    /\ handler[h].at = "asking"
    /\ handler' = [handler EXCEPT ![h].at = "sending"]
    /\ UNCHANGED <<scraping, product, events, calls, up, counts, output, failures>>

\* ... and writes the facts OpenAI found ...
WriteFacts(h) ==
    /\ handler[h].at = "asking"
    /\ facts' = [built |-> TRUE, of |-> handler[h].seen]
    /\ handler' = [handler EXCEPT ![h].at = "sending"]
    /\ UNCHANGED <<scraping, pendingReviews, events, calls, up, counts, output, failures>>

\* Mutant of SendFactsGenerated: the event is sent twice.
SendFactsTwice(h) ==
    /\ handler[h].at = "sending"
    /\ events' = [events EXCEPT !["product_facts_generated"] = @ + 2]
    /\ Release(h)
    /\ UNCHANGED <<scraping, product, calls, up, counts, output, failures>>

\* Mutant of SendFactsGenerated: the event is not sent.
SendFactsNever(h) ==
    /\ handler[h].at = "sending"
    /\ Release(h)
    /\ UNCHANGED <<scraping, product, events, calls, up, counts, output, failures>>

\* ... and sends its events.
SendFactsGenerated(h) ==
    /\ handler[h].at = "sending"
    /\ events' = [events EXCEPT !["product_facts_generated"] = @ + 1]
    /\ Release(h)
    /\ UNCHANGED <<scraping, product, calls, up, counts, output, failures>>

SendFactsFails(h) ==
    /\ handler[h].at = "sending"
    /\ failures < MaxFailures
    /\ failures' = failures + 1
    /\ Throw(h)
    /\ UNCHANGED <<scraping, product, events, counts, output>>

\* generateReviews: the product is read and OpenAI asked; product.facts is an
\* array even before there are facts, so the test for them always passes ...
TakeReviews(h, e) ==
    /\ Take(h, e)
    /\ handler' = [handler EXCEPT ![h] =
          [Idle EXCEPT !.at = "asking", !.cause = e, !.facts = facts,
                       !.pendingReviews = pendingReviews]]
    /\ UNCHANGED <<scraping, product, calls, up, counts, output, failures>>

\* ... n reviews are inserted ...
CreateReviews(h, n) ==
    /\ handler[h].at = "asking"
    /\ handler' = [handler EXCEPT ![h].at = "saving", ![h].pendingReviews = @ + n]
    /\ batches' = batches + 1
    /\ used' = used \cup handler[h].facts.of
    /\ UNCHANGED <<scraping, product, events, calls, up, counts, turned, failures>>

\* ... and, after the webhook, the number read is written with n added.  Nobody
\* acts on the two events sent last.
SavePending(h) ==
    /\ handler[h].at = "saving"
    /\ pendingReviews' = handler[h].pendingReviews
    /\ Release(h)
    /\ UNCHANGED <<scraping, facts, events, calls, up, counts, output, failures>>

\* An insertion or the webhook fails; generateReviews catches that.
SaveFails(h) ==
    /\ handler[h].at = "saving"
    /\ failures < MaxFailures
    /\ failures' = failures + 1
    /\ Release(h)
    /\ UNCHANGED <<scraping, product, events, calls, up, counts, output>>

\* The call of OpenAI fails.
OpenAIFails(h) ==
    /\ handler[h].at = "asking"
    /\ failures < MaxFailures
    /\ failures' = failures + 1
    /\ Throw(h)
    /\ UNCHANGED <<scraping, product, events, counts, output>>

\* OpenAI answers nothing, or reviews that do not parse.
NoAnswer(h) ==
    /\ handler[h].at = "asking"
    /\ failures < MaxFailures
    /\ failures' = failures + 1
    /\ Release(h)
    /\ UNCHANGED <<scraping, product, events, calls, up, counts, output>>

ApiCrash ==
    /\ up
    /\ failures < MaxFailures
    /\ failures' = failures + 1
    /\ Die
    /\ UNCHANGED <<scraping, product, events, counts, output>>

\* docker-compose restarts nothing but the database: somebody does it by hand.
ApiRestart ==
    /\ ~up
    /\ up' = TRUE
    /\ UNCHANGED <<scraping, product, events, calls, handler, counts, output, failures>>

-----------------------------------------------------------------------------
Scrape(m) == BeginRequest(m) \/ InsertReviews(m) \/ InsertNothing(m) \/ SendScraped(m)

HandleFacts(h) ==
    \/ \E e \in FactsEvents : TakeFacts(h, e)
    \/ RejectFacts(h) \/ ReadReviews(h) \/ WriteFacts(h) \/ SendFactsGenerated(h)

HandleReviews(h) ==
    \/ \E e \in ReviewEvents : TakeReviews(h, e)
    \/ \E n \in Numbers : CreateReviews(h, n)
    \/ SavePending(h)

Next ==
    \/ \E m \in Matches :
           CreateRequest(m) \/ Scrape(m) \/ SendScrapedFails(m) \/ Redeliver(m)
    \/ RequestOther \/ BeginOther
    \/ BuildFacts
    \/ \E n \in Numbers : GetNewReviews(n)
    \/ \E c \in {"build", "ask"} : SendCall(c) \/ SendCallFails(c)
    \/ \E h \in FactsHandlers : HandleFacts(h) \/ SendFactsFails(h)
    \/ \E h \in ReviewHandlers : HandleReviews(h) \/ SaveFails(h)
    \/ \E h \in Handlers : OpenAIFails(h) \/ NoAnswer(h)
    \/ ApiCrash
    \/ ApiRestart

Spec == Init /\ [][Next]_vars

\* Replicas take and finish their requests, the API takes every event and
\* OpenAI answers.  Nobody has to call, to take a request that is not for reviews
\* (it may have been given up: module RequestQueue), or to restart the API.
Fairness ==
    /\ \A m \in Matches : WF_vars(Scrape(m))
    /\ \A c \in {"build", "ask"} : WF_vars(SendCall(c))
    /\ \A h \in FactsHandlers : WF_vars(HandleFacts(h))
    /\ \A h \in ReviewHandlers : WF_vars(HandleReviews(h))

FairSpec == Spec /\ Fairness
-----------------------------------------------------------------------------
(* Properties.                                                             *)

\* A generation that facts set off uses facts, whatever overlapped with it:
\* only buildFacts, by emptying them, makes it start from none.
ReviewsGrounded ==
    \A h \in ReviewHandlers :
        handler[h].cause = "product_facts_generated" /\ ~handler[h].facts.built => builds > 0

\* Facts are found in reviews: only buildFacts has OpenAI asked without any.
FactsGrounded == facts.built /\ facts.of = {} => builds > 0

Busy   == {h \in FactsHandlers : handler[h].at # "idle"}
Asking == {h \in ReviewHandlers : handler[h].at = "asking"}

\* Calls and events on their way to an array of reviews.
Underway ==
    calls["build"] + calls["ask"]
    + events["new_reviews_scrapped"] + events["generate_product_facts"]
    + events["product_facts_generated"] + events["generate_reviews"]
    + Cardinality(Busy) + Cardinality(Asking)

\* At most once: each scraping and each call of a user leads to one array of
\* reviews at the most, however events, handlers and crashes interleave.
OnceEach == batches + Underway <= causes

\* What leads there is one chain that acknowledges first: a step begins it for one
\* event of a replica or one call of a user, passes it on, loses some of what is on
\* its way, or ends it with one array of reviews, and nothing else.
Chain == INSTANCE AtMostOnce WITH sent <- causes, open <- Underway, done <- batches
ImplementsChain == Chain!Spec

\* The facts of a match's reviews are lost only in a write over facts written
\* since the handler read, or by buildFacts: a handler reads the reviews of
\* every match the facts are then about.
FactsKept ==
    [][\A m \in facts.of \ facts'.of :
          \/ builds' > builds
          \/ \E h \in FactsHandlers :
                 /\ handler[h].at = "asking" /\ handler'[h].at = "sending"
                 /\ handler[h].facts # facts]_vars

\* Where every scraping finds reviews, the facts are built in the end, for good:
\* the event of the last GET_REVIEWS request to leave PENDING is not turned away,
\* unless the matches have two PENDING requests without counting its like.
FactsBuilt == <>[](scraped # {} => facts.built \/ turned)

\* Facts are used by a generation, unless they are overwritten before.
FactsUsed == \A m \in Matches : m \in facts.of ~> m \in used \/ m \notin facts.of
=============================================================================
