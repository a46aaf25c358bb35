-------------------------- MODULE GenerationProofs --------------------------
(***************************************************************************)
(* Theorems about Generation, for every set of matches, any number of      *)
(* handlers at the same time, and any number of calls and failures.        *)
(***************************************************************************)
EXTENDS Generation, FiniteSetTheorems, TLAPS

-----------------------------------------------------------------------------
(* Types.                                                                  *)

Places == {"idle", "checking", "asking", "sending", "saving"}

\* What a handler holds.
HandlerType ==
    [at : Places, cause : EventTypes \cup {"none"}, requests : Nat,
     seen : SUBSET Matches, facts : Facts, pendingReviews : Nat]

\* A handler starts from Idle, and a crash leaves it there.
LEMMA IdleType == Idle \in HandlerType /\ NoFacts \in Facts
  BY DEF Idle, HandlerType, Places, NoFacts, Facts

\* The requests a handler finds are counted.
LEMMA PendingRequestsNat == TypeOK => PendingRequests \in Nat
  <1>1. Cardinality(PendingJobs) \in Nat
    BY ConstantsAssumption, FS_Subset, FS_CardinalityType DEF PendingJobs
  <1>. QED BY <1>1 DEF TypeOK, PendingRequests

\* The initial state is typed.
LEMMA TypeInit == Init => TypeOK
  <1>. SUFFICES ASSUME Init PROVE TypeOK
    OBVIOUS
  <1>1. handler \in [Handlers -> HandlerType]
    BY IdleType DEF Init
  <1>2. /\ job \in [Matches -> Jobs] /\ scraped \subseteq Matches /\ others \in Nat /\ facts \in Facts
        /\ pendingReviews \in Nat /\ events \in [EventTypes -> Nat] /\ calls \in [{"build", "ask"} -> Nat]
    BY IdleType DEF Init, Jobs
  <1>3. /\ up \in BOOLEAN /\ causes \in Nat /\ builds \in Nat /\ asks \in Nat /\ batches \in Nat
        /\ used \subseteq Matches /\ turned \in BOOLEAN /\ failures \in Nat
    BY DEF Init
  <1>. QED BY <1>1, <1>2, <1>3 DEF TypeOK, HandlerType, Places

\* Releasing a handler, or ending the process, keeps the handlers typed.
LEMMA ThrowType ==
    ASSUME TypeOK, NEW h \in Handlers, (Release(h) /\ UNCHANGED <<up, calls>>) \/ Die
    PROVE  /\ handler' \in [Handlers -> HandlerType]
           /\ up' \in BOOLEAN
           /\ calls' \in [{"build", "ask"} -> Nat]
  <1>1. handler \in [Handlers -> HandlerType] /\ Idle \in HandlerType
    BY IdleType DEF TypeOK, HandlerType, Places
  <1>2. handler' \in [Handlers -> HandlerType]
    BY <1>1 DEF Release, Die
  <1>3. up' \in BOOLEAN /\ calls' \in [{"build", "ask"} -> Nat]
    <2>1. CASE UNCHANGED <<up, calls>>
      <3>1. up' = up /\ calls' = calls
        BY <2>1
      <3>. QED BY <3>1 DEF TypeOK
    <2>2. CASE Die
      BY <2>2 DEF Die
    <2>. QED BY <2>1, <2>2
  <1>. QED BY <1>2, <1>3

\* Every step keeps the state typed.
LEMMA TypeStep == TypeOK /\ [Next]_vars => TypeOK'
  <1>. SUFFICES ASSUME TypeOK, [Next]_vars PROVE TypeOK'
    OBVIOUS
  <1>. USE DEF TypeOK
  <1>h. /\ FactsHandlers \subseteq Handlers /\ ReviewHandlers \subseteq Handlers
        /\ handler \in [Handlers -> HandlerType]
    BY DEF Handlers, HandlerType, Places
  <1>n. handler' \in [Handlers -> HandlerType] <=>
            handler' \in [Handlers -> [at : {"idle", "checking", "asking", "sending", "saving"},
                cause : EventTypes \cup {"none"}, requests : Nat,
                seen : SUBSET Matches, facts : Facts, pendingReviews : Nat]]
    BY DEF HandlerType, Places
  <1>e. /\ FactsEvents \subseteq EventTypes /\ ReviewEvents \subseteq EventTypes
        /\ "new_reviews_scrapped" \in EventTypes /\ "product_facts_generated" \in EventTypes
    BY DEF EventTypes, FactsEvents, ReviewEvents
  <1>t. ASSUME NEW h \in Handlers, NEW r \in HandlerType, handler' = [handler EXCEPT ![h] = r]
        PROVE  handler' \in [Handlers -> HandlerType]
    BY <1>h, <1>t
  <1>1. CASE UNCHANGED vars
    BY <1>1 DEF vars, scraping, product, counts, output
  <1>2. ASSUME NEW m \in Matches,
               CreateRequest(m) \/ Scrape(m) \/ SendScrapedFails(m) \/ Redeliver(m)
        PROVE  TypeOK'
    <2>1. job' \in [Matches -> Jobs] /\ scraped' \subseteq Matches
      BY <1>2 DEF CreateRequest, Scrape, BeginRequest, InsertReviews, InsertNothing, SendScraped,
                  SendScrapedFails, Redeliver, Jobs
    <2>2. events' \in [EventTypes -> Nat] /\ causes' \in Nat /\ failures' \in Nat
      <3>1. CASE SendScraped(m)
        BY <3>1, <1>e DEF SendScraped
      <3>2. CASE SendScrapedFails(m) \/ Redeliver(m)
        BY <3>2 DEF SendScrapedFails, Redeliver, counts
      <3>3. CASE CreateRequest(m) \/ BeginRequest(m) \/ InsertReviews(m) \/ InsertNothing(m)
        BY <3>3 DEF CreateRequest, BeginRequest, InsertReviews, InsertNothing, counts
      <3>. QED BY <1>2, <3>1, <3>2, <3>3 DEF Scrape
    <2>3. UNCHANGED <<product, calls, handler, up, builds, asks, output>>
      BY <1>2 DEF CreateRequest, Scrape, BeginRequest, InsertReviews, InsertNothing, SendScraped,
                  SendScrapedFails, Redeliver, counts
    <2>4. UNCHANGED others
      BY <1>2 DEF CreateRequest, Scrape, BeginRequest, InsertReviews, InsertNothing, SendScraped,
                  SendScrapedFails, Redeliver
    <2>. QED BY <2>1, <2>2, <2>3, <2>4 DEF product, output
  <1>3. CASE BuildFacts
    BY <1>3, IdleType DEF BuildFacts, scraping, output
  <1>4. ASSUME NEW n \in Numbers, GetNewReviews(n) PROVE TypeOK'
    BY <1>4, ConstantsAssumption DEF GetNewReviews, scraping, output
  <1>5. ASSUME NEW c \in {"build", "ask"}, SendCall(c) \/ SendCallFails(c) PROVE TypeOK'
    <2>1. EventOf(c) \in EventTypes
      BY DEF EventOf, EventTypes, FactsEvents, ReviewEvents
    <2>2. calls' \in [{"build", "ask"} -> Nat] /\ events' \in [EventTypes -> Nat] /\ failures' \in Nat
      BY <1>5, <2>1 DEF SendCall, SendCallFails
    <2>3. UNCHANGED <<scraping, product, handler, up, counts, output>>
      BY <1>5 DEF SendCall, SendCallFails
    <2>. QED BY <2>2, <2>3 DEF scraping, product, counts, output
  <1>6. ASSUME NEW h \in FactsHandlers, NEW e \in FactsEvents, TakeFacts(h, e) PROVE TypeOK'
    <2>1. [Idle EXCEPT !.at = "checking", !.cause = e, !.requests = PendingRequests]
             \in HandlerType
      BY <1>e, IdleType, PendingRequestsNat DEF HandlerType, Places
    <2>2. handler' \in [Handlers -> HandlerType]
      BY <1>6, <1>t, <1>h, <2>1 DEF TakeFacts
    <2>3. events' \in [EventTypes -> Nat]
      BY <1>6, <1>e DEF TakeFacts, Take
    <2>. QED BY <1>6, <1>n, <2>2, <2>3 DEF TakeFacts, scraping, product, counts, output
  <1>7. ASSUME NEW h \in FactsHandlers, RejectFacts(h) PROVE TypeOK'
    <2>1. (Release(h) /\ UNCHANGED <<up, calls>>) \/ Die
      BY <1>7 DEF RejectFacts, Throw
    <2>2. UNCHANGED <<scraping, product, events, counts, output, failures>>
      BY <1>7 DEF RejectFacts
    <2>. QED BY <1>h, <1>n, <2>1, <2>2, ThrowType DEF scraping, product, counts, output
  <1>8. ASSUME NEW h \in FactsHandlers, ReadReviews(h) PROVE TypeOK'
    <2>1. [handler[h] EXCEPT !.at = "asking", !.seen = scraped, !.facts = facts] \in HandlerType
      BY <1>h DEF HandlerType, Places
    <2>2. handler' = [handler EXCEPT
                        ![h] = [handler[h] EXCEPT !.at = "asking", !.seen = scraped, !.facts = facts]]
      BY <1>8 DEF ReadReviews
    <2>3. handler' \in [Handlers -> HandlerType]
      BY <1>t, <1>h, <2>1, <2>2
    <2>. QED BY <1>8, <1>n, <2>3 DEF ReadReviews, scraping, product, counts, output
  <1>9. ASSUME NEW h \in FactsHandlers, WriteFacts(h) PROVE TypeOK'
    <2>1. [handler[h] EXCEPT !.at = "sending"] \in HandlerType
      BY <1>h DEF HandlerType, Places
    <2>2. handler' = [handler EXCEPT ![h] = [handler[h] EXCEPT !.at = "sending"]]
      BY <1>9 DEF WriteFacts
    <2>3. handler' \in [Handlers -> HandlerType]
      BY <1>t, <1>h, <2>1, <2>2
    <2>4. facts' \in Facts
      BY <1>9, <1>h DEF WriteFacts, Facts, HandlerType
    <2>. QED BY <1>9, <1>n, <2>3, <2>4 DEF WriteFacts, scraping, counts, output
  <1>10. ASSUME NEW h \in FactsHandlers, SendFactsGenerated(h) PROVE TypeOK'
    <2>1. handler' \in [Handlers -> HandlerType]
      BY <1>10, <1>t, <1>h, IdleType DEF SendFactsGenerated, Release
    <2>2. events' \in [EventTypes -> Nat]
      BY <1>10, <1>e DEF SendFactsGenerated
    <2>. QED BY <1>10, <1>n, <2>1, <2>2 DEF SendFactsGenerated, scraping, product, counts, output
  <1>11. ASSUME NEW h \in Handlers, SendFactsFails(h) \/ OpenAIFails(h) PROVE TypeOK'
    <2>1. (Release(h) /\ UNCHANGED <<up, calls>>) \/ Die
      BY <1>11 DEF SendFactsFails, OpenAIFails, Throw
    <2>2. failures' \in Nat /\ UNCHANGED <<scraping, product, events, counts, output>>
      BY <1>11 DEF SendFactsFails, OpenAIFails
    <2>. QED BY <1>n, <2>1, <2>2, ThrowType DEF scraping, product, counts, output
  <1>12. ASSUME NEW h \in ReviewHandlers, NEW e \in ReviewEvents, TakeReviews(h, e) PROVE TypeOK'
    <2>1. [Idle EXCEPT !.at = "asking", !.cause = e, !.facts = facts,
                       !.pendingReviews = pendingReviews] \in HandlerType
      BY <1>e, IdleType DEF HandlerType, Places
    <2>2. handler' \in [Handlers -> HandlerType]
      BY <1>12, <1>t, <1>h, <2>1 DEF TakeReviews
    <2>3. events' \in [EventTypes -> Nat]
      BY <1>12, <1>e DEF TakeReviews, Take
    <2>. QED BY <1>12, <1>n, <2>2, <2>3 DEF TakeReviews, scraping, product, counts, output
  <1>13. ASSUME NEW h \in ReviewHandlers, NEW n \in Numbers, CreateReviews(h, n) PROVE TypeOK'
    <2>1. handler[h].pendingReviews + n \in Nat /\ n \in Nat
      BY <1>h, ConstantsAssumption DEF HandlerType
    <2>2. [handler[h] EXCEPT !.at = "saving", !.pendingReviews = handler[h].pendingReviews + n]
             \in HandlerType
      BY <1>h, <2>1 DEF HandlerType, Places
    <2>3. handler' = [handler EXCEPT ![h] = [handler[h] EXCEPT
                         !.at = "saving", !.pendingReviews = handler[h].pendingReviews + n]]
      BY <1>13 DEF CreateReviews
    <2>4. handler' \in [Handlers -> HandlerType]
      BY <1>t, <1>h, <2>2, <2>3
    <2>5. used' \subseteq Matches /\ batches' \in Nat
      BY <1>13, <1>h DEF CreateReviews, Facts, HandlerType
    <2>. QED BY <1>13, <1>n, <2>4, <2>5 DEF CreateReviews, scraping, product, counts
  <1>14. ASSUME NEW h \in ReviewHandlers, SavePending(h) PROVE TypeOK'
    <2>1. handler' \in [Handlers -> HandlerType]
      BY <1>14, <1>t, <1>h, IdleType DEF SavePending, Release
    <2>2. pendingReviews' \in Nat
      BY <1>14, <1>h DEF SavePending, HandlerType
    <2>. QED BY <1>14, <1>n, <2>1, <2>2 DEF SavePending, scraping, counts, output
  <1>15. ASSUME NEW h \in Handlers, SaveFails(h) \/ NoAnswer(h) PROVE TypeOK'
    <2>1. handler' \in [Handlers -> HandlerType]
      BY <1>15, <1>t, IdleType DEF SaveFails, NoAnswer, Release
    <2>2. failures' \in Nat /\ UNCHANGED <<scraping, product, events, calls, up, counts, output>>
      BY <1>15 DEF SaveFails, NoAnswer
    <2>. QED BY <1>n, <2>1, <2>2 DEF scraping, product, counts, output
  <1>16. CASE ApiCrash
    <2>1. handler' \in [Handlers -> HandlerType]
      BY <1>16, IdleType DEF ApiCrash, Die
    <2>2. up' \in BOOLEAN /\ calls' \in [{"build", "ask"} -> Nat] /\ failures' \in Nat
      <3>1. Die /\ failures' = failures + 1
        BY <1>16 DEF ApiCrash
      <3>2. up' \in BOOLEAN
        BY <3>1 DEF Die
      <3>3. calls' \in [{"build", "ask"} -> Nat]
        BY <3>1 DEF Die
      <3>. QED BY <3>1, <3>2, <3>3
    <2>3. UNCHANGED <<scraping, product, events, counts, output>>
      BY <1>16 DEF ApiCrash
    <2>. QED BY <1>n, <2>1, <2>2, <2>3 DEF scraping, product, counts, output
  <1>17. CASE ApiRestart
    BY <1>17 DEF ApiRestart, scraping, product, counts, output
  <1>18. CASE RequestOther \/ BeginOther
    <2>1. others' \in Nat
      BY <1>18 DEF RequestOther, BeginOther
    <2>. QED BY <1>18, <2>1 DEF RequestOther, BeginOther, product, counts, output
  <1>. QED
    BY <1>1, <1>2, <1>3, <1>4, <1>5, <1>6, <1>7, <1>8, <1>9, <1>10, <1>11, <1>12, <1>13,
       <1>14, <1>15, <1>16, <1>17, <1>18, <1>h DEF Next, HandleFacts, HandleReviews

\* Every reachable state has the declared types.
THEOREM TypeCorrect == Spec => []TypeOK
  BY TypeInit, TypeStep, PTL DEF Spec
-----------------------------------------------------------------------------
(* Facts are grounded in reviews, and generations in facts.                *)

\* What may follow a build: reviews to read, and facts there once were.
Built  == builds > 0
Backed == facts.built \/ Built

\* A getFacts call has a cause, and what it read and wrote goes back to it.
FactsHandlerGrounded(h) ==
    handler[h].at # "idle" =>
        /\ handler[h].cause \in FactsEvents
        /\ handler[h].cause = "generate_product_facts" => Built
        /\ handler[h].cause = "new_reviews_scrapped" => scraped # {}
        /\ handler[h].at = "asking" /\ handler[h].seen = {} => Built
        /\ handler[h].at = "sending" => Backed

\* A generateReviews call set off by facts read some, unless they were emptied.
ReviewHandlerGrounded(h) ==
    handler[h].cause = "product_facts_generated" => handler[h].facts.built \/ Built

\* Every event and every call on its way was sent in a state that justified it,
\* and still does.
GroundInv ==
    /\ \A m \in Matches : job[m] = "inserted" => scraped # {}
    /\ events["new_reviews_scrapped"] > 0 => scraped # {}
    /\ calls["build"] > 0 => Built
    /\ events["generate_product_facts"] > 0 => Built
    /\ events["product_facts_generated"] > 0 => Backed
    /\ facts.built /\ facts.of = {} => Built
    /\ \A h \in FactsHandlers : FactsHandlerGrounded(h)
    /\ \A h \in ReviewHandlers : ReviewHandlerGrounded(h)

\* Reviews are never deleted, builds are never undone, and only a build empties
\* the facts.
LEMMA GroundGrows ==
    ASSUME TypeOK, [Next]_vars
    PROVE  /\ Built => Built'
           /\ scraped # {} => (scraped # {})'
           /\ Backed => Backed'
  <1>. USE DEF TypeOK, Built, Backed
  <1>1. CASE UNCHANGED <<facts, scraped, builds>>
    BY <1>1
  <1>2. ASSUME NEW m \in Matches, InsertReviews(m) PROVE /\ Built => Built'
                                                         /\ scraped # {} => (scraped # {})'
                                                         /\ Backed => Backed'
    BY <1>2 DEF InsertReviews, product, counts
  <1>3. CASE BuildFacts
    BY <1>3 DEF BuildFacts, scraping
  <1>4. ASSUME NEW h \in FactsHandlers, WriteFacts(h) PROVE /\ Built => Built'
                                                            /\ scraped # {} => (scraped # {})'
                                                            /\ Backed => Backed'
    BY <1>4 DEF WriteFacts, scraping, counts
  <1>5. \/ UNCHANGED <<facts, scraped, builds>>
        \/ \E m \in Matches : InsertReviews(m)
        \/ BuildFacts
        \/ \E h \in FactsHandlers : WriteFacts(h)
    <2>1. CASE UNCHANGED vars
      BY <2>1 DEF vars, scraping, product, counts
    <2>2. ASSUME NEW m \in Matches,
                 CreateRequest(m) \/ Scrape(m) \/ SendScrapedFails(m) \/ Redeliver(m)
          PROVE  UNCHANGED <<facts, scraped, builds>> \/ InsertReviews(m)
      BY <2>2 DEF CreateRequest, Scrape, BeginRequest, InsertNothing, SendScraped,
                  SendScrapedFails, Redeliver, scraping, product, counts
    <2>3. ASSUME NEW h \in Handlers, \/ RejectFacts(h) \/ ReadReviews(h) \/ SendFactsGenerated(h)
                                     \/ SendFactsFails(h) \/ SavePending(h) \/ SaveFails(h)
                                     \/ OpenAIFails(h) \/ NoAnswer(h)
          PROVE  UNCHANGED <<facts, scraped, builds>>
      BY <2>3 DEF RejectFacts, ReadReviews, SendFactsGenerated, SendFactsFails, SavePending,
                  SaveFails, OpenAIFails, NoAnswer, scraping, product, counts
    <2>4. ASSUME NEW h \in Handlers, NEW x, TakeFacts(h, x) \/ TakeReviews(h, x) \/ CreateReviews(h, x)
          PROVE  UNCHANGED <<facts, scraped, builds>>
      BY <2>4 DEF TakeFacts, TakeReviews, CreateReviews, scraping, product, counts
    <2>5. ASSUME NEW x, \/ GetNewReviews(x) \/ SendCall(x) \/ SendCallFails(x) \/ ApiCrash \/ ApiRestart
                        \/ RequestOther \/ BeginOther
          PROVE  UNCHANGED <<facts, scraped, builds>>
      BY <2>5 DEF RequestOther, BeginOther, GetNewReviews, SendCall, SendCallFails, ApiCrash, ApiRestart, scraping, product,
                  counts
    <2>. QED BY <2>1, <2>2, <2>3, <2>4, <2>5 DEF Next, HandleFacts, HandleReviews, Handlers
  <1>. QED BY <1>1, <1>2, <1>3, <1>4, <1>5

\* Initially nothing is on its way.
LEMMA GroundInit == Init => GroundInv
  BY DEF Init, GroundInv, Built, Backed, FactsHandlerGrounded, ReviewHandlerGrounded, Idle,
         NoFacts, Handlers, EventTypes, FactsEvents, ReviewEvents

\* The handlers a step leaves alone, or releases, stay grounded.
LEMMA GroundedStays ==
    ASSUME TypeOK, GroundInv, [Next]_vars
    PROVE  \A h \in Handlers : handler'[h] = handler[h] \/ handler'[h] = Idle =>
               /\ h \in FactsHandlers => FactsHandlerGrounded(h)'
               /\ h \in ReviewHandlers => ReviewHandlerGrounded(h)'
  BY GroundGrows DEF GroundInv, FactsHandlerGrounded, ReviewHandlerGrounded, Idle

\* A step that sends no event, writes no facts and starts no handler.
LEMMA GroundQuiet ==
    ASSUME TypeOK, GroundInv, [Next]_vars,
           \A m \in Matches : job'[m] = "inserted" => job[m] = "inserted",
           \A e \in EventTypes : events'[e] = events[e] \/ events'[e] = events[e] - 1,
           calls'["build"] = calls["build"] \/ calls'["build"] = 0,
           facts' = facts,
           \A h \in Handlers : handler'[h] = handler[h] \/ handler'[h] = Idle
    PROVE  GroundInv'
  <1>1. /\ \A h \in FactsHandlers : FactsHandlerGrounded(h)'
        /\ \A h \in ReviewHandlers : ReviewHandlerGrounded(h)'
    BY GroundedStays DEF Handlers
  <1>2. \A m \in Matches : job'[m] = "inserted" => (scraped # {})'
    BY GroundGrows DEF GroundInv
  <1>3. \A e \in EventTypes : events'[e] > 0 => events[e] > 0
    BY DEF TypeOK
  <1>4. /\ events'["new_reviews_scrapped"] > 0 => (scraped # {})'
        /\ events'["generate_product_facts"] > 0 => Built'
        /\ events'["product_facts_generated"] > 0 => Backed'
    BY <1>3, GroundGrows DEF GroundInv, EventTypes, FactsEvents, ReviewEvents
  <1>5. calls'["build"] > 0 => Built'
    BY GroundGrows DEF GroundInv
  <1>6. facts'.built /\ facts'.of = {} => Built'
    BY GroundGrows DEF GroundInv
  <1>. QED BY <1>1, <1>2, <1>4, <1>5, <1>6 DEF GroundInv

\* Throwing releases the handler or ends the process.
LEMMA ThrowFrees ==
    ASSUME TypeOK, NEW h \in Handlers, Throw(h)
    PROVE  /\ \A i \in Handlers : handler'[i] = handler[i] \/ handler'[i] = Idle
           /\ calls' = calls \/ calls' = [c \in {"build", "ask"} |-> 0]
  BY DEF TypeOK, Throw, Release, Die

\* Every step keeps it.
LEMMA GroundStep == TypeOK /\ GroundInv /\ [Next]_vars => GroundInv'
  <1>. SUFFICES ASSUME TypeOK, GroundInv, [Next]_vars PROVE GroundInv'
    OBVIOUS
  <1>. USE DEF TypeOK
  <1>h. /\ FactsHandlers \subseteq Handlers /\ ReviewHandlers \subseteq Handlers
        /\ \A h \in FactsHandlers : h \notin ReviewHandlers
        /\ \A h \in ReviewHandlers : h \notin FactsHandlers
    BY ConstantsAssumption DEF Handlers
  <1>1. CASE UNCHANGED vars
    BY <1>1, GroundQuiet DEF vars, scraping, product
  <1>2. ASSUME NEW m \in Matches,
               \/ CreateRequest(m) \/ BeginRequest(m) \/ InsertNothing(m) \/ SendScrapedFails(m)
               \/ Redeliver(m)
        PROVE  GroundInv'
    <2>1. UNCHANGED <<product, events, calls, handler>>
      BY <1>2 DEF CreateRequest, BeginRequest, InsertNothing, SendScrapedFails, Redeliver
    <2>2. \A c \in Matches : job'[c] = "inserted" => job[c] = "inserted"
      BY <1>2 DEF CreateRequest, BeginRequest, InsertNothing, SendScrapedFails, Redeliver
    <2>. QED BY <2>1, <2>2, GroundQuiet DEF product
  <1>3. ASSUME NEW m \in Matches, InsertReviews(m) PROVE GroundInv'
    <2>1. (scraped # {})'
      BY <1>3 DEF InsertReviews
    <2>2. UNCHANGED <<facts, events, calls, handler, builds>>
      BY <1>3 DEF InsertReviews, product, counts
    <2>. QED BY <2>1, <2>2, GroundedStays, GroundGrows, <1>h DEF GroundInv
  <1>4. ASSUME NEW m \in Matches, SendScraped(m) PROVE GroundInv'
    <2>1. (scraped # {})' /\ UNCHANGED <<facts, calls, handler, builds>>
      BY <1>4 DEF SendScraped, GroundInv, product
    <2>2. \A e \in EventTypes : e # "new_reviews_scrapped" => events'[e] = events[e]
      BY <1>4 DEF SendScraped
    <2>. QED BY <2>1, <2>2, GroundedStays, GroundGrows, <1>h
             DEF GroundInv, EventTypes, FactsEvents, ReviewEvents
  <1>5. CASE BuildFacts
    <2>1. Built' /\ facts' = NoFacts
      BY <1>5 DEF BuildFacts, Built
    <2>2. UNCHANGED <<job, scraped, events, handler>>
      BY <1>5 DEF BuildFacts, scraping
    <2>. QED BY <2>1, <2>2, GroundedStays, GroundGrows, <1>h DEF GroundInv, Backed
  <1>6. ASSUME NEW n \in Numbers, GetNewReviews(n) PROVE GroundInv'
    <2>1. calls'["build"] = calls["build"]
      BY <1>6 DEF GetNewReviews
    <2>. QED BY <1>6, <2>1, GroundQuiet DEF GetNewReviews, scraping
  <1>7. ASSUME NEW c \in {"build", "ask"}, SendCall(c) PROVE GroundInv'
    <2>1. UNCHANGED <<job, scraped, facts, handler, builds>>
      BY <1>7 DEF SendCall, scraping, product, counts
    <2>2. calls'["build"] > 0 => calls["build"] > 0
      BY <1>7 DEF SendCall
    <2>3. c = "build" => Built'
      BY <1>7, GroundGrows DEF SendCall, GroundInv
    <2>4. \A e \in EventTypes : e # EventOf(c) => events'[e] = events[e]
      BY <1>7 DEF SendCall
    <2>5. /\ events'["new_reviews_scrapped"] = events["new_reviews_scrapped"]
          /\ events'["product_facts_generated"] = events["product_facts_generated"]
          /\ c # "build" => events'["generate_product_facts"] = events["generate_product_facts"]
      BY <2>4 DEF EventOf, EventTypes, FactsEvents, ReviewEvents
    <2>. QED BY <2>1, <2>2, <2>3, <2>5, GroundedStays, GroundGrows, <1>h DEF GroundInv
  <1>8. ASSUME NEW c \in {"build", "ask"}, SendCallFails(c) PROVE GroundInv'
    <2>1. UNCHANGED <<job, scraped, facts, handler, builds, events>>
      BY <1>8 DEF SendCallFails, scraping, product, counts
    <2>2. calls'["build"] > 0 => calls["build"] > 0
      BY <1>8 DEF SendCallFails
    <2>. QED BY <2>1, <2>2, GroundedStays, GroundGrows, <1>h DEF GroundInv
  <1>9. ASSUME NEW h \in FactsHandlers, NEW e \in FactsEvents, TakeFacts(h, e) PROVE GroundInv'
    <2>1. /\ handler'[h].at = "checking" /\ handler'[h].cause = e
          /\ \A i \in Handlers : i # h => handler'[i] = handler[i]
      BY <1>9, <1>h DEF TakeFacts, Idle
    <2>2. UNCHANGED <<job, scraped, facts, calls, builds>>
      BY <1>9 DEF TakeFacts, scraping, product, counts
    <2>3. events[e] > 0 /\ \A x \in EventTypes : events'[x] > 0 => events[x] > 0
      BY <1>9 DEF TakeFacts, Take
    <2>4. FactsHandlerGrounded(h)'
      BY <2>1, <2>3, GroundGrows DEF FactsHandlerGrounded, GroundInv, FactsEvents
    <2>5. \A i \in FactsHandlers : FactsHandlerGrounded(i)'
      BY <2>1, <2>4, GroundedStays, <1>h
    <2>6. \A i \in ReviewHandlers : ReviewHandlerGrounded(i)'
      BY <2>1, GroundedStays, <1>h
    <2>7. /\ events'["new_reviews_scrapped"] > 0 => events["new_reviews_scrapped"] > 0
          /\ events'["generate_product_facts"] > 0 => events["generate_product_facts"] > 0
          /\ events'["product_facts_generated"] > 0 => events["product_facts_generated"] > 0
      BY <2>3 DEF EventTypes, FactsEvents, ReviewEvents
    <2>. QED BY <2>2, <2>5, <2>6, <2>7, GroundGrows DEF GroundInv
  <1>10. ASSUME NEW h \in Handlers, RejectFacts(h) \/ SendFactsFails(h) \/ OpenAIFails(h)
         PROVE  GroundInv'
    <2>1. Throw(h) /\ UNCHANGED <<scraping, product, events>>
      BY <1>10 DEF RejectFacts, SendFactsFails, OpenAIFails
    <2>2. calls'["build"] = calls["build"] \/ calls'["build"] = 0
      BY <2>1, ThrowFrees
    <2>. QED BY <2>1, <2>2, ThrowFrees, GroundQuiet DEF scraping, product
  <1>11. ASSUME NEW h \in FactsHandlers, ReadReviews(h) PROVE GroundInv'
    <2>1. /\ handler[h].at = "checking" /\ handler'[h].at = "asking"
          /\ handler'[h].cause = handler[h].cause /\ handler'[h].seen = scraped
          /\ \A i \in Handlers : i # h => handler'[i] = handler[i]
      BY <1>11, <1>h DEF ReadReviews
    <2>2. UNCHANGED <<job, scraped, facts, events, calls, builds>>
      BY <1>11 DEF ReadReviews, scraping, product, counts
    <2>3. FactsHandlerGrounded(h)'
      BY <2>1, GroundGrows DEF FactsHandlerGrounded, GroundInv, FactsEvents
    <2>4. \A i \in FactsHandlers : FactsHandlerGrounded(i)'
      BY <2>1, <2>3, GroundedStays, <1>h
    <2>5. \A i \in ReviewHandlers : ReviewHandlerGrounded(i)'
      BY <2>1, GroundedStays, <1>h
    <2>. QED BY <2>2, <2>4, <2>5, GroundGrows DEF GroundInv
  <1>12. ASSUME NEW h \in FactsHandlers, WriteFacts(h) PROVE GroundInv'
    <2>1. /\ handler[h].at = "asking" /\ handler'[h].at = "sending"
          /\ handler'[h].cause = handler[h].cause
          /\ facts' = [built |-> TRUE, of |-> handler[h].seen]
          /\ \A i \in Handlers : i # h => handler'[i] = handler[i]
      BY <1>12, <1>h DEF WriteFacts
    <2>2. UNCHANGED <<job, scraped, events, calls, builds>>
      BY <1>12 DEF WriteFacts, scraping, counts
    <2>3. FactsHandlerGrounded(h)' /\ Backed'
      BY <2>1, GroundGrows DEF FactsHandlerGrounded, GroundInv, FactsEvents, Backed
    <2>4. \A i \in FactsHandlers : FactsHandlerGrounded(i)'
      BY <2>1, <2>3, GroundedStays, <1>h
    <2>5. \A i \in ReviewHandlers : ReviewHandlerGrounded(i)'
      BY <2>1, GroundedStays, <1>h
    <2>6. facts'.of = {} => Built'
      BY <2>1, GroundGrows DEF GroundInv, FactsHandlerGrounded
    <2>. QED BY <2>2, <2>3, <2>4, <2>5, <2>6, GroundGrows DEF GroundInv
  <1>13. ASSUME NEW h \in FactsHandlers, SendFactsGenerated(h) PROVE GroundInv'
    <2>1. /\ handler[h].at = "sending" /\ handler'[h] = Idle
          /\ \A i \in Handlers : i # h => handler'[i] = handler[i]
      BY <1>13, <1>h DEF SendFactsGenerated, Release
    <2>2. UNCHANGED <<job, scraped, facts, calls, builds>>
      BY <1>13 DEF SendFactsGenerated, scraping, product, counts
    <2>3. Backed'
      BY <2>1, GroundGrows DEF GroundInv, FactsHandlerGrounded
    <2>4. /\ events'["new_reviews_scrapped"] = events["new_reviews_scrapped"]
          /\ events'["generate_product_facts"] = events["generate_product_facts"]
      BY <1>13 DEF SendFactsGenerated, EventTypes, FactsEvents
    <2>. QED BY <2>1, <2>2, <2>3, <2>4, GroundedStays, GroundGrows, <1>h DEF GroundInv
  <1>14. ASSUME NEW h \in ReviewHandlers, NEW e \in ReviewEvents, TakeReviews(h, e) PROVE GroundInv'
    <2>1. /\ handler'[h].cause = e /\ handler'[h].facts = facts
          /\ \A i \in Handlers : i # h => handler'[i] = handler[i]
      BY <1>14, <1>h DEF TakeReviews, Idle
    <2>2. UNCHANGED <<job, scraped, facts, calls, builds>>
      BY <1>14 DEF TakeReviews, scraping, product, counts
    <2>3. events[e] > 0 /\ \A x \in EventTypes : events'[x] > 0 => events[x] > 0
      BY <1>14 DEF TakeReviews, Take
    <2>4. ReviewHandlerGrounded(h)'
      BY <2>1, <2>2, <2>3, GroundGrows DEF ReviewHandlerGrounded, GroundInv, Backed, Built
    <2>5. \A i \in ReviewHandlers : ReviewHandlerGrounded(i)'
      BY <2>1, <2>4, GroundedStays, <1>h
    <2>6. \A i \in FactsHandlers : FactsHandlerGrounded(i)'
      BY <2>1, GroundedStays, <1>h
    <2>7. /\ events'["new_reviews_scrapped"] > 0 => events["new_reviews_scrapped"] > 0
          /\ events'["generate_product_facts"] > 0 => events["generate_product_facts"] > 0
          /\ events'["product_facts_generated"] > 0 => events["product_facts_generated"] > 0
      BY <2>3 DEF EventTypes, FactsEvents, ReviewEvents
    <2>. QED BY <2>2, <2>5, <2>6, <2>7, GroundGrows DEF GroundInv
  <1>15. ASSUME NEW h \in ReviewHandlers, NEW n \in Numbers, CreateReviews(h, n) PROVE GroundInv'
    <2>1. /\ handler'[h].cause = handler[h].cause /\ handler'[h].facts = handler[h].facts
          /\ \A i \in Handlers : i # h => handler'[i] = handler[i]
      BY <1>15, <1>h DEF CreateReviews
    <2>2. UNCHANGED <<job, scraped, facts, events, calls, builds>>
      BY <1>15 DEF CreateReviews, scraping, product, counts
    <2>3. ReviewHandlerGrounded(h)'
      BY <2>1, GroundGrows DEF ReviewHandlerGrounded, GroundInv
    <2>4. \A i \in ReviewHandlers : ReviewHandlerGrounded(i)'
      BY <2>1, <2>3, GroundedStays, <1>h
    <2>5. \A i \in FactsHandlers : FactsHandlerGrounded(i)'
      BY <2>1, GroundedStays, <1>h
    <2>. QED BY <2>2, <2>4, <2>5, GroundGrows DEF GroundInv
  <1>16. ASSUME NEW h \in Handlers, SavePending(h) \/ SaveFails(h) \/ NoAnswer(h) PROVE GroundInv'
    <2>1. Release(h) /\ UNCHANGED <<scraping, facts, events, calls>>
      BY <1>16 DEF SavePending, SaveFails, NoAnswer, product
    <2>. QED BY <2>1, GroundQuiet DEF Release, scraping
  <1>17. CASE ApiCrash
    <2>1. /\ \A h \in Handlers : handler'[h] = Idle
          /\ calls'["build"] = 0
      BY <1>17 DEF ApiCrash, Die
    <2>. QED BY <1>17, <2>1, GroundQuiet DEF ApiCrash, scraping, product
  <1>18. CASE ApiRestart \/ RequestOther \/ BeginOther
    BY <1>18, GroundQuiet DEF ApiRestart, RequestOther, BeginOther, scraping, product
  <1>. QED
    BY <1>1, <1>2, <1>3, <1>4, <1>5, <1>6, <1>7, <1>8, <1>9, <1>10, <1>11, <1>12, <1>13,
       <1>14, <1>15, <1>16, <1>17, <1>18, <1>h DEF Next, Scrape, HandleFacts, HandleReviews

\* Facts are never found in no reviews at all, unless a user asked for it.
THEOREM FactsAreGrounded == Spec => []FactsGrounded
  <1>1. GroundInv => FactsGrounded
    BY DEF GroundInv, FactsGrounded, Built
  <1>. QED BY <1>1, TypeInit, TypeStep, GroundInit, GroundStep, PTL DEF Spec

\* A generation that facts set off has read facts, unless a user emptied them.
THEOREM ReviewsAreGrounded == Spec => []ReviewsGrounded
  <1>1. GroundInv => ReviewsGrounded
    BY DEF GroundInv, ReviewsGrounded, ReviewHandlerGrounded, Built
  <1>. QED BY <1>1, TypeInit, TypeStep, GroundInit, GroundStep, PTL DEF Spec

-----------------------------------------------------------------------------
(* Facts are lost only in a stale write, or by a build.                    *)

\* Facts are about scraped reviews only, and a handler that asks OpenAI has read
\* at least the reviews the facts it read are about.
ReadInv ==
    /\ facts.of \subseteq scraped
    /\ \A h \in FactsHandlers : handler[h].at = "asking" =>
           handler[h].facts.of \subseteq handler[h].seen /\ handler[h].seen \subseteq scraped

\* Initially there are no facts.
LEMMA ReadInit == Init => ReadInv
  BY DEF Init, ReadInv, NoFacts, Idle, Handlers

\* The facts are written by getFacts and emptied by buildFacts, and only the
\* replicas add reviews; a handler asks OpenAI only after it has read.
LEMMA WhoWrites ==
    ASSUME TypeOK, [Next]_vars
    PROVE  /\ scraped \subseteq scraped'
           /\ \/ facts' = facts
              \/ BuildFacts
              \/ \E h \in FactsHandlers : WriteFacts(h)
           /\ \A h \in FactsHandlers :
                  handler'[h].at = "asking" /\ handler'[h] # handler[h] => ReadReviews(h)
  <1>. USE DEF TypeOK
  <1>h. /\ FactsHandlers \subseteq Handlers /\ ReviewHandlers \subseteq Handlers
        /\ \A h \in FactsHandlers : h \notin ReviewHandlers
    BY ConstantsAssumption DEF Handlers
  <1>1. CASE UNCHANGED vars
    BY <1>1 DEF vars, scraping, product
  <1>2. ASSUME NEW m \in Matches,
               CreateRequest(m) \/ Scrape(m) \/ SendScrapedFails(m) \/ Redeliver(m)
        PROVE  facts' = facts /\ handler' = handler /\ scraped \subseteq scraped'
    BY <1>2 DEF CreateRequest, Scrape, BeginRequest, InsertReviews, InsertNothing, SendScraped,
                SendScrapedFails, Redeliver, product
  <1>3. ASSUME NEW x, \/ BuildFacts \/ GetNewReviews(x) \/ SendCall(x) \/ SendCallFails(x) \/ ApiRestart
                      \/ RequestOther \/ BeginOther
        PROVE  /\ handler' = handler /\ scraped' = scraped
               /\ facts' = facts \/ BuildFacts
    BY <1>3 DEF RequestOther, BeginOther, BuildFacts, GetNewReviews, SendCall, SendCallFails, ApiRestart, scraping, product
  <1>4. ASSUME NEW h \in FactsHandlers, NEW e, TakeFacts(h, e) \/ WriteFacts(h)
        PROVE  /\ scraped' = scraped
               /\ facts' = facts \/ WriteFacts(h)
               /\ \A i \in FactsHandlers : handler'[i] = handler[i] \/ handler'[i].at # "asking"
    BY <1>4, <1>h DEF TakeFacts, WriteFacts, scraping, product, Idle
  <1>5. ASSUME NEW h \in FactsHandlers, ReadReviews(h)
        PROVE  /\ scraped' = scraped /\ facts' = facts
               /\ \A i \in FactsHandlers : i # h => handler'[i] = handler[i]
    BY <1>5, <1>h DEF ReadReviews, scraping, product
  <1>6. ASSUME NEW h \in Handlers, RejectFacts(h) \/ SendFactsFails(h) \/ OpenAIFails(h)
        PROVE  /\ scraped' = scraped /\ facts' = facts
               /\ \A i \in Handlers : handler'[i] = handler[i] \/ handler'[i].at # "asking"
    <2>1. Throw(h) /\ UNCHANGED <<scraping, product>>
      BY <1>6 DEF RejectFacts, SendFactsFails, OpenAIFails
    <2>2. \A i \in Handlers : handler'[i] = handler[i] \/ handler'[i].at # "asking"
      BY <2>1, ThrowFrees DEF Idle
    <2>. QED BY <2>1, <2>2 DEF scraping, product
  <1>7. ASSUME NEW h \in Handlers, SendFactsGenerated(h) \/ SavePending(h) \/ SaveFails(h) \/ NoAnswer(h)
        PROVE  /\ scraped' = scraped /\ facts' = facts
               /\ \A i \in Handlers : handler'[i] = handler[i] \/ handler'[i].at # "asking"
    BY <1>7 DEF SendFactsGenerated, SavePending, SaveFails, NoAnswer, Release, Idle, scraping, product
  <1>8. ASSUME NEW h \in ReviewHandlers, NEW x, TakeReviews(h, x) \/ CreateReviews(h, x)
        PROVE  /\ scraped' = scraped /\ facts' = facts
               /\ \A i \in FactsHandlers : handler'[i] = handler[i]
    BY <1>8, <1>h DEF TakeReviews, CreateReviews, scraping, product
  <1>9. CASE ApiCrash
    BY <1>9, <1>h DEF ApiCrash, Die, Idle, scraping, product
  <1>. QED
    BY <1>1, <1>2, <1>3, <1>4, <1>5, <1>6, <1>7, <1>8, <1>9, <1>h
       DEF Next, HandleFacts, HandleReviews

\* Every step keeps it.
LEMMA ReadStep == TypeOK /\ ReadInv /\ [Next]_vars => ReadInv'
  <1>. SUFFICES ASSUME TypeOK, ReadInv, [Next]_vars PROVE ReadInv'
    OBVIOUS
  <1>1. facts'.of \subseteq scraped'
    <2>1. CASE facts' = facts
      BY <2>1, WhoWrites DEF ReadInv
    <2>2. CASE BuildFacts
      BY <2>2 DEF BuildFacts, NoFacts
    <2>3. ASSUME NEW h \in FactsHandlers, WriteFacts(h) PROVE facts'.of \subseteq scraped'
      BY <2>3 DEF WriteFacts, ReadInv, scraping
    <2>. QED BY <2>1, <2>2, <2>3, WhoWrites
  <1>2. ASSUME NEW h \in FactsHandlers, handler'[h].at = "asking"
        PROVE  handler'[h].facts.of \subseteq handler'[h].seen /\ handler'[h].seen \subseteq scraped'
    <2>1. CASE handler'[h] = handler[h]
      BY <1>2, <2>1, WhoWrites DEF ReadInv
    <2>2. CASE handler'[h] # handler[h]
      <3>1. ReadReviews(h)
        BY <1>2, <2>2, WhoWrites
      <3>2. handler'[h].facts = facts /\ handler'[h].seen = scraped
        BY <3>1 DEF ReadReviews, TypeOK, Handlers
      <3>. QED BY <3>2, WhoWrites DEF ReadInv
    <2>. QED BY <2>1, <2>2
  <1>. QED BY <1>1, <1>2 DEF ReadInv

\* How the facts of a match's reviews may be lost in a step.
Superseded(m) ==
    \/ builds' > builds
    \/ \E h \in FactsHandlers :
           /\ handler[h].at = "asking" /\ handler'[h].at = "sending"
           /\ handler[h].facts # facts

\* A handler that writes over the facts it read keeps what they were about.
LEMMA KeptStep ==
    ASSUME TypeOK, ReadInv, [Next]_vars
    PROVE  \A m \in facts.of \ facts'.of : Superseded(m)
  <1>. SUFFICES ASSUME NEW m \in facts.of \ facts'.of PROVE Superseded(m)
    OBVIOUS
  <1>1. CASE BuildFacts
    BY <1>1 DEF BuildFacts, Superseded, TypeOK
  <1>2. ASSUME NEW h \in FactsHandlers, WriteFacts(h) PROVE Superseded(m)
    <2>1. /\ handler[h].at = "asking" /\ handler'[h].at = "sending"
          /\ facts'.of = handler[h].seen
      BY <1>2 DEF WriteFacts, TypeOK, Handlers
    <2>2. m \notin handler[h].facts.of
      BY <2>1 DEF ReadInv
    <2>. QED BY <2>1, <2>2 DEF Superseded
  <1>. QED BY <1>1, <1>2, WhoWrites

\* The facts of a match's reviews are lost only in a write over facts written
\* since the handler read, or by buildFacts.
THEOREM FactsAreKept == Spec => FactsKept
  <1>1. Spec => []ReadInv
    BY ReadInit, ReadStep, TypeCorrect, PTL DEF Spec
  <1>2. TypeOK /\ ReadInv /\ [Next]_vars => [\A m \in facts.of \ facts'.of : Superseded(m)]_vars
    BY KeptStep
  <1>3. [][\A m \in facts.of \ facts'.of : Superseded(m)]_vars => FactsKept
    BY PTL DEF FactsKept, Superseded
  <1>. QED BY <1>1, <1>2, <1>3, TypeCorrect, PTL DEF Spec

\* The facts on the product are about reviews that a handler which asks OpenAI has
\* read too.
SeenInv ==
    \A h \in FactsHandlers : handler[h].at = "asking" => facts.of \subseteq handler[h].seen

\* One getFacts at a time keeps it: it alone could write facts about more.
LEMMA SeenStep ==
    ASSUME NEW h, FactsHandlers = {h}, TypeOK, ReadInv, SeenInv, [Next]_vars
    PROVE  SeenInv'
  <1>. SUFFICES ASSUME handler'[h].at = "asking" PROVE facts'.of \subseteq handler'[h].seen
    BY DEF SeenInv
  <1>1. CASE handler'[h] # handler[h]
    <2>1. ReadReviews(h)
      BY <1>1, WhoWrites
    <2>2. handler'[h].seen = scraped /\ facts' = facts
      BY <2>1 DEF ReadReviews, TypeOK, Handlers, product
    <2>. QED BY <2>2 DEF ReadInv
  <1>2. CASE handler'[h] = handler[h]
    <2>1. ~WriteFacts(h)
      BY <1>2 DEF WriteFacts, TypeOK, Handlers
    <2>2. facts' = facts \/ facts'.of = {}
      BY <2>1, WhoWrites DEF BuildFacts, NoFacts
    <2>. QED BY <1>2, <2>2 DEF SeenInv
  <1>. QED BY <1>1, <1>2

\* If the API ran one getFacts at a time, facts would be lost by buildFacts alone:
\* what else FactsKept has to except is the price of handlers that overlap.
THEOREM OneHandlerKeepsFacts ==
    ASSUME NEW h, FactsHandlers = {h}
    PROVE  Spec => [][facts.of \subseteq facts'.of \/ builds' > builds]_vars
  <1>1. Init => SeenInv
    BY DEF Init, SeenInv, Idle, Handlers
  <1>2. TypeOK /\ ReadInv /\ SeenInv /\ [Next]_vars => SeenInv'
    BY SeenStep
  <1>3. TypeOK /\ SeenInv /\ [Next]_vars => [facts.of \subseteq facts'.of \/ builds' > builds]_vars
    <2>. SUFFICES ASSUME TypeOK, SeenInv, [Next]_vars
                  PROVE  facts.of \subseteq facts'.of \/ builds' > builds
      OBVIOUS
    <2>1. CASE BuildFacts
      BY <2>1 DEF BuildFacts, TypeOK
    <2>2. CASE WriteFacts(h)
      BY <2>2 DEF WriteFacts, SeenInv
    <2>. QED BY <2>1, <2>2, WhoWrites
  <1>. QED BY <1>1, <1>2, <1>3, ReadInit, ReadStep, TypeCorrect, PTL DEF Spec

-----------------------------------------------------------------------------
(* One array of reviews for each scraping and each call, at the most.      *)

\* The handlers at work can be counted, before and after a step.
LEMMA Counted ==
    /\ IsFiniteSet(Busy) /\ Cardinality(Busy) \in Nat
    /\ IsFiniteSet(Asking) /\ Cardinality(Asking) \in Nat
    /\ IsFiniteSet(Busy') /\ Cardinality(Busy') \in Nat
    /\ IsFiniteSet(Asking') /\ Cardinality(Asking') \in Nat
  <1>1. Busy \subseteq Handlers /\ Asking \subseteq Handlers
    BY DEF Busy, Asking, Handlers
  <1>2. Busy' \subseteq Handlers /\ Asking' \subseteq Handlers
    BY DEF Busy, Asking, Handlers
  <1>. QED BY <1>1, <1>2, FS_Subset, FS_CardinalityType, ConstantsAssumption

\* A getFacts call starts, goes on, or ends.
LEMMA FactsMove ==
    ASSUME TypeOK, NEW h \in FactsHandlers, NEW r, handler' = [handler EXCEPT ![h] = r]
    PROVE  /\ Asking' = Asking
           /\ handler[h].at = "idle" /\ r.at # "idle" => Cardinality(Busy') = Cardinality(Busy) + 1
           /\ handler[h].at # "idle" /\ r.at # "idle" => Busy' = Busy
           /\ handler[h].at # "idle" /\ r.at = "idle" => Cardinality(Busy') = Cardinality(Busy) - 1
  <1>1. /\ h \notin ReviewHandlers /\ h \in Handlers
        /\ handler'[h] = r /\ \A i \in Handlers : i # h => handler'[i] = handler[i]
    BY ConstantsAssumption DEF TypeOK, Handlers
  <1>2. Asking' = Asking
    BY <1>1 DEF Asking, Handlers
  <1>3. ASSUME handler[h].at = "idle", r.at # "idle"
        PROVE  Cardinality(Busy') = Cardinality(Busy) + 1
    <2>1. Busy' = Busy \cup {h} /\ h \notin Busy
      BY <1>1, <1>3 DEF Busy, Handlers
    <2>. QED BY <2>1, Counted, FS_AddElement
  <1>4. ASSUME handler[h].at # "idle", r.at # "idle" PROVE Busy' = Busy
    BY <1>1, <1>4 DEF Busy, Handlers
  <1>5. ASSUME handler[h].at # "idle", r.at = "idle"
        PROVE  Cardinality(Busy') = Cardinality(Busy) - 1
    <2>1. Busy' = Busy \ {h} /\ h \in Busy
      BY <1>1, <1>5 DEF Busy, Handlers
    <2>. QED BY <2>1, Counted, FS_RemoveElement
  <1>. QED BY <1>2, <1>3, <1>4, <1>5

\* A generateReviews call asks OpenAI, or has its answer.
LEMMA ReviewsMove ==
    ASSUME TypeOK, NEW h \in ReviewHandlers, NEW r, handler' = [handler EXCEPT ![h] = r]
    PROVE  /\ Busy' = Busy
           /\ handler[h].at # "asking" /\ r.at = "asking" =>
                  Cardinality(Asking') = Cardinality(Asking) + 1
           /\ handler[h].at = "asking" /\ r.at # "asking" =>
                  Cardinality(Asking') = Cardinality(Asking) - 1
  <1>1. /\ h \notin FactsHandlers /\ h \in Handlers
        /\ handler'[h] = r /\ \A i \in Handlers : i # h => handler'[i] = handler[i]
    BY ConstantsAssumption DEF TypeOK, Handlers
  <1>2. Busy' = Busy
    BY <1>1 DEF Busy, Handlers
  <1>3. ASSUME handler[h].at # "asking", r.at = "asking"
        PROVE  Cardinality(Asking') = Cardinality(Asking) + 1
    <2>1. Asking' = Asking \cup {h} /\ h \notin Asking
      BY <1>1, <1>3 DEF Asking, Handlers
    <2>. QED BY <2>1, Counted, FS_AddElement
  <1>4. ASSUME handler[h].at = "asking", r.at # "asking"
        PROVE  Cardinality(Asking') = Cardinality(Asking) - 1
    <2>1. Asking' = Asking \ {h} /\ h \in Asking
      BY <1>1, <1>4 DEF Asking, Handlers
    <2>. QED BY <2>1, Counted, FS_RemoveElement
  <1>. QED BY <1>2, <1>3, <1>4

\* Handlers that are released are no longer at work.
LEMMA Released ==
    ASSUME \A h \in Handlers : handler'[h] = handler[h] \/ handler'[h] = Idle
    PROVE  /\ Cardinality(Busy') <= Cardinality(Busy)
           /\ Cardinality(Asking') <= Cardinality(Asking)
  <1>1. Busy' \subseteq Busy /\ Asking' \subseteq Asking
    BY DEF Busy, Asking, Idle, Handlers
  <1>. QED BY <1>1, Counted, FS_Subset

\* All that is counted is a number.
LEMMA Numbered ==
    ASSUME TypeOK
    PROVE  /\ \A c \in {"build", "ask"} : calls[c] \in Nat
           /\ events["new_reviews_scrapped"] \in Nat
           /\ events["generate_product_facts"] \in Nat
           /\ events["product_facts_generated"] \in Nat
           /\ events["generate_reviews"] \in Nat
           /\ batches \in Nat /\ causes \in Nat
  BY DEF TypeOK, EventTypes, FactsEvents, ReviewEvents

\* What is on its way is a number, before a step and after it.
LEMMA UnderwayNat == TypeOK => Underway \in Nat
  BY Numbered, Counted DEF Underway

\* The same by kind.
Called == calls["build"] + calls["ask"]
Queued == events["new_reviews_scrapped"] + events["generate_product_facts"]
          + events["product_facts_generated"] + events["generate_reviews"]

LEMMA UnderwayParts ==
    TypeOK => /\ Called \in Nat /\ Queued \in Nat
              /\ Underway = Called + Queued + Cardinality(Busy) + Cardinality(Asking)
  BY Numbered, Counted DEF Underway, Called, Queued

\* A step that sets nothing off.
LEMMA ChainQuiet ==
    ASSUME TypeOK, UNCHANGED <<events, causes, batches>>,
           calls' = calls \/ calls' = [c \in {"build", "ask"} |-> 0],
           \A h \in Handlers : handler'[h] = handler[h] \/ handler'[h] = Idle
    PROVE  Chain!Lose
  <1>1. \A c \in {"build", "ask"} : calls'[c] \in Nat /\ calls'[c] <= calls[c]
    BY Numbered
  <1>2. calls'["build"] + calls'["ask"] <= calls["build"] + calls["ask"]
    BY <1>1, Numbered
  <1>3. Underway' \in 0 .. Underway
    BY <1>1, <1>2, Numbered, Counted, Released DEF Underway
  <1>. QED BY <1>3 DEF Chain!Lose

\* A step that passes on what is on its way.
LEMMA ChainPassed ==
    ASSUME TypeOK, UNCHANGED <<causes, batches>>, Underway' = Underway
    PROVE  Chain!Lose
  <1>1. Underway' \in 0 .. Underway
    BY UnderwayNat
  <1>. QED BY <1>1 DEF Chain!Lose

\* Every step is one of the chain.
LEMMA ChainStep == TypeOK /\ [Next]_vars => Chain!Next
  <1>. SUFFICES ASSUME TypeOK, [Next]_vars PROVE Chain!Next
    OBVIOUS
  <1>h. FactsHandlers \subseteq Handlers /\ ReviewHandlers \subseteq Handlers
    BY DEF Handlers
  <1>e. EventTypes = {"new_reviews_scrapped", "generate_product_facts",
                      "product_facts_generated", "generate_reviews"}
    BY DEF EventTypes, FactsEvents, ReviewEvents
  <1>p. /\ Called \in Nat /\ Queued \in Nat
        /\ Underway = Called + Queued + Cardinality(Busy) + Cardinality(Asking)
    BY UnderwayParts
  <1>q. /\ Called' \in Nat /\ Queued' \in Nat
        /\ Underway' = Called' + Queued' + Cardinality(Busy)' + Cardinality(Asking)'
    <2>1. (TypeOK => /\ Called \in Nat /\ Queued \in Nat
                     /\ Underway = Called + Queued + Cardinality(Busy) + Cardinality(Asking))'
      BY UnderwayParts, PTL
    <2>. QED BY <2>1, TypeStep
  <1>1. ASSUME UNCHANGED vars PROVE Chain!Lose
    BY <1>1, ChainQuiet DEF vars, counts, output
  <1>2. ASSUME NEW m \in Matches,
               \/ CreateRequest(m) \/ BeginRequest(m) \/ InsertReviews(m) \/ InsertNothing(m)
               \/ SendScrapedFails(m) \/ Redeliver(m)
        PROVE  Chain!Lose
    <2>1. UNCHANGED <<events, causes, batches, calls, handler>>
      BY <1>2 DEF CreateRequest, BeginRequest, InsertReviews, InsertNothing, SendScrapedFails,
                  Redeliver, counts, output
    <2>. QED BY <2>1, ChainQuiet
  <1>3. ASSUME NEW m \in Matches, SendScraped(m) PROVE Chain!Send
    <2>1. /\ events' = [events EXCEPT !["new_reviews_scrapped"] = @ + 1]
          /\ causes' = causes + 1
          /\ UNCHANGED <<calls, handler, batches>>
      BY <1>3 DEF SendScraped, output
    <2>2. Busy' = Busy /\ Asking' = Asking
      BY <2>1 DEF Busy, Asking
    <2>3. /\ events'["new_reviews_scrapped"] = events["new_reviews_scrapped"] + 1
          /\ \A e \in EventTypes : e # "new_reviews_scrapped" => events'[e] = events[e]
      BY <2>1, <1>e DEF TypeOK
    <2>4. Queued' = Queued + 1
      <3>1. /\ events'["generate_product_facts"] = events["generate_product_facts"]
            /\ events'["product_facts_generated"] = events["product_facts_generated"]
            /\ events'["generate_reviews"] = events["generate_reviews"]
        BY <1>e, <2>3
      <3>. QED BY <2>3, <3>1, Numbered DEF Queued
    <2>5. Called' = Called
      BY <2>1 DEF Called
    <2>6. Underway' = Underway + 1
      BY <1>p, <1>q, <2>2, <2>4, <2>5, Counted
    <2>. QED BY <2>1, <2>6 DEF Chain!Send
  <1>4. ASSUME NEW n \in Numbers, GetNewReviews(n) PROVE Chain!Send
    <2>1. /\ causes' = causes + 1
          /\ UNCHANGED <<events, handler, batches>>
      BY <1>4 DEF GetNewReviews, output
    <2>2. calls'["ask"] = calls["ask"] + 1 /\ calls'["build"] = calls["build"]
      BY <1>4 DEF GetNewReviews, TypeOK
    <2>3. Busy' = Busy /\ Asking' = Asking
      BY <2>1 DEF Busy, Asking
    <2>. QED BY <2>1, <2>2, <2>3, Numbered, Counted DEF Chain!Send, Underway
  <1>5. ASSUME BuildFacts PROVE Chain!Send
    <2>1. /\ causes' = causes + 1
          /\ UNCHANGED <<events, handler, batches>>
      BY <1>5 DEF BuildFacts, output
    <2>2. calls'["build"] = calls["build"] + 1 /\ calls'["ask"] = calls["ask"]
      BY <1>5 DEF BuildFacts, TypeOK
    <2>3. Busy' = Busy /\ Asking' = Asking
      BY <2>1 DEF Busy, Asking
    <2>. QED BY <2>1, <2>2, <2>3, Numbered, Counted DEF Chain!Send, Underway
  <1>6. ASSUME NEW c \in {"build", "ask"}, SendCall(c) PROVE Chain!Lose
    <2>1. UNCHANGED <<causes, handler, batches>>
      BY <1>6 DEF SendCall, counts, output
    <2>2. calls'["build"] + calls'["ask"] = calls["build"] + calls["ask"] - 1
      BY <1>6, Numbered DEF SendCall, TypeOK
    <2>3. \A d \in {"build", "ask"} : calls'[d] \in Nat
      BY <1>6 DEF SendCall, TypeOK
    <2>4. EventOf(c) \in EventTypes
      BY <1>e DEF EventOf
    <2>5. /\ events'[EventOf(c)] = events[EventOf(c)] + 1
          /\ \A e \in EventTypes : e # EventOf(c) => events'[e] = events[e]
      BY <1>6, <2>4 DEF SendCall, TypeOK
    <2>6. Busy' = Busy /\ Asking' = Asking
      BY <2>1 DEF Busy, Asking
    <2>7. EventOf(c) = "generate_product_facts" \/ EventOf(c) = "generate_reviews"
      BY DEF EventOf
    <2>8. Queued' = Queued + 1
      <3>1. CASE EventOf(c) = "generate_product_facts"
        <4>1. /\ events'["generate_product_facts"] = events["generate_product_facts"] + 1
              /\ events'["new_reviews_scrapped"] = events["new_reviews_scrapped"]
              /\ events'["product_facts_generated"] = events["product_facts_generated"]
              /\ events'["generate_reviews"] = events["generate_reviews"]
          BY <1>e, <2>5, <3>1
        <4>. QED BY <4>1, Numbered DEF Queued
      <3>2. CASE EventOf(c) = "generate_reviews"
        <4>1. /\ events'["generate_reviews"] = events["generate_reviews"] + 1
              /\ events'["new_reviews_scrapped"] = events["new_reviews_scrapped"]
              /\ events'["generate_product_facts"] = events["generate_product_facts"]
              /\ events'["product_facts_generated"] = events["product_facts_generated"]
          BY <1>e, <2>5, <3>2
        <4>. QED BY <4>1, Numbered DEF Queued
      <3>. QED BY <2>7, <3>1, <3>2
    <2>9. Called' = Called - 1
      BY <2>2, <2>3, Numbered DEF Called
    <2>10. Underway' = Underway
      BY <1>p, <1>q, <2>6, <2>8, <2>9, Counted
    <2>. QED BY <2>1, <2>10, ChainPassed
  <1>7. ASSUME NEW c \in {"build", "ask"}, SendCallFails(c) PROVE Chain!Lose
    <2>1. UNCHANGED <<causes, handler, batches, events>>
      BY <1>7 DEF SendCallFails, counts, output
    <2>2. calls'["build"] + calls'["ask"] = calls["build"] + calls["ask"] - 1
      BY <1>7, Numbered DEF SendCallFails, TypeOK
    <2>3. \A d \in {"build", "ask"} : calls'[d] \in Nat
      BY <1>7 DEF SendCallFails, TypeOK
    <2>4. Busy' = Busy /\ Asking' = Asking
      BY <2>1 DEF Busy, Asking
    <2>5. Underway' \in 0 .. Underway
      BY <2>1, <2>2, <2>3, <2>4, Numbered, Counted, UnderwayNat DEF Underway
    <2>. QED BY <2>1, <2>5 DEF Chain!Lose
  <1>8. ASSUME NEW h \in FactsHandlers, NEW e \in FactsEvents, TakeFacts(h, e) PROVE Chain!Lose
    <2>1. e \in EventTypes /\ UNCHANGED <<causes, calls, batches>>
      BY <1>8 DEF TakeFacts, counts, output, EventTypes
    <2>2. /\ events'[e] = events[e] - 1
          /\ \A x \in EventTypes : x # e => events'[x] = events[x]
      BY <1>8, <2>1 DEF TakeFacts, Take, TypeOK
    <2>3. Cardinality(Busy') = Cardinality(Busy) + 1 /\ Asking' = Asking
      <3>. DEFINE q == [Idle EXCEPT !.at = "checking", !.cause = e,
                                    !.requests = PendingRequests]
      <3>1. q.at = "checking"
        BY DEF Idle
      <3>2. handler' = [handler EXCEPT ![h] = q] /\ handler[h].at = "idle"
        BY <1>8 DEF TakeFacts, Take
      <3>. HIDE DEF q
      <3>. QED BY <3>1, <3>2, FactsMove
    <2>4. e = "new_reviews_scrapped" \/ e = "generate_product_facts"
      BY DEF FactsEvents
    <2>5. Underway' = Underway
      BY <1>e, <2>1, <2>2, <2>3, <2>4, Numbered, Counted DEF Underway
    <2>. QED BY <2>1, <2>5, ChainPassed
  <1>9. ASSUME NEW h \in FactsHandlers, ReadReviews(h) \/ WriteFacts(h) PROVE Chain!Lose
    <2>1. UNCHANGED <<events, causes, calls, batches>>
      BY <1>9 DEF ReadReviews, WriteFacts, counts, output
    <2>2. PICK r : /\ handler' = [handler EXCEPT ![h] = r]
                   /\ handler[h].at # "idle" /\ r.at # "idle"
      <3>1. CASE ReadReviews(h)
        <4>. DEFINE q == [handler[h] EXCEPT !.at = "asking", !.seen = scraped, !.facts = facts]
        <4>1. q.at = "asking" /\ handler' = [handler EXCEPT ![h] = q] /\ handler[h].at = "checking"
          BY <3>1, <1>h DEF ReadReviews, TypeOK
        <4>. QED BY <4>1
      <3>2. CASE WriteFacts(h)
        <4>. DEFINE q == [handler[h] EXCEPT !.at = "sending"]
        <4>1. q.at = "sending" /\ handler' = [handler EXCEPT ![h] = q] /\ handler[h].at = "asking"
          BY <3>2, <1>h DEF WriteFacts, TypeOK
        <4>. QED BY <4>1
      <3>. QED BY <1>9, <3>1, <3>2
    <2>3. Busy' = Busy /\ Asking' = Asking
      BY <2>2, FactsMove
    <2>4. Underway' = Underway
      BY <2>1, <2>3 DEF Underway
    <2>. QED BY <2>1, <2>4, ChainPassed
  <1>10. ASSUME NEW h \in FactsHandlers, SendFactsGenerated(h) PROVE Chain!Lose
    <2>1. UNCHANGED <<causes, calls, batches>>
      BY <1>10 DEF SendFactsGenerated, counts, output
    <2>2. /\ events'["product_facts_generated"] = events["product_facts_generated"] + 1
          /\ \A x \in EventTypes : x # "product_facts_generated" => events'[x] = events[x]
      BY <1>10, <1>e DEF SendFactsGenerated, TypeOK
    <2>3. Cardinality(Busy') = Cardinality(Busy) - 1 /\ Asking' = Asking
      <3>1. handler' = [handler EXCEPT ![h] = Idle] /\ handler[h].at = "sending"
        BY <1>10 DEF SendFactsGenerated, Release
      <3>2. Idle.at = "idle"
        BY DEF Idle
      <3>. QED BY <3>1, <3>2, FactsMove
    <2>4. Underway' = Underway
      BY <1>e, <2>1, <2>2, <2>3, Numbered, Counted DEF Underway
    <2>. QED BY <2>1, <2>4, ChainPassed
  <1>11. ASSUME NEW h \in Handlers, RejectFacts(h) \/ SendFactsFails(h) \/ OpenAIFails(h)
         PROVE  Chain!Lose
    <2>1. Throw(h) /\ UNCHANGED <<events, causes, batches>>
      BY <1>11 DEF RejectFacts, SendFactsFails, OpenAIFails, counts, output
    <2>. QED BY <2>1, ThrowFrees, ChainQuiet
  <1>12. ASSUME NEW h \in ReviewHandlers, NEW e \in ReviewEvents, TakeReviews(h, e) PROVE Chain!Lose
    <2>1. e \in EventTypes /\ UNCHANGED <<causes, calls, batches>>
      BY <1>12 DEF TakeReviews, counts, output, EventTypes
    <2>2. /\ events'[e] = events[e] - 1
          /\ \A x \in EventTypes : x # e => events'[x] = events[x]
      BY <1>12, <2>1 DEF TakeReviews, Take, TypeOK
    <2>3. Cardinality(Asking') = Cardinality(Asking) + 1 /\ Busy' = Busy
      <3>. DEFINE q == [Idle EXCEPT !.at = "asking", !.cause = e, !.facts = facts,
                                    !.pendingReviews = pendingReviews]
      <3>1. q.at = "asking"
        BY DEF Idle
      <3>2. handler' = [handler EXCEPT ![h] = q] /\ handler[h].at = "idle"
        BY <1>12 DEF TakeReviews, Take
      <3>. HIDE DEF q
      <3>. QED BY <3>1, <3>2, ReviewsMove
    <2>4. e = "product_facts_generated" \/ e = "generate_reviews"
      BY DEF ReviewEvents
    <2>5. Underway' = Underway
      BY <1>e, <2>1, <2>2, <2>3, <2>4, Numbered, Counted DEF Underway
    <2>. QED BY <2>1, <2>5, ChainPassed
  <1>13. ASSUME NEW h \in ReviewHandlers, NEW n \in Numbers, CreateReviews(h, n) PROVE Chain!Finish
    <2>1. UNCHANGED <<causes, calls, events>> /\ batches' = batches + 1
      BY <1>13 DEF CreateReviews, counts
    <2>. DEFINE q == [handler[h] EXCEPT !.at = "saving",
                                        !.pendingReviews = handler[h].pendingReviews + n]
    <2>2. q.at = "saving" /\ handler' = [handler EXCEPT ![h] = q] /\ handler[h].at = "asking"
      BY <1>13, <1>h DEF CreateReviews, TypeOK
    <2>. HIDE DEF q
    <2>3. Cardinality(Asking') = Cardinality(Asking) - 1 /\ Busy' = Busy
      BY <2>2, ReviewsMove
    <2>. QED BY <2>1, <2>3, Numbered, Counted DEF Chain!Finish, Underway
  <1>14. ASSUME NEW h \in Handlers, SavePending(h) \/ SaveFails(h) \/ NoAnswer(h) PROVE Chain!Lose
    <2>1. Release(h) /\ UNCHANGED <<events, causes, batches, calls>>
      BY <1>14 DEF SavePending, SaveFails, NoAnswer, counts, output
    <2>2. \A i \in Handlers : handler'[i] = handler[i] \/ handler'[i] = Idle
      BY <2>1 DEF Release, TypeOK
    <2>. QED BY <2>1, <2>2, ChainQuiet
  <1>15. ASSUME ApiCrash PROVE Chain!Lose
    <2>1. Die /\ UNCHANGED <<events, causes, batches>>
      BY <1>15 DEF ApiCrash, counts, output
    <2>. QED BY <2>1, ChainQuiet DEF Die
  <1>16. ASSUME ApiRestart \/ RequestOther \/ BeginOther PROVE Chain!Lose
    BY <1>16, ChainQuiet DEF ApiRestart, RequestOther, BeginOther, counts, output
  <1>. QED
    BY <1>1, <1>2, <1>3, <1>4, <1>5, <1>6, <1>7, <1>8, <1>9, <1>10, <1>11, <1>12, <1>13,
       <1>14, <1>15, <1>16, <1>h DEF Next, Chain!Next, Scrape, HandleFacts, HandleReviews

\* From a scraping or a user's call to an array of reviews, Generation is an
\* at-most-once chain: no interleaving of handlers, no crash and no failed call makes
\* a step do twice, or do unasked, what a message asks for.
THEOREM ChainCorrect == Spec => ImplementsChain
  <1>1. Init => Chain!Init
    <2>. SUFFICES ASSUME Init PROVE Chain!Init
      OBVIOUS
    <2>1. Busy = {} /\ Asking = {}
      BY DEF Init, Busy, Asking, Idle, Handlers
    <2>2. Cardinality(Busy) = 0 /\ Cardinality(Asking) = 0
      BY <2>1, FS_EmptySet
    <2>. QED BY <2>2 DEF Init, Chain!Init, Underway, EventTypes, FactsEvents, ReviewEvents
  <1>2. TypeOK /\ [Next]_vars => [Chain!Next]_<<causes, Underway, batches>>
    BY ChainStep
  <1>. QED BY <1>1, <1>2, TypeCorrect, PTL DEF Spec, ImplementsChain, Chain!Spec

\* Each scraping and each call of a user leads to one array of reviews at the
\* most, for any number of handlers, crashes and overlapping calls: what the chain
\* keeps balanced.
THEOREM OnceEachCorrect == Spec => []OnceEach
  <1>1. Chain!Init => Chain!Balance
    BY DEF Chain!Init, Chain!Balance
  <1>2. Chain!Balance /\ [Chain!Next]_<<causes, Underway, batches>> => Chain!Balance'
    <2>. SUFFICES ASSUME Chain!Balance, [Chain!Next]_<<causes, Underway, batches>>
                  PROVE  Chain!Balance'
      OBVIOUS
    <2>1. causes \in Nat /\ Underway \in Nat /\ batches \in Nat /\ batches + Underway <= causes
      BY DEF Chain!Balance
    <2>2. CASE Chain!Send
      BY <2>1, <2>2 DEF Chain!Send, Chain!Balance
    <2>3. CASE Chain!Lose
      BY <2>1, <2>3 DEF Chain!Lose, Chain!Balance
    <2>4. CASE Chain!Finish
      BY <2>1, <2>4 DEF Chain!Finish, Chain!Balance
    <2>5. CASE UNCHANGED <<causes, Underway, batches>>
      BY <2>5 DEF Chain!Balance
    <2>. QED BY <2>2, <2>3, <2>4, <2>5 DEF Chain!Next
  <1>3. Chain!Balance => OnceEach
    BY DEF Chain!Balance, OnceEach
  <1>. QED BY <1>1, <1>2, <1>3, ChainCorrect, PTL DEF ImplementsChain, Chain!Spec
=============================================================================
