------------------------------ MODULE Discovery ------------------------------
(***************************************************************************)
(* From a product of a user to the candidates OpenAI is asked about.       *)
(*                                                                         *)
(*  - findProductInMarketplaces (API), called by create and by a button,   *)
(*    makes a FIND_PRODUCT request;                                        *)
(*  - the replica that executes it inserts the products it finds, each     *)
(*    with a GET_PRODUCT_INFO request, and pushes all of them on the       *)
(*    matches of the product last;                                         *)
(*  - the API's handlers of check_match events write the whole array of    *)
(*    matches they read before they asked OpenAI (module Matching), so     *)
(*    what a search pushed meanwhile is dropped;                           *)
(*  - the replica that executes a GET_PRODUCT_INFO request reads the page  *)
(*    of a product, and sends a check_match event if that product is then  *)
(*    one of the matches.                                                  *)
(*                                                                         *)
(* The requests are jobs of AtLeastOnce, which module RequestQueue shows   *)
(* AMAZON_QUEUE to implement: a job is attempted while it is queued, and   *)
(* again if the replica dies or loses its connection.  The request of a    *)
(* product has the product's name.                                         *)
(***************************************************************************)
EXTENDS Integers, FiniteSets

CONSTANTS
    Searches,    \* FIND_PRODUCT requests
    Products,    \* ids of the products a search inserts
    Replicas,
    Handlers,    \* check_match handlers the API may have in flight at once
    Wanted,      \* PRODUCTS_TO_SEARCH
    None,
    MaxFailures  \* bound on crashes, closed connections and calls that fail

Requests == Searches \cup Products

ASSUME ConstantsAssumption ==
    /\ IsFiniteSet(Products) /\ IsFiniteSet(Replicas)
    /\ Searches \cap Products = {}
    /\ None \notin Requests
    /\ Wanted \in Nat
    /\ MaxFailures \in Nat

VARIABLES
    status,    \* status of each request document
    stage,     \* stage of each request in AMAZON_QUEUE
    runs,      \* executions of each request begun
    origin,    \* the search that inserted each product
    nth,       \* history: in which of that search's executions
    matches,   \* products in the matches array
    checked,   \* products for which a check_match event was sent
    held,      \* the array of matches each handler has read, if it has
    at,        \* where each replica is in its callback
    task,      \* the request it executes
    turn,      \* history: which execution of that request it is at
    left,      \* products it has found and not yet inserted
    batch,     \* products it has inserted
    cut,       \* replicas whose connection the broker has closed
    early,     \* history: products looked for among the matches in vain
    unread,    \* history: products whose execution, page or event failed
    broken,    \* history: executions of searches that ended before their push
    dropped,   \* history: matches written over by an array read before them
    failures

Queue == INSTANCE AtLeastOnce

queue   == <<stage, runs>>
listed  == <<matches, checked, held, dropped>>
made    == <<origin, nth>>
work    == <<task, turn, left, batch>>
replica == <<at, task, turn, left, batch, cut>>
history == <<early, unread, broken>>
vars    == <<status, queue, made, listed, replica, history, failures>>

Places == {"idle", "beginning", "searching", "inserting", "requesting", "opening",
           "telling", "completing", "failing", "acking"}

TypeOK ==
    /\ status \in [Requests -> {"absent", "sought", "PENDING", "IN_PROGRESS", "COMPLETED", "ERROR"}]
    /\ stage \in [Requests -> {"none", "queued", "done"}]
    /\ runs \in [Requests -> Nat]
    /\ origin \in [Products -> Searches \cup {None}]
    /\ nth \in [Products -> Nat]
    /\ matches \subseteq Products
    /\ checked \subseteq Products
    /\ held \in [Handlers -> SUBSET SUBSET Products]
    /\ dropped \subseteq Products
    /\ at \in [Replicas -> Places]
    /\ task \in [Replicas -> Requests \cup {None}]
    /\ turn \in [Replicas -> Nat]
    /\ left \in [Replicas -> 0 .. Wanted]
    /\ batch \in [Replicas -> SUBSET Products]
    /\ cut \subseteq Replicas
    /\ early \subseteq Products
    /\ unread \subseteq Products
    /\ broken \subseteq Searches \X Nat
    /\ failures \in Nat
    /\ \A w \in Replicas :
          /\ at[w] # "idle" => task[w] \in Requests
          /\ at[w] \in {"searching", "inserting", "requesting"} => task[w] \in Searches
          /\ at[w] \in {"opening", "telling"} => task[w] \in Products

Init ==
    /\ status = [r \in Requests |-> "absent"]
    /\ Queue!Init
    /\ origin = [p \in Products |-> None]
    /\ nth = [p \in Products |-> 0]
    /\ matches = {}
    /\ checked = {}
    /\ held = [h \in Handlers |-> {}]
    /\ at = [w \in Replicas |-> "idle"]
    /\ task = [w \in Replicas |-> None]
    /\ turn = [w \in Replicas |-> 0]
    /\ left = [w \in Replicas |-> 0]
    /\ batch = [w \in Replicas |-> {}]
    /\ cut = {}
    /\ early = {}
    /\ unread = {}
    /\ broken = {}
    /\ dropped = {}
    /\ failures = 0

-----------------------------------------------------------------------------
(* The API.                                                                *)

\* findProductInMarketplaces: requestsService.create looks for an equal PENDING
\* request ...
Seek(s) ==
    /\ status[s] = "absent"
    /\ \A z \in Searches : status[z] # "PENDING"
    /\ status' = [status EXCEPT ![s] = "sought"]
    /\ UNCHANGED <<queue, made, listed, replica, history, failures>>

\* ... and inserts and publishes one if it found none.
Request(s) ==
    /\ status[s] = "sought"
    /\ status' = [status EXCEPT ![s] = "PENDING"]
    /\ Queue!Publish(s)
    /\ UNCHANGED <<made, listed, replica, history, failures>>

\* checkProductMatches of the products service: the button of the product page
\* sends a check_match event for every match.
CheckMatches ==
    /\ matches # {}
    /\ checked' = checked \cup matches
    /\ UNCHANGED <<status, queue, made, matches, held, dropped, replica, history, failures>>

\* checkProductMatches of the OpenAI service, the handler of a check_match event:
\* it reads the matches before it asks ...
ReadArray(h) ==
    /\ held[h] = {}
    /\ checked # {}
    /\ held' = [held EXCEPT ![h] = {matches}]
    /\ UNCHANGED <<status, queue, made, matches, checked, dropped, replica, history, failures>>

\* ... and writes the whole array when it is answered.
WriteArray(h) ==
    \E a \in held[h] :
        /\ matches' = a
        /\ dropped' = dropped \cup (matches \ a)
        /\ held' = [held EXCEPT ![h] = {}]
        /\ UNCHANGED <<status, queue, made, checked, replica, history, failures>>

-----------------------------------------------------------------------------
(* The replicas.                                                           *)

Goto(w, place) == at' = [at EXCEPT ![w] = place]

Failure == failures < MaxFailures /\ failures' = failures + 1

Execution(w) == <<task[w], turn[w]>>

\* A search is past its findProducts and short of its push.
Inserting(w) == at[w] \in {"inserting", "requesting"}

\* Mutant of Begin: a request already begun is passed over.
BeginOnce(w, r) ==
    /\ at[w] = "idle"
    /\ runs[r] = 0
    /\ \A v \in Replicas : task[v] = r => v \in cut
    /\ Queue!Attempt(r)
    /\ Goto(w, "beginning")
    /\ task' = [task EXCEPT ![w] = r]
    /\ turn' = [turn EXCEPT ![w] = runs[r]]
    /\ UNCHANGED <<status, made, listed, left, batch, cut, history, failures>>

\* A message is with one replica, or with another after the broker has closed
\* the connection of the first.
Begin(w, r) ==
    /\ at[w] = "idle"
    /\ \A v \in Replicas : task[v] = r => v \in cut
    /\ Queue!Attempt(r)
    /\ Goto(w, "beginning")
    /\ task' = [task EXCEPT ![w] = r]
    /\ turn' = [turn EXCEPT ![w] = runs[r]]
    /\ UNCHANGED <<status, made, listed, left, batch, cut, history, failures>>

\* setRequestInProgress.
Start(w) ==
    /\ at[w] = "beginning"
    /\ status' = [status EXCEPT ![task[w]] = "IN_PROGRESS"]
    /\ Goto(w, IF task[w] \in Searches THEN "searching" ELSE "opening")
    /\ UNCHANGED <<queue, made, listed, work, cut, history, failures>>

\* setRequestInProgress raises, before or after its write and outside the try of
\* scrapeUrl: nothing is done, no ERROR is written, the message is acknowledged.
StartFails(w) ==
    /\ at[w] = "beginning"
    /\ Failure
    /\ \/ UNCHANGED status
       \/ status' = [status EXCEPT ![task[w]] = "IN_PROGRESS"]
    /\ Goto(w, "acking")
    /\ unread' = unread \cup ({task[w]} \cap Products)
    /\ UNCHANGED <<queue, made, listed, work, cut, early, broken>>

\* findProducts returned n products.
Found(w, n) ==
    /\ at[w] = "searching"
    /\ left' = [left EXCEPT ![w] = n]
    /\ Goto(w, "inserting")
    /\ UNCHANGED <<status, queue, made, listed, task, turn, batch, cut, history, failures>>

Insert(w, p) ==
    /\ origin[p] = None
    /\ origin' = [origin EXCEPT ![p] = task[w]]
    /\ nth' = [nth EXCEPT ![p] = turn[w]]

\* Mutant of CreateProduct: the products are not counted off.
CreateProductUncounted(w, p) ==
    /\ at[w] = "inserting"
    /\ left[w] > 0
    /\ Insert(w, p)
    /\ batch' = [batch EXCEPT ![w] = @ \cup {p}]
    /\ Goto(w, "requesting")
    /\ UNCHANGED <<status, queue, listed, task, turn, left, cut, history, failures>>

\* Mutant of CreateProduct: the list is begun anew with each product.
CreateProductAnew(w, p) ==
    /\ at[w] = "inserting"
    /\ left[w] > 0
    /\ Insert(w, p)
    /\ batch' = [batch EXCEPT ![w] = {p}]
    /\ left' = [left EXCEPT ![w] = @ - 1]
    /\ Goto(w, "requesting")
    /\ UNCHANGED <<status, queue, listed, task, turn, cut, history, failures>>

\* createProduct: a new document, even for a product found before.
CreateProduct(w, p) ==
    /\ at[w] = "inserting"
    /\ left[w] > 0
    /\ Insert(w, p)
    /\ batch' = [batch EXCEPT ![w] = @ \cup {p}]
    /\ left' = [left EXCEPT ![w] = @ - 1]
    /\ Goto(w, "requesting")
    /\ UNCHANGED <<status, queue, listed, task, turn, cut, history, failures>>

\* createRequest for the product inserted last.
CreateRequest(w) ==
    \E p \in batch[w] :
        /\ at[w] = "requesting"
        /\ status[p] = "absent"
        /\ status' = [status EXCEPT ![p] = "PENDING"]
        /\ Queue!Publish(p)
        /\ Goto(w, "inserting")
        /\ UNCHANGED <<made, listed, work, cut, history, failures>>

\* createRequest raises, before or after its insertion.
CreateRequestFails(w) ==
    \E p \in batch[w] :
        /\ at[w] = "requesting"
        /\ status[p] = "absent"
        /\ Failure
        /\ \/ UNCHANGED status
           \/ status' = [status EXCEPT ![p] = "PENDING"]
        /\ Goto(w, "failing")
        /\ broken' = broken \cup {Execution(w)}
        /\ UNCHANGED <<queue, made, listed, work, cut, early, unread>>

\* Mutant of Push: each product is pushed as it is inserted.
PushEach(w) ==
    /\ Inserting(w)
    /\ matches' = matches \cup batch[w]
    /\ Goto(w, IF at[w] = "inserting" /\ left[w] = 0 THEN "completing" ELSE at[w])
    /\ UNCHANGED <<status, queue, made, checked, held, dropped, work, cut, history, failures>>

\* addMatchesToProduct, when every product has its request.  Its product_updated
\* event, which may raise, tells nobody here anything.
Push(w) ==
    /\ at[w] = "inserting"
    /\ left[w] = 0
    /\ matches' = matches \cup batch[w]
    /\ Goto(w, "completing")
    /\ UNCHANGED <<status, queue, made, checked, held, dropped, work, cut, history, failures>>

\* The page could not be read in four attempts: nothing is written, and the
\* request completes all the same.
GiveUp(w) ==
    /\ at[w] = "opening"
    /\ Goto(w, "completing")
    /\ unread' = unread \cup {task[w]}
    /\ UNCHANGED <<status, queue, made, listed, work, cut, early, broken, failures>>

\* The page was read: updateProduct writes what it says, and findProductAsMatch
\* looks for the product among the matches as they are then.
Look(w) ==
    /\ at[w] = "opening"
    /\ Goto(w, IF task[w] \in matches THEN "telling" ELSE "completing")
    /\ early' = early \cup ({task[w]} \ matches)
    /\ UNCHANGED <<status, queue, made, listed, work, cut, unread, broken, failures>>

\* Mutant of Tell: the check_match event is left out.
TellNothing(w) ==
    /\ at[w] = "telling"
    /\ Goto(w, "completing")
    /\ UNCHANGED <<status, queue, made, listed, work, cut, history, failures>>

Tell(w) ==
    /\ at[w] = "telling"
    /\ checked' = checked \cup {task[w]}
    /\ Goto(w, "completing")
    /\ UNCHANGED <<status, queue, made, matches, held, dropped, work, cut, history, failures>>

\* A search, an insertion, a publication or a lookup raises.
Fail(w) ==
    /\ at[w] \in {"searching", "inserting", "requesting", "opening", "telling",
                  "completing"}
    /\ Failure
    /\ Goto(w, "failing")
    /\ unread' = IF task[w] \in Products /\ at[w] # "completing"
                 THEN unread \cup {task[w]} ELSE unread
    /\ broken' = IF Inserting(w) THEN broken \cup {Execution(w)} ELSE broken
    /\ UNCHANGED <<status, queue, made, listed, work, cut, early>>

Finish(w, s) ==
    /\ status' = [status EXCEPT ![task[w]] = s]
    /\ Goto(w, "acking")
    /\ UNCHANGED <<queue, made, listed, work, cut, history, failures>>

Complete(w) == at[w] = "completing" /\ Finish(w, "COMPLETED")

Error(w) == at[w] = "failing" /\ Finish(w, "ERROR")

Forget(w) ==
    /\ Goto(w, "idle")
    /\ task' = [task EXCEPT ![w] = None]
    /\ turn' = [turn EXCEPT ![w] = 0]
    /\ left' = [left EXCEPT ![w] = 0]
    /\ batch' = [batch EXCEPT ![w] = {}]

\* basic_ack.
Ack(w) ==
    /\ at[w] = "acking"
    /\ w \notin cut
    /\ Queue!Finish(task[w])
    /\ Forget(w)
    /\ UNCHANGED <<status, made, listed, cut, history, failures>>

\* basic_ack on a closed connection ends the process; somebody starts it again.
AckFails(w) ==
    /\ at[w] = "acking"
    /\ w \in cut
    /\ cut' = cut \ {w}
    /\ Forget(w)
    /\ UNCHANGED <<status, queue, made, listed, history, failures>>

\* The broker closes the connection of a replica that goes on.
Cut(w) ==
    /\ at[w] # "idle"
    /\ w \notin cut
    /\ Failure
    /\ cut' = cut \cup {w}
    /\ UNCHANGED <<status, queue, made, listed, at, work, history>>

Crash(w) ==
    /\ at[w] # "idle"
    /\ Failure
    /\ cut' = cut \ {w}
    /\ broken' = IF Inserting(w) THEN broken \cup {Execution(w)} ELSE broken
    /\ Forget(w)
    /\ UNCHANGED <<status, queue, made, listed, early, unread>>

-----------------------------------------------------------------------------
Search(w) ==
    \/ \E n \in 0 .. Wanted : Found(w, n)
    \/ \E p \in Products : CreateProduct(w, p)
    \/ CreateRequest(w) \/ Push(w)

ReadProduct(w) == GiveUp(w) \/ Look(w) \/ Tell(w)

Callback(w) ==
    \/ \E r \in Requests : Begin(w, r)
    \/ Start(w)
    \/ Search(w) \/ ReadProduct(w) \/ Complete(w) \/ Error(w) \/ Ack(w) \/ AckFails(w)

Next ==
    \/ \E s \in Searches : Seek(s) \/ Request(s)
    \/ CheckMatches
    \/ \E h \in Handlers : ReadArray(h) \/ WriteArray(h)
    \/ \E w \in Replicas :
           \/ Callback(w)
           \/ StartFails(w) \/ CreateRequestFails(w) \/ Fail(w) \/ Cut(w) \/ Crash(w)

Spec == Init /\ [][Next]_vars

\* A replica takes what is queued and runs its callback on.
FairSpec == Spec /\ \A w \in Replicas : WF_vars(Callback(w))
-----------------------------------------------------------------------------
(* Properties.                                                             *)

InsertedBy(s) == {p \in Products : origin[p] = s}

\* A product on the matches has its request published: whatever fails in the
\* loop of findProductsInAmazon, nothing is listed that nobody will read.
ListedRequested == \A p \in matches : stage[p] # "none"

\* A search inserts no more products than wanted, and as many again only each
\* time its message was delivered again.
InsertedBound == \A s \in Searches : Cardinality(InsertedBy(s)) <= Wanted * runs[s]

\* A product that was inserted and is not listed belongs to the very execution
\* of a search that is still inserting, or to one that itself raised or died
\* before its push - not to another one of that search, which a redelivery may
\* have carried through - or a handler wrote an older array over it.
OrphansFromFailures ==
    \A p \in Products : origin[p] # None /\ p \notin matches =>
        \/ <<origin[p], nth[p]>> \in broken
        \/ p \in dropped
        \/ \E w \in Replicas :
              Inserting(w) /\ p \in batch[w] /\ Execution(w) = <<origin[p], nth[p]>>

\* A match whose request is done was sent to be checked, or the execution of its
\* request failed - setRequestInProgress raised, the page could not be read, the
\* lookup or the event raised - or it was not listed when its page was read.
UncheckedWasEarly ==
    \A p \in matches : stage[p] = "done" => p \in checked \cup unread \cup early

\* Every match comes to that end: again and again there is none left that has
\* not, however often the handlers write older arrays back.
EveryMatchRead == []<>(matches \subseteq checked \cup unread \cup early)
=============================================================================
